----------------------------- MODULE HttpServer -----------------------------
(***************************************************************************)
(* HTTP on one connection: handleRead of server/network_server.go runs the *)
(* middleware pipeline over every chunk that is read and then the HTTP     *)
(* application, which takes the chunk for a request.  The network cuts the *)
(* stream of requests where it likes, but between tokens: what a parser    *)
(* makes of half a word is not explored.  Connections share only the       *)
(* router, to which other goroutines may add routes meanwhile, under its   *)
(* lock.                                                                   *)
(***************************************************************************)
EXTENDS HttpMessages

CONSTANTS Requests,   \* what clients send: the line in three parts, and the body
          Pipelines,  \* the pipelines built with Use
          LateRoutes, \* routes registered while requests are served
          ReadAgain,  \* is a connection read again after its first chunk?
          \* Bounds of the exploration.
          MaxRequests, MaxChunks

HttpAssumption ==
  /\ \A r \in Requests : /\ {r.method, r.path} \subseteq Seq(STRING \ {CRLF, SP})
                         /\ r.rest \in Seq(STRING \ {CRLF}) /\ r.body \in Seq(STRING)
  /\ Pipelines \subseteq Seq({"parser", "responder"})
  /\ \A r \in LateRoutes : r.handler \in Handlers
  /\ ReadAgain \in BOOLEAN /\ MaxRequests \in Nat /\ MaxChunks \in Nat

ASSUME HttpAssumption

VARIABLES
  sent,      \* the requests the client has sent, each with its place in
  stream,    \* their text
  read,      \* how much of it has been read
  pipeline,  \* NetworkServer.pipeline
  routes,    \* Router.routes
  pc,        \* "idle", "down" or "up" the pipeline, "app"
  at,        \* the middleware that runs, or has returned
  data,      \* ctx.Data
  request,   \* ctx.Request
  response,  \* ctx.Response
  failed,    \* the pipeline returns an error
  turns      \* history: for every chunk handled its end and what was written

client == <<sent, stream>>
context == <<at, data, request, response, failed>>
vars == <<client, read, pipeline, routes, pc, context, turns>>

RequestText(r) == r.method \o <<SP>> \o r.path \o r.rest
                    \o <<CRLF, "Host: h", CRLF, CRLF>> \o r.body

\* What the client sends is in the socket, behind what it has sent before.
Send(r) ==
  /\ Len(sent) < MaxRequests
  /\ stream' = stream \o RequestText(r)
  /\ sent' = Append(sent, [request |-> r, from |-> Len(stream), to |-> Len(stream')])
  /\ UNCHANGED <<read, pipeline, routes, pc, context, turns>>

-----------------------------------------------------------------------------
\* A READ event with the next n tokens: handleRead makes the pipeline's context.
Deliver(n) ==
  /\ pc = "idle" /\ Len(turns) < MaxChunks
  /\ ReadAgain \/ read = 0
  /\ n \in 1..(Len(stream) - read)
  /\ data' = SubSeq(stream, read + 1, read + n)
  /\ read' = read + n
  /\ pc' = "down" /\ at' = 1
  /\ request' = NoRequest /\ response' = NewResponse /\ failed' = FALSE
  /\ UNCHANGED <<client, pipeline, routes, turns>>

Runs(name) == pc = "down" /\ at <= Len(pipeline) /\ pipeline[at] = name

\* HTTPParserMiddleware: data of another protocol passes; an HTTP request that
\* cannot be parsed goes no further.
HTTPParserMiddleware ==
  /\ Runs("parser")
  /\ LET req == ParseLoosely(data) IN
     IF IsHTTPRequest(data) /\ req = NoRequest
       THEN failed' = TRUE /\ pc' = "up" /\ at' = at - 1 /\ UNCHANGED request
       ELSE /\ request' = IF IsHTTPRequest(data) THEN req ELSE request
            /\ at' = at + 1 /\ UNCHANGED <<failed, pc>>
  /\ UNCHANGED <<client, read, pipeline, routes, data, response, turns>>

\* Mutant: next passes over a middleware.
HTTPResponseSkip ==
  /\ Runs("responder")
  /\ at' = at + 2
  /\ UNCHANGED <<client, read, pipeline, routes, pc, data, request, response, failed, turns>>

\* HTTPResponseMiddleware begins with the rest of the pipeline.
HTTPResponseMiddleware ==
  /\ Runs("responder")
  /\ at' = at + 1
  /\ UNCHANGED <<client, read, pipeline, routes, pc, data, request, response, failed, turns>>

\* executeMiddleware beyond the last middleware.
EndOfPipeline ==
  /\ pc = "down" /\ at > Len(pipeline)
  /\ pc' = "up" /\ at' = at - 1
  /\ UNCHANGED <<client, read, pipeline, routes, data, request, response, failed, turns>>

\* next returns to a middleware: the responder answers the request of the
\* context, unless there was an error.
ReturnToMiddleware ==
  /\ pc = "up" /\ at > 0
  /\ response' = IF pipeline[at] = "responder" /\ ~failed /\ request # NoRequest
                   THEN CreateHTTPResponse(request) ELSE response
  /\ at' = at - 1
  /\ UNCHANGED <<client, read, pipeline, routes, pc, data, request, failed, turns>>

Turn(out) == turns' = Append(turns, [to |-> read, out |-> out])

\* Pipeline.Execute has returned: after an error the chunk is dropped.
PipelineReturns ==
  /\ pc = "up" /\ at = 0
  /\ IF failed THEN pc' = "idle" /\ Turn(<< >>) ELSE pc' = "app" /\ UNCHANGED turns
  /\ UNCHANGED <<client, read, pipeline, routes, context>>

\* Mutant: writes the answer of the middleware as well.
OnDataBoth ==
  /\ pc = "app"
  /\ \E answer \in Answers(routes, data) :
       Turn(IF request = NoRequest THEN Written(answer) ELSE <<response, answer>>)
  /\ pc' = "idle"
  /\ UNCHANGED <<client, read, pipeline, routes, context>>

\* HTTPApplication.OnData, whose answer handleRead writes if there is one.  It
\* makes an answer of every error, so that handleRead never sees any.
\* ctx.Response stays where it is.
OnData ==
  /\ pc = "app"
  /\ \E answer \in Answers(routes, data) : Turn(Written(answer))
  /\ pc' = "idle"
  /\ UNCHANGED <<client, read, pipeline, routes, context>>

\* Router.Handle, from any goroutine.
Register(r) ==
  /\ routes' = [k \in DOMAIN routes \union {<<r.method, r.pattern>>} |->
                  IF k = <<r.method, r.pattern>> THEN r.handler ELSE routes[k]]
  /\ UNCHANGED <<client, read, pipeline, pc, context, turns>>

-----------------------------------------------------------------------------
Init ==
  /\ sent = << >> /\ stream = << >> /\ read = 0
  /\ pipeline \in Pipelines /\ routes = DefaultRoutes
  /\ pc = "idle" /\ at = 0 /\ data = << >>
  /\ request = NoRequest /\ response = NewResponse /\ failed = FALSE
  /\ turns = << >>

HandleRead == \/ HTTPParserMiddleware \/ HTTPResponseMiddleware \/ EndOfPipeline
              \/ ReturnToMiddleware \/ PipelineReturns \/ OnData

Next == \/ \E r \in Requests : Send(r)
        \/ \E n \in 1..Len(stream) : Deliver(n)
        \/ HandleRead
        \/ \E r \in LateRoutes : Register(r)

Spec == Init /\ [][Next]_vars

-----------------------------------------------------------------------------
From(i) == IF i = 1 THEN 0 ELSE turns[i - 1].to

Chunk(i) == SubSeq(stream, From(i) + 1, turns[i].to)

TypeOK ==
  /\ read \in 0..Len(stream)
  /\ pc \in {"idle", "down", "up", "app"}
  /\ at \in 0..Len(pipeline) + 1
  /\ failed \in BOOLEAN
  /\ \A i \in 1..Len(turns) : turns[i].to \in From(i) + 1..read

\* The application understands the data, and a handler that answers nothing
\* may have been registered for the request.
MayBeSilent(d) ==
  LET req == ParseHTTPRequest(d) IN
  /\ req # NoRequest
  /\ \E r \in LateRoutes : /\ r.handler = "silent"
                           /\ \/ r.method = req.method /\ r.pattern = req.path
                              \/ Covers(<<r.method, r.pattern>>, req.method, req.path)

\* Every chunk handled is answered once, however many middlewares have had an
\* answer of their own.  Not answered are only a chunk whose first line begins
\* like a request and is cut before its third part, if the pipeline parses, and
\* perhaps one for whose request a silent handler is registered.
OneAnswerPerChunk ==
  \A i \in 1..Len(turns) :
    LET cut == /\ "parser" \in ToSet(pipeline) /\ IsHTTPRequest(Chunk(i))
               /\ Len(Split(Split(Chunk(i), CRLF)[1], SP)) < 3
    IN  Len(turns[i].out) \in IF cut THEN {0} ELSE IF MayBeSilent(Chunk(i)) THEN {0, 1} ELSE {1}

\* What the application's routes say to a request, as it was sent.
Expected(r) == {Handle(h, r.body) : h \in Match(routes, r.method, r.path)}

\* A well-formed request that is read whole and alone is answered as its route
\* says at that moment, through every pipeline, whatever bytes its body holds
\* and whatever was read before (handleRead, ParseHTTPRequest, Match).
WholeRequestsAnswered ==
  [][\A k \in 1..Len(sent) :
       /\ Len(turns') > Len(turns) /\ sent[k].request.rest = <<SP, "HTTP/1.1">>
       /\ Last(turns').to = sent[k].to /\ read - Len(data) = sent[k].from
       => \E answer \in Expected(sent[k].request) : Last(turns').out = Written(answer)]_vars

\* Two parsers read every chunk.  When both take it for a request, they take it
\* for the same one: method, path and every token of the body.
ParsersAgree ==
  pc = "app" /\ request # NoRequest /\ ParseHTTPRequest(data) # NoRequest
    => request = ParseHTTPRequest(data)
=============================================================================
