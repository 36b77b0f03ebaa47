---------------------------- MODULE HttpMessages ----------------------------
(***************************************************************************)
(* Requests, routes and answers of transport/http and middleware/http.go,  *)
(* without state.  Text is a sequence of tokens: CRLF, SP, and words that  *)
(* hold neither.  A path is the sequence of its pieces, cut so that a      *)
(* prefix of the string is a prefix of the sequence.  Header lines are     *)
(* single words: both parsers fill a map with them that decides nothing.   *)
(***************************************************************************)
EXTENDS Integers, Sequences, FiniteSets, SequencesExt

CRLF == "\\r\\n"
SP == " "

Places(x, s) == {i \in 1..Len(s) : s[i] = x}

\* Where the k-th part of s ends: at the k-th separator, or behind s.
End(s, sep, k) ==
  LET ends == Places(sep, s) IN
  IF k = 0 THEN 0 ELSE IF k > Cardinality(ends) THEN Len(s) + 1
  ELSE CHOOSE i \in ends : Cardinality({j \in ends : j <= i}) = k

\* bytes.Split, strings.Split
Split(s, sep) == [k \in 1..Cardinality(Places(sep, s)) + 1 |->
                    SubSeq(s, End(s, sep, k - 1) + 1, End(s, sep, k) - 1)]

\* strings.Join of the parts of s from the k-th on, with what they were cut at.
JoinFrom(s, sep, k) == SubSeq(s, End(s, sep, k - 1) + 1, Len(s))

-----------------------------------------------------------------------------
(* The two parsers. *)

\* The nil of the parsers: it has none of the fields of a request.
NoRequest == [none |-> TRUE]

\* Mutant: the header ends at the last empty line.
ParseLastBlank(data) ==
  LET ends == {i \in 1..Len(data) - 1 : data[i] = CRLF /\ data[i + 1] = CRLF} IN
  IF ends = {} THEN NoRequest
  ELSE LET end == Max(ends)
           parts == Split(Split(SubSeq(data, 1, end - 1), CRLF)[1], SP)
       IN  IF Len(parts) # 3 THEN NoRequest
           ELSE [method |-> parts[1], path |-> parts[2],
                 body |-> SubSeq(data, end + 2, Len(data))]

\* ParseHTTPRequest (parser.go): up to the first empty line the header, of which
\* the first line has exactly three parts; all the rest is the body.
ParseHTTPRequest(data) ==
  LET ends == {i \in 1..Len(data) - 1 : data[i] = CRLF /\ data[i + 1] = CRLF} IN
  IF ends = {} THEN NoRequest
  ELSE LET end == Min(ends)
           parts == Split(Split(SubSeq(data, 1, end - 1), CRLF)[1], SP)
       IN  IF Len(parts) # 3 THEN NoRequest
           ELSE [method |-> parts[1], path |-> parts[2],
                 body |-> SubSeq(data, end + 2, Len(data))]

HttpMethods == {"GET", "POST", "PUT", "DELETE", "HEAD", "OPTIONS", "PATCH"}

IsHTTPRequest(data) == \E m \in HttpMethods : IsPrefix(<<m, SP>>, data)

\* Mutant: the body begins at the empty line.
ParseLooseBlank(data) ==
  LET lines == Split(data, CRLF)
      parts == Split(lines[1], SP)
      blanks == {i \in 2..Len(lines) : lines[i] = << >>}
  IN  IF Len(parts) < 3 THEN NoRequest
      ELSE [method |-> parts[1], path |-> parts[2],
            body |-> IF blanks = {} THEN << >>
                     ELSE JoinFrom(data, CRLF, Min(blanks))]

\* parseHTTPRequest (middleware/http.go): three parts or more, the header need
\* not end, and what follows the first empty line is put together again.
ParseLoosely(data) ==
  LET lines == Split(data, CRLF)
      parts == Split(lines[1], SP)
      blanks == {i \in 2..Len(lines) - 1 : lines[i] = << >>}
  IN  IF Len(parts) < 3 THEN NoRequest
      ELSE [method |-> parts[1], path |-> parts[2],
            body |-> IF blanks = {} THEN << >>
                     ELSE JoinFrom(data, CRLF, Min(blanks) + 1)]

-----------------------------------------------------------------------------
(* Answers: the status and the body.  Headers are left out. *)

NewResponse == [status |-> 200, body |-> << >>]

Status(r, code) == [r EXCEPT !.status = code]

Body(r, data) == [r EXCEPT !.body = data]

Text(r, word) == Body(r, <<word>>)

CreateErrorResponse(code, message) ==
  [status |-> code, body |-> <<message>>]

\* The empty slice a handler may return without an error.
NoAnswer == [status |-> 0, body |-> << >>]

\* What handleRead writes of an answer of the application: nothing, if it is empty.
Written(answer) == IF answer = NoAnswer THEN << >> ELSE <<answer>>

\* createHTTPResponse, the answer of HTTPResponseMiddleware.
CreateHTTPResponse(req) ==
  LET ok(data) == Body(NewResponse, data)
      bare(code) == Status(NewResponse, code)
      post == req.method = <<"POST">>
  IN  CASE req.path = <<"/">>     -> ok(<<"hello">>)
        [] req.path = <<"/ping">> -> IF post THEN ok(<<"pong">>) ELSE bare(405)
        [] req.path = <<"/echo">> -> IF post THEN ok(req.body) ELSE bare(405)
        [] OTHER                  -> bare(404)

-----------------------------------------------------------------------------
(* The router: a function from methods and patterns to handlers. *)

DefaultRoutes ==
  [k \in {<< <<"GET">>, <<"/">> >>, << <<"POST">>, <<"/ping">> >>,
          << <<"POST">>, <<"/echo">> >>, << <<"GET">>, <<"/api/status">> >>,
          << <<"POST">>, <<"/upload">> >>, << <<"GET">>, <<"/media", "/*">> >>,
          << <<"GET">>, <<"/health">> >>} |-> k[2][1]]

\* What an application may register: of a HandlerFunc it matters whether it
\* returns an error ("broken"), nothing ("silent") or an answer.
Handlers == {DefaultRoutes[k] : k \in DOMAIN DefaultRoutes} \union {"broken", "silent"}

NoHandler == "none"

\* Is this route a wildcard whose prefix the path has?
Covers(k, method, path) ==
  k[1] = method /\ Last(k[2]) = "/*" /\ IsPrefix(Front(k[2]), path)

\* Router.Match: the route itself, or else one of the wildcards, whichever the
\* iteration over the map comes to first.
Match(routes, method, path) ==
  LET wild == {k \in DOMAIN routes : Covers(k, method, path)}
  IN  IF <<method, path>> \in DOMAIN routes THEN {routes[<<method, path>>]}
      ELSE IF wild = {} THEN {NoHandler} ELSE {routes[k] : k \in wild}

\* The handlers of DefaultHandlers by their path, and those of an application.
Handle(handler, body) ==
  CASE handler = NoHandler     -> CreateErrorResponse(404, "Not Found")
    [] handler = "broken"      -> CreateErrorResponse(500, "Internal Server Error")
    [] handler = "silent"      -> NoAnswer
    [] handler = "/"           -> Text(NewResponse, "hello")
    [] handler = "/ping"       -> Text(NewResponse, "pong")
    [] handler = "/echo"       -> IF body = << >>
                                    THEN Text(Status(NewResponse, 400), "No body provided")
                                    ELSE Body(NewResponse, body)
    [] handler = "/api/status" -> Body(NewResponse, <<"status">>)
    [] handler = "/upload"     -> Body(NewResponse, <<"message", ToString(Len(body))>>)
    [] handler = "/media"      -> Text(Status(NewResponse, 404), "Media serving")
    [] handler = "/health"     -> Text(NewResponse, "OK")

\* What HTTPApplication.OnData may answer to this data, and no error ever.
Answers(routes, data) ==
  LET req == ParseHTTPRequest(data) IN
  IF req = NoRequest THEN {CreateErrorResponse(400, "Bad Request")}
  ELSE {Handle(h, req.body) : h \in Match(routes, req.method, req.path)}
=============================================================================
