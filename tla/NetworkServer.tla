--------------------------- MODULE NetworkServer ---------------------------
(***************************************************************************)
(* The event loop of server/network_server.go over the io_uring engine of  *)
(* core/engine: accepting, reading, answering, draining.  The kernel and   *)
(* the clients are modelled from how the engine uses them: completions are *)
(* queued in the order the kernel posts them, ReceiveData takes the whole  *)
(* queue, and Serve handles the events it returns one after the other.     *)
(*                                                                         *)
(* Submission is one atomic step here (module SubmissionRing looks inside) *)
(* and the byte rings of a peer are not shown (ByteRing, SendPath).        *)
(***************************************************************************)
EXTENDS Integers, Sequences

CONSTANTS Fds,            \* the descriptors accept may return
          InitialQueue,   \* what NewNetworkServer puts in sendingQueue
          NumBufs,        \* provided buffers: 256 in the code
          \* Bounds of the exploration.
          MaxChunks,      \* what a client sends, in reads
          MaxCQ           \* how far the completion queue grows

NoFd == -1                \* the descriptor of a failed accept

ServerAssumption ==
  /\ NoFd \notin Fds
  /\ InitialQueue \in Seq(Int)
  /\ NumBufs \in Nat /\ MaxChunks \in Nat /\ MaxCQ \in Nat

ASSUME ServerAssumption

VARIABLES
  \* The Serve goroutine.
  status,       \* "running", "draining", "stopped", or "panicked"
  pc,           \* where the loop is: "send", "receive", "handle", "drain"
  batch,        \* the events still to be handled in this turn
  connections,  \* the descriptors that have a peer
  \* The context, the shutdown goroutine and the clock.
  cancelled,    \* ctx is done
  ticking,      \* engine.PrepareClose has started the multishot timeout
  late,         \* drainingDeadline has passed
  \* The kernel and the clients.
  cq,           \* completions posted and not yet taken
  accepting,    \* the multishot accept is armed
  cancelSent,   \* an async cancel of the accept was submitted
  reads,        \* descriptors with a read outstanding
  writes,       \* writes outstanding, per descriptor
  bufs,         \* provided buffers the kernel still owns
  accepted,     \* descriptors accept has returned
  sent,         \* chunks each client has sent
  taken,        \* chunks the kernel has read
  closed,       \* descriptors whose client has closed
  \* History of the run.
  refused,      \* descriptors handleAccept gave up
  lost,         \* descriptors whose accept event was never returned
  delivered,    \* chunks handed to the application
  dropped       \* chunks a middleware error kept from it, or never returned

serve == <<status, pc, batch, connections>>
outside == <<cancelled, ticking, late>>
kernel == <<cq, accepting, cancelSent, reads, writes, bufs, accepted, sent, taken,
            closed>>
history == <<refused, lost, delivered, dropped>>
vars == <<serve, outside, kernel, history>>

-----------------------------------------------------------------------------
(* Completions, as the engine tells them apart. *)

\* An accept that returned fd, or failed with an error other than ECANCELED.
AcceptDone(fd) == [type |-> "ACCEPT", fd |-> fd, chunk |-> 0]

\* A read of chunk k into a provided buffer; k = 0 is an empty read (EOF).
ReadDone(fd, k) == [type |-> "READ", fd |-> fd, chunk |-> k]

\* A read that failed: -ENOBUFS, or an error and no IORING_CQE_F_BUFFER.
ReadFailed(fd) == [type |-> "READ_FAILED", fd |-> fd, chunk |-> 0]

\* A write; its result matters to the peer's ring only (module SendPath).
WriteDone(fd) == [type |-> "WRITE", fd |-> fd, chunk |-> 0]

\* A timeout, the result of a cancel, a cancelled accept: ReceiveData skips
\* them.  They are kept as events no case of Serve's switch matches.
Silent == [type |-> "SILENT", fd |-> NoFd, chunk |-> 0]

Completions ==
  {AcceptDone(fd) : fd \in Fds \union {NoFd}} \union {Silent}
  \union {ReadDone(fd, k) : fd \in Fds, k \in 0..MaxChunks}
  \union {ReadFailed(fd) : fd \in Fds} \union {WriteDone(fd) : fd \in Fds}

Elements(s) == {s[i] : i \in 1..Len(s)}

Post(c) == Len(cq) < MaxCQ /\ cq' = Append(cq, c)

-----------------------------------------------------------------------------
(* The clients and the kernel. *)

\* A client sends a chunk on a connection the kernel has accepted.
Send(fd) ==
  /\ fd \in accepted \ closed /\ sent[fd] < MaxChunks
  /\ sent' = [sent EXCEPT ![fd] = @ + 1]
  /\ UNCHANGED <<serve, outside, history, cq, accepting, cancelSent, reads, writes,
                 bufs, accepted, taken, closed>>

\* A connection arrives while the accept is armed.
Accept(fd) ==
  /\ accepting /\ fd \notin accepted
  /\ Post(AcceptDone(fd))
  /\ accepted' = accepted \union {fd}
  /\ UNCHANGED <<serve, outside, history, accepting, cancelSent, reads, writes,
                 bufs, sent, taken, closed>>

\* The accept ends with an error (EMFILE, say): a multishot that fails is done.
AcceptFails ==
  /\ accepting
  /\ Post(AcceptDone(NoFd))
  /\ accepting' = FALSE
  /\ UNCHANGED <<serve, outside, history, cancelSent, reads, writes, bufs,
                 accepted, sent, taken, closed>>

\* The async cancel reaches the accept (once, so MaxCQ need not hold it back).
AcceptCancelled ==
  /\ accepting /\ cancelSent
  /\ cq' = Append(cq, Silent)
  /\ accepting' = FALSE
  /\ UNCHANGED <<serve, outside, history, cancelSent, reads, writes, bufs,
                 accepted, sent, taken, closed>>

\* A read completes with the next chunk, in a buffer nobody gives back.
ReadCompletes(fd) ==
  /\ fd \in reads /\ taken[fd] < sent[fd] /\ bufs > 0
  /\ Post(ReadDone(fd, taken[fd] + 1))
  /\ taken' = [taken EXCEPT ![fd] = @ + 1]
  /\ reads' = reads \ {fd} /\ bufs' = bufs - 1
  /\ UNCHANGED <<serve, outside, history, accepting, cancelSent, writes,
                 accepted, sent, closed>>

\* The client has closed its side.
ReadEnds(fd) ==
  /\ fd \in reads /\ taken[fd] = sent[fd] /\ bufs > 0
  /\ Post(ReadDone(fd, 0))
  /\ closed' = closed \union {fd}
  /\ reads' = reads \ {fd} /\ bufs' = bufs - 1
  /\ UNCHANGED <<serve, outside, history, accepting, cancelSent, writes,
                 accepted, sent, taken>>

\* No provided buffer is left, or the connection was reset.
ReadFails(fd) ==
  /\ fd \in reads
  /\ Post(ReadFailed(fd))
  /\ reads' = reads \ {fd}
  /\ UNCHANGED <<serve, outside, history, accepting, cancelSent, writes, bufs,
                 accepted, sent, taken, closed>>

WriteCompletes(fd) ==
  /\ writes[fd] > 0
  /\ Post(WriteDone(fd))
  /\ writes' = [writes EXCEPT ![fd] = @ - 1]
  /\ UNCHANGED <<serve, outside, history, accepting, cancelSent, reads, bufs,
                 accepted, sent, taken, closed>>

\* The multishot timeout of engine.PrepareClose fires.
Tick ==
  /\ ticking
  /\ Post(Silent)
  /\ UNCHANGED <<serve, outside, history, accepting, cancelSent, reads, writes,
                 bufs, accepted, sent, taken, closed>>

-----------------------------------------------------------------------------
(* Shutdown. *)

Cancel ==
  /\ ~cancelled
  /\ cancelled' = TRUE
  /\ UNCHANGED <<serve, ticking, late, kernel, history>>

\* The goroutine that waits for ctx and calls engine.PrepareClose.
StartTicking ==
  /\ cancelled /\ ~ticking /\ status # "panicked"
  /\ ticking' = TRUE
  /\ UNCHANGED <<serve, cancelled, late, kernel, history>>

\* Ten seconds of draining have passed.
DeadlinePasses ==
  /\ status = "draining" /\ ~late
  /\ late' = TRUE
  /\ UNCHANGED <<serve, cancelled, ticking, kernel, history>>

-----------------------------------------------------------------------------
(* The Serve loop. *)

\* The send pass: every queued descriptor is looked up in connections and its
\* peer used unchecked.  Nobody sends on sendingPeer, so the queue stays as
\* NewNetworkServer made it.
SendPass ==
  /\ pc = "send"
  /\ IF Elements(InitialQueue) \subseteq connections
       THEN pc' = "receive" /\ UNCHANGED status
       ELSE pc' = "dead" /\ status' = "panicked"
  /\ UNCHANGED <<batch, connections, outside, kernel, history>>

\* Completions that make ReceiveData return nil, nil.
GivesUp(s) == \E c \in Elements(s) : c.type = "READ_FAILED"

Accepts(s) == {c.fd : c \in {d \in Elements(s) : d.type = "ACCEPT" /\ d.fd # NoFd}}

Chunks(s) == {<<c.fd, c.chunk>> : c \in {d \in Elements(s) : d.type = "READ" /\ d.chunk > 0}}

\* Mutant: returns the event of one completion, of all it has taken.
ReceiveDataOne ==
  /\ pc = "receive"
  /\ cq' = << >>
  /\ pc' = "handle"
  /\ IF GivesUp(cq)
       THEN /\ batch' = << >>
            /\ lost' = lost \union Accepts(cq)
            /\ dropped' = dropped \union Chunks(cq)
       ELSE batch' = (IF cq = << >> THEN cq ELSE <<Head(cq)>>) /\ UNCHANGED <<lost, dropped>>
  /\ UNCHANGED <<status, connections, outside, accepting, cancelSent, reads,
                 writes, bufs, accepted, sent, taken, closed, refused, delivered>>

\* ReceiveData takes every completion posted so far.  It returns their events,
\* or nothing at all if one of them is a failed read.
ReceiveData ==
  /\ pc = "receive"
  /\ cq' = << >>
  /\ pc' = "handle"
  /\ IF GivesUp(cq)
       THEN /\ batch' = << >>
            /\ lost' = lost \union Accepts(cq)
            /\ dropped' = dropped \union Chunks(cq)
       ELSE batch' = cq /\ UNCHANGED <<lost, dropped>>
  /\ UNCHANGED <<status, connections, outside, accepting, cancelSent, reads,
                 writes, bufs, accepted, sent, taken, closed, refused, delivered>>

\* The next event of the batch, of this type.
Event(type) == /\ pc = "handle" /\ batch # << >> /\ Head(batch).type = type
               /\ batch' = Tail(batch)

\* The peer is registered and RegisterRead submits its first read.
Admit(fd) ==
  /\ connections' = connections \union {fd}
  /\ reads' = reads \union {fd}
  /\ UNCHANGED refused

\* GetSockAddr fails, or the application rejects the connection: the peer is not
\* kept.
Refuse(fd) ==
  /\ refused' = refused \union {fd}
  /\ connections' = connections \ {fd}
  /\ UNCHANGED reads

\* Mutant: registers the read before the application is asked.
HandleAcceptEarly ==
  /\ Event("ACCEPT")
  /\ LET fd == Head(batch).fd IN
     IF fd = NoFd THEN UNCHANGED <<connections, reads, refused>>
     ELSE /\ reads' = reads \union {fd}
          /\ \/ connections' = connections \union {fd} /\ UNCHANGED refused
             \/ refused' = refused \union {fd} /\ UNCHANGED connections
  /\ UNCHANGED <<status, pc, outside, cq, accepting, cancelSent, writes, bufs,
                 accepted, sent, taken, closed, lost, delivered, dropped>>

\* Mutant: does not look whether the accept failed.
HandleAcceptUnchecked ==
  /\ Event("ACCEPT")
  /\ LET fd == Head(batch).fd IN
     Admit(fd) \/ Refuse(fd)
  /\ UNCHANGED <<status, pc, outside, cq, accepting, cancelSent, writes, bufs,
                 accepted, sent, taken, closed, lost, delivered, dropped>>

\* Mutant: an application error leaves the peer in connections.
HandleAcceptKeep ==
  /\ Event("ACCEPT")
  /\ LET fd == Head(batch).fd IN
     IF fd = NoFd THEN UNCHANGED <<connections, reads, refused>>
     ELSE /\ connections' = connections \union {fd}
          /\ \/ reads' = reads \union {fd} /\ UNCHANGED refused
             \/ refused' = refused \union {fd} /\ UNCHANGED reads
  /\ UNCHANGED <<status, pc, outside, cq, accepting, cancelSent, writes, bufs,
                 accepted, sent, taken, closed, lost, delivered, dropped>>

\* handleAccept: a failed accept is ignored.
HandleAccept ==
  /\ Event("ACCEPT")
  /\ LET fd == Head(batch).fd IN
     IF fd = NoFd THEN UNCHANGED <<connections, reads, refused>>
     ELSE Admit(fd) \/ Refuse(fd)
  /\ UNCHANGED <<status, pc, outside, cq, accepting, cancelSent, writes, bufs,
                 accepted, sent, taken, closed, lost, delivered, dropped>>

\* handleRead: empty data and an unknown peer are ignored.  A middleware that
\* fails keeps the data from the application; an application that answers has
\* its response submitted as a write.
HandleRead ==
  /\ Event("READ")
  /\ LET fd == Head(batch).fd
         k == Head(batch).chunk
     IN  IF k = 0 \/ fd \notin connections
           THEN UNCHANGED <<writes, delivered, dropped>>
           ELSE \/ /\ dropped' = dropped \union {<<fd, k>>}
                   /\ UNCHANGED <<writes, delivered>>
                \/ /\ delivered' = [delivered EXCEPT ![fd] = Append(@, k)]
                   /\ \E answer \in {0, 1} :
                        writes' = [writes EXCEPT ![fd] = @ + answer]
                   /\ UNCHANGED dropped
  /\ UNCHANGED <<status, pc, connections, outside, cq, accepting, cancelSent, reads,
                 bufs, accepted, sent, taken, closed, refused, lost>>

\* handleWrite: debits the peer's writer (module SendPath).
HandleWrite ==
  /\ Event("WRITE")
  /\ UNCHANGED <<status, pc, connections, outside, kernel, history>>

HandleSilent ==
  /\ Event("SILENT")
  /\ UNCHANGED <<status, pc, connections, outside, kernel, history>>

\* Mutant: drains without cancelling the accept.
DrainAccepting ==
  /\ pc = "handle" /\ batch = << >>
  /\ IF status = "running" /\ cancelled
       THEN status' = "draining" /\ pc' = "send"
       ELSE IF status = "draining" /\ late
         THEN status' = "stopped" /\ pc' = "dead"
         ELSE pc' = "send" /\ UNCHANGED status
  /\ UNCHANGED <<batch, connections, outside, kernel, history>>

\* Mutant: leaves the loop only when the last peer is gone.
DrainForPeers ==
  /\ pc = "handle" /\ batch = << >>
  /\ IF status = "running" /\ cancelled
       THEN status' = "draining" /\ pc' = "send" /\ cancelSent' = TRUE
       ELSE /\ UNCHANGED cancelSent
            /\ IF status = "draining" /\ late /\ connections = {}
                 THEN status' = "stopped" /\ pc' = "dead"
                 ELSE pc' = "send" /\ UNCHANGED status
  /\ UNCHANGED <<batch, connections, outside, cq, accepting, reads, writes, bufs,
                 accepted, sent, taken, closed, history>>

\* The end of a turn.  The first turn that sees ctx done starts to drain and
\* cancels the accept; peers are told only if idle, and no peer ever leaves
\* the state "new".  A turn that sees the deadline passed leaves the loop.
Drain ==
  /\ pc = "handle" /\ batch = << >>
  /\ IF status = "running" /\ cancelled
       THEN status' = "draining" /\ pc' = "send" /\ cancelSent' = TRUE
       ELSE /\ UNCHANGED cancelSent
            /\ IF status = "draining" /\ late
                 THEN status' = "stopped" /\ pc' = "dead"
                 ELSE pc' = "send" /\ UNCHANGED status
  /\ UNCHANGED <<batch, connections, outside, cq, accepting, reads, writes, bufs,
                 accepted, sent, taken, closed, history>>

-----------------------------------------------------------------------------
\* Listen has armed the multishot accept.
Listening ==
  /\ cq = << >> /\ accepting = TRUE /\ cancelSent = FALSE /\ reads = {}
  /\ writes = [fd \in Fds |-> 0] /\ bufs = NumBufs /\ accepted = {}
  /\ sent = [fd \in Fds |-> 0] /\ taken = [fd \in Fds |-> 0] /\ closed = {}

\* Serve begins.
Init ==
  /\ status = "running" /\ pc = "send" /\ batch = << >> /\ connections = {}
  /\ cancelled = FALSE /\ ticking = FALSE /\ late = FALSE
  /\ Listening
  /\ refused = {} /\ lost = {} /\ delivered = [fd \in Fds |-> << >>]
  /\ dropped = {}

\* A read whose data has arrived completes.
ReadOfData(fd) == taken[fd] < sent[fd] /\ (ReadCompletes(fd) \/ ReadFails(fd))

Client == \E fd \in Fds : Send(fd)

Kernel == \/ AcceptFails \/ AcceptCancelled \/ Tick
          \/ \E fd \in Fds : \/ Accept(fd) \/ ReadCompletes(fd) \/ ReadEnds(fd)
                              \/ ReadFails(fd) \/ WriteCompletes(fd)

Serve == \/ SendPass \/ ReceiveData
         \/ HandleAccept \/ HandleRead \/ HandleWrite \/ HandleSilent
         \/ Drain

Next == Client \/ Kernel \/ Serve \/ Cancel \/ StartTicking \/ DeadlinePasses

\* Serve never blocks: with the wait commented out the loop spins.  The clock
\* advances, a cancel the kernel has been given takes effect, and a read of
\* data that has arrived completes, one way or the other.
Fairness ==
  /\ WF_vars(Serve)
  /\ WF_vars(DeadlinePasses)
  /\ WF_vars(AcceptCancelled)
  /\ \A fd \in Fds : SF_vars(ReadOfData(fd))

Spec == Init /\ [][Next]_vars /\ Fairness

-----------------------------------------------------------------------------
TypeOK ==
  /\ status \in {"running", "draining", "stopped", "panicked"}
  /\ pc \in {"send", "receive", "handle", "dead"}
  /\ batch \in Seq(Completions) /\ cq \in Seq(Completions)
  /\ connections \subseteq Fds /\ reads \subseteq Fds
  /\ {cancelled, ticking, late, accepting, cancelSent} \subseteq BOOLEAN
  /\ writes \in [Fds -> Nat] /\ bufs \in 0..NumBufs
  /\ accepted \subseteq Fds /\ closed \subseteq Fds
  /\ sent \in [Fds -> 0..MaxChunks] /\ taken \in [Fds -> 0..MaxChunks]
  /\ refused \subseteq Fds /\ lost \subseteq Fds
  /\ delivered \in [Fds -> Seq(1..MaxChunks)]
  /\ dropped \subseteq Fds \X (1..MaxChunks)

\* Operations of a connection, from the submission to the end of the handler.
Answers(s, fd) == \E c \in Elements(s) : c.fd = fd /\ c.type \notin {"ACCEPT", "SILENT"}

\* Whatever the order of completions, and whatever is thrown away with a batch,
\* an operation is outstanding, and a completion is handled, only for a
\* connection that has its peer: the "Peer not found" branches of handleRead
\* and handleWrite are never taken.
PeersKnown ==
  \A fd \in Fds :
    fd \in reads \/ writes[fd] > 0 \/ Answers(cq, fd) \/ Answers(batch, fd)
      => fd \in connections

Announced == Accepts(cq) \union Accepts(batch)

\* No accepted descriptor disappears without trace or is registered twice: it
\* waits to be handled, has a peer, was refused by handleAccept, or was thrown
\* away with its batch by ReceiveData, and only one of these.
AcceptsAccounted ==
  /\ accepted = Announced \union connections \union refused \union lost
  /\ Accepts(cq) \intersect Accepts(batch) = {}
  /\ Announced \intersect (connections \union refused \union lost) = {}
  /\ connections \intersect (refused \union lost) = {}
  /\ refused \intersect lost = {}

\* What the kernel has read reaches the application, once, or is one of those a
\* failing middleware or a discarded batch took away.
DataAccounted ==
  \A fd \in Fds :
    /\ \A k \in 1..taken[fd] :
         \/ <<fd, k>> \in Chunks(cq) \union Chunks(batch) \union dropped
         \/ k \in Elements(delivered[fd])
    /\ \A k \in Elements(delivered[fd]) :
         <<fd, k>> \notin Chunks(cq) \union Chunks(batch) \union dropped

\* Draining ends, whatever the kernel and the clients still do.
DrainEnds == cancelled ~> status = "stopped"

\* Draining closes the door: the accept is disarmed for good.
AcceptingEnds == cancelled ~> []~accepting

\* Every connection the kernel announces is registered, refused or lost with its
\* batch, unless the server stops first.
AcceptHandled ==
  \A fd \in Fds : fd \in Accepts(cq) ~>
    fd \in connections \union refused \union lost \/ status = "stopped"

\* What a client sends first is handed to the application, unless a middleware
\* or a failed read keeps it away or the server stops.
FirstChunkHandled ==
  \A fd \in Fds : fd \in reads /\ sent[fd] > 0 ~>
    \/ delivered[fd] # << >> \/ <<fd, 1>> \in dropped
    \/ fd \notin reads /\ taken[fd] = 0
    \/ status = "stopped"
=============================================================================
