------------------------------ MODULE SendPath ------------------------------
(***************************************************************************)
(* How the bytes an application feeds to a peer's RingWriter reach the     *)
(* socket: the goroutine that feeds, the send pass of Serve, the kernel    *)
(* that executes the submitted writes out of the ring's own memory, and    *)
(* handleWrite, which releases what was written.                           *)
(*                                                                         *)
(* A byte is its number in the stream the application feeds.  Counters are *)
(* not wrapped here (module ByteRing is about that).  The feeder and Serve *)
(* share the ring without a lock; each load and store is atomic and seen   *)
(* in program order, as on the amd64 the program runs on.                  *)
(***************************************************************************)
EXTENDS Integers, Sequences, FiniteSets

CONSTANTS Cap,          \* capacity of the ring: 4096 in the code
          Sizes,        \* lengths of the chunks the application feeds
          Answers,      \* lengths of the responses OnData may return
          \* Bounds of the exploration.
          MaxFed,       \* bytes fed
          MaxAnswers,   \* responses
          MaxFlight,    \* writes outstanding at the kernel
          MaxWire       \* bytes written to the socket

SendAssumption ==
  /\ Cap \in Nat \ {0}
  /\ \A n \in Sizes \union Answers : n \in Nat \ {0}
  /\ MaxFed \in Nat /\ MaxAnswers \in Nat /\ MaxFlight \in Nat
  /\ MaxWire \in Nat

ASSUME SendAssumption

VARIABLES
  buf, head, tail,    \* the ring
  queued,             \* RingWriter.queuedByte
  feeding,            \* the chunk being fed: its length, 0 when there is none
  feedPc,             \* where Feed is: "idle", "copy", "publish"
  onQueue,            \* the peer is in sendingQueue
  panicked,           \* the program has ended in the send pass
  flight,             \* writes submitted and not completed, oldest first
  cq,                 \* results of completed writes, not yet handled
  wire,               \* bytes of the stream that reached the socket, in order
  \* History of the run.
  faults,             \* what the kernel did: "short", "error", "reorder"
  answers             \* responses written so far

ring == <<buf, head, tail>>
feeder == <<feeding, feedPc>>
kernel == <<flight, cq, wire>>
vars == <<ring, queued, feeder, onQueue, panicked, kernel, faults, answers>>

Slots == 0..Cap-1

Smaller(x, y) == IF x < y THEN x ELSE y

Length == tail - head

\* A write out of the ring: of len bytes, from counter value at on.
Own(at, len) == [own |-> TRUE, at |-> at, len |-> len]

\* A write of a response, which has memory of its own.
Foreign(len) == [own |-> FALSE, at |-> 0, len |-> len]

-----------------------------------------------------------------------------
(* The application's goroutine: RingWriter.Feed. *)

\* Mutant: the check takes the bytes already queued for free space.
FeedCheckQueued ==
  /\ feedPc = "idle"
  /\ \E n \in Sizes :
       /\ tail + n <= MaxFed
       /\ n <= Cap - Length + Smaller(queued, Length)
       /\ feeding' = n
  /\ feedPc' = "copy"
  /\ UNCHANGED <<ring, queued, onQueue, kernel, faults, answers>>

\* Write finds room.  A chunk that does not fit is lost and nothing changes.
FeedCheck ==
  /\ feedPc = "idle"
  /\ \E n \in Sizes :
       /\ tail + n <= MaxFed
       /\ n <= Cap - Length
       /\ feeding' = n
  /\ feedPc' = "copy"
  /\ UNCHANGED <<ring, queued, onQueue, kernel, faults, answers>>

\* Write copies.
FeedCopy ==
  /\ feedPc = "copy"
  /\ buf' = [s \in Slots |->
               LET k == (s - tail) % Cap IN IF k < feeding THEN tail + k + 1 ELSE buf[s]]
  /\ feedPc' = "publish"
  /\ UNCHANGED <<head, tail, queued, feeding, onQueue, kernel, faults, answers>>

\* Write moves tail.
FeedPublish ==
  /\ feedPc = "publish"
  /\ tail' = tail + feeding
  /\ feeding' = 0 /\ feedPc' = "idle"
  /\ UNCHANGED <<buf, head, queued, onQueue, kernel, faults, answers>>

-----------------------------------------------------------------------------
(* The Serve goroutine, and the one that fills sendingQueue. *)

\* The peer's descriptor arrives on sendingPeer and is queued.  No code under
\* src/ sends it yet: the steps below are those of the code if somebody does.
Notify ==
  /\ ~onQueue
  /\ onQueue' = TRUE
  /\ UNCHANGED <<ring, queued, feeder, kernel, faults, answers>>

\* ViewFrom: the unsent bytes, in two slices if they go around the array.
Views(offset, n) ==
  LET at == head + offset
      n1 == Smaller(n, Cap - (at % Cap))
  IN  IF n1 = n THEN <<Own(at, n)>> ELSE <<Own(at, n1), Own(at + n1, n - n1)>>

\* ViewFrom can slice the array: what goes around fits into it.  Completions of
\* responses are taken from queuedByte too, and when it has become negative more
\* than the array holds may be asked for.
Sliceable(offset, n) == n - (Cap - ((head + offset) % Cap)) <= Cap

\* Mutant: submits what is unsent and does not count it as queued.
SendPassUncounted ==
  /\ onQueue /\ Length - queued > 0 /\ Sliceable(queued, Length - queued)
  /\ Len(flight) + Len(Views(queued, Length - queued)) <= MaxFlight
  /\ flight' = flight \o Views(queued, Length - queued)
  /\ UNCHANGED <<ring, queued, feeder, onQueue, cq, wire, faults, answers>>

\* One peer of the send pass: everything past queuedByte is submitted.
SendPass ==
  /\ onQueue /\ Length - queued > 0 /\ Sliceable(queued, Length - queued)
  /\ Len(flight) + Len(Views(queued, Length - queued)) <= MaxFlight
  /\ flight' = flight \o Views(queued, Length - queued)
  /\ queued' = queued + (Length - queued)
  /\ UNCHANGED <<ring, feeder, onQueue, cq, wire, faults, answers>>

\* ViewFrom slices beyond the array, and the program ends.
SendPassPanics ==
  /\ onQueue /\ Length - queued > 0 /\ ~Sliceable(queued, Length - queued)
  /\ panicked' = TRUE
  /\ UNCHANGED <<ring, queued, feeder, onQueue, kernel, faults, answers>>

\* handleRead submits the response of the application as a write of the peer.
Respond ==
  /\ answers < MaxAnswers /\ Len(flight) < MaxFlight
  /\ \E n \in Answers : flight' = Append(flight, Foreign(n))
  /\ answers' = answers + 1
  /\ UNCHANGED <<ring, queued, feeder, onQueue, cq, wire, faults>>

\* Mutant: releases everything queued, not what was written.
HandleWriteAll ==
  /\ cq # << >>
  /\ queued' = 0
  /\ head' = IF queued > 0 THEN head + Smaller(queued, Length) ELSE head
  /\ cq' = Tail(cq)
  /\ UNCHANGED <<buf, tail, feeder, onQueue, flight, wire, faults, answers>>

\* handleWrite: RingWriter.Advance with the result of the completion, whatever
\* its sign and whichever write it belongs to.
HandleWrite ==
  /\ cq # << >>
  /\ queued' = queued - Head(cq)
  /\ head' = IF Head(cq) > 0 THEN head + Smaller(Head(cq), Length) ELSE head
  /\ cq' = Tail(cq)
  /\ UNCHANGED <<buf, tail, feeder, onQueue, flight, wire, faults, answers>>

-----------------------------------------------------------------------------
(* The kernel. *)

Without(s, i) == SubSeq(s, 1, i - 1) \o SubSeq(s, i + 1, Len(s))

\* A write takes k bytes out of the memory it was given and reports k.  Writes
\* to one socket need not be executed in the order they were submitted.
WriteDone(i, k) ==
  LET w == flight[i] IN
  /\ k \in 1..w.len /\ (w.own => Len(wire) + k <= MaxWire)
  /\ flight' = Without(flight, i)
  /\ cq' = Append(cq, k)
  /\ wire' = IF w.own THEN wire \o [j \in 1..k |-> buf[(w.at + j - 1) % Cap]]
                      ELSE wire
  /\ faults' = faults \union (IF k < w.len THEN {"short"} ELSE {})
                      \union (IF i > 1 THEN {"reorder"} ELSE {})
  /\ UNCHANGED <<ring, queued, feeder, onQueue, answers>>

\* The connection is gone: the result is a negative errno (here, -1).
WriteFails(i) ==
  /\ flight' = Without(flight, i)
  /\ cq' = Append(cq, -1)
  /\ faults' = faults \union {"error"} \union (IF i > 1 THEN {"reorder"} ELSE {})
  /\ UNCHANGED <<ring, queued, feeder, onQueue, wire, answers>>

-----------------------------------------------------------------------------
Init ==
  /\ buf = [s \in Slots |-> 0] /\ head = 0 /\ tail = 0 /\ queued = 0
  /\ feeding = 0 /\ feedPc = "idle" /\ onQueue = FALSE /\ panicked = FALSE
  /\ flight = << >> /\ cq = << >> /\ wire = << >>
  /\ faults = {} /\ answers = 0

Feed == FeedCheck \/ FeedCopy \/ FeedPublish

Serve == SendPass \/ HandleWrite

Complete == \E i \in 1..Len(flight) : \/ \E k \in 1..flight[i].len : WriteDone(i, k)
                                      \/ WriteFails(i)

Next ==
  /\ ~panicked
  /\ \/ (Feed \/ Notify \/ Serve \/ Respond \/ Complete) /\ UNCHANGED panicked
     \/ SendPassPanics

Spec == Init /\ [][Next]_vars

-----------------------------------------------------------------------------
TypeOK ==
  /\ buf \in [Slots -> Nat]
  /\ head \in Nat /\ tail \in Nat /\ Length \in 0..Cap
  /\ queued \in Int
  /\ feeding \in Sizes \union {0}
  /\ feedPc \in {"idle", "copy", "publish"}
  /\ onQueue \in BOOLEAN /\ panicked \in BOOLEAN
  /\ \A i \in 1..Len(flight) :
       flight[i] \in [own : BOOLEAN, at : Int, len : Nat \ {0}]
  /\ cq \in Seq(Int)
  /\ wire \in Seq(Nat)
  /\ faults \subseteq {"short", "error", "reorder"}
  /\ answers \in 0..MaxAnswers

\* The kernel writes what it is given, completely and in order, and every
\* completion is that of a write out of the ring.
Clean == faults = {} /\ answers = 0

\* As long as the kernel plays along, the socket carries what was fed: no byte
\* skipped, repeated or read before the feeder had stored it, although Feed
\* runs concurrently with the send pass and the ring's memory is reused while
\* writes are outstanding.
StreamIntact == Clean => wire = [j \in 1..Len(wire) |-> j]

\* No byte of an outstanding write is overwritten by a later Feed, even after
\* short and failed writes, as long as writes complete in order.
InFlightUntouched ==
  "reorder" \notin faults /\ answers = 0 =>
    \A i \in 1..Len(flight) : \A j \in 1..flight[i].len :
      buf[(flight[i].at + j - 1) % Cap] = flight[i].at + j

\* queuedByte is what the completions will release: the outstanding writes and
\* the results not yet handled follow each other without gap or overlap from
\* the byte after the wire's last up to head + queuedByte.
QueuedAgrees ==
  Clean =>
    /\ queued \in 0..Length
    /\ \A i \in 1..Len(flight) :
         flight[i].at + flight[i].len =
           IF i = Len(flight) THEN head + queued ELSE flight[i + 1].at
    /\ Len(wire) = IF flight = << >> THEN head + queued ELSE flight[1].at
=============================================================================
