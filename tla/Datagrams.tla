----------------------------- MODULE Datagrams -----------------------------
(***************************************************************************)
(* The UDP side of the engine, from start-up on: one RECVMSG is submitted  *)
(* at a time, the kernel puts a datagram into the next provided buffer and *)
(* its sender where Uring.Msghdr says, and ReceiveData copies both and     *)
(* submits the next (engine/io_uring_engine.go, core/core/uring.go).  The  *)
(* network loses, repeats and reorders: a datagram of Messages arrives at  *)
(* any time, any number of times.                                          *)
(***************************************************************************)
EXTENDS Startup, FiniteSets, SequencesExt

CONSTANTS Messages,    \* datagrams peers send: the sender and the bytes
          BufferSize,  \* MaxBufferSize: 20 KiB in the code
          \* Bounds of the exploration.
          MaxArrivals, MaxCQ

DatagramAssumption ==
  /\ \A m \in Messages : m.data \in Seq(Int)
  /\ BufferSize \in Nat \ {0} /\ MaxArrivals \in Nat /\ MaxCQ \in Nat

ASSUME DatagramAssumption

VARIABLES
  \* The network and the kernel.
  arrived,    \* datagrams the socket has received
  taken,      \* how many of them RECVMSG has handed over in a buffer
  memory,     \* pRingData: what each buffer holds
  name,       \* what Msghdr.Name points to
  cq,         \* completions posted and not yet taken
  cancelled,  \* the context of Serve is done
  ticking,    \* the multishot timeout of PrepareClose is running
  faulty,     \* a receive has failed for a reason of the kernel's own
  \* Serve and ReceiveData.
  status,     \* "running", "draining", "stopped"
  pc,         \* "peek", "next", "rearm", "drain"
  batch,      \* completions of the batch still to be looked at
  again,      \* the descriptor to receive from again
  netEvents,  \* the events made of the batch so far
  events      \* the events returned to Serve

network == <<arrived, taken, memory, name, cq, cancelled, ticking, faulty>>
loop == <<status, pc, batch, again, netEvents, events>>
vars == <<startup, network, loop>>

NoName == "zeros"
NoBuffer == -1
ENOBUFS == 105
ETIME == 62
EIO == 5

Receiving == armed # Nothing /\ armed.op = RECVMSG

Completion(data, res, bid) == [data |-> data, res |-> res, bid |-> bid]

-----------------------------------------------------------------------------
(* The network and the kernel. *)

Arrive(m) ==
  /\ protocol = "udp" /\ socket = "bound"
  /\ Len(arrived) < MaxArrivals
  /\ arrived' = Append(arrived, m)
  /\ UNCHANGED <<startup, taken, memory, name, cq, cancelled, ticking, faulty, loop>>

\* One shot: the operation is over, whatever its result.
Complete(res, bid) ==
  /\ Receiving
  /\ cq' = Append(cq, Completion(armed.data, res, bid))
  /\ armed' = Nothing
  /\ UNCHANGED <<config, stage, pool, fd, socket, arrived, cancelled, ticking, loop>>

\* Buffers are used in the order of the ring and none is ever given back, so the
\* next is number taken; the rest of a datagram that is too long is dropped.
RecvCompletes ==
  /\ Receiving /\ taken < Len(arrived) /\ taken < tail
  /\ armed.fd = Opened
  /\ arrived[taken + 1].data # << >>
  /\ LET m == arrived[taken + 1]
         got == SubSeq(m.data, 1, IF Len(m.data) < BufferSize THEN Len(m.data) ELSE BufferSize)
         entry == bufRing[taken % Entries]
     IN  /\ Complete(Len(got), entry.bid)
         /\ memory' = [memory EXCEPT ![entry.at] = got]
         /\ name' = m.from
  /\ taken' = taken + 1
  /\ UNCHANGED faulty

\* A datagram without bytes: the kernel takes the buffer back when a receive has
\* the result 0, and the completion names none.
RecvEmpty ==
  /\ Receiving /\ taken < Len(arrived) /\ taken < tail
  /\ armed.fd = Opened
  /\ arrived[taken + 1].data = << >>
  /\ Complete(0, NoBuffer)
  /\ name' = arrived[taken + 1].from
  /\ UNCHANGED <<taken, memory, faulty>>

RecvOutOfBuffers ==
  /\ taken = tail /\ Complete(-ENOBUFS, NoBuffer)
  /\ UNCHANGED <<taken, memory, name, faulty>>

RecvFails ==
  /\ Complete(-EIO, NoBuffer)
  /\ faulty' = TRUE
  /\ UNCHANGED <<taken, memory, name>>

\* The context of Serve is done, at any time.
Cancel ==
  /\ ~cancelled /\ cancelled' = TRUE
  /\ UNCHANGED <<startup, arrived, taken, memory, name, cq, ticking, faulty, loop>>

\* engine.PrepareClose, called by the goroutine Serve starts for it.
PrepareClose ==
  /\ stage = "serving" /\ cancelled /\ ~ticking
  /\ ticking' = TRUE
  /\ UNCHANGED <<startup, arrived, taken, memory, name, cq, cancelled, faulty, loop>>

Tick ==
  /\ ticking /\ Len(cq) < MaxCQ
  /\ cq' = Append(cq, Completion(Encode(TIMEOUT, 0), -ETIME, NoBuffer))
  /\ UNCHANGED <<startup, arrived, taken, memory, name, cancelled, ticking, faulty, loop>>

-----------------------------------------------------------------------------
(* The turns of Serve. *)

\* With a TCP listener they are module NetworkServer's.
At(place) == /\ stage = "serving" /\ protocol # "tcp"
             /\ status # "stopped" /\ pc = place

\* PeekBatchEvents takes what is posted; with nothing there ReceiveData returns
\* ErrWouldBlock.
PeekBatch ==
  /\ At("peek")
  /\ batch' = cq /\ cq' = << >>
  /\ pc' = IF cq = << >> THEN "drain" ELSE "next"
  /\ UNCHANGED <<startup, arrived, taken, memory, name, cancelled, ticking, faulty, status,
                 again, netEvents, events>>

Kind == Decode(Head(batch).data).kind

\* GetRingBuffer: the bytes of buffer bid.
GetRingBuffer(bid) == memory[bid]

\* The case of EVENT_TYPE_RECVMSG, up to the test of F_MORE, which a one-shot
\* operation never sets.
CopyDatagram ==
  /\ At("next") /\ batch # << >> /\ Kind = RECVMSG /\ Head(batch).bid # NoBuffer
  /\ LET c == Head(batch) IN
     /\ netEvents' = Append(netEvents,
          [from |-> name, data |-> SubSeq(GetRingBuffer(c.bid), 1, c.res)])
     /\ again' = Decode(c.data).fd
  /\ batch' = Tail(batch) /\ pc' = "rearm"
  /\ UNCHANGED <<startup, network, status, events>>

\* RecvFrom: a new address buffer and the next receive.
RecvFrom ==
  /\ At("rearm")
  /\ name' = NoName
  /\ armed' = Operation(RECVMSG, again)
  /\ pc' = "next" /\ again' = NoFd
  /\ UNCHANGED <<config, stage, pool, fd, socket, arrived, taken, memory, cq, cancelled,
                 ticking, faulty, status, batch, netEvents, events>>

\* Mutant: a tick ends the batch.
OtherCompletionReturns ==
  /\ At("next") /\ batch # << >> /\ Kind \in {TIMEOUT, CANCEL}
  /\ batch' = << >> /\ netEvents' = << >> /\ pc' = "drain"
  /\ UNCHANGED <<startup, network, status, again, events>>

\* Timeouts and cancels make no event.  (Without a listener of TCP nothing is
\* ever cancelled.)
OtherCompletion ==
  /\ At("next") /\ batch # << >> /\ Kind \in {TIMEOUT, CANCEL}
  /\ batch' = Tail(batch)
  /\ UNCHANGED <<startup, network, status, pc, again, netEvents, events>>

\* A receive without a buffer, or a kind ReceiveData does not know: it returns
\* nothing at all, and receives no more.
ReturnNothing ==
  /\ At("next") /\ batch # << >> /\ Kind \notin {TIMEOUT, CANCEL}
  /\ Kind = RECVMSG => Head(batch).bid = NoBuffer
  /\ batch' = << >> /\ netEvents' = << >> /\ pc' = "drain"
  /\ UNCHANGED <<startup, network, status, again, events>>

ReturnEvents ==
  /\ At("next") /\ batch = << >>
  /\ events' = events \o netEvents /\ netEvents' = << >>
  /\ pc' = "drain"
  /\ UNCHANGED <<startup, network, status, batch, again>>

\* The end of a turn.  Once the context is done Serve drains: PrepareClose has an
\* accept to cancel only with TCP, so nothing is submitted and the receive goes
\* on.  Draining ends in the turn that finds the deadline passed.
Drain ==
  /\ At("drain") /\ pc' = "peek"
  /\ \/ status = "running" /\ status' = IF cancelled THEN "draining" ELSE "running"
     \/ status = "draining" /\ status' \in {"draining", "stopped"}
  /\ UNCHANGED <<startup, network, batch, again, netEvents, events>>

-----------------------------------------------------------------------------
Init ==
  /\ StartupInit
  /\ arrived = << >> /\ taken = 0
  /\ memory = [a \in 0..Entries - 1 |-> << >>] /\ name = NoName
  /\ cq = << >> /\ cancelled = FALSE /\ ticking = FALSE /\ faulty = FALSE
  /\ status = "running" /\ pc = "peek"
  /\ batch = << >> /\ again = NoFd /\ netEvents = << >> /\ events = << >>

Booting == Boot /\ UNCHANGED <<network, loop>>

Serve == \/ PeekBatch \/ CopyDatagram \/ RecvFrom \/ OtherCompletion \/ ReturnNothing
         \/ ReturnEvents \/ Drain

Next == \/ Booting \/ Serve
        \/ \E m \in Messages : Arrive(m)
        \/ RecvCompletes \/ RecvEmpty \/ RecvOutOfBuffers \/ RecvFails
        \/ Cancel \/ PrepareClose \/ Tick

\* Serve spins, and the kernel completes a receive for which a datagram with bytes
\* is there.
Fairness == WF_vars(Booting) /\ WF_vars(Serve) /\ WF_vars(RecvCompletes)

Spec == Init /\ [][Next]_vars /\ Fairness

-----------------------------------------------------------------------------
TypeOK ==
  /\ StartupTypeOK
  /\ taken \in 0..Len(arrived) /\ taken <= Entries
  /\ \A a \in 0..Entries - 1 : Len(memory[a]) <= BufferSize
  /\ name \in {NoName} \union {m.from : m \in Messages}
  /\ \A c \in ToSet(cq \o batch) : c.bid \in {NoBuffer} \union 0..Entries - 1
  /\ status \in {"running", "draining", "stopped"}
  /\ pc \in {"peek", "next", "rearm", "drain"}
  /\ again \in {NoFd, fd}

Seen(m) == [from |-> m.from,
            data |-> SubSeq(m.data, 1, IF Len(m.data) < BufferSize THEN Len(m.data) ELSE BufferSize)]

\* Completions among these that hand over a datagram.
Filled(s) == {i \in 1..Len(s) : s[i].bid # NoBuffer}

\* The events are the datagrams the kernel handed over, each with its own sender
\* and its own bytes up to a buffer's length, in order, although all receives
\* share one message header; and none that was handed over is lost with a batch
\* ReceiveData gives up (ReceiveData, RecvFrom, GetRingBuffer).
EventsAreDatagrams ==
  LET out == events \o netEvents
  IN  /\ taken = Len(out) + Cardinality(Filled(cq)) + Cardinality(Filled(batch))
      /\ \A i \in 1..Len(out) : out[i] = Seen(arrived[i])

\* Every datagram for which there was still a buffer is returned to Serve, unless
\* a receive has failed, an empty datagram has come before it, or Serve has ended.
\* (Without a buffer, after a failure and after an empty datagram ReceiveData
\* submits no further receive.)
DatagramIsSeen ==
  \A i \in 1..Entries :
    Len(arrived) >= i ~>
      \/ Len(events) >= i \/ faulty \/ status = "stopped"
      \/ \E j \in 1..Len(arrived) : j <= i /\ arrived[j].data = << >>
=============================================================================
