# Verification of low-level-server

TLA+ models, TLC checks and TLAPS proofs of the io_uring server under `src/`
(Go: a ring of system calls, an event loop, byte rings per peer, a framing
transport and small applications). Line numbers are those of the files under
`src/`. The repository has no tests and its README is empty, so the reference
is the code; what it promises is taken from comments, names and log messages.

## 1. The system

| Part | State | Operations | Talks to |
|---|---|---|---|
| Byte ring (`core/buffer/ring.go`) | array, two free-running counters | Write, Advance, Peek, View, ViewFrom | owned by RingReader and RingWriter of a peer |
| Submission ring (`core/core/uring.go`: pushSQE, sendSQE) | head, tail, index array, entries, shared with the kernel | Submit | called by Serve and by the shutdown goroutine; the kernel consumes |
| Completion ring (`uring.go`: cqReady, PeekBatchEvents, getCQE) | head, tail, entries, shared with the kernel | PeekBatchEvents | the kernel posts, Serve takes |
| Engine (`core/engine/io_uring_engine.go`) | the ring and 256 provided buffers | Accept, RegisterRead, ReceiveData, Write, CancelAccept, PrepareClose | turns completions into events |
| Server (`server/network_server.go`) | status, connections, sendingQueue | Serve: send pass, receive, handlers, draining | engine, middleware, application |
| Peer (`server/peer`) | descriptor, a RingReader, a RingWriter with queuedByte; a status nobody stores | Feed, Advance, Advance2, Peek, ViewFrom | shared by Serve and the application's goroutines, unlocked |
| Streaming transport (`transport/streaming`, `transport/protocol`) | bytes not yet parsed (the peer's reader) | OnConnect, OnData | hands frames to a channel |
| Live application (`application/live`, `cmd/debug`) | the channel | processLoop | stops with the server's context |
| Rooms (`application/room`) | rooms by name, members | Create, Delete, Add, Remove, Join, Leave | a Logic per room; no caller under `src/` |
| HTTP application (`transport/http`) | routes, under a lock | OnData, Match, Handle | called in handleRead; routes may be added from any goroutine |
| Middleware (`middleware`) | a chain of functions; the context of one read | Execute, the two HTTP middlewares | run in handleRead before the application |
| Start-up (`CreateUring`, `RegisterRingBuffer`, `engine/listener.go`, `core/socket.go`) | descriptor, buffer ring | Listen, Bind | system calls, each of which may fail |
| Commands (`cmd/debug`, `cmd/http-server`) | none | wiring | |

A turn of `Serve` runs the send pass over `sendingQueue`, takes every posted
completion through `ReceiveData`, handles the events in order, and looks at the
context and at the draining deadline. It never blocks (the wait is commented
out at 191-197) unless an application does. Three goroutines run beside it:
one calls `engine.PrepareClose` when the context is done, one moves
descriptors from `sendingPeer` to `sendingQueue`, and every connection of the
streaming transport has a feeder that writes to the peer's ring. The kernel
consumes submissions, completes operations in an order of its own, and reads
the memory of a write long after `Write` has returned.

What is hard about it, and where properties are needed: two submitters on one
lock-free ring; rings shared with the kernel; counters that wrap; batches
that are consumed before they are interpreted; memory that is released by
completions while a goroutine feeds; short, failed and reordered writes;
chunks that cut frames and requests anywhere; one message header for all UDP
receives; two parsers for one request; system calls whose failure goes
unnoticed; shutdown while the application blocks.
`PROJECT.json` lists these hazards at their lines with the properties that
watch them.

What makes each part correct:

* byte ring: a bounded FIFO of bytes; reads are the bytes asked for;
* submission ring: what the kernel starts is what was submitted, in order, once;
  a submitter is refused only when there is no room;
* completion ring: completions are returned once, in order, and eventually;
* server: no connection or chunk disappears without a cause the code names,
  operations belong to registered peers, draining ends and closes the door;
* send path: the socket carries what was fed, `queuedByte` agrees with the
  outstanding writes, and their memory stays untouched;
* framing: the frames handed over are those of the stream;
* start-up: Serve begins with something armed on a usable socket, or not at all;
* datagrams: an event has the bytes and the sender of one datagram, in order;
* HTTP: one answer per read, the one the route of the request gives, and no
  disagreement between the two parsers;
* rooms: capacity, and a Logic that knows who is in its room.

## 2. The modules

| Module | Models | Correspondence |
|---|---|---|
| `ByteQueue` | abstract: a FIFO of at most `Cap` bytes | |
| `ByteRing` | `ring.go` | `buf`, `head`, `tail`; `% Cap` is `& mask`, `% Wrap` the uint64 wrap-around; one action per mutating method, one operator per reading method; `RefinesQueue` maps it to `ByteQueue` |
| `RingSizing`, `NewRingBuffer` | `nextPow2`; `NewRingBuffer` and the ring after it | one step per smearing shift, on integers of `Width` bits; the ring of `ByteRing` is used if that is the capacity computed |
| `SubmissionRing` | `pushSQE`, `sendSQE` | one action per load, compare-and-swap, store and system call; `pc[p]` is a submitter's place in the code, `panicked` are those whose system call failed |
| `CompletionQueue` | abstract: completions wait in order, a batch is all that waits at one moment, and is handed over whole | |
| `CompletionRing` | `cqReady`, `PeekBatchEvents`, `getCQE` | the release of an entry (`GetCQE`) and its copy (`CopyCQE`) are two steps, the kernel posts in between; `TakesWholeBatches` maps it to `CompletionQueue` |
| `NetworkServer` | `Serve`, the handlers, the engine | `pc` is the place in the loop, `cq` the posted completions, `batch` the events being handled; kernel and clients are actions of their own, marked external in `PROJECT.json` |
| `SendPath` | `RingWriter.Feed`, the send pass, `handleWrite`, the kernel's writes | a byte is its number in the stream; `flight` are outstanding writes, given by the memory they read |
| `FrameStream` | `OnData`, the channel, `processLoop`, the end of `Serve` | a ring holds stream positions, the header is two bytes; a call of `OnData` is `Receive`, which feeds the chunk, and `Gather`, which is repeated for every frame |
| `Startup` | `CreateUring`, `RegisterRingBuffer`, `Listen`, `Bind`, the encoding of user data | `stage` is the next system call; an action per call or loop iteration, with a disjunct for its failure where the code looks at it and where it does not |
| `Datagrams` | RECVMSG in `ReceiveData`, `RecvFrom`, over `Startup` | `armed` is the one receive outstanding, `name` the memory its header points to, `pc` the place in `ReceiveData` and Serve |
| `HttpMessages` | `transport/http` and `middleware/http.go` without state | an operator per parser, router and builder function; text is a sequence of tokens; `Split` and `JoinFrom` give the parts of a text by the places of its separators |
| `HttpServer` | `handleRead` with the pipeline, `OnData`, `Router.Handle` | `pc`, `at` are the place in the recursion of `executeMiddleware`, `data`, `request`, `response` the fields of its context; the client sends whenever it likes (`Send`), reads end between any two tokens (`Deliver`) |
| `Rooms` | `room.go` | `objects` are the `*Room`s ever created, `registry` the map |
| `ModularArithmetic`; `ByteRing_proofs`, `SubmissionRing_proofs`, `CompletionRing_proofs`, `SendPath_proofs`, `NetworkServer_proofs`, `Datagrams_proofs` (with `Startup`), `Applications_proofs` (of `Rooms`, `FrameStream` and `HttpServer`) | proofs | see section 5 |

`MC...` modules give constants their values. Definitions introduced by the
comment "Mutant:" are variants of the definition after them, each with one
plausible bug; they are used only to show that the properties notice such bugs.
`Rooms`, `FrameStream` and `HttpServer` know nothing of each other; their definitions
have different names (`RoomsSpec`, `StreamSpec`, `Spec`) so that one module of
proofs can extend the three.

How the modules fit together. `SubmissionRing` and `CompletionRing` look inside
`Submit` and `PeekBatchEvents`, which are single steps of `NetworkServer`;
`NetworkServer` abstracts the rings of a peer, which `SendPath` (outgoing) and
`FrameStream` (incoming) look at; both of these use the ring as the FIFO that
`ByteRing` is proved to implement. `HttpServer` looks inside the pipeline and the
application, which are choices in `NetworkServer`; `Startup` ends where
`NetworkServer` begins, and `Datagrams` is the same loop for the other protocol.
`NetworkServer` takes a batch
of completions in one step, as `CompletionQueue` does: `CompletionRing` is proved to
implement that while the ring has not been full.
Each module assumes the parts it abstracts
to work. It has to: several defects found here (section 4) would otherwise end
every run after a few steps and hide the rest.

Abstractions a reader should know of:

* `NetworkServer` takes `Submit` to be atomic and reliable, and a failed read to
  carry no `IORING_CQE_F_BUFFER`. Completions `ReceiveData` skips stay in the
  batch as `SILENT` events that change nothing. The unknown-type branch of
  `ReceiveData` (190-194) is not reachable from operations the engine submits.
* Passing runs of `NetworkServer` set `InitialQueue` to the empty sequence to
  see past the crash of the first send pass; `server_queue` has the zeros the
  code puts there. `Datagrams` and `HttpServer` leave out the send pass, and with
  it that crash.
* Three steps are taken by no code yet and are in the models for what happens if
  they are: `Notify` of `SendPath` (somebody sends on `sendingPeer`; without it
  nothing that is fed is ever sent), and a second read of a connection, which
  `Rereads` in `FrameStream` and `ReadAgain` in `HttpServer` switch. With `FALSE`
  these two are the code as it is; `TRUE` includes those behaviours, since a client
  need not send again.
* In `HttpMessages` a token is a CRLF, a space or a word. Reads end between tokens
  only: one that ends between CR and LF, or inside a word of a request line or a
  header, is not explored (a part of a word would be another word to the parsers).
  The parsers look at text only through these tokens; header lines fill maps no
  decision depends on. In a path the pieces are cut so that a string prefix is a
  prefix of pieces (`/media` is one of `/mediator`).
* A handler is known by what it returns: an answer, an error ("broken") or nothing
  ("silent"). The answers themselves have no headers; no handler under `src/` is
  silent or fails, but `Router.Handle` takes any.
* In `Datagrams` the kernel takes the buffer of an empty datagram back: with the
  result 0 the completion carries no `IORING_CQE_F_BUFFER`, as current kernels do,
  and `ReceiveData` receives no more (`RecvEmpty`). On a kernel that keeps the
  buffer in use an empty datagram would be an event like any other.
* In `Startup` the kernel is known to reject a call on descriptor -1, and to offer
  no provided rings where it lacks the single mapping (5.19 and 5.4), which is
  why the empty branch at uring.go:126 is harmless. `Word` stands for 2^32.
* `SendPath` treats each load and store as atomic and seen in program order,
  which holds on amd64; the Go race is therefore modelled by its outcomes on
  that architecture. Its counters do not wrap (`ByteRing` is about that), and the
  feeder fails to feed only by lack of room, which changes nothing.
* `Rooms` runs operations one at a time: nothing in it is locked and nothing
  calls it, so there is no concurrent use to model.

## 3. The checks

Passing runs (CHECK_DEADLOCK is off where a run may end: the bound on input is
reached, or the server has stopped):

| Run | Bounds | What it shows |
|---|---|---|
| `byte_ring` | every 8-bit signed size; 4 slots, counters modulo 12, two byte values, chunks up to 5, advances -1..6 | `RefinesQueue`: the ring is a bounded FIFO; `ViewsAgree`: Peek, View, ViewFrom return the bytes asked for, across both wraps; `CapacityFits`: least power of two, masking is reduction, for every size a power of two covers |
| `submission` | Serve submits 9, the closer 1, ring of 4, counters modulo 8; either may panic in its system call while the other goes on | `PendingBounded`, `SerialSubmissionsArrive` |
| `completion` | 3 entries, counters modulo 6, 8 completions | `BatchIsThere`; `TakesWholeBatches`: the refinement of `CompletionQueue`; `AllReturned` |
| `server` | 2 connections, 1 buffer, 1 chunk each, 3 posted completions | `PeersKnown`, `AcceptsAccounted`, `DataAccounted`; `DrainEnds`, `AcceptingEnds`, `AcceptHandled`, `FirstChunkHandled` |
| `send_path` | ring of 2, 5 bytes in chunks of 1 and 2, 3 writes in flight, 1 response of 2 bytes | `StreamIntact`, `InFlightUntouched`, `QueuedAgrees` |
| `frames` | two streams of 7 and 6 bytes, reads up to 5, rings of 4, channel of 1 | `FramesAreTheStreams`, `NothingLeftBehind`, `HandedOverIsProcessed` |
| `datagrams` | 3 protocols and 3 kinds of address; 2 buffers of 2 bytes, 3 arrivals of 3 datagrams (empty, fitting, too long; 2 senders), 2 posted completions | `ServesOnlyWhenReady`: no failed system call is survived; `EventsAreDatagrams`; `DatagramIsSeen` |
| `http` | 2 of 4 requests, each sent at any time, in 3 reads, cut between any two tokens; 3 pipelines; a route added and a route replaced at any time | `OneAnswerPerChunk`, `ParsersAgree`, `WholeRequestsAnswered` |
| `rooms` | 2 rooms under one name, 2 connections, capacities 1 and 2, 4 calls of a Logic | capacity (`RoomsTypeOK`), `LogicAgrees` |

Why the bounds are enough: every counter passes the end of its array and its
own modulus, every ring and the channel fill up and are reused, provided buffers
run out, completions of two connections meet in one batch, every position of a
cut in a frame (also inside the header) occurs, a payload holds a magic byte,
a ring holds two frames at once, one stream turns to what `Marshal` writes, a read may exceed a ring, and a second
room replaces the first while it has members. More datagrams arrive than there
are buffers, ticks share their batches, and the kernel completes
the next receive before the batch is returned. Reads hold half a request, a
request and a half, and two; bodies hold empty lines; request lines have two
and four parts; two wildcards fit one path, and one of them is added while its
request is handled; one handler that is added fails, the other answers nothing. A
response and the writes of the ring complete in either order, so that `queuedByte`
becomes negative and the send pass panics. The names of the bounds are the
constants marked so in each module; they restrict the environment (what is
sent, fed, posted), not what the code does with it.

Conditions in the properties name causes in the environment, and the states
beyond them are in the runs too: `SerialSubmissionsArrive` is about the first turn
of the ring, because of the unmasked index; `TakesWholeBatches` about a ring that
has not been full; `StreamIntact` and `QueuedAgrees` about a kernel that
completes in order and in full; `InFlightUntouched` needs order only, so it
covers short and failed writes; `FramesAreTheStreams` is about connections of
which no chunk was lost. `WholeRequestsAnswered` is about a request that is read
whole and alone, since nothing gathers the others; `DatagramIsSeen` about the
datagrams for which there is a buffer, before a receive fails or an empty datagram
comes. `ServesOnlyWhenReady` excepts an unknown protocol, for which `Listen` returns
neither a listener nor an error.

### Fairness

* the Serve loop: it spins, so its next step is always taken eventually; only
  `FrameStream` has a step that can block (the channel), and there weak fairness
  of `Gather` demands nothing while the channel is full;
* the clock advances; the kernel executes a cancel it was given, completes a
  write, and completes a read whose data has arrived, one way or another. This
  last is strong fairness, because the bound on posted completions disables the
  completion again and again, which the kernel's overflow list does not;
* `Datagrams`: start-up goes on, Serve spins, and a receive for which a datagram
  with bytes is there completes, unless it fails first;
* end of a turn in `FrameStream`: strong fairness of `StartDraining` and
  `StopServing`, since every turn looks at the context whatever was read in it;
* no fairness in `SubmissionRing` and `SendPath`, whose properties are safety: Serve
  submits without end, so no fairness of scheduling keeps the other submitter from
  losing its compare-and-swap for ever (uring.go:304), and nothing that is fed is
  sent before somebody sends on `sendingPeer`;
* no fairness for clients, accepts, errors, cancellation or room callers.

## 4. What the code does not keep

Each of these runs violates one property taken from a comment or message of the
source; `PROJECT.json` quotes it under "findings".

| Run | Property | What happens |
|---|---|---|
| `submission_index` | `IndexPointsToEntry` | the index array gets the unmasked tail (uring.go:309): after one turn of the ring the kernel drops every submission |
| `server_queue` | `AcceptHandled` | `sendingQueue` starts with zeros (network_server.go:69): the first send pass uses a nil peer |
| `frames_drain` | `DrainingIsBounded` | LiveApp stops with the context the draining starts with: a full channel blocks Serve for ever |

Other weaknesses have no run of their own. They are in the models, and are the
reason for conditions in the properties of the passing runs; dropping the
condition makes TLC produce the trace:

| Condition | in | because |
|---|---|---|
| `~overlapped` | `SerialSubmissionsArrive` | the tail is published (uring.go:304) before the entry is written (306): another submitter's system call starts what was in the slot |
| `refused = {}` | `SerialSubmissionsArrive` | head and tail are loaded apart (295, 296): an operation can be dropped as if the ring were full |
| `~filled` | `TakesWholeBatches`, `InPostedOrder` | the entry is released (453) before it is copied (455): on a full ring one completion is lost, another seen twice |
| first chunk only | `FirstChunkHandled` | a read is one-shot and is not submitted again (io_uring_engine.go:108-111); also `Rereads` in `FrameStream` |
| `lost` | `AcceptHandled` | a failed read makes ReceiveData discard the whole batch (io_uring_engine.go:112-121), accepted connections included; also `dropped` in `DataAccounted` |
| `faults = {}` | `QueuedAgrees`, `StreamIntact` | the errno of a failed write is subtracted from `queuedByte` (ringWriter.go:32); the rest of a short write is not sent again; two writes of a socket may be executed in either order |
| `answers = 0` | `QueuedAgrees`, `InFlightUntouched` | the completion of a response is charged to the peer's ring (network_server.go:340); `queuedByte` may become negative, and the next view is sliced beyond the array (ring.go:115, `SendPassPanics`) |
| `lost` | `FramesAreTheStreams` | a chunk without room is dropped whole (app.go:57), and a read may be larger than the ring |
| read whole and alone | `WholeRequestsAnswered` | a request cut in two reads gets two answers, and two in one read get one (app.go:31) |
| `cut`, `MayBeSilent` | `OneAnswerPerChunk` | an error in the pipeline leaves the read without an answer (network_server.go:306), and so does a handler that returns nothing (321) |
| `faulty`, an empty datagram, as many as buffers | `DatagramIsSeen` | a receive that fails or brings no buffer is not submitted again (io_uring_engine.go:143-146), and buffers are never given back |
| known protocol | `ServesOnlyWhenReady` | `Listen` returns nil, nil (listener.go:55), and Serve runs with nothing armed; draining cancels an accept only with TCP (network_server.go:204), so the missing listener is not used |
| logic | `LogicAgrees` | a room without Logic, which CreateRoom provides for, panics at the first join |

## 5. The proofs

All theorems hold for every value of the constants that satisfies the named
assumption of the module, which TLC evaluates in the runs.

`ModularArithmetic` proves what the counters need about `%`: range, uniqueness of
quotient and remainder, absorbing whole turns, the distance of two counters and
the successor of one. The other proof modules use it.

`ByteRing_proofs`, under `RingAssumption` (the capacity divides the modulus, which
`RingSizing` checks of `nextPow2`):

* `TypeCorrect`: `Spec => []TypeOK`. `TypeOK` is inductive: it says that the
  counters are never more than `Cap` apart, which `Write`'s test and `Advance`'s
  cut maintain (`WriteLength`, `AdvanceLength`).
* `Refinement`: `Spec => RefinesQueue`. The mapping reads the contents around the
  array from the slot of head. A write stores outside the slots in use
  (`Position`, `StoredAt`) and so appends (`WriteAppends`); an advance moves the
  start (`AdvanceDrops`); one that finds the ring empty is a stutter.
* `ReadsCorrect`: `Spec => []ViewsAgree`. The two slices of a view meet at the end
  of the array and form one run of slots (`TwoSlices`, `HalvesJoined`), which is
  the part of the contents asked for (`PartOfContents`).

`SubmissionRing_proofs`, under `SubmissionAssumption` (fewer submitters than
entries, entries divide the modulus):

* `SubmissionTypes`: `Spec => []TypeOK`. A submitter that panics keeps its place, so in
  all three proofs its step leaves everything but `panicked` as it was.
* `RoomForEverySubmitter`: `Spec => []PendingBounded`: entries not consumed never
  outnumber the submitters between their claim and their system call. It is
  inductive with `TypeOK`: a claim adds an entry and a submitter (`ClaimAddsOne`),
  and a submitter that leaves has consumed one entry if there was one
  (`EnterTakesOne`). With `Cardinality(Submitters) < Entries` a claimed slot is
  therefore never claimed again before it is consumed, although pushSQE checks
  for room before it claims.
* `SerialArrival`: `Spec => []SerialSubmissionsArrive`. `Traced` follows the one
  submission that is under way while submitters keep apart: either nobody is
  between claim and system call and the kernel has started all that was claimed
  (`Settled`), or exactly one submitter is, all but its entry have been started, and
  the entry and its index are those of its place in the code (`UnderWay`).
  `RefusedKnown` is needed because a refusal ends the account: who was refused
  stays in `refused`.

`CompletionRing_proofs`, under `CompletionAssumption` (the entries divide the
modulus of the counters and are fewer):

* `CompletionTypes`: `Spec => []TypeOK`, and `BatchStays`: `Spec => []BatchIsThere`.
  The inductive invariant `Safe` adds to both that a copy has an entry left to make
  and that no batch exists between two calls. The distance of the counters grows
  by one with a post and shrinks by one with `getCQE` (`PendingAfterPost`,
  `PendingAfterGet`), and only the kernel moves tail: what was counted stays.
* `OrderKept`: `Spec => []InPostedOrder`. The strengthening `Ordered` speaks of the
  entries still to be taken: those between head and tail and, between `getCQE` and
  the copy, the one already released. While the ring has not been full they hold
  the numbers that follow those taken. A post writes the slot behind the last of
  them (`PostSlot`), which is none of theirs (`SlotsApart`): with the released one
  they are fewer than the ring has slots. That last step is the one a full ring
  breaks.
* `BatchesTaken`: `Spec => TakesWholeBatches`, the refinement of `CompletionQueue`. The
  entries of `Ordered` are divided into those due to the batch being taken (`Counted`,
  with the ones copied) and those that wait (`Waiting`). By `Ordered` three numbers
  determine both: how many have been copied, how many are due, how many were
  posted (`Viewed`). The step that counts is the one that takes the batch; `getCQE`
  and the copy only move an entry from due to copied, which the mapping does not
  see, and a post appends to what waits. `InPostedOrder` has no run of its own: it is
  a consequence TLC sees through the refinement.

`SendPath_proofs`, under `SendAssumption` (the ring is not empty, chunks and
responses have at least one byte):

* `SendTypes`: `Spec => []TypeOK`. What makes it inductive (`Typed`) is that the room
  Feed has seen can only grow until it publishes: the send pass and the kernel
  never move tail, and completions only move head forward.
* `SendStreamIntact`, `SendInFlightUntouched`, `SendQueuedAgrees`: the properties of
  these names. Their invariant has two parts beside the types. `Contents`: the
  array holds the bytes of the stream from head to what Feed has stored, although
  the chunk being fed is not published. `Accounted`: while writes complete in
  order and no response is charged, a sequence `g` gives the position head will
  have after each completion that is posted and not handled; head never passes an
  outstanding write (`Behind`), the writes lie in the order of the stream within
  what is queued and stored (`InOrder`), and with no fault they and the socket
  meet without a gap (`Exact`). `Behind` is the reason a short or failed write
  harms no memory: a failed completion does not move head, and a short one moves
  it by what was written, never past its write (`Gained`).

`NetworkServer_proofs`, under `ServerAssumption` (`NoFd` is no descriptor, the
bounds are numbers; any descriptors may stand in `InitialQueue`):

* `ServerTypes`: `Spec => []TypeOK`.
* `ServerPeersKnown`, `ServerAccountsAccepts`, `ServerAccountsData`: the properties of
  these names. They are inductive only together (`Sound`) and with three more
  facts: outside the handlers no batch exists (`Idle`, or `ReceiveData` would
  overwrite events); no accept and no chunk stands twice in the queue or in the
  batch (`OnceEach`, or taking one away would leave it announced); and a chunk is in one place
  and has been read (`ChunksApart`). `Posted` and `TakenOff` say what a completion
  adds to and removes from the views of a queue, and each handler is one lemma
  over them.

`Datagrams_proofs`, under `StartupAssumption` (at least one buffer, and a word
larger than the descriptor that is opened) and `DatagramAssumption`:

* `StartupReady`: `StartupSpec => ServesOnlyWhenReady`, an action property, and
  `ServesReady`, the same for the specification that goes on to serve.
  `Achieved` says of every stage what the ones before it have left: the buffers in
  their places up to the one being filled, the published tail, the protocol, the
  state of the socket. A socket call that failed unnoticed leaves descriptor -1,
  which no later stage but the call that rejects it can carry. `DecodeEncode`
  shows that the user data of an operation on an open descriptor is read back as
  it was written.
* `DatagramTypes`: `Spec => []TypeOK`.
* `DatagramsArrive`: `Spec => []EventsAreDatagrams`. All receives share one message
  header, so the name of a sender is right only until the kernel completes the next
  receive. `Flow` says why that is late enough: at most one completion of a receive
  is posted and not looked at, nothing is armed while there is one (`Delivered`),
  and its buffer and the name are still those of the datagram. It needs `Achieved`, since the
  completion finds its buffer by the place start-up has given it, and that the
  buffers are used once, in order (`taken <= tail`). `Right` carries the
  events made so far.

`Applications_proofs` is about the applications behind the server, one after the
other. The facts about sequences and natural numbers they share come first; that
a set of naturals has a least element (`LeastOfNaturals`) rests on their
well-foundedness.

*Rooms*, under `RoomAssumption`:

* `RoomTypes`: `RoomsSpec => []RoomsTypeOK`, of which the capacity is the part that
  matters, and `LogicsAgree`: `RoomsSpec => []LogicAgrees`. The invariant `Kept` speaks of
  every room ever created, since a replaced room still has members and is still
  called. A connection may be in a room several times, so the proof counts
  occurrences: `OccurrencesAppend` and `OccurrencesRemoveAt`, the second by a
  bijection between the places before and after a removal.

*The live application*, under `StreamAssumption`:

* `StreamTypes`: `StreamSpec => []StreamTypeOK`, and `StreamNothingLeft`:
  `StreamSpec => []NothingLeftBehind`. The two are inductive together (`Waiting`): OnData
  returns only when `FrameAtFront` says no, and while it waits for the channel it
  is this connection that is current.
* `FramesOfTheStreams`: `StreamSpec => []FramesAreTheStreams`. A frame is right only
  in relation to the one before it, so the invariant (`InStreams`) adds `Following`:
  the ring of a connection that has lost nothing holds the positions of its stream
  from the end of the last frame handed over to the last byte that arrived. A
  chunk then continues the ring, and the frame at the front of the ring
  continues the frames (`FrameAdded`).

*HTTP*, under `HttpAssumption` (a method and a path hold no space and no line end,
and the rest of a request line no line end; a body may hold anything; routes that
are added have any handler, one that fails or answers nothing included):

* `HttpTypes`, `HttpOneAnswer`: the types and `OneAnswerPerChunk`. Their invariant
  `Serving` has four parts beside the types. `RoutesKnown`: a handler that answers
  nothing was registered late, so that a chunk it leaves unanswered is one of its
  requests (`SilentOnPurpose`). `Handling`: the data of the context is the stretch of the stream
  between the last chunk handled and what has been read, although the client sends
  meanwhile. `Recursion`: on the way down no parser passed has found the chunk cut
  short; on the way up there is an error if and only if the pipeline parses and the
  chunk is. `Answered`: the history, chunk by chunk, and how many answers
  each may have got (`Due`).
* `HttpParsersAgree`: `Spec => []ParsersAgree`. One parser searches the bytes for an
  empty line, the other takes them apart line by line. The parts of a text end at
  its separators in their order (`Ends`, by counting: `RankRises`, `RankTaken`), so
  the first part without tokens is the first place where two line ends meet
  (`FirstEmptyPart`), and what is put together behind it is what follows it. The
  request line is the same in the text and in the header alone
  (`HeaderHasRequestLine`). Hence `ParsedAlike`, for every text.
* `HttpWholeRequests`: `Spec => WholeRequestsAnswered`, an action property. The text of
  a well-formed request parses back into its method, path and body, whatever the
  body holds (`TextLaid`, `LineOfText`, `TextUnderstood`), and every request is in
  the stream where it was sent (`Sending`).

Only model-checked:

* liveness, everything under fairness, and the findings: out of the provers' reach;
* `CapacityFits`: `RingSizing` needs bitwise operators;
* `PartsInTurn` of `MCHttpServer`, an assumption TLC evaluates: for every text of up to
  five tokens `Split` and `JoinFrom` are what going through the text token by token
  gives. That is a fact about a fold, which only induction over data would prove.

## 6. Plan

Done, in this order, the core first: the byte ring, ring sizing, the submission
ring, the completion ring, the server, the send path, framing, rooms, HTTP with
its middleware, start-up and UDP, all checked. Every safety property a passing
run checks is proved as well, except `CapacityFits`.

What could follow is a refinement of `NetworkServer`'s submissions by
`SubmissionRing`, once the index array and the early publication of the tail are
mended in the code: with them the one-step `Submit` is not implemented.

Not modelled, and why: the layout of the kernel's structures and the pointer
arithmetic into them (no property tells them apart); `WaitEvent`, `Timeout` and
`Read` of the ring, which nothing that runs calls; the text of answers, dates,
server names, content types and logging; the Go heap, so that the memory of a
response may be collected while the kernel reads it (io_uring_engine.go:276) is
listed as a hazard only; a peer's status, which no code stores, and session
identifiers; `cmd/http-server` (the wiring of cmd/debug with the HTTP application,
and it does not compile against `NewNetworkServer`'s parameters).
