--------------------------- MODULE CompletionRing ---------------------------
(***************************************************************************)
(* The completion half of core/core/uring.go: PeekBatchEvents, cqReady and *)
(* getCQE, run by Serve only, against the kernel, which posts an entry     *)
(* whenever the ring has room.  A completion is its number, counted from 1 *)
(* in the order the kernel posts them.                                     *)
(***************************************************************************)
EXTENDS Integers, Sequences

CONSTANTS Entries,      \* *u.CQ.Entries
          Wrap,         \* modulus of the counters: 2^32
          MaxPosts      \* bound of the exploration: completions posted

CompletionAssumption ==
  /\ Entries \in Nat \ {0} /\ Wrap \in Nat /\ Entries < Wrap
  /\ \E m \in 2..Wrap : Wrap = Entries * m
  /\ MaxPosts \in Nat

ASSUME CompletionAssumption

VARIABLES
  head, tail,   \* the shared counters: getCQE moves head, the kernel tail
  cqes,         \* the entries
  pc,           \* "idle", "more" (a batch is being taken), "copy", "panicked"
  left,         \* entries of this batch still to be taken
  slot,         \* the counter getCQE has just released
  batch,        \* the entries copied so far
  \* History of the run.
  posted,       \* completions posted
  returned,     \* completions in the batches returned, in order
  filled        \* the ring has been full

shared == <<head, tail, cqes>>
vars == <<shared, pc, left, slot, batch, posted, returned, filled>>

Slots == 0..Entries-1
Counters == 0..Wrap-1

Masked(x) == x % Entries

Pending == (tail - head) % Wrap

-----------------------------------------------------------------------------
\* The kernel posts a completion.  It does not write over an entry between head
\* and tail: what finds no room waits in the kernel.
Post ==
  /\ posted < MaxPosts /\ Pending < Entries
  /\ cqes' = [cqes EXCEPT ![Masked(tail)] = posted + 1]
  /\ tail' = (tail + 1) % Wrap
  /\ posted' = posted + 1
  /\ filled' = (filled \/ Pending + 1 = Entries)
  /\ UNCHANGED <<head, pc, left, slot, batch, returned>>

\* Mutant: one entry more than is ready.
PeekBatchLong ==
  /\ pc = "idle" /\ Pending > 0
  /\ left' = Pending + 1 /\ pc' = "more" /\ batch' = << >>
  /\ UNCHANGED <<shared, slot, posted, returned, filled>>

\* Mutant: a single completion is taken for none.
PeekBatchSome ==
  /\ pc = "idle" /\ Pending > 1
  /\ left' = Pending /\ pc' = "more" /\ batch' = << >>
  /\ UNCHANGED <<shared, slot, posted, returned, filled>>

\* PeekBatchEvents: takes all that is ready, whatever the batch size asked for;
\* with nothing ready it returns ErrWouldBlock.
PeekBatch ==
  /\ pc = "idle" /\ Pending > 0
  /\ left' = Pending /\ pc' = "more" /\ batch' = << >>
  /\ UNCHANGED <<shared, slot, posted, returned, filled>>

\* Mutant: releases two entries at a time.
GetCQETwice ==
  /\ pc = "more" /\ left > 0
  /\ IF head = tail
       THEN pc' = "panicked" /\ UNCHANGED <<head, slot>>
       ELSE pc' = "copy" /\ slot' = head /\ head' = (head + 2) % Wrap
  /\ UNCHANGED <<tail, cqes, left, batch, posted, returned, filled>>

\* getCQE releases the entry with a compare-and-swap of head, which nobody else
\* moves; without an entry it returns nil, which makes PeekBatchEvents panic.
GetCQE ==
  /\ pc = "more" /\ left > 0
  /\ IF head = tail
       THEN pc' = "panicked" /\ UNCHANGED <<head, slot>>
       ELSE pc' = "copy" /\ slot' = head /\ head' = (head + 1) % Wrap
  /\ UNCHANGED <<tail, cqes, left, batch, posted, returned, filled>>

\* Mutant: goes on as long as there is an entry.
CopyCQEOn ==
  /\ pc = "copy"
  /\ batch' = Append(batch, cqes[Masked(slot)])
  /\ left' = Pending /\ pc' = "more"
  /\ UNCHANGED <<shared, slot, posted, returned, filled>>

\* ... and then copies it.
CopyCQE ==
  /\ pc = "copy"
  /\ batch' = Append(batch, cqes[Masked(slot)])
  /\ left' = left - 1 /\ pc' = "more"
  /\ UNCHANGED <<shared, slot, posted, returned, filled>>

\* The loop of PeekBatchEvents is over: ReceiveData gets the batch.
Return ==
  /\ pc = "more" /\ left = 0
  /\ returned' = returned \o batch
  /\ pc' = "idle" /\ batch' = << >>
  /\ UNCHANGED <<shared, left, slot, posted, filled>>

Init ==
  /\ head = 0 /\ tail = 0 /\ cqes = [s \in Slots |-> 0]
  /\ pc = "idle" /\ left = 0 /\ slot = 0 /\ batch = << >>
  /\ posted = 0 /\ returned = << >> /\ filled = FALSE

Next == Post \/ PeekBatch \/ GetCQE \/ CopyCQE \/ Return

\* Serve spins.
Fairness == WF_vars(PeekBatch \/ GetCQE \/ CopyCQE \/ Return)

Spec == Init /\ [][Next]_vars /\ Fairness

-----------------------------------------------------------------------------
TypeOK ==
  /\ head \in Counters /\ tail \in Counters
  /\ Pending <= Entries
  /\ cqes \in [Slots -> Nat]
  /\ pc \in {"idle", "more", "copy", "panicked"}
  /\ left \in Nat /\ slot \in Counters
  /\ batch \in Seq(Nat) /\ returned \in Seq(Nat)
  /\ posted \in Nat /\ filled \in BOOLEAN

\* While a batch is being taken the entries counted as ready stay there: getCQE
\* never comes back empty-handed and PeekBatchEvents never panics.
BatchIsThere ==
  /\ pc # "panicked"
  /\ pc = "more" => left <= Pending
  /\ pc = "copy" => left <= Pending + 1

Taken == returned \o batch

\* Serve is handed every completion once and in the order they were posted, as
\* long as the ring has never been full: then no slot getCQE has released can
\* be written again before it is copied.
InPostedOrder == ~filled => Taken = [i \in 1..Len(Taken) |-> i]

\* The entries still to be copied: where they begin, how many there are, and how
\* many of them belong to the batch being taken.
Oldest == IF pc = "copy" THEN slot ELSE head
Held == IF pc = "copy" THEN Pending + 1 ELSE Pending
Due == IF pc = "idle" THEN 0 ELSE left

Entry(k) == cqes[Masked(Oldest + k)]

\* What waits for the next batch, and the batch being taken: its entries copied
\* and those due.
Waiting == [k \in 1..Held - Due |-> Entry(Due + k - 1)]
Counted == batch \o [k \in 1..Due |-> Entry(k - 1)]

Queue == INSTANCE CompletionQueue WITH queue <- Waiting, batch <- Counted

\* For its caller PeekBatchEvents takes a batch in one step, the one in which it
\* counts what is ready: what it then copies entry by entry, each after its
\* release, is what was in the ring at that moment, whatever the kernel posts
\* meanwhile, as long as the ring has never been full.
TakesWholeBatches ==
  Queue!Init /\ [][~filled' => Queue!Next \/ UNCHANGED Queue!vars]_vars

\* Every completion is returned eventually.
AllReturned == \A i \in 1..MaxPosts : posted >= i ~> Len(returned) >= i
=============================================================================
