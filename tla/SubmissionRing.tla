--------------------------- MODULE SubmissionRing ---------------------------
(***************************************************************************)
(* The submission half of core/core/uring.go: pushSQE and sendSQE, run by  *)
(* the goroutines that submit (Serve, and the goroutine that asks the      *)
(* engine to close when the context is cancelled), against the kernel,     *)
(* which consumes at most one entry per io_uring_enter.                    *)
(*                                                                         *)
(* Every load, compare-and-swap and store that another submitter or the    *)
(* kernel can see is a step of its own.                                    *)
(***************************************************************************)
EXTENDS Integers, Sequences, FiniteSets

CONSTANTS Submitters,   \* the goroutines that submit
          Ops,          \* Ops[p]: how many operations of p are explored
          Entries,      \* *u.SQ.Entries: 4096 in the code
          Wrap,         \* modulus of the counters: 2^32
          Vacant        \* an entry never written (the mmap is zeroed)

SubmissionAssumption ==
  /\ IsFiniteSet(Submitters)
  /\ Ops \in [Submitters -> Nat]
  /\ Entries \in Nat \ {0}
  /\ Wrap \in Nat
  /\ Entries < Wrap /\ Wrap % Entries = 0
  /\ Cardinality(Submitters) < Entries
  /\ Vacant \notin Submitters \X Nat

ASSUME SubmissionAssumption

VARIABLES
  head, tail,   \* the shared counters: the kernel moves head, pushSQE tail
  sqe,          \* the entries
  array,        \* the indices of the entries, in submission order
  pc,           \* where each submitter is in Submit
  n,            \* the operations each has begun
  panicked,     \* the submitters whose io_uring_enter has failed
  seenHead,     \* its local head
  seenTail,     \* its local tail
  \* History of the run, read by properties only.
  issued,       \* the operations the kernel has started, in order
  dropped,      \* how many entries the kernel refused (the ring's Dropped)
  claimed,      \* the operations that claimed a slot, in order
  refused,      \* the operations pushSQE turned away
  overlapped    \* some slot was claimed while another claim was under way

shared == <<head, tail, sqe, array>>
local == <<pc, n, seenHead, seenTail>>
history == <<issued, dropped, claimed, refused, overlapped>>
vars == <<shared, local, panicked, history>>

Slots == 0..Entries-1
Counters == 0..Wrap-1

\* x & mask
Masked(x) == x % Entries

\* tail - head in uint32
Apart(t, h) == (t - h) % Wrap

Pending == Apart(tail, head)

\* The operation p is submitting.
Op(p) == <<p, n[p]>>

\* Submitters between the claim of a slot and the return of their io_uring_enter.
\* One whose io_uring_enter has failed stays there.
InFlight == {p \in Submitters : pc[p] \in {"entry", "index", "claimed"}}

-----------------------------------------------------------------------------
\* Submit is called; pushSQE loads head ...
LoadHead(p) ==
  /\ pc[p] = "idle" /\ n[p] < Ops[p]
  /\ n' = [n EXCEPT ![p] = @ + 1]
  /\ seenHead' = [seenHead EXCEPT ![p] = head]
  /\ pc' = [pc EXCEPT ![p] = "check"]
  /\ UNCHANGED <<shared, seenTail, history>>

\* ... and tail.  If the ring looks full the operation is given up and nil
\* returned; Submit ignores the result and enters the kernel all the same.
CheckFull(p) ==
  /\ pc[p] = "check"
  /\ IF Apart(tail, seenHead[p]) >= Entries
       THEN /\ pc' = [pc EXCEPT ![p] = "refused"]
            /\ refused' = refused \union {Op(p)}
       ELSE /\ pc' = [pc EXCEPT ![p] = "load"]
            /\ UNCHANGED refused
  /\ UNCHANGED <<shared, n, seenHead, seenTail, issued, dropped, claimed, overlapped>>

\* The loop loads tail again ...
LoadTail(p) ==
  /\ pc[p] = "load"
  /\ seenTail' = [seenTail EXCEPT ![p] = tail]
  /\ pc' = [pc EXCEPT ![p] = "cas"]
  /\ UNCHANGED <<shared, n, seenHead, history>>

\* ... and on a failed compare-and-swap yields and starts over ...
Retry(p) ==
  /\ pc[p] = "cas" /\ tail # seenTail[p]
  /\ pc' = [pc EXCEPT ![p] = "load"]
  /\ UNCHANGED <<shared, n, seenHead, seenTail, history>>

\* ... or claims the slot.  From here on the kernel may consume it.
Claim(p) ==
  /\ pc[p] = "cas" /\ tail = seenTail[p]
  /\ tail' = (tail + 1) % Wrap
  /\ pc' = [pc EXCEPT ![p] = "entry"]
  /\ claimed' = Append(claimed, Op(p))
  /\ overlapped' = (overlapped \/ InFlight # {})
  /\ UNCHANGED <<head, sqe, array, n, seenHead, seenTail, issued, dropped, refused>>

\* Mutant: the slot after the claimed one.
WriteEntryNext(p) ==
  /\ pc[p] = "entry"
  /\ sqe' = [sqe EXCEPT ![Masked(seenTail[p] + 1)] = Op(p)]
  /\ pc' = [pc EXCEPT ![p] = "index"]
  /\ UNCHANGED <<head, tail, array, n, seenHead, seenTail, history>>

\* sqe[tail & mask] = *op
WriteEntry(p) ==
  /\ pc[p] = "entry"
  /\ sqe' = [sqe EXCEPT ![Masked(seenTail[p])] = Op(p)]
  /\ pc' = [pc EXCEPT ![p] = "index"]
  /\ UNCHANGED <<head, tail, array, n, seenHead, seenTail, history>>

\* Mutant: the index of the slot after, past the end of the counters.
WriteIndexAhead(p) ==
  /\ pc[p] = "index"
  /\ array' = [array EXCEPT ![Masked(seenTail[p])] = seenTail[p] + 1]
  /\ pc' = [pc EXCEPT ![p] = "claimed"]
  /\ UNCHANGED <<head, tail, sqe, n, seenHead, seenTail, history>>

\* array[tail & mask] = tail: the index is not masked.
WriteIndex(p) ==
  /\ pc[p] = "index"
  /\ array' = [array EXCEPT ![Masked(seenTail[p])] = seenTail[p]]
  /\ pc' = [pc EXCEPT ![p] = "claimed"]
  /\ UNCHANGED <<head, tail, sqe, n, seenHead, seenTail, history>>

\* Mutant: leaves the system call to another submitter that is under way.
EnterLazily(p) ==
  /\ pc[p] \in {"claimed", "refused"}
  /\ pc' = [pc EXCEPT ![p] = "idle"]
  /\ IF Pending = 0 \/ InFlight \ {p} # {}
       THEN UNCHANGED <<head, issued, dropped>>
       ELSE LET i == array[Masked(head)] IN
            /\ head' = (head + 1) % Wrap
            /\ IF i \in Slots
                 THEN issued' = Append(issued, sqe[i]) /\ UNCHANGED dropped
                 ELSE dropped' = dropped + 1 /\ UNCHANGED issued
  /\ UNCHANGED <<tail, sqe, array, n, seenHead, seenTail, claimed, refused, overlapped>>

\* io_uring_enter with to_submit = 1.  If an entry is pending the kernel takes
\* the oldest: the operation its index points to is started, an index out of
\* range is counted in Dropped.
Enter(p) ==
  /\ pc[p] \in {"claimed", "refused"}
  /\ pc' = [pc EXCEPT ![p] = "idle"]
  /\ IF Pending = 0
       THEN UNCHANGED <<head, issued, dropped>>
       ELSE LET i == array[Masked(head)] IN
            /\ head' = (head + 1) % Wrap
            /\ IF i \in Slots
                 THEN issued' = Append(issued, sqe[i]) /\ UNCHANGED dropped
                 ELSE dropped' = dropped + 1 /\ UNCHANGED issued
  /\ UNCHANGED <<tail, sqe, array, n, seenHead, seenTail, claimed, refused, overlapped>>

\* io_uring_enter fails (a signal, no memory for the request, ...): sendSQE
\* panics, and the entry stays for whoever enters next.  The others may still get
\* some way before the program has ended.
EnterFails(p) ==
  /\ pc[p] \in {"claimed", "refused"}
  /\ panicked' = panicked \union {p}
  /\ UNCHANGED <<shared, local, history>>

-----------------------------------------------------------------------------
Init ==
  /\ head = 0 /\ tail = 0
  /\ sqe = [s \in Slots |-> Vacant]
  /\ array = [s \in Slots |-> 0]
  /\ pc = [p \in Submitters |-> "idle"]
  /\ n = [p \in Submitters |-> 0] /\ panicked = {}
  /\ seenHead = [p \in Submitters |-> 0]
  /\ seenTail = [p \in Submitters |-> 0]
  /\ issued = << >> /\ dropped = 0
  /\ claimed = << >> /\ refused = {} /\ overlapped = FALSE

Step(p) ==
  /\ p \notin panicked
  /\ \/ /\ \/ LoadHead(p) \/ CheckFull(p) \/ LoadTail(p) \/ Retry(p) \/ Claim(p)
           \/ WriteEntry(p) \/ WriteIndex(p) \/ Enter(p)
        /\ UNCHANGED panicked
     \/ EnterFails(p)

Next == \E p \in Submitters : Step(p)

Spec == Init /\ [][Next]_vars

-----------------------------------------------------------------------------
\* Type invariant.  The histories are sequences over the operations.
TypeOK ==
  /\ head \in Counters /\ tail \in Counters
  /\ sqe \in [Slots -> (Submitters \X Nat) \union {Vacant}]
  /\ array \in [Slots -> Counters]
  /\ pc \in [Submitters -> {"idle", "check", "refused", "load", "cas", "entry",
                            "index", "claimed"}]
  /\ n \in [Submitters -> Nat] /\ panicked \subseteq Submitters
  /\ seenHead \in [Submitters -> Counters]
  /\ seenTail \in [Submitters -> Counters]
  /\ issued \in Seq((Submitters \X Nat) \union {Vacant})
  /\ dropped \in Nat
  /\ claimed \in Seq(Submitters \X Nat)
  /\ refused \subseteq Submitters \X Nat
  /\ overlapped \in BOOLEAN

\* The ring never holds more entries than there are submitters between their
\* claim and the return of their io_uring_enter, so with fewer submitters than
\* entries it can never overrun: what keeps a claimed slot from being claimed
\* again although pushSQE checks for room before it claims, not while (pushSQE,
\* sendSQE with to_submit = 1).
PendingBounded == Pending <= Cardinality(InFlight)

\* Submissions that do not overlap reach the kernel completely and in order,
\* as long as the ring has not been used more than once around (pushSQE writes
\* the unmasked tail as the index) and none was turned away.
SerialSubmissionsArrive ==
  ~overlapped /\ refused = {} /\ Len(claimed) <= Entries =>
    issued = SubSeq(claimed, 1, Len(claimed) - Cardinality(InFlight))

-----------------------------------------------------------------------------
(* What uring.go says of the ring and the code does not keep. *)

\* "Array // SQEへのポインタ" (uring.go:525, a pointer to an SQE): every index
\* the kernel reads points to an entry.
IndexPointsToEntry == dropped = 0
=============================================================================
