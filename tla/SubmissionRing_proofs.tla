----------------------- MODULE SubmissionRing_proofs -----------------------
(***************************************************************************)
(* For any number of submitters and any ring: the submission ring never    *)
(* holds more entries than there are submitters under way, and submissions *)
(* that do not overlap arrive.                                             *)
(***************************************************************************)
EXTENDS SubmissionRing, ModularArithmetic, FiniteSetTheorems, SequenceTheorems

\* What the assumption on the constants gives.
LEMMA RingConstants ==
  /\ Entries \in Nat \ {0} /\ Wrap \in Nat \ {0} /\ Entries < Wrap
  /\ IsFiniteSet(Submitters) /\ Ops \in [Submitters -> Nat]
BY SubmissionAssumption DEF SubmissionAssumption

\* A masked counter is a slot.
LEMMA MaskedInSlots ==
  ASSUME NEW x \in Int
  PROVE  Masked(x) \in Slots
BY RingConstants, ModRange DEF Masked, Slots

\* The successor of a counter, wrapped, is a counter.
LEMMA SuccessorIsCounter ==
  ASSUME NEW x \in Counters
  PROVE  (x + 1) % Wrap \in Counters
BY RingConstants, ModNext DEF Counters

-----------------------------------------------------------------------------
(* Types. *)

\* Every load, compare-and-swap and store of pushSQE and sendSQE, and what the
\* kernel takes, keeps the types, for any number of submitters and entries.
THEOREM SubmissionTypes == Spec => []TypeOK
<1>1. Init => TypeOK
  <2> SUFFICES ASSUME Init PROVE TypeOK
    OBVIOUS
  <2>1. 0 \in Counters
    BY RingConstants DEF Counters
  <2>2. /\ head \in Counters /\ tail \in Counters /\ array \in [Slots -> Counters]
        /\ seenHead \in [Submitters -> Counters]
        /\ seenTail \in [Submitters -> Counters]
    BY <2>1 DEF Init
  <2>3. /\ sqe \in [Slots -> (Submitters \X Nat) \union {Vacant}]
        /\ n \in [Submitters -> Nat] /\ dropped \in Nat /\ panicked \subseteq Submitters
    BY DEF Init
  <2>4. /\ issued \in Seq((Submitters \X Nat) \union {Vacant})
        /\ claimed \in Seq(Submitters \X Nat)
        /\ refused \subseteq Submitters \X Nat
        /\ overlapped \in BOOLEAN
    <3>1. \A T : << >> \in Seq(T)
      OBVIOUS
    <3> QED
      BY <3>1 DEF Init
  <2>5. pc \in [Submitters -> {"idle", "check", "refused", "load", "cas", "entry",
                              "index", "claimed"}]
    BY DEF Init
  <2> QED
    BY <2>2, <2>3, <2>4, <2>5 DEF TypeOK
<1>2. TypeOK /\ [Next]_vars => TypeOK'
  <2> SUFFICES ASSUME TypeOK, [Next]_vars PROVE TypeOK'
    OBVIOUS
  <2> USE DEF TypeOK
  <2>0. panicked' \subseteq Submitters
    BY DEF Next, Step, EnterFails, vars
  <2> USE <2>0
  <2>1. ASSUME NEW p \in Submitters, LoadHead(p) PROVE TypeOK'
    BY <2>1 DEF LoadHead, shared, history
  <2>2. ASSUME NEW p \in Submitters, CheckFull(p) PROVE TypeOK'
    <3>1. refused' \subseteq Submitters \X Nat
      BY <2>2 DEF CheckFull, Op
    <3>2. pc' \in [Submitters -> {"idle", "check", "refused", "load", "cas", "entry",
                                 "index", "claimed"}]
      BY <2>2 DEF CheckFull
    <3> QED
      BY <2>2, <3>1, <3>2 DEF CheckFull, shared
  <2>3. ASSUME NEW p \in Submitters, LoadTail(p) PROVE TypeOK'
    BY <2>3 DEF LoadTail, shared, history
  <2>4. ASSUME NEW p \in Submitters, Retry(p) PROVE TypeOK'
    BY <2>4 DEF Retry, shared, history
  <2>5. ASSUME NEW p \in Submitters, Claim(p) PROVE TypeOK'
    <3>1. tail' \in Counters
      BY <2>5, SuccessorIsCounter DEF Claim
    <3>2. claimed' \in Seq(Submitters \X Nat)
      BY <2>5 DEF Claim, Op
    <3> QED
      BY <2>5, <3>1, <3>2 DEF Claim
  <2>6. ASSUME NEW p \in Submitters, WriteEntry(p) PROVE TypeOK'
    BY <2>6 DEF WriteEntry, Op, history
  <2>7. ASSUME NEW p \in Submitters, WriteIndex(p) PROVE TypeOK'
    BY <2>7 DEF WriteIndex, history
  <2>8. ASSUME NEW p \in Submitters, Enter(p) PROVE TypeOK'
    <3>1. head' \in Counters
      BY <2>8, SuccessorIsCounter DEF Enter
    <3>2. /\ issued' \in Seq((Submitters \X Nat) \union {Vacant})
          /\ dropped' \in Nat
      <4> DEFINE i == array[Masked(head)]
      <4>1. i \in Slots => sqe[i] \in (Submitters \X Nat) \union {Vacant}
        OBVIOUS
      <4>2. \A T : \A s \in Seq(T) : \A e \in T : Append(s, e) \in Seq(T)
        OBVIOUS
      <4>3. \/ issued' = issued /\ dropped' = dropped
            \/ i \in Slots /\ issued' = Append(issued, sqe[i]) /\ dropped' = dropped
            \/ issued' = issued /\ dropped' = dropped + 1
        BY <2>8 DEF Enter
      <4> HIDE DEF i
      <4>4. issued \in Seq((Submitters \X Nat) \union {Vacant}) /\ dropped \in Nat
        OBVIOUS
      <4>5. CASE i \in Slots /\ issued' = Append(issued, sqe[i])
        BY <4>1, <4>3, <4>2, <4>4, <4>5
      <4> QED
        BY <4>3, <4>4, <4>5
    <3> QED
      BY <2>8, <3>1, <3>2 DEF Enter
  <2>9. ASSUME NEW p \in Submitters, EnterFails(p) PROVE TypeOK'
    BY <2>9 DEF EnterFails, shared, local, history
  <2>10. CASE UNCHANGED vars
    BY <2>10 DEF vars, shared, local, history
  <2> QED
    BY <2>1, <2>2, <2>3, <2>4, <2>5, <2>6, <2>7, <2>8, <2>9, <2>10 DEF Next, Step
<1> QED
  BY <1>1, <1>2, PTL DEF Spec

-----------------------------------------------------------------------------
(* Room. *)

\* The distance of tail and head is below the modulus.
LEMMA PendingRange ==
  ASSUME TypeOK
  PROVE  Pending \in 0..Wrap-1
BY RingConstants, ModRange DEF TypeOK, Counters, Pending, Apart

\* The submitters in flight are finitely many.
LEMMA InFlightFinite == IsFiniteSet(InFlight) /\ Cardinality(InFlight) \in Nat
BY RingConstants, FS_Subset, FS_CardinalityType DEF InFlight

\* A claim adds one entry, unless the counters wrap onto each other.
LEMMA ClaimAddsOne ==
  ASSUME TypeOK, tail' = (tail + 1) % Wrap, head' = head
  PROVE  Pending' <= Pending + 1
<1>1. tail \in 0..Wrap-1 /\ head \in 0..Wrap-1 /\ Wrap \in Nat \ {0}
  BY RingConstants DEF TypeOK, Counters
<1>2. tail' = IF tail + 1 < Wrap THEN tail + 1 ELSE 0
  BY <1>1, ModNext
<1>3. tail' \in 0..Wrap-1
  BY <1>1, <1>2
<1>4. Pending' = IF tail' >= head THEN tail' - head ELSE tail' - head + Wrap
  BY <1>1, <1>3, ModDistance DEF Pending, Apart
<1>5. Pending = IF tail >= head THEN tail - head ELSE tail - head + Wrap
  BY <1>1, ModDistance DEF Pending, Apart
<1> QED
  BY <1>1, <1>2, <1>4, <1>5

\* The kernel takes one entry away.
LEMMA EnterTakesOne ==
  ASSUME TypeOK, Pending # 0, head' = (head + 1) % Wrap, tail' = tail
  PROVE  Pending' = Pending - 1
<1>1. tail \in 0..Wrap-1 /\ head \in 0..Wrap-1 /\ Wrap \in Nat \ {0}
  BY RingConstants DEF TypeOK, Counters
<1>2. head' = IF head + 1 < Wrap THEN head + 1 ELSE 0
  BY <1>1, ModNext
<1>3. head' \in 0..Wrap-1
  BY <1>1, <1>2
<1>4. Pending' = IF tail >= head' THEN tail - head' ELSE tail - head' + Wrap
  BY <1>1, <1>3, ModDistance DEF Pending, Apart
<1>5. Pending = IF tail >= head THEN tail - head ELSE tail - head + Wrap
  BY <1>1, ModDistance DEF Pending, Apart
<1> QED
  BY <1>1, <1>2, <1>4, <1>5

\* The ring cannot overrun: see PendingBounded.
THEOREM RoomForEverySubmitter == Spec => []PendingBounded
<1>1. Init => PendingBounded
  <2> SUFFICES ASSUME Init PROVE PendingBounded
    OBVIOUS
  <2>1. Pending = 0
    BY RingConstants, ModSmall DEF Init, Pending, Apart
  <2> QED
    BY <2>1, InFlightFinite DEF PendingBounded
<1>2. TypeOK /\ PendingBounded /\ [Next]_vars => PendingBounded'
  <2> SUFFICES ASSUME TypeOK, PendingBounded, [Next]_vars PROVE PendingBounded'
    OBVIOUS
  <2> DEFINE Card == Cardinality(InFlight)
  <2>1. Pending \in Nat /\ Card \in Nat /\ Pending <= Card /\ IsFiniteSet(InFlight)
    BY PendingRange, InFlightFinite, RingConstants DEF PendingBounded
  <2>2. ASSUME InFlight' = InFlight, Pending' = Pending PROVE PendingBounded'
    BY <2>1, <2>2 DEF PendingBounded
  <2>3. ASSUME NEW p \in Submitters,
               LoadHead(p) \/ CheckFull(p) \/ LoadTail(p) \/ Retry(p)
               \/ WriteEntry(p) \/ WriteIndex(p)
        PROVE  PendingBounded'
    <3>1. head' = head /\ tail' = tail
      BY <2>3 DEF LoadHead, CheckFull, LoadTail, Retry, WriteEntry, WriteIndex, shared
    <3>2. InFlight' = InFlight
      BY <2>3 DEF LoadHead, CheckFull, LoadTail, Retry, WriteEntry, WriteIndex,
                  InFlight, TypeOK
    <3> QED
      BY <2>2, <3>1, <3>2 DEF Pending
  <2>4. ASSUME NEW p \in Submitters, Claim(p) PROVE PendingBounded'
    <3>1. Pending' <= Pending + 1
      BY <2>4, ClaimAddsOne DEF Claim
    <3>2. InFlight' = InFlight \union {p} /\ p \notin InFlight
      BY <2>4 DEF Claim, InFlight, TypeOK
    <3>3. Cardinality(InFlight') = Card + 1
      BY <2>1, <3>2, FS_AddElement
    <3>4. Pending' \in Int
      BY <2>4, RingConstants, ModRange, SuccessorIsCounter
         DEF Claim, Pending, Apart, TypeOK, Counters
    <3> HIDE DEF Card
    <3> QED
      BY <2>1, <3>1, <3>3, <3>4 DEF PendingBounded
  <2>5. ASSUME NEW p \in Submitters, Enter(p) PROVE PendingBounded'
    <3>1. CASE pc[p] = "refused"
      <4>1. InFlight' = InFlight
        BY <2>5, <3>1 DEF Enter, InFlight, TypeOK
      <4>2. Pending' = Pending \/ Pending' = Pending - 1
        BY <2>5, EnterTakesOne DEF Enter, Pending
      <4> QED
        BY <2>1, <4>1, <4>2 DEF PendingBounded
    <3>2. CASE pc[p] = "claimed"
      <4>1. InFlight' = InFlight \ {p} /\ p \in InFlight
        BY <2>5, <3>2 DEF Enter, InFlight, TypeOK
      <4>2. Cardinality(InFlight') = Card - 1
        BY <2>1, <4>1, FS_RemoveElement
      <4>3. CASE Pending = 0
        <5>1. Pending' = 0
          BY <2>5, <4>3 DEF Enter, Pending
        <5>2. Cardinality(InFlight') \in Nat
          BY <2>1, <4>1, FS_RemoveElement, FS_CardinalityType
        <5> QED
          BY <5>1, <5>2 DEF PendingBounded
      <4>4. CASE Pending # 0
        <5>1. Pending' = Pending - 1
          BY <2>5, <4>4, EnterTakesOne DEF Enter
        <5> QED
          BY <2>1, <4>2, <5>1 DEF PendingBounded
      <4> QED
        BY <4>3, <4>4
    <3> QED
      BY <2>5, <3>1, <3>2 DEF Enter
  <2>6. ASSUME NEW p \in Submitters, EnterFails(p) PROVE PendingBounded'
    BY <2>2, <2>6 DEF EnterFails, shared, local, InFlight, Pending
  <2>7. CASE UNCHANGED vars
    BY <2>2, <2>7 DEF vars, shared, local, InFlight, Pending
  <2> QED
    BY <2>3, <2>4, <2>5, <2>6, <2>7 DEF Next, Step
<1> QED
  BY <1>1, <1>2, SubmissionTypes, PTL DEF Spec

-----------------------------------------------------------------------------
(* Submissions that do not overlap. *)

\* No claim has begun while another was under way, none was turned away, and the
\* ring has not been used more than once around.
Serially == ~overlapped /\ refused = {} /\ Len(claimed) <= Entries

\* The operation of a submitter that was turned away is known.
RefusedKnown == \A p \in Submitters : pc[p] = "refused" => Op(p) \in refused

\* Nobody is under way, and the kernel has started everything.
Settled == InFlight = {} /\ head = Len(claimed) /\ issued = claimed

\* Only p is under way, with the last operation: what it has stored of it so far
\* is in the last slot.
UnderWay(p) ==
  /\ InFlight = {p} /\ Len(claimed) > 0 /\ head = Len(claimed) - 1
  /\ issued = SubSeq(claimed, 1, Len(claimed) - 1)
  /\ claimed[Len(claimed)] = Op(p)
  /\ seenTail[p] = Len(claimed) - 1
  /\ pc[p] # "entry" => sqe[Len(claimed) - 1] = Op(p)
  /\ pc[p] = "claimed" => array[Len(claimed) - 1] = Len(claimed) - 1

Traced == Serially => tail = Len(claimed) /\ (Settled \/ \E p \in Submitters : UnderWay(p))

LEMMA TracedInit == Init => RefusedKnown /\ Traced
<1> SUFFICES ASSUME Init PROVE RefusedKnown /\ Traced
  OBVIOUS
<1>1. /\ pc = [p \in Submitters |-> "idle"] /\ claimed = << >> /\ issued = << >>
      /\ head = 0 /\ tail = 0 /\ Len(claimed) = 0
  BY DEF Init
<1>2. InFlight = {}
  BY <1>1 DEF InFlight
<1> QED
  BY <1>1, <1>2 DEF RefusedKnown, Traced, Settled

LEMMA RefusedKept == TypeOK /\ RefusedKnown /\ [Next]_vars => RefusedKnown'
<1> SUFFICES ASSUME TypeOK, RefusedKnown, [Next]_vars, NEW q \in Submitters, pc'[q] = "refused"
             PROVE  <<q, n'[q]>> \in refused'
  BY DEF RefusedKnown, Op
<1>1. pc[q] = "refused" => <<q, n[q]>> \in refused
  BY DEF RefusedKnown, Op
<1>2. ASSUME NEW p \in Submitters, Step(p) PROVE <<q, n'[q]>> \in refused'
  <2>1. CASE LoadHead(p)
    BY <1>1, <2>1 DEF LoadHead, TypeOK, history
  <2>2. CASE CheckFull(p)
    BY <1>1, <2>2 DEF CheckFull, TypeOK, Op
  <2>3. CASE LoadTail(p)
    BY <1>1, <2>3 DEF LoadTail, TypeOK, history
  <2>4. CASE Retry(p)
    BY <1>1, <2>4 DEF Retry, TypeOK, history
  <2>5. CASE Claim(p)
    BY <1>1, <2>5 DEF Claim, TypeOK
  <2>6. CASE WriteEntry(p)
    BY <1>1, <2>6 DEF WriteEntry, TypeOK, history
  <2>7. CASE WriteIndex(p)
    BY <1>1, <2>7 DEF WriteIndex, TypeOK, history
  <2>8. CASE Enter(p)
    BY <1>1, <2>8 DEF Enter, TypeOK
  <2>9. CASE EnterFails(p)
    BY <1>1, <2>9 DEF EnterFails, local, history
  <2> QED
    BY <1>2, <2>1, <2>2, <2>3, <2>4, <2>5, <2>6, <2>7, <2>8, <2>9 DEF Step
<1>3. CASE UNCHANGED vars
  BY <1>1, <1>3 DEF vars, local, history
<1> QED
  BY <1>2, <1>3 DEF Next

\* A counter that has not gone around the ring is its own slot.
LEMMA FirstRound ==
  ASSUME NEW m \in Nat, m < Entries
  PROVE  Masked(m) = m /\ m \in Slots /\ m % Wrap = m
<1>1. m \in 0..Entries - 1 /\ m \in 0..Wrap - 1
  BY RingConstants
<1> QED
  BY <1>1, RingConstants, ModSmall DEF Masked, Slots

\* Steps of a submitter that has no slot, or no step at all.
LEMMA OthersLeave ==
  ASSUME TypeOK, Traced, Serially, NEW p \in Submitters, p \notin InFlight,
         UNCHANGED <<shared, issued, claimed>>,
         \A q \in Submitters \ {p} : pc'[q] = pc[q] /\ n'[q] = n[q] /\ seenTail'[q] = seenTail[q],
         pc'[p] \notin {"entry", "index", "claimed"}
  PROVE  Traced'
<1>1. UNCHANGED <<head, tail, sqe, array, issued, claimed>>
  BY DEF shared
<1>2. InFlight' = InFlight
  BY DEF InFlight
<1>3. tail = Len(claimed)
  BY DEF Traced
<1>4. CASE Settled
  BY <1>1, <1>2, <1>3, <1>4 DEF Settled, Traced
<1>5. ASSUME NEW q \in Submitters, UnderWay(q) PROVE UnderWay(q)'
  <2>1. q # p
    BY <1>5 DEF UnderWay
  <2>2. pc'[q] = pc[q] /\ n'[q] = n[q] /\ seenTail'[q] = seenTail[q]
    BY <2>1
  <2> QED
    BY <1>1, <1>2, <1>5, <2>2 DEF UnderWay, Op
<1>6. Settled \/ \E q \in Submitters : UnderWay(q)
  BY DEF Traced
<1> QED
  BY <1>1, <1>3, <1>4, <1>5, <1>6 DEF Traced

LEMMA ClaimTraced ==
  ASSUME TypeOK, Traced, Serially, Serially', NEW p \in Submitters, Claim(p)
  PROVE  Traced'
<1> DEFINE N == Len(claimed)
<1>1. /\ pc[p] = "cas" /\ tail = seenTail[p] /\ tail' = (tail + 1) % Wrap
      /\ pc' = [pc EXCEPT ![p] = "entry"] /\ claimed' = Append(claimed, Op(p))
      /\ overlapped' = (overlapped \/ InFlight # {})
      /\ UNCHANGED <<head, sqe, array, n, seenTail, issued>>
  BY DEF Claim
<1>2. InFlight = {}
  BY <1>1 DEF Serially
<1>3. tail = N /\ head = N /\ issued = claimed
  BY <1>2 DEF Traced, Settled, UnderWay
<1>4. claimed \in Seq(Submitters \X Nat) /\ N \in Nat /\ Op(p) \in Submitters \X Nat
  BY LenProperties DEF TypeOK, Op
<1>5. /\ claimed' \in Seq(Submitters \X Nat) /\ Len(claimed') = N + 1
      /\ claimed'[N + 1] = Op(p) /\ \A i \in 1..N : claimed'[i] = claimed[i]
  BY <1>1, <1>4, AppendProperties
<1>6. N + 1 <= Entries
  BY <1>5 DEF Serially
<1>7. tail' = N + 1
  <2>1. N + 1 \in 0..Wrap - 1
    BY <1>4, <1>6, RingConstants
  <2> HIDE DEF N
  <2> QED
    BY <2>1, <1>1, <1>3, RingConstants, ModSmall
<1>8. InFlight' = {p}
  BY <1>1, <1>2 DEF InFlight, TypeOK
<1>9. issued' = SubSeq(claimed', 1, N)
  <2>1. claimed = SubSeq(Append(claimed, Op(p)), 1, N)
    BY <1>4
  <2> QED
    BY <2>1, <1>1, <1>3
<1>10. pc'[p] = "entry" /\ Op(p)' = Op(p)
  BY <1>1 DEF TypeOK, Op
<1> HIDE DEF N
<1>11. Len(claimed') > 0 /\ head' = Len(claimed') - 1 /\ seenTail'[p] = Len(claimed') - 1
       /\ Len(claimed') - 1 = N
  BY <1>1, <1>3, <1>4, <1>5
<1>12. claimed'[Len(claimed')] = Op(p)'
  BY <1>5, <1>10
<1>13. UnderWay(p)'
  BY <1>8, <1>9, <1>10, <1>11, <1>12 DEF UnderWay
<1> QED
  BY <1>5, <1>7, <1>13 DEF Traced

LEMMA WriteTraced ==
  ASSUME TypeOK, Traced, Serially, NEW p \in Submitters, WriteEntry(p) \/ WriteIndex(p)
  PROVE  Traced'
<1> DEFINE N == Len(claimed)
<1>1. /\ pc[p] \in {"entry", "index"}
      /\ UNCHANGED <<head, tail, n, seenTail, issued, claimed>>
  BY DEF WriteEntry, WriteIndex, history
<1>2. p \in InFlight
  BY <1>1 DEF InFlight
<1>3. UnderWay(p) /\ tail = N
  BY <1>2 DEF Traced, Settled, UnderWay
<1>4. N - 1 \in Nat /\ N - 1 < Entries
  BY LenProperties, RingConstants, <1>3 DEF UnderWay, Serially, TypeOK
<1>5. seenTail[p] = N - 1 /\ Masked(seenTail[p]) = N - 1 /\ N - 1 \in Slots
  BY <1>3, <1>4, FirstRound DEF UnderWay
<1>6. InFlight' = InFlight
  BY DEF WriteEntry, WriteIndex, InFlight, TypeOK
<1>7. pc'[p] # "entry" /\ sqe'[N - 1] = Op(p)
  <2>1. CASE WriteEntry(p)
    BY <1>5, <2>1 DEF WriteEntry, TypeOK
  <2>2. CASE WriteIndex(p)
    <3>1. sqe' = sqe /\ pc[p] # "entry" /\ pc'[p] # "entry"
      BY <2>2 DEF WriteIndex, TypeOK
    <3> QED
      BY <3>1, <1>3 DEF UnderWay
  <2> QED
    BY <2>1, <2>2
<1>8. pc'[p] = "claimed" => array'[N - 1] = N - 1
  <2>1. CASE WriteEntry(p)
    BY <2>1 DEF WriteEntry, TypeOK
  <2>2. CASE WriteIndex(p)
    <3>1. array' = [array EXCEPT ![N - 1] = N - 1]
      BY <2>2, <1>5 DEF WriteIndex
    <3> HIDE DEF N
    <3> QED
      BY <3>1, <1>5 DEF TypeOK
  <2> QED
    BY <2>1, <2>2
<1>9. Op(p)' = Op(p) /\ N' = N
  BY <1>1 DEF Op
<1>10. UnderWay(p)'
  BY <1>1, <1>3, <1>6, <1>7, <1>8, <1>9 DEF UnderWay
<1> QED
  BY <1>1, <1>3, <1>10 DEF Traced

LEMMA EnterTraced ==
  ASSUME TypeOK, RefusedKnown, Traced, Serially, NEW p \in Submitters, Enter(p)
  PROVE  Traced'
<1> DEFINE N == Len(claimed)
<1>1. pc[p] = "claimed"
  BY DEF Enter, RefusedKnown, Serially
<1>2. p \in InFlight
  BY <1>1 DEF InFlight
<1>3. UnderWay(p) /\ tail = N
  BY <1>2 DEF Traced, Settled, UnderWay
<1>4. N \in Nat /\ N - 1 \in Nat /\ N - 1 < Entries /\ N <= Entries
      /\ claimed \in Seq(Submitters \X Nat)
  BY LenProperties, RingConstants, <1>3 DEF UnderWay, Serially, TypeOK
<1>5. /\ head = N - 1 /\ issued = SubSeq(claimed, 1, N - 1) /\ claimed[N] = Op(p)
      /\ sqe[N - 1] = Op(p) /\ array[N - 1] = N - 1 /\ InFlight = {p}
  BY <1>1, <1>3 DEF UnderWay
<1>6. Masked(head) = N - 1 /\ N - 1 \in Slots
  BY <1>4, <1>5, FirstRound
<1>7. Pending # 0
  <2>1. tail - head = 1 /\ 1 \in 0..Wrap - 1
    BY <1>3, <1>4, <1>5, RingConstants
  <2>2. Pending = 1
    BY <2>1, RingConstants, ModSmall DEF Pending, Apart
  <2> QED
    BY <2>2
<1>8. /\ head' = (head + 1) % Wrap /\ issued' = Append(issued, sqe[N - 1])
      /\ pc' = [pc EXCEPT ![p] = "idle"] /\ UNCHANGED <<tail, claimed>>
  <2>1. array[Masked(head)] = N - 1
    BY <1>5, <1>6
  <2> HIDE DEF N
  <2> QED
    BY <1>6, <1>7, <2>1 DEF Enter
<1>9. head' = N
  <2>1. head + 1 = N /\ N \in 0..Wrap - 1
    BY <1>4, <1>5, RingConstants
  <2> HIDE DEF N
  <2> QED
    BY <2>1, <1>8, RingConstants, ModSmall
<1>10. issued' = claimed
  <2>1. Append(SubSeq(claimed, 1, N - 1), claimed[N]) = claimed
    BY <1>4
  <2> QED
    BY <2>1, <1>5, <1>8
<1>11. InFlight' = {}
  BY <1>5, <1>8 DEF InFlight, TypeOK
<1>12. Settled'
  BY <1>8, <1>9, <1>10, <1>11 DEF Settled
<1> QED
  BY <1>3, <1>8, <1>12 DEF Traced

LEMMA TracedKept == TypeOK /\ RefusedKnown /\ Traced /\ [Next]_vars => Traced'
<1> SUFFICES ASSUME TypeOK, RefusedKnown, Traced, [Next]_vars, Serially' PROVE Traced'
  BY DEF Traced
<1>1. Serially
  <2>1. /\ claimed \in Seq(Submitters \X Nat) /\ Len(claimed) \in Nat
        /\ \A p \in Submitters : Len(Append(claimed, Op(p))) = Len(claimed) + 1
    BY LenProperties, AppendProperties DEF TypeOK, Op
  <2>2. ASSUME NEW p \in Submitters, Step(p)
        PROVE  /\ claimed' = claimed \/ claimed' = Append(claimed, Op(p))
               /\ refused \subseteq refused' /\ (~overlapped' => ~overlapped)
    <3>1. CASE Claim(p)
      BY <3>1 DEF Claim
    <3>2. CASE CheckFull(p)
      BY <3>2 DEF CheckFull
    <3>3. CASE Enter(p)
      BY <3>3 DEF Enter
    <3>4. CASE \/ LoadHead(p) \/ LoadTail(p) \/ Retry(p) \/ WriteEntry(p) \/ WriteIndex(p)
               \/ EnterFails(p)
      BY <3>4 DEF LoadHead, LoadTail, Retry, WriteEntry, WriteIndex, EnterFails, history
    <3> QED
      BY <2>2, <3>1, <3>2, <3>3, <3>4 DEF Step
  <2>3. Len(claimed) <= Len(claimed') /\ Len(claimed') \in Nat /\ refused \subseteq refused'
        /\ (~overlapped' => ~overlapped)
    <3>1. CASE UNCHANGED vars
      BY <2>1, <3>1 DEF vars, history
    <3> QED
      BY <2>1, <2>2, <3>1 DEF Next
  <2>4. Len(claimed) <= Entries
    BY <2>1, <2>3, RingConstants DEF Serially
  <2> QED
    BY <2>3, <2>4 DEF Serially
<1>2. ASSUME NEW p \in Submitters, LoadHead(p) \/ CheckFull(p) \/ LoadTail(p) \/ Retry(p)
      PROVE  Traced'
  <2>1. /\ p \notin InFlight /\ UNCHANGED <<shared, issued, claimed>>
        /\ \A q \in Submitters \ {p} : pc'[q] = pc[q] /\ n'[q] = n[q] /\ seenTail'[q] = seenTail[q]
        /\ pc'[p] \notin {"entry", "index", "claimed"}
    BY <1>2 DEF LoadHead, CheckFull, LoadTail, Retry, InFlight, TypeOK, history
  <2> QED
    BY <1>1, <2>1, OthersLeave
<1>3. CASE UNCHANGED vars \/ \E p \in Submitters : EnterFails(p)
  <2>1. /\ InFlight' = InFlight
        /\ UNCHANGED <<head, tail, sqe, array, issued, claimed, pc, n, seenTail>>
    BY <1>3 DEF vars, shared, local, history, InFlight, EnterFails
  <2>2. Settled => Settled'
    BY <2>1 DEF Settled
  <2>3. \A p \in Submitters : UnderWay(p) => UnderWay(p)'
    BY <2>1 DEF UnderWay, Op
  <2> QED
    BY <1>1, <2>1, <2>2, <2>3 DEF Traced
<1> QED
  BY <1>1, <1>2, <1>3, ClaimTraced, WriteTraced, EnterTraced DEF Next, Step

\* Submissions that do not overlap are started by the kernel, each one, in the
\* order of their claims, for any number of submitters and entries: see
\* SerialSubmissionsArrive.
THEOREM SerialArrival == Spec => []SerialSubmissionsArrive
<1>2. TypeOK /\ Traced => SerialSubmissionsArrive
  <2> SUFFICES ASSUME TypeOK, Traced, Serially
               PROVE  issued = SubSeq(claimed, 1, Len(claimed) - Cardinality(InFlight))
    BY DEF SerialSubmissionsArrive, Serially
  <2>1. claimed \in Seq(Submitters \X Nat) /\ Len(claimed) \in Nat
    BY LenProperties DEF TypeOK
  <2>2. CASE Settled
    <3>1. Cardinality(InFlight) = 0
      BY <2>2, FS_EmptySet DEF Settled
    <3>2. SubSeq(claimed, 1, Len(claimed)) = claimed
      BY <2>1
    <3>3. Len(claimed) - 0 = Len(claimed)
      BY <2>1
    <3> QED
      BY <2>2, <3>1, <3>2, <3>3 DEF Settled
  <2>3. ASSUME NEW p \in Submitters, UnderWay(p)
        PROVE  issued = SubSeq(claimed, 1, Len(claimed) - Cardinality(InFlight))
    <3>1. Cardinality(InFlight) = 1
      BY <2>3, FS_Singleton DEF UnderWay
    <3> QED
      BY <2>3, <3>1 DEF UnderWay
  <2> QED
    BY <2>2, <2>3 DEF Traced
<1>3. Init => RefusedKnown /\ Traced
  BY TracedInit
<1>4. TypeOK /\ RefusedKnown /\ Traced /\ [Next]_vars => RefusedKnown' /\ Traced'
  BY RefusedKept, TracedKept
<1> QED
  BY <1>2, <1>3, <1>4, SubmissionTypes, PTL DEF Spec
=============================================================================
