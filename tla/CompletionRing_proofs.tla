----------------------- MODULE CompletionRing_proofs -----------------------
(***************************************************************************)
(* For any number of entries and completions: a batch is there to be       *)
(* taken; while the ring has not been full completions come in the order   *)
(* they were posted, and a batch is taken as if in one step.               *)
(***************************************************************************)
EXTENDS CompletionRing, ModularArithmetic, SequenceTheorems

\* What the assumption on the constants gives.
LEMMA RingConstants ==
  Entries \in Nat \ {0} /\ Wrap \in Nat \ {0} /\ Entries < Wrap
BY CompletionAssumption DEF CompletionAssumption

\* The slot of a counter is found without its wrap.
LEMMA SlotOfSum ==
  ASSUME NEW x \in Counters, NEW k \in 0..Entries
  PROVE  ((x + k) % Wrap) % Entries = (x + k) % Entries
<1>1. x % Wrap = x
  BY RingConstants, ModSmall DEF Counters
<1>2. k \in 0..Wrap
  BY RingConstants
<1>3. x \in Int /\ x \in 0..Wrap - 1
  BY RingConstants DEF Counters
<1>4. CASE x + k < Wrap
  <2>1. x + k \in 0..Wrap - 1
    BY <1>3, <1>4, <1>2, RingConstants
  <2>2. (x + k) % Wrap = x + k
    BY <2>1, RingConstants, ModSmall
  <2> QED
    BY <2>2, Zenon
<1>5. CASE ~(x + k < Wrap)
  <2> DEFINE y == x + k
  <2>1. y % Wrap = y - Wrap
    BY <1>1, <1>2, <1>3, <1>5, RingConstants, ModAdd
  <2>2. PICK m \in 2..Wrap : Wrap = Entries * m
    BY CompletionAssumption DEF CompletionAssumption
  <2>3. y \in Int /\ Wrap \in Int /\ m \in Int
    BY <1>2, <1>3, RingConstants
  <2> HIDE DEF y
  <2>4. (y - Wrap) % Entries = y % Entries
    BY <2>2, <2>3, RingConstants, ModTurns
  <2>5. (y % Wrap) % Entries = y % Entries
    BY <2>1, <2>4
  <2> QED
    BY <2>5 DEF y
<1> QED
  BY <1>4, <1>5

\* Entries at different distances from a counter have different slots.
LEMMA SlotsApart ==
  ASSUME NEW x \in Counters, NEW j \in 0..Entries - 1, NEW k \in 0..Entries - 1, j # k
  PROVE  (x + j) % Entries # (x + k) % Entries
<1>1. x \in Int /\ j \in 0..Entries /\ k \in 0..Entries
  BY RingConstants DEF Counters
<1>2. (x % Entries) \in 0..Entries - 1
  BY <1>1, RingConstants, ModRange
<1> DEFINE r == x % Entries
<1>3. /\ (x + j) % Entries = IF r + j < Entries THEN r + j ELSE r + j - Entries
      /\ (x + k) % Entries = IF r + k < Entries THEN r + k ELSE r + k - Entries
  BY <1>1, RingConstants, ModAdd
<1>4. r \in 0..Entries - 1
  BY <1>2
<1> HIDE DEF r
<1> QED
  BY <1>3, <1>4, RingConstants

\* A posted entry is one more between the counters ...
LEMMA PendingAfterPost ==
  ASSUME NEW h \in Counters, NEW t \in Counters, (t - h) % Wrap < Entries
  PROVE  (((t + 1) % Wrap) - h) % Wrap = ((t - h) % Wrap) + 1
<1>1. (t - h) % Wrap = IF t >= h THEN t - h ELSE t - h + Wrap
  BY RingConstants, ModDistance DEF Counters
<1>2. (t + 1) % Wrap = IF t + 1 < Wrap THEN t + 1 ELSE 0
  BY RingConstants, ModNext DEF Counters
<1> DEFINE u == (t + 1) % Wrap
<1>3. u \in 0..Wrap - 1 /\ u = IF t + 1 < Wrap THEN t + 1 ELSE 0
  BY <1>2, RingConstants DEF Counters
<1> HIDE DEF u
<1>4. (u - h) % Wrap = IF u >= h THEN u - h ELSE u - h + Wrap
  BY <1>3, RingConstants, ModDistance DEF Counters
<1>5. (u - h) % Wrap = ((t - h) % Wrap) + 1
  BY <1>1, <1>3, <1>4, RingConstants DEF Counters
<1> QED
  BY <1>5 DEF u

\* ... and a released one is one less.
LEMMA PendingAfterGet ==
  ASSUME NEW h \in Counters, NEW t \in Counters, h # t
  PROVE  /\ (t - h) % Wrap > 0
         /\ (t - ((h + 1) % Wrap)) % Wrap = ((t - h) % Wrap) - 1
<1>1. (t - h) % Wrap = IF t >= h THEN t - h ELSE t - h + Wrap
  BY RingConstants, ModDistance DEF Counters
<1>2. (h + 1) % Wrap = IF h + 1 < Wrap THEN h + 1 ELSE 0
  BY RingConstants, ModNext DEF Counters
<1> DEFINE u == (h + 1) % Wrap
<1>3. u \in 0..Wrap - 1 /\ u = IF h + 1 < Wrap THEN h + 1 ELSE 0
  BY <1>2, RingConstants DEF Counters
<1> HIDE DEF u
<1>4. (t - u) % Wrap = IF t >= u THEN t - u ELSE t - u + Wrap
  BY <1>3, RingConstants, ModDistance DEF Counters
<1>5. (t - u) % Wrap = ((t - h) % Wrap) - 1
  BY <1>1, <1>3, <1>4, RingConstants DEF Counters
<1>6. (t - h) % Wrap > 0
  BY <1>1, RingConstants DEF Counters
<1> QED
  BY <1>5, <1>6 DEF u

\* A slot is where a counter, or a counter and a distance, is masked to.
LEMMA SlotRange ==
  ASSUME NEW x \in Int
  PROVE  Masked(x) \in Slots
BY RingConstants, ModRange DEF Masked, Slots

\* The successor of a counter, wrapped, is a counter.
LEMMA SuccessorIsCounter ==
  ASSUME NEW x \in Counters
  PROVE  (x + 1) % Wrap \in Counters
<1>1. x + 1 \in Int
  BY RingConstants DEF Counters
<1> QED
  BY <1>1, RingConstants, ModRange DEF Counters

-----------------------------------------------------------------------------
(* A batch is there: types, and the entries still to be taken. *)

Safe ==
  /\ TypeOK
  /\ BatchIsThere
  /\ pc = "copy" => left > 0
  /\ pc = "idle" => batch = << >>

LEMMA SafeInit == Init => Safe
<1> SUFFICES ASSUME Init PROVE Safe
  OBVIOUS
<1>1. 0 \in Counters /\ (0 - 0) % Wrap = 0
  <2>1. 0 \in 0..Wrap - 1
    BY RingConstants
  <2>2. 0 - 0 = 0 /\ 0 % Wrap = 0
    BY <2>1, RingConstants, ModSmall
  <2> QED
    BY <2>1, <2>2 DEF Counters
<1>2. Pending = 0
  BY <1>1 DEF Init, Pending
<1>3. << >> \in Seq(Nat) /\ cqes \in [Slots -> Nat]
  BY DEF Init
<1>4. TypeOK
  <2>1. /\ head = 0 /\ tail = 0 /\ left = 0 /\ slot = 0 /\ posted = 0
        /\ batch = << >> /\ returned = << >> /\ pc = "idle" /\ filled = FALSE
    BY DEF Init
  <2>2. Pending <= Entries /\ left \in Nat /\ posted \in Nat
    BY <2>1, <1>2, RingConstants
  <2> QED
    BY <2>1, <2>2, <1>1, <1>3 DEF TypeOK
<1> QED
  BY <1>4 DEF Init, Safe, BatchIsThere

\* What a step does to the distance of the counters.
LEMMA PendingStep ==
  ASSUME Safe
  PROVE  /\ Pending \in 0..Entries
         /\ Post => Pending < Entries /\ Pending' = Pending + 1
         /\ GetCQE /\ head # tail => Pending > 0 /\ Pending' = Pending - 1
         /\ UNCHANGED <<head, tail>> => Pending' = Pending
<1>1. head \in Counters /\ tail \in Counters /\ Pending <= Entries
  BY DEF Safe, TypeOK
<1>2. Pending \in 0..Entries
  <2>1. tail - head \in Int
    BY <1>1, RingConstants DEF Counters
  <2>2. Pending \in 0..Wrap - 1
    BY <2>1, RingConstants, ModRange DEF Pending
  <2> QED
    BY <2>2, <1>1, RingConstants
<1>3. ASSUME Post PROVE Pending < Entries /\ Pending' = Pending + 1
  BY <1>1, <1>3, PendingAfterPost DEF Post, Pending
<1>4. ASSUME GetCQE, head # tail PROVE Pending > 0 /\ Pending' = Pending - 1
  BY <1>1, <1>4, PendingAfterGet DEF GetCQE, Pending
<1>5. UNCHANGED <<head, tail>> => Pending' = Pending
  BY DEF Pending
<1> QED
  BY <1>2, <1>3, <1>4, <1>5

LEMMA SafeKept == Safe /\ [Next]_vars => Safe'
<1> SUFFICES ASSUME Safe, [Next]_vars PROVE Safe'
  OBVIOUS
<1>0. /\ head \in Counters /\ tail \in Counters /\ cqes \in [Slots -> Nat]
      /\ pc \in {"idle", "more", "copy", "panicked"} /\ left \in Nat /\ slot \in Counters
      /\ batch \in Seq(Nat) /\ returned \in Seq(Nat) /\ posted \in Nat
      /\ filled \in BOOLEAN
      /\ pc # "panicked" /\ (pc = "more" => left <= Pending)
      /\ (pc = "copy" => left <= Pending + 1)
      /\ (pc = "copy" => left > 0) /\ (pc = "idle" => batch = << >>)
      /\ Pending \in 0..Entries
  BY PendingStep DEF Safe, TypeOK, BatchIsThere
<1>1. CASE Post
  <2>1. /\ UNCHANGED <<head, pc, left, slot, batch, returned>>
        /\ tail' = (tail + 1) % Wrap /\ posted' = posted + 1
        /\ cqes' = [cqes EXCEPT ![Masked(tail)] = posted + 1]
    BY <1>1 DEF Post
  <2>2. Pending' = Pending + 1 /\ Pending < Entries
    BY <1>1, PendingStep
  <2>3. tail' \in Counters
    BY <2>1, <1>0, SuccessorIsCounter
  <2>4. cqes' \in [Slots -> Nat]
    <3>1. posted + 1 \in Nat
      BY <1>0
    <3> DEFINE p == posted + 1
    <3>2. cqes' = [cqes EXCEPT ![Masked(tail)] = p] /\ p \in Nat
      BY <2>1, <3>1
    <3> HIDE DEF p
    <3> QED
      BY <3>2, <1>0
  <2>5. filled' \in BOOLEAN
    BY <1>1 DEF Post
  <2>6. Pending' <= Entries /\ (pc' = "more" => left' <= Pending')
        /\ (pc' = "copy" => left' <= Pending' + 1)
    BY <2>1, <2>2, <1>0, RingConstants
  <2> QED
    BY <2>1, <2>3, <2>4, <2>5, <2>6, <1>0 DEF Safe, TypeOK, BatchIsThere
<1>2. CASE PeekBatch
  <2>1. /\ UNCHANGED <<head, tail, cqes, slot, posted, returned, filled>>
        /\ left' = Pending /\ pc' = "more" /\ batch' = << >>
    BY <1>2 DEF PeekBatch, shared
  <2>2. Pending' = Pending
    BY <2>1, PendingStep
  <2>3. << >> \in Seq(Nat)
    OBVIOUS
  <2>4. left' \in Nat /\ left' <= Pending' /\ Pending' <= Entries
    BY <2>1, <2>2, <1>0, RingConstants
  <2> QED
    BY <2>1, <2>3, <2>4, <1>0 DEF Safe, TypeOK, BatchIsThere
<1>3. CASE GetCQE
  <2>1. pc = "more" /\ left > 0
        /\ UNCHANGED <<tail, cqes, left, batch, posted, returned, filled>>
    BY <1>3 DEF GetCQE
  <2>2. head # tail
    <3>1. SUFFICES ASSUME head = tail PROVE FALSE
      OBVIOUS
    <3>2. Pending = 0
      <4>1. tail - head = 0 /\ 0 \in 0..Wrap - 1
        BY <3>1, <1>0, RingConstants DEF Counters
      <4> QED
        BY <4>1, RingConstants, ModSmall DEF Pending
    <3> QED
      BY <3>2, <2>1, <1>0
  <2>3. pc' = "copy" /\ slot' = head /\ head' = (head + 1) % Wrap
    BY <1>3, <2>2 DEF GetCQE
  <2>4. Pending' = Pending - 1
    BY <1>3, <2>2, PendingStep
  <2>5. head' \in Counters
    BY <2>3, <1>0, SuccessorIsCounter
  <2>6. Pending' <= Entries /\ left' <= Pending' + 1 /\ left' > 0
    BY <2>1, <2>4, <1>0, RingConstants
  <2> QED
    BY <2>1, <2>3, <2>5, <2>6, <1>0 DEF Safe, TypeOK, BatchIsThere
<1>4. CASE CopyCQE
  <2>1. /\ pc = "copy" /\ UNCHANGED <<head, tail, cqes, slot, posted, returned, filled>>
        /\ batch' = Append(batch, cqes[Masked(slot)]) /\ left' = left - 1 /\ pc' = "more"
    BY <1>4 DEF CopyCQE, shared
  <2>2. Pending' = Pending
    BY <2>1, PendingStep
  <2>3. cqes[Masked(slot)] \in Nat
    BY <1>0, SlotRange, RingConstants DEF Counters
  <2>4. batch' \in Seq(Nat)
    BY <2>1, <2>3, <1>0
  <2>5. left' \in Nat /\ left' <= Pending' /\ Pending' <= Entries
    BY <2>1, <2>2, <1>0, RingConstants
  <2> QED
    BY <2>1, <2>4, <2>5, <1>0 DEF Safe, TypeOK, BatchIsThere
<1>5. CASE Return
  <2>1. /\ UNCHANGED <<head, tail, cqes, left, slot, posted, filled>>
        /\ returned' = returned \o batch /\ pc' = "idle" /\ batch' = << >>
    BY <1>5 DEF Return, shared
  <2>2. Pending' = Pending
    BY <2>1, PendingStep
  <2>3. returned' \in Seq(Nat) /\ << >> \in Seq(Nat)
    BY <2>1, <1>0
  <2>4. Pending' <= Entries
    BY <2>2, <1>0, RingConstants
  <2> QED
    BY <2>1, <2>3, <2>4, <1>0 DEF Safe, TypeOK, BatchIsThere
<1>6. CASE UNCHANGED vars
  BY <1>6 DEF vars, shared, Safe, TypeOK, BatchIsThere, Pending
<1> QED
  BY <1>1, <1>2, <1>3, <1>4, <1>5, <1>6 DEF Next

\* The counters stay in their width and never more than a ring apart, whatever
\* the kernel posts between the steps of getCQE, for any size of the ring.
THEOREM CompletionTypes == Spec => []TypeOK
<1>1. Safe => TypeOK
  BY DEF Safe
<1> QED
  BY SafeInit, SafeKept, <1>1, PTL DEF Spec

\* getCQE finds an entry for every round of PeekBatchEvents' loop, so that its
\* panic is never reached, for any size of the ring.
THEOREM BatchStays == Spec => []BatchIsThere
<1>1. Safe => BatchIsThere
  BY DEF Safe
<1> QED
  BY SafeInit, SafeKept, <1>1, PTL DEF Spec

-----------------------------------------------------------------------------
(* Completions come in the order they were posted. *)

\* The slot after a counter is the slot of its successor, wrapped or not.
LEMMA SlotOfNext ==
  ASSUME NEW x \in Counters, NEW k \in Nat
  PROVE  (((x + 1) % Wrap) + k) % Entries = (x + (k + 1)) % Entries
<1> DEFINE u == (x + 1) % Wrap
           y == x + (k + 1)
<1>1. u = IF x + 1 < Wrap THEN x + 1 ELSE 0
  BY RingConstants, ModNext DEF Counters
<1>2. x \in Int /\ x <= Wrap - 1 /\ y \in Int /\ y = x + 1 + k
  BY RingConstants DEF Counters
<1> HIDE DEF u, y
<1>3. CASE x + 1 < Wrap
  <2>1. u + k = y
    BY <1>1, <1>2, <1>3
  <2> QED
    BY <2>1 DEF u, y
<1>4. CASE ~(x + 1 < Wrap)
  <2>1. u + k = y - Wrap
    BY <1>1, <1>2, <1>4, RingConstants
  <2>2. PICK m \in 2..Wrap : Wrap = Entries * m
    BY CompletionAssumption DEF CompletionAssumption
  <2>3. m \in Int /\ Wrap \in Int
    BY RingConstants
  <2>4. (y - Wrap) % Entries = y % Entries
    BY <1>2, <2>2, <2>3, RingConstants, ModTurns
  <2> QED
    BY <2>1, <2>4 DEF u, y
<1> QED
  BY <1>3, <1>4

\* While the ring has not been full, the entries still to be taken carry the
\* numbers that follow those taken, up to the last one posted.
Ordered ==
  /\ pc = "copy" => head = (slot + 1) % Wrap
  /\ ~filled =>
       /\ Pending < Entries
       /\ posted = Len(Taken) + Held
       /\ \A k \in 0..Held - 1 : cqes[(Oldest + k) % Entries] = Len(Taken) + 1 + k
       /\ \A i \in 1..Len(Taken) : Taken[i] = i

LEMMA OrderedInit == Init => Ordered
<1> SUFFICES ASSUME Init PROVE Ordered
  OBVIOUS
<1>1. Pending = 0
  <2>1. 0 \in 0..Wrap - 1 /\ 0 - 0 = 0
    BY RingConstants
  <2> QED
    BY <2>1, RingConstants, ModSmall DEF Init, Pending
<1>2. Taken = << >> /\ Len(Taken) = 0 /\ Held = 0
  BY <1>1 DEF Init, Taken, Held
<1> QED
  BY <1>1, <1>2, RingConstants DEF Init, Ordered

\* The kernel writes the slot behind the last entry still to be taken.
LEMMA PostSlot ==
  ASSUME Safe, Ordered
  PROVE  Masked(tail) = (Oldest + Held) % Entries
<1>1. /\ head \in Counters /\ tail \in Counters /\ slot \in Counters
      /\ (pc = "copy" => head = (slot + 1) % Wrap)
      /\ Pending \in 0..Entries
  BY PendingStep DEF Safe, TypeOK, Ordered
<1>2. Masked(tail) = (head + Pending) % Entries
  <2>1. (head + Pending) % Wrap = tail
    <3>1. Pending = IF tail >= head THEN tail - head ELSE tail - head + Wrap
      BY <1>1, RingConstants, ModDistance DEF Pending, Counters
    <3>2. head \in Int /\ tail \in 0..Wrap - 1 /\ head % Wrap = head /\ Pending \in 0..Wrap
      BY <1>1, RingConstants, ModSmall DEF Counters
    <3> DEFINE d == Pending
    <3>3. (head + d) % Wrap = IF head + d < Wrap THEN head + d ELSE head + d - Wrap
      BY <3>2, RingConstants, ModAdd
    <3> HIDE DEF d
    <3>4. d = IF tail >= head THEN tail - head ELSE tail - head + Wrap
      BY <3>1 DEF d
    <3>5. (head + d) % Wrap = tail
      BY <3>2, <3>3, <3>4, RingConstants
    <3> QED
      BY <3>5 DEF d
  <2>2. ((head + Pending) % Wrap) % Entries = (head + Pending) % Entries
    BY <1>1, SlotOfSum
  <2> QED
    BY <2>1, <2>2 DEF Masked
<1>3. CASE pc = "copy"
  <2>1. (((slot + 1) % Wrap) + Pending) % Entries = (slot + (Pending + 1)) % Entries
    BY <1>1, SlotOfNext
  <2> QED
    BY <2>1, <1>1, <1>2, <1>3 DEF Oldest, Held
<1>4. CASE pc # "copy"
  BY <1>2, <1>4 DEF Oldest, Held
<1> QED
  BY <1>3, <1>4

LEMMA OrderedKept == Safe /\ Ordered /\ [Next]_vars => Ordered'
<1> SUFFICES ASSUME Safe, Ordered, [Next]_vars PROVE Ordered'
  OBVIOUS
<1>0. /\ head \in Counters /\ tail \in Counters /\ slot \in Counters
      /\ cqes \in [Slots -> Nat] /\ posted \in Nat
      /\ batch \in Seq(Nat) /\ returned \in Seq(Nat)
      /\ (pc = "copy" => left > 0) /\ Pending \in 0..Entries /\ pc # "panicked"
  BY PendingStep DEF Safe, TypeOK, BatchIsThere
<1>1. Oldest \in Counters /\ Held \in Nat /\ Taken \in Seq(Nat) /\ Len(Taken) \in Nat
  <2>1. Oldest \in Counters
    BY <1>0 DEF Oldest
  <2>2. Held \in Nat
    BY <1>0, RingConstants DEF Held
  <2>3. Taken \in Seq(Nat) /\ Len(Taken) \in Nat
    BY <1>0, ConcatProperties, LenProperties DEF Taken
  <2> QED
    BY <2>1, <2>2, <2>3
<1>2. /\ (pc = "copy" => head = (slot + 1) % Wrap)
      /\ (~filled => /\ Pending < Entries /\ posted = Len(Taken) + Held
                     /\ \A k \in 0..Held - 1 :
                          cqes[(Oldest + k) % Entries] = Len(Taken) + 1 + k
                     /\ \A i \in 1..Len(Taken) : Taken[i] = i)
  BY DEF Ordered
<1>3. CASE Post
  <2>1. /\ UNCHANGED <<head, pc, left, slot, batch, returned>>
        /\ cqes' = [cqes EXCEPT ![Masked(tail)] = posted + 1]
        /\ posted' = posted + 1 /\ Pending < Entries
        /\ filled' = (filled \/ (Pending + 1 = Entries))
    BY <1>3 DEF Post
  <2>2. Pending' = Pending + 1
    BY <1>3, PendingStep
  <2>3. Oldest' = Oldest /\ Taken' = Taken /\ Held' = Held + 1
    BY <2>1, <2>2, <1>0, RingConstants DEF Oldest, Held, Taken
  <2>4. SUFFICES ASSUME ~filled'
                 PROVE  /\ Pending' < Entries /\ posted' = Len(Taken') + Held'
                        /\ \A k \in 0..Held' - 1 :
                             cqes'[(Oldest' + k) % Entries] = Len(Taken') + 1 + k
                        /\ \A i \in 1..Len(Taken') : Taken'[i] = i
    BY <2>1, <1>2 DEF Ordered
  <2>5. ~filled /\ Pending + 1 < Entries
    <3>1. ~filled /\ Pending + 1 # Entries
      BY <2>1, <2>4
    <3> QED
      BY <3>1, <2>1, <1>0, RingConstants
  <2>6. Held \in 0..Entries - 1
    BY <2>5, <1>0, RingConstants DEF Held
  <2>7. posted' = Len(Taken') + Held' /\ Pending' < Entries
    BY <2>1, <2>2, <2>3, <2>5, <1>0, <1>1, <1>2, RingConstants
  <2>8. ASSUME NEW k \in 0..Held' - 1
        PROVE  cqes'[(Oldest' + k) % Entries] = Len(Taken') + 1 + k
    <3>1. Masked(tail) = (Oldest + Held) % Entries
      BY PostSlot
    <3>2. k \in 0..Entries - 1 /\ k \in 0..Held
      BY <2>3, <2>6, <1>1, RingConstants
    <3>3. (Oldest + k) % Entries \in Slots
      <4>1. Oldest + k \in Int
        BY <1>1, <3>2, RingConstants DEF Counters
      <4> QED
        BY <4>1, RingConstants, ModRange DEF Slots
    <3>4. CASE k = Held
      <4>1. cqes'[(Oldest + k) % Entries] = posted + 1
        BY <2>1, <3>1, <3>3, <3>4, <1>0
      <4>2. posted + 1 = Len(Taken) + 1 + k
        BY <3>4, <2>5, <1>1, <1>2
      <4> QED
        BY <4>1, <4>2, <2>3
    <3>5. CASE k # Held
      <4>1. (Oldest + k) % Entries # Masked(tail)
        BY <3>1, <3>2, <3>5, <2>6, <1>1, SlotsApart
      <4>2. k \in 0..Held - 1
        BY <3>2, <3>5, <1>1
      <4>3. cqes[(Oldest + k) % Entries] = Len(Taken) + 1 + k
        BY <4>2, <2>5, <1>2
      <4> DEFINE z == (Oldest + k) % Entries
      <4>4. z \in Slots /\ z # Masked(tail)
        BY <4>1, <3>3
      <4> HIDE DEF z
      <4>5. cqes'[z] = cqes[z]
        BY <4>4, <2>1, <1>0
      <4> QED
        BY <4>3, <4>5, <2>3 DEF z
    <3> QED
      BY <3>4, <3>5
  <2> QED
    BY <2>3, <2>5, <2>7, <2>8, <1>2
<1>4. CASE PeekBatch
  <2>1. /\ UNCHANGED <<head, tail, cqes, slot, posted, returned, filled>>
        /\ pc = "idle" /\ pc' = "more" /\ batch' = << >> /\ batch = << >>
    BY <1>4 DEF PeekBatch, shared, Safe
  <2>2. Pending' = Pending
    BY <2>1 DEF Pending
  <2>3. Oldest' = Oldest /\ Held' = Held /\ Taken' = Taken
    BY <2>1, <2>2 DEF Oldest, Held, Taken
  <2> QED
    BY <2>1, <2>2, <2>3, <1>2 DEF Ordered
<1>5. CASE GetCQE
  <2>1. /\ pc = "more" /\ UNCHANGED <<tail, cqes, left, batch, posted, returned, filled>>
        /\ head # tail
    <3>1. pc = "more" /\ UNCHANGED <<tail, cqes, left, batch, posted, returned, filled>>
          /\ (head = tail => pc' = "panicked")
      BY <1>5 DEF GetCQE
    <3>2. pc' # "panicked"
      BY SafeKept DEF Safe, BatchIsThere
    <3> QED
      BY <3>1, <3>2
  <2>2. pc' = "copy" /\ slot' = head /\ head' = (head + 1) % Wrap
    BY <1>5, <2>1 DEF GetCQE
  <2>3. Pending' = Pending - 1
    BY <1>5, <2>1, PendingStep
  <2>4. Oldest' = Oldest /\ Held' = Held /\ Taken' = Taken
    BY <2>1, <2>2, <2>3, <1>0, RingConstants DEF Oldest, Held, Taken
  <2>5. Pending < Entries => Pending' < Entries
    BY <2>3, <1>0, RingConstants
  <2> QED
    BY <2>1, <2>2, <2>4, <2>5, <1>2 DEF Ordered
<1>6. CASE CopyCQE
  <2>1. /\ UNCHANGED <<head, tail, cqes, slot, posted, returned, filled>>
        /\ pc = "copy" /\ pc' = "more"
        /\ batch' = Append(batch, cqes[Masked(slot)])
    BY <1>6 DEF CopyCQE, shared
  <2>2. Pending' = Pending
    BY <2>1 DEF Pending
  <2>3. /\ Oldest = slot /\ Held = Pending + 1
        /\ Oldest' = head /\ Held' = Pending /\ head = (slot + 1) % Wrap
    BY <2>1, <2>2, <1>2 DEF Oldest, Held
  <2> DEFINE e == cqes[Masked(slot)]
  <2>4. e \in Nat /\ Taken' = Append(Taken, e)
    <3>1. e \in Nat
      BY <1>0, SlotRange, RingConstants DEF Counters
    <3>2. batch' = Append(batch, e)
      BY <2>1
    <3> HIDE DEF e
    <3>3. batch' = batch \o <<e>>
      BY <3>1, <3>2, <1>0, AppendIsConcat
    <3>4. <<e>> \in Seq(Nat)
      BY <3>1
    <3>5. (returned \o batch) \o <<e>> = returned \o (batch \o <<e>>)
      BY <3>4, <1>0, ConcatAssociative
    <3>6. Taken' = Taken \o <<e>>
      BY <2>1, <3>3, <3>5 DEF Taken
    <3>7. Append(Taken, e) = Taken \o <<e>>
      BY <3>1, <1>1, AppendIsConcat
    <3> QED
      BY <3>1, <3>6, <3>7
  <2> HIDE DEF e
  <2>5. /\ Len(Taken') = Len(Taken) + 1 /\ Taken'[Len(Taken) + 1] = e
        /\ \A i \in 1..Len(Taken) : Taken'[i] = Taken[i]
    BY <2>4, <1>1, AppendProperties
  <2>6. SUFFICES ASSUME ~filled
                 PROVE  /\ Pending' < Entries /\ posted' = Len(Taken') + Held'
                        /\ \A k \in 0..Held' - 1 :
                             cqes'[(Oldest' + k) % Entries] = Len(Taken') + 1 + k
                        /\ \A i \in 1..Len(Taken') : Taken'[i] = i
    BY <2>1 DEF Ordered
  <2>7. e = Len(Taken) + 1
    <3>1. 0 \in 0..Held - 1
      BY <2>3, <1>0, RingConstants
    <3>2. cqes[(Oldest + 0) % Entries] = Len(Taken) + 1 + 0
      BY <3>1, <2>6, <1>2
    <3>3. Oldest + 0 = slot /\ Len(Taken) + 1 + 0 = Len(Taken) + 1
      BY <2>3, <1>1, <1>0, RingConstants DEF Counters
    <3> QED
      BY <3>2, <3>3 DEF e, Masked
  <2>8. ASSUME NEW k \in 0..Held' - 1
        PROVE  cqes'[(Oldest' + k) % Entries] = Len(Taken') + 1 + k
    <3>1. k \in Nat /\ k + 1 \in 0..Held - 1
      BY <2>3, <1>0, RingConstants
    <3>2. (((slot + 1) % Wrap) + k) % Entries = (slot + (k + 1)) % Entries
      BY <3>1, <1>0, SlotOfNext
    <3>3. cqes[(Oldest + (k + 1)) % Entries] = Len(Taken) + 1 + (k + 1)
      BY <3>1, <2>6, <1>2
    <3>4. Len(Taken') + 1 + k = Len(Taken) + 1 + (k + 1)
      BY <2>5, <3>1, <1>1
    <3> QED
      BY <3>2, <3>3, <3>4, <2>1, <2>3
  <2>9. posted' = Len(Taken') + Held'
    BY <2>1, <2>3, <2>5, <2>6, <1>0, <1>1, <1>2, RingConstants
  <2>10. \A i \in 1..Len(Taken') : Taken'[i] = i
    <3> TAKE i \in 1..Len(Taken')
    <3>1. i = Len(Taken) + 1 \/ i \in 1..Len(Taken)
      BY <2>5, <1>1
    <3> QED
      BY <3>1, <2>5, <2>6, <2>7, <1>2
  <2> QED
    BY <2>2, <2>6, <2>8, <2>9, <2>10, <1>2
<1>7. CASE Return
  <2>1. /\ UNCHANGED <<head, tail, cqes, slot, posted, filled>>
        /\ pc = "more" /\ pc' = "idle" /\ returned' = returned \o batch /\ batch' = << >>
    BY <1>7 DEF Return, shared
  <2>2. Pending' = Pending
    BY <2>1 DEF Pending
  <2>3. Taken' = Taken
    BY <2>1, <1>0, <1>1, ConcatEmptySeq DEF Taken
  <2>4. Oldest' = Oldest /\ Held' = Held
    BY <2>1, <2>2 DEF Oldest, Held
  <2> QED
    BY <2>1, <2>2, <2>3, <2>4, <1>2 DEF Ordered
<1>8. CASE UNCHANGED vars
  BY <1>8, <1>2 DEF vars, shared, Ordered, Pending, Taken, Oldest, Held
<1> QED
  BY <1>3, <1>4, <1>5, <1>6, <1>7, <1>8 DEF Next

\* Serve is handed the completions once each and in the order the kernel posted
\* them while the ring has never been full, for any size of the ring: a slot
\* that getCQE has released is not written before PeekBatchEvents has copied it.
THEOREM OrderKept == Spec => []InPostedOrder
<1>1. Safe /\ Ordered => InPostedOrder
  <2> SUFFICES ASSUME Safe, Ordered, ~filled PROVE Taken = [i \in 1..Len(Taken) |-> i]
    BY DEF InPostedOrder
  <2>0. returned \in Seq(Nat) /\ batch \in Seq(Nat)
    BY DEF Safe, TypeOK
  <2>1. Taken \in Seq(Nat)
    BY <2>0, ConcatProperties DEF Taken
  <2>2. \A i \in 1..Len(Taken) : Taken[i] = i
    BY DEF Ordered
  <2>3. Taken \in [1..Len(Taken) -> Nat]
    BY <2>1, LenProperties
  <2> DEFINE t == Taken
  <2>4. t \in [1..Len(t) -> Nat] /\ \A i \in 1..Len(t) : t[i] = i
    BY <2>2, <2>3
  <2> HIDE DEF t
  <2>5. t = [i \in 1..Len(t) |-> t[i]]
    BY <2>4
  <2>6. t = [i \in 1..Len(t) |-> i]
    BY <2>4, <2>5
  <2> QED
    BY <2>6 DEF t
<1> QED
  BY SafeInit, SafeKept, OrderedInit, OrderedKept, <1>1, PTL DEF Spec

-----------------------------------------------------------------------------
(* A batch is taken in one step. *)

Numbers(a, b) == [i \in 1..b - a |-> a + i]

Counts(s, a, n) ==
  s \in Seq(Nat) /\ Len(s) = n /\ \A i \in 1..n : s[i] = a + i

LEMMA NumbersCount ==
  ASSUME NEW a \in Nat, NEW b, NEW n \in Nat, b - a = n
  PROVE  Counts(Numbers(a, b), a, n)
<1> DEFINE s == Numbers(a, b)
<1>1. s = [i \in 1..n |-> a + i]
  BY DEF Numbers
<1> HIDE DEF s
<1>2. \A i \in 1..n : a + i \in Nat
  OBVIOUS
<1>3. s \in [1..n -> Nat] /\ \A i \in 1..n : s[i] = a + i
  BY <1>1, <1>2
<1>4. s \in Seq(Nat)
  BY <1>3, SeqDef
<1>5. 1..Len(s) = 1..n /\ Len(s) \in Nat
  BY <1>3, <1>4, LenProperties
<1>6. Len(s) = n
  BY <1>5
<1> QED
  BY <1>3, <1>4, <1>6 DEF Counts, s

\* Three numbers say it all: completions copied, and due, and posted.
Viewed ==
  /\ Due \in 0..Held /\ Len(Taken) \in Nat /\ Len(returned) \in 0..Len(Taken)
  /\ posted = Len(Taken) + Held
  /\ Waiting = Numbers(Len(Taken) + Due, posted)
  /\ Counted = Numbers(Len(returned), Len(Taken) + Due)

LEMMA ViewedHere == Safe /\ Ordered /\ ~filled => Viewed
<1> SUFFICES ASSUME Safe, Ordered, ~filled PROVE Viewed
  OBVIOUS
<1>1. PICK r, n, d, h : r = Len(returned) /\ n = Len(Taken) /\ d = Due /\ h = Held
  OBVIOUS
<1>2. /\ batch \in Seq(Nat) /\ returned \in Seq(Nat) /\ cqes \in [Slots -> Nat]
      /\ left \in Nat /\ pc \in {"idle", "more", "copy"} /\ Pending \in Nat
      /\ (pc = "more" => left <= Pending) /\ (pc = "copy" => left <= Pending + 1)
  BY PendingStep DEF Safe, TypeOK, BatchIsThere
<1>3. h \in Nat /\ d \in Nat /\ d \in 0..h
  BY <1>1, <1>2 DEF Held, Due
<1>4. PICK b \in Nat : b = Len(batch)
  BY <1>2, LenProperties
<1>5. /\ Taken \in Seq(Nat) /\ r \in Nat /\ n = r + b /\ n \in Nat
      /\ \A i \in 1..b : Taken[r + i] = batch[i]
  <2>1. Taken \in Seq(Nat) /\ r \in Nat /\ n = r + b
        /\ \A i \in 1..r + b : Taken[i] = IF i <= r THEN returned[i] ELSE batch[i - r]
    BY <1>1, <1>2, <1>4, ConcatProperties, LenProperties DEF Taken
  <2>2. \A i \in 1..b : r + i \in 1..r + b /\ ~(r + i <= r) /\ r + i - r = i
    BY <2>1
  <2> QED
    BY <2>1, <2>2
<1>6. /\ posted = n + h
      /\ \A k \in 0..h - 1 : Entry(k) = n + 1 + k
      /\ \A i \in 1..n : Taken[i] = i
  BY <1>1 DEF Ordered, Entry, Masked
<1>7. Waiting = Numbers(n + d, posted)
  <2>1. posted - (n + d) = h - d
    BY <1>3, <1>5, <1>6
  <2>2. \A k \in 1..h - d : Entry(d + k - 1) = n + d + k
    <3> TAKE k \in 1..h - d
    <3>1. d + k - 1 \in 0..h - 1 /\ n + 1 + (d + k - 1) = n + d + k
      BY <1>3, <1>5
    <3> QED
      BY <1>6, <3>1
  <2>3. Waiting = [k \in 1..h - d |-> Entry(d + k - 1)]
    BY <1>1 DEF Waiting
  <2>4. Numbers(n + d, posted) = [k \in 1..h - d |-> n + d + k]
    BY <2>1 DEF Numbers
  <2> QED
    BY <2>2, <2>3, <2>4
<1>8. Counted = Numbers(r, n + d)
  <2> DEFINE due == [k \in 1..d |-> Entry(k - 1)]
  <2>0. PICK e : e = n + d
    OBVIOUS
  <2>1. due = Numbers(n, e)
    <3>1. \A k \in 1..d : Entry(k - 1) = n + k
      <4> TAKE k \in 1..d
      <4>1. k - 1 \in 0..h - 1 /\ n + 1 + (k - 1) = n + k
        BY <1>3, <1>5
      <4> QED
        BY <1>6, <4>1
    <3>2. Numbers(n, e) = [k \in 1..d |-> n + k]
      <4>1. e - n = d
        BY <1>3, <1>5, <2>0
      <4> QED
        BY <4>1 DEF Numbers
    <3> QED
      BY <3>1, <3>2
  <2>2. Counted = batch \o due
    BY <1>1 DEF Counted
  <2> HIDE DEF due
  <2>3. due \in Seq(Nat) /\ Len(due) = d /\ \A i \in 1..d : due[i] = n + i
    <3>1. e - n = d
      BY <1>3, <1>5, <2>0
    <3>2. Counts(due, n, d)
      BY <1>3, <1>5, <2>1, <3>1, NumbersCount
    <3> QED
      BY <3>2 DEF Counts
  <2>4. /\ Counted \in Seq(Nat) /\ Len(Counted) = b + d
        /\ \A i \in 1..b + d : Counted[i] = IF i <= b THEN batch[i] ELSE due[i - b]
    BY <1>2, <1>4, <2>2, <2>3, ConcatProperties
  <2>5. \A i \in 1..b + d : Counted[i] = r + i
    <3> TAKE i \in 1..b + d
    <3>1. CASE i <= b
      <4>1. i \in 1..b /\ r + i \in 1..n
        BY <1>3, <1>5, <3>1
      <4> QED
        BY <1>5, <1>6, <2>4, <3>1, <4>1
    <3>2. CASE ~(i <= b)
      <4>1. i - b \in 1..d /\ n + (i - b) = r + i
        BY <1>3, <1>5, <3>2
      <4> QED
        BY <2>3, <2>4, <3>2, <4>1
    <3> QED
      BY <3>1, <3>2
  <2>6. b + d \in Nat /\ e - r = b + d
    BY <1>3, <1>5, <2>0
  <2> DEFINE c == Counted
             m == Numbers(r, e)
  <2>7. m \in Seq(Nat) /\ Len(m) = b + d /\ \A i \in 1..b + d : m[i] = r + i
    <3>1. Counts(m, r, b + d)
      BY <1>5, <2>6, NumbersCount
    <3> QED
      BY <3>1 DEF Counts
  <2>8. c \in Seq(Nat) /\ Len(c) = b + d /\ \A i \in 1..b + d : c[i] = r + i
    BY <2>4, <2>5
  <2> HIDE DEF c, m
  <2>9. c = m
    BY <2>7, <2>8, SeqEqual
  <2> QED
    BY <2>0, <2>9 DEF c, m
<1>9. r \in 0..n
  BY <1>4, <1>5
<1> QED
  BY <1>1, <1>3, <1>5, <1>6, <1>7, <1>8, <1>9 DEF Viewed

\* In these numbers a step of the ring is a step of the queue, or none.
LEMMA StepTakesBatches ==
  ASSUME Safe, Ordered, Viewed, Viewed', [Next]_vars, ~filled'
  PROVE  Queue!Next \/ UNCHANGED Queue!vars
<1>1. PICK r, n, d, h : r = Len(returned) /\ n = Len(Taken) /\ d = Due /\ h = Held
  OBVIOUS
<1>2. /\ h \in Nat /\ d \in 0..h /\ n \in Nat /\ r \in 0..n /\ posted = n + h
      /\ Waiting = Numbers(n + d, posted) /\ Counted = Numbers(r, n + d)
  <2>1. /\ Due \in 0..Held /\ Len(Taken) \in Nat /\ Len(returned) \in 0..Len(Taken)
        /\ posted = Len(Taken) + Held
        /\ Waiting = Numbers(Len(Taken) + Due, posted)
        /\ Counted = Numbers(Len(returned), Len(Taken) + Due)
    BY DEF Viewed
  <2>2. Held \in Nat
    <3>1. Pending \in 0..Entries
      BY PendingStep
    <3> QED
      BY <3>1, RingConstants DEF Held
  <2> QED
    BY <1>1, <2>1, <2>2
<1>3. /\ Waiting' = Numbers(Len(Taken') + Due', posted')
      /\ Counted' = Numbers(Len(returned'), Len(Taken') + Due')
  BY DEF Viewed
<1>4. /\ batch \in Seq(Nat) /\ returned \in Seq(Nat) /\ cqes \in [Slots -> Nat]
      /\ pc \in {"idle", "more", "copy"} /\ Pending \in 0..Entries /\ head \in Counters
      /\ left \in Nat /\ slot \in Counters
  BY PendingStep DEF Safe, TypeOK, BatchIsThere
<1>5. \A a \in Nat : Numbers(a, a) = << >>
  <2> TAKE a \in Nat
  <2>1. Counts(Numbers(a, a), a, 0)
    BY NumbersCount
  <2> QED
    BY <2>1, EmptySeq DEF Counts
<1>6. CASE Post
  <2>1. posted' = posted + 1 /\ UNCHANGED <<head, pc, left, slot, batch, returned>>
    BY <1>6 DEF Post
  <2>2. Taken' = Taken /\ Due' = Due
    BY <2>1 DEF Taken, Due
  <2>3. Counted' = Counted
    BY <1>1, <1>2, <1>3, <2>1, <2>2
  <2>4. Waiting' = Append(Waiting, posted')
    <3> DEFINE a == n + d
               w == Numbers(a, posted)
               v == Numbers(a, posted + 1)
    <3>1. a \in Nat /\ posted - a = h - d /\ h - d \in Nat
          /\ posted + 1 - a = (h - d) + 1 /\ (h - d) + 1 \in Nat
          /\ posted + 1 = a + ((h - d) + 1) /\ posted + 1 \in Nat
      BY <1>2
    <3> HIDE DEF a
    <3>2. Counts(w, a, h - d) /\ Counts(v, a, (h - d) + 1)
      <4>1. PICK c : c = posted + 1
        OBVIOUS
      <4>2. PICK l \in Nat : l = h - d
        BY <3>1
      <4>3. posted - a = l /\ c - a = l + 1 /\ l + 1 \in Nat
        BY <3>1, <4>1, <4>2
      <4>4. Counts(Numbers(a, posted), a, l) /\ Counts(Numbers(a, c), a, l + 1)
        BY <3>1, <4>3, NumbersCount
      <4> QED
        BY <4>1, <4>2, <4>4
    <3>3. Waiting = w /\ Waiting' = v
      BY <1>1, <1>2, <1>3, <2>1, <2>2 DEF a
    <3> HIDE DEF w, v
    <3> DEFINE u == Append(w, posted + 1)
    <3>4. /\ w \in Seq(Nat) /\ Len(w) = h - d /\ \A i \in 1..h - d : w[i] = a + i
          /\ v \in Seq(Nat) /\ Len(v) = (h - d) + 1 /\ \A i \in 1..(h - d) + 1 : v[i] = a + i
      BY <3>2 DEF Counts
    <3>5. /\ u \in Seq(Nat) /\ Len(u) = (h - d) + 1 /\ u[(h - d) + 1] = posted + 1
          /\ \A i \in 1..h - d : u[i] = w[i]
      BY <3>1, <3>4, AppendProperties
    <3> HIDE DEF u
    <3>6. \A i \in 1..(h - d) + 1 : u[i] = v[i]
      <4> TAKE i \in 1..(h - d) + 1
      <4>1. i = (h - d) + 1 \/ i \in 1..h - d
        BY <3>1
      <4> QED
        BY <3>1, <3>4, <3>5, <4>1
    <3>7. u = v
      BY <3>4, <3>5, <3>6, SeqEqual
    <3> QED
      BY <2>1, <3>3, <3>7 DEF u
  <2>5. Queue!Post
    BY <2>1, <2>3, <2>4 DEF Queue!Post
  <2> QED
    BY <2>5 DEF Queue!Next
<1>7. CASE PeekBatch
  <2>1. /\ UNCHANGED <<head, tail, cqes, slot, posted, returned, filled>>
        /\ pc = "idle" /\ pc' = "more" /\ left' = Pending /\ Pending > 0
        /\ batch' = << >> /\ batch = << >>
    BY <1>7 DEF PeekBatch, shared, Safe
  <2>2. Taken' = Taken /\ Due' = Pending /\ Due = 0 /\ Held = Pending
    BY <2>1 DEF Taken, Due, Held
  <2>3. Taken = returned
    BY <1>4, <2>1, ConcatEmptySeq DEF Taken
  <2>4. d = 0 /\ h > 0 /\ r = n /\ Len(Taken') + Due' = posted
    BY <1>1, <1>2, <2>1, <2>2, <2>3
  <2>5. Counted = << >> /\ Waiting' = << >>
    <3>1. n + d = n /\ n \in Nat /\ posted \in Nat
      BY <1>2, <2>4
    <3> QED
      BY <1>2, <1>3, <1>5, <2>1, <2>4, <3>1
  <2>6. Counted' = Waiting
    <3>1. n + d = n /\ Len(returned') = n
      BY <1>1, <1>2, <2>1, <2>4
    <3> QED
      BY <1>2, <1>3, <2>4, <3>1
  <2>7. Waiting # << >>
    <3>1. Counts(Waiting, n, h)
      <4>1. n + d = n /\ posted - n = h
        BY <1>2, <2>4
      <4> QED
        BY <1>2, <4>1, NumbersCount
    <3>2. Len(Waiting) = h /\ Len(<< >>) = 0
      BY <3>1 DEF Counts
    <3> QED
      BY <2>4, <3>2
  <2>8. Queue!TakeAll
    BY <2>1, <2>5, <2>6, <2>7 DEF Queue!TakeAll
  <2> QED
    BY <2>8 DEF Queue!Next
<1>8. CASE GetCQE
  <2>1. /\ pc = "more" /\ UNCHANGED <<left, batch, posted, returned>>
        /\ pc' \in {"copy", "panicked"}
    BY <1>8 DEF GetCQE
  <2>2. Taken' = Taken /\ Due' = Due
    BY <2>1 DEF Taken, Due
  <2>3. Waiting' = Waiting /\ Counted' = Counted
    BY <1>1, <1>2, <1>3, <2>1, <2>2
  <2> QED
    BY <2>1, <2>3 DEF Queue!vars
<1>9. CASE CopyCQE
  <2>1. /\ UNCHANGED <<posted, returned>> /\ pc = "copy" /\ pc' = "more" /\ left' = left - 1
        /\ batch' = Append(batch, cqes[Masked(slot)])
    BY <1>9 DEF CopyCQE, shared
  <2>2. Len(Taken') = Len(Taken) + 1
    <3> DEFINE e == cqes[Masked(slot)]
    <3>1. e \in Nat
      BY <1>4, SlotRange, RingConstants DEF Counters
    <3>2. batch' = Append(batch, e)
      BY <2>1
    <3> HIDE DEF e
    <3>3. batch' \in Seq(Nat) /\ Len(batch') = Len(batch) + 1
      BY <1>4, <3>1, <3>2, AppendProperties
    <3>4. Len(Taken) = Len(returned) + Len(batch)
      BY <1>4, ConcatProperties DEF Taken
    <3>5. Len(Taken') = Len(returned) + Len(batch')
      BY <1>4, <2>1, <3>3, ConcatProperties DEF Taken
    <3>6. Len(returned) \in Nat /\ Len(batch) \in Nat
      BY <1>4, LenProperties
    <3> QED
      BY <3>3, <3>4, <3>5, <3>6
  <2>3. Due' = Due - 1
    BY <2>1 DEF Due
  <2>4. Len(Taken') + Due' = n + d
    BY <1>1, <1>2, <2>2, <2>3
  <2>5. Waiting' = Waiting /\ Counted' = Counted
    BY <1>1, <1>2, <1>3, <2>1, <2>4
  <2> QED
    BY <2>1, <2>5 DEF Queue!vars
<1>10. CASE Return
  <2>1. /\ UNCHANGED posted /\ pc = "more" /\ left = 0 /\ pc' = "idle"
        /\ returned' = returned \o batch /\ batch' = << >>
    BY <1>10 DEF Return
  <2>2. Due = 0 /\ Due' = 0
    BY <2>1 DEF Due
  <2>3. Counted = batch
    <3>1. [k \in 1..Due |-> Entry(k - 1)] = << >>
      BY <2>2
    <3> QED
      BY <1>4, <3>1, ConcatEmptySeq DEF Counted
  <2>4. Taken' = Taken /\ returned' = Taken
    <3>1. Taken \in Seq(Nat)
      BY <1>4, ConcatProperties DEF Taken
    <3> QED
      BY <2>1, <3>1, ConcatEmptySeq DEF Taken
  <2>5. Waiting' = Waiting
    BY <1>1, <1>2, <1>3, <2>1, <2>2, <2>4
  <2>6. Counted' = << >>
    <3>1. n + 0 = n
      BY <1>2
    <3> QED
      BY <1>1, <1>2, <1>3, <1>5, <2>2, <2>4, <3>1
  <2>7. CASE batch = << >>
    <3>1. returned' = returned
      BY <1>4, <2>1, <2>7, ConcatEmptySeq
    <3> QED
      BY <2>1, <2>3, <2>5, <2>6, <2>7, <3>1 DEF Queue!vars
  <2>8. CASE batch # << >>
    <3>1. Queue!HandOver
      BY <2>1, <2>3, <2>5, <2>6, <2>8 DEF Queue!HandOver
    <3> QED
      BY <3>1 DEF Queue!Next
  <2> QED
    BY <2>7, <2>8
<1>11. CASE UNCHANGED vars
  BY <1>11 DEF vars, shared, Queue!vars, Waiting, Counted, Held, Due, Entry, Oldest, Pending,
               Masked
<1> QED
  BY <1>6, <1>7, <1>8, <1>9, <1>10, <1>11 DEF Next

\* While the ring has never been full PeekBatchEvents takes its batches from the
\* kernel's queue in one step each, for any size of the ring: the entries that it
\* counts are those it returns, although getCQE releases every one of them before
\* it is copied and the kernel posts at any moment in between.
THEOREM BatchesTaken == Spec => TakesWholeBatches
<1>1. Init => Queue!Init
  <2> SUFFICES ASSUME Init PROVE Queue!Init
    OBVIOUS
  <2>1. Due = 0 /\ Held = 0
    <3>1. head = 0 /\ tail = 0 /\ pc = "idle" /\ 0 - 0 = 0 /\ 0 \in 0..Wrap - 1
      BY RingConstants DEF Init
    <3>2. Pending = 0
      BY <3>1, RingConstants, ModSmall DEF Pending
    <3> QED
      BY <3>1, <3>2 DEF Due, Held
  <2>2. Waiting = << >>
    BY <2>1 DEF Waiting
  <2>3. Counted = << >>
    <3>1. [k \in 1..Due |-> Entry(k - 1)] = << >> /\ batch = << >>
      BY <2>1 DEF Init
    <3> QED
      BY <3>1 DEF Counted
  <2> QED
    BY <2>2, <2>3 DEF Init, Queue!Init
<1>2. Safe /\ Ordered /\ Viewed /\ Viewed' /\ [Next]_vars
        => (~filled' => Queue!Next \/ UNCHANGED Queue!vars)
  BY StepTakesBatches
<1>3. [Next]_vars /\ ~filled' => ~filled
  BY DEF Next, Post, PeekBatch, GetCQE, CopyCQE, Return, vars
<1> QED
  BY SafeInit, SafeKept, OrderedInit, OrderedKept, ViewedHere, <1>1, <1>2, <1>3, PTL
  DEF Spec, TakesWholeBatches
=============================================================================
