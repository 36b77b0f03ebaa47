-------------------------- MODULE SendPath_proofs --------------------------
(***************************************************************************)
(* For any ring, any chunks and any number of outstanding writes: what the *)
(* feeder stores, the send pass submits and the kernel writes fit together *)
(* although all three use the ring's memory at the same time.              *)
(***************************************************************************)
EXTENDS SendPath, ModularArithmetic, SequenceTheorems

\* What the assumption on the constants gives.
LEMMA SendConstants ==
  Cap \in Nat \ {0} /\ Sizes \subseteq Nat \ {0} /\ Answers \subseteq Nat \ {0}
BY SendAssumption DEF SendAssumption

-----------------------------------------------------------------------------
(* The operators of the model. *)

Write == [own : BOOLEAN, at : Int, len : Nat \ {0}]

End(w) == w.at + w.len

\* The distance of two positions is found from the slot of one of them.
LEMMA SlotDistance ==
  ASSUME NEW p \in Int, NEW t \in Int
  PROVE  ((p % Cap) - t) % Cap = (p - t) % Cap
<1>1. p \div Cap \in Int /\ p = (Cap * (p \div Cap)) + (p % Cap) /\ (p % Cap) \in 0..Cap - 1
  BY SendConstants, Euclid, ModRange
<1> DEFINE m == p \div Cap
           r == p % Cap
           w == Cap * m
<1>2. m \in Int /\ r \in Int /\ w \in Int /\ w = Cap * m /\ p = w + r
  BY <1>1, SendConstants
<1> HIDE DEF m, r, w
<1>3. p - t \in Int /\ (p - t) - w = r - t
  BY <1>2
<1>4. ((p - t) - w) % Cap = (p - t) % Cap
  BY <1>2, <1>3, SendConstants, ModTurns
<1> QED
  BY <1>3, <1>4 DEF r

\* ViewFrom gives one slice, or two of which the second begins where the first
\* ends; together they are the bytes asked for.
LEMMA ViewsMeet ==
  ASSUME NEW offset \in Int, NEW n \in Nat \ {0}, head \in Int
  PROVE  LET v == Views(offset, n)
             q == head + offset
         IN  /\ v \in Seq(Write) /\ Len(v) \in {1, 2}
             /\ \A i \in 1..Len(v) : v[i].own
             /\ v[1].at = q
             /\ Len(v) = 1 => End(v[1]) = q + n
             /\ Len(v) = 2 => End(v[1]) = v[2].at /\ End(v[2]) = q + n
<1> DEFINE q == head + offset
           n1 == Smaller(n, Cap - (q % Cap))
<1>1. q \in Int /\ (q % Cap) \in 0..Cap - 1
  BY SendConstants, ModRange
<1>2. n1 \in Nat \ {0} /\ n1 <= n
  BY <1>1, SendConstants DEF Smaller
<1>3. Views(offset, n) = IF n1 = n THEN <<Own(q, n)>> ELSE <<Own(q, n1), Own(q + n1, n - n1)>>
  BY DEF Views
<1> HIDE DEF n1, q
<1>4. CASE n1 = n
  <2>1. Own(q, n) \in Write /\ Own(q, n).own /\ Own(q, n).at = q /\ End(Own(q, n)) = q + n
    BY <1>1 DEF Own, Write, End
  <2> QED
    BY <1>3, <1>4, <2>1 DEF q
<1>5. CASE n1 # n
  <2> DEFINE a == Own(q, n1)
             b == Own(q + n1, n - n1)
  <2>1. /\ a \in Write /\ a.own /\ a.at = q /\ End(a) = b.at
        /\ b \in Write /\ b.own /\ End(b) = q + n
    BY <1>1, <1>2, <1>5 DEF Own, Write, End
  <2>2. Views(offset, n) = <<a, b>>
    BY <1>3, <1>5
  <2> HIDE DEF a, b
  <2> QED
    BY <2>1, <2>2 DEF q
<1> QED
  BY <1>4, <1>5

\* The element of a sequence after one has been taken out.
LEMMA WithoutElement ==
  ASSUME NEW S, NEW s \in Seq(S), NEW i \in 1..Len(s)
  PROVE  /\ Without(s, i) \in Seq(S)
         /\ Len(Without(s, i)) = Len(s) - 1
         /\ \A j \in 1..Len(s) - 1 : Without(s, i)[j] = IF j < i THEN s[j] ELSE s[j + 1]
<1> DEFINE a == SubSeq(s, 1, i - 1)
           b == SubSeq(s, i + 1, Len(s))
<1>1. /\ a \in Seq(S) /\ Len(a) = i - 1
      /\ \A j \in 1..i - 1 : a[j] = s[j]
  OBVIOUS
<1>2. /\ b \in Seq(S) /\ Len(b) = Len(s) - i
      /\ \A j \in 1..Len(s) - i : b[j] = s[i + j]
  OBVIOUS
<1>3. Without(s, i) = a \o b
  BY DEF Without
<1> HIDE DEF a, b
<1>4. Without(s, i) \in Seq(S) /\ Len(Without(s, i)) = Len(s) - 1
  BY <1>1, <1>2, <1>3, ConcatProperties
<1>5. ASSUME NEW j \in 1..Len(s) - 1
      PROVE  Without(s, i)[j] = IF j < i THEN s[j] ELSE s[j + 1]
  <2>1. (a \o b)[j] = IF j <= Len(a) THEN a[j] ELSE b[j - Len(a)]
    BY <1>1, <1>2, ConcatProperties
  <2>2. CASE j < i
    BY <1>1, <1>3, <2>1, <2>2
  <2>3. CASE ~(j < i)
    <3>1. j - (i - 1) \in 1..Len(s) - i /\ i + (j - (i - 1)) = j + 1
      BY <2>3
    <3> QED
      BY <1>1, <1>2, <1>3, <2>1, <2>3, <3>1
  <2> QED
    BY <2>2, <2>3
<1> QED
  BY <1>4, <1>5

-----------------------------------------------------------------------------
(* Types. *)

\* The types, with the writes as a sequence, and the room Feed has found: it can
\* only grow until the chunk is published.
Typed ==
  /\ TypeOK
  /\ flight \in Seq(Write)
  /\ feedPc = "idle" => feeding = 0
  /\ feeding <= Cap - Length

\* The types, one by one.
LEMMA TypedFacts ==
  ASSUME Typed
  PROVE  /\ buf \in [Slots -> Nat] /\ head \in Nat /\ tail \in Nat
         /\ Length \in 0..Cap /\ head <= tail /\ tail - head <= Cap
         /\ queued \in Int /\ feeding \in Nat /\ feeding \in Sizes \union {0}
         /\ feedPc \in {"idle", "copy", "publish"} /\ onQueue \in BOOLEAN
         /\ flight \in Seq(Write) /\ cq \in Seq(Int) /\ wire \in Seq(Nat)
         /\ faults \subseteq {"short", "error", "reorder"}
         /\ answers \in 0..MaxAnswers /\ MaxAnswers \in Nat
         /\ (feedPc = "idle" => feeding = 0) /\ feeding <= Cap - Length
<1>1. feeding \in Nat
  BY SendConstants DEF Typed, TypeOK
<1>2. MaxAnswers \in Nat
  BY SendAssumption DEF SendAssumption
<1>3. head <= tail /\ tail - head <= Cap
  BY SendConstants DEF Typed, TypeOK, Length
<1> QED
  BY <1>1, <1>2, <1>3 DEF Typed, TypeOK

\* A sequence of writes has the types TypeOK asks for.
LEMMA FlightTyped ==
  ASSUME NEW f \in Seq(Write)
  PROVE  \A i \in 1..Len(f) : f[i] \in [own : BOOLEAN, at : Int, len : Nat \ {0}]
BY ElementOfSeq DEF Write

LEMMA TypedInit == Init => Typed
<1> SUFFICES ASSUME Init PROVE Typed
  OBVIOUS
<1>1. Length = 0 /\ Cap \in Nat /\ 0 \in 0..Cap
  BY SendConstants DEF Init, Length
<1>2. << >> \in Seq(Write) /\ << >> \in Seq(Int) /\ << >> \in Seq(Nat)
  OBVIOUS
<1>3. 0 \in 0..MaxAnswers
  BY SendAssumption DEF SendAssumption
<1>4. buf \in [Slots -> Nat]
  BY DEF Init
<1>5. flight \in Seq(Write) /\ cq \in Seq(Int) /\ wire \in Seq(Nat)
  BY <1>2 DEF Init
<1>6. /\ head = 0 /\ tail = 0 /\ queued = 0 /\ feeding = 0 /\ feedPc = "idle"
      /\ onQueue = FALSE /\ panicked = FALSE /\ faults = {} /\ answers = 0
  BY DEF Init
<1>7. feeding <= Cap - Length
  BY <1>1, <1>6
<1>8. \A i \in 1..Len(flight) : flight[i] \in [own : BOOLEAN, at : Int, len : Nat \ {0}]
  BY <1>5, FlightTyped
<1>9. TypeOK
  <2>1. head \in Nat /\ tail \in Nat /\ Length \in 0..Cap /\ queued \in Int
    BY <1>1, <1>6
  <2>2. feeding \in Sizes \union {0} /\ answers \in 0..MaxAnswers
        /\ onQueue \in BOOLEAN /\ panicked \in BOOLEAN
    BY <1>3, <1>6
  <2> QED
    BY <2>1, <2>2, <1>4, <1>5, <1>6, <1>8 DEF TypeOK
<1> QED
  BY <1>5, <1>6, <1>7, <1>9 DEF Typed

\* Feed, Serve and the kernel keep the types, and Feed's chunk the room it found.
LEMMA TypedKept == Typed /\ [Next]_vars => Typed'
<1> SUFFICES ASSUME Typed, [Next]_vars PROVE Typed'
  OBVIOUS
<1>0. /\ buf \in [Slots -> Nat] /\ head \in Nat /\ tail \in Nat
      /\ Length \in 0..Cap /\ head <= tail /\ tail - head <= Cap
      /\ queued \in Int /\ feeding \in Nat /\ feeding \in Sizes \union {0}
      /\ feedPc \in {"idle", "copy", "publish"} /\ onQueue \in BOOLEAN
      /\ flight \in Seq(Write) /\ cq \in Seq(Int) /\ wire \in Seq(Nat)
      /\ faults \subseteq {"short", "error", "reorder"}
      /\ answers \in 0..MaxAnswers /\ MaxAnswers \in Nat
      /\ (feedPc = "idle" => feeding = 0) /\ feeding <= Cap - Length
  BY TypedFacts
<1>f. \A i \in 1..Len(flight) : flight[i] \in [own : BOOLEAN, at : Int, len : Nat \ {0}]
  BY <1>0, FlightTyped
<1>p. panicked' \in BOOLEAN
  BY DEF Next, SendPassPanics, vars, Typed, TypeOK
<1> USE <1>p
<1>1. CASE FeedCheck
  <2>1. PICK n \in Sizes : n <= Cap - Length /\ feeding' = n
    BY <1>1 DEF FeedCheck
  <2>2. /\ UNCHANGED <<buf, head, tail, queued, onQueue, flight, cq, wire, faults, answers>>
        /\ feedPc' = "copy"
    BY <1>1 DEF FeedCheck, ring, kernel
  <2>3. Length' = Length
    BY <2>2 DEF Length
  <2> QED
    BY <2>1, <2>2, <2>3, <1>0, <1>f DEF Typed, TypeOK
<1>2. CASE FeedCopy
  <2>1. /\ UNCHANGED <<head, tail, queued, feeding, onQueue, flight, cq, wire, faults, answers>>
        /\ feedPc' = "publish"
    BY <1>2 DEF FeedCopy, kernel
  <2>2. buf' \in [Slots -> Nat]
    <3>1. ASSUME NEW s \in Slots
          PROVE  (IF (s - tail) % Cap < feeding THEN tail + ((s - tail) % Cap) + 1 ELSE buf[s]) \in Nat
      <4>0. s - tail \in Int
        BY <1>0, SendConstants DEF Slots
      <4>1. ((s - tail) % Cap) \in 0..Cap - 1
        BY <4>0, SendConstants, ModRange
      <4> QED
        BY <4>1, <1>0, SendConstants
    <3>2. buf' = [s \in Slots |->
                    IF (s - tail) % Cap < feeding THEN tail + ((s - tail) % Cap) + 1 ELSE buf[s]]
      BY <1>2 DEF FeedCopy
    <3> QED
      BY <3>1, <3>2
  <2>3. Length' = Length
    BY <2>1 DEF Length
  <2> QED
    BY <2>1, <2>2, <2>3, <1>0, <1>f DEF Typed, TypeOK
<1>3. CASE FeedPublish
  <2>1. /\ UNCHANGED <<buf, head, queued, onQueue, flight, cq, wire, faults, answers>>
        /\ feedPc' = "idle" /\ feeding' = 0 /\ tail' = tail + feeding
    BY <1>3 DEF FeedPublish, kernel
  <2>2. tail' \in Nat /\ Length' \in 0..Cap /\ feeding' <= Cap - Length'
    BY <2>1, <1>0, SendConstants DEF Length
  <2> QED
    BY <2>1, <2>2, <1>0, <1>f DEF Typed, TypeOK
<1>4. CASE Notify
  <2>1. /\ UNCHANGED <<buf, head, tail, queued, feeding, feedPc, flight, cq, wire, faults, answers>>
        /\ onQueue' = TRUE
    BY <1>4 DEF Notify, ring, feeder, kernel
  <2>2. Length' = Length
    BY <2>1 DEF Length
  <2> QED
    BY <2>1, <2>2, <1>0, <1>f DEF Typed, TypeOK
<1>5. CASE SendPass
  <2>1. /\ UNCHANGED <<buf, head, tail, feeding, feedPc, onQueue, cq, wire, faults, answers>>
        /\ flight' = flight \o Views(queued, Length - queued)
        /\ queued' = queued + (Length - queued) /\ Length - queued > 0
    BY <1>5 DEF SendPass, ring, feeder
  <2>2. Length' = Length
    BY <2>1 DEF Length
  <2>3. Length - queued \in Nat \ {0} /\ queued' \in Int
    BY <2>1, <1>0, SendConstants
  <2>4. Views(queued, Length - queued) \in Seq(Write)
    <3>1. head \in Int /\ queued \in Int
      BY <1>0
    <3> HIDE <1>p
    <3> QED
      BY <2>3, <3>1, ViewsMeet
  <2>5. flight' \in Seq(Write)
    BY <2>1, <2>4, <1>0, ConcatProperties
  <2>6. \A i \in 1..Len(flight') : flight'[i] \in [own : BOOLEAN, at : Int, len : Nat \ {0}]
    BY <2>5, FlightTyped
  <2> QED
    BY <2>1, <2>2, <2>3, <2>5, <2>6, <1>0 DEF Typed, TypeOK
<1>6. CASE HandleWrite
  <2>1. /\ UNCHANGED <<buf, tail, feeding, feedPc, onQueue, flight, wire, faults, answers>>
        /\ cq # << >> /\ cq' = Tail(cq) /\ queued' = queued - Head(cq)
        /\ head' = IF Head(cq) > 0 THEN head + Smaller(Head(cq), Length) ELSE head
    BY <1>6 DEF HandleWrite, feeder
  <2>2. Head(cq) \in Int /\ Tail(cq) \in Seq(Int)
    BY <2>1, <1>0
  <2>3. head' \in Nat /\ head <= head' /\ head' <= tail
    BY <2>1, <2>2, <1>0, SendConstants DEF Smaller, Length
  <2>4. queued' \in Int
    BY <2>1, <2>2, <1>0
  <2>5. Length' = tail - head' /\ Length = tail - head /\ feeding' = feeding
    BY <2>1 DEF Length
  <2>6. Length' \in 0..Cap /\ feeding' <= Cap - Length'
    <3>1. /\ head \in Nat /\ tail \in Nat /\ feeding \in Nat /\ Cap \in Nat
          /\ tail - head <= Cap /\ feeding <= Cap - (tail - head)
      BY <2>5, <1>0, SendConstants
    <3>2. PICK h \in Nat : h = head'
      BY <2>3
    <3>3. h <= tail /\ head <= h
      BY <2>3, <3>2
    <3>4. tail - h \in 0..Cap /\ feeding <= Cap - (tail - h)
      BY <3>1, <3>3
    <3> QED
      BY <3>2, <3>4, <2>5
  <2> QED
    BY <2>1, <2>2, <2>3, <2>4, <2>6, <1>0, <1>f DEF Typed, TypeOK
<1>7. CASE Respond
  <2>1. /\ UNCHANGED <<buf, head, tail, queued, feeding, feedPc, onQueue, cq, wire, faults>>
        /\ answers < MaxAnswers /\ answers' = answers + 1
    BY <1>7 DEF Respond, ring, feeder
  <2>2. PICK n \in Answers : flight' = Append(flight, Foreign(n))
    BY <1>7 DEF Respond
  <2>3. Foreign(n) \in Write
    BY SendConstants DEF Foreign, Write
  <2>4. flight' \in Seq(Write)
    BY <2>2, <2>3, <1>0, AppendProperties
  <2>5. \A i \in 1..Len(flight') : flight'[i] \in [own : BOOLEAN, at : Int, len : Nat \ {0}]
    BY <2>4, FlightTyped
  <2>6. answers' \in 0..MaxAnswers /\ Length' = Length
    BY <2>1, <1>0 DEF Length
  <2> QED
    BY <2>1, <2>4, <2>5, <2>6, <1>0 DEF Typed, TypeOK
<1>8. ASSUME NEW i \in 1..Len(flight),
             (\E k \in 1..flight[i].len : WriteDone(i, k)) \/ WriteFails(i)
      PROVE  Typed'
  <2>1. UNCHANGED <<buf, head, tail, queued, feeding, feedPc, onQueue, answers>>
        /\ flight' = Without(flight, i)
    BY <1>8 DEF WriteDone, WriteFails, ring, feeder
  <2>2. flight' \in Seq(Write)
    BY <2>1, <1>0, WithoutElement
  <2>3. \A j \in 1..Len(flight') : flight'[j] \in [own : BOOLEAN, at : Int, len : Nat \ {0}]
    BY <2>2, FlightTyped
  <2>4. faults' \subseteq {"short", "error", "reorder"}
    BY <1>8, <1>0 DEF WriteDone, WriteFails
  <2>5. cq' \in Seq(Int)
    <3>1. \A e \in Int : Append(cq, e) \in Seq(Int)
      BY <1>0, AppendProperties
    <3>2. \E e \in Int : cq' = Append(cq, e)
      BY <1>8 DEF WriteDone, WriteFails
    <3> QED
      BY <3>1, <3>2
  <2>6. wire' \in Seq(Nat)
    <3>1. CASE WriteFails(i)
      BY <3>1, <1>0 DEF WriteFails
    <3>2. ASSUME NEW k \in 1..flight[i].len, WriteDone(i, k) PROVE wire' \in Seq(Nat)
      <4> DEFINE a == flight[i].at
                 w == [j \in 1..k |-> buf[(a + j - 1) % Cap]]
      <4>1. k \in Nat /\ a \in Int
        BY <1>f
      <4>2. \A j \in 1..k : buf[(a + j - 1) % Cap] \in Nat
        <5> TAKE j \in 1..k
        <5>0. a + j - 1 \in Int
          BY <4>1
        <5>1. ((a + j - 1) % Cap) \in Slots
          BY <5>0, SendConstants, ModRange DEF Slots
        <5> QED
          BY <5>1, <1>0
      <4>3. w \in Seq(Nat)
        BY <4>1, <4>2
      <4>4. wire' = wire \o w \/ wire' = wire
        BY <3>2 DEF WriteDone
      <4> HIDE DEF w
      <4> QED
        BY <4>3, <4>4, <1>0, ConcatProperties
    <3> QED
      BY <1>8, <3>1, <3>2
  <2>7. Length' = Length
    BY <2>1 DEF Length
  <2> QED
    BY <2>1, <2>2, <2>3, <2>4, <2>5, <2>6, <2>7, <1>0 DEF Typed, TypeOK
<1>9. CASE SendPassPanics \/ UNCHANGED vars
  BY <1>9, <1>0, <1>f DEF SendPassPanics, vars, ring, feeder, kernel, Typed, TypeOK, Length
<1> QED
  BY <1>1, <1>2, <1>3, <1>4, <1>5, <1>6, <1>7, <1>8, <1>9 DEF Next, Feed, Serve, Complete

\* Whatever the kernel reports, head stays between 0 and tail and the ring never
\* holds more than its capacity, although Feed checks for room long before it
\* publishes, for any ring, any chunks and any number of writes.
THEOREM SendTypes == Spec => []TypeOK
<1>1. Typed => TypeOK
  BY DEF Typed
<1> QED
  BY TypedInit, TypedKept, <1>1, PTL DEF Spec

-----------------------------------------------------------------------------
(* The bytes in the ring. *)

\* The position after the last byte Feed has stored, published or not.
Stored == tail + (IF feedPc = "publish" THEN feeding ELSE 0)

\* The ring holds the stream from head on.
Contents == \A p \in head..Stored - 1 : buf[p % Cap] = p + 1

LEMMA ContentsInit == Init => Contents
<1> SUFFICES ASSUME Init PROVE Contents
  OBVIOUS
<1>1. head = 0 /\ Stored = 0
  BY DEF Init, Stored
<1> QED
  BY <1>1 DEF Contents

\* Feed's bytes: they go behind what the ring holds, and only there.
LEMMA CopyStores ==
  ASSUME Typed, Contents, FeedCopy
  PROVE  Contents'
<1>1. /\ head \in Nat /\ tail \in Nat /\ feeding \in Nat
      /\ head <= tail /\ tail - head <= Cap /\ feeding <= Cap - (tail - head)
      /\ Cap \in Nat \ {0}
  BY TypedFacts, SendConstants DEF Length
<1>2. /\ UNCHANGED <<head, tail, feeding>> /\ feedPc = "copy" /\ feedPc' = "publish"
      /\ buf' = [s \in Slots |->
                   LET k == (s - tail) % Cap IN IF k < feeding THEN tail + k + 1 ELSE buf[s]]
  BY DEF FeedCopy
<1>a. head' = head /\ Stored' = tail + feeding /\ Stored = tail
  <2>1. Stored = tail + 0
    BY <1>2 DEF Stored
  <2>2. Stored' = tail' + feeding'
    BY <1>2 DEF Stored
  <2> QED
    BY <1>1, <1>2, <2>1, <2>2
<1> SUFFICES ASSUME NEW p \in (head..Stored - 1)'
             PROVE  buf'[p % Cap] = p + 1
  BY DEF Contents
<1>b. p \in head..tail + feeding - 1
  <2> DEFINE h == head'
             t == Stored'
  <2>1. h = head /\ t = tail + feeding /\ p \in h..t - 1
    BY <1>a
  <2> HIDE DEF h, t
  <2> QED
    BY <2>1, <1>1
<1> DEFINE s == p % Cap
           k == (s - tail) % Cap
<1>c. p \in Int /\ tail \in Int
  BY <1>1, <1>b
<1>d. s \in Slots
  BY <1>1, <1>c, ModRange DEF Slots
<1>e. k = (p - tail) % Cap
  BY <1>c, SlotDistance
<1>3. p \in Int /\ s \in Slots /\ k = (p - tail) % Cap
  BY <1>c, <1>d, <1>e
<1>4. buf'[s] = IF k < feeding THEN tail + k + 1 ELSE buf[s]
  BY <1>2, <1>3
<1> HIDE DEF k
<1>5. CASE p >= tail
  <2>1. p - tail \in 0..Cap - 1
    BY <1>1, <1>b, <1>5
  <2>2. k = p - tail
    BY <2>1, <1>1, <1>3, ModSmall
  <2> QED
    BY <2>2, <1>1, <1>b, <1>4, <1>5
<1>6. CASE ~(p >= tail)
  <2>1. p - tail = (Cap * (-1)) + (p - tail + Cap) /\ p - tail + Cap \in 0..Cap - 1
    BY <1>1, <1>b, <1>6
  <2>2. ((Cap * (-1)) + (p - tail + Cap)) % Cap = p - tail + Cap
    BY <2>1, <1>1, ModUnique
  <2>3. k = p - tail + Cap
    BY <2>1, <2>2, <1>3
  <2>4. ~(k < feeding)
    BY <2>3, <1>1, <1>b
  <2>5. p \in head..Stored - 1
    BY <1>1, <1>a, <1>b, <1>6
  <2>6. buf[p % Cap] = p + 1
    BY <2>5 DEF Contents
  <2> QED
    BY <2>4, <2>6, <1>4
<1> QED
  BY <1>5, <1>6

LEMMA ContentsKept == Typed /\ Contents /\ [Next]_vars => Contents'
<1> SUFFICES ASSUME Typed, Contents, [Next]_vars PROVE Contents'
  OBVIOUS
<1>0. /\ head \in Nat /\ tail \in Nat /\ feeding \in Nat /\ cq \in Seq(Int)
      /\ head <= tail /\ Stored \in Nat
  BY TypedFacts DEF Stored
<1>1. ASSUME UNCHANGED <<buf, head>>, Stored' = Stored PROVE Contents'
  BY <1>1 DEF Contents
<1>2. CASE FeedCheck \/ FeedPublish
  BY <1>0, <1>1, <1>2 DEF FeedCheck, FeedPublish, ring, Stored
<1>3. CASE FeedCopy
  BY <1>3, CopyStores
<1>4. CASE Notify \/ SendPass \/ Respond \/ Complete
  BY <1>1, <1>4 DEF Notify, SendPass, Respond, Complete, WriteDone, WriteFails,
                    ring, feeder, Stored
<1>5. CASE HandleWrite
  <2>1. /\ UNCHANGED <<buf, tail, feeding, feedPc>>
        /\ cq # << >>
        /\ head' = IF Head(cq) > 0 THEN head + Smaller(Head(cq), Length) ELSE head
    BY <1>5 DEF HandleWrite, feeder
  <2>2. Head(cq) \in Int
    BY <2>1, <1>0
  <2>3. PICK h \in Nat : h = head' /\ h >= head
    BY <2>1, <2>2, <1>0 DEF Smaller, Length
  <2>4. Stored' = Stored
    BY <2>1 DEF Stored
  <2>5. \A p \in h..Stored - 1 : p \in head..Stored - 1
    BY <2>3, <1>0
  <2> QED
    BY <2>1, <2>3, <2>4, <2>5 DEF Contents
<1>6. CASE SendPassPanics \/ UNCHANGED vars
  BY <1>1, <1>6 DEF SendPassPanics, vars, ring, feeder, Stored
<1> QED
  BY <1>2, <1>3, <1>4, <1>5, <1>6 DEF Next, Feed, Serve

-----------------------------------------------------------------------------
(* The order of the outstanding writes.  f stands for the writes, t for tail, *)
(* q for the position after the last queued byte, s for the results that wait *)
(* to be handled and w for the wire.                                          *)

\* What a result moves head by.
Gained(k) == IF k > 0 THEN k ELSE 0

\* Where head will be as the results are handled, one after the other.
Runs(g, s, from) ==
  /\ g \in [0..Len(s) -> Int]
  /\ g[0] = from
  /\ \A i \in 1..Len(s) : g[i] = g[i - 1] + Gained(s[i])

\* The writes are the ring's own and follow each other.
InOrder(f, t, q) ==
  /\ \A i \in 1..Len(f) : f[i].own /\ End(f[i]) <= t /\ End(f[i]) <= q
  /\ \A i, j \in 1..Len(f) : i < j => End(f[i]) <= f[j].at

\* Head will not pass tail, what is queued or what is being written.
Behind(g, s, f, t, q) ==
  \A i \in 0..Len(s) : g[i] <= t /\ g[i] <= q /\ \A j \in 1..Len(f) : g[i] <= f[j].at

\* Without gap: from head through the results and the writes to what is queued.
Exact(g, s, f, t, q, w) ==
  /\ \A i \in 1..Len(s) : s[i] > 0
  /\ q <= t
  /\ \A i \in 1..Len(f) : End(f[i]) = IF i = Len(f) THEN q ELSE f[i + 1].at
  /\ Len(w) = IF f = << >> THEN q ELSE f[1].at
  /\ g[Len(s)] = Len(w)
  /\ \A j \in 1..Len(w) : w[j] = j

\* A result more.
LEMMA RunsOn ==
  ASSUME NEW s \in Seq(Int), NEW k \in Int, NEW from \in Int, NEW g, Runs(g, s, from)
  PROVE  LET h == [i \in 0..Len(s) + 1 |-> IF i <= Len(s) THEN g[i] ELSE g[Len(s)] + Gained(k)]
         IN  Runs(h, Append(s, k), from)
<1> DEFINE n == Len(s)
           h == [i \in 0..n + 1 |-> IF i <= n THEN g[i] ELSE g[n] + Gained(k)]
           u == Append(s, k)
<1>1. n \in Nat /\ g \in [0..n -> Int] /\ g[0] = from /\ Gained(k) \in Int
  BY LenProperties DEF Runs, Gained
<1>2. Len(u) = n + 1 /\ u[n + 1] = k /\ \A i \in 1..n : u[i] = s[i]
  BY AppendProperties
<1>3. \A i \in 1..n : g[i] = g[i - 1] + Gained(s[i])
  BY DEF Runs
<1> HIDE DEF n, u
<1>4. h \in [0..n + 1 -> Int] /\ h[0] = from
  BY <1>1
<1>5. ASSUME NEW i \in 1..n + 1 PROVE h[i] = h[i - 1] + Gained(u[i])
  <2>1. CASE i = n + 1
    <3>1. h[i] = g[n] + Gained(k) /\ h[i - 1] = g[n]
      BY <1>1, <2>1
    <3> QED
      BY <1>2, <2>1, <3>1
  <2>2. CASE i # n + 1
    <3>1. i \in 1..n
      BY <1>1, <2>2
    <3>2. h[i] = g[i] /\ h[i - 1] = g[i - 1]
      BY <1>1, <3>1
    <3> QED
      BY <1>2, <1>3, <3>1, <3>2
  <2> QED
    BY <2>1, <2>2
<1> QED
  BY <1>2, <1>4, <1>5 DEF Runs, n, u

\* The first result handled.
LEMMA RunsFrom ==
  ASSUME NEW s \in Seq(Int), s # << >>, NEW from \in Int, NEW g, Runs(g, s, from)
  PROVE  LET h == [i \in 0..Len(s) - 1 |-> g[i + 1]]
         IN  Runs(h, Tail(s), from + Gained(Head(s)))
<1> DEFINE n == Len(s)
           h == [i \in 0..n - 1 |-> g[i + 1]]
           u == Tail(s)
<1>1. n \in Nat \ {0} /\ g \in [0..n -> Int] /\ g[0] = from
  BY EmptySeq DEF Runs
<1>2. Len(u) = n - 1 /\ (\A i \in 1..n - 1 : u[i] = s[i + 1]) /\ Head(s) = s[1]
  OBVIOUS
<1>3. \A i \in 1..n : g[i] = g[i - 1] + Gained(s[i])
  BY DEF Runs
<1> HIDE DEF n, u
<1>4. h \in [0..n - 1 -> Int]
  BY <1>1
<1>5. h[0] = from + Gained(Head(s))
  BY <1>1, <1>2, <1>3
<1>6. ASSUME NEW i \in 1..n - 1 PROVE h[i] = h[i - 1] + Gained(u[i])
  <2>1. i + 1 \in 1..n /\ (i + 1) - 1 = i /\ i \in 0..n - 1 /\ i - 1 \in 0..n - 1
        /\ (i - 1) + 1 = i
    BY <1>1
  <2>2. h[i] = g[i + 1] /\ h[i - 1] = g[i]
    BY <2>1
  <2>3. g[i + 1] = g[i] + Gained(s[i + 1])
    BY <1>3, <2>1
  <2> QED
    BY <1>2, <2>2, <2>3
<1> QED
  BY <1>2, <1>4, <1>5, <1>6 DEF Runs, n, u

\* The fields of a write.
LEMMA Fields ==
  ASSUME NEW f \in Seq(Write), NEW i \in 1..Len(f)
  PROVE  /\ f[i].at \in Int /\ f[i].len \in Nat \ {0}
         /\ End(f[i]) \in Int /\ End(f[i]) = f[i].at + f[i].len
<1>1. f[i] \in Write
  BY ElementOfSeq
<1> QED
  BY <1>1 DEF Write, End

\* A feed, or a failed write that is handled, only moves the ends.
LEMMA EndsMove ==
  ASSUME NEW s \in Seq(Int), NEW f \in Seq(Write), NEW g \in [0..Len(s) -> Int],
         NEW t \in Int, NEW q \in Int, NEW t2 \in Int, NEW q2 \in Int, t <= t2, q <= q2,
         InOrder(f, t, q), Behind(g, s, f, t, q)
  PROVE  InOrder(f, t2, q2) /\ Behind(g, s, f, t2, q2)
<1>1. ASSUME NEW i \in 1..Len(f) PROVE f[i].own /\ End(f[i]) <= t2 /\ End(f[i]) <= q2
  <2>1. End(f[i]) \in Int
    BY Fields
  <2>2. f[i].own /\ End(f[i]) <= t /\ End(f[i]) <= q
    BY DEF InOrder
  <2> QED
    BY <2>1, <2>2
<1>2. InOrder(f, t2, q2)
  BY <1>1 DEF InOrder
<1>3. ASSUME NEW i \in 0..Len(s) PROVE g[i] <= t2 /\ g[i] <= q2
  <2>1. g[i] \in Int /\ g[i] <= t /\ g[i] <= q
    BY DEF Behind
  <2> QED
    BY <2>1
<1>4. Behind(g, s, f, t2, q2)
  BY <1>3 DEF Behind
<1> QED
  BY <1>2, <1>4

\* A send pass: the new writes take up what was queued last and end at tail.
LEMMA PassFits ==
  ASSUME NEW s \in Seq(Int), NEW f \in Seq(Write), NEW g \in [0..Len(s) -> Int],
         NEW t \in Int, NEW q \in Int, q < t, NEW w \in Seq(Int),
         NEW v \in Seq(Write), Len(v) \in {1, 2}, \A i \in 1..Len(v) : v[i].own,
         v[1].at = q, Len(v) = 1 => End(v[1]) = t,
         Len(v) = 2 => End(v[1]) = v[2].at /\ End(v[2]) = t,
         InOrder(f, t, q), Behind(g, s, f, t, q)
  PROVE  /\ InOrder(f \o v, t, t) /\ Behind(g, s, f \o v, t, t)
         /\ Exact(g, s, f, t, q, w) => Exact(g, s, f \o v, t, t, w)
<1> DEFINE u == f \o v
           n == Len(f)
           m == Len(v)
<1>1. /\ u \in Seq(Write) /\ n \in Nat /\ m \in {1, 2} /\ Len(u) = n + m
      /\ \A i \in 1..n + m : u[i] = IF i <= n THEN f[i] ELSE v[i - n]
  BY ConcatProperties, LenProperties
<1>2. \A i \in 1..m : q <= v[i].at /\ End(v[i]) <= t /\ v[i].own
  <2>1. \A i \in 1..m : v[i].at \in Int /\ v[i].len \in Nat \ {0} /\ End(v[i]) = v[i].at + v[i].len
    BY Fields
  <2>2. 1 \in 1..m /\ (m = 1 \/ m = 2)
    BY <1>1
  <2>3. v[1].at \in Int /\ v[1].len \in Nat \ {0} /\ End(v[1]) = v[1].at + v[1].len
    BY <2>1, <2>2
  <2> SUFFICES ASSUME NEW i \in 1..m PROVE q <= v[i].at /\ End(v[i]) <= t
    OBVIOUS
  <2>4. CASE m = 1
    <3>1. i = 1
      BY <2>4
    <3> QED
      BY <2>3, <2>4, <3>1
  <2>5. CASE m = 2
    <3>1. i = 1 \/ i = 2
      BY <2>5
    <3>2. v[2].at \in Int /\ v[2].len \in Nat \ {0} /\ End(v[2]) = v[2].at + v[2].len
      BY <2>1, <2>5
    <3>3. End(v[1]) = v[2].at /\ End(v[2]) = t /\ v[1].at = q
      BY <2>5
    <3>a. v[2].at = q + v[1].len
      BY <2>3, <3>3
    <3>b. t = v[2].at + v[2].len
      BY <3>2, <3>3
    <3>4. q < v[2].at /\ v[2].at < t
      <4> DEFINE a == v[1].len
                 b == v[2].at
                 c == v[2].len
      <4>1. a \in Nat \ {0} /\ b \in Int /\ c \in Nat \ {0} /\ b = q + a /\ t = b + c
        BY <2>3, <3>2, <3>a, <3>b
      <4> HIDE DEF a, b, c
      <4>2. q < b /\ b < t
        BY <4>1
      <4> QED
        BY <4>2 DEF b
    <3> QED
      BY <2>3, <3>1, <3>2, <3>3, <3>4
  <2> QED
    BY <2>2, <2>4, <2>5
<1>3. \A i \in 1..n : f[i].own /\ End(f[i]) <= q /\ End(f[i]) <= t /\ f[i].at <= q /\ End(f[i]) \in Int
  <2> TAKE i \in 1..n
  <2>1. f[i].at \in Int /\ f[i].len \in Nat /\ End(f[i]) = f[i].at + f[i].len
    BY Fields
  <2>2. f[i].own /\ End(f[i]) <= q /\ End(f[i]) <= t
    BY DEF InOrder
  <2> QED
    BY <2>1, <2>2
<1>4. \A i, j \in 1..n : i < j => End(f[i]) <= f[j].at
  BY DEF InOrder
<1>5. \A i, j \in 1..m : i < j => End(v[i]) <= v[j].at
  <2> SUFFICES ASSUME NEW i \in 1..m, NEW j \in 1..m, i < j PROVE End(v[i]) <= v[j].at
    OBVIOUS
  <2>0. m = 1 \/ m = 2
    BY <1>1
  <2>1. m = 2 /\ i = 1 /\ j = 2
    <3> HIDE DEF m
    <3> QED
      BY <2>0
  <2>2. v[2].at \in Int
    BY <2>1, Fields
  <2> QED
    BY <2>1, <2>2
<1>v. \A i \in 1..m : v[i].at \in Int
  BY Fields
<1>6. \A i \in 0..Len(s) : /\ g[i] \in Int /\ g[i] <= t /\ g[i] <= q
                           /\ \A j \in 1..n : g[i] <= f[j].at
  BY DEF Behind
<1> HIDE DEF u, n, m
<1>7. InOrder(u, t, t)
  <2>1. ASSUME NEW i \in 1..n + m PROVE u[i].own /\ End(u[i]) <= t
    <3>1. CASE i <= n
      <4>0. n \in Nat /\ m \in Int /\ i \in 1..n + m
        BY <1>1
      <4>1. i \in 1..n /\ u[i] = f[i]
        <5>1. i \in 1..n
          BY <3>1, <4>0
        <5> QED
          BY <5>1, <3>1, <1>1
      <4>2. f[i].own /\ End(f[i]) <= t
        BY <4>1, <1>3
      <4> QED
        BY <4>1, <4>2
    <3>2. CASE ~(i <= n)
      <4>1. i - n \in 1..m
        BY <3>2, <1>1
      <4> QED
        BY <3>2, <4>1, <1>1, <1>2
    <3> QED
      BY <3>1, <3>2
  <2>2. ASSUME NEW i \in 1..n + m, NEW j \in 1..n + m, i < j PROVE End(u[i]) <= u[j].at
    <3>1. CASE j <= n
      <4>1. i \in 1..n /\ j \in 1..n
        BY <3>1, <2>2, <1>1
      <4>2. u[i] = f[i] /\ u[j] = f[j]
        BY <4>1, <1>1
      <4> QED
        BY <4>1, <4>2, <2>2, <1>4
    <3>2. CASE i <= n /\ ~(j <= n)
      <4>1. i \in 1..n /\ j - n \in 1..m
        BY <3>2, <1>1
      <4>2. u[i] = f[i] /\ u[j] = v[j - n]
        BY <3>2, <1>1
      <4>3. End(f[i]) <= q /\ q <= v[j - n].at /\ End(f[i]) \in Int /\ v[j - n].at \in Int
        BY <4>1, <1>2, <1>3, <1>v
      <4> QED
        BY <4>2, <4>3
    <3>3. CASE ~(i <= n)
      <4>1. i - n \in 1..m /\ j - n \in 1..m /\ i - n < j - n
        BY <3>3, <2>2, <1>1
      <4>2. u[i] = v[i - n] /\ u[j] = v[j - n]
        BY <3>3, <2>2, <1>1
      <4> QED
        BY <4>1, <4>2, <1>5
    <3> QED
      BY <3>1, <3>2, <3>3
  <2> QED
    BY <2>1, <2>2, <1>1 DEF InOrder
<1>8. Behind(g, s, u, t, t)
  <2>1. ASSUME NEW i \in 0..Len(s), NEW j \in 1..n + m PROVE g[i] <= u[j].at
    <3>1. CASE j <= n
      <4>1. j \in 1..n /\ u[j] = f[j]
        BY <3>1, <1>1
      <4> QED
        BY <4>1, <1>6
    <3>2. CASE ~(j <= n)
      <4>1. j - n \in 1..m /\ u[j] = v[j - n]
        BY <3>2, <1>1
      <4>2. q <= v[j - n].at /\ v[j - n].at \in Int /\ g[i] <= q /\ g[i] \in Int
        BY <4>1, <1>2, <1>6, <1>v
      <4> QED
        BY <4>1, <4>2
    <3> QED
      BY <3>1, <3>2
  <2> QED
    BY <2>1, <1>1, <1>6 DEF Behind
<1>9. ASSUME Exact(g, s, f, t, q, w) PROVE Exact(g, s, u, t, t, w)
  <2>1. /\ \A i \in 1..Len(s) : s[i] > 0
        /\ \A i \in 1..n : End(f[i]) = IF i = n THEN q ELSE f[i + 1].at
        /\ Len(w) = IF f = << >> THEN q ELSE f[1].at
        /\ g[Len(s)] = Len(w)
        /\ \A j \in 1..Len(w) : w[j] = j
    BY <1>9 DEF Exact, n
  <2>2. ASSUME NEW i \in 1..n + m PROVE End(u[i]) = IF i = n + m THEN t ELSE u[i + 1].at
    <3>1. CASE i < n
      <4>1. u[i] = f[i] /\ u[i + 1] = f[i + 1] /\ i \in 1..n /\ i # n /\ i # n + m
        BY <3>1, <1>1
      <4> QED
        BY <2>1, <4>1
    <3>2. CASE i = n
      <4>1. u[i] = f[i] /\ i \in 1..n /\ i # n + m
        BY <3>2, <1>1
      <4>2. u[i + 1] = v[1]
        BY <3>2, <1>1
      <4> QED
        BY <2>1, <3>2, <4>1, <4>2
    <3>3. CASE i > n
      <4>1. u[i] = v[i - n] /\ (i - n = 1 \/ i - n = 2) /\ (i - n = m <=> i = n + m)
        BY <3>3, <1>1
      <4>2. CASE i = n + m
        BY <4>1, <4>2, <1>1 DEF m
      <4>3. CASE i # n + m
        <5>1. m = 2 /\ i - n = 1 /\ u[i + 1] = v[2]
          BY <3>3, <4>1, <4>3, <1>1
        <5> QED
          BY <4>1, <4>3, <5>1 DEF m
      <4> QED
        BY <4>2, <4>3
    <3> QED
      BY <3>1, <3>2, <3>3, <1>1
  <2>3. Len(w) = IF u = << >> THEN t ELSE u[1].at
    <3>1. u # << >>
      BY <1>1, EmptySeq
    <3>2. CASE n = 0
      <4>1. f = << >> /\ u[1] = v[1]
        BY <3>2, <1>1, EmptySeq DEF n
      <4> QED
        BY <2>1, <3>1, <4>1
    <3>3. CASE n # 0
      <4>1. f # << >> /\ u[1] = f[1]
        BY <3>3, <1>1, EmptySeq DEF n
      <4> QED
        BY <2>1, <3>1, <4>1
    <3> QED
      BY <3>2, <3>3
  <2>4. \A i \in 1..Len(u) : End(u[i]) = IF i = Len(u) THEN t ELSE u[i + 1].at
    BY <2>2, <1>1
  <2>5. t <= t
    OBVIOUS
  <2> QED
    BY <2>1, <2>3, <2>4, <2>5 DEF Exact
<1> QED
  BY <1>7, <1>8, <1>9 DEF u

\* The first write completes with result k: its bytes count as a result now.
LEMMA FinishFits ==
  ASSUME NEW s \in Seq(Int), NEW f \in Seq(Write), f # << >>, NEW k \in Int,
         NEW g \in [0..Len(s) -> Int], NEW t \in Int, NEW q \in Int,
         Gained(k) <= f[1].len, InOrder(f, t, q), Behind(g, s, f, t, q)
  PROVE  LET h == [i \in 0..Len(s) + 1 |-> IF i <= Len(s) THEN g[i] ELSE g[Len(s)] + Gained(k)]
         IN  /\ InOrder(Without(f, 1), t, q)
             /\ Behind(h, Append(s, k), Without(f, 1), t, q)
<1> DEFINE u == Without(f, 1)
           n == Len(f)
           l == Len(s)
           h == [i \in 0..l + 1 |-> IF i <= l THEN g[i] ELSE g[l] + Gained(k)]
<1>1. /\ n \in Nat \ {0} /\ l \in Nat /\ Len(u) = n - 1 /\ 1 \in 1..n
      /\ \A j \in 1..n - 1 : u[j] = f[j + 1]
  <2>1. n \in Nat \ {0} /\ l \in Nat /\ 1 \in 1..n
    BY EmptySeq, LenProperties
  <2>2. Len(u) = n - 1 /\ \A j \in 1..n - 1 : u[j] = IF j < 1 THEN f[j] ELSE f[j + 1]
    BY <2>1, WithoutElement
  <2> QED
    BY <2>1, <2>2
<1>2. \A j \in 1..n : f[j].own /\ End(f[j]) <= t /\ End(f[j]) <= q
  BY DEF InOrder
<1>3. \A i, j \in 1..n : i < j => End(f[i]) <= f[j].at
  BY DEF InOrder
<1>4. f[1].at \in Int /\ f[1].len \in Nat /\ End(f[1]) = f[1].at + f[1].len
  BY <1>1, Fields
<1>5. \A i \in 0..l : g[i] \in Int /\ g[i] <= t /\ g[i] <= q /\ \A j \in 1..n : g[i] <= f[j].at
  BY DEF Behind
<1>6. Len(Append(s, k)) = l + 1
  BY AppendProperties
<1>7. Gained(k) \in Nat
  BY DEF Gained
<1>a. \A j \in 1..n : f[j].at \in Int
  BY Fields
<1> HIDE DEF u, n, l
<1>8. InOrder(u, t, q)
  <2>1. ASSUME NEW j \in 1..n - 1 PROVE u[j] = f[j + 1] /\ j + 1 \in 1..n
    BY <1>1
  <2>2. ASSUME NEW i \in 1..n - 1, NEW j \in 1..n - 1, i < j PROVE End(u[i]) <= u[j].at
    <3>1. u[i] = f[i + 1] /\ u[j] = f[j + 1] /\ i + 1 \in 1..n /\ j + 1 \in 1..n
      BY <2>1
    <3>2. i + 1 < j + 1
      BY <2>2
    <3> QED
      BY <3>1, <3>2, <1>3
  <2>3. ASSUME NEW j \in 1..n - 1 PROVE u[j].own /\ End(u[j]) <= t /\ End(u[j]) <= q
    <3>1. f[j + 1].own /\ End(f[j + 1]) <= t /\ End(f[j + 1]) <= q
      BY <2>1, <1>2
    <3> QED
      BY <2>1, <3>1
  <2> QED
    BY <1>1, <2>2, <2>3 DEF InOrder
<1>9. g[l] + Gained(k) \in Int /\ g[l] + Gained(k) <= End(f[1]) /\ End(f[1]) \in Int
  <2>1. l \in 0..l
    BY <1>1
  <2>2. g[l] \in Int /\ g[l] <= f[1].at
    BY <2>1, <1>1, <1>5
  <2> DEFINE a == g[l]
             b == f[1].at
             c == f[1].len
             d == Gained(k)
  <2>3. a \in Int /\ b \in Int /\ c \in Nat /\ d \in Nat /\ a <= b /\ d <= c /\ End(f[1]) = b + c
    BY <2>2, <1>4, <1>7
  <2> HIDE DEF a, b, c, d
  <2>4. a + d \in Int /\ a + d <= b + c /\ b + c \in Int
    BY <2>3
  <2> QED
    BY <2>3, <2>4 DEF a, d
<1>b. Behind(h, Append(s, k), u, t, q)
  <2>1. ASSUME NEW i \in 0..l + 1
        PROVE  h[i] <= t /\ h[i] <= q /\ \A j \in 1..n - 1 : h[i] <= u[j].at
    <3>1. CASE i <= l
      <4>1. i \in 0..l /\ h[i] = g[i]
        BY <3>1, <1>1
      <4>2. ASSUME NEW j \in 1..n - 1 PROVE g[i] <= u[j].at
        <5>1. j + 1 \in 1..n /\ u[j] = f[j + 1]
          BY <1>1
        <5> QED
          BY <4>1, <5>1, <1>5
      <4> QED
        BY <4>1, <4>2, <1>5
    <3>2. CASE ~(i <= l)
      <4>1. h[i] = g[l] + Gained(k)
        BY <3>2, <1>1
      <4> DEFINE x == g[l] + Gained(k)
                 e == End(f[1])
      <4>2. x \in Int /\ e \in Int /\ x <= e /\ e <= t /\ e <= q
        BY <1>9, <1>1, <1>2
      <4>3. ASSUME NEW j \in 1..n - 1 PROVE e <= u[j].at /\ u[j].at \in Int
        <5>1. j + 1 \in 1..n /\ u[j] = f[j + 1] /\ 1 < j + 1 /\ 1 \in 1..n
          BY <1>1
        <5>2. e <= f[j + 1].at
          BY <5>1, <1>3
        <5>3. f[j + 1].at \in Int
          BY <5>1, <1>a
        <5> QED
          BY <5>1, <5>2, <5>3
      <4> HIDE DEF x, e
      <4>4. x <= t /\ x <= q
        BY <4>2
      <4>5. ASSUME NEW j \in 1..n - 1 PROVE x <= u[j].at
        <5>1. PICK a \in Int : a = u[j].at /\ e <= a
          BY <4>3
        <5>2. x <= a
          BY <4>2, <5>1
        <5> QED
          BY <5>1, <5>2
      <4> QED
        BY <4>1, <4>4, <4>5 DEF x
    <3> QED
      BY <3>1, <3>2
  <2> QED
    BY <2>1, <1>1, <1>6 DEF Behind
<1> QED
  BY <1>8, <1>b DEF u, l

\* The first write completes in full: the wire grows by its bytes and the next
\* write begins where it ends.
LEMMA FinishExact ==
  ASSUME NEW s \in Seq(Int), NEW f \in Seq(Write), f # << >>,
         NEW g \in [0..Len(s) -> Int], NEW t \in Int, NEW q \in Int,
         NEW w \in Seq(Nat), NEW b \in Seq(Nat), Len(b) = f[1].len,
         \A j \in 1..Len(b) : b[j] = f[1].at + j,
         Exact(g, s, f, t, q, w)
  PROVE  LET h == [i \in 0..Len(s) + 1 |->
                     IF i <= Len(s) THEN g[i] ELSE g[Len(s)] + Gained(f[1].len)]
         IN  Exact(h, Append(s, f[1].len), Without(f, 1), t, q, w \o b)
<1> DEFINE u == Without(f, 1)
           n == Len(f)
           l == Len(s)
           k == f[1].len
           x == w \o b
           c == Append(s, k)
           h == [i \in 0..l + 1 |-> IF i <= l THEN g[i] ELSE g[l] + Gained(k)]
<1>1. /\ n \in Nat \ {0} /\ l \in Nat /\ Len(u) = n - 1 /\ 1 \in 1..n /\ u \in Seq(Write)
      /\ \A j \in 1..n - 1 : u[j] = f[j + 1]
  <2>1. n \in Nat \ {0} /\ l \in Nat /\ 1 \in 1..n
    BY EmptySeq, LenProperties
  <2>2. /\ u \in Seq(Write) /\ Len(u) = n - 1
        /\ \A j \in 1..n - 1 : u[j] = IF j < 1 THEN f[j] ELSE f[j + 1]
    BY <2>1, WithoutElement
  <2> QED
    BY <2>1, <2>2
<1>2. k \in Nat \ {0} /\ f[1].at \in Int /\ End(f[1]) = f[1].at + k
  BY <1>1, Fields
<1>3. /\ \A i \in 1..l : s[i] > 0
      /\ q <= t
      /\ \A i \in 1..n : End(f[i]) = IF i = n THEN q ELSE f[i + 1].at
      /\ Len(w) = f[1].at
      /\ g[l] = Len(w)
      /\ \A j \in 1..Len(w) : w[j] = j
  <2>1. /\ \A i \in 1..l : s[i] > 0
        /\ q <= t
        /\ \A i \in 1..n : End(f[i]) = IF i = n THEN q ELSE f[i + 1].at
        /\ Len(w) = IF f = << >> THEN q ELSE f[1].at
        /\ g[l] = Len(w)
        /\ \A j \in 1..Len(w) : w[j] = j
    BY Zenon DEF Exact
  <2>2. Len(w) = f[1].at
    BY <2>1
  <2> QED
    BY <2>1, <2>2
<1>4. Len(c) = l + 1 /\ c[l + 1] = k /\ \A i \in 1..l : c[i] = s[i]
  BY <1>2, AppendProperties
<1>5. /\ Len(x) = Len(w) + k /\ Len(w) \in Nat
      /\ \A j \in 1..Len(w) + k : x[j] = IF j <= Len(w) THEN w[j] ELSE b[j - Len(w)]
  <2>1. w \in Seq(Nat) /\ b \in Seq(Nat) /\ Len(b) = k /\ Len(w) \in Nat /\ k \in Nat
    BY <1>2, LenProperties
  <2>2. /\ Len(x) = Len(w) + Len(b)
        /\ \A j \in 1..Len(w) + Len(b) : x[j] = IF j <= Len(w) THEN w[j] ELSE b[j - Len(w)]
    BY <2>1, ConcatProperties
  <2> QED
    BY <2>1, <2>2
<1>6. \A j \in 1..k : b[j] = f[1].at + j
  OBVIOUS
<1>7. Gained(k) = k
  BY <1>2 DEF Gained
<1> HIDE DEF u, n, l, k, x, c
<1>8. \A i \in 1..Len(c) : c[i] > 0
  <2> SUFFICES ASSUME NEW i \in 1..l + 1 PROVE c[i] > 0
    BY <1>4
  <2>1. CASE i = l + 1
    BY <2>1, <1>2, <1>4
  <2>2. CASE i # l + 1
    <3>1. i \in 1..l
      BY <2>2, <1>1
    <3> QED
      BY <3>1, <1>3, <1>4
  <2> QED
    BY <2>1, <2>2
<1>9. \A i \in 1..Len(u) : End(u[i]) = IF i = Len(u) THEN q ELSE u[i + 1].at
  <2> SUFFICES ASSUME NEW i \in 1..n - 1
               PROVE  End(u[i]) = IF i = n - 1 THEN q ELSE u[i + 1].at
    BY <1>1
  <2>1. u[i] = f[i + 1] /\ i + 1 \in 1..n /\ (i + 1 = n <=> i = n - 1)
    BY <1>1
  <2>2. i # n - 1 => u[i + 1] = f[(i + 1) + 1]
    BY <1>1
  <2>3. End(f[i + 1]) = IF i + 1 = n THEN q ELSE f[(i + 1) + 1].at
    BY <2>1, <1>3
  <2> QED
    BY <2>1, <2>2, <2>3
<1>a. Len(x) = IF u = << >> THEN q ELSE u[1].at
  <2>1. Len(x) = End(f[1])
    BY <1>2, <1>3, <1>5
  <2>2. End(f[1]) = IF 1 = n THEN q ELSE f[1 + 1].at
    BY <1>1, <1>3
  <2>3. CASE n = 1
    <3>1. u = << >>
      BY <2>3, <1>1, EmptySeq
    <3> QED
      BY <2>1, <2>2, <2>3, <3>1
  <2>4. CASE n # 1
    <3>1. u # << >> /\ u[1] = f[1 + 1]
      BY <2>4, <1>1, EmptySeq
    <3> QED
      BY <2>1, <2>2, <2>4, <3>1
  <2> QED
    BY <2>3, <2>4
<1>b. h[Len(c)] = Len(x)
  <2>1. h[l + 1] = g[l] + k
    BY <1>1, <1>7
  <2> QED
    BY <2>1, <1>3, <1>4, <1>5
<1>d. \A j \in 1..Len(x) : x[j] = j
  <2> SUFFICES ASSUME NEW j \in 1..Len(w) + k PROVE x[j] = j
    BY <1>5
  <2>1. CASE j <= Len(w)
    <3>1. j \in 1..Len(w)
      BY <2>1, <1>5
    <3> QED
      BY <3>1, <2>1, <1>3, <1>5
  <2>2. CASE ~(j <= Len(w))
    <3>1. j - Len(w) \in 1..k
      BY <2>2, <1>2, <1>5
    <3>2. x[j] = f[1].at + (j - Len(w))
      BY <3>1, <2>2, <1>5, <1>6
    <3> QED
      BY <3>2, <1>3, <1>5
  <2> QED
    BY <2>1, <2>2
<1>e. q <= t /\ Len(x) = Len(x)
  BY <1>3
<1>f. Exact(h, c, u, t, q, x)
  BY <1>8, <1>9, <1>a, <1>b, <1>d, <1>e DEF Exact
<1> QED
  BY <1>f DEF u, l, k, x, c

\* A result is handled: head takes the bytes it stands for, and no more than the
\* ring has; the results after it are accounted as before.
LEMMA HandleFits ==
  ASSUME NEW s \in Seq(Int), s # << >>, NEW f \in Seq(Write), NEW g \in [0..Len(s) -> Int],
         NEW t \in Int, NEW q \in Int, Behind(g, s, f, t, q)
  PROVE  LET h == [i \in 0..Len(s) - 1 |-> g[i + 1]]
         IN  /\ Behind(h, Tail(s), f, t, q)
             /\ \A w : Exact(g, s, f, t, q, w) => Exact(h, Tail(s), f, t, q, w)
<1> DEFINE l == Len(s)
           h == [i \in 0..l - 1 |-> g[i + 1]]
           c == Tail(s)
<1>1. l \in Nat \ {0} /\ Len(c) = l - 1 /\ \A i \in 1..l - 1 : c[i] = s[i + 1]
  BY EmptySeq
<1>2. \A i \in 0..l : g[i] \in Int /\ g[i] <= t /\ g[i] <= q /\ \A j \in 1..Len(f) : g[i] <= f[j].at
  BY DEF Behind
<1> HIDE DEF l, c
<1>3. \A i \in 0..l - 1 : h[i] = g[i + 1] /\ i + 1 \in 0..l
  BY <1>1
<1> HIDE DEF h
<1>4. Behind(h, c, f, t, q)
  BY <1>1, <1>2, <1>3 DEF Behind
<1>5. ASSUME NEW w, Exact(g, s, f, t, q, w) PROVE Exact(h, c, f, t, q, w)
  <2>1. \A i \in 1..Len(c) : c[i] > 0
    <3> SUFFICES ASSUME NEW i \in 1..l - 1 PROVE c[i] > 0
      BY <1>1
    <3>1. i + 1 \in 1..l /\ c[i] = s[i + 1]
      BY <1>1
    <3>2. \A j \in 1..l : s[j] > 0
      BY <1>5 DEF Exact, l
    <3> QED
      BY <3>1, <3>2
  <2>2. h[Len(c)] = Len(w)
    <3>1. g[l] = Len(w)
      BY <1>5 DEF Exact, l
    <3>2. l - 1 \in 0..l - 1 /\ (l - 1) + 1 = l
      BY <1>1
    <3> QED
      BY <3>1, <3>2, <1>1, <1>3
  <2> QED
    BY <2>1, <2>2, <1>5 DEF Exact
<1> QED
  BY <1>4, <1>5 DEF h, l, c

-----------------------------------------------------------------------------
(* The accounts of the send path. *)

\* Writes complete in the order they were submitted, and all of them are the
\* ring's: short and failed writes are allowed.
Serial == "reorder" \notin faults /\ answers = 0

\* What is handled, what is written, what is outstanding and what is queued
\* follow each other in the ring; without a gap if nothing went wrong.
Accounted ==
  Serial =>
    \E g : /\ Runs(g, cq, head)
           /\ InOrder(flight, tail, head + queued)
           /\ Behind(g, cq, flight, tail, head + queued)
           /\ Clean => Exact(g, cq, flight, tail, head + queued, wire)

LEMMA AccountedInit == Init => Accounted
<1> SUFFICES ASSUME Init PROVE Accounted
  OBVIOUS
<1> DEFINE g == [i \in 0..0 |-> 0]
<1>1. /\ head = 0 /\ tail = 0 /\ queued = 0 /\ head + queued = 0
      /\ flight = << >> /\ cq = << >> /\ wire = << >>
  BY DEF Init
<1>2. Runs(g, << >>, 0)
  BY DEF Runs
<1>3. InOrder(<< >>, 0, 0)
  BY DEF InOrder
<1>4. Behind(g, << >>, << >>, 0, 0)
  BY DEF Behind
<1>5. Exact(g, << >>, << >>, 0, 0, << >>)
  BY DEF Exact
<1> HIDE DEF g
<1> QED
  BY <1>1, <1>2, <1>3, <1>4, <1>5 DEF Accounted

\* The kernel's bytes: a write that has not been overtaken takes out of the ring
\* what the feeder stored for it.
LEMMA BytesRead ==
  ASSUME Typed, Contents, NEW g, Runs(g, cq, head), NEW q, NEW i \in 1..Len(flight),
         InOrder(flight, tail, q), Behind(g, cq, flight, tail, q)
  PROVE  \A j \in 1..flight[i].len : buf[(flight[i].at + j - 1) % Cap] = flight[i].at + j
<1> DEFINE a == flight[i].at
           k == flight[i].len
<1>1. head \in Nat /\ tail \in Nat /\ feeding \in Nat /\ flight \in Seq(Write) /\ cq \in Seq(Int)
  BY TypedFacts
<1>2. a \in Int /\ k \in Nat \ {0} /\ End(flight[i]) = a + k
  BY <1>1, Fields
<1>3. End(flight[i]) <= tail
  BY DEF InOrder
<1>4. head <= a
  <2>1. 0 \in 0..Len(cq) /\ g[0] = head
    BY <1>1, LenProperties DEF Runs
  <2> QED
    BY <2>1 DEF Behind
<1>5. tail <= Stored /\ Stored \in Nat
  BY <1>1 DEF Stored
<1> HIDE DEF a, k
<1>6. ASSUME NEW j \in 1..k PROVE buf[(a + j - 1) % Cap] = a + j
  <2>1. a + j - 1 \in head..Stored - 1 /\ (a + j - 1) + 1 = a + j
    BY <1>1, <1>2, <1>3, <1>4, <1>5
  <2>2. \A p \in head..Stored - 1 : buf[p % Cap] = p + 1
    BY DEF Contents
  <2> QED
    BY <2>1, <2>2
<1> QED
  BY <1>6 DEF a, k

LEMMA PublishAccounted ==
  ASSUME Typed, Accounted, FeedPublish
  PROVE  Accounted'
<1>0. /\ head \in Nat /\ tail \in Nat /\ queued \in Int /\ feeding \in Nat
      /\ flight \in Seq(Write) /\ cq \in Seq(Int)
  BY TypedFacts
<1>1. UNCHANGED <<head, queued, flight, cq, wire, faults, answers>> /\ tail' = tail + feeding
  BY DEF FeedPublish, kernel
<1>2. Serial' = Serial /\ Clean' = Clean
  BY <1>1 DEF Serial, Clean
<1>3. SUFFICES ASSUME Serial PROVE \E g : /\ Runs(g, cq, head)
                                          /\ InOrder(flight, tail + feeding, head + queued)
                                          /\ Behind(g, cq, flight, tail + feeding, head + queued)
                                          /\ Clean => Exact(g, cq, flight, tail + feeding, head + queued, wire)
  BY <1>1, <1>2 DEF Accounted
<1>4. PICK g : /\ Runs(g, cq, head)
               /\ InOrder(flight, tail, head + queued)
               /\ Behind(g, cq, flight, tail, head + queued)
               /\ Clean => Exact(g, cq, flight, tail, head + queued, wire)
  BY <1>3 DEF Accounted
<1> DEFINE q == head + queued
           t == tail + feeding
<1>5. q \in Int /\ t \in Int /\ tail \in Int /\ tail <= t /\ q <= q
  BY <1>0
<1>6. g \in [0..Len(cq) -> Int]
  BY <1>4 DEF Runs
<1> HIDE DEF q, t
<1>7. InOrder(flight, tail, q) /\ Behind(g, cq, flight, tail, q)
  BY <1>4 DEF q
<1>8. InOrder(flight, t, q) /\ Behind(g, cq, flight, t, q)
  BY <1>0, <1>5, <1>6, <1>7, EndsMove
<1>9. ASSUME Exact(g, cq, flight, tail, q, wire) PROVE Exact(g, cq, flight, t, q, wire)
  <2>1. q <= t
    BY <1>5, <1>9 DEF Exact
  <2> QED
    BY <1>9, <2>1 DEF Exact
<1> QED
  BY <1>4, <1>8, <1>9 DEF q, t

LEMMA PassAccounted ==
  ASSUME Typed, Accounted, SendPass
  PROVE  Accounted'
<1>0. /\ head \in Nat /\ tail \in Nat /\ queued \in Int /\ wire \in Seq(Nat)
      /\ flight \in Seq(Write) /\ cq \in Seq(Int)
  BY TypedFacts
<1> DEFINE q == head + queued
           n == Length - queued
           v == Views(queued, n)
<1>1. /\ UNCHANGED <<head, tail, cq, wire, faults, answers>>
      /\ flight' = flight \o v /\ queued' = queued + (Length - queued)
      /\ Length - queued > 0
  BY DEF SendPass, ring
<1>2. n \in Nat \ {0} /\ q \in Int /\ q + n = tail /\ q < tail /\ head + queued' = tail
  BY <1>0, <1>1 DEF Length
<1>3. /\ v \in Seq(Write) /\ Len(v) \in {1, 2}
      /\ \A i \in 1..Len(v) : v[i].own
      /\ v[1].at = q
      /\ Len(v) = 1 => End(v[1]) = tail
      /\ Len(v) = 2 => End(v[1]) = v[2].at /\ End(v[2]) = tail
  <2> HIDE DEF n
  <2>1. head \in Int /\ queued \in Int
    BY <1>0
  <2>2. LET u == Views(queued, n)
            p == head + queued
        IN  /\ u \in Seq(Write) /\ Len(u) \in {1, 2}
            /\ \A i \in 1..Len(u) : u[i].own
            /\ u[1].at = p
            /\ Len(u) = 1 => End(u[1]) = p + n
            /\ Len(u) = 2 => End(u[1]) = u[2].at /\ End(u[2]) = p + n
    BY <2>1, <1>2, ViewsMeet
  <2>3. head + queued + n = tail
    BY <1>2
  <2> QED
    BY <2>2, <2>3
<1>4. Serial' = Serial /\ Clean' = Clean
  BY <1>1 DEF Serial, Clean
<1> HIDE DEF n, v
<1>5. SUFFICES ASSUME Serial PROVE \E g : /\ Runs(g, cq, head)
                                          /\ InOrder(flight \o v, tail, tail)
                                          /\ Behind(g, cq, flight \o v, tail, tail)
                                          /\ Clean => Exact(g, cq, flight \o v, tail, tail, wire)
  BY <1>1, <1>2, <1>4 DEF Accounted
<1>6. PICK g : /\ Runs(g, cq, head)
               /\ InOrder(flight, tail, q)
               /\ Behind(g, cq, flight, tail, q)
               /\ Clean => Exact(g, cq, flight, tail, q, wire)
  BY <1>5 DEF Accounted
<1>7. g \in [0..Len(cq) -> Int] /\ wire \in Seq(Int) /\ tail \in Int
  BY <1>0, <1>6 DEF Runs
<1> HIDE DEF q
<1>8. /\ InOrder(flight \o v, tail, tail) /\ Behind(g, cq, flight \o v, tail, tail)
      /\ Exact(g, cq, flight, tail, q, wire) => Exact(g, cq, flight \o v, tail, tail, wire)
  BY <1>0, <1>2, <1>3, <1>6, <1>7, PassFits
<1> QED
  BY <1>6, <1>8

LEMMA HandleAccounted ==
  ASSUME Typed, Accounted, HandleWrite
  PROVE  Accounted'
<1>0. /\ head \in Nat /\ tail \in Nat /\ queued \in Int /\ wire \in Seq(Nat)
      /\ flight \in Seq(Write) /\ cq \in Seq(Int)
  BY TypedFacts
<1> DEFINE q == head + queued
           k == Head(cq)
           c == Tail(cq)
<1>1. /\ UNCHANGED <<tail, flight, wire, faults, answers>>
      /\ cq # << >> /\ cq' = c /\ queued' = queued - k
      /\ head' = IF k > 0 THEN head + Smaller(k, Length) ELSE head
  BY DEF HandleWrite
<1>2. Serial' = Serial /\ Clean' = Clean
  BY <1>1 DEF Serial, Clean
<1>3. k \in Int /\ k = cq[1] /\ c \in Seq(Int) /\ Len(cq) \in Nat \ {0}
  BY <1>0, <1>1, EmptySeq
<1> HIDE DEF k, c, q
<1>4. SUFFICES ASSUME Serial PROVE Accounted'
  BY <1>2 DEF Accounted
<1>5. PICK g : /\ Runs(g, cq, head)
               /\ InOrder(flight, tail, q)
               /\ Behind(g, cq, flight, tail, q)
               /\ Clean => Exact(g, cq, flight, tail, q, wire)
  BY <1>4 DEF Accounted, q
<1>6. g \in [0..Len(cq) -> Int] /\ g[0] = head /\ g[1] = head + Gained(k)
  <2>1. g \in [0..Len(cq) -> Int] /\ g[0] = head /\ 1 \in 1..Len(cq)
    BY <1>3, <1>5 DEF Runs
  <2>2. g[1] = g[1 - 1] + Gained(cq[1])
    BY <1>5, <2>1 DEF Runs
  <2> QED
    BY <1>3, <2>1, <2>2
<1>7. head + Gained(k) <= tail
  <2>1. 1 \in 0..Len(cq)
    BY <1>3
  <2>2. g[1] <= tail
    BY <1>5, <2>1 DEF Behind
  <2> QED
    BY <1>6, <2>2
<1>8. head' = head + Gained(k)
  <2>1. CASE k > 0
    <3>1. Length = tail - head /\ Gained(k) = k
      BY <2>1 DEF Length, Gained
    <3>2. Smaller(k, Length) = k
      <4>1. head + k <= tail
        BY <3>1, <1>7
      <4>2. head \in Int /\ tail \in Int /\ k \in Int
        BY <1>0, <1>3
      <4>3. k <= tail - head
        BY <4>1, <4>2
      <4>4. k <= Length /\ Length \in Int
        BY <3>1, <4>2, <4>3
      <4>5. CASE k < Length
        BY <4>5 DEF Smaller
      <4>6. CASE k = Length
        BY <4>6 DEF Smaller
      <4> QED
        BY <4>2, <4>4, <4>5, <4>6
    <3> QED
      BY <2>1, <3>1, <3>2, <1>1
  <2>2. CASE ~(k > 0)
    <3>1. Gained(k) = 0 /\ head' = head
      BY <2>2, <1>1 DEF Gained
    <3> QED
      BY <3>1, <1>0
  <2> QED
    BY <2>1, <2>2
<1> DEFINE h == [i \in 0..Len(cq) - 1 |-> g[i + 1]]
           from == head + Gained(k)
           p == from + (queued - k)
<1>9. Runs(h, c, from)
  <2>1. head \in Int /\ cq \in Seq(Int) /\ cq # << >> /\ Runs(g, cq, head)
    BY <1>0, <1>1, <1>5
  <2> QED
    BY <2>1, RunsFrom DEF k, c
<1>10. h \in [0..Len(c) -> Int]
  BY <1>9 DEF Runs
<1>11. q \in Int /\ p \in Int /\ q <= p /\ (k > 0 => q = p)
  BY <1>0, <1>3 DEF q, Gained
<1>12. /\ Behind(h, c, flight, tail, q)
       /\ Exact(g, cq, flight, tail, q, wire) => Exact(h, c, flight, tail, q, wire)
  <2>1. /\ cq \in Seq(Int) /\ cq # << >> /\ flight \in Seq(Write)
        /\ g \in [0..Len(cq) -> Int] /\ tail \in Int /\ q \in Int
        /\ Behind(g, cq, flight, tail, q)
    BY <1>0, <1>1, <1>5, <1>6, <1>11
  <2> QED
    BY <2>1, HandleFits DEF c
<1> HIDE DEF h, from, p
<1>13. InOrder(flight, tail, p) /\ Behind(h, c, flight, tail, p)
  <2>1. tail \in Int /\ tail <= tail
    BY <1>0
  <2> QED
    BY <1>0, <1>3, <1>5, <1>10, <1>11, <1>12, <2>1, EndsMove
<1>14. ASSUME Clean PROVE Exact(h, c, flight, tail, p, wire)
  <2>1. Exact(g, cq, flight, tail, q, wire)
    BY <1>5, <1>14
  <2>2. cq[1] > 0
    <3>1. 1 \in 1..Len(cq)
      BY <1>3
    <3> QED
      BY <2>1, <3>1 DEF Exact
  <2>3. q = p
    BY <2>2, <1>3, <1>11
  <2> QED
    BY <2>1, <2>3, <1>12
<1>15. head' = from /\ head' + queued' = p
  BY <1>1, <1>8 DEF from, p
<1>16. \E e : /\ Runs(e, c, from) /\ InOrder(flight, tail, p) /\ Behind(e, c, flight, tail, p)
              /\ Clean => Exact(e, c, flight, tail, p, wire)
  BY <1>9, <1>13, <1>14 DEF from
<1> QED
  BY <1>1, <1>2, <1>15, <1>16 DEF Accounted

LEMMA CompleteAccounted ==
  ASSUME Typed, Contents, Accounted, NEW i \in 1..Len(flight),
         (\E k \in 1..flight[i].len : WriteDone(i, k)) \/ WriteFails(i)
  PROVE  Accounted'
<1>0. /\ head \in Nat /\ tail \in Nat /\ queued \in Int /\ wire \in Seq(Nat)
      /\ flight \in Seq(Write) /\ cq \in Seq(Int) /\ buf \in [Slots -> Nat]
  BY TypedFacts
<1>1. UNCHANGED <<buf, head, tail, queued, answers>> /\ flight' = Without(flight, i)
  BY DEF WriteDone, WriteFails, ring
<1>2. SUFFICES ASSUME Serial' PROVE Accounted'
  BY DEF Accounted
<1>3. i = 1
  <2>1. i > 1 => "reorder" \in faults'
    BY DEF WriteDone, WriteFails
  <2>2. i \in Nat /\ i >= 1
    BY <1>0, LenProperties
  <2> QED
    BY <2>1, <2>2, <1>2 DEF Serial
<1>4. faults \subseteq faults' /\ answers' = answers
  BY <1>1 DEF WriteDone, WriteFails
<1>5. Serial /\ (Clean' => Clean)
  BY <1>2, <1>4 DEF Serial, Clean
<1> DEFINE q == head + queued
           len == flight[1].len
<1>6. PICK g : /\ Runs(g, cq, head)
               /\ InOrder(flight, tail, q)
               /\ Behind(g, cq, flight, tail, q)
               /\ Clean => Exact(g, cq, flight, tail, q, wire)
  BY <1>5 DEF Accounted
<1>7. flight # << >> /\ flight[1].at \in Int /\ len \in Nat \ {0} /\ flight[1].own
  <2>1. flight # << >> /\ 1 \in 1..Len(flight)
    BY <1>0, <1>3, EmptySeq
  <2>2. flight[1].at \in Int /\ flight[1].len \in Nat \ {0}
    BY <1>0, <2>1, Fields
  <2>3. flight[1].own
    BY <1>6, <2>1 DEF InOrder
  <2> QED
    BY <2>1, <2>2, <2>3
<1>8. g \in [0..Len(cq) -> Int] /\ q \in Int /\ tail \in Int
  BY <1>0, <1>6 DEF Runs
<1> HIDE DEF q, len
\* The result k, and what reaches the wire if it is the whole write.
<1>9. ASSUME NEW k \in Int, Gained(k) <= len, cq' = Append(cq, k),
             Clean' => k = len /\ \E b \in Seq(Nat) : /\ Len(b) = len /\ wire' = wire \o b
                                                      /\ \A j \in 1..Len(b) : b[j] = flight[1].at + j
      PROVE  Accounted'
  <2> DEFINE h == [e \in 0..Len(cq) + 1 |-> IF e <= Len(cq) THEN g[e] ELSE g[Len(cq)] + Gained(k)]
             u == Without(flight, 1)
             c == Append(cq, k)
  <2>1. Runs(h, c, head)
    <3>1. head \in Int
      BY <1>0
    <3> QED
      BY <3>1, <1>0, <1>6, RunsOn
  <2>2. InOrder(u, tail, q) /\ Behind(h, c, u, tail, q)
    BY <1>0, <1>6, <1>7, <1>8, <1>9, FinishFits DEF len
  <2>3. ASSUME Clean' PROVE Exact(h, c, u, tail, q, wire')
    <3>1. PICK b \in Seq(Nat) : /\ Len(b) = len /\ wire' = wire \o b
                                /\ \A j \in 1..Len(b) : b[j] = flight[1].at + j
      BY <1>9, <2>3
    <3>2. k = flight[1].len
      BY <1>9, <2>3 DEF len
    <3>3. Exact(g, cq, flight, tail, q, wire)
      BY <2>3, <1>5, <1>6
    <3>4. Exact(h, c, u, tail, q, wire \o b)
      BY <1>0, <1>7, <1>8, <3>1, <3>2, <3>3, FinishExact DEF len
    <3> QED
      BY <3>1, <3>4
  <2> HIDE DEF h, u, c
  <2>4. cq' = c /\ flight' = u /\ head' = head /\ tail' = tail /\ head' + queued' = q
    BY <1>1, <1>3, <1>9 DEF u, c, q
  <2>5. \E e : /\ Runs(e, c, head) /\ InOrder(u, tail, q) /\ Behind(e, c, u, tail, q)
               /\ Clean' => Exact(e, c, u, tail, q, wire')
    BY <2>1, <2>2, <2>3
  <2> QED
    BY <2>4, <2>5 DEF Accounted
<1>10. CASE WriteFails(i)
  <2>1. cq' = Append(cq, -1) /\ "error" \in faults'
    BY <1>10 DEF WriteFails
  <2>2. ~Clean'
    BY <2>1 DEF Clean
  <2>3. -1 \in Int /\ Gained(-1) <= len
    BY <1>7 DEF Gained
  <2> QED
    BY <2>1, <2>2, <2>3, <1>9
<1>11. ASSUME NEW k \in 1..flight[i].len, WriteDone(i, k) PROVE Accounted'
  <2>1. k \in Int /\ k \in 1..len
    BY <1>3, <1>7 DEF len
  <2>2. Gained(k) <= len
    BY <2>1, <1>7 DEF Gained
  <2>3. cq' = Append(cq, k)
    BY <1>11 DEF WriteDone
  <2>4. wire' = wire \o [j \in 1..k |-> buf[(flight[1].at + j - 1) % Cap]]
    BY <1>3, <1>7, <1>11 DEF WriteDone
  <2>5. ASSUME Clean'
        PROVE  k = len /\ \E b \in Seq(Nat) : /\ Len(b) = len /\ wire' = wire \o b
                                              /\ \A j \in 1..Len(b) : b[j] = flight[1].at + j
    <3>1. ~(k < len)
      <4>1. k < flight[i].len => "short" \in faults'
        BY <1>11 DEF WriteDone
      <4> QED
        BY <4>1, <2>5, <1>3 DEF Clean, len
    <3>2. k = len
      BY <3>1, <2>1, <1>7
    <3>3. \A j \in 1..len : buf[(flight[1].at + j - 1) % Cap] = flight[1].at + j
      BY <1>3, <1>6, BytesRead DEF len
    <3> DEFINE a == flight[1].at
               b == [j \in 1..len |-> buf[(a + j - 1) % Cap]]
    <3>4. \A j \in 1..len : b[j] = a + j /\ b[j] \in Nat
      <4> SUFFICES ASSUME NEW j \in 1..len PROVE b[j] = a + j /\ b[j] \in Nat
        OBVIOUS
      <4>1. b[j] = buf[(a + j - 1) % Cap]
        OBVIOUS
      <4>2. ((a + j - 1) % Cap) \in Slots
        <5>1. a + j - 1 \in Int
          BY <1>7
        <5> QED
          BY <5>1, SendConstants, ModRange DEF Slots
      <4> QED
        BY <4>1, <4>2, <3>3, <1>0
    <3>5. b \in Seq(Nat) /\ Len(b) = len
      <4>1. b \in [1..len -> Nat] /\ len \in Nat
        BY <3>4, <1>7
      <4> HIDE DEF b
      <4> QED
        BY <4>1
    <3>6. wire' = wire \o b
      BY <2>4, <3>2
    <3> HIDE DEF b
    <3> QED
      BY <3>2, <3>4, <3>5, <3>6
  <2> QED
    BY <2>1, <2>2, <2>3, <2>5, <1>9
<1> QED
  BY <1>10, <1>11

LEMMA AccountedKept == Typed /\ Contents /\ Accounted /\ [Next]_vars => Accounted'
<1> SUFFICES ASSUME Typed, Contents, Accounted, [Next]_vars PROVE Accounted'
  OBVIOUS
<1>1. ASSUME UNCHANGED <<head, tail, queued, flight, cq, wire, faults, answers>> PROVE Accounted'
  <2>1. Serial' = Serial /\ Clean' = Clean
    BY <1>1 DEF Serial, Clean
  <2> QED
    BY <1>1, <2>1 DEF Accounted
<1>2. CASE FeedCheck \/ FeedCopy \/ Notify \/ SendPassPanics \/ UNCHANGED vars
  BY <1>1, <1>2 DEF FeedCheck, FeedCopy, Notify, SendPassPanics, vars, ring, kernel
<1>3. CASE Respond
  <2>1. answers' = answers + 1 /\ answers \in Nat
    BY <1>3, TypedFacts DEF Respond
  <2>2. ~Serial'
    BY <2>1 DEF Serial
  <2> QED
    BY <2>2 DEF Accounted
<1> QED
  BY <1>2, <1>3, PublishAccounted, PassAccounted, HandleAccounted, CompleteAccounted
     DEF Next, Feed, Serve, Complete

LEMMA SendInvariant == Spec => [](Typed /\ Contents /\ Accounted)
<1>1. Init => Typed /\ Contents /\ Accounted
  BY TypedInit, ContentsInit, AccountedInit
<1>2. Typed /\ Contents /\ Accounted /\ [Next]_vars => (Typed /\ Contents /\ Accounted)'
  BY TypedKept, ContentsKept, AccountedKept
<1> QED
  BY <1>1, <1>2, PTL DEF Spec

\* As long as the kernel executes the writes in order and completely, the socket
\* carries the stream that was fed, for any ring, any chunks and any number of
\* writes: no byte is skipped, repeated or read before it was stored.
THEOREM SendStreamIntact == Spec => []StreamIntact
<1>1. ASSUME Typed, Accounted, Clean PROVE wire = [j \in 1..Len(wire) |-> j]
  <2>1. wire \in Seq(Nat)
    BY <1>1, TypedFacts
  <2>2. Serial
    BY <1>1 DEF Clean, Serial
  <2>3. \A j \in 1..Len(wire) : wire[j] = j
    BY <1>1, <2>2 DEF Accounted, Exact
  <2> QED
    BY <2>1, <2>3
<1>2. Typed /\ Contents /\ Accounted => StreamIntact
  BY <1>1 DEF StreamIntact
<1> QED
  BY SendInvariant, <1>2, PTL

\* As long as the writes are executed in order, no byte of an outstanding one is
\* overwritten, after short and failed writes too: what Advance releases never
\* reaches the oldest outstanding write.
THEOREM SendInFlightUntouched == Spec => []InFlightUntouched
<1>1. ASSUME Typed, Contents, Accounted, Serial, NEW i \in 1..Len(flight),
             NEW j \in 1..flight[i].len
      PROVE  buf[(flight[i].at + j - 1) % Cap] = flight[i].at + j
  <2>1. PICK g : /\ Runs(g, cq, head)
                 /\ InOrder(flight, tail, head + queued)
                 /\ Behind(g, cq, flight, tail, head + queued)
    BY <1>1 DEF Accounted
  <2> QED
    BY <1>1, <2>1, BytesRead
<1>2. Typed /\ Contents /\ Accounted => InFlightUntouched
  BY <1>1 DEF InFlightUntouched, Serial
<1> QED
  BY SendInvariant, <1>2, PTL

\* As long as nothing goes wrong, queuedByte is exactly what the outstanding
\* writes and the results that wait will release.
THEOREM SendQueuedAgrees == Spec => []QueuedAgrees
<1>1. ASSUME Typed, Accounted, Clean
      PROVE  /\ queued \in 0..Length
             /\ \A i \in 1..Len(flight) :
                  flight[i].at + flight[i].len =
                    IF i = Len(flight) THEN head + queued ELSE flight[i + 1].at
             /\ Len(wire) = IF flight = << >> THEN head + queued ELSE flight[1].at
  <2>0. head \in Nat /\ tail \in Nat /\ queued \in Int /\ cq \in Seq(Int)
    BY <1>1, TypedFacts
  <2>1. Serial
    BY <1>1 DEF Clean, Serial
  <2>2. PICK g : /\ Runs(g, cq, head)
                 /\ Behind(g, cq, flight, tail, head + queued)
                 /\ Exact(g, cq, flight, tail, head + queued, wire)
    BY <1>1, <2>1 DEF Accounted
  <2>3. queued \in 0..Length
    <3>1. 0 \in 0..Len(cq) /\ g[0] = head
      BY <2>0, <2>2, LenProperties DEF Runs
    <3>2. head <= head + queued
      BY <2>2, <3>1 DEF Behind
    <3>3. head + queued <= tail
      BY <2>2 DEF Exact
    <3> QED
      BY <2>0, <3>2, <3>3 DEF Length
  <2> QED
    BY <2>2, <2>3 DEF Exact, End
<1>2. Typed /\ Contents /\ Accounted => QueuedAgrees
  BY <1>1 DEF QueuedAgrees
<1> QED
  BY SendInvariant, <1>2, PTL
=============================================================================
