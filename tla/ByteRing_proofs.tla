-------------------------- MODULE ByteRing_proofs --------------------------
(***************************************************************************)
(* For every capacity, counter width and byte type: the counters of a byte *)
(* ring stay consistent, its reads return its contents, and it implements  *)
(* a bounded FIFO.                                                         *)
(*                                                                         *)
(* Every argument goes through one change of coordinates: a slot is named  *)
(* by its distance j from the slot of tail.  Distances below Free are the  *)
(* slots a Write may fill, the others hold the contents.                   *)
(***************************************************************************)
EXTENDS ByteRing, ModularArithmetic, SequenceTheorems

\* The slot j places after slot i, around the end of the array.
Around(i, j) == IF i + j < Cap THEN i + j ELSE i + j - Cap

\* What the assumption on the constants gives: the counters have room for two
\* rings.
LEMMA Constants ==
  /\ Cap \in Nat \ {0} /\ Wrap \in Nat \ {0} /\ 2 * Cap <= Wrap
  /\ \E m \in Nat : Wrap = Cap * m
<1>1. PICK m \in 2..Wrap : Wrap = Cap * m
  BY RingAssumption DEF RingAssumption
<1>2. Cap \in Nat \ {0} /\ Wrap \in Nat
  BY RingAssumption DEF RingAssumption
<1>3. Cap * m >= Cap * 2
  BY <1>2
<1> QED
  BY <1>1, <1>2, <1>3

\* Masking a wrapped counter is masking the counter: Cap divides Wrap.
LEMMA MaskWrapped ==
  ASSUME NEW x \in 0..Wrap-1, NEW k \in 0..Cap
  PROVE  Masked((x + k) % Wrap) = Around(Masked(x), k)
<1>1. PICK m \in Nat : Wrap = Cap * m
  BY Constants
<1>2. (x + k) % Wrap = IF x + k < Wrap THEN x + k ELSE x + k - Wrap
  BY Constants, ModAdd, ModSmall
<1>3. x \in Int /\ k \in Int /\ x + k \in Int /\ Cap \in Nat \ {0}
  BY Constants
<1> DEFINE y == x + k
           z == y % Wrap
<1>4. y % Cap = Around(x % Cap, k)
  BY <1>3, ModAdd DEF Around
<1>5. y \in Int /\ Wrap \in Int /\ m \in Int
  BY <1>1, <1>3, Constants
<1>6. z = y \/ z = y - Wrap
  BY <1>2, <1>3, <1>5
<1> HIDE DEF y, z
<1>7. (y - Wrap) % Cap = y % Cap
  BY <1>1, <1>3, <1>5, ModTurns
<1>8. z % Cap = y % Cap
  BY <1>6, <1>7
<1> QED
  BY <1>4, <1>8 DEF Masked, y, z

\* The ring holds between nothing and Cap bytes.
LEMMA LengthRange ==
  ASSUME TypeOK
  PROVE  Length \in 0..Cap
<1>1. tail - head \in Int
  BY Constants DEF TypeOK
<1>2. Length \in 0..Wrap-1
  BY <1>1, Constants, ModRange DEF Length
<1> QED
  BY <1>2, Constants DEF TypeOK

\* tail is Length places after head.
LEMMA TailFromHead ==
  ASSUME TypeOK
  PROVE  tail = head + Length \/ tail = head + Length - Wrap
<1>1. head \in 0..Wrap-1 /\ tail \in 0..Wrap-1 /\ Wrap \in Nat \ {0}
  BY Constants DEF TypeOK
<1>2. CASE tail >= head
  BY <1>1, <1>2, ModSmall DEF Length
<1>3. CASE tail < head
  <2>1. (tail - head + Wrap) % Wrap = tail - head + Wrap
    BY <1>1, <1>3, ModSmall
  <2>2. (tail - head + Wrap) % Wrap = (tail - head) % Wrap
    <3>1. (tail - head - (Wrap * (-1))) % Wrap = (tail - head) % Wrap
      BY <1>1, ModTurns
    <3> QED
      BY <3>1, <1>1
  <2> QED
    BY <1>1, <2>1, <2>2 DEF Length
<1> QED
  BY <1>1, <1>2, <1>3

\* The distance of two counters that are d apart.
LEMMA Distance ==
  ASSUME NEW h \in 0..Wrap-1, NEW t \in 0..Wrap-1, NEW d \in 0..Wrap-1,
         t = h + d \/ t = h + d - Wrap
  PROVE  (t - h) % Wrap = d
<1>1. Wrap \in Nat \ {0}
  BY Constants
<1>2. CASE t = h + d
  BY <1>1, <1>2, ModSmall
<1>3. CASE t = h + d - Wrap
  <2>1. (d - (Wrap * 1)) % Wrap = d % Wrap
    BY <1>1, ModTurns
  <2> QED
    BY <1>1, <1>3, <2>1, ModSmall
<1> QED
  BY <1>2, <1>3

\* A counter that moves by k either stays below Wrap or loses one turn.
LEMMA Moved ==
  ASSUME NEW x \in 0..Wrap-1, NEW k \in 0..Cap
  PROVE  /\ (x + k) % Wrap \in 0..Wrap-1
         /\ (x + k) % Wrap = x + k \/ (x + k) % Wrap = x + k - Wrap
<1>1. x \in Int /\ x % Wrap = x /\ k \in 0..Wrap /\ Wrap \in Nat \ {0}
  BY Constants, ModSmall
<1>2. (x + k) % Wrap = IF x + k < Wrap THEN x + k ELSE x + k - Wrap
  BY <1>1, ModAdd
<1> QED
  BY <1>1, <1>2

-----------------------------------------------------------------------------
(* What a Write leaves in the array. *)

\* Stored puts the chunk in the slots from i on, around the end of the array,
\* and changes no other slot.
LEMMA StoredAt ==
  ASSUME TypeOK, NEW b \in Seq(Byte), Len(b) <= Cap,
         NEW i \in Slots, NEW j \in Slots
  PROVE  Stored(i, b)[Around(i, j)]
           = IF j < Len(b) THEN b[j + 1] ELSE buf[Around(i, j)]
<1>1. Cap \in Nat \ {0} /\ Len(b) \in Nat
  BY Constants
<1>2. Around(i, j) \in Slots
  BY <1>1 DEF Around, Slots
<1>3. CASE i + j < Cap
  BY <1>1, <1>2, <1>3 DEF Around, Stored, Smaller, Slots
<1>4. CASE ~(i + j < Cap)
  BY <1>1, <1>2, <1>4 DEF Around, Stored, Smaller, Slots
<1> QED
  BY <1>3, <1>4

\* Write leaves an array of bytes.
LEMMA StoredType ==
  ASSUME TypeOK, NEW b \in Seq(Byte), Len(b) <= Cap, NEW i \in Slots
  PROVE  Stored(i, b) \in [Slots -> Byte]
<1>1. Cap \in Nat \ {0} /\ Len(b) \in Nat
  BY Constants
<1>2. \A k \in 1..Len(b) : b[k] \in Byte
  OBVIOUS
<1>3. buf \in [Slots -> Byte]
  BY DEF TypeOK
<1>4. ASSUME NEW s \in Slots
      PROVE  Stored(i, b)[s] \in Byte
  BY <1>1, <1>2, <1>3 DEF Stored, Smaller, Slots
<1> QED
  BY <1>4 DEF Stored

\* Distances are measured around the whole array.
LEMMA AroundAll ==
  ASSUME NEW i \in Slots, NEW s \in Slots
  PROVE  \E j \in Slots : s = Around(i, j)
<1>1. Cap \in Nat \ {0}
  BY Constants
<1>2. CASE s >= i
  <2>1. s - i \in Slots /\ s = Around(i, s - i)
    BY <1>1, <1>2 DEF Slots, Around
  <2> QED
    BY <2>1
<1>3. CASE s < i
  <2>1. s - i + Cap \in Slots /\ s = Around(i, s - i + Cap)
    BY <1>1, <1>3 DEF Slots, Around
  <2> QED
    BY <2>1
<1> QED
  BY <1>1, <1>2, <1>3 DEF Slots

-----------------------------------------------------------------------------
(* The counters. *)

\* A write lengthens the ring by its chunk, and within its capacity.
LEMMA WriteLength ==
  ASSUME TypeOK, NEW b \in Seq(Byte), Write(b)
  PROVE  /\ tail' \in 0..Wrap-1
         /\ Length' = Length + Len(b)
         /\ Len(b) \in 0..Cap /\ Length + Len(b) \in 0..Cap
<1>1. Len(b) \in 0..Cap /\ Length \in 0..Cap /\ Length + Len(b) \in 0..Cap
  BY Constants, LengthRange DEF Write, Free
<1>2. tail \in 0..Wrap-1 /\ head \in 0..Wrap-1 /\ head' = head
      /\ tail' = (tail + Len(b)) % Wrap
  BY DEF TypeOK, Write
<1>3. /\ tail' \in 0..Wrap-1
      /\ tail' = tail + Len(b) \/ tail' = tail + Len(b) - Wrap
  BY <1>1, <1>2, Moved
<1>4. tail' = head + (Length + Len(b)) \/ tail' = head + (Length + Len(b)) - Wrap
  <2>1. tail = head + Length \/ tail = head + Length - Wrap
    BY TailFromHead
  <2>2. Length + Len(b) < Wrap /\ Wrap \in Nat
    BY <1>1, Constants
  <2> QED
    BY <1>1, <1>2, <1>3, <2>1, <2>2
<1>5. Length + Len(b) \in 0..Wrap-1
  BY <1>1, Constants
<1>6. (tail' - head) % Wrap = Length + Len(b)
  BY <1>2, <1>3, <1>4, <1>5, Distance
<1> QED
  BY <1>1, <1>2, <1>3, <1>6 DEF Length

\* An advance shortens the ring by what it was asked for, or empties it.
LEMMA AdvanceLength ==
  ASSUME TypeOK, NEW n \in Int, Advance(n)
  PROVE  /\ Smaller(n, Length) \in 0..Length
         /\ head' = (head + Smaller(n, Length)) % Wrap
         /\ head' \in 0..Wrap-1
         /\ Length' = Length - Smaller(n, Length)
<1> DEFINE k == Smaller(n, Length)
<1>1. k \in 0..Length /\ k \in 0..Cap /\ Length \in 0..Cap
  BY Constants, LengthRange DEF Advance, Smaller
<1>2. tail \in 0..Wrap-1 /\ head \in 0..Wrap-1 /\ tail' = tail
      /\ head' = (head + k) % Wrap
  BY DEF TypeOK, Advance
<1> HIDE DEF k
<1>3. /\ head' \in 0..Wrap-1
      /\ head' = head + k \/ head' = head + k - Wrap
  BY <1>1, <1>2, Moved
<1>4. tail = head' + (Length - k) \/ tail = head' + (Length - k) - Wrap
  <2>1. tail = head + Length \/ tail = head + Length - Wrap
    BY TailFromHead
  <2>2. Wrap \in Nat /\ Length \in Nat /\ k \in Nat /\ k <= Length
        /\ head \in Int /\ tail \in Nat /\ tail < Wrap /\ head' \in Nat
    BY <1>1, <1>2, <1>3, Constants
  <2>3. CASE head' = head + k
    BY <2>1, <2>2, <2>3
  <2>4. CASE head' = head + k - Wrap
    BY <2>1, <2>2, <2>4
  <2> QED
    BY <1>3, <2>3, <2>4
<1>5. Length - k \in 0..Wrap-1
  BY <1>1, Constants
<1>6. (tail - head') % Wrap = Length - k
  BY <1>2, <1>3, <1>4, <1>5, Distance
<1>7. Length' = Length - k
  BY <1>2, <1>6 DEF Length
<1> QED
  BY <1>1, <1>2, <1>3, <1>7 DEF k

\* The counters never drift more than Cap apart and the array keeps its type,
\* whatever the users write and however far they advance.
THEOREM TypeCorrect == Spec => []TypeOK
<1>1. Init => TypeOK
  <2> SUFFICES ASSUME Init PROVE TypeOK
    OBVIOUS
  <2>1. (0 - 0) % Wrap = 0
    BY Constants, ModSmall
  <2> QED
    BY <2>1, Constants, RingAssumption DEF Init, TypeOK, Length, RingAssumption
<1>2. TypeOK /\ [Next]_ring => TypeOK'
  <2> SUFFICES ASSUME TypeOK, [Next]_ring PROVE TypeOK'
    OBVIOUS
  <2>1. ASSUME NEW b \in Chunks, Write(b) PROVE TypeOK'
    <3>1. b \in Seq(Byte)
      BY RingAssumption DEF RingAssumption
    <3>2. Masked(tail) \in Slots
      <4>1. tail \in Int /\ Cap \in Nat \ {0}
        BY Constants DEF TypeOK
      <4> QED
        BY <4>1, ModRange DEF Masked, Slots
    <3>3. /\ tail' \in 0..Wrap-1
          /\ Length' = Length + Len(b)
          /\ Len(b) \in 0..Cap /\ Length + Len(b) \in 0..Cap
      BY <3>1, <2>1, WriteLength
    <3>4. buf' \in [Slots -> Byte]
      BY <3>1, <3>2, <3>3, <2>1, StoredType, Constants DEF Write
    <3> QED
      BY <2>1, <3>3, <3>4, Constants DEF TypeOK, Write
  <2>2. ASSUME NEW n \in Steps, Advance(n) PROVE TypeOK'
    <3>1. n \in Int
      BY RingAssumption DEF RingAssumption
    <3>2. /\ Smaller(n, Length) \in 0..Length
          /\ head' \in 0..Wrap-1
          /\ Length' = Length - Smaller(n, Length)
      BY <3>1, <2>2, AdvanceLength
    <3> QED
      BY <2>2, <3>2, LengthRange, Constants DEF TypeOK, Advance
  <2>3. CASE UNCHANGED ring
    BY <2>3 DEF TypeOK, ring, Length
  <2> QED
    BY <2>1, <2>2, <2>3 DEF Next
<1> QED
  BY <1>1, <1>2, PTL DEF Spec

-----------------------------------------------------------------------------
(* The contents. *)

\* The slots of head and tail are Length apart.
LEMMA TailSlot ==
  ASSUME TypeOK
  PROVE  /\ Masked(head) \in Slots /\ Masked(tail) \in Slots
         /\ Masked(tail) = Around(Masked(head), Length)
<1>1. /\ Cap \in Nat \ {0} /\ Length \in 0..Cap /\ Length < Wrap
      /\ head \in 0..Wrap-1 /\ tail \in 0..Wrap-1 /\ Wrap \in Nat \ {0}
  BY LengthRange, Constants DEF TypeOK
<1>2. (head + Length) % Wrap = tail
  <2>1. /\ (head + Length) % Wrap \in 0..Wrap-1
        /\ \/ (head + Length) % Wrap = head + Length
           \/ (head + Length) % Wrap = head + Length - Wrap
    BY <1>1, Moved
  <2>2. tail = head + Length \/ tail = head + Length - Wrap
    BY TailFromHead
  <2> QED
    BY <1>1, <2>1, <2>2
<1>3. head \in Int /\ tail \in Int
  BY <1>1
<1>4. Masked(head) \in Slots /\ Masked(tail) \in Slots
  BY <1>1, <1>3, ModRange DEF Masked, Slots
<1> QED
  BY <1>1, <1>2, <1>4, MaskWrapped

\* Where the k-th byte lies, counted from the slot of head and from that of
\* tail.
LEMMA Position ==
  ASSUME TypeOK, NEW k \in 1..Length
  PROVE  /\ Masked((head + k - 1) % Wrap) = Around(Masked(head), k - 1)
         /\ Masked((head + k - 1) % Wrap)
              = Around(Masked(tail), Cap - Length + k - 1)
         /\ Masked(head) \in Slots /\ Masked(tail) \in Slots
<1>1. /\ Cap \in Nat \ {0} /\ Length \in 0..Cap /\ k - 1 \in 0..Cap
      /\ head \in 0..Wrap-1 /\ tail \in 0..Wrap-1 /\ Wrap \in Nat \ {0}
  BY LengthRange, Constants DEF TypeOK
<1>2. Masked((head + (k - 1)) % Wrap) = Around(Masked(head), k - 1)
  BY <1>1, MaskWrapped
<1>3. head + k - 1 = head + (k - 1)
  BY <1>1
<1>4. /\ Masked(head) \in Slots /\ Masked(tail) \in Slots
      /\ Masked(tail) = Around(Masked(head), Length)
  BY TailSlot
<1> QED
  BY <1>1, <1>2, <1>3, <1>4 DEF Around, Slots

\* The contents are a string of Length bytes, read around the array from head.
LEMMA ContentsType ==
  ASSUME TypeOK
  PROVE  /\ Contents \in Seq(Byte)
         /\ Len(Contents) = Length
         /\ Length \in 0..Cap
         /\ \A k \in 1..Length :
              /\ Around(Masked(head), k - 1) \in Slots
              /\ Contents[k] = buf[Around(Masked(head), k - 1)]
<1>1. Length \in 0..Cap /\ Cap \in Nat \ {0} /\ buf \in [Slots -> Byte]
  BY LengthRange, Constants DEF TypeOK
<1>2. ASSUME NEW k \in 1..Length
      PROVE  /\ Around(Masked(head), k - 1) \in Slots
             /\ Contents[k] = buf[Around(Masked(head), k - 1)]
             /\ Contents[k] \in Byte
  <2>1. /\ Masked((head + k - 1) % Wrap) = Around(Masked(head), k - 1)
        /\ Masked(head) \in Slots
    BY Position
  <2>2. Around(Masked(head), k - 1) \in Slots
    BY <1>1, <2>1 DEF Around, Slots
  <2> QED
    BY <1>1, <2>1, <2>2 DEF Contents
<1>3. Contents \in [1..Length -> Byte]
  BY <1>2 DEF Contents
<1> QED
  BY <1>1, <1>2, <1>3

\* A write appends its chunk and leaves the bytes before it alone.
LEMMA WriteAppends ==
  ASSUME TypeOK, NEW b \in Seq(Byte), Write(b)
  PROVE  Contents' = Contents \o b /\ Len(Contents) + Len(b) <= Cap
<1>1. /\ Length' = Length + Len(b) /\ Len(b) \in 0..Cap
      /\ Length + Len(b) \in 0..Cap
  BY WriteLength
<1>2. /\ Contents \in Seq(Byte) /\ Len(Contents) = Length /\ Length \in 0..Cap
      /\ Cap \in Nat \ {0}
  BY ContentsType, Constants
<1>3. DOMAIN Contents' = 1..(Length + Len(b))
  BY <1>1 DEF Contents
<1>4. ASSUME NEW k \in 1..(Length + Len(b))
      PROVE  Contents'[k] = (Contents \o b)[k]
  <2>1. Contents'[k] = buf'[Masked((head' + k - 1) % Wrap)]
    BY <1>1 DEF Contents
  <2>2. head' = head /\ buf' = Stored(Masked(tail), b)
    BY DEF Write
  <2>3. /\ head \in 0..Wrap-1 /\ tail \in 0..Wrap-1 /\ Wrap \in Nat \ {0}
        /\ k - 1 \in 0..Cap
    BY <1>1, <1>2, Constants DEF TypeOK
  <2>4. /\ Masked(head) \in Slots /\ Masked(tail) \in Slots
        /\ Masked(tail) = Around(Masked(head), Length)
    BY TailSlot
  <2>5. CASE k \in 1..Length
    <3>1. Masked((head + k - 1) % Wrap)
            = Around(Masked(tail), Cap - Length + k - 1)
      BY <2>5, Position
    <3>2. Cap - Length + k - 1 \in Slots /\ ~(Cap - Length + k - 1 < Len(b))
      BY <1>1, <1>2, <2>5 DEF Slots
    <3>3. Contents'[k] = buf[Masked((head + k - 1) % Wrap)]
      BY <1>1, <1>2, <2>1, <2>2, <2>4, <3>1, <3>2, StoredAt
    <3>4. Contents[k] = buf[Masked((head + k - 1) % Wrap)]
      BY <2>5 DEF Contents
    <3> QED
      BY <1>2, <2>5, <3>3, <3>4
  <2>6. CASE k \in (Length + 1)..(Length + Len(b))
    <3> DEFINE j == k - Length - 1
    <3>1. j \in Slots /\ j < Len(b) /\ j + 1 = k - Length
      BY <1>1, <1>2, <2>6 DEF Slots
    <3>2. Masked((head + k - 1) % Wrap) = Around(Masked(tail), j)
      <4>1. Masked((head + (k - 1)) % Wrap) = Around(Masked(head), k - 1)
        BY <2>3, MaskWrapped
      <4>2. head + k - 1 = head + (k - 1)
        BY <2>3
      <4>3. Around(Masked(head), k - 1) = Around(Masked(tail), j)
        BY <1>1, <1>2, <2>4, <2>6 DEF Around, Slots
      <4> QED
        BY <4>1, <4>2, <4>3
    <3> HIDE DEF j
    <3>3. Contents'[k] = b[j + 1]
      BY <1>1, <1>2, <2>1, <2>2, <2>4, <3>1, <3>2, StoredAt
    <3> QED
      BY <1>1, <1>2, <2>6, <3>1, <3>3
  <2> QED
    BY <1>1, <1>2, <2>5, <2>6
<1>5. /\ Contents \o b \in Seq(Byte) /\ Len(Contents \o b) = Length + Len(b)
  BY <1>2
<1>6. Contents' \in [1..(Length + Len(b)) -> Byte]
  <2>1. Contents' = [k \in 1..(Length + Len(b)) |-> Contents'[k]]
    BY <1>3 DEF Contents
  <2>2. \A k \in 1..(Length + Len(b)) : Contents'[k] \in Byte
    BY <1>4, <1>5
  <2> QED
    BY <2>1, <2>2
<1>7. Contents' \in Seq(Byte) /\ Len(Contents') = Length + Len(b)
  BY <1>1, <1>2, <1>6
<1> QED
  BY <1>1, <1>2, <1>4, <1>5, <1>7, SeqEqual

\* An advance drops the oldest bytes and leaves the others alone.
LEMMA AdvanceDrops ==
  ASSUME TypeOK, NEW n \in Int, Advance(n)
  PROVE  /\ Smaller(n, Length) \in 0..Length
         /\ Contents' = SubSeq(Contents, Smaller(n, Length) + 1, Len(Contents))
<1> DEFINE m == Smaller(n, Length)
<1>1. m \in 0..Length /\ Length' = Length - m /\ head' = (head + m) % Wrap
      /\ head' \in 0..Wrap-1
  BY AdvanceLength
<1> HIDE DEF m
<1>2. /\ Contents \in Seq(Byte) /\ Len(Contents) = Length /\ Length \in 0..Cap
      /\ Cap \in Nat \ {0} /\ head \in 0..Wrap-1
  BY ContentsType, Constants DEF TypeOK
<1>3. SubSeq(Contents, m + 1, Len(Contents))
        = [k \in 1..(Length - m) |-> Contents[k + m]]
  BY <1>1, <1>2
<1>4. Contents' = [k \in 1..(Length - m) |-> buf[Masked((head' + k - 1) % Wrap)]]
  BY <1>1 DEF Contents, Advance
<1>5. ASSUME NEW k \in 1..(Length - m)
      PROVE  buf[Masked((head' + k - 1) % Wrap)] = Contents[k + m]
  <2>1. k - 1 \in 0..Cap /\ k + m \in 1..Length /\ (k + m) - 1 \in 0..Cap
        /\ head' + k - 1 = head' + (k - 1)
    BY <1>1, <1>2
  <2>2. Masked((head' + k - 1) % Wrap) = Around(Masked(head'), k - 1)
    BY <1>1, <2>1, MaskWrapped
  <2>3. Masked(head') = Around(Masked(head), m)
    BY <1>1, <1>2, MaskWrapped
  <2>4. Contents[k + m] = buf[Around(Masked(head), (k + m) - 1)]
    BY <2>1, ContentsType
  <2>5. Masked(head) \in Slots
    BY TailSlot
  <2>6. Around(Around(Masked(head), m), k - 1) = Around(Masked(head), (k + m) - 1)
    BY <1>1, <1>2, <2>1, <2>5 DEF Around, Slots
  <2> QED
    BY <2>2, <2>3, <2>4, <2>6
<1> QED
  BY <1>1, <1>3, <1>4, <1>5 DEF m

\* The ring implements a bounded FIFO: see RefinesQueue.
THEOREM Refinement == Spec => RefinesQueue
<1>1. Init => Queue!Init
  <2> SUFFICES ASSUME Init PROVE Contents = << >>
    BY DEF Queue!Init
  <2>1. (0 - 0) % Wrap = 0
    BY Constants, ModSmall
  <2> QED
    BY <2>1 DEF Init, Contents, Length
<1>2. TypeOK /\ [Next]_ring => [Queue!Next]_Contents
  <2> SUFFICES ASSUME TypeOK, [Next]_ring PROVE [Queue!Next]_Contents
    OBVIOUS
  <2>1. ASSUME NEW b \in Chunks, Write(b) PROVE Queue!Next
    <3>1. b \in Seq(Byte)
      BY RingAssumption DEF RingAssumption
    <3>2. Contents' = Contents \o b /\ Len(Contents) + Len(b) <= Cap
      BY <2>1, <3>1, WriteAppends
    <3> QED
      BY <3>2 DEF Queue!Next, Queue!Put
  <2>2. ASSUME NEW n \in Steps, Advance(n) PROVE [Queue!Next]_Contents
    <3> DEFINE m == Smaller(n, Length)
    <3>1. n \in Int
      BY RingAssumption DEF RingAssumption
    <3>2. /\ m \in 0..Length
          /\ Contents' = SubSeq(Contents, m + 1, Len(Contents))
      BY <2>2, <3>1, AdvanceDrops
    <3>3. /\ Contents \in Seq(Byte) /\ Len(Contents) = Length
          /\ Length \in 0..Cap /\ Cap \in Nat
      BY ContentsType, Constants
    <3> HIDE DEF m
    <3>4. CASE m = 0
      <4>1. Contents' = SubSeq(Contents, 1, Len(Contents))
        BY <3>2, <3>4
      <4>2. SubSeq(Contents, 1, Len(Contents)) = Contents
        BY <3>3
      <4> QED
        BY <4>1, <4>2
    <3>5. CASE m # 0
      <4>1. m \in 1..Len(Contents)
        BY <3>2, <3>3, <3>5
      <4> QED
        BY <3>2, <4>1 DEF Queue!Next, Queue!Take
    <3> QED
      BY <3>4, <3>5
  <2>3. CASE UNCHANGED ring
    BY <2>3 DEF Contents, Length, ring
  <2> QED
    BY <2>1, <2>2, <2>3 DEF Next
<1> QED
  BY <1>1, <1>2, TypeCorrect, PTL DEF Spec, RefinesQueue, Queue!Spec

-----------------------------------------------------------------------------
(* What readers are handed. *)

\* Two slices that meet at the end of the array are one run of slots.
LEMMA TwoSlices ==
  ASSUME TypeOK, NEW i \in Slots, NEW n \in 0..Cap, NEW n1 \in 0..n,
         n1 = n \/ i + n1 = Cap, i + n1 <= Cap
  PROVE  Sub(i, n1) \o Sub(0, n - n1) = [k \in 1..n |-> buf[Around(i, k - 1)]]
<1>1. Cap \in Nat \ {0} /\ buf \in [Slots -> Byte] /\ i \in 0..Cap-1
  BY Constants DEF TypeOK, Slots
<1>2. \A k \in 1..n1 : i + k - 1 \in Slots
  BY <1>1 DEF Slots
<1>3. \A k \in 1..(n - n1) : 0 + k - 1 \in Slots
  BY <1>1 DEF Slots
<1>4. Sub(i, n1) \in [1..n1 -> Byte] /\ Sub(0, n - n1) \in [1..(n - n1) -> Byte]
  BY <1>1, <1>2, <1>3 DEF Sub
<1>5. /\ Sub(i, n1) \in Seq(Byte) /\ Len(Sub(i, n1)) = n1
      /\ Sub(0, n - n1) \in Seq(Byte) /\ Len(Sub(0, n - n1)) = n - n1
  BY <1>1, <1>4
<1>6. ASSUME NEW k \in 1..n
      PROVE  (Sub(i, n1) \o Sub(0, n - n1))[k] = buf[Around(i, k - 1)]
  <2>1. CASE k <= n1
    <3>1. i + k - 1 = Around(i, k - 1)
      BY <1>1, <2>1 DEF Around
    <3>2. (Sub(i, n1) \o Sub(0, n - n1))[k] = Sub(i, n1)[k]
      BY <1>1, <1>5, <2>1
    <3> QED
      BY <1>1, <2>1, <3>1, <3>2 DEF Sub
  <2>2. CASE k > n1
    <3>1. i + n1 = Cap /\ k - n1 \in 1..(n - n1)
      BY <1>1, <2>2
    <3>2. 0 + (k - n1) - 1 = Around(i, k - 1)
      BY <1>1, <2>2, <3>1 DEF Around
    <3>3. (Sub(i, n1) \o Sub(0, n - n1))[k] = Sub(0, n - n1)[k - n1]
      BY <1>1, <1>5, <2>2
    <3> QED
      BY <1>1, <3>1, <3>2, <3>3 DEF Sub
  <2>3. k <= n1 \/ k > n1
    BY <1>1
  <2> QED
    BY <2>1, <2>2, <2>3
<1>7. /\ Sub(i, n1) \o Sub(0, n - n1) \in Seq(Byte)
      /\ Len(Sub(i, n1) \o Sub(0, n - n1)) = n
  BY <1>1, <1>5
<1>8. Sub(i, n1) \o Sub(0, n - n1)
        = [k \in 1..n |-> (Sub(i, n1) \o Sub(0, n - n1))[k]]
  BY <1>7
<1> QED
  BY <1>6, <1>8

\* Any run of slots starting off places after head is that part of the
\* contents.
LEMMA PartOfContents ==
  ASSUME TypeOK, NEW off \in 0..Length, NEW n \in 0..(Length - off)
  PROVE  [k \in 1..n |-> buf[Around(Around(Masked(head), off), k - 1)]]
           = SubSeq(Contents, off + 1, off + n)
<1>1. /\ Contents \in Seq(Byte) /\ Len(Contents) = Length /\ Length \in 0..Cap
      /\ Cap \in Nat \ {0} /\ Masked(head) \in Slots
  BY ContentsType, Constants, TailSlot
<1>2. SubSeq(Contents, off + 1, off + n) = [k \in 1..n |-> Contents[k + off]]
  BY <1>1
<1>3. ASSUME NEW k \in 1..n
      PROVE  buf[Around(Around(Masked(head), off), k - 1)] = Contents[k + off]
  <2>1. k + off \in 1..Length
    BY <1>1
  <2>2. Contents[k + off] = buf[Around(Masked(head), (k + off) - 1)]
    BY <2>1, ContentsType
  <2>3. Around(Around(Masked(head), off), k - 1) = Around(Masked(head), (k + off) - 1)
    BY <1>1, <2>1 DEF Around, Slots
  <2> QED
    BY <2>2, <2>3
<1> QED
  BY <1>2, <1>3

\* The two slices of View, joined, are the run of n slots from i on.
LEMMA HalvesJoined ==
  ASSUME TypeOK, NEW i \in Slots, NEW n \in 0..Cap
  PROVE  Halves(i, n)[1] \o Halves(i, n)[2] = [k \in 1..n |-> buf[Around(i, k - 1)]]
<1>1. Cap \in Nat \ {0} /\ i \in 0..Cap-1 /\ buf \in [Slots -> Byte]
  BY Constants DEF Slots, TypeOK
<1>2. CASE i + n <= Cap
  <2>1. Sub(i, n) \o Sub(0, n - n) = [k \in 1..n |-> buf[Around(i, k - 1)]]
    <3> DEFINE m == n
    <3>1. m \in 0..n /\ m = n /\ i + m <= Cap
      BY <1>1, <1>2
    <3> HIDE DEF m
    <3>2. Sub(i, m) \o Sub(0, n - m) = [k \in 1..n |-> buf[Around(i, k - 1)]]
      BY <3>1, TwoSlices
    <3> QED
      BY <3>2 DEF m
  <2>2. Sub(0, n - n) = << >>
    BY <1>1 DEF Sub
  <2> QED
    BY <1>2, <2>1, <2>2 DEF Halves
<1>3. CASE ~(i + n <= Cap)
  <2> DEFINE m == Cap - i
  <2>1. m \in 0..n /\ i + m = Cap /\ i + m <= Cap
    BY <1>1, <1>3
  <2> HIDE DEF m
  <2>2. Sub(i, m) \o Sub(0, n - m) = [k \in 1..n |-> buf[Around(i, k - 1)]]
    BY <2>1, TwoSlices
  <2> QED
    BY <1>3, <2>2 DEF Halves, m
<1> QED
  BY <1>2, <1>3

\* Readers are handed exactly the bytes they ask for: see ViewsAgree.
THEOREM ReadsCorrect == Spec => []ViewsAgree
<1>1. TypeOK => ViewsAgree
  <2> SUFFICES ASSUME TypeOK PROVE ViewsAgree
    OBVIOUS
  <2>1. /\ Length \in 0..Cap /\ Cap \in Nat \ {0} /\ Masked(head) \in Slots
        /\ head \in 0..Wrap-1
    BY LengthRange, Constants, TailSlot DEF TypeOK
  <2>2. Around(Masked(head), 0) = Masked(head)
    BY <2>1 DEF Around, Slots
  <2>3. ASSUME NEW n \in 0..Length
        PROVE  /\ Peek(n) = SubSeq(Contents, 1, n)
               /\ View(n)[1] \o View(n)[2] = SubSeq(Contents, 1, n)
    <3>1. [k \in 1..n |-> buf[Around(Masked(head), k - 1)]] = SubSeq(Contents, 1, n)
      <4>1. 0 \in 0..Length /\ n \in 0..(Length - 0) /\ 0 + n = n /\ 0 + 1 = 1
        BY <2>1
      <4> QED
        BY <2>2, <4>1, PartOfContents
    <3>2. n \in 0..Cap
      BY <2>1
    <3>3. Peek(n) = [k \in 1..n |-> buf[Around(Masked(head), k - 1)]]
      <4> DEFINE n1 == Smaller(n, Cap - Masked(head))
      <4>1. /\ n1 \in 0..n /\ Masked(head) + n1 <= Cap
            /\ n1 = n \/ Masked(head) + n1 = Cap
        BY <2>1, <3>2 DEF Smaller, Slots
      <4> HIDE DEF n1
      <4>2. Sub(Masked(head), n1) \o Sub(0, n - n1)
              = [k \in 1..n |-> buf[Around(Masked(head), k - 1)]]
        BY <2>1, <3>2, <4>1, TwoSlices
      <4>3. Copies(Masked(head), n) = Sub(Masked(head), n1) \o Sub(0, n - n1)
        BY DEF Copies, n1
      <4>4. Peek(n) = Copies(Masked(head), n)
        BY <2>1 DEF Peek
      <4> QED
        BY <4>2, <4>3, <4>4
    <3>4. View(n)[1] \o View(n)[2] = [k \in 1..n |-> buf[Around(Masked(head), k - 1)]]
      <4>1. ~(n > Length)
        BY <2>1
      <4> QED
        BY <2>1, <3>2, <4>1, HalvesJoined DEF View
    <3> QED
      BY <3>1, <3>3, <3>4
  <2>4. ASSUME NEW off \in 0..Length, NEW n \in 0..(Length - off)
        PROVE  ViewFrom(off, n)[1] \o ViewFrom(off, n)[2]
                 = SubSeq(Contents, off + 1, off + n)
    <3>1. n \in 0..Cap /\ off \in 0..Cap
      BY <2>1
    <3>2. Masked((head + off) % Wrap) = Around(Masked(head), off)
      BY <2>1, <3>1, MaskWrapped
    <3>3. Around(Masked(head), off) \in Slots
      BY <2>1, <3>1 DEF Around, Slots
    <3>4. ViewFrom(off, n)[1] \o ViewFrom(off, n)[2]
            = [k \in 1..n |-> buf[Around(Around(Masked(head), off), k - 1)]]
      <4>1. ~(off + n > Length)
        BY <2>1
      <4> QED
        BY <3>1, <3>2, <3>3, <4>1, HalvesJoined DEF ViewFrom
    <3> QED
      BY <3>4, PartOfContents
  <2> QED
    BY <2>3, <2>4 DEF ViewsAgree
<1> QED
  BY <1>1, TypeCorrect, PTL
=============================================================================
