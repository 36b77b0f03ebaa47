------------------------------ MODULE ByteRing ------------------------------
(***************************************************************************)
(* The byte ring of core/buffer/ring.go that every peer owns twice: behind *)
(* RingReader (bytes received, not yet parsed) and behind RingWriter       *)
(* (bytes to send).  head and tail are free-running uint64 counters; a     *)
(* counter indexes buf after "& mask", that is, modulo the capacity, which *)
(* NewRingBuffer makes a power of two (module RingSizing).                 *)
(***************************************************************************)
EXTENDS Integers, Sequences

CONSTANTS Byte,     \* the values a byte takes
          Cap,      \* len(buf)
          Wrap,     \* the counters' modulus: 2^64 in the code
          Chunks,   \* the byte strings users write
          Steps     \* the arguments users pass to Advance

\* The capacity divides the modulus of the counters, and a full ring is
\* distinguishable from an empty one.
RingAssumption ==
  /\ Cap \in Nat \ {0}
  /\ Wrap \in Nat
  /\ \E m \in 2..Wrap : Wrap = Cap * m
  /\ 0 \in Byte
  /\ \A b \in Chunks : b \in Seq(Byte)
  /\ \A n \in Steps : n \in Int

ASSUME RingAssumption

VARIABLES buf,      \* the backing array
          head,     \* counter of the oldest byte
          tail      \* counter of the next byte to write

ring == <<buf, head, tail>>

Slots == 0..Cap-1

Smaller(x, y) == IF x < y THEN x ELSE y

-----------------------------------------------------------------------------
Length == (tail - head) % Wrap

Free == Cap - Length

\* x & mask
Masked(x) == x % Cap

\* The two copies of Write: up to the end of the array, then from slot 0.
Stored(i, b) ==
  LET n1 == Smaller(Cap - i, Len(b)) IN
  [s \in Slots |-> IF s \in i..(i + n1 - 1) THEN b[s - i + 1]
                   ELSE IF s < Len(b) - n1 THEN b[s + n1 + 1]
                   ELSE buf[s]]

\* Mutant: admits a chunk by the capacity instead of the free space.
WriteUnchecked(b) ==
  /\ Len(b) <= Cap
  /\ buf' = Stored(Masked(tail), b)
  /\ tail' = (tail + Len(b)) % Wrap
  /\ UNCHANGED head

\* Write: all or nothing.  A chunk that does not fit is refused with
\* ErrBufferFull, which changes nothing.
Write(b) ==
  /\ Len(b) <= Free
  /\ buf' = Stored(Masked(tail), b)
  /\ tail' = (tail + Len(b)) % Wrap
  /\ UNCHANGED head

\* Mutant: trusts the caller's n.
AdvanceUnclamped(n) ==
  /\ n > 0
  /\ head' = (head + n) % Wrap
  /\ UNCHANGED <<buf, tail>>

\* Advance: non-positive n is ignored, an n beyond Length is cut to it.
Advance(n) ==
  /\ n > 0
  /\ head' = (head + Smaller(n, Length)) % Wrap
  /\ UNCHANGED <<buf, tail>>

-----------------------------------------------------------------------------
(* Reading: what the code hands out.                                       *)

\* More is asked for than the ring holds.
Refused == << >>

\* r.buf[i : i+n]
Sub(i, n) == [k \in 1..n |-> buf[i + k - 1]]

\* The two copies of Peek.
Copies(i, n) ==
  LET n1 == Smaller(n, Cap - i) IN Sub(i, n1) \o Sub(0, n - n1)

Peek(n) == IF n > Length THEN Refused ELSE Copies(Masked(head), n)

\* Mutant: one slice, as if the bytes never went around the array.
HalvesUnwrapped(i, n) == <<Sub(i, Smaller(n, Cap - i)), << >>>>

\* View and ViewFrom return the bytes in place, as two slices of buf.
Halves(i, n) ==
  IF i + n <= Cap THEN <<Sub(i, n), << >> >>
                  ELSE <<Sub(i, Cap - i), Sub(0, n - (Cap - i))>>

View(n) == IF n > Length THEN Refused ELSE Halves(Masked(head), n)

ViewFrom(offset, n) ==
  IF offset + n > Length THEN Refused ELSE Halves(Masked((head + offset) % Wrap), n)

-----------------------------------------------------------------------------
Init == /\ buf = [s \in Slots |-> 0]
        /\ head = 0
        /\ tail = 0

Next == \/ \E b \in Chunks : Write(b)
        \/ \E n \in Steps : Advance(n)

Spec == Init /\ [][Next]_ring

-----------------------------------------------------------------------------
\* Type invariant: the counters stay in range and never more than Cap apart.
TypeOK == /\ buf \in [Slots -> Byte]
          /\ head \in 0..Wrap-1
          /\ tail \in 0..Wrap-1
          /\ Length <= Cap

\* The bytes in the ring, oldest first.
Contents == [k \in 1..Length |-> buf[Masked((head + k - 1) % Wrap)]]

\* However the bytes lie across the end of the array, Peek, View and ViewFrom
\* hand out exactly the bytes asked for, in order (ring.go: Peek, View,
\* ViewFrom and the wrap-around they share).
ViewsAgree ==
  /\ \A n \in 0..Length :
       /\ Peek(n) = SubSeq(Contents, 1, n)
       /\ View(n)[1] \o View(n)[2] = SubSeq(Contents, 1, n)
  /\ \A off \in 0..Length : \A n \in 0..(Length - off) :
       ViewFrom(off, n)[1] \o ViewFrom(off, n)[2]
         = SubSeq(Contents, off + 1, off + n)

\* The ring implements a bounded FIFO of bytes: a write appends its chunk, an
\* advance drops the oldest bytes, and neither touches the others, across the
\* wrap of the array and of the counters.
Queue == INSTANCE ByteQueue WITH q <- Contents
RefinesQueue == Queue!Spec
=============================================================================
