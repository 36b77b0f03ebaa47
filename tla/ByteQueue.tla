----------------------------- MODULE ByteQueue -----------------------------
(***************************************************************************)
(* What a byte ring promises its users: a FIFO of at most Cap bytes.       *)
(* Bytes enter at the back, whole chunks at a time, and leave from the     *)
(* front.  ByteRing is shown to implement this specification.              *)
(***************************************************************************)
EXTENDS Integers, Sequences

CONSTANTS Byte,     \* the values a byte takes
          Cap,      \* how many bytes the queue holds
          Chunks    \* the byte strings a user may append

VARIABLE q

Init == q = << >>

\* A chunk is accepted whole, and only if it fits.
Put(b) == /\ Len(q) + Len(b) <= Cap
          /\ q' = q \o b

\* The n oldest bytes leave.
Take(n) == q' = SubSeq(q, n + 1, Len(q))

Next == \/ \E b \in Chunks : Put(b)
        \/ \E n \in 1..Len(q) : Take(n)

Spec == Init /\ [][Next]_q
=============================================================================
