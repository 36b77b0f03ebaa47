--------------------------- MODULE NewRingBuffer ----------------------------
(***************************************************************************)
(* A ring from its construction on: NewRingBuffer of core/buffer/ring.go   *)
(* computes the capacity for the size asked for (RingSizing), and the ring *)
(* is used once it is there (ByteRing).  Every size is asked for; a ring   *)
(* is then used if its capacity is the Cap that ByteRing is about.         *)
(***************************************************************************)
EXTENDS ByteRing, RingSizing

NewRingInit == Init /\ SizingInit

\* nextPow2 is still at work; the array does not exist yet.
Sizing == Smear /\ UNCHANGED ring

Use == Done /\ Capacity = Cap /\ Next /\ UNCHANGED sizing

NewRingNext == Sizing \/ Use

NewRingSpec == NewRingInit /\ [][NewRingNext]_<<ring, sizing>>
=============================================================================
