----------------------------- MODULE MCByteRing -----------------------------
(* Every 8-bit size; rings of 4 slots whose counters wrap at 12, over two    *)
(* byte values.                                                              *)
EXTENDS NewRingBuffer

MCByte == {0, 1}
\* Every chunk up to one byte longer than the ring.
MCChunks == UNION {[1..k -> MCByte] : k \in 1..5}
\* Negative (a failed completion), zero, legal and excessive advances.
MCSteps == -1..6
=============================================================================
