-------------------------- MODULE MCCompletionRing --------------------------
(* A ring of 3 entries whose counters wrap at 6, and 8 completions: the ring *)
(* fills, goes around, and the counters wrap.                                *)
EXTENDS CompletionRing
=============================================================================
