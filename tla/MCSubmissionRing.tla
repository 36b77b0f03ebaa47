-------------------------- MODULE MCSubmissionRing --------------------------
(* The two goroutines that submit: Serve, and the one that asks the engine  *)
(* to close, which submits once.                                            *)
EXTENDS SubmissionRing

CONSTANTS serve, closer

MCSubmitters == {serve, closer}
MCServeAlone == {serve}

\* Serve outlives two turns of the ring of 4 and one wrap of the counters at 8.
MCOps == [p \in {serve, closer} |-> IF p = serve THEN 9 ELSE 1]
MCServeOps == [p \in {serve} |-> 6]
=============================================================================
