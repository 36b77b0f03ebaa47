-------------------------- MODULE MCNetworkServer --------------------------
(* Two connections and a single provided buffer: reads run out of buffers,   *)
(* completions of both connections share a batch, and the accept, a cancel   *)
(* and ticks of the shutdown timeout come in between.                        *)
EXTENDS NetworkServer

MCFds == {5, 6}
MCNoQueue == << >>
\* make([]int32, maxConnections): zeros, of which one is enough.
MCZeros == <<0>>
=============================================================================
