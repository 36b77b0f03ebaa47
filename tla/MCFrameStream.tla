--------------------------- MODULE MCFrameStream ---------------------------
(* Two streams: in one a payload holds a magic byte, an empty frame follows, *)
(* and a frame is cut; in the other two frames fit in a ring and what        *)
(* Marshal makes of an empty payload follows.  A read may bring more than a  *)
(* RingReader holds, as 20 KiB do in the code.                               *)
EXTENDS FrameStream

MCConns == {"a", "b"}
MCStream == [c \in MCConns |->
               IF c = "a" THEN <<Magic, 1, Magic, Magic, 0, Magic, 1>>
                          ELSE <<Magic, 0, Magic, 0>> \o Marshal(<< >>)]
=============================================================================
