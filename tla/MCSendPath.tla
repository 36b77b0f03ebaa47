----------------------------- MODULE MCSendPath -----------------------------
(* A ring of 2 bytes, fed 5 in chunks of 1 and 2: it fills, goes around and  *)
(* is reused while writes are outstanding.  The one response is as long as   *)
(* the ring, so that its completion can take queuedByte down to -2.          *)
EXTENDS SendPath

MCSizes == {1, 2}
MCAnswers == {2}
=============================================================================
