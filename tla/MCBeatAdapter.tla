--------------------------- MODULE MCBeatAdapter ---------------------------
(* A request of three beats, the last of them short, next to one of a      *)
(* single beat.  Chunks are whole beats.  One latency is too short for the *)
(* beats, the other spaces them out, two cycles apart.                     *)
EXTENDS BeatAdapter

MCSize == [r1 |-> 5, r2 |-> 1]
=============================================================================
