--------------------------- MODULE MCClockBridge ---------------------------
(* Three requests over a bridge of depth two, with the delays of the       *)
(* repository's two-phase and gray-FIFO bridges: k_src = 1, k_dst = 2.     *)
EXTENDS ClockBridge
=============================================================================
