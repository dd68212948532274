----------------------------- MODULE MCLimiter -----------------------------
(* Two requests of 1 and 5 bytes through a limiter of 2 bytes per cycle:   *)
(* a single chunk, and three with a short last one that fails.             *)
EXTENDS Limiter, TLC

CONSTANTS r1, r2

MCSize == (r1 :> 1) @@ (r2 :> 5)
MCBad  == (r1 :> {}) @@ (r2 :> {3})
=============================================================================
