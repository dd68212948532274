----------------------------- MODULE MCSplitter -----------------------------
(* A 4-byte input over two 2-byte outputs.  r1 is a misaligned burst of    *)
(* three phases (1 + 4 + 2 bytes), with an error in the second; r2 fits    *)
(* one phase with a misaligned first chunk; r3 is empty.                   *)
EXTENDS Splitter, TLC

CONSTANTS r1, r2, r3

MCAddr == (r1 :> 3) @@ (r2 :> 1) @@ (r3 :> 0)
MCSize == (r1 :> 7) @@ (r2 :> 3) @@ (r3 :> 0)
MCBad  == (r1 :> {2}) @@ (r2 :> {}) @@ (r3 :> {})
=============================================================================
