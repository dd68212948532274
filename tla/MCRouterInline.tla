--------------------------- MODULE MCRouterInline ---------------------------
(* Two inputs and two outputs.  The first input has a request to each      *)
(* output, so that one can wait behind the other; the second competes with *)
(* it for the first output, and issues a request that decodes to nothing.  *)
EXTENDS RouterInline, TLC

CONSTANTS a, b, c, e, o1, o2

MCIn   == (a :> 0) @@ (b :> 0) @@ (c :> 1) @@ (e :> 1)
MCDest == (a :> o1) @@ (b :> o2) @@ (c :> o1) @@ (e :> Invalid)
=============================================================================
