---------------------------- MODULE MCRouterBeat ----------------------------
(* Two inputs, one output.  The first input writes a burst of two beats    *)
(* and reads; the second writes to the same output, and starts a burst of  *)
(* two beats that decodes to nothing.  Two slots, so that two bursts of    *)
(* one input keep the other out.                                           *)
EXTENDS RouterBeat, TLC

CONSTANTS w1, r1, x1, e1, p1, q1, o1

MCIn      == (w1 :> 0) @@ (r1 :> 0) @@ (x1 :> 1) @@ (e1 :> 1)
MCDest    == (w1 :> o1) @@ (r1 :> o1) @@ (x1 :> o1) @@ (e1 :> Invalid)
MCWrite   == (w1 :> TRUE) @@ (r1 :> FALSE) @@ (x1 :> TRUE) @@ (e1 :> TRUE)
MCNbBeats == (w1 :> 2) @@ (r1 :> 1) @@ (x1 :> 1) @@ (e1 :> 2)
MCSize    == (w1 :> 1) @@ (r1 :> 2) @@ (x1 :> 1) @@ (e1 :> 1)
MCCmds    == {<<o1, TRUE>>, <<Invalid, TRUE>>}

(* A single beat and a burst of two by the first input, and another burst  *)
(* of two by the second.                                                   *)
PairIn      == (p1 :> 0) @@ (w1 :> 0) @@ (q1 :> 1)
PairNbBeats == (p1 :> 1) @@ (w1 :> 2) @@ (q1 :> 2)
PairDest    == [b \in {p1, w1, q1} |-> o1]
PairWrite   == [b \in {p1, w1, q1} |-> TRUE]
PairSize    == [b \in {p1, w1, q1} |-> 1]
=============================================================================
