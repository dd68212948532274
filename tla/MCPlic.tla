------------------------------- MODULE MCPlic -------------------------------
(* Four devices, and a bit vector that has room for a fifth, for the two   *)
(* modes of one hart.                                                      *)
EXTENDS Plic

MCContexts == {0, 1}

(* Each source is enabled in one mode only.                                *)
Apart == [c \in MCContexts |-> IF c = 0 THEN {0, 1, 2, 3} ELSE {4, 5}]

(* The modes share the second source.                                      *)
Shared == [c \in MCContexts |-> IF c = 0 THEN {1, 2} ELSE {2, 3}]
=============================================================================
