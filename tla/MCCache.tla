------------------------------ MODULE MCCache ------------------------------
(* A cache of one set of one or two ways, and three requests, two of them  *)
(* to the same line: each refill evicts or fetches what another waits for. *)
(* All requests carry data.                                                *)
EXTENDS Cache, CacheLru, TLC

CONSTANTS r1, r2, r3

MCTag == (r1 :> 0) @@ (r2 :> 1) @@ (r3 :> 1)

(* cache_v4.py:88 "Replacement on full sets uses a pseudo-random 8-bit     *)
(* LFSR": step_lru goes through all the states but the one it would be     *)
(* stuck in, and so refill replaces every way of this platform, and of     *)
(* larger ones, about equally often.                                       *)
EveryWayReplaced ==
    /\ States = 0 .. 254
    /\ \A n \in {k \in DOMAIN Picks : k >= ways} : \A w \in DOMAIN Picks[n] :
         Picks[n][w] \in {255 \div n, 255 \div n + 1}
=============================================================================
