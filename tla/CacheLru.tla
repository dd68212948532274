------------------------------ MODULE CacheLru ------------------------------
(***************************************************************************)
(* The replacement policy of models/cache/cache_v4.cpp: an 8-bit linear    *)
(* feedback shift register, whose bits above the lowest pick the way.      *)
(***************************************************************************)
EXTENDS Integers, FiniteSets, Bitwise

bit(x, n) == (x \div 2 ^ n) % 2

(* A slip: a tap is missing.                                               *)
SlipFeedback(x) == (1 + bit(x, 7) + bit(x, 3) + bit(x, 2)) % 2

(* The negated parity of four taps.                                        *)
Feedback(x) == (1 + bit(x, 7) + bit(x, 3) + bit(x, 2) + bit(x, 1)) % 2

step_lru == [x \in 0 .. 255 |-> (2 * x + Feedback(x)) % 2 ^ 8]

(* What step_lru returns for the new state x, and what refill makes of it. *)
refill_way(x, nb_ways) == ((x \div 2) & (nb_ways - 1)) % nb_ways

(* 2^k refills, and the states of the register in the first 2^k refills;   *)
(* reset leaves the register alone.                                        *)
steps[k \in 0 .. 8] ==
    IF k = 0 THEN step_lru ELSE [x \in 0 .. 255 |-> steps[k - 1][steps[k - 1][x]]]

lru_out[k \in 0 .. 8] ==
    IF k = 0 THEN {0} ELSE lru_out[k - 1] \cup {steps[k - 1][x] : x \in lru_out[k - 1]}

(* The states after any number of refills, and in how many of them a cache *)
(* of n ways replaces way w.                                               *)
States == lru_out[8]

Picks == [n \in {1, 2, 4, 8} |->
            [w \in 0 .. (n - 1) |-> Cardinality({x \in States : refill_way(x, n) = w})]]
=============================================================================
