------------------------ MODULE MCRouterBackpressure ------------------------
(* Two inputs and two loads.  Input 0 has two requests to one output and   *)
(* so meets the one-pending rule, while input 1 uses the other output; and *)
(* proxy commands compete with a master, while requests and commands that  *)
(* decode to nothing come in between.  A burst of a takes two cycles, so   *)
(* that what follows it is delayed; the second output has a latency of its *)
(* own.  The address x1 is translated to one that decodes to the other     *)
(* output, and that one to one that decodes to nothing.                    *)
EXTENDS RouterBackpressure

CONSTANTS a, b, c, e, o1, o2, x1, x2, x3

MCIn   == [r \in Reqs |-> IF r \in {a, b} THEN 0 ELSE 1]
MCDur  == [r \in Reqs |-> IF r = a THEN 2 ELSE 1]
MCAddress    == [r \in Reqs |-> CASE r \in {a, b} -> x1 [] r = c -> x2 [] r = e -> x3]
MCDest       == [x \in Addrs |-> CASE x = x1 -> o1 [] x = x2 -> o2 [] x = x3 -> Invalid]
MCTranslated == [x \in Addrs |-> IF x = x1 THEN x2 ELSE x3]
MCMappingLatency == [o \in Outputs |-> IF o = o2 THEN 1 ELSE 0]

MCLoads == {[reqs |-> {a, b, c}, dests |-> {}],
            [reqs |-> {a, e}, dests |-> {o1, Invalid}]}

(* One master with two requests.                                           *)
RetryLoads == {[reqs |-> {a, b}, dests |-> {}]}
=============================================================================
