----------------------------- MODULE IoService -----------------------------
(***************************************************************************)
(* What every io_v2 component of models/interco promises to the master in  *)
(* front of it, whatever it does behind its back (split, delay, arbitrate, *)
(* cross a clock domain).  The abstract state is what the master can see   *)
(* of each of its request objects, and which bytes are still to be served: *)
(*                                                                         *)
(*   - an accepted request is served one set of bytes at a time, no byte   *)
(*     twice, and is answered exactly once, when its last byte is served;  *)
(*   - the answer is INVALID exactly when the access to a byte failed;     *)
(*   - a denied request is never served nor answered, and its master       *)
(*     re-issues it from inside retry() and nowhere else;                  *)
(*   - a request is dropped by a reset of the whole platform alone: each   *)
(*     step of the component is one of Serving, unless it is its reset.    *)
(*                                                                         *)
(* The io_v2 protocol itself (vp/itf/io_v2.hpp) belongs to the simulation  *)
(* engine: this module states it as the code under models/ uses it.        *)
(***************************************************************************)
EXTENDS Integers

CONSTANTS Reqs,   \* the master's request objects
          Size,   \* Size[r]: the bytes r asks for
          Bad     \* Bad[r]: the bytes of r whose access is invalid

VARIABLES st,     \* st[r]: what the master knows of r
          todo,   \* todo[r]: the bytes (offsets) of r not served yet
          status  \* status[r]: the status r is answered with

vars == <<st, todo, status>>

States == {"idle", "denied", "retrying", "granted"}

TypeOK ==
    /\ st \in [Reqs -> States]
    /\ todo \in [Reqs -> SUBSET Int]
    /\ status \in [Reqs -> {"OK", "INVALID"}]

Init ==
    /\ st = [r \in Reqs |-> "idle"]
    /\ todo = [r \in Reqs |-> {}]
    /\ status = [r \in Reqs |-> "OK"]

Accept(r) ==
    /\ st[r] \in {"idle", "retrying"}
    /\ st' = [st EXCEPT ![r] = "granted"]
    /\ todo' = [todo EXCEPT ![r] = 0 .. (Size[r] - 1)]
    /\ status' = [status EXCEPT ![r] = "OK"]

Deny(r) ==
    /\ st[r] \in {"idle", "retrying"}
    /\ st' = [st EXCEPT ![r] = "denied"]
    /\ UNCHANGED <<todo, status>>

(* The bytes S of r are served; the access fails when one of them is bad.  *)
Serve(r, S) ==
    /\ st[r] = "granted"
    /\ S # {} /\ S \subseteq todo[r]
    /\ todo' = [todo EXCEPT ![r] = @ \ S]
    /\ status' = IF S \cap Bad[r] # {} THEN [status EXCEPT ![r] = "INVALID"] ELSE status
    /\ UNCHANGED st

Answer(r) ==
    /\ st[r] = "granted"
    /\ todo[r] = {}
    /\ st' = [st EXCEPT ![r] = "idle"]
    /\ UNCHANGED <<todo, status>>

Retry ==
    /\ st' = [r \in Reqs |-> IF st[r] = "denied" THEN "retrying" ELSE st[r]]
    /\ UNCHANGED <<todo, status>>

Reset ==
    /\ st' = [r \in Reqs |-> "idle"]
    /\ todo' = [r \in Reqs |-> {}]
    /\ UNCHANGED status

(* An empty request is accepted and answered in one step.                  *)
DoneEmpty(r) ==
    /\ st[r] \in {"idle", "retrying"} /\ Size[r] = 0
    /\ st' = [st EXCEPT ![r] = "idle"]
    /\ status' = [status EXCEPT ![r] = "OK"]
    /\ UNCHANGED todo

Serving ==
    \/ \E r \in Reqs : Accept(r) \/ Deny(r) \/ Answer(r) \/ DoneEmpty(r)
    \/ \E r \in Reqs : \E S \in SUBSET todo[r] : Serve(r, S)
    \/ Retry

Next == Serving \/ Reset

Spec == Init /\ [][Next]_vars
=============================================================================
