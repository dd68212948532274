---------------------------- MODULE PassThrough ----------------------------
(***************************************************************************)
(* The io_v2 components that forward every request inline and keep one     *)
(* latch: the address demultiplexer models/interco/demux_v2.cpp, the       *)
(* read/write splitter models/interco/rw_splitter_v2.cpp and the address   *)
(* remapper models/interco/remapper_v2.cpp.  They differ in the output     *)
(* they pick and in the address they send on; kind, chosen at the start,   *)
(* is the one at hand.                                                     *)
(*                                                                         *)
(* The remapper has one output, 0, and its input_needs_retry is the latch: *)
(* TRUE when this holds 0.  It rewrites the address in the request object, *)
(* so what it leaves there is what the master sends again after a denial.  *)
(* Addresses are unsigned integers of Width bits; the window and its       *)
(* target end below the top (remapper_v2.py says that others are silently  *)
(* wrong).                                                                 *)
(*                                                                         *)
(* The master is that of the repository's tests: it writes the address of  *)
(* a request when it first issues it, goes on issuing while requests of    *)
(* its are denied, keeps these in a queue, and in retry() re-issues them   *)
(* in order until one is denied again.  So several requests can be denied  *)
(* by different outputs while one output is remembered.  A slave that      *)
(* denied owes a retry() and denies until it makes it; it may also call    *)
(* retry() when it owes none, as the routers do.                           *)
(***************************************************************************)
EXTENDS Integers, Sequences, SequencesExt

CONSTANTS Reqs,
          IsWrite,                   \* the requests that are writes
          Kinds,                     \* "demux", "rw_splitter", "remapper"
          Addrs,                     \* the addresses masters use
          Width,                     \* of an address; 64 in the code
          offset, width,             \* of the demultiplexer
          base, size, target_base    \* of the remapper

ASSUME PassThroughAssumption ==
    /\ Kinds \subseteq {"demux", "rw_splitter", "remapper"}
    /\ IsWrite \subseteq Reqs /\ Width \in Nat /\ offset \in Nat /\ width \in Nat \ {0}
    /\ Addrs \subseteq 0 .. (2 ^ Width - 1)
    /\ base \in Nat /\ size \in Nat /\ target_base \in Nat
    /\ base + size < 2 ^ Width /\ target_base + size < 2 ^ Width

(* The provers do not know this of powers.                                 *)
ASSUME PowersPositive == 2 ^ offset > 0 /\ 2 ^ width > 1

VARIABLES
    kind,
    denied_output,   \* the output that denied last, or -1
    addr,            \* addr[r]: get_addr() of the request object
    orig,            \* orig[r]: the address its master asked for
    seen,            \* seen[r]: the address its slave holds it with, or -1
    denied_queue,    \* master: what was denied, oldest first
    owes,            \* owes[o]: slave o denied and has not retried
    cb               \* the master's retry() callback runs

vars == <<kind, denied_output, addr, orig, seen, denied_queue, owes, cb>>

----------------------------------------------------------------------------
(* The output of an address, and that of an opcode in the splitter.        *)
output_id(a) == (a \div 2 ^ offset) % 2 ^ width

ID_READ  == 0
ID_WRITE == 1
rw_output_id(is_write) == IF is_write THEN ID_WRITE ELSE ID_READ

Route(r, a) == CASE kind = "demux"       -> output_id(a)
                 [] kind = "rw_splitter" -> rw_output_id(r \in IsWrite)
                 [] kind = "remapper"    -> 0

Outputs == 0 .. (CASE kind = "demux"       -> 2 ^ width - 1
                   [] kind = "rw_splitter" -> 1
                   [] kind = "remapper"    -> 0)

(* The end of the window is computed in Width bits.                        *)
in_window(a) == size > 0 /\ a >= base /\ a < (base + size) % 2 ^ Width

remap(a) == IF in_window(a) THEN (a - base + target_base) % 2 ^ Width ELSE a

SentOn(a) == IF kind = "remapper" THEN remap(a) ELSE a

Init ==
    /\ kind \in Kinds
    /\ denied_output = -1
    /\ addr = [r \in Reqs |-> 0] /\ orig = [r \in Reqs |-> 0]
    /\ seen = [r \in Reqs |-> -1]
    /\ denied_queue = <<>>
    /\ owes = [o \in Outputs |-> FALSE]
    /\ cb = FALSE

Denied == ToSet(denied_queue)

----------------------------------------------------------------------------
(* input_req with address a in the request object, by the status that the  *)
(* output returns; rest is the queue the master has while it makes the     *)
(* call.  An accepted request keeps the rewritten address.                 *)

Accepted(r, a, rest) ==
    /\ ~owes[Route(r, a)]
    /\ addr' = [addr EXCEPT ![r] = SentOn(a)]
    /\ seen' \in {seen, [seen EXCEPT ![r] = SentOn(a)]}     \* DONE, GRANTED
    /\ denied_queue' = rest
    /\ UNCHANGED <<denied_output, owes>>

(* A slip: the output is not remembered.                                   *)
SlipLatched(o) == denied_output

Latched(o) == o

(* A slip: the address is not restored.                                    *)
SlipRestored(a) == SentOn(a)

Restored(a) == a

(* The master appends the denied request to its queue.                     *)
RequestDenied(r, a, rest) ==
    /\ denied_output' = Latched(Route(r, a))
    /\ addr' = [addr EXCEPT ![r] = Restored(a)]
    /\ denied_queue' = Append(rest, r)
    /\ owes' = [owes EXCEPT ![Route(r, a)] = TRUE]
    /\ UNCHANGED seen

(* The master fills in a request and issues it.                            *)
MasterSend(r, a) ==
    /\ ~cb /\ r \notin Denied /\ seen[r] = -1
    /\ orig' = [orig EXCEPT ![r] = a]
    /\ Accepted(r, a, denied_queue) \/ RequestDenied(r, a, denied_queue)
    /\ UNCHANGED <<kind, cb>>

(* retry() of the master: the head of the queue is re-issued as it is, and *)
(* a denial ends the callback.                                             *)
Resend ==
    /\ cb /\ denied_queue # <<>>
    /\ LET r    == Head(denied_queue)
           rest == Tail(denied_queue)
       IN  \/ Accepted(r, addr[r], rest) /\ UNCHANGED cb
           \/ RequestDenied(r, addr[r], rest) /\ cb' = FALSE
    /\ UNCHANGED <<kind, orig>>

RetryReturns ==
    /\ cb /\ denied_queue = <<>>
    /\ cb' = FALSE
    /\ UNCHANGED <<kind, denied_output, addr, orig, seen, denied_queue, owes>>

(* output_resp: resp() of the master.                                      *)
output_resp(r) ==
    /\ ~cb /\ seen[r] # -1
    /\ seen' = [seen EXCEPT ![r] = -1]
    /\ UNCHANGED <<kind, denied_output, addr, orig, denied_queue, owes, cb>>

PassedOn(o) == denied_output = o

(* output_retry: the latch is cleared before the master is called.         *)
output_retry(o) ==
    /\ ~cb
    /\ owes' = [owes EXCEPT ![o] = FALSE]
    /\ IF PassedOn(o)
         THEN denied_output' = -1 /\ cb' = TRUE
         ELSE UNCHANGED <<denied_output, cb>>
    /\ UNCHANGED <<kind, addr, orig, seen, denied_queue>>

(* reset(true), of the whole platform.                                     *)
reset ==
    /\ ~cb
    /\ denied_output' = -1
    /\ denied_queue' = <<>>
    /\ seen' = [r \in Reqs |-> -1]
    /\ owes' = [o \in Outputs |-> FALSE]
    /\ UNCHANGED <<kind, addr, orig, cb>>

Next ==
    \/ \E r \in Reqs : (\E a \in Addrs : MasterSend(r, a)) \/ output_resp(r)
    \/ Resend \/ RetryReturns
    \/ \E o \in Outputs : output_retry(o)
    \/ reset

Spec == Init /\ [][Next]_vars

(* Callbacks return, and a slave that denied retries.                      *)
Fairness ==
    /\ WF_vars(Resend \/ RetryReturns)
    /\ \A o \in 0 .. (2 ^ width - 1) : SF_vars(o \in Outputs /\ owes[o] /\ output_retry(o))

FairSpec == Spec /\ Fairness

----------------------------------------------------------------------------
(* Every variable stays in its range.                                      *)
TypeOK ==
    /\ kind \in Kinds
    /\ denied_output \in Outputs \cup {-1}
    /\ \A r \in Reqs : addr[r] \in 0 .. (2 ^ Width - 1) /\ orig[r] \in Addrs \cup {0}
    /\ \A r \in Reqs : seen[r] \in -1 .. (2 ^ Width - 1)
    /\ denied_queue \in Seq(Reqs)
    /\ owes \in [Outputs -> BOOLEAN] /\ cb \in BOOLEAN

(* "one int is enough" (demux_v2.cpp:71): while requests are denied, by    *)
(* however many outputs, the remembered output denied one of them and will *)
(* retry, so the master is woken whatever output_retry ignores.            *)
WakeupHeld ==
    Denied # {} /\ ~cb =>
        /\ denied_output # -1 /\ owes[denied_output]
        /\ \E r \in Denied : Route(r, addr[r]) = denied_output

(* Where an address of the window ends up, without machine arithmetic.     *)
Target(a) ==
    IF kind = "remapper" /\ a \in base .. (base + size - 1) THEN a - base + target_base ELSE a

(* A slave holds a granted request at the place of the address its master  *)
(* asked for, remapped once, however often it was denied before: input_req *)
(* undoes the rewrite, or a window that overlaps its target would move the *)
(* address again.                                                          *)
RemappedOnce == \A r \in Reqs : seen[r] # -1 => seen[r] = Target(orig[r])

(* The types, the latch input_req and output_retry share, and the address  *)
(* a slave has got.                                                        *)
Inv == TypeOK /\ WakeupHeld /\ RemappedOnce

(* "only then, not on any unrelated output's retry" (demux_v2.cpp:24): the *)
(* retry() of an output that denied none of the waiting requests is not    *)
(* passed to the master.                                                   *)
NoSpuriousRetry ==
    [][\A o \in Outputs : output_retry(o) /\ cb' =>
            \E r \in Denied : Route(r, addr[r]) = o]_vars

(* A master with denied requests is called back, although the retry() of   *)
(* an output that is not the remembered one is dropped.  (One request can  *)
(* still starve, when its output is busy each time another's retry() makes *)
(* the master re-issue it.)                                                *)
MasterWoken == Denied # {} ~> cb \/ Denied = {}
=============================================================================
