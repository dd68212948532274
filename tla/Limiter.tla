------------------------------ MODULE Limiter ------------------------------
(***************************************************************************)
(* The io_v2 bandwidth limiter, models/interco/limiter_v2.cpp.             *)
(*                                                                         *)
(* A request accepted from the single upstream master is cut into chunks   *)
(* of at most Bandwidth bytes; a clock event sends one chunk per cycle.    *)
(* The emission slot (pending_req) is freed when the last chunk leaves, so *)
(* the answers of several requests may be outstanding at once.             *)
(*                                                                         *)
(* The simulator is single threaded but its handlers re-enter each other:  *)
(* resp() and retry() run the master's callback, which may call input_req  *)
(* before the handler that made the call continues.  pc and cont are that  *)
(* call stack: pc names the call in progress, cont the handler to return   *)
(* to.  The master, the downstream slave and the clock engine are not in   *)
(* this repository; they are the actions at the end of the module.         *)
(***************************************************************************)
EXTENDS Integers, FiniteSets

CONSTANTS
    Reqs,        \* request objects of the upstream master
    Size,        \* Size[r]: what get_size() returns for r
    Bad,         \* Bad[r]: the bytes of r the slave answers INVALID for
    Bandwidth,   \* cfg.bandwidth, bytes per chunk
    None         \* the null pointer

ASSUME LimiterAssumption ==
    /\ Bandwidth \in Nat \ {0}
    /\ Size \in [Reqs -> Nat \ {0}]
    /\ Bad \in [Reqs -> SUBSET Nat]
    /\ None \notin Reqs

VARIABLES
    pending_req,        \* the request in emission, or None
    pending_size,       \* its bytes that have not been emitted yet
    remaining_size,     \* parent->remaining_size: bytes not answered yet
    resp_status,        \* parent->get_resp_status()
    input_needs_retry,  \* the master was denied and is owed a retry()
    denied_sub,         \* the chunk the output denied, or None
    event,              \* the pacing event: not enqueued, next cycle, due now
    paced,              \* next_req_timestamp is ahead of the current cycle
    pc,                 \* the call in progress ("idle": the engine runs)
    cont,               \* the handler that continues after it
    parent,             \* the request check_last_chunk is about
    mst,                \* master: what it knows of each of its requests
    down                \* slave: the chunks it granted and has not answered

limVars == <<pending_req, pending_size, remaining_size, resp_status,
             input_needs_retry, denied_sub>>
clkVars == <<event, paced>>
pcVars  == <<pc, cont, parent>>
vars    == <<limVars, clkVars, pcVars, mst, down>>

(* A sub-request: its parent and the bytes [off, off + size) it carries.   *)
Sub(r, off, n) == [parent |-> r, off |-> off, size |-> n]

Subs == [parent : Reqs, off : Nat, size : Nat]

ASSUME NoneAssumption == None \notin Subs

Bytes(sub) == sub.off .. (sub.off + sub.size - 1)

(* The status the slave answers a chunk with.                              *)
ChunkStatus(sub) ==
    IF Bytes(sub) \cap Bad[sub.parent] # {} THEN "INVALID" ELSE "OK"

MstStates == {"idle", "denied", "retrying", "granted", "spurious"}

Init ==
    /\ pending_req = None
    /\ pending_size = 0
    /\ remaining_size = [r \in Reqs |-> 0]
    /\ resp_status = [r \in Reqs |-> "OK"]
    /\ input_needs_retry = FALSE
    /\ denied_sub = None
    /\ event = "none"
    /\ paced = FALSE
    /\ pc = "idle"
    /\ cont = "none"
    /\ parent = None
    /\ mst = [r \in Reqs |-> "idle"]
    /\ down = {}

----------------------------------------------------------------------------
(* The upstream port.                                                      *)

(* Arming the pacing event for the next cycle; an event that is enqueued   *)
(* already keeps its date.                                                 *)
Enqueued(e) == IF e = "none" THEN "next" ELSE e

(* A slip: the denial is not recorded.                                     *)
SlipDeny(r) ==
    /\ UNCHANGED input_needs_retry
    /\ mst' = [mst EXCEPT ![r] = "denied"]
    /\ UNCHANGED <<pending_req, pending_size, remaining_size, resp_status, event>>

(* input_req: one request in emission at a time, the others are denied.    *)
Deny(r) ==
    /\ input_needs_retry' = TRUE
    /\ mst' = [mst EXCEPT ![r] = "denied"]
    /\ UNCHANGED <<pending_req, pending_size, remaining_size, resp_status, event>>

Grant(r) ==
    /\ pending_req' = r
    /\ pending_size' = Size[r]
    /\ remaining_size' = [remaining_size EXCEPT ![r] = Size[r]]
    /\ resp_status' = [resp_status EXCEPT ![r] = "OK"]
    /\ event' = Enqueued(event)
    /\ mst' = [mst EXCEPT ![r] = "granted"]
    /\ UNCHANGED input_needs_retry

input_req(r) ==
    /\ \/ pending_req # None /\ Deny(r)
       \/ pending_req = None /\ Grant(r)
    /\ UNCHANGED denied_sub

(* The master issues a request of its own accord, from the engine or from  *)
(* inside resp().  Once denied it waits for retry().                       *)
MasterSend(r) ==
    /\ pc \in {"idle", "in_resp"}
    /\ mst[r] = "idle"
    /\ \A q \in Reqs : mst[q] # "denied"
    /\ input_req(r)
    /\ UNCHANGED <<paced, pcVars, down>>

(* Inside retry() the master re-issues what was denied.                    *)
MasterResend(r) ==
    /\ pc = "in_retry"
    /\ mst[r] = "retrying"
    /\ input_req(r)
    /\ UNCHANGED <<paced, pcVars, down>>

----------------------------------------------------------------------------
(* The downstream port.                                                    *)

Remaining(sub) == remaining_size[sub.parent] - sub.size

(* finish_chunk: a chunk has been answered.  The first error is latched;   *)
(* check_last_chunk answers the request when this chunk was its last.      *)
finish_chunk(sub, handler) ==
    LET r == sub.parent IN
    /\ resp_status' = IF ChunkStatus(sub) = "INVALID"
                        THEN [resp_status EXCEPT ![r] = "INVALID"]
                        ELSE resp_status
    /\ remaining_size' = [remaining_size EXCEPT ![r] = Remaining(sub)]
    /\ parent' = r
    /\ cont' = handler
    /\ pc' = IF Remaining(sub) = 0 THEN "resp" ELSE "return"

(* What the slave may answer to output_itf.req(sub), and what the handler  *)
(* does with it before it reaches its last lines.                          *)
Unparked(sub) == IF denied_sub = sub THEN None ELSE denied_sub

SendDone(sub, handler) ==
    /\ finish_chunk(sub, handler)
    /\ denied_sub' = Unparked(sub)
    /\ UNCHANGED down

(* A slip: a replayed chunk stays parked when the slave grants it.         *)
SlipSendGranted(sub, handler) ==
    /\ down' = down \cup {sub}
    /\ UNCHANGED denied_sub
    /\ pc' = "return"
    /\ cont' = handler
    /\ UNCHANGED <<remaining_size, resp_status, parent>>

SendGranted(sub, handler) ==
    /\ down' = down \cup {sub}
    /\ denied_sub' = Unparked(sub)
    /\ pc' = "return"
    /\ cont' = handler
    /\ UNCHANGED <<remaining_size, resp_status, parent>>

(* A slip: a denied chunk is not parked.                                   *)
SlipSendDenied(sub) ==
    /\ denied_sub' = None
    /\ UNCHANGED <<remaining_size, resp_status, pcVars, down>>

SendDenied(sub) ==
    /\ denied_sub' = sub
    /\ UNCHANGED <<remaining_size, resp_status, pcVars, down>>

(* event_handler, the early returns: the output is stalled, nothing is     *)
(* left to emit, or a chunk was sent in this cycle already.                *)
NothingToEmit == denied_sub # None \/ pending_req = None \/ pending_size = 0

EventSkip ==
    /\ pc = "idle"
    /\ event = "now"
    /\ NothingToEmit \/ paced
    /\ event' = IF NothingToEmit THEN "none" ELSE "next"
    /\ UNCHANGED <<limVars, paced, pcVars, mst, down>>

(* event_handler, a chunk is cut and sent; the slot is freed by the last.  *)
Chunk == IF pending_size < Bandwidth THEN pending_size ELSE Bandwidth

NextSub == Sub(pending_req, Size[pending_req] - pending_size, Chunk)

EventEmit ==
    /\ pc = "idle"
    /\ event = "now"
    /\ ~NothingToEmit /\ ~paced
    /\ pending_size' = pending_size - Chunk
    /\ pending_req' = IF pending_size' = 0 THEN None ELSE pending_req
    /\ \/ SendDone(NextSub, "event_handler")
       \/ SendGranted(NextSub, "event_handler")
       \/ SendDenied(NextSub)
    /\ paced' = TRUE
    /\ event' = "none"
    /\ UNCHANGED <<input_needs_retry, mst>>

(* output_resp: the slave answers a chunk it granted.                      *)
output_resp(sub) ==
    /\ pc = "idle"
    /\ sub \in down
    /\ down' = down \ {sub}
    /\ finish_chunk(sub, "output_resp")
    /\ UNCHANGED <<pending_req, pending_size, input_needs_retry, denied_sub,
                   clkVars, mst>>

(* output_retry: the parked chunk is replayed.  Without one the call has   *)
(* no effect.                                                              *)
output_retry ==
    /\ pc = "idle"
    /\ denied_sub # None
    /\ \/ SendDone(denied_sub, "output_retry")
       \/ SendGranted(denied_sub, "output_retry")
       \/ SendDenied(denied_sub)
    /\ UNCHANGED <<pending_req, pending_size, input_needs_retry, event, paced, mst>>

----------------------------------------------------------------------------
(* The rest of the call stack.                                             *)

(* check_last_chunk calls input_itf.resp(parent).                          *)
Resp ==
    /\ pc = "resp"
    /\ mst' = [mst EXCEPT ![parent] = IF @ = "granted" THEN "idle" ELSE "spurious"]
    /\ pc' = "in_resp"
    /\ UNCHANGED <<limVars, clkVars, cont, parent, down>>

(* Calling input_itf.retry(): the denied requests are re-issued in it.     *)
CallRetry ==
    /\ input_needs_retry' = FALSE
    /\ mst' = [r \in Reqs |-> IF mst[r] = "denied" THEN "retrying" ELSE mst[r]]
    /\ pc' = "in_retry"

(* A slip: check_last_chunk forgets the retry it owes.                     *)
SlipRetryOwed == FALSE

(* resp() has returned to check_last_chunk, which pays the retry it owes.  *)
RetryOwed == pending_req = None /\ input_needs_retry

RespReturns ==
    /\ pc = "in_resp"
    /\ parent' = None
    /\ \/ /\ RetryOwed
          /\ CallRetry
       \/ /\ ~RetryOwed
          /\ pc' = "return"
          /\ UNCHANGED <<input_needs_retry, mst>>
    /\ UNCHANGED <<pending_req, pending_size, remaining_size, resp_status,
                   denied_sub, clkVars, cont, down>>

RetryReturns ==
    /\ pc = "in_retry"
    /\ \A r \in Reqs : mst[r] # "retrying"
    /\ pc' = "return"
    /\ UNCHANGED <<limVars, clkVars, cont, parent, mst, down>>

MoreToEmit == pending_req # None /\ pending_size > 0

(* The last lines of event_handler: re-arm for the next chunk, or call     *)
(* retry() when the slot is free and the master was denied.                *)
EventReturns ==
    /\ pc = "return" /\ cont = "event_handler"
    /\ \/ /\ MoreToEmit
          /\ event' = Enqueued(event)
          /\ pc' = "idle"
          /\ UNCHANGED <<input_needs_retry, mst>>
       \/ /\ ~MoreToEmit /\ input_needs_retry
          /\ CallRetry
          /\ UNCHANGED event
       \/ /\ ~MoreToEmit /\ ~input_needs_retry
          /\ pc' = "idle"
          /\ UNCHANGED <<event, input_needs_retry, mst>>
    /\ cont' = "none"
    /\ parent' = None
    /\ UNCHANGED <<pending_req, pending_size, remaining_size, resp_status,
                   denied_sub, paced, down>>

(* A slip: the pacing is not resumed after a replay.                       *)
SlipResumed(e) == e

(* The last lines of output_retry: resume pacing.                          *)
Resumed(e) == IF MoreToEmit THEN Enqueued(e) ELSE e

OutputRetryReturns ==
    /\ pc = "return" /\ cont = "output_retry"
    /\ event' = Resumed(event)
    /\ pc' = "idle"
    /\ cont' = "none"
    /\ parent' = None
    /\ UNCHANGED <<limVars, paced, mst, down>>

(* output_resp has nothing left to do, nor has event_handler after its     *)
(* retry().                                                                *)
HandlerReturns ==
    /\ pc = "return" /\ cont \in {"output_resp", "none"}
    /\ pc' = "idle"
    /\ cont' = "none"
    /\ parent' = None
    /\ UNCHANGED <<limVars, clkVars, mst, down>>

----------------------------------------------------------------------------
(* The clock engine goes to the next cycle once the events due in this one *)
(* have run.                                                               *)
Tick ==
    /\ pc = "idle"
    /\ event # "now"
    /\ event' = IF event = "next" THEN "now" ELSE event
    /\ paced' = FALSE
    /\ UNCHANGED <<limVars, pcVars, mst, down>>

(* reset(true), of the whole platform: the master and the slave drop what  *)
(* they hold, request objects included; the pacing event stays enqueued.   *)
reset ==
    /\ pc = "idle"
    /\ pending_req' = None
    /\ pending_size' = 0
    /\ remaining_size' = [r \in Reqs |-> 0]
    /\ input_needs_retry' = FALSE
    /\ denied_sub' = None
    /\ paced' = FALSE
    /\ mst' = [r \in Reqs |-> "idle"]
    /\ down' = {}
    /\ UNCHANGED <<resp_status, event, pcVars>>

Next ==
    \/ \E r \in Reqs : MasterSend(r) \/ MasterResend(r)
    \/ EventSkip \/ EventEmit
    \/ \E sub \in down : output_resp(sub)
    \/ output_retry
    \/ Resp \/ RespReturns \/ RetryReturns
    \/ EventReturns \/ OutputRetryReturns \/ HandlerReturns
    \/ Tick
    \/ reset

Spec == Init /\ [][Next]_vars

(* The clock advances, due events run and every call returns; the slave    *)
(* answers each chunk it granted, and does not refuse a replay forever.    *)
Fairness ==
    /\ WF_vars(Tick)
    /\ WF_vars(EventSkip \/ EventEmit)
    /\ WF_vars(Resp \/ RespReturns \/ RetryReturns)
    /\ WF_vars(EventReturns \/ OutputRetryReturns \/ HandlerReturns)
    /\ \A r \in Reqs :
          /\ WF_vars(MasterResend(r))
          /\ SF_vars(\E sub \in down : sub.parent = r /\ output_resp(sub))
    /\ SF_vars(output_retry /\ denied_sub' = None)

FairSpec == Spec /\ Fairness

----------------------------------------------------------------------------
(* Every variable stays in its range.                                      *)
TypeOK ==
    /\ pending_req \in Reqs \cup {None}
    /\ pending_size \in Nat
    /\ remaining_size \in [Reqs -> Nat]
    /\ resp_status \in [Reqs -> {"OK", "INVALID"}]
    /\ input_needs_retry \in BOOLEAN
    /\ denied_sub \in Subs \cup {None}
    /\ event \in {"none", "next", "now"}
    /\ paced \in BOOLEAN
    /\ pc \in {"idle", "resp", "in_resp", "in_retry", "return"}
    /\ cont \in {"none", "event_handler", "output_resp", "output_retry"}
    /\ parent \in Reqs \cup {None}
    /\ mst \in [Reqs -> MstStates]
    /\ down \subseteq Subs

(* The bytes of r that the slave has not answered yet: not emitted, parked *)
(* in denied_sub, or granted by the slave.                                 *)
Unemitted(r) ==
    IF pending_req = r THEN (Size[r] - pending_size) .. (Size[r] - 1) ELSE {}

Parked == IF denied_sub = None THEN {} ELSE {denied_sub}

Outstanding == down \cup Parked

Unserved(r) ==
    Unemitted(r) \cup UNION {Bytes(sub) : sub \in {d \in Outstanding : d.parent = r}}

(* The counter that decides when a request is answered counts exactly the  *)
(* bytes the slave still has to answer, through splits, denied chunks,     *)
(* replays and out-of-order answers.                                       *)
BytesConserved ==
    \A r \in Reqs : remaining_size[r] = Cardinality(Unserved(r))

(* Chunks leave in order, and a replay after a denial is never overtaken:  *)
(* what the slave holds of a request lies below its parked chunk, that one *)
(* below what is not emitted yet, and a later request has emitted nothing. *)
NoOvertaking ==
    \A sub \in Parked :
        /\ \A d \in down : d.parent = sub.parent => d.off + d.size <= sub.off
        /\ \A b \in Unemitted(sub.parent) : b >= sub.off + sub.size
        /\ pending_req \in Reqs \ {sub.parent} => pending_size = Size[pending_req]

(* No lost wake-up: while the engine runs, a denied master has its retry   *)
(* recorded, and some event or answer that leads to it is still to come.   *)
WakeupHeld ==
    pc = "idle" /\ (\E r \in Reqs : mst[r] = "denied") =>
        /\ input_needs_retry
        /\ pending_req # None \/ denied_sub # None \/ down # {}

(* The pacing event is armed whenever a request waits in the emission      *)
(* slot, unless the output's retry() will arm it.                          *)
EmissionArmed ==
    pc = "idle" /\ pending_req # None => event # "none" \/ denied_sub # None

(* The state behind the handlers keeps its shape between them: types, the  *)
(* order of the chunks, and the event that emits the next one.             *)
Inv == TypeOK /\ NoOvertaking /\ EmissionArmed

(* An accepted request is answered.                                        *)
GrantedAnswered == \A r \in Reqs : mst[r] = "granted" ~> mst[r] = "idle"

(* A denied master is called back.                                         *)
DeniedRetried == \A r \in Reqs : mst[r] = "denied" ~> mst[r] # "denied"

(* Nobody waits for ever: neither for an answer nor for a retry(), which   *)
(* event_handler, output_resp and output_retry leave to each other.        *)
Progress == GrantedAnswered /\ DeniedRetried

(* The refinement mapping: a byte of r is to do until a slave answers it.  *)
Service == INSTANCE IoService WITH
    st <- mst,
    todo <- [r \in Reqs |-> Unserved(r)],
    status <- resp_status

(* The limiter serves its master as IoService promises, and drops a request*)
(* only in reset: every accepted byte once, then one answer, however its   *)
(* handlers re-enter each other.                                           *)
ServiceSpec == Service!Spec /\ [][reset \/ Service!Serving]_(Service!vars)
=============================================================================
