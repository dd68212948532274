---------------------------- MODULE ClockBridge ----------------------------
(***************************************************************************)
(* The io_v2 clock-domain bridge, models/utils/io_v2_clock_bridge.cpp, in  *)
(* its parametric mode: four FIFO stages, two clocked by the master's      *)
(* engine (fwd_src, rev_dst) and two by the slave's (fwd_dst, rev_src).    *)
(* Each stage has one ClockEvent on the deadline of its head.  The two     *)
(* engines tick independently of each other.                               *)
(*                                                                         *)
(* A deadline is kept relative to the current cycle of its own engine; a   *)
(* missed one is -1.  The slave answers a request at once (DONE), later    *)
(* (GRANTED) or, where MayDeny allows it, denies it.  The master issues on *)
(* its own or in a callback, waits while a request of its is denied and    *)
(* re-issues it in retry().  Without delays (sync_only) the bridge keeps   *)
(* no state and only forwards the calls.                                   *)
(***************************************************************************)
EXTENDS Integers, Sequences, FiniteSets

CONSTANTS
    Reqs,
    k_src_per_dir, k_dst_per_dir, depth,
    MayDeny        \* the slave may deny

Stages  == {"fwd_src", "fwd_dst", "rev_src", "rev_dst"}
MasterStages == {"fwd_src", "rev_dst"}
SlaveStages  == {"fwd_dst", "rev_src"}

ASSUME BridgeAssumption ==
    /\ k_src_per_dir \in Nat /\ k_dst_per_dir \in Nat
    /\ k_src_per_dir > 0 \/ k_dst_per_dir > 0
    /\ depth \in Nat \ {0}
    /\ MayDeny \in BOOLEAN

(* A transaction in a stage, with the cycles to its deadline.              *)
Txn == [req : Reqs, due : Nat \cup {-1}]

VARIABLES
    queue,        \* queue[s]: the transactions of a stage, head first
    event,        \* event[s]: cycles until its event, -1 when not enqueued
    retry_owed,
    pc,           \* the stage whose handler runs, or "idle"
    cb,           \* a callback of the master runs
    mst,          \* mst[r]: what the master knows of its request
    below,        \* the requests the slave granted and has not answered
    dropped       \* the requests the slave denied

vars == <<queue, event, retry_owed, pc, cb, mst, below, dropped>>

Init ==
    /\ queue = [s \in Stages |-> <<>>]
    /\ event = [s \in Stages |-> -1]
    /\ retry_owed = FALSE
    /\ pc = "idle" /\ cb = FALSE
    /\ mst = [r \in Reqs |-> "idle"]
    /\ below = {} /\ dropped = {}

Quiet == pc = "idle" /\ ~cb

----------------------------------------------------------------------------
(* A slip: the spacing is missing.                                         *)
SlipSpacing(q, r, k) == Append(q, [req |-> r, due |-> k])

(* A slip: push_front for push_back.                                       *)
SlipEnqueueIn(q, r, k) == <<[req |-> r, due |-> k]>> \o q

(* enqueue_in, and the same computation in in_req_handler: the deadline is *)
(* k cycles away and at least one after the deadline before it.            *)
enqueue_in(q, r, k) ==
    LET prev == q[Len(q)].due
    IN  Append(q, [req |-> r, due |-> IF q # <<>> /\ k < prev + 1 THEN prev + 1 ELSE k])

(* reschedule_event: the cycles until the event of a queue.                *)
reschedule_event(q) ==
    IF q = <<>> THEN -1 ELSE IF q[1].due < 1 THEN 1 ELSE q[1].due

(* The transactions counted against the depth.                             *)
in_flight == Len(queue["fwd_src"]) + Len(queue["fwd_dst"])
             + Len(queue["rev_src"]) + Len(queue["rev_dst"])

DepthGate == in_flight >= depth

----------------------------------------------------------------------------
(* in_req_handler                                                          *)

Deny(r) ==
    /\ DepthGate
    /\ retry_owed' = TRUE
    /\ mst' = [mst EXCEPT ![r] = "denied"]
    /\ UNCHANGED <<queue, event>>

Grant(r) ==
    /\ ~DepthGate
    /\ LET q == enqueue_in(queue["fwd_src"], r, k_src_per_dir)
       IN  /\ queue' = [queue EXCEPT !["fwd_src"] = q]
           /\ event' = [event EXCEPT !["fwd_src"] = reschedule_event(q)]
    /\ mst' = [mst EXCEPT ![r] = "granted"]
    /\ UNCHANGED retry_owed

in_req_handler(r) == Deny(r) \/ Grant(r)

MasterSend(r) ==
    /\ Quiet \/ cb
    /\ mst[r] = "idle" /\ \A q \in Reqs : mst[q] \notin {"denied", "retrying"}
    /\ in_req_handler(r)
    /\ UNCHANGED <<pc, cb, below, dropped>>

MasterResend(r) ==
    /\ cb /\ mst[r] = "retrying"
    /\ in_req_handler(r)
    /\ UNCHANGED <<pc, cb, below, dropped>>

(* resp() or retry() of the master returns.                                *)
CallbackReturns ==
    /\ cb /\ \A r \in Reqs : mst[r] # "retrying"
    /\ cb' = FALSE
    /\ UNCHANGED <<queue, event, retry_owed, pc, mst, below, dropped>>

----------------------------------------------------------------------------
(* The stage handlers: each pops what is due and passes it on, then        *)
(* reschedules its event and that of the stage it fed.                     *)

HandlerStarts(s) ==
    /\ Quiet /\ event[s] = 0
    /\ pc' = s
    /\ event' = [event EXCEPT ![s] = -1]
    /\ UNCHANGED <<queue, retry_owed, cb, mst, below, dropped>>

HeadDue(s) == queue[s] # <<>> /\ queue[s][1].due <= 0

Popping(s) == pc = s /\ ~cb /\ HeadDue(s)

(* The head of stage s moves to stage t.                                   *)
Move(s, t, k) ==
    queue' = [queue EXCEPT ![s] = Tail(@), ![t] = enqueue_in(@, queue[s][1].req, k)]

fwd_src_done_handler ==
    /\ Popping("fwd_src")
    /\ Move("fwd_src", "fwd_dst", k_dst_per_dir)
    /\ UNCHANGED <<event, retry_owed, pc, cb, mst, below, dropped>>

SlaveDone(r) ==
    /\ Move("fwd_dst", "rev_src", k_src_per_dir)
    /\ UNCHANGED <<below, dropped>>

(* A slip: GRANTED is taken for DONE.                                      *)
SlipSlaveGranted(r) ==
    /\ Move("fwd_dst", "rev_src", k_src_per_dir)
    /\ below' = below \cup {r}
    /\ UNCHANGED dropped

SlaveGranted(r) ==
    /\ queue' = [queue EXCEPT !["fwd_dst"] = Tail(@)]
    /\ below' = below \cup {r}
    /\ UNCHANGED dropped

(* DENIED is not handled: the transaction is gone.                         *)
SlaveDenied(r) ==
    /\ MayDeny
    /\ queue' = [queue EXCEPT !["fwd_dst"] = Tail(@)]
    /\ dropped' = dropped \cup {r}
    /\ UNCHANGED below

(* out.req(), by the status the slave returns.                             *)
fwd_dst_done_handler ==
    /\ Popping("fwd_dst")
    /\ LET r == queue["fwd_dst"][1].req
       IN  SlaveDone(r) \/ SlaveGranted(r) \/ SlaveDenied(r)
    /\ UNCHANGED <<event, retry_owed, pc, cb, mst>>

rev_src_done_handler ==
    /\ Popping("rev_src")
    /\ Move("rev_src", "rev_dst", k_dst_per_dir)
    /\ UNCHANGED <<event, retry_owed, pc, cb, mst, below, dropped>>

(* resp(): the callback of the master starts.                              *)
rev_dst_done_handler ==
    /\ Popping("rev_dst")
    /\ LET r == queue["rev_dst"][1].req
       IN  mst' = [mst EXCEPT ![r] = IF @ = "granted" THEN "idle" ELSE "spurious"]
    /\ queue' = [queue EXCEPT !["rev_dst"] = Tail(@)]
    /\ cb' = TRUE
    /\ UNCHANGED <<event, retry_owed, pc, below, dropped>>

(* A slip: only the event of the stage itself is rescheduled.              *)
SlipFeeds(s) == {s}

(* The stages whose events a handler reschedules.                          *)
Feeds(s) == CASE s = "fwd_src" -> {s, "fwd_dst"}
              [] s = "fwd_dst" -> {s, "rev_src"}
              [] s = "rev_src" -> {s, "rev_dst"}
              [] s = "rev_dst" -> {s}

Rescheduled(S) ==
    [s \in Stages |-> IF s \in S THEN reschedule_event(queue[s]) ELSE event[s]]

HandlerEnds(s) ==
    /\ s # "rev_dst" /\ pc = s /\ ~HeadDue(s)
    /\ event' = Rescheduled(Feeds(s))
    /\ pc' = "idle"
    /\ UNCHANGED <<queue, retry_owed, cb, mst, below, dropped>>

(* There is room for the request that was denied.                          *)
RetryDue == retry_owed /\ ~DepthGate

(* The end of rev_dst_done_handler also makes the retry() it owes; the     *)
(* event is rescheduled when that returns, and nothing looks at it before. *)
RevDstEnds ==
    /\ pc = "rev_dst" /\ ~cb /\ ~HeadDue("rev_dst")
    /\ event' = Rescheduled(Feeds("rev_dst"))
    /\ pc' = "idle"
    /\ IF RetryDue
         THEN /\ retry_owed' = FALSE
              /\ mst' = [r \in Reqs |-> IF mst[r] = "denied" THEN "retrying" ELSE mst[r]]
              /\ cb' = TRUE
         ELSE UNCHANGED <<retry_owed, mst, cb>>
    /\ UNCHANGED <<queue, below, dropped>>

(* The slave answers what it granted.                                      *)
out_resp_handler(r) ==
    /\ Quiet /\ r \in below
    /\ below' = below \ {r}
    /\ LET q == enqueue_in(queue["rev_src"], r, k_src_per_dir)
       IN  /\ queue' = [queue EXCEPT !["rev_src"] = q]
           /\ event' = [event EXCEPT !["rev_src"] = reschedule_event(q)]
    /\ UNCHANGED <<retry_owed, pc, cb, mst, dropped>>

----------------------------------------------------------------------------
(* A cycle of one engine passes: its events that are due have run.         *)
Elapsed(S) ==
    /\ queue' = [s \in Stages |-> IF s \in S
                   THEN [i \in DOMAIN queue[s] |->
                           [queue[s][i] EXCEPT !.due = IF @ < 0 THEN @ ELSE @ - 1]]
                   ELSE queue[s]]
    /\ event' = [s \in Stages |-> IF s \in S /\ event[s] > 0 THEN event[s] - 1 ELSE event[s]]

Tick(S) ==
    /\ Quiet /\ \A s \in S : event[s] # 0
    /\ Elapsed(S)
    /\ UNCHANGED <<retry_owed, pc, cb, mst, below, dropped>>

MasterTick == Tick(MasterStages)
SlaveTick  == Tick(SlaveStages)

(* reset(true) of the platform: the events are cancelled.                  *)
reset ==
    /\ Quiet
    /\ queue' = [s \in Stages |-> <<>>]
    /\ event' = [s \in Stages |-> -1]
    /\ retry_owed' = FALSE
    /\ mst' = [r \in Reqs |-> "idle"]
    /\ below' = {} /\ dropped' = {}
    /\ UNCHANGED <<pc, cb>>

Handlers ==
    \/ \E s \in Stages : HandlerStarts(s) \/ HandlerEnds(s)
    \/ fwd_src_done_handler \/ fwd_dst_done_handler
    \/ rev_src_done_handler \/ rev_dst_done_handler
    \/ RevDstEnds \/ CallbackReturns
    \/ \E r \in Reqs : MasterResend(r)

Next ==
    \/ \E r \in Reqs : MasterSend(r) \/ out_resp_handler(r)
    \/ Handlers
    \/ MasterTick \/ SlaveTick
    \/ reset

Spec == Init /\ [][Next]_vars

(* Both engines run what is due and go on; the slave answers.              *)
Fairness ==
    /\ SF_vars(Handlers)
    /\ SF_vars(MasterTick) /\ SF_vars(SlaveTick)
    /\ \A r \in Reqs : SF_vars(out_resp_handler(r))

FairSpec == Spec /\ Fairness

----------------------------------------------------------------------------
(* Every variable stays in its range.                                      *)
TypeOK ==
    /\ queue \in [Stages -> Seq(Txn)]
    /\ event \in [Stages -> Nat \cup {-1}]
    /\ retry_owed \in BOOLEAN /\ cb \in BOOLEAN
    /\ pc \in Stages \cup {"idle"}
    /\ mst \in [Reqs -> {"idle", "denied", "retrying", "granted"}]
    /\ below \subseteq Reqs /\ dropped \subseteq Reqs

(* How many places in the bridge and below it a request is at.             *)
Held(r) ==
    Cardinality(UNION {{<<s, i>> : i \in {j \in DOMAIN queue[s] : queue[s][j].req = r}} :
                         s \in Stages})
    + (IF r \in below THEN 1 ELSE 0) + (IF r \in dropped THEN 1 ELSE 0)

(* A granted request is in exactly one stage or with the slave, and no     *)
(* other request is: the stages neither lose nor duplicate one.            *)
GrantedHeld == \A r \in Reqs : Held(r) = IF mst[r] = "granted" THEN 1 ELSE 0

(* The deadlines of a stage are at least a cycle apart, in FIFO order      *)
(* (io_v2_clock_bridge.hpp:25 "ordered by absolute cycle deadline"), so    *)
(* the event of the head is never late for another transaction.            *)
DeadlinesSpaced ==
    \A s \in Stages : \A i \in 1 .. (Len(queue[s]) - 1) :
        queue[s][i + 1].due > queue[s][i].due \/ queue[s][i].due = -1

(* The event of a stage is scheduled for its head: no later than the       *)
(* deadline, or in the next cycle when that is reached or over.            *)
EventArmed ==
    pc = "idle" => \A s \in Stages :
        IF queue[s] = <<>> THEN event[s] = -1
        ELSE event[s] \in 0 .. reschedule_event(queue[s])

(* A denied master is owed a retry(), and a transaction that will pass     *)
(* through rev_dst is there to make it (unless the slave denied it).       *)
RetryOwedHeld ==
    (\E r \in Reqs : mst[r] = "denied") =>
        retry_owed /\ (in_flight > 0 \/ below # {} \/ dropped # {} \/ pc = "rev_dst")

(* What the four stage handlers rely on: the types, each granted request   *)
(* in one place, the deadlines enqueue_in gives out, an event for each of  *)
(* them, and the retry() in_req owes.                                      *)
Inv == TypeOK /\ GrantedHeld /\ DeadlinesSpaced /\ EventArmed /\ RetryOwedHeld

(* The forward path: fwd_src behind fwd_dst.                               *)
Names(q) == [i \in DOMAIN q |-> q[i].req]
Forward == INSTANCE FifoChannel WITH
    Items <- Reqs, fifo <- Names(queue["fwd_dst"]) \o Names(queue["fwd_src"])

(* Requests leave towards the slave in the order they were granted in, and *)
(* none overtakes another in a stage: the forward path is a FIFO.          *)
ForwardFifo == Forward!Spec

(* A granted request is answered, through two clock domains and back,      *)
(* unless the slave denies it.                                             *)
GrantedAnswered ==
    \A r \in Reqs : mst[r] = "granted" ~> mst[r] # "granted" \/ r \in dropped

(* A denied master is called back when rev_dst has made room, unless the   *)
(* transaction that would have passed there was denied by the slave.       *)
DeniedRetried ==
    \A r \in Reqs : mst[r] = "denied" ~> mst[r] # "denied" \/ dropped # {}

(* Nobody waits for ever, behind the events of two engines.                *)
Progress == GrantedAnswered /\ DeniedRetried

(* The refinement mapping: one byte per request, served when the slave     *)
(* answers.                                                                *)
Unserved(r) ==
    IF r \in below \cup dropped \/ \E s \in {"fwd_src", "fwd_dst"} :
                                      \E i \in DOMAIN queue[s] : queue[s][i].req = r
      THEN {0} ELSE {}

Service == INSTANCE IoService WITH
    Size <- [r \in Reqs |-> 1], Bad <- [r \in Reqs |-> {}],
    st <- mst, todo <- [r \in Reqs |-> Unserved(r)], status <- [r \in Reqs |-> "OK"]

(* The bridge serves its master as IoService promises: no answer before the*)
(* slave's, none twice, none to a request that was denied, and none dropped*)
(* but by reset.                                                           *)
ServiceSpec == Service!Spec /\ [][reset \/ Service!Serving]_(Service!vars)
=============================================================================
