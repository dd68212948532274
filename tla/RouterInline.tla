---------------------------- MODULE RouterInline ----------------------------
(***************************************************************************)
(* The two io_v2 routers that forward inline and schedule nothing:         *)
(* models/interco/router/router_v2_bandwidth.cpp, which absorbs a denial   *)
(* by granting the request and queueing it at its input, and               *)
(* router_v2_untimed.cpp, which passes every status on and broadcasts      *)
(* retry().  Both serve proxy commands (proxy_command.hpp).  A platform    *)
(* has one or the other: variant is chosen at the start.                   *)
(*                                                                         *)
(* Abstractions.  A request has a fixed input and mapping, Invalid when    *)
(* the decoding, the straddling rule or an unbound output makes it an      *)
(* error.  The bandwidth watermarks only annotate req->latency, on which   *)
(* nothing here depends, and are left out with statistics and traces.  An  *)
(* address is its own or moved to the output's window.                     *)
(*                                                                         *)
(* A master issues on its own or in a callback, also while a request of    *)
(* its is denied, and re-issues in retry() what was denied.  An output     *)
(* that denied owes a retry() and denies until it makes it; it may answer  *)
(* in several beats, and may call retry() when it owes none.               *)
(***************************************************************************)
EXTENDS Integers, Sequences, SequencesExt

CONSTANTS
    Reqs, nb_input_port, Outputs,
    In, Dest,               \* functions on Reqs
    ProxyDests,             \* the mappings proxy commands go to
    Proxy, None, Invalid

Inputs == 0 .. (nb_input_port - 1)

ASSUME RouterInlineAssumption ==
    /\ nb_input_port \in Nat \ {0}
    /\ In \in [Reqs -> Inputs] /\ Dest \in [Reqs -> Outputs \cup {Invalid}]
    /\ ProxyDests \subseteq Outputs \cup {Invalid}
    /\ Invalid \notin Outputs /\ Proxy \notin Reqs /\ None \notin Inputs \cup {Proxy}

VARIABLES
    variant,
    stalled,            \* stalled[o], of the bandwidth router
    queue,              \* queue[i], of the bandwidth router
    inflight,           \* requests whose InFlight resp_muxed finds
    moved,              \* requests with a translated address
    below,              \* outputs: requests they hold
    owes,               \* owes[o]: the output denied and has not retried
    handler,            \* the handler of the router that is running
    cb,                 \* the input whose master runs a callback
    mst,                \* mst[r]: what the master knows of its request
    proxy_retry_waiter, \* the slot of the router
    waiter,             \* ProxyWaiter::state
    pst, pdest          \* the proxy thread and the mapping of its command

rvars == <<stalled, queue, inflight, moved, below, owes>>
pvars == <<proxy_retry_waiter, waiter, pst, pdest>>
vars  == <<variant, rvars, handler, cb, mst, pvars>>

Idle == [kind |-> "idle"]

Init ==
    /\ variant \in {"bandwidth", "untimed"}
    /\ stalled = [o \in Outputs |-> FALSE] /\ queue = [i \in Inputs |-> <<>>]
    /\ inflight = {} /\ moved = {} /\ below = {}
    /\ owes = [o \in Outputs |-> FALSE]
    /\ handler = Idle /\ cb = None
    /\ mst = [r \in Reqs |-> "idle"]
    /\ proxy_retry_waiter = None /\ waiter = "Pending"
    /\ pst = "idle" /\ pdest = Invalid

(* Nothing runs: the engine is between two events.                         *)
Quiet == handler = Idle /\ cb = None

----------------------------------------------------------------------------
(* The forward of r to output o, by the status it returns.                 *)

ForwardDone(r, o) ==
    /\ ~owes[o]
    /\ UNCHANGED <<stalled, inflight, moved, below, owes>>

(* The InFlight is installed after the call: in req->initiator by the      *)
(* bandwidth router, in in_flight_map by the untimed one.                  *)
ForwardGranted(r, o) ==
    /\ ~owes[o]
    /\ inflight' = inflight \cup {r}
    /\ moved' = moved \cup {r}
    /\ below' = below \cup {r}
    /\ UNCHANGED <<stalled, owes>>

(* What a denial leaves of the translation.                                *)
Restored(r) == moved \ {r}

ForwardDenied(r, o) ==
    /\ moved' = Restored(r)
    /\ owes' = [owes EXCEPT ![o] = TRUE]
    /\ stalled' = [stalled EXCEPT ![o] = variant = "bandwidth"]
    /\ UNCHANGED <<inflight, below>>

----------------------------------------------------------------------------
(* req_muxed                                                               *)

Becomes(r, st) == mst' = [mst EXCEPT ![r] = st]

ReqInvalid(r) ==
    /\ Dest[r] = Invalid
    /\ Becomes(r, "idle")
    /\ UNCHANGED rvars

(* Of the bandwidth router: the request joins the queue of its input.      *)
ReqStalled(r) ==
    /\ Dest[r] # Invalid /\ stalled[Dest[r]]
    /\ queue' = [queue EXCEPT ![In[r]] = Append(@, r)]
    /\ Becomes(r, "granted")
    /\ UNCHANGED <<stalled, inflight, moved, below, owes>>

ReqForwarded(r) ==
    /\ Dest[r] # Invalid /\ ~stalled[Dest[r]]
    /\ \/ ForwardDone(r, Dest[r]) /\ Becomes(r, "idle")
       \/ ForwardGranted(r, Dest[r]) /\ Becomes(r, "granted")
    /\ UNCHANGED queue

Absorbed(r) == Append(queue[In[r]], r)

(* The bandwidth router absorbs the denial, the untimed one passes it on.  *)
ReqDenied(r) ==
    /\ Dest[r] # Invalid /\ ~stalled[Dest[r]]
    /\ ForwardDenied(r, Dest[r])
    /\ \/ /\ variant = "bandwidth"
          /\ queue' = [queue EXCEPT ![In[r]] = Absorbed(r)]
          /\ Becomes(r, "granted")
       \/ variant = "untimed" /\ Becomes(r, "denied") /\ UNCHANGED queue

req_muxed(r) == ReqInvalid(r) \/ ReqStalled(r) \/ ReqForwarded(r) \/ ReqDenied(r)

MasterSend(r) ==
    /\ Quiet \/ cb = In[r]
    /\ mst[r] = "idle"
    /\ req_muxed(r)
    /\ UNCHANGED <<variant, handler, cb, pvars>>

(* In retry() the master re-issues what was denied.                        *)
MasterResend(r) ==
    /\ cb = In[r] /\ mst[r] = "retrying"
    /\ req_muxed(r)
    /\ UNCHANGED <<variant, handler, cb, pvars>>

(* resp() of the master: only a granted request is waiting for one.        *)
Answer(r) == Becomes(r, IF mst[r] = "granted" THEN "idle" ELSE "spurious")

(* A slip: the InFlight is not re-installed between two beats.             *)
SlipReinstalled(r) == inflight

(* What the bandwidth router does after the master's resp() of a beat that *)
(* is not the last.                                                        *)
Reinstalled(r) == inflight \cup {r}

(* resp() or retry() of the master returns.                                *)
CallbackReturns ==
    /\ cb # None
    /\ \A r \in Reqs : In[r] = cb => mst[r] # "retrying"
    /\ cb' = None
    /\ handler' = IF handler.kind = "beat" THEN Idle ELSE handler
    /\ inflight' = IF handler.kind = "beat" THEN Reinstalled(handler.req) ELSE inflight
    /\ UNCHANGED <<variant, stalled, queue, moved, below, owes, mst, pvars>>

----------------------------------------------------------------------------
(* retry_muxed: input `at` is the next one to look at, or is being drained.*)

(* A slip: the output stays stalled.                                       *)
SlipUnstalled(o) == stalled

Unstalled(o) == [stalled EXCEPT ![o] = FALSE]

retry_muxed(o) ==
    /\ Quiet
    /\ owes' = [owes EXCEPT ![o] = FALSE]
    /\ stalled' = Unstalled(o)
    /\ handler' = [kind |-> "walk", out |-> o, at |-> 0, drains |-> FALSE]
    /\ UNCHANGED <<variant, queue, inflight, moved, below, cb, mst, pvars>>

Walking == handler.kind = "walk" /\ cb = None /\ handler.at \in Inputs
Next_input == [handler EXCEPT !.at = @ + 1, !.drains = FALSE]

(* A slip: only the first input is looked at.                              *)
SlipDrains(i) == i = 0 /\ queue[i] # <<>> /\ Dest[Head(queue[i])] = handler.out

(* The inputs whose oldest request waits for the output that retries.      *)
Drains(i) == queue[i] # <<>> /\ Dest[Head(queue[i])] = handler.out

WalkInput ==
    /\ Walking /\ ~handler.drains /\ variant = "bandwidth"
    /\ handler' = IF Drains(handler.at) THEN [handler EXCEPT !.drains = TRUE] ELSE Next_input
    /\ UNCHANGED <<variant, rvars, cb, mst, pvars>>

(* The untimed router calls retry() of every master.                       *)
WalkRetry ==
    /\ Walking /\ variant = "untimed"
    /\ mst' = [r \in Reqs |-> IF In[r] = handler.at /\ mst[r] = "denied" THEN "retrying" ELSE mst[r]]
    /\ cb' = handler.at
    /\ handler' = Next_input
    /\ UNCHANGED <<variant, rvars, pvars>>

----------------------------------------------------------------------------
(* drain_queue, one request at a time.  (After a denial it reads output_id *)
(* from the element it has just popped; the memory is still as it was.)    *)

Draining(i) == Walking /\ handler.drains /\ handler.at = i

Ready(i) == queue[i] # <<>> /\ ~stalled[Dest[Head(queue[i])]]

DrainStops(i) ==
    /\ Draining(i) /\ ~Ready(i)
    /\ handler' = Next_input
    /\ UNCHANGED <<variant, rvars, cb, mst, pvars>>

DrainAccepted(i) ==
    /\ Draining(i) /\ Ready(i)
    /\ LET r == Head(queue[i])
       IN  /\ queue' = [queue EXCEPT ![i] = Tail(@)]
           /\ \/ ForwardDone(r, Dest[r]) /\ Answer(r) /\ cb' = i
              \/ ForwardGranted(r, Dest[r]) /\ UNCHANGED <<mst, cb>>
    /\ UNCHANGED <<variant, handler, pvars>>

(* Back to the head of the queue.                                          *)
DrainDenied(i) ==
    /\ Draining(i) /\ Ready(i)
    /\ LET r == Head(queue[i]) IN ForwardDenied(r, Dest[r])
    /\ handler' = Next_input
    /\ UNCHANGED <<variant, queue, cb, mst, pvars>>

notify_retry == "Retry"

(* The end of the walk wakes the proxy thread.                             *)
WalkEnds ==
    /\ handler.kind = "walk" /\ cb = None /\ handler.at = nb_input_port
    /\ handler' = Idle
    /\ proxy_retry_waiter' = None
    /\ waiter' = IF proxy_retry_waiter = None THEN waiter ELSE notify_retry
    /\ UNCHANGED <<variant, rvars, cb, mst, pst, pdest>>

----------------------------------------------------------------------------
(* resp_muxed, which looks for the InFlight of r.                          *)

notify_replied == "Replied"

(* The last beat retires the InFlight: the untimed router before it calls  *)
(* the master, the bandwidth router after, when the master may already     *)
(* have issued r again.                                                    *)
RespLast(r) ==
    /\ Quiet /\ r \in below \cap inflight
    /\ inflight' = inflight \ {r} /\ moved' = moved \ {r} /\ below' = below \ {r}
    /\ IF r = Proxy
         THEN waiter' = notify_replied /\ UNCHANGED <<mst, cb>>
         ELSE Answer(r) /\ cb' = In[r] /\ UNCHANGED waiter
    /\ UNCHANGED <<variant, stalled, queue, owes, handler, proxy_retry_waiter, pst, pdest>>

(* The untimed router signals the proxy thread at every beat.              *)
NotifiesBeat == variant = "untimed"

(* A beat that is not the last.  While the master of a bandwidth router    *)
(* runs, the initiator of the request is its own again.                    *)
RespBeat(r) ==
    /\ Quiet /\ r \in below \cap inflight
    /\ IF r = Proxy
         THEN /\ waiter' = IF NotifiesBeat THEN notify_replied ELSE waiter
              /\ UNCHANGED <<inflight, handler, cb>>
         ELSE /\ cb' = In[r]
              /\ \/ /\ variant = "bandwidth" /\ inflight' = inflight \ {r}
                    /\ handler' = [kind |-> "beat", req |-> r]
                 \/ variant = "untimed" /\ UNCHANGED <<inflight, handler>>
              /\ UNCHANGED waiter
    /\ UNCHANGED <<variant, stalled, queue, moved, below, owes, mst,
                   proxy_retry_waiter, pst, pdest>>

----------------------------------------------------------------------------
(* The proxy thread, which holds the engine lock except while it waits.    *)

(* set_retry_waiter(&waiter)                                               *)
RetryHook == Proxy

(* dispatch_proxy_req, with what handle_proxy_command does on each status; *)
(* slot is the proxy_retry_waiter its caller leaves.                       *)
ProxyDone(o, slot) ==
    /\ o # Invalid => ~stalled[o] /\ ~owes[o]
    /\ pst' = "idle" /\ proxy_retry_waiter' = slot
    /\ UNCHANGED rvars

ProxyGranted(o, slot) ==
    /\ o # Invalid /\ ~stalled[o] /\ ForwardGranted(Proxy, o)
    /\ pst' = "wait_reply" /\ proxy_retry_waiter' = slot
    /\ UNCHANGED queue

ProxyDenied(o, slot) ==
    /\ o # Invalid
    /\ \/ stalled[o] /\ UNCHANGED rvars
       \/ ~stalled[o] /\ ForwardDenied(Proxy, o) /\ UNCHANGED queue
    /\ pst' = "wait_retry" /\ proxy_retry_waiter' = RetryHook

dispatch_proxy_req(o, slot) == ProxyDone(o, slot) \/ ProxyGranted(o, slot) \/ ProxyDenied(o, slot)

(* One command at a time; the next has a request of its own, which is here *)
(* the same once the output has let go of it.                              *)
handle_proxy_command(o) ==
    /\ Quiet /\ pst = "idle" /\ Proxy \notin below
    /\ waiter' = "Pending" /\ pdest' = o
    /\ dispatch_proxy_req(o, proxy_retry_waiter)
    /\ UNCHANGED <<variant, handler, cb, mst>>

ProxyRetries ==
    /\ Quiet /\ pst = "wait_retry" /\ waiter = "Retry"
    /\ waiter' = "Pending"
    /\ dispatch_proxy_req(pdest, None)               \* set_retry_waiter(nullptr)
    /\ UNCHANGED <<variant, handler, cb, mst, pdest>>

ProxyReplied ==
    /\ Quiet /\ pst = "wait_reply" /\ waiter = "Replied"
    /\ pst' = "idle"
    /\ UNCHANGED <<variant, rvars, handler, cb, mst, proxy_retry_waiter, waiter, pdest>>

----------------------------------------------------------------------------
Next ==
    \/ \E r \in Reqs : MasterSend(r) \/ MasterResend(r)
    \/ CallbackReturns
    \/ \E o \in Outputs : retry_muxed(o)
    \/ WalkInput \/ WalkRetry \/ WalkEnds
    \/ \E i \in Inputs : DrainStops(i) \/ DrainAccepted(i) \/ DrainDenied(i)
    \/ \E r \in Reqs \cup {Proxy} : RespLast(r) \/ RespBeat(r)
    \/ \E o \in ProxyDests : handle_proxy_command(o)
    \/ ProxyRetries \/ ProxyReplied

Spec == Init /\ [][Next]_vars

(* Callbacks and handlers return.  An output retries what it denied,       *)
(* answers what it granted and does not always deny the first input; the   *)
(* proxy thread gets the engine lock.                                      *)
Handlers ==
    \/ CallbackReturns \/ WalkInput \/ WalkRetry \/ WalkEnds
    \/ \E i \in Inputs : DrainStops(i) \/ DrainAccepted(i) \/ DrainDenied(i)
    \/ \E r \in Reqs : MasterResend(r)

Fairness ==
    /\ WF_vars(Handlers)
    /\ SF_vars(DrainAccepted(0))
    /\ \A o \in Outputs : SF_vars(owes[o] /\ retry_muxed(o))
    /\ \A r \in Reqs \cup {Proxy} : SF_vars(RespLast(r))
    /\ SF_vars(ProxyReplied)

FairSpec == Spec /\ Fairness

----------------------------------------------------------------------------
(* Every variable stays in its range.                                      *)
TypeOK ==
    /\ variant \in {"bandwidth", "untimed"}
    /\ stalled \in [Outputs -> BOOLEAN] /\ owes \in [Outputs -> BOOLEAN]
    /\ queue \in [Inputs -> Seq(Reqs)]
    /\ inflight \subseteq Reqs \cup {Proxy} /\ moved \subseteq Reqs \cup {Proxy}
    /\ below \subseteq Reqs \cup {Proxy}
    /\ handler.kind \in {"idle", "walk", "beat"}
    /\ cb \in Inputs \cup {None}
    /\ mst \in [Reqs -> {"idle", "denied", "retrying", "granted"}]
    /\ proxy_retry_waiter \in {None, Proxy} /\ waiter \in {"Pending", "Replied", "Retry"}
    /\ pst \in {"idle", "wait_reply", "wait_retry"} /\ pdest \in Outputs \cup {Invalid}

(* resp_muxed finds the InFlight of every request an output may answer,    *)
(* whatever its master did in the callbacks of earlier beats; while one of *)
(* these runs, the initiator is the master's own.                          *)
Routed == inflight = IF handler.kind = "beat" THEN below \ {handler.req} ELSE below

(* A proxy command through the bandwidth router returns after the last     *)
(* beat of its answer.  (Through the untimed router it returns after the   *)
(* first.)                                                                 *)
ProxyComplete == variant = "bandwidth" /\ pst = "idle" => Proxy \notin below

(* A granted request is in exactly one place, in the queue of its input or *)
(* at its output, and is translated there and nowhere else: req_muxed,     *)
(* drain_queue and resp_muxed neither lose, duplicate nor translate twice, *)
(* re-entrant calls of the master included.                                *)
GrantedHeld ==
    /\ \A i \in Inputs : IsInjective(queue[i]) /\ ToSet(queue[i]) \subseteq {r \in Reqs : In[r] = i}
    /\ LET waiting == UNION {ToSet(queue[i]) : i \in Inputs}
       IN  /\ waiting \cap below = {}
           /\ waiting \cup (below \ {Proxy}) = {r \in Reqs : mst[r] = "granted"}
    /\ moved = below

(* The types, the InFlight of each request (forward_inline, req_muxed,     *)
(* resp_muxed), a stall only with its retry(), no proxy command over       *)
(* before its answer is, and every granted request in its place.           *)
Inv ==
    /\ TypeOK /\ Routed /\ ProxyComplete /\ GrantedHeld
    /\ \A o \in Outputs : stalled[o] => owes[o]

(* Between two events nobody waits without a retry() to come: a queue for  *)
(* that of the output of its oldest request, a denied master for that of   *)
(* its output, and the proxy thread with its waiter in the slot.           *)
Woken ==
    /\ Quiet => /\ \A i \in Inputs : queue[i] # <<>> => stalled[Dest[Head(queue[i])]]
                /\ \A r \in Reqs : mst[r] = "denied" => owes[Dest[r]]
    /\ pst = "wait_retry" /\ waiter = "Pending" =>
         /\ proxy_retry_waiter = Proxy
         /\ owes[pdest] \/ handler.kind = "walk"

(* What the first input was granted is answered, a denied master is called *)
(* back and a proxy command that was granted returns.  retry_muxed starts  *)
(* at the first input each time, so the others may lose every free slot.   *)
Progress ==
    /\ \A r \in Reqs : In[r] = 0 => (mst[r] = "granted" ~> mst[r] # "granted")
    /\ \A r \in Reqs : mst[r] = "denied" ~> mst[r] # "denied"
    /\ pst = "wait_reply" ~> pst # "wait_reply"
=============================================================================
