------------------------- MODULE RouterBackpressure -------------------------
(***************************************************************************)
(* The rate-limited, blocking io_v2 router,                                *)
(* models/interco/router/router_v2_backpressure.cpp, with the proxy access *)
(* of proxy_command.hpp: several inputs, one output per mapping.  A        *)
(* request whose ports are free is forwarded at once; otherwise it is      *)
(* granted, parked in the only pending_req of its input, and forwarded by  *)
(* send_event.                                                             *)
(*                                                                         *)
(* Abstractions.  A request has a fixed input, and an address that decodes *)
(* to a mapping (Invalid when the decoding, the straddling rule or an      *)
(* unbound output makes it an error); it occupies its ports for Dur        *)
(* cycles, ceil(size / bandwidth).  A watermark is kept relative to the    *)
(* current cycle: cur is what get() returns, nxt what the register holds   *)
(* after the clock edge.  Reads and writes share one channel.  Statistics  *)
(* and traces are left out.                                                *)
(*                                                                         *)
(* req_muxed writes the translated address into the request of the master, *)
(* and a denial by the output leaves it there: a master that issues the    *)
(* same object again, as limiter_v2 and splitter_v2 do, is decoded from    *)
(* the translated address, and may get to another mapping.  The stub       *)
(* master of the tests writes the address again first (MastersRestore).    *)
(*                                                                         *)
(* A master issues on its own or in a callback, and re-issues in retry()   *)
(* what was denied; an eager one goes on issuing while a request of its is *)
(* denied, as the stub master of the tests does.  An output that denies    *)
(* owes a retry() and denies until it makes it, or until it answers an     *)
(* earlier request: a slave calls resp() before retry().                   *)
(***************************************************************************)
EXTENDS Integers, Sequences, FiniteSets

CONSTANTS
    Reqs, nb_input_port, Outputs,
    In, Dur,                \* functions on Reqs
    Addrs, Address,         \* Address[r]: the address of an access
    Dest, Translated,       \* of an address: its mapping, and what it becomes
    MastersRestore,         \* a denied request gets its address again
    latency,                \* of the router
    mapping_latency,        \* of each output
    Loads,                  \* what may be asked of a router: [reqs, dests]
    EagerMasters,           \* masters do not wait for retry()
    Proxy, None, Invalid

Inputs == 0 .. (nb_input_port - 1)
Ports  == Inputs \cup Outputs

ASSUME RouterAssumption ==
    /\ nb_input_port \in Nat \ {0}
    /\ In \in [Reqs -> Inputs]
    /\ Dur \in [Reqs -> Nat]
    /\ Address \in [Reqs -> Addrs]
    /\ Dest \in [Addrs -> Outputs \cup {Invalid}]
    /\ Translated \in [Addrs -> Addrs]
    /\ MastersRestore \in BOOLEAN /\ EagerMasters \in BOOLEAN
    /\ latency \in Nat /\ mapping_latency \in [Outputs -> Nat]
    /\ Loads \subseteq [reqs : SUBSET Reqs, dests : SUBSET (Outputs \cup {Invalid})]
    /\ Invalid \notin Outputs /\ Proxy \notin Reqs
    /\ None \notin Reqs \cup {Proxy} \cup Inputs

(* A request that is denied and issued again decodes to the same mapping.  *)
AddressesKept ==
    MastersRestore \/ \A x \in Addrs : Dest[x] # Invalid => Dest[Translated[x]] = Dest[x]

VARIABLES
    load,               \* requests masters issue, mappings proxy commands go to
    addr,               \* addr[r]: the address the request is issued with next
    route,              \* route[r]: the mapping id it was last decoded to
    bw,                 \* bw[p]: the watermark of a port
    denied_on_output,   \* denied_on_output[i]: the outputs whose bit is set
    pending_req,        \* pending_req[i]
    send_event,         \* send_event[i]: cycles to go, -1 when not enqueued
    inflight,           \* proxy_waiter of the InFlight of each request below
    inflight_free,      \* proxy_waiter of each InFlight of the free list
    handler,            \* the handler of the router that is running
    cb,                 \* the input whose master runs a callback
    mst,                \* mst[r]: what the master knows of its request
    owes,               \* owes[o]: the output denied and has not retried
    proxy_retry_waiter, \* the slot of the router
    waiter,             \* ProxyWaiter::state
    pst, pdest,         \* the proxy thread and the mapping of its command
    misled              \* requests of masters whose answer a stale waiter took

rvars == <<bw, denied_on_output, pending_req, send_event, inflight, inflight_free>>
pvars == <<load, proxy_retry_waiter, waiter, pst, pdest, misled>>
avars == <<addr, route>>
vars  == <<rvars, avars, handler, cb, mst, owes, pvars>>

Idle == [kind |-> "idle"]

Init ==
    /\ load \in Loads
    /\ bw = [p \in Ports |-> [cur |-> 0, nxt |-> 0]]
    /\ denied_on_output = [i \in Inputs |-> {}]
    /\ pending_req = [i \in Inputs |-> None]
    /\ send_event = [i \in Inputs |-> -1]
    /\ inflight = <<>>
    /\ inflight_free = <<>>
    /\ handler = Idle /\ cb = None
    /\ mst = [r \in Reqs |-> "idle"]
    /\ addr = Address /\ route = [r \in Reqs |-> Dest[Address[r]]]
    /\ owes = [o \in Outputs |-> FALSE]
    /\ proxy_retry_waiter = None /\ waiter = "Pending"
    /\ pst = "idle" /\ pdest = Invalid
    /\ misled = {}

(* Nothing runs: the engine is between two events.                         *)
Quiet == handler = Idle /\ cb = None

(* Output o takes a request.                                               *)
Takes(o) == owes[o] => handler.kind = "resp" /\ handler.out = o

Larger(a, b) == IF a >= b THEN a ELSE b

Without(f, x) == [y \in DOMAIN f \ {x} |-> f[y]]
With(f, x, v) == [y \in DOMAIN f \cup {x} |-> IF y = x THEN v ELSE f[y]]

----------------------------------------------------------------------------
(* BandwidthLimiter                                                        *)

peek(p) == bw[p].cur + latency

(* The watermark moves from the value of this cycle: of two commits in one *)
(* cycle the last one stays.                                               *)
Committed(r, o) == [p \in Ports |->
    IF p \in {In[r], o} THEN [bw[p] EXCEPT !.nxt = bw[p].cur + Dur[r]] ELSE bw[p]]

(* The clock edge; a watermark in the past means no delay.                 *)
Edge(w) == LET n == Larger(w.nxt - 1, 0) IN [cur |-> n, nxt |-> n]

----------------------------------------------------------------------------
(* The InFlight free list.                                                 *)

(* alloc_inflight leaves the proxy_waiter of a recycled InFlight alone.    *)
AllocWaiter == IF inflight_free = <<>> THEN None ELSE Head(inflight_free)
AllocRest   == IF inflight_free = <<>> THEN <<>> ELSE Tail(inflight_free)

free_inflight(w) == <<w>> \o inflight_free

(* Taken for a forward that is over at once, and given back.               *)
TakenAndFreed == <<AllocWaiter>> \o AllocRest

----------------------------------------------------------------------------
(* forward to output o, by the status it returns; bits are the deny bits   *)
(* its caller leaves.  The callers add what they do with pending_req and   *)
(* with the master.                                                        *)

(* A slip: the rollback forgets the deny bit.                              *)
SlipDenyBit(r, o, bits) == bits

DenyBit(r, o, bits) == [bits EXCEPT ![In[r]] = @ \cup {o}]

(* The rollback: no bandwidth is committed.                                *)
ForwardDenied(r, o, bits) ==
    /\ denied_on_output' = DenyBit(r, o, bits)
    /\ owes' = [owes EXCEPT ![o] = TRUE]
    /\ inflight_free' = TakenAndFreed
    /\ UNCHANGED <<bw, inflight>>

Forwarded(r, o, bits) ==
    /\ Takes(o)
    /\ denied_on_output' = bits
    /\ bw' = Committed(r, o)
    /\ UNCHANGED owes

ForwardDone(r, o, bits) ==
    /\ Forwarded(r, o, bits)
    /\ inflight_free' = TakenAndFreed
    /\ UNCHANGED inflight

ForwardGranted(r, o, bits) ==
    /\ Forwarded(r, o, bits)
    /\ inflight' = With(inflight, r, AllocWaiter)
    /\ inflight_free' = AllocRest

(* resp() of the master: only a granted request is waiting for one.        *)
Answer(r) == [mst EXCEPT ![r] = IF @ = "granted" THEN "idle" ELSE "spurious"]

(* A slip: the parked request is not put back.                             *)
SlipRestored(r) == None

(* What a denied delayed forward leaves in pending_req.                    *)
Restored(r) == r

(* The two outcomes of forward(from_delayed = true) that end the wait:     *)
(* DONE calls resp(), GRANTED leaves that to resp_muxed.                   *)
DelayedAccepted(r, bits) ==
    /\ pending_req' = [pending_req EXCEPT ![In[r]] = None]
    /\ \/ ForwardDone(r, route[r], bits) /\ mst' = Answer(r) /\ cb' = In[r]
       \/ ForwardGranted(r, route[r], bits) /\ UNCHANGED <<mst, cb>>
    /\ UNCHANGED avars

DelayedDenied(r, bits) ==
    /\ pending_req' = [pending_req EXCEPT ![In[r]] = Restored(r)]
    /\ ForwardDenied(r, route[r], bits)
    /\ UNCHANGED <<mst, cb, avars>>

----------------------------------------------------------------------------
(* req_muxed                                                               *)

(* The mapping the request decodes to.                                     *)
Decoded(r) == Dest[addr[r]]

Delay(r) == Larger(peek(In[r]), peek(Decoded(r))) + mapping_latency[Decoded(r)]

Busy(i) == pending_req[i] # None

(* The one-pending rule: denied, and no bit is set.                        *)
ReqPending(r) ==
    /\ Busy(In[r])
    /\ mst' = [mst EXCEPT ![r] = "denied"]
    /\ UNCHANGED <<rvars, avars, owes>>

(* The next access of the master has its own address.                      *)
NewAccess(r) == [addr EXCEPT ![r] = Address[r]]

(* No mapping: answered at once with an error.                             *)
ReqInvalid(r) ==
    /\ ~Busy(In[r]) /\ Decoded(r) = Invalid
    /\ mst' = [mst EXCEPT ![r] = "idle"]
    /\ addr' = NewAccess(r)
    /\ UNCHANGED <<rvars, route, owes>>

(* What a denied request is issued with again: set_addr of req_muxed, and  *)
(* no restoration when the output denies.                                  *)
LeftTranslated(r) ==
    [addr EXCEPT ![r] = IF MastersRestore THEN Address[r] ELSE Translated[addr[r]]]

ReqInline(r) ==
    /\ ~Busy(In[r]) /\ Decoded(r) # Invalid
    /\ Delay(r) = 0
    /\ route' = [route EXCEPT ![r] = Decoded(r)]
    /\ \/ /\ ForwardDone(r, Decoded(r), denied_on_output)
          /\ mst' = [mst EXCEPT ![r] = "idle"] /\ addr' = NewAccess(r)
       \/ /\ ForwardGranted(r, Decoded(r), denied_on_output)
          /\ mst' = [mst EXCEPT ![r] = "granted"] /\ addr' = NewAccess(r)
       \/ /\ ForwardDenied(r, Decoded(r), denied_on_output)
          /\ mst' = [mst EXCEPT ![r] = "denied"] /\ addr' = LeftTranslated(r)
    /\ UNCHANGED <<pending_req, send_event>>

ReqDelayed(r) ==
    /\ ~Busy(In[r]) /\ Decoded(r) # Invalid
    /\ Delay(r) > 0
    /\ pending_req' = [pending_req EXCEPT ![In[r]] = r]
    /\ route' = [route EXCEPT ![r] = Decoded(r)]
    /\ send_event' = [send_event EXCEPT ![In[r]] = Delay(r)]
    /\ mst' = [mst EXCEPT ![r] = "granted"] /\ addr' = NewAccess(r)
    /\ UNCHANGED <<bw, denied_on_output, inflight, inflight_free, owes>>

req_muxed(r) == ReqPending(r) \/ ReqInvalid(r) \/ ReqInline(r) \/ ReqDelayed(r)

(* A master issues on its own or in a callback.                            *)
MasterSend(r) ==
    /\ Quiet \/ cb = In[r]
    /\ r \in load.reqs /\ mst[r] = "idle"
    /\ EagerMasters \/ \A q \in Reqs : In[q] = In[r] => mst[q] \notin {"denied", "retrying"}
    /\ req_muxed(r)
    /\ UNCHANGED <<handler, cb, pvars>>

(* In retry() it re-issues what was denied.                                *)
MasterResend(r) ==
    /\ cb = In[r] /\ mst[r] = "retrying"
    /\ req_muxed(r)
    /\ UNCHANGED <<handler, cb, pvars>>

(* in->itf.retry(): the callback starts.                                   *)
CallRetry(i) ==
    /\ mst' = [r \in Reqs |-> IF In[r] = i /\ mst[r] = "denied" THEN "retrying" ELSE mst[r]]
    /\ cb' = i

(* resp() or retry() of the master returns.                                *)
CallbackReturns ==
    /\ cb # None
    /\ \A r \in Reqs : In[r] = cb => mst[r] # "retrying"
    /\ cb' = None
    /\ handler' = IF handler.kind = "resp" THEN Idle ELSE handler
    /\ UNCHANGED <<rvars, avars, mst, owes, pvars>>

----------------------------------------------------------------------------
(* send_handler: the delayed forward, then retry() if the input is free.   *)

SendHandler(i) ==
    /\ Quiet /\ send_event[i] = 0
    /\ send_event' = [send_event EXCEPT ![i] = -1]
    /\ \/ DelayedAccepted(pending_req[i], denied_on_output)
       \/ DelayedDenied(pending_req[i], denied_on_output)
    /\ handler' = [kind |-> "send", in |-> i]
    /\ UNCHANGED pvars

SendReturns ==
    /\ handler.kind = "send" /\ cb = None
    /\ handler' = Idle
    /\ IF pending_req[handler.in] = None
         THEN CallRetry(handler.in)
         ELSE UNCHANGED <<mst, cb>>
    /\ UNCHANGED <<rvars, avars, owes, pvars>>

----------------------------------------------------------------------------
(* retry_muxed: the walk over the inputs, from input `at` on.              *)

retry_muxed(o) ==
    /\ Quiet /\ owes[o]
    /\ owes' = [owes EXCEPT ![o] = FALSE]
    /\ handler' = [kind |-> "walk", out |-> o, at |-> 0]
    /\ UNCHANGED <<rvars, avars, cb, mst, pvars>>

Walking(i) ==
    /\ handler.kind = "walk" /\ cb = None
    /\ i >= handler.at /\ handler.out \in denied_on_output[i]
    /\ \A k \in handler.at .. (i - 1) : handler.out \notin denied_on_output[k]

ParkedFor(i, o) == pending_req[i] # None /\ route[pending_req[i]] = o

(* The bit of the input, cleared before anything is forwarded or called.   *)
Cleared(i) == [denied_on_output EXCEPT ![i] = @ \ {handler.out}]

(* The parked request is forwarded again.                                  *)
WalkAccepted(i) ==
    /\ Walking(i) /\ ParkedFor(i, handler.out)
    /\ DelayedAccepted(pending_req[i], Cleared(i))
    /\ handler' = [handler EXCEPT !.at = i + 1]
    /\ UNCHANGED <<send_event, pvars>>

WalkDenied(i) ==
    /\ Walking(i) /\ ParkedFor(i, handler.out)
    /\ DelayedDenied(pending_req[i], Cleared(i))
    /\ handler' = [handler EXCEPT !.at = i + 1]
    /\ UNCHANGED <<send_event, pvars>>

(* The denial was passed on to the master: it is called.                   *)
WalkRetry(i) ==
    /\ Walking(i) /\ ~ParkedFor(i, handler.out)
    /\ denied_on_output' = Cleared(i)
    /\ CallRetry(i)
    /\ handler' = [handler EXCEPT !.at = i + 1]
    /\ UNCHANGED <<bw, pending_req, send_event, inflight, inflight_free, avars, owes, pvars>>

notify_retry == "Retry"

(* The end of the walk wakes the proxy thread.                             *)
WalkEnds ==
    /\ handler.kind = "walk" /\ cb = None
    /\ \A i \in Inputs : i >= handler.at => handler.out \notin denied_on_output[i]
    /\ handler' = Idle
    /\ proxy_retry_waiter' = None
    /\ waiter' = IF proxy_retry_waiter = None THEN waiter ELSE notify_retry
    /\ UNCHANGED <<rvars, avars, cb, mst, owes, load, pst, pdest, misled>>

----------------------------------------------------------------------------
(* A slip: the proxy thread is signalled with the wrong state.             *)
SlipNotifyReplied == "Retry"

notify_replied == "Replied"

(* resp_muxed: the waiter of the InFlight, not its request, decides who is *)
(* told.  A waiter left over from a finished proxy command is a dead stack *)
(* object, which a running command may or may not occupy again.            *)
resp_muxed(r) ==
    /\ Quiet /\ r \in DOMAIN inflight
    /\ inflight' = Without(inflight, r)
    /\ inflight_free' = free_inflight(inflight[r])
    /\ IF inflight[r] # None
         THEN /\ waiter' \in {notify_replied} \cup (IF r = Proxy THEN {} ELSE {waiter})
              /\ misled' = misled \cup ({r} \ {Proxy})
              /\ UNCHANGED <<mst, cb, handler>>
         ELSE /\ mst' = Answer(r)
              /\ cb' = In[r] /\ handler' = [kind |-> "resp", out |-> route[r]]
              /\ UNCHANGED <<waiter, misled>>
    /\ UNCHANGED <<bw, denied_on_output, pending_req, send_event, avars, owes, load,
                   proxy_retry_waiter, pst, pdest>>

----------------------------------------------------------------------------
(* The proxy thread, which holds the engine lock except while it waits.    *)

(* set_retry_waiter(&waiter)                                               *)
RetryHook == Proxy

(* dispatch_proxy_req, with what handle_proxy_command does on each status; *)
(* slot is the proxy_retry_waiter its caller leaves.                       *)
dispatch_proxy_req(o, slot) ==
    \/ /\ o # Invalid => Takes(o)                    \* an error, or DONE
       /\ pst' = "idle" /\ pdest' = Invalid /\ proxy_retry_waiter' = slot
       /\ UNCHANGED <<inflight, inflight_free, owes>>
    \/ /\ o # Invalid /\ Takes(o)                    \* GRANTED
       /\ inflight' = With(inflight, Proxy, Proxy)
       /\ inflight_free' = AllocRest
       /\ pst' = "wait_reply" /\ pdest' = o /\ proxy_retry_waiter' = slot
       /\ UNCHANGED owes
    \/ /\ o # Invalid                                \* DENIED
       /\ owes' = [owes EXCEPT ![o] = TRUE]
       /\ proxy_retry_waiter' = RetryHook
       /\ pst' = "wait_retry" /\ pdest' = o
       /\ UNCHANGED <<inflight, inflight_free>>

handle_proxy_command(o) ==
    /\ Quiet /\ pst = "idle" /\ Proxy \notin DOMAIN inflight
    /\ waiter' = "Pending"
    /\ dispatch_proxy_req(o, proxy_retry_waiter)
    /\ UNCHANGED <<bw, denied_on_output, pending_req, send_event, avars, handler, cb,
                   mst, load, misled>>

ProxyRetries ==
    /\ Quiet /\ pst = "wait_retry" /\ waiter = "Retry"
    /\ waiter' = "Pending"
    /\ dispatch_proxy_req(pdest, None)               \* set_retry_waiter(nullptr)
    /\ UNCHANGED <<bw, denied_on_output, pending_req, send_event, avars, handler, cb,
                   mst, load, misled>>

ProxyReplied ==
    /\ Quiet /\ pst = "wait_reply" /\ waiter = "Replied"
    /\ pst' = "idle" /\ pdest' = Invalid /\ waiter' = "Pending"
    /\ UNCHANGED <<rvars, avars, handler, cb, mst, owes, load, proxy_retry_waiter, misled>>

----------------------------------------------------------------------------
(* The clock engine: due events run before the cycle ends.                 *)
Tick ==
    /\ Quiet /\ \A i \in Inputs : send_event[i] # 0
    /\ bw' = [p \in Ports |-> Edge(bw[p])]
    /\ send_event' = [i \in Inputs |-> IF send_event[i] > 0 THEN send_event[i] - 1 ELSE -1]
    /\ UNCHANGED <<denied_on_output, pending_req, inflight, inflight_free, avars, handler, cb,
                   mst, owes, pvars>>

Next ==
    \/ \E r \in Reqs : MasterSend(r) \/ MasterResend(r)
    \/ CallbackReturns
    \/ \E i \in Inputs : SendHandler(i) \/ WalkAccepted(i) \/ WalkDenied(i) \/ WalkRetry(i)
    \/ SendReturns \/ WalkEnds
    \/ \E o \in Outputs : retry_muxed(o)
    \/ \E r \in Reqs \cup {Proxy} : resp_muxed(r)
    \/ \E o \in load.dests : handle_proxy_command(o)
    \/ ProxyRetries \/ ProxyReplied
    \/ Tick

Spec == Init /\ [][Next]_vars

(* The engine runs what is due, then advances the clock; callbacks and     *)
(* handlers return.  An output answers what it granted, retries what it    *)
(* denied and does not deny the first input for ever; the proxy thread     *)
(* gets the engine lock.                                                   *)
Engine == Tick \/ \E i \in Inputs : SendHandler(i)

Fairness ==
    /\ WF_vars(CallbackReturns \/ SendReturns \/ WalkEnds
                \/ \E i \in Inputs : WalkDenied(i) \/ WalkRetry(i)
                \/ \E r \in Reqs : MasterResend(r))
    /\ SF_vars(Engine)
    /\ SF_vars(WalkAccepted(0))
    /\ \A o \in Outputs : SF_vars(retry_muxed(o))
    /\ \A r \in Reqs \cup {Proxy} : SF_vars(resp_muxed(r))
    /\ SF_vars(ProxyReplied)

FairSpec == Spec /\ Fairness

----------------------------------------------------------------------------
(* Every variable stays in its range.                                      *)
TypeOK ==
    /\ load \in Loads
    /\ \A p \in Ports : bw[p].cur \in Nat /\ bw[p].nxt \in Nat
    /\ denied_on_output \in [Inputs -> SUBSET Outputs]
    /\ pending_req \in [Inputs -> Reqs \cup {None}]
    /\ send_event \in [Inputs -> Int]
    /\ inflight \in [DOMAIN inflight -> {None, Proxy}] /\ DOMAIN inflight \subseteq Reqs \cup {Proxy}
    /\ inflight_free \in Seq({None, Proxy})
    /\ handler.kind \in {"idle", "send", "walk", "resp"}
    /\ cb \in Inputs \cup {None}
    /\ mst \in [Reqs -> {"idle", "denied", "retrying", "granted"}]
    /\ addr \in [Reqs -> Addrs] /\ route \in [Reqs -> Outputs \cup {Invalid}]
    /\ owes \in [Outputs -> BOOLEAN]
    /\ proxy_retry_waiter \in {None, Proxy} /\ waiter \in {"Pending", "Replied", "Retry"}
    /\ misled \subseteq Reqs
    /\ pst \in {"idle", "wait_reply", "wait_retry"} /\ pdest \in Outputs \cup {Invalid}

(* A granted request is in exactly one place, parked at its own input or   *)
(* in flight below, and nothing else is: req_muxed, send_handler,          *)
(* retry_muxed and resp_muxed together neither lose nor duplicate one,     *)
(* except for the answers that a stale waiter takes.                       *)
GrantedHeld ==
    \A r \in Reqs :
        LET parked == pending_req[In[r]] = r
            below  == r \in DOMAIN inflight
        IN  /\ ~(parked /\ below)
            /\ mst[r] = "granted" <=> (parked \/ below \/ r \in misled)
            /\ \A i \in Inputs : pending_req[i] = r => i = In[r]

(* Something will move a parked request: the event that was enqueued for   *)
(* it, or the retry() of the output that denied it.                        *)
ParkedWoken ==
    \A i \in Inputs : pending_req[i] # None =>
        \/ send_event[i] >= 0
        \/ LET o == route[pending_req[i]]
           IN  /\ o \in denied_on_output[i]
               /\ owes[o] \/ (handler.kind = "walk" /\ handler.out = o /\ handler.at <= i)

(* The event of an input is enqueued only with a parked request, so        *)
(* send_handler never forwards a null pointer.                             *)
EventHasRequest == \A i \in Inputs : send_event[i] >= 0 => pending_req[i] # None

(* A deny bit stands for a retry() to come.                                *)
BitsOwed ==
    \A i \in Inputs : \A o \in denied_on_output[i] :
        owes[o] \/ (handler.kind = "walk" /\ handler.out = o /\ handler.at <= i)

(* A proxy thread that waits for a retry() has its waiter in the slot of   *)
(* the router and a retry() to come, or was signalled: retry_muxed and     *)
(* handle_proxy_command never leave it asleep with nobody to signal it.    *)
ProxyWaiterSet ==
    pst = "wait_retry" /\ waiter = "Pending" =>
        /\ proxy_retry_waiter = Proxy
        /\ owes[pdest] \/ handler.kind = "walk"

(* The types, and where every granted request is.                          *)
Inv == TypeOK /\ GrantedHeld

(* Every wait has its wake-up, whichever of req_muxed, send_handler,       *)
(* retry_muxed and handle_proxy_command began it, and no event runs        *)
(* without its request.  It takes AddressesKept: a request denied by one   *)
(* output and issued again to another leaves the bit of the first behind,  *)
(* and the next retry() of that one forwards what another event waits for. *)
Woken == ParkedWoken /\ EventHasRequest /\ BitsOwed /\ ProxyWaiterSet

(* A granted request of the first input is answered, and a proxy command   *)
(* that was granted returns.  The walk of retry_muxed starts at the first  *)
(* input each time, so the masters before it may take every free slot of   *)
(* an output from a request parked at another.                             *)
Progress ==
    /\ \A r \in Reqs : In[r] = 0 =>
          (mst[r] = "granted" ~> mst[r] # "granted" \/ r \in misled)
    /\ pst = "wait_reply" ~> pst # "wait_reply"

(* A denied master is called back: router_v2.py:216 "The master must wait  *)
(* for retry()" and router_v2_backpressure.cpp:509-513 "Once we drop out of*)
(* the pending-req window, the input is free to accept new requests again  *)
(* [...] Signal retry() here so the master can re-send".                   *)
DeniedRetried == \A r \in Reqs : mst[r] = "denied" ~> mst[r] # "denied"
=============================================================================
