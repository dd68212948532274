---------------------- MODULE RouterBackpressureProofs ----------------------
(***************************************************************************)
(* Proofs about RouterBackpressure, for any number of inputs, outputs and  *)
(* requests, all durations and latencies, masters that wait for retry()    *)
(* while a request of theirs is denied, and addresses that a denial does   *)
(* not lead to another mapping.                                            *)
(***************************************************************************)
EXTENDS RouterBackpressure, SequenceTheorems, TLAPS

USE RouterAssumption

----------------------------------------------------------------------------
(* The inductive invariant.                                                *)

Handlers ==
    {Idle} \cup [kind : {"send"}, in : Inputs]
           \cup [kind : {"walk"}, out : Outputs, at : Nat]
           \cup [kind : {"resp"}, out : Outputs]

Watermarks == [Ports -> [cur : Nat, nxt : Nat]]

Types ==
    /\ load \in Loads
    /\ bw \in Watermarks
    /\ denied_on_output \in [Inputs -> SUBSET Outputs]
    /\ pending_req \in [Inputs -> Reqs \cup {None}]
    /\ send_event \in [Inputs -> Int]
    /\ inflight \in [DOMAIN inflight -> {None, Proxy}]
    /\ DOMAIN inflight \subseteq Reqs \cup {Proxy}
    /\ inflight_free \in Seq({None, Proxy})
    /\ handler \in Handlers
    /\ cb \in Inputs \cup {None}
    /\ mst \in [Reqs -> {"idle", "denied", "retrying", "granted"}]
    /\ owes \in [Outputs -> BOOLEAN]
    /\ addr \in [Reqs -> Addrs] /\ (MastersRestore => addr = Address)
    /\ route \in [Reqs -> Outputs \cup {Invalid}]

ProxyTypes ==
    /\ proxy_retry_waiter \in {None, Proxy} /\ waiter \in {"Pending", "Replied", "Retry"}
    /\ misled \subseteq Reqs
    /\ pst \in {"idle", "wait_reply", "wait_retry"} /\ pdest \in Outputs \cup {Invalid}
    /\ pst = "wait_retry" => pdest \in Outputs
    /\ Proxy \in DOMAIN inflight => inflight[Proxy] = Proxy

(* A request of a master is parked, in flight or misled, never two of      *)
(* them.                                                                   *)
Places ==
    /\ \A i \in Inputs : pending_req[i] # None =>
          In[pending_req[i]] = i /\ route[pending_req[i]] \in Outputs
    /\ \A r \in DOMAIN inflight \cap Reqs : route[r] \in Outputs
    /\ \A r \in Reqs :
          /\ mst[r] = "granted" <=> (pending_req[In[r]] = r \/ r \in DOMAIN inflight \/ r \in misled)
          /\ ~(pending_req[In[r]] = r /\ r \in DOMAIN inflight)
          /\ r \in misled => pending_req[In[r]] # r /\ r \notin DOMAIN inflight

Waits(r) == mst[r] \in {"denied", "retrying"}

(* A master has one request denied at a time, and re-issues it in a        *)
(* callback of its own.                                                    *)
Masters ==
    /\ \A q, r \in Reqs : Waits(q) /\ Waits(r) /\ In[q] = In[r] => q = r
    /\ \A r \in Reqs : mst[r] = "retrying" => cb = In[r] /\ handler.kind \in {"idle", "walk"}

(* A deny bit is that of the parked request, whose event is over ...       *)
BitsParked ==
    \A i \in Inputs : \A o \in denied_on_output[i] :
        pending_req[i] # None => route[pending_req[i]] = o /\ send_event[i] < 0

(* ... or, with nothing parked, that of a request denied to its master.    *)
BitsDenied ==
    \A i \in Inputs : \A o \in denied_on_output[i] :
        pending_req[i] = None => \E r \in Reqs : In[r] = i /\ Decoded(r) = o /\ Waits(r)

(* A master is called with the bit still set by send_handler, in the cycle *)
(* of the denial: what it re-issues is not delayed, but denied again.      *)
Called(r) ==
    mst[r] = "retrying" \/ (mst[r] = "denied" /\ handler.kind = "send" /\ handler.in = In[r])

BitsFresh ==
    \A r \in Reqs :
        Decoded(r) \in Outputs /\ Decoded(r) \in denied_on_output[In[r]] /\ Called(r)
            => pending_req[In[r]] # None \/ Delay(r) = 0

(* A parked request waits for its event or has its bit set.                *)
Parked ==
    \A i \in Inputs : pending_req[i] # None =>
        send_event[i] >= 0 \/ route[pending_req[i]] \in denied_on_output[i]

(* While a master is called by the walk, the walk is past its input.       *)
Past == \A i \in Inputs : handler.kind = "walk" /\ cb = i => handler.at = i + 1

IInv ==
    /\ Types /\ ProxyTypes /\ Places /\ Masters /\ BitsParked /\ BitsDenied /\ BitsFresh
    /\ Parked /\ Past /\ EventHasRequest /\ BitsOwed /\ ProxyWaiterSet
----------------------------------------------------------------------------
(* The free list, the watermarks and the handlers.                         *)

LEMMA FreeList ==
    ASSUME inflight_free \in Seq({None, Proxy})
    PROVE  /\ AllocWaiter \in {None, Proxy} /\ AllocRest \in Seq({None, Proxy})
           /\ TakenAndFreed \in Seq({None, Proxy})
           /\ \A w \in {None, Proxy} : free_inflight(w) \in Seq({None, Proxy})
<1>1. AllocWaiter \in {None, Proxy} /\ AllocRest \in Seq({None, Proxy})
  BY DEF AllocWaiter, AllocRest
<1>2. \A w \in {None, Proxy} : \A s \in Seq({None, Proxy}) : <<w>> \o s \in Seq({None, Proxy})
  OBVIOUS
<1> QED
  BY <1>1, <1>2 DEF TakenAndFreed, free_inflight

LEMMA CommittedShape ==
    ASSUME bw \in Watermarks, NEW r \in Reqs, NEW o, bw' = Committed(r, o)
    PROVE  bw' \in Watermarks /\ \A p \in Ports : bw'[p].cur = bw[p].cur
<1> SUFFICES ASSUME NEW p \in Ports
             PROVE  Committed(r, o)[p] \in [cur : Nat, nxt : Nat] /\ Committed(r, o)[p].cur = bw[p].cur
  BY DEF Committed, Watermarks
<1>1. bw[p] \in [cur : Nat, nxt : Nat] /\ Dur[r] \in Nat
  BY DEF Watermarks
<1>2. [bw[p] EXCEPT !.nxt = bw[p].cur + Dur[r]] \in [cur : Nat, nxt : Nat]
  BY <1>1
<1>3. [bw[p] EXCEPT !.nxt = bw[p].cur + Dur[r]].cur = bw[p].cur
  BY <1>1
<1> QED
  BY <1>1, <1>2, <1>3 DEF Committed

(* The delay of a request depends on the watermarks of this cycle only.    *)
LEMMA SameDelay ==
    ASSUME \A p \in Ports : bw'[p].cur = bw[p].cur, NEW r \in Reqs, Decoded(r) \in Outputs,
           addr'[r] = addr[r]
    PROVE  Delay(r)' = Delay(r)
<1>1. Decoded(r)' = Decoded(r)
  BY DEF Decoded
<1>2. \A p \in {In[r], Decoded(r)} : peek(p)' = peek(p)
  BY DEF peek, Ports
<1> QED
  BY <1>1, <1>2 DEF Delay, Larger

LEMMA DelayNat ==
    ASSUME bw \in Watermarks, NEW r \in Reqs, Decoded(r) \in Outputs
    PROVE  Delay(r) \in Nat
<1>1. bw[In[r]].cur \in Nat /\ bw[Decoded(r)].cur \in Nat
  BY DEF Watermarks, Ports
<1> QED
  BY <1>1 DEF Delay, Larger, peek

(* What a request is issued with next, and the mapping it was decoded to.  *)
LEMMA OneAddress ==
    ASSUME Types, NEW r \in Reqs, NEW x \in Addrs, MastersRestore => x = Address[r],
           addr' = [addr EXCEPT ![r] = x]
    PROVE  /\ addr' \in [Reqs -> Addrs] /\ (MastersRestore => addr' = Address)
           /\ addr'[r] = x
           /\ \A q \in Reqs : q # r => addr'[q] = addr[q] /\ Decoded(q)' = Decoded(q)
<1>1. /\ addr' \in [Reqs -> Addrs] /\ addr'[r] = x
      /\ \A q \in Reqs : q # r => addr'[q] = addr[q]
  BY DEF Types
<1>2. MastersRestore => addr' = Address
  BY DEF Types
<1> QED
  BY <1>1, <1>2 DEF Decoded

LEMMA DecodedTypes ==
    ASSUME Types
    PROVE  \A r \in Reqs : Decoded(r) \in Outputs \cup {Invalid}
BY DEF Types, Decoded

LEMMA NewAddress ==
    ASSUME Types, NEW r \in Reqs, addr' = NewAccess(r)
    PROVE  /\ addr' \in [Reqs -> Addrs] /\ (MastersRestore => addr' = Address)
           /\ \A q \in Reqs : q # r => addr'[q] = addr[q] /\ Decoded(q)' = Decoded(q)
<1>1. Address[r] \in Addrs /\ addr' = [addr EXCEPT ![r] = Address[r]]
  BY DEF NewAccess
<1> QED
  BY <1>1, OneAddress

(* A denied request decodes to the same mapping again.                     *)
LEMMA LeftAddress ==
    ASSUME Types, AddressesKept, NEW r \in Reqs, Decoded(r) \in Outputs,
           addr' = LeftTranslated(r)
    PROVE  /\ addr' \in [Reqs -> Addrs] /\ (MastersRestore => addr' = Address)
           /\ \A q \in Reqs : q # r => addr'[q] = addr[q]
           /\ \A q \in Reqs : Decoded(q)' = Decoded(q)
<1>1. addr[r] \in Addrs /\ Address[r] \in Addrs /\ Dest[addr[r]] # Invalid
  BY DEF Types, Decoded
<1>2. CASE MastersRestore
  <2>1. addr' = [addr EXCEPT ![r] = Address[r]] /\ addr[r] = Address[r]
    BY <1>2 DEF LeftTranslated, Types
  <2>2. Decoded(r)' = Decoded(r)
    BY <1>1, <2>1 DEF Decoded, Types
  <2> QED
    BY <1>1, <2>1, <2>2, OneAddress
<1>3. CASE ~MastersRestore
  <2>1. addr' = [addr EXCEPT ![r] = Translated[addr[r]]] /\ Translated[addr[r]] \in Addrs
    BY <1>1, <1>3 DEF LeftTranslated
  <2>2. addr'[r] = Translated[addr[r]] /\ Dest[Translated[addr[r]]] = Dest[addr[r]]
    BY <1>1, <1>3, <2>1 DEF AddressesKept, Types
  <2>3. Decoded(r)' = Decoded(r)
    BY <2>2 DEF Decoded
  <2> QED
    BY <1>3, <2>1, <2>3, OneAddress
<1> QED
  BY <1>2, <1>3

LEMMA NewRoute ==
    ASSUME Types, NEW r \in Reqs, Decoded(r) \in Outputs,
           route' = [route EXCEPT ![r] = Decoded(r)]
    PROVE  /\ route' \in [Reqs -> Outputs \cup {Invalid}] /\ route'[r] = Decoded(r)
           /\ \A q \in Reqs : q # r => route'[q] = route[q]
BY DEF Types

LEMMA SameAddresses ==
    ASSUME UNCHANGED avars
    PROVE  /\ UNCHANGED addr /\ UNCHANGED route
           /\ \A q \in Reqs : Decoded(q)' = Decoded(q)
BY DEF avars, Decoded

LEMMA EdgeShape ==
    ASSUME bw \in Watermarks
    PROVE  [p \in Ports |-> Edge(bw[p])] \in Watermarks
<1> SUFFICES ASSUME NEW p \in Ports PROVE Edge(bw[p]) \in [cur : Nat, nxt : Nat]
  BY DEF Watermarks
<1>1. bw[p].nxt \in Nat
  BY DEF Watermarks
<1>2. Larger(bw[p].nxt - 1, 0) \in Nat
  BY <1>1 DEF Larger
<1> QED
  BY <1>2 DEF Edge

LEMMA HandlerCases ==
    ASSUME handler \in Handlers
    PROVE  /\ handler.kind \in {"idle", "send", "walk", "resp"}
           /\ handler = Idle <=> handler.kind = "idle"
           /\ handler.kind = "send" => handler.in \in Inputs
           /\ handler.kind = "walk" => handler.out \in Outputs /\ handler.at \in Nat
           /\ handler.kind = "resp" => handler.out \in Outputs
BY DEF Handlers, Idle

LEMMA NewHandlers ==
    /\ Idle \in Handlers /\ Idle.kind = "idle"
    /\ \A i \in Inputs : LET h == [kind |-> "send", in |-> i]
                         IN  h \in Handlers /\ h.kind = "send" /\ h.in = i
    /\ \A o \in Outputs : LET h == [kind |-> "resp", out |-> o]
                          IN  h \in Handlers /\ h.kind = "resp" /\ h.out = o
    /\ \A o \in Outputs : LET h == [kind |-> "walk", out |-> o, at |-> 0]
                          IN  h \in Handlers /\ h.kind = "walk" /\ h.out = o /\ h.at = 0
BY DEF Handlers, Idle

LEMMA WalkOn ==
    ASSUME handler \in Handlers, handler.kind = "walk", NEW i \in Inputs,
           handler' = [handler EXCEPT !.at = i + 1]
    PROVE  /\ handler' \in Handlers /\ handler'.kind = "walk"
           /\ handler'.out = handler.out /\ handler'.at = i + 1
<1>1. handler \in [kind : {"walk"}, out : Outputs, at : Nat]
  BY DEF Handlers, Idle
<1>2. i + 1 \in Nat
  BY DEF Inputs
<1>3. handler' \in [kind : {"walk"}, out : Outputs, at : Nat]
  BY <1>1, <1>2
<1> QED
  BY <1>1, <1>3 DEF Handlers
----------------------------------------------------------------------------
(* forward, by its outcome.                                                *)

BitMaps == [Inputs -> SUBSET Outputs]

(* What the outcomes have in common: types, and the delays of this cycle.  *)
Kept ==
    /\ bw' \in Watermarks /\ denied_on_output' \in BitMaps /\ owes' \in [Outputs -> BOOLEAN]
    /\ inflight' \in [DOMAIN inflight' -> {None, Proxy}]
    /\ DOMAIN inflight' \subseteq Reqs \cup {Proxy}
    /\ inflight_free' \in Seq({None, Proxy})
    /\ \A p \in Ports : bw'[p].cur = bw[p].cur
    /\ \A q \in DOMAIN inflight : q \in DOMAIN inflight' /\ inflight'[q] = inflight[q]

LEMMA DoneKeeps ==
    ASSUME Types, NEW r \in Reqs, NEW o \in Outputs, NEW bits \in BitMaps, ForwardDone(r, o, bits)
    PROVE  /\ Kept /\ denied_on_output' = bits /\ owes' = owes /\ inflight' = inflight
           /\ Takes(o)
<1>1. bw' \in Watermarks /\ \A p \in Ports : bw'[p].cur = bw[p].cur
  BY CommittedShape DEF ForwardDone, Forwarded, Types
<1>2. inflight_free' \in Seq({None, Proxy})
  BY FreeList DEF ForwardDone, Types
<1>3. denied_on_output' = bits /\ owes' = owes /\ inflight' = inflight /\ Takes(o)
  BY DEF ForwardDone, Forwarded
<1> QED
  BY <1>1, <1>2, <1>3 DEF Kept, Types

LEMMA GrantedKeeps ==
    ASSUME Types, NEW r \in Reqs, r \notin DOMAIN inflight, NEW o \in Outputs,
           NEW bits \in BitMaps, ForwardGranted(r, o, bits)
    PROVE  /\ Kept /\ denied_on_output' = bits /\ owes' = owes
           /\ DOMAIN inflight' = DOMAIN inflight \cup {r}
           /\ Takes(o)
<1>1. bw' \in Watermarks /\ \A p \in Ports : bw'[p].cur = bw[p].cur
  BY CommittedShape DEF ForwardGranted, Forwarded, Types
<1>2. inflight_free' \in Seq({None, Proxy}) /\ AllocWaiter \in {None, Proxy}
  BY FreeList DEF ForwardGranted, Types
<1>3. denied_on_output' = bits /\ owes' = owes /\ Takes(o)
  BY DEF ForwardGranted, Forwarded
<1>4. inflight' = With(inflight, r, AllocWaiter)
  BY DEF ForwardGranted
<1>5. DOMAIN inflight' = DOMAIN inflight \cup {r}
  BY <1>4 DEF With
<1>6. \A q \in DOMAIN inflight : inflight'[q] = inflight[q]
  BY <1>4 DEF With
<1>7. \A q \in DOMAIN inflight : inflight[q] \in {None, Proxy}
  BY DEF Types
<1>8. \A q \in DOMAIN inflight' : inflight'[q] \in {None, Proxy}
  BY <1>2, <1>4, <1>7 DEF With
<1>9. inflight' \in [DOMAIN inflight' -> {None, Proxy}]
  BY <1>4, <1>8 DEF With
<1>10. DOMAIN inflight' \subseteq Reqs \cup {Proxy}
  BY <1>5 DEF Types
<1> QED
  BY <1>1, <1>2, <1>3, <1>5, <1>6, <1>9, <1>10 DEF Kept, Types

LEMMA DeniedKeeps ==
    ASSUME Types, NEW r \in Reqs, NEW o \in Outputs, NEW bits \in BitMaps,
           ForwardDenied(r, o, bits)
    PROVE  /\ Kept /\ inflight' = inflight
           /\ denied_on_output'[In[r]] = bits[In[r]] \cup {o}
           /\ \A i \in Inputs : i # In[r] => denied_on_output'[i] = bits[i]
           /\ owes'[o] /\ \A p \in Outputs : owes[p] => owes'[p]
<1>1. denied_on_output' = [bits EXCEPT ![In[r]] = @ \cup {o}]
  BY DEF ForwardDenied, DenyBit
<1>2. In[r] \in Inputs
  OBVIOUS
<1>3. /\ denied_on_output' \in BitMaps
      /\ denied_on_output'[In[r]] = bits[In[r]] \cup {o}
      /\ \A i \in Inputs : i # In[r] => denied_on_output'[i] = bits[i]
  BY <1>1, <1>2 DEF BitMaps
<1>4. /\ owes' \in [Outputs -> BOOLEAN] /\ owes'[o]
      /\ \A p \in Outputs : owes[p] => owes'[p]
  BY DEF ForwardDenied, Types
<1>5. inflight_free' \in Seq({None, Proxy})
  BY FreeList DEF ForwardDenied, Types
<1>6. bw' = bw /\ inflight' = inflight
  BY DEF ForwardDenied
<1> QED
  BY <1>3, <1>4, <1>5, <1>6 DEF Kept, Types

----------------------------------------------------------------------------
(* req_muxed.                                                              *)

(* The master is free to issue the request, or has to.                     *)
Issues(r) ==
    \/ mst[r] = "idle" /\ \A q \in Reqs : In[q] = In[r] => ~Waits(q)
    \/ mst[r] = "retrying"

(* A bit at an input with nothing parked is that of the request being      *)
(* issued again, and is owed a retry().                                    *)
LEMMA OwnBit ==
    ASSUME IInv, NEW r \in Reqs, Issues(r), pending_req[In[r]] = None,
           NEW o \in denied_on_output[In[r]]
    PROVE  /\ mst[r] = "retrying" /\ Decoded(r) = o /\ o \in Outputs /\ owes[o]
           /\ Delay(r) = 0 /\ ~Takes(o)
<1> USE DEF IInv
<1>1. In[r] \in Inputs /\ o \in Outputs
  BY DEF Types
<1>2. PICK q \in Reqs : In[q] = In[r] /\ Decoded(q) = o /\ Waits(q)
  BY <1>1 DEF BitsDenied
<1>3. mst[r] = "retrying"
  BY <1>2 DEF Issues
<1>4. q = r
  BY <1>2, <1>3 DEF Masters, Waits
<1>5. Delay(r) = 0
  BY <1>1, <1>2, <1>3, <1>4 DEF BitsFresh, Called
<1>6. cb = In[r] /\ handler.kind \in {"idle", "walk"}
  BY <1>3 DEF Masters
<1>7. owes[o]
  <2>1. CASE handler.kind = "walk"
    <3>1. handler.at = In[r] + 1 /\ In[r] \in Int
      BY <1>1, <1>6, <2>1 DEF Past, Inputs
    <3> QED
      BY <1>1, <3>1 DEF BitsOwed
  <2> QED
    BY <1>1, <1>6, <2>1 DEF BitsOwed
<1> QED
  BY <1>1, <1>2, <1>3, <1>4, <1>5, <1>6, <1>7 DEF Takes
(* What becomes of the master's side when one request changes its state.   *)
LEMMA OneMaster ==
    ASSUME IInv, NEW r \in Reqs, Issues(r), NEW s \in {"idle", "denied", "granted"},
           mst' = [mst EXCEPT ![r] = s], UNCHANGED <<handler, cb>>
    PROVE  /\ mst' \in [Reqs -> {"idle", "denied", "retrying", "granted"}]
           /\ mst'[r] = s /\ \A q \in Reqs : q # r => mst'[q] = mst[q]
           /\ Masters' /\ Past'
           /\ \A q \in Reqs : q # r /\ In[q] = In[r] => ~Waits(q)
<1> USE DEF IInv
<1>1. /\ mst' \in [Reqs -> {"idle", "denied", "retrying", "granted"}]
      /\ mst'[r] = s /\ \A q \in Reqs : q # r => mst'[q] = mst[q]
  BY DEF Types
<1>2. \A q \in Reqs : q # r /\ In[q] = In[r] => ~Waits(q)
  BY DEF Issues, Masters, Waits
<1>3. \A p, q \in Reqs : Waits(p)' /\ Waits(q)' /\ In[p] = In[q] => p = q
  BY <1>1, <1>2 DEF Masters, Waits
<1>4. \A q \in Reqs : mst'[q] = "retrying" => cb' = In[q] /\ handler'.kind \in {"idle", "walk"}
  BY <1>1 DEF Masters
<1> QED
  BY <1>1, <1>2, <1>3, <1>4 DEF Masters, Past

(* The proxy thread is not concerned by what a master sends.               *)
LEMMA ProxyKeeps ==
    ASSUME ProxyTypes, ProxyWaiterSet, Types, UNCHANGED pvars,
           \A q \in DOMAIN inflight : q \in DOMAIN inflight' /\ inflight'[q] = inflight[q],
           Proxy \in DOMAIN inflight' => Proxy \in DOMAIN inflight,
           \A o \in Outputs : owes[o] => owes'[o],
           handler.kind = "walk" => handler'.kind = "walk"
    PROVE  ProxyTypes' /\ ProxyWaiterSet'
<1>1. /\ UNCHANGED proxy_retry_waiter /\ UNCHANGED waiter /\ UNCHANGED pst
      /\ UNCHANGED pdest /\ UNCHANGED misled
  BY DEF pvars
<1>2. ProxyTypes'
  BY <1>1 DEF ProxyTypes
<1> QED
  BY <1>1, <1>2 DEF ProxyWaiterSet, ProxyTypes

(* Nothing of the router changes.                                          *)
LEMMA ReqAnswered ==
    ASSUME IInv, NEW r \in Reqs, Issues(r), ReqPending(r) \/ ReqInvalid(r),
           UNCHANGED <<handler, cb, pvars>>
    PROVE  IInv'
<1> USE DEF IInv
<1>1. PICK s \in {"idle", "denied"} :
        /\ mst' = [mst EXCEPT ![r] = s]
        /\ s = "denied" => pending_req[In[r]] # None
        /\ s = "idle" => pending_req[In[r]] = None /\ Decoded(r) = Invalid
  BY DEF ReqPending, ReqInvalid, Busy
<1>2. UNCHANGED rvars /\ UNCHANGED owes
  BY DEF ReqPending, ReqInvalid
<1>3. /\ UNCHANGED bw /\ UNCHANGED denied_on_output /\ UNCHANGED pending_req
      /\ UNCHANGED send_event /\ UNCHANGED inflight /\ UNCHANGED inflight_free
  BY <1>2 DEF rvars
<1>4. UNCHANGED handler /\ UNCHANGED cb /\ UNCHANGED load /\ UNCHANGED misled
  BY DEF pvars
<1>5. /\ mst' \in [Reqs -> {"idle", "denied", "retrying", "granted"}]
      /\ mst'[r] = s /\ \A q \in Reqs : q # r => mst'[q] = mst[q]
      /\ Masters' /\ Past'
      /\ \A q \in Reqs : q # r /\ In[q] = In[r] => ~Waits(q)
  BY <1>1, <1>4, OneMaster
<1>6. /\ addr' \in [Reqs -> Addrs] /\ (MastersRestore => addr' = Address)
      /\ \A q \in Reqs : q # r => addr'[q] = addr[q] /\ Decoded(q)' = Decoded(q)
  <2>1. CASE ReqPending(r)
    BY <2>1 DEF ReqPending, avars, Types, Decoded
  <2>2. CASE ReqInvalid(r)
    BY <2>2, NewAddress DEF ReqInvalid
  <2> QED
    BY <2>1, <2>2
<1>7. UNCHANGED route
  BY DEF ReqPending, ReqInvalid, avars
<1>8. Types'
  BY <1>2, <1>3, <1>4, <1>5, <1>6, <1>7 DEF Types
<1>9. ProxyTypes' /\ ProxyWaiterSet'
  BY <1>2, <1>3, ProxyKeeps
<1>10. Places'
  BY <1>1, <1>3, <1>4, <1>5, <1>7 DEF Places, Issues
<1>11. BitsParked' /\ Parked' /\ EventHasRequest' /\ BitsOwed'
  BY <1>2, <1>3, <1>4, <1>7 DEF BitsParked, Parked, EventHasRequest, BitsOwed
<1>12. BitsDenied'
  <2> SUFFICES ASSUME NEW i \in Inputs, NEW o \in denied_on_output[i], pending_req[i] = None
               PROVE  \E q \in Reqs : In[q] = i /\ Decoded(q)' = o /\ Waits(q)'
    BY <1>3 DEF BitsDenied
  <2>1. PICK q \in Reqs : In[q] = i /\ Decoded(q) = o /\ Waits(q)
    BY DEF BitsDenied
  <2>2. q # r
    <3>1. CASE i = In[r]
      <4>1. Decoded(r) = o /\ o \in Outputs
        BY <3>1, OwnBit
      <4> QED
        BY <1>1, <3>1, <4>1
    <3> QED
      BY <2>1, <3>1
  <2> QED
    BY <1>5, <1>6, <2>1, <2>2 DEF Waits
<1>13. BitsFresh'
  <2> SUFFICES ASSUME NEW q \in Reqs, Decoded(q)' \in Outputs, Decoded(q)' \in denied_on_output[In[q]],
                      Called(q)', pending_req[In[q]] = None
               PROVE  Delay(q)' = 0
    BY <1>3 DEF BitsFresh
  <2>1. q # r
    BY <1>1, <1>5 DEF Called
  <2>2. Called(q)
    BY <1>4, <1>5, <2>1 DEF Called
  <2> QED
    BY <1>3, <1>6, <2>1, <2>2, SameDelay DEF BitsFresh
<1> QED
  BY <1>5, <1>8, <1>9, <1>10, <1>11, <1>12, <1>13
(* Taken by the output: then there was no bit at the input.                *)
LEMMA ReqTaken ==
    ASSUME IInv, NEW r \in Reqs, Issues(r), pending_req[In[r]] = None, Decoded(r) \in Outputs,
           NEW s \in {"idle", "granted"}, mst' = [mst EXCEPT ![r] = s],
           \/ s = "idle" /\ ForwardDone(r, Decoded(r), denied_on_output)
           \/ s = "granted" /\ ForwardGranted(r, Decoded(r), denied_on_output),
           addr' = NewAccess(r), route' = [route EXCEPT ![r] = Decoded(r)],
           UNCHANGED <<pending_req, send_event, handler, cb, pvars>>
    PROVE  IInv'
<1> USE DEF IInv
<1>1. In[r] \in Inputs /\ denied_on_output \in BitMaps
  BY DEF Types, BitMaps
<1>2. r \notin DOMAIN inflight /\ r \notin misled /\ r # Proxy
  BY DEF Places, Issues
<1>3. /\ Kept /\ denied_on_output' = denied_on_output /\ owes' = owes /\ Takes(Decoded(r))
      /\ s = "idle" => inflight' = inflight
      /\ s = "granted" => DOMAIN inflight' = DOMAIN inflight \cup {r}
  BY <1>1, <1>2, DoneKeeps, GrantedKeeps
<1>4. denied_on_output[In[r]] = {}
  BY <1>3, OwnBit
<1>5. /\ mst' \in [Reqs -> {"idle", "denied", "retrying", "granted"}]
      /\ mst'[r] = s /\ \A q \in Reqs : q # r => mst'[q] = mst[q]
      /\ Masters' /\ Past'
  BY OneMaster
<1>6. UNCHANGED handler /\ UNCHANGED cb /\ UNCHANGED load /\ UNCHANGED misled
  BY DEF pvars
<1>7. /\ addr' \in [Reqs -> Addrs] /\ (MastersRestore => addr' = Address)
      /\ \A q \in Reqs : q # r => addr'[q] = addr[q] /\ Decoded(q)' = Decoded(q)
  BY NewAddress
<1>8. /\ route' \in [Reqs -> Outputs \cup {Invalid}] /\ route'[r] = Decoded(r)
      /\ \A q \in Reqs : q # r => route'[q] = route[q]
  BY NewRoute
<1>9. \A i \in Inputs : pending_req[i] # r
  BY <1>1 DEF Places
<1>10. UNCHANGED pending_req /\ UNCHANGED send_event
  OBVIOUS
<1>11. Types'
  BY <1>3, <1>5, <1>6, <1>7, <1>8 DEF Types, Kept, BitMaps
<1>12. ProxyTypes' /\ ProxyWaiterSet'
  <2>1. Proxy \in DOMAIN inflight' => Proxy \in DOMAIN inflight
    BY <1>2, <1>3
  <2> QED
    BY <1>3, <2>1, ProxyKeeps DEF Kept
<1>13. Places'
  <2>1. \A q \in Reqs : q # r => (q \in DOMAIN inflight' <=> q \in DOMAIN inflight)
    BY <1>3
  <2>2. s = "idle" <=> r \notin DOMAIN inflight'
    BY <1>2, <1>3
  <2>3. pending_req[In[r]] # r
    BY <1>1
  <2>4. \A i \in Inputs : pending_req'[i] # None =>
           In[pending_req'[i]] = i /\ route'[pending_req'[i]] \in Outputs
    BY <1>8, <1>9 DEF Places, Types
  <2>5. \A q \in DOMAIN inflight' \cap Reqs : route'[q] \in Outputs
    BY <1>8, <2>1 DEF Places
  <2> QED
    BY <1>2, <1>5, <1>6, <2>1, <2>2, <2>3, <2>4, <2>5 DEF Places
<1>14. BitsParked' /\ Parked' /\ EventHasRequest' /\ BitsOwed'
  BY <1>3, <1>6, <1>8, <1>9 DEF Types, BitsParked, Parked, EventHasRequest, BitsOwed
<1>15. BitsDenied'
  <2> SUFFICES ASSUME NEW i \in Inputs, NEW o \in denied_on_output[i], pending_req[i] = None
               PROVE  \E q \in Reqs : In[q] = i /\ Decoded(q)' = o /\ Waits(q)'
    BY <1>3, <1>10 DEF BitsDenied
  <2>1. PICK q \in Reqs : In[q] = i /\ Decoded(q) = o /\ Waits(q)
    BY DEF BitsDenied
  <2>2. q # r
    BY <1>4, <2>1
  <2> QED
    BY <1>5, <1>7, <2>1, <2>2 DEF Waits
<1>16. BitsFresh'
  <2> SUFFICES ASSUME NEW q \in Reqs, Decoded(q)' \in Outputs, Decoded(q)' \in denied_on_output[In[q]],
                      Called(q)', pending_req[In[q]] = None
               PROVE  Delay(q)' = 0
    BY <1>3, <1>10 DEF BitsFresh
  <2>1. q # r
    BY <1>4
  <2>2. Called(q)
    BY <1>5, <1>6, <2>1 DEF Called
  <2>3. Delay(q)' = Delay(q)
    BY <1>3, <1>7, <2>1, SameDelay DEF Kept
  <2> QED
    BY <1>7, <2>1, <2>2, <2>3 DEF BitsFresh
<1> QED
  BY <1>5, <1>11, <1>12, <1>13, <1>14, <1>15, <1>16

(* Denied by the output: the bit is set, and the request is not delayed.   *)
LEMMA ReqDenied ==
    ASSUME IInv, NEW r \in Reqs, Issues(r), pending_req[In[r]] = None, Decoded(r) \in Outputs,
           mst' = [mst EXCEPT ![r] = "denied"], ForwardDenied(r, Decoded(r), denied_on_output),
           Delay(r) = 0, AddressesKept,
           addr' = LeftTranslated(r), route' = [route EXCEPT ![r] = Decoded(r)],
           UNCHANGED <<pending_req, send_event, handler, cb, pvars>>
    PROVE  IInv'
<1> USE DEF IInv
<1>1. In[r] \in Inputs /\ denied_on_output \in BitMaps
  BY DEF Types, BitMaps
<1>2. r \notin DOMAIN inflight /\ r \notin misled /\ pending_req[In[r]] # r
  BY DEF Places, Issues
<1>3. /\ Kept /\ inflight' = inflight
      /\ denied_on_output'[In[r]] = denied_on_output[In[r]] \cup {Decoded(r)}
      /\ \A i \in Inputs : i # In[r] => denied_on_output'[i] = denied_on_output[i]
      /\ owes'[Decoded(r)] /\ \A o \in Outputs : owes[o] => owes'[o]
  BY <1>1, DeniedKeeps
<1>4. denied_on_output'[In[r]] = {Decoded(r)}
  BY <1>3, OwnBit
<1>5. /\ mst' \in [Reqs -> {"idle", "denied", "retrying", "granted"}]
      /\ mst'[r] = "denied" /\ \A q \in Reqs : q # r => mst'[q] = mst[q]
      /\ Masters' /\ Past'
      /\ \A q \in Reqs : q # r /\ In[q] = In[r] => ~Waits(q)
  BY OneMaster
<1>6. UNCHANGED handler /\ UNCHANGED cb /\ UNCHANGED load /\ UNCHANGED misled
  BY DEF pvars
<1>7. /\ addr' \in [Reqs -> Addrs] /\ (MastersRestore => addr' = Address)
      /\ \A q \in Reqs : q # r => addr'[q] = addr[q]
      /\ \A q \in Reqs : Decoded(q)' = Decoded(q)
  BY LeftAddress
<1>8. /\ route' \in [Reqs -> Outputs \cup {Invalid}]
      /\ \A q \in Reqs : q # r => route'[q] = route[q]
  BY NewRoute
<1>9. \A i \in Inputs : pending_req[i] # r
  BY <1>1 DEF Places
<1>10. UNCHANGED pending_req /\ UNCHANGED send_event
  OBVIOUS
<1>11. Types'
  BY <1>3, <1>5, <1>6, <1>7, <1>8 DEF Types, Kept, BitMaps
<1>12. ProxyTypes' /\ ProxyWaiterSet'
  BY <1>3, <1>6, ProxyKeeps
<1>13. Places'
  <2>1. \A i \in Inputs : pending_req[i] # None =>
           In[pending_req[i]] = i /\ route'[pending_req[i]] \in Outputs
    BY <1>8, <1>9 DEF Places, Types
  <2>2. \A q \in DOMAIN inflight \cap Reqs : route'[q] \in Outputs
    BY <1>2, <1>8 DEF Places
  <2> QED
    BY <1>2, <1>3, <1>5, <1>6, <1>10, <2>1, <2>2 DEF Places, Issues
<1>14. BitsParked' /\ Parked' /\ EventHasRequest'
  <2>1. \A i \in Inputs : pending_req[i] # None => route'[pending_req[i]] = route[pending_req[i]]
    BY <1>8, <1>9 DEF Types
  <2> QED
    BY <1>3, <1>4, <1>10, <2>1 DEF BitsParked, Parked, EventHasRequest
<1>15. BitsOwed'
  <2> SUFFICES ASSUME NEW i \in Inputs, NEW o \in denied_on_output'[i]
               PROVE  owes'[o] \/ (handler.kind = "walk" /\ handler.out = o /\ handler.at <= i)
    BY <1>6 DEF BitsOwed
  <2>1. CASE i = In[r]
    BY <1>3, <1>4, <2>1
  <2>2. CASE i # In[r]
    <3>1. o \in denied_on_output[i] /\ o \in Outputs
      BY <1>1, <1>3, <2>2 DEF BitMaps
    <3> QED
      BY <1>3, <3>1 DEF BitsOwed
  <2> QED
    BY <2>1, <2>2
<1>16. BitsDenied'
  <2> SUFFICES ASSUME NEW i \in Inputs, NEW o \in denied_on_output'[i], pending_req[i] = None
               PROVE  \E q \in Reqs : In[q] = i /\ Decoded(q)' = o /\ Waits(q)'
    BY <1>10 DEF BitsDenied
  <2>1. CASE i = In[r]
    BY <1>4, <1>5, <1>7, <2>1 DEF Waits
  <2>2. CASE i # In[r]
    <3>1. PICK q \in Reqs : In[q] = i /\ Decoded(q) = o /\ Waits(q)
      BY <1>3, <2>2 DEF BitsDenied
    <3> QED
      BY <1>5, <1>7, <2>2, <3>1 DEF Waits
  <2> QED
    BY <2>1, <2>2
<1>17. BitsFresh'
  <2> SUFFICES ASSUME NEW q \in Reqs, Decoded(q)' \in Outputs, Decoded(q)' \in denied_on_output'[In[q]],
                      Called(q)', pending_req[In[q]] = None
               PROVE  Delay(q)' = 0
    BY <1>10 DEF BitsFresh
  <2>1. Decoded(q)' = Decoded(q)
    BY <1>7
  <2>2. Delay(q)' = Delay(q) /\ In[q] \in Inputs
    <3>1. \A x \in {In[q], Decoded(q)} : peek(x)' = peek(x)
      BY <1>3, <2>1 DEF Kept, peek, Ports
    <3> QED
      BY <2>1, <3>1 DEF Delay, Larger
  <2>3. CASE q = r
    BY <2>2, <2>3
  <2>4. CASE q # r
    <3>1. Called(q) /\ Waits(q)
      BY <1>5, <1>6, <2>4 DEF Called, Waits
    <3>2. In[q] # In[r]
      BY <1>5, <2>4, <3>1
    <3>3. Decoded(q) \in denied_on_output[In[q]]
      BY <1>3, <2>2, <2>1, <3>2
    <3> QED
      BY <2>2, <2>1, <3>1, <3>3 DEF BitsFresh
  <2> QED
    BY <2>3, <2>4
<1> QED
  BY <1>5, <1>11, <1>12, <1>13, <1>14, <1>15, <1>16, <1>17

(* Delayed: then there was no bit at the input either.                     *)
LEMMA ReqParked ==
    ASSUME IInv, NEW r \in Reqs, Issues(r), ReqDelayed(r), UNCHANGED <<handler, cb, pvars>>
    PROVE  IInv'
<1> USE DEF IInv
<1>1. /\ pending_req[In[r]] = None /\ Decoded(r) \in Outputs /\ Delay(r) > 0
      /\ pending_req' = [pending_req EXCEPT ![In[r]] = r]
      /\ send_event' = [send_event EXCEPT ![In[r]] = Delay(r)]
      /\ mst' = [mst EXCEPT ![r] = "granted"]
      /\ addr' = NewAccess(r) /\ route' = [route EXCEPT ![r] = Decoded(r)]
      /\ UNCHANGED bw /\ UNCHANGED denied_on_output /\ UNCHANGED inflight
      /\ UNCHANGED inflight_free /\ UNCHANGED owes
  BY DecodedTypes DEF ReqDelayed, Busy
<1>2. In[r] \in Inputs /\ r # None /\ Delay(r) \in Nat
  BY <1>1, DelayNat DEF Types
<1>3. /\ pending_req'[In[r]] = r /\ send_event'[In[r]] = Delay(r)
      /\ \A i \in Inputs : i # In[r] =>
            pending_req'[i] = pending_req[i] /\ send_event'[i] = send_event[i]
      /\ pending_req' \in [Inputs -> Reqs \cup {None}] /\ send_event' \in [Inputs -> Int]
  BY <1>1, <1>2 DEF Types
<1>4. denied_on_output[In[r]] = {}
  <2>1. \A o \in denied_on_output[In[r]] : Delay(r) = 0
    BY <1>1, OwnBit
  <2> QED
    BY <1>1, <1>2, <2>1
<1>5. /\ mst' \in [Reqs -> {"idle", "denied", "retrying", "granted"}]
      /\ mst'[r] = "granted" /\ \A q \in Reqs : q # r => mst'[q] = mst[q]
      /\ Masters' /\ Past'
  BY <1>1, OneMaster
<1>6. UNCHANGED handler /\ UNCHANGED cb /\ UNCHANGED load /\ UNCHANGED misled
  BY DEF pvars
<1>7. /\ addr' \in [Reqs -> Addrs] /\ (MastersRestore => addr' = Address)
      /\ \A q \in Reqs : q # r => addr'[q] = addr[q] /\ Decoded(q)' = Decoded(q)
  BY <1>1, NewAddress
<1>8. /\ route' \in [Reqs -> Outputs \cup {Invalid}] /\ route'[r] = Decoded(r)
      /\ \A q \in Reqs : q # r => route'[q] = route[q]
  BY <1>1, NewRoute
<1>9. \A i \in Inputs : pending_req[i] # r
  BY <1>1 DEF Places
<1>10. Types'
  BY <1>1, <1>3, <1>5, <1>6, <1>7, <1>8 DEF Types
<1>11. ProxyTypes' /\ ProxyWaiterSet'
  BY <1>1, <1>6, ProxyKeeps
<1>12. Places'
  <2>1. \A i \in Inputs : pending_req'[i] # None =>
           In[pending_req'[i]] = i /\ route'[pending_req'[i]] \in Outputs
    BY <1>1, <1>3, <1>8, <1>9 DEF Places, Types
  <2>2. \A q \in Reqs : q # r => (pending_req'[In[q]] = q <=> pending_req[In[q]] = q)
    <3> SUFFICES ASSUME NEW q \in Reqs, q # r
                 PROVE  pending_req'[In[q]] = q <=> pending_req[In[q]] = q
      OBVIOUS
    <3>1. In[q] \in Inputs /\ q # None
      OBVIOUS
    <3>2. CASE In[q] = In[r]
      BY <1>1, <1>3, <3>1, <3>2
    <3>3. CASE In[q] # In[r]
      BY <1>3, <3>1, <3>3
    <3> QED
      BY <3>2, <3>3
  <2>3. r \notin DOMAIN inflight /\ r \notin misled
    BY DEF Places, Issues
  <2>4. \A q \in DOMAIN inflight' \cap Reqs : route'[q] \in Outputs
    BY <1>1, <1>8, <2>3 DEF Places
  <2> QED
    BY <1>1, <1>3, <1>5, <1>6, <2>1, <2>2, <2>3, <2>4 DEF Places
<1>13. BitsParked' /\ Parked' /\ EventHasRequest' /\ BitsOwed'
  <2>1. \A i \in Inputs : pending_req[i] # None => route'[pending_req[i]] = route[pending_req[i]]
    BY <1>8, <1>9 DEF Types
  <2> QED
    BY <1>1, <1>2, <1>3, <1>4, <1>6, <2>1 DEF BitsParked, Parked, EventHasRequest, BitsOwed
<1>14. BitsDenied'
  <2> SUFFICES ASSUME NEW i \in Inputs, NEW o \in denied_on_output[i], pending_req'[i] = None
               PROVE  \E q \in Reqs : In[q] = i /\ Decoded(q)' = o /\ Waits(q)'
    BY <1>1 DEF BitsDenied
  <2>1. i # In[r]
    BY <1>4
  <2>2. PICK q \in Reqs : In[q] = i /\ Decoded(q) = o /\ Waits(q)
    BY <1>3, <2>1 DEF BitsDenied
  <2> QED
    BY <1>4, <1>5, <1>7, <2>1, <2>2 DEF Waits
<1>15. BitsFresh'
  <2> SUFFICES ASSUME NEW q \in Reqs, Decoded(q)' \in Outputs, Decoded(q)' \in denied_on_output[In[q]],
                      Called(q)', pending_req'[In[q]] = None
               PROVE  Delay(q)' = 0
    BY <1>1 DEF BitsFresh
  <2>1. In[q] # In[r] /\ q # r
    BY <1>4
  <2>2. Called(q)
    BY <1>5, <1>6, <2>1 DEF Called
  <2>3. Delay(q)' = Delay(q)
    BY <1>1, <1>7, <2>1, SameDelay
  <2>4. pending_req[In[q]] = None
    BY <1>3, <2>1
  <2> QED
    BY <1>7, <2>1, <2>2, <2>3, <2>4 DEF BitsFresh
<1> QED
  BY <1>5, <1>10, <1>11, <1>12, <1>13, <1>14, <1>15

LEMMA ReqKeeps ==
    ASSUME IInv, AddressesKept, NEW r \in Reqs, Issues(r), req_muxed(r), UNCHANGED <<handler, cb, pvars>>
    PROVE  IInv'
<1>1. CASE ReqPending(r) \/ ReqInvalid(r)
  BY <1>1, ReqAnswered
<1>2. CASE ReqDelayed(r)
  BY <1>2, ReqParked
<1>3. CASE ReqInline(r)
  <2>1. /\ pending_req[In[r]] = None /\ Decoded(r) \in Outputs /\ Delay(r) = 0
        /\ UNCHANGED pending_req /\ UNCHANGED send_event
        /\ route' = [route EXCEPT ![r] = Decoded(r)]
    BY <1>3, DecodedTypes DEF ReqInline, Busy, IInv
  <2>2. \/ /\ ForwardDone(r, Decoded(r), denied_on_output)
           /\ mst' = [mst EXCEPT ![r] = "idle"] /\ addr' = NewAccess(r)
        \/ /\ ForwardGranted(r, Decoded(r), denied_on_output)
           /\ mst' = [mst EXCEPT ![r] = "granted"] /\ addr' = NewAccess(r)
        \/ /\ ForwardDenied(r, Decoded(r), denied_on_output)
           /\ mst' = [mst EXCEPT ![r] = "denied"] /\ addr' = LeftTranslated(r)
    BY <1>3 DEF ReqInline
  <2>3. CASE /\ ForwardDone(r, Decoded(r), denied_on_output)
             /\ mst' = [mst EXCEPT ![r] = "idle"] /\ addr' = NewAccess(r)
    BY <2>1, <2>3, ReqTaken
  <2>4. CASE /\ ForwardGranted(r, Decoded(r), denied_on_output)
             /\ mst' = [mst EXCEPT ![r] = "granted"] /\ addr' = NewAccess(r)
    BY <2>1, <2>4, ReqTaken
  <2>5. CASE /\ ForwardDenied(r, Decoded(r), denied_on_output)
             /\ mst' = [mst EXCEPT ![r] = "denied"] /\ addr' = LeftTranslated(r)
    BY <2>1, <2>5, ReqDenied
  <2> QED
    BY <2>2, <2>3, <2>4, <2>5
<1> QED
  BY <1>1, <1>2, <1>3 DEF req_muxed
----------------------------------------------------------------------------
(* The delayed forward of the request parked at input i, by send_handler   *)
(* or by the walk, which have taken its bit and its event away.            *)

Taken(i, bits) ==
    /\ bits \in BitMaps /\ bits[i] = {}
    /\ \A k \in Inputs : k # i => bits[k] = denied_on_output[k]
    /\ send_event' \in [Inputs -> Int] /\ send_event'[i] < 0
    /\ \A k \in Inputs : k # i => send_event'[k] = send_event[k]

(* The handler that does it, and what its walk has still to come to.       *)
Serves(i) ==
    /\ handler' \in Handlers
    /\ handler.kind = "walk" => handler'.kind = "walk"
    /\ \/ handler'.kind = "walk" /\ handler'.at = i + 1
       \/ handler'.kind = "send" /\ handler'.in = i
    /\ \A k \in Inputs : k # i => \A o \in denied_on_output[k] :
          owes[o] \/ (handler'.kind = "walk" /\ handler'.out = o /\ handler'.at <= k)

LEMMA NoneRetrying ==
    ASSUME IInv, cb = None
    PROVE  \A q \in Reqs : mst[q] # "retrying"
BY DEF IInv, Masters

LEMMA AcceptedKeeps ==
    ASSUME IInv, cb = None, NEW i \in Inputs, NEW r, r = pending_req[i], r # None, NEW bits,
           Taken(i, bits), Serves(i), DelayedAccepted(r, bits), UNCHANGED pvars
    PROVE  IInv'
<1> USE DEF IInv
<1>1. r \in Reqs /\ In[r] = i /\ route[r] \in Outputs
  BY DEF Places, Types
<1>2. mst[r] = "granted" /\ r \notin DOMAIN inflight /\ r \notin misled /\ r # Proxy
  BY <1>1 DEF Places
<1>3. /\ pending_req' = [pending_req EXCEPT ![i] = None]
      /\ \/ ForwardDone(r, route[r], bits) /\ mst' = Answer(r) /\ cb' = i
         \/ ForwardGranted(r, route[r], bits) /\ UNCHANGED mst /\ UNCHANGED cb
  BY <1>1 DEF DelayedAccepted
<1>4. /\ pending_req'[i] = None /\ \A k \in Inputs : k # i => pending_req'[k] = pending_req[k]
      /\ pending_req' \in [Inputs -> Reqs \cup {None}]
  BY <1>3 DEF Types
<1>5. /\ Kept /\ denied_on_output' = bits /\ owes' = owes
      /\ ForwardDone(r, route[r], bits) => inflight' = inflight
      /\ ForwardGranted(r, route[r], bits) => DOMAIN inflight' = DOMAIN inflight \cup {r}
  BY <1>1, <1>2, <1>3, DoneKeeps, GrantedKeeps DEF Taken
<1>6. \A q \in Reqs : mst[q] # "retrying"
  BY NoneRetrying
<1>7. /\ mst' \in [Reqs -> {"idle", "denied", "retrying", "granted"}]
      /\ \A q \in Reqs : q # r => mst'[q] = mst[q]
      /\ ForwardDone(r, route[r], bits) /\ mst' = Answer(r) => mst'[r] = "idle"
      /\ mst'[r] \in {"idle", "granted"}
  <2>1. CASE mst' = Answer(r)
    <3>1. mst' = [mst EXCEPT ![r] = "idle"]
      BY <1>1, <1>2, <2>1 DEF Answer, Types
    <3> QED
      BY <1>1, <3>1 DEF Types
  <2>2. CASE mst' = mst
    BY <1>1, <1>2, <2>2 DEF Types, Answer
  <2> QED
    BY <1>3, <2>1, <2>2
<1>8. /\ UNCHANGED load /\ UNCHANGED misled
      /\ denied_on_output'[i] = {} /\ denied_on_output' \in BitMaps
      /\ \A k \in Inputs : k # i => denied_on_output'[k] = denied_on_output[k]
  BY <1>5 DEF pvars, Taken
<1>9. /\ UNCHANGED addr /\ UNCHANGED route
      /\ \A q \in Reqs : Decoded(q)' = Decoded(q)
  BY SameAddresses DEF DelayedAccepted
<1>10. Types'
  <2>1. cb' \in Inputs \cup {None}
    BY <1>3
  <2> QED
    BY <1>4, <1>5, <1>7, <1>8, <1>9, <2>1 DEF Types, Kept, Taken, Serves, BitMaps
<1>11. ProxyTypes' /\ ProxyWaiterSet'
  <2>1. Proxy \in DOMAIN inflight' => Proxy \in DOMAIN inflight
    BY <1>2, <1>3, <1>5
  <2> QED
    BY <1>5, <2>1, ProxyKeeps DEF Kept, Serves
<1>12. Places'
  <2>1. \A k \in Inputs : pending_req'[k] # None =>
           In[pending_req'[k]] = k /\ route'[pending_req'[k]] \in Outputs
    BY <1>4, <1>9 DEF Places
  <2>2. \A q \in Reqs : q # r => (pending_req'[In[q]] = q <=> pending_req[In[q]] = q)
    <3> SUFFICES ASSUME NEW q \in Reqs, q # r
                 PROVE  pending_req'[In[q]] = q <=> pending_req[In[q]] = q
      OBVIOUS
    <3>1. In[q] \in Inputs /\ q # None
      OBVIOUS
    <3> QED
      BY <1>4, <3>1
  <2>3. \A q \in Reqs : q # r => (q \in DOMAIN inflight' <=> q \in DOMAIN inflight)
    BY <1>3, <1>5
  <2>4. mst'[r] = "granted" <=> r \in DOMAIN inflight'
    BY <1>2, <1>3, <1>5, <1>7
  <2>5. pending_req'[In[r]] # r
    BY <1>1, <1>4
  <2>6. \A q \in DOMAIN inflight' \cap Reqs : route'[q] \in Outputs
    BY <1>1, <1>9, <2>3 DEF Places
  <2> QED
    BY <1>2, <1>7, <1>8, <2>1, <2>2, <2>3, <2>4, <2>5, <2>6 DEF Places
<1>13. Masters' /\ Past'
  <2>1. \A q \in Reqs : Waits(q)' => Waits(q) /\ mst'[q] # "retrying"
    BY <1>6, <1>7 DEF Waits
  <2>2. \A q \in Reqs : mst'[q] # "retrying"
    BY <1>6, <1>7
  <2>3. Masters'
    BY <2>1, <2>2 DEF Masters
  <2>4. \A k \in Inputs : handler'.kind = "walk" /\ cb' = k => handler'.at = k + 1
    BY <1>3, NewHandlers DEF Serves
  <2> QED
    BY <2>3, <2>4 DEF Past
<1>14. BitsParked' /\ Parked' /\ EventHasRequest'
  <2>1. \A k \in Inputs : pending_req'[k] # None =>
           /\ k # i /\ pending_req'[k] = pending_req[k] /\ send_event'[k] = send_event[k]
           /\ denied_on_output'[k] = denied_on_output[k]
    BY <1>4, <1>8 DEF Taken
  <2>2. BitsParked'
    BY <1>9, <2>1 DEF BitsParked
  <2>3. Parked'
    BY <1>9, <2>1 DEF Parked
  <2>4. EventHasRequest'
    BY <1>4 DEF EventHasRequest, Taken
  <2> QED
    BY <2>2, <2>3, <2>4
<1>15. BitsOwed'
  BY <1>5, <1>8 DEF BitsOwed, Serves
<1>16. BitsDenied'
  <2> SUFFICES ASSUME NEW k \in Inputs, NEW o \in denied_on_output'[k], pending_req'[k] = None
               PROVE  \E q \in Reqs : In[q] = k /\ Decoded(q) = o /\ Waits(q)'
    BY <1>9 DEF BitsDenied
  <2>1. k # i
    BY <1>8
  <2>2. PICK q \in Reqs : In[q] = k /\ Decoded(q) = o /\ Waits(q)
    BY <1>4, <1>8, <2>1 DEF BitsDenied
  <2> QED
    BY <1>1, <1>7, <2>1, <2>2 DEF Waits
<1>17. BitsFresh'
  <2> SUFFICES ASSUME NEW q \in Reqs, Decoded(q) \in denied_on_output'[In[q]], Called(q)'
               PROVE  FALSE
    BY <1>9 DEF BitsFresh
  <2>1. In[q] # i
    BY <1>8
  <2>2. mst'[q] # "retrying"
    BY <1>6, <1>7
  <2> QED
    BY <2>1, <2>2 DEF Called, Serves
<1> QED
  BY <1>10, <1>11, <1>12, <1>13, <1>14, <1>15, <1>16, <1>17

LEMMA RefusedKeeps ==
    ASSUME IInv, cb = None, NEW i \in Inputs, NEW r, r = pending_req[i], r # None, NEW bits,
           Taken(i, bits), Serves(i), DelayedDenied(r, bits), UNCHANGED pvars
    PROVE  IInv'
<1> USE DEF IInv
<1>1. r \in Reqs /\ In[r] = i /\ route[r] \in Outputs
  BY DEF Places, Types
<1>2. /\ pending_req' = [pending_req EXCEPT ![i] = r]
      /\ ForwardDenied(r, route[r], bits) /\ UNCHANGED mst /\ UNCHANGED cb
  BY <1>1 DEF DelayedDenied, Restored
<1>3. pending_req' = pending_req
  BY <1>2 DEF Types
<1>4. /\ Kept /\ inflight' = inflight
      /\ denied_on_output'[i] = bits[i] \cup {route[r]}
      /\ \A k \in Inputs : k # i => denied_on_output'[k] = bits[k]
      /\ owes'[route[r]] /\ \A o \in Outputs : owes[o] => owes'[o]
  BY <1>1, <1>2, DeniedKeeps DEF Taken
<1>5. /\ UNCHANGED load /\ UNCHANGED misled
      /\ denied_on_output'[i] = {route[r]} /\ denied_on_output' \in BitMaps
      /\ \A k \in Inputs : k # i => denied_on_output'[k] = denied_on_output[k]
  BY <1>4 DEF pvars, Taken, Kept
<1>6. /\ UNCHANGED addr /\ UNCHANGED route
      /\ \A q \in Reqs : Decoded(q)' = Decoded(q)
  BY SameAddresses DEF DelayedDenied
<1>7. Types'
  <2>1. /\ send_event' \in [Inputs -> Int] /\ handler' \in Handlers
        /\ denied_on_output' \in [Inputs -> SUBSET Outputs]
    BY <1>5 DEF Taken, Serves, BitMaps
  <2> QED
    BY <1>2, <1>3, <1>4, <1>5, <1>6, <2>1 DEF Types, Kept
<1>8. ProxyTypes' /\ ProxyWaiterSet'
  BY <1>4, ProxyKeeps DEF Serves
<1>9. Places'
  BY <1>2, <1>3, <1>4, <1>5, <1>6 DEF Places
<1>10. Masters' /\ Past'
  BY <1>2, NoneRetrying DEF Masters, Past, Waits
<1>11. BitsParked' /\ Parked' /\ EventHasRequest'
  BY <1>3, <1>5, <1>6 DEF BitsParked, Parked, EventHasRequest, Taken
<1>12. BitsOwed'
  <2> SUFFICES ASSUME NEW k \in Inputs, NEW o \in denied_on_output'[k]
               PROVE  owes'[o] \/ (handler'.kind = "walk" /\ handler'.out = o /\ handler'.at <= k)
    BY DEF BitsOwed
  <2>1. CASE k = i
    BY <1>4, <1>5, <2>1
  <2>2. CASE k # i
    <3>1. o \in denied_on_output[k] /\ o \in Outputs
      BY <1>5, <2>2 DEF BitMaps
    <3> QED
      BY <1>4, <2>2, <3>1 DEF Serves
  <2> QED
    BY <2>1, <2>2
<1>13. BitsDenied'
  <2> SUFFICES ASSUME NEW k \in Inputs, NEW o \in denied_on_output'[k], pending_req[k] = None
               PROVE  \E q \in Reqs : In[q] = k /\ Decoded(q) = o /\ Waits(q)
    BY <1>2, <1>3, <1>6 DEF BitsDenied, Waits
  <2> QED
    BY <1>5 DEF BitsDenied
<1>14. BitsFresh'
  <2> SUFFICES ASSUME NEW q \in Reqs, pending_req[In[q]] = None, Called(q)'
               PROVE  FALSE
    BY <1>3 DEF BitsFresh
  <2>1. In[q] # i
    OBVIOUS
  <2>2. mst'[q] # "retrying"
    BY <1>2, NoneRetrying
  <2> QED
    BY <2>1, <2>2 DEF Called, Serves
<1> QED
  BY <1>7, <1>8, <1>9, <1>10, <1>11, <1>12, <1>13, <1>14
LEMMA QuietHandler ==
    ASSUME Types, Quiet
    PROVE  handler = Idle /\ handler.kind = "idle" /\ cb = None
BY NewHandlers DEF Quiet

LEMMA SendHandlerKeeps ==
    ASSUME IInv, NEW i \in Inputs, SendHandler(i)
    PROVE  IInv'
<1> USE DEF IInv
<1> DEFINE r == pending_req[i]
<1>1. /\ Quiet /\ send_event[i] = 0 /\ send_event' = [send_event EXCEPT ![i] = -1]
      /\ DelayedAccepted(r, denied_on_output) \/ DelayedDenied(r, denied_on_output)
      /\ handler' = [kind |-> "send", in |-> i] /\ UNCHANGED pvars
  BY DEF SendHandler
<1>2. handler.kind = "idle" /\ cb = None
  BY <1>1, QuietHandler
<1>3. r # None
  BY <1>1 DEF EventHasRequest
<1>4. denied_on_output[i] = {}
  BY <1>1, <1>3 DEF BitsParked
<1>5. Taken(i, denied_on_output)
  BY <1>1, <1>4 DEF Taken, Types, BitMaps
<1>6. handler' \in Handlers /\ handler'.kind = "send" /\ handler'.in = i
  BY <1>1, NewHandlers
<1>7. Serves(i)
  BY <1>2, <1>6 DEF Serves, BitsOwed
<1> HIDE DEF r
<1>8. r = pending_req[i]
  BY DEF r
<1> QED
  BY <1>1, <1>2, <1>3, <1>5, <1>7, <1>8, AcceptedKeeps, RefusedKeeps

(* The walk at an input: its bit is taken away first.                      *)
LEMMA WalkTakes ==
    ASSUME IInv, NEW i \in Inputs, Walking(i), handler' = [handler EXCEPT !.at = i + 1],
           UNCHANGED send_event
    PROVE  /\ handler' \in Handlers /\ handler'.kind = "walk" /\ handler'.at = i + 1
           /\ handler'.out = handler.out /\ handler.kind = "walk"
           /\ Serves(i)
           /\ Cleared(i) \in BitMaps /\ Cleared(i)[i] = denied_on_output[i] \ {handler.out}
           /\ \A k \in Inputs : k # i => Cleared(i)[k] = denied_on_output[k]
<1> USE DEF IInv
<1>1. /\ handler.kind = "walk" /\ cb = None /\ i >= handler.at
      /\ \A k \in handler.at .. (i - 1) : handler.out \notin denied_on_output[k]
  BY DEF Walking
<1>2. handler \in Handlers /\ handler.at \in Nat
  BY <1>1, HandlerCases DEF Types
<1>3. /\ handler' \in Handlers /\ handler'.kind = "walk" /\ handler'.at = i + 1
      /\ handler'.out = handler.out
  BY <1>1, <1>2, WalkOn
<1>4. ASSUME NEW k \in Inputs, k # i, NEW o \in denied_on_output[k]
      PROVE  owes[o] \/ (handler'.kind = "walk" /\ handler'.out = o /\ handler'.at <= k)
  <2>1. owes[o] \/ (handler.out = o /\ handler.at <= k)
    BY <1>4 DEF BitsOwed
  <2>2. i \in Int /\ k \in Int
    BY DEF Inputs
  <2>3. handler.out = o /\ handler.at <= k => k > i
    BY <1>1, <1>2, <1>4, <2>2
  <2> QED
    BY <1>3, <2>1, <2>2, <2>3
<1>5. /\ Cleared(i) \in BitMaps /\ Cleared(i)[i] = denied_on_output[i] \ {handler.out}
      /\ \A k \in Inputs : k # i => Cleared(i)[k] = denied_on_output[k]
  BY DEF Cleared, Types, BitMaps
<1> QED
  BY <1>1, <1>3, <1>4, <1>5 DEF Serves

LEMMA WalkServes ==
    ASSUME IInv, NEW i \in Inputs, WalkAccepted(i) \/ WalkDenied(i)
    PROVE  IInv'
<1> USE DEF IInv
<1> DEFINE r == pending_req[i]
           bits == Cleared(i)
<1>1. /\ Walking(i) /\ r # None /\ route[r] = handler.out
      /\ DelayedAccepted(r, bits) \/ DelayedDenied(r, bits)
      /\ handler' = [handler EXCEPT !.at = i + 1]
      /\ UNCHANGED send_event /\ UNCHANGED pvars
  BY DEF WalkAccepted, WalkDenied, ParkedFor
<1>2. cb = None /\ handler.out \in denied_on_output[i]
  BY <1>1 DEF Walking
<1>3. /\ Serves(i)
      /\ bits \in BitMaps /\ bits[i] = denied_on_output[i] \ {handler.out}
      /\ \A k \in Inputs : k # i => bits[k] = denied_on_output[k]
  BY <1>1, WalkTakes
<1>4. send_event[i] < 0 /\ \A o \in denied_on_output[i] : o = handler.out
  BY <1>1, <1>2 DEF BitsParked
<1> HIDE DEF bits, r
<1>5. bits[i] = {}
  BY <1>3, <1>4
<1>6. Taken(i, bits)
  BY <1>1, <1>3, <1>4, <1>5 DEF Taken, Types
<1>7. r = pending_req[i]
  BY DEF r
<1> QED
  BY <1>1, <1>2, <1>3, <1>6, <1>7, AcceptedKeeps, RefusedKeeps

(* The bit of an input with nothing parked was the only one there.         *)
LEMMA WalkRetryKeeps ==
    ASSUME IInv, NEW i \in Inputs, WalkRetry(i)
    PROVE  IInv'
<1> USE DEF IInv
<1>1. /\ Walking(i) /\ ~ParkedFor(i, handler.out) /\ denied_on_output' = Cleared(i)
      /\ mst' = [q \in Reqs |-> IF In[q] = i /\ mst[q] = "denied" THEN "retrying" ELSE mst[q]]
      /\ cb' = i /\ handler' = [handler EXCEPT !.at = i + 1]
      /\ UNCHANGED bw /\ UNCHANGED pending_req /\ UNCHANGED send_event /\ UNCHANGED inflight
      /\ UNCHANGED inflight_free /\ UNCHANGED owes /\ UNCHANGED avars
      /\ UNCHANGED pvars
  BY DEF WalkRetry, CallRetry
<1>2. cb = None /\ handler.out \in denied_on_output[i]
  BY <1>1 DEF Walking
<1>3. pending_req[i] = None
  BY <1>1, <1>2 DEF BitsParked, ParkedFor
<1>4. /\ handler' \in Handlers /\ handler'.kind = "walk" /\ handler'.at = i + 1
      /\ handler'.out = handler.out /\ handler.kind = "walk"
      /\ Serves(i)
      /\ denied_on_output' \in BitMaps
      /\ denied_on_output'[i] = denied_on_output[i] \ {handler.out}
      /\ \A k \in Inputs : k # i => denied_on_output'[k] = denied_on_output[k]
  BY <1>1, WalkTakes
<1>5. denied_on_output'[i] = {}
  <2> SUFFICES ASSUME NEW o \in denied_on_output[i] PROVE o = handler.out
    BY <1>4
  <2>1. PICK p \in Reqs : In[p] = i /\ Decoded(p) = handler.out /\ Waits(p)
    BY <1>2, <1>3 DEF BitsDenied
  <2>2. PICK q \in Reqs : In[q] = i /\ Decoded(q) = o /\ Waits(q)
    BY <1>3 DEF BitsDenied
  <2> QED
    BY <2>1, <2>2 DEF Masters
<1>6. \A q \in Reqs : mst[q] # "retrying"
  BY <1>2, NoneRetrying
<1>7. /\ mst' \in [Reqs -> {"idle", "denied", "retrying", "granted"}]
      /\ \A q \in Reqs : In[q] # i => mst'[q] = mst[q]
      /\ \A q \in Reqs : mst'[q] = "retrying" => In[q] = i
      /\ \A q \in Reqs : Waits(q)' <=> Waits(q)
      /\ \A q \in Reqs : mst'[q] = "granted" <=> mst[q] = "granted"
  BY <1>1, <1>6 DEF Types, Waits
<1>8. UNCHANGED load /\ UNCHANGED misled
  BY <1>1 DEF pvars
<1>9. /\ UNCHANGED addr /\ UNCHANGED route
      /\ \A q \in Reqs : Decoded(q)' = Decoded(q)
  BY <1>1, SameAddresses
<1>10. Types'
  BY <1>1, <1>4, <1>7, <1>8, <1>9 DEF Types, BitMaps
<1>11. ProxyTypes' /\ ProxyWaiterSet'
  BY <1>1, <1>4, ProxyKeeps
<1>12. Places'
  BY <1>1, <1>7, <1>8, <1>9 DEF Places
<1>13. Masters' /\ Past'
  <2>1. \A p, q \in Reqs : Waits(p)' /\ Waits(q)' /\ In[p] = In[q] => p = q
    BY <1>7 DEF Masters
  <2> QED
    BY <1>1, <1>4, <1>7, <2>1 DEF Masters, Past
<1>14. BitsParked' /\ Parked' /\ EventHasRequest'
  BY <1>1, <1>3, <1>4, <1>5, <1>9 DEF BitsParked, Parked, EventHasRequest
<1>15. BitsOwed'
  BY <1>1, <1>4, <1>5 DEF BitsOwed, Serves
<1>16. BitsDenied'
  <2> SUFFICES ASSUME NEW k \in Inputs, NEW o \in denied_on_output'[k], pending_req[k] = None
               PROVE  \E q \in Reqs : In[q] = k /\ Decoded(q) = o /\ Waits(q)'
    BY <1>1, <1>9 DEF BitsDenied
  <2>1. PICK q \in Reqs : In[q] = k /\ Decoded(q) = o /\ Waits(q)
    BY <1>4, <1>5 DEF BitsDenied
  <2> QED
    BY <1>7, <2>1
<1>17. BitsFresh'
  <2> SUFFICES ASSUME NEW q \in Reqs, Decoded(q) \in denied_on_output'[In[q]], Called(q)'
               PROVE  FALSE
    BY <1>9 DEF BitsFresh
  <2>1. In[q] # i
    BY <1>5
  <2> QED
    BY <1>4, <1>7, <2>1 DEF Called
<1> QED
  BY <1>10, <1>11, <1>12, <1>13, <1>14, <1>15, <1>16, <1>17

(* The end of send_handler: the master it calls was denied in this cycle,  *)
(* if there is a bit.                                                      *)
LEMMA SendReturnsKeeps ==
    ASSUME IInv, SendReturns
    PROVE  IInv'
<1> USE DEF IInv
<1> DEFINE i == handler.in
<1>1. /\ handler.kind = "send" /\ cb = None /\ handler' = Idle
      /\ UNCHANGED rvars /\ UNCHANGED avars /\ UNCHANGED owes /\ UNCHANGED pvars
      /\ \/ /\ pending_req[i] = None /\ cb' = i
            /\ mst' = [q \in Reqs |-> IF In[q] = i /\ mst[q] = "denied" THEN "retrying" ELSE mst[q]]
         \/ UNCHANGED mst /\ UNCHANGED cb
  BY DEF SendReturns, CallRetry
<1>2. /\ UNCHANGED bw /\ UNCHANGED denied_on_output /\ UNCHANGED pending_req
      /\ UNCHANGED send_event /\ UNCHANGED inflight /\ UNCHANGED inflight_free
      /\ UNCHANGED load /\ UNCHANGED misled
  BY <1>1 DEF rvars, pvars
<1>3. i \in Inputs /\ handler' \in Handlers /\ handler'.kind = "idle"
  BY <1>1, HandlerCases, NewHandlers DEF Types
<1>4. \A q \in Reqs : mst[q] # "retrying"
  BY <1>1, NoneRetrying
<1> HIDE DEF i
<1>5. /\ mst' \in [Reqs -> {"idle", "denied", "retrying", "granted"}]
      /\ \A q \in Reqs : mst'[q] = "retrying" => In[q] = i /\ cb' = i /\ mst[q] = "denied"
      /\ \A q \in Reqs : Waits(q)' <=> Waits(q)
      /\ \A q \in Reqs : mst'[q] = "granted" <=> mst[q] = "granted"
  BY <1>1, <1>4 DEF Types, Waits
<1>6. /\ UNCHANGED addr /\ UNCHANGED route
      /\ \A q \in Reqs : Decoded(q)' = Decoded(q)
  BY <1>1, SameAddresses
<1>7. Types'
  BY <1>1, <1>2, <1>3, <1>5, <1>6 DEF Types
<1>8. ProxyTypes' /\ ProxyWaiterSet'
  BY <1>1, <1>2, ProxyKeeps
<1>9. Places'
  BY <1>2, <1>5, <1>6 DEF Places
<1>10. Masters' /\ Past'
  <2>1. \A p, q \in Reqs : Waits(p)' /\ Waits(q)' /\ In[p] = In[q] => p = q
    BY <1>5 DEF Masters
  <2> QED
    BY <1>3, <1>5, <2>1 DEF Masters, Past
<1>11. BitsParked' /\ Parked' /\ EventHasRequest' /\ BitsOwed'
  BY <1>1, <1>2, <1>3, <1>6 DEF BitsParked, Parked, EventHasRequest, BitsOwed
<1>12. BitsDenied'
  BY <1>2, <1>5, <1>6 DEF BitsDenied
<1>13. BitsFresh'
  <2> SUFFICES ASSUME NEW q \in Reqs, Decoded(q) \in Outputs, Decoded(q) \in denied_on_output[In[q]],
                      Called(q)', pending_req[In[q]] = None
               PROVE  Delay(q)' = 0
    BY <1>2, <1>6 DEF BitsFresh
  <2>1. mst'[q] = "retrying"
    BY <1>3 DEF Called
  <2>2. Called(q)
    BY <1>1, <1>5, <2>1 DEF Called, i
  <2>3. Delay(q)' = Delay(q)
    BY <1>2, <1>6, SameDelay
  <2> QED
    BY <2>2, <2>3 DEF BitsFresh
<1> QED
  BY <1>7, <1>8, <1>9, <1>10, <1>11, <1>12, <1>13
----------------------------------------------------------------------------
(* The other handlers.                                                     *)

(* Steps that leave the bits, the parked requests and the masters alone.   *)
LEMMA CalmKeeps ==
    ASSUME IInv, cb = None, cb' = None, handler'.kind # "send",
           UNCHANGED denied_on_output, UNCHANGED pending_req, UNCHANGED send_event, UNCHANGED mst,
           UNCHANGED addr, UNCHANGED route
    PROVE  Masters' /\ Past' /\ BitsParked' /\ BitsDenied' /\ BitsFresh' /\ Parked' /\ EventHasRequest'
<1> USE DEF IInv
<1>1. \A q \in Reqs : mst[q] # "retrying"
  BY NoneRetrying
<1>2. Masters' /\ Past'
  BY <1>1 DEF Masters, Past, Waits
<1>3. BitsParked' /\ Parked' /\ EventHasRequest'
  BY DEF BitsParked, Parked, EventHasRequest
<1>4. BitsDenied'
  BY DEF BitsDenied, Waits, Decoded
<1>5. BitsFresh'
  BY <1>1 DEF BitsFresh, Called
<1> QED
  BY <1>2, <1>3, <1>4, <1>5

LEMMA CallbackKeeps ==
    ASSUME IInv, CallbackReturns
    PROVE  IInv'
<1> USE DEF IInv
<1>1. /\ cb' = None /\ \A r \in Reqs : In[r] = cb => mst[r] # "retrying"
      /\ handler' = IF handler.kind = "resp" THEN Idle ELSE handler
      /\ UNCHANGED rvars /\ UNCHANGED avars /\ UNCHANGED mst /\ UNCHANGED owes /\ UNCHANGED pvars
  BY DEF CallbackReturns
<1>2. /\ UNCHANGED bw /\ UNCHANGED denied_on_output /\ UNCHANGED pending_req
      /\ UNCHANGED send_event /\ UNCHANGED inflight /\ UNCHANGED inflight_free
      /\ UNCHANGED load /\ UNCHANGED misled
  BY <1>1 DEF rvars, pvars
<1>3. \A r \in Reqs : mst[r] # "retrying"
  BY <1>1 DEF Masters
<1>4. handler.kind = "walk" \/ handler'.kind \in {"send", "walk"} => handler' = handler
  BY <1>1, NewHandlers DEF Types
<1>5. handler' \in Handlers
  BY <1>1, NewHandlers DEF Types
<1>6. /\ UNCHANGED addr /\ UNCHANGED route
      /\ \A q \in Reqs : Decoded(q)' = Decoded(q)
  BY <1>1, SameAddresses
<1>7. Types'
  BY <1>1, <1>2, <1>5, <1>6 DEF Types
<1>8. ProxyTypes' /\ ProxyWaiterSet'
  <2>1. handler.kind = "walk" => handler'.kind = "walk"
    BY <1>1
  <2> QED
    BY <1>1, <1>2, <2>1, ProxyKeeps
<1>9. Places'
  BY <1>1, <1>2, <1>6 DEF Places
<1>10. Masters' /\ Past'
  BY <1>1, <1>3 DEF Masters, Past, Waits
<1>11. BitsParked' /\ Parked' /\ EventHasRequest'
  BY <1>2, <1>6 DEF BitsParked, Parked, EventHasRequest
<1>12. BitsOwed'
  BY <1>1, <1>2, <1>4 DEF BitsOwed
<1>13. BitsDenied'
  BY <1>1, <1>2, <1>6 DEF BitsDenied, Waits
<1>14. BitsFresh'
  <2> SUFFICES ASSUME NEW q \in Reqs, Decoded(q) \in Outputs, Decoded(q) \in denied_on_output[In[q]],
                      Called(q)', pending_req[In[q]] = None
               PROVE  Delay(q)' = 0
    BY <1>2, <1>6 DEF BitsFresh
  <2>1. Called(q)
    BY <1>1, <1>4 DEF Called
  <2>2. Delay(q)' = Delay(q)
    BY <1>2, <1>6, SameDelay
  <2> QED
    BY <2>1, <2>2 DEF BitsFresh
<1> QED
  BY <1>7, <1>8, <1>9, <1>10, <1>11, <1>12, <1>13, <1>14

LEMMA RetryMuxedKeeps ==
    ASSUME IInv, NEW o \in Outputs, retry_muxed(o)
    PROVE  IInv'
<1> USE DEF IInv
<1>1. /\ Quiet /\ owes' = [owes EXCEPT ![o] = FALSE]
      /\ handler' = [kind |-> "walk", out |-> o, at |-> 0]
      /\ UNCHANGED rvars /\ UNCHANGED avars /\ UNCHANGED cb /\ UNCHANGED mst /\ UNCHANGED pvars
  BY DEF retry_muxed
<1>2. /\ UNCHANGED bw /\ UNCHANGED denied_on_output /\ UNCHANGED pending_req
      /\ UNCHANGED send_event /\ UNCHANGED inflight /\ UNCHANGED inflight_free
      /\ UNCHANGED load /\ UNCHANGED misled /\ UNCHANGED proxy_retry_waiter
      /\ UNCHANGED waiter /\ UNCHANGED pst /\ UNCHANGED pdest
      /\ UNCHANGED addr /\ UNCHANGED route
  BY <1>1 DEF rvars, pvars, avars
<1>3. handler.kind = "idle" /\ cb = None
  BY <1>1, QuietHandler
<1>4. handler' \in Handlers /\ handler'.kind = "walk" /\ handler'.out = o /\ handler'.at = 0
  BY <1>1, NewHandlers
<1>5. owes' \in [Outputs -> BOOLEAN] /\ \A p \in Outputs : p # o => owes'[p] = owes[p]
  BY <1>1 DEF Types
<1>6. Types'
  BY <1>1, <1>2, <1>4, <1>5 DEF Types
<1>7. ProxyTypes' /\ Places'
  BY <1>1, <1>2 DEF ProxyTypes, Places
<1>8. ProxyWaiterSet'
  BY <1>2, <1>4 DEF ProxyWaiterSet
<1>9. BitsOwed'
  <2> SUFFICES ASSUME NEW i \in Inputs, NEW p \in denied_on_output[i]
               PROVE  owes'[p] \/ (handler'.kind = "walk" /\ handler'.out = p /\ handler'.at <= i)
    BY <1>2 DEF BitsOwed
  <2>1. owes[p] /\ p \in Outputs /\ i >= 0
    BY <1>3 DEF BitsOwed, Types, Inputs
  <2> QED
    BY <1>4, <1>5, <2>1
<1> QED
  BY <1>1, <1>2, <1>3, <1>4, <1>6, <1>7, <1>8, <1>9, CalmKeeps

LEMMA WalkEndsKeeps ==
    ASSUME IInv, WalkEnds
    PROVE  IInv'
<1> USE DEF IInv
<1>1. /\ handler.kind = "walk" /\ cb = None /\ handler' = Idle /\ proxy_retry_waiter' = None
      /\ \A i \in Inputs : i >= handler.at => handler.out \notin denied_on_output[i]
      /\ waiter' = IF proxy_retry_waiter = None THEN waiter ELSE "Retry"
      /\ UNCHANGED rvars /\ UNCHANGED avars /\ UNCHANGED cb /\ UNCHANGED mst /\ UNCHANGED owes /\ UNCHANGED load
      /\ UNCHANGED pst /\ UNCHANGED pdest /\ UNCHANGED misled
  BY DEF WalkEnds, notify_retry
<1>2. /\ UNCHANGED bw /\ UNCHANGED denied_on_output /\ UNCHANGED pending_req
      /\ UNCHANGED send_event /\ UNCHANGED inflight /\ UNCHANGED inflight_free
      /\ UNCHANGED addr /\ UNCHANGED route
  BY <1>1 DEF rvars, avars
<1>3. handler' \in Handlers /\ handler'.kind = "idle"
  BY <1>1, NewHandlers
<1>4. Types'
  BY <1>1, <1>2, <1>3 DEF Types
<1>5. ProxyTypes' /\ Places'
  BY <1>1, <1>2 DEF ProxyTypes, Places
<1>6. ProxyWaiterSet'
  BY <1>1 DEF ProxyWaiterSet
<1>7. BitsOwed'
  <2> SUFFICES ASSUME NEW i \in Inputs, NEW p \in denied_on_output[i]
               PROVE  owes[p]
    BY <1>1, <1>2 DEF BitsOwed
  <2>1. handler.at \in Nat /\ i \in Int
    BY <1>1, HandlerCases DEF Types, Inputs
  <2> QED
    BY <1>1, <2>1 DEF BitsOwed
<1> QED
  BY <1>1, <1>2, <1>3, <1>4, <1>5, <1>6, <1>7, CalmKeeps

LEMMA RespKeeps ==
    ASSUME IInv, NEW r \in Reqs \cup {Proxy}, resp_muxed(r)
    PROVE  IInv'
<1> USE DEF IInv
<1>1. /\ Quiet /\ r \in DOMAIN inflight /\ inflight' = Without(inflight, r)
      /\ inflight_free' = free_inflight(inflight[r])
      /\ UNCHANGED bw /\ UNCHANGED denied_on_output /\ UNCHANGED pending_req
      /\ UNCHANGED send_event /\ UNCHANGED owes /\ UNCHANGED load
      /\ UNCHANGED proxy_retry_waiter /\ UNCHANGED pst /\ UNCHANGED pdest
      /\ UNCHANGED addr /\ UNCHANGED route
  BY DEF resp_muxed, avars
<1>2. handler.kind = "idle" /\ cb = None
  BY <1>1, QuietHandler
<1>3. /\ DOMAIN inflight' = DOMAIN inflight \ {r}
      /\ \A q \in DOMAIN inflight' : inflight'[q] = inflight[q]
      /\ inflight' = [q \in DOMAIN inflight' |-> inflight'[q]]
  BY <1>1 DEF Without
<1>4. /\ inflight' \in [DOMAIN inflight' -> {None, Proxy}]
      /\ DOMAIN inflight' \subseteq Reqs \cup {Proxy}
  <2>1. \A q \in DOMAIN inflight : inflight[q] \in {None, Proxy}
    BY DEF Types
  <2>2. \A q \in DOMAIN inflight' : inflight'[q] \in {None, Proxy}
    BY <1>3, <2>1
  <2> QED
    BY <1>3, <2>2 DEF Types
<1>5. inflight_free' \in Seq({None, Proxy})
  <2>1. inflight[r] \in {None, Proxy}
    BY <1>1 DEF Types
  <2> QED
    BY <1>1, <2>1, FreeList DEF Types
<1>6. r \in Reqs => /\ mst[r] = "granted" /\ route[r] \in Outputs /\ r \notin misled
                    /\ pending_req[In[r]] # r
  BY <1>1 DEF Places
<1>7. BitsOwed'
  <2>1. \A i \in Inputs : \A o \in denied_on_output[i] : owes[o]
    BY <1>2 DEF BitsOwed
  <2> QED
    BY <1>1, <2>1 DEF BitsOwed
<1>8. CASE inflight[r] # None
  <2>1. /\ waiter' \in {"Replied", waiter} /\ misled' = misled \cup ({r} \ {Proxy})
        /\ UNCHANGED mst /\ UNCHANGED cb /\ UNCHANGED handler
    <3>1. waiter' \in {"Replied"} \cup (IF r = Proxy THEN {} ELSE {waiter})
      BY <1>8 DEF resp_muxed, notify_replied
    <3> QED
      BY <1>8, <3>1 DEF resp_muxed
  <2>2. Types'
    BY <1>1, <1>4, <1>5, <2>1 DEF Types
  <2>3. ProxyTypes'
    <3>1. waiter' \in {"Pending", "Replied", "Retry"} /\ misled' \subseteq Reqs
      BY <2>1 DEF ProxyTypes
    <3>2. Proxy \in DOMAIN inflight' => inflight'[Proxy] = Proxy
      BY <1>3 DEF ProxyTypes
    <3> QED
      BY <1>1, <3>1, <3>2 DEF ProxyTypes
  <2>4. Places'
    <3>1. \A q \in Reqs : q # r =>
            (q \in DOMAIN inflight' <=> q \in DOMAIN inflight) /\ (q \in misled' <=> q \in misled)
      BY <1>3, <2>1
    <3>2. r \in Reqs => r \notin DOMAIN inflight' /\ r \in misled'
      BY <1>3, <2>1
    <3> QED
      BY <1>1, <1>3, <1>6, <2>1, <3>1, <3>2 DEF Places
  <2>5. ProxyWaiterSet'
    BY <1>1, <2>1 DEF ProxyWaiterSet
  <2> QED
    BY <1>1, <1>2, <1>7, <2>1, <2>2, <2>3, <2>4, <2>5, CalmKeeps
<1>9. CASE inflight[r] = None
  <2>1. r \in Reqs
    BY <1>1, <1>9 DEF ProxyTypes
  <2>2. /\ mst' = Answer(r) /\ cb' = In[r] /\ handler' = [kind |-> "resp", out |-> route[r]]
        /\ UNCHANGED waiter /\ UNCHANGED misled
    BY <1>9 DEF resp_muxed
  <2>3. mst' = [mst EXCEPT ![r] = "idle"]
    BY <1>6, <2>1, <2>2 DEF Answer, Types
  <2>4. /\ mst' \in [Reqs -> {"idle", "denied", "retrying", "granted"}]
        /\ mst'[r] = "idle" /\ \A q \in Reqs : q # r => mst'[q] = mst[q]
    BY <2>1, <2>3 DEF Types
  <2>5. handler' \in Handlers /\ handler'.kind = "resp" /\ In[r] \in Inputs
    BY <1>6, <2>1, <2>2, NewHandlers
  <2>6. \A q \in Reqs : mst'[q] # "retrying" /\ (Waits(q)' <=> Waits(q))
    BY <1>2, <1>6, <2>1, <2>4, NoneRetrying DEF Waits
  <2>7. Types'
    BY <1>1, <1>4, <1>5, <2>2, <2>4, <2>5 DEF Types
  <2>8. ProxyTypes'
    BY <1>1, <1>3, <2>2 DEF ProxyTypes
  <2>9. Places'
    <3>1. \A q \in Reqs : q # r => (q \in DOMAIN inflight' <=> q \in DOMAIN inflight)
      BY <1>3
    <3>2. r \notin DOMAIN inflight'
      BY <1>3
    <3> QED
      BY <1>1, <1>3, <1>6, <2>1, <2>2, <2>4, <3>1, <3>2 DEF Places
  <2>10. ProxyWaiterSet'
    BY <1>1, <1>2, <2>2 DEF ProxyWaiterSet
  <2>11. Masters' /\ Past'
    BY <2>5, <2>6 DEF Masters, Past
  <2>12. BitsParked' /\ Parked' /\ EventHasRequest'
    BY <1>1 DEF BitsParked, Parked, EventHasRequest
  <2>13. BitsDenied' /\ BitsFresh'
    <3>1. BitsDenied'
      BY <1>1, <2>6 DEF BitsDenied, Decoded
    <3> QED
      BY <2>5, <2>6, <3>1 DEF BitsFresh, Called
  <2> QED
    BY <1>7, <2>7, <2>8, <2>9, <2>10, <2>11, <2>12, <2>13
<1> QED
  BY <1>8, <1>9

(* A proxy command, from Quiet to Quiet.                                   *)
LEMMA ProxyCommandKeeps ==
    ASSUME IInv, Quiet, NEW o \in Outputs \cup {Invalid}, NEW slot \in {None, Proxy},
           Proxy \notin DOMAIN inflight \/ pst = "wait_retry",
           waiter' = "Pending", dispatch_proxy_req(o, slot),
           UNCHANGED <<bw, denied_on_output, pending_req, send_event, avars, handler, cb,
                       mst, load, misled>>
    PROVE  IInv'
<1> USE DEF IInv
<1>1. handler.kind = "idle" /\ cb = None
  BY QuietHandler
<1>2. /\ UNCHANGED bw /\ UNCHANGED denied_on_output /\ UNCHANGED pending_req
      /\ UNCHANGED send_event /\ UNCHANGED handler /\ UNCHANGED cb
      /\ UNCHANGED mst /\ UNCHANGED load /\ UNCHANGED misled
      /\ UNCHANGED addr /\ UNCHANGED route
  BY DEF avars
<1>3. /\ inflight_free' \in Seq({None, Proxy})
      /\ owes' \in [Outputs -> BOOLEAN] /\ \A p \in Outputs : owes[p] => owes'[p]
  <2>1. inflight_free' \in {inflight_free, AllocRest}
    BY DEF dispatch_proxy_req
  <2>2. owes' = owes \/ (o \in Outputs /\ owes' = [owes EXCEPT ![o] = TRUE])
    BY DEF dispatch_proxy_req
  <2>3. owes' \in [Outputs -> BOOLEAN] /\ \A p \in Outputs : owes[p] => owes'[p]
    BY <2>2 DEF Types
  <2> QED
    BY <2>1, <2>3, FreeList DEF Types
<1>4. /\ inflight' \in [DOMAIN inflight' -> {None, Proxy}]
      /\ DOMAIN inflight' \subseteq Reqs \cup {Proxy}
      /\ Proxy \in DOMAIN inflight' => inflight'[Proxy] = Proxy
      /\ \A q \in Reqs : q \in DOMAIN inflight' <=> q \in DOMAIN inflight
  <2>1. CASE inflight' = inflight
    BY <2>1 DEF Types, ProxyTypes
  <2>2. CASE inflight' = With(inflight, Proxy, Proxy)
    <3>1. \A q \in DOMAIN inflight : inflight[q] \in {None, Proxy}
      BY DEF Types
    <3>2. /\ DOMAIN inflight' = DOMAIN inflight \cup {Proxy}
          /\ \A q \in DOMAIN inflight' : inflight'[q] = IF q = Proxy THEN Proxy ELSE inflight[q]
      BY <2>2 DEF With
    <3>3. \A q \in DOMAIN inflight' : inflight'[q] \in {None, Proxy}
      BY <3>1, <3>2
    <3>4. inflight' \in [DOMAIN inflight' -> {None, Proxy}]
      BY <2>2, <3>3 DEF With
    <3> QED
      BY <3>2, <3>4 DEF Types
  <2> QED
    BY <2>1, <2>2 DEF dispatch_proxy_req
<1>5. /\ pst' \in {"idle", "wait_reply", "wait_retry"} /\ pdest' \in Outputs \cup {Invalid}
      /\ proxy_retry_waiter' \in {None, Proxy}
      /\ pst' = "wait_retry" =>
           pdest' \in Outputs /\ proxy_retry_waiter' = Proxy /\ owes'[pdest']
  BY DEF dispatch_proxy_req, RetryHook, Types
<1>6. Types'
  BY <1>2, <1>3, <1>4 DEF Types
<1>7. ProxyTypes' /\ ProxyWaiterSet'
  BY <1>2, <1>4, <1>5 DEF ProxyTypes, ProxyWaiterSet
<1>8. Places'
  BY <1>2, <1>4 DEF Places
<1>9. BitsOwed'
  <2>1. \A i \in Inputs : \A p \in denied_on_output[i] : owes[p] /\ p \in Outputs
    BY <1>1 DEF BitsOwed, Types
  <2> QED
    BY <1>2, <1>3, <2>1 DEF BitsOwed
<1> QED
  BY <1>1, <1>2, <1>6, <1>7, <1>8, <1>9, CalmKeeps

LEMMA ProxyKeepsAll ==
    ASSUME IInv, \/ \E o \in load.dests : handle_proxy_command(o)
                 \/ ProxyRetries \/ ProxyReplied
    PROVE  IInv'
<1> USE DEF IInv
<1>1. CASE \E o \in load.dests : handle_proxy_command(o)
  <2>1. PICK o \in load.dests : handle_proxy_command(o)
    BY <1>1
  <2>2. o \in Outputs \cup {Invalid} /\ proxy_retry_waiter \in {None, Proxy}
    BY DEF Types, ProxyTypes
  <2>3. /\ Quiet /\ Proxy \notin DOMAIN inflight /\ waiter' = "Pending"
        /\ dispatch_proxy_req(o, proxy_retry_waiter)
        /\ UNCHANGED <<bw, denied_on_output, pending_req, send_event, avars, handler, cb,
                       mst, load, misled>>
    BY <2>1 DEF handle_proxy_command
  <2> QED
    BY <2>2, <2>3, ProxyCommandKeeps
<1>2. CASE ProxyRetries
  <2>1. pdest \in Outputs \cup {Invalid}
    BY DEF ProxyTypes
  <2>2. /\ Quiet /\ pst = "wait_retry" /\ waiter' = "Pending" /\ dispatch_proxy_req(pdest, None)
        /\ UNCHANGED <<bw, denied_on_output, pending_req, send_event, avars, handler, cb,
                       mst, load, misled>>
    BY <1>2 DEF ProxyRetries
  <2> QED
    BY <2>1, <2>2, ProxyCommandKeeps
<1>3. CASE ProxyReplied
  <2>1. /\ Quiet /\ pst' = "idle" /\ pdest' = Invalid /\ waiter' = "Pending"
        /\ UNCHANGED rvars /\ UNCHANGED handler /\ UNCHANGED cb /\ UNCHANGED mst
        /\ UNCHANGED owes /\ UNCHANGED load /\ UNCHANGED proxy_retry_waiter /\ UNCHANGED misled
        /\ UNCHANGED avars
    BY <1>3 DEF ProxyReplied
  <2>2. /\ UNCHANGED bw /\ UNCHANGED denied_on_output /\ UNCHANGED pending_req
        /\ UNCHANGED send_event /\ UNCHANGED inflight /\ UNCHANGED inflight_free
        /\ UNCHANGED addr /\ UNCHANGED route
    BY <2>1 DEF rvars, avars
  <2>3. handler.kind = "idle" /\ cb = None
    BY <2>1, QuietHandler
  <2>4. Types' /\ Places'
    BY <2>1, <2>2 DEF Types, Places
  <2>5. ProxyTypes' /\ ProxyWaiterSet' /\ BitsOwed'
    BY <2>1, <2>2 DEF ProxyTypes, ProxyWaiterSet, BitsOwed
  <2> QED
    BY <2>1, <2>2, <2>3, <2>4, <2>5, CalmKeeps
<1> QED
  BY <1>1, <1>2, <1>3

(* Between two cycles nobody is called, and the delays may change.         *)
LEMMA TickKeeps ==
    ASSUME IInv, Tick
    PROVE  IInv'
<1> USE DEF IInv
<1>1. /\ Quiet /\ \A i \in Inputs : send_event[i] # 0
      /\ bw' = [p \in Ports |-> Edge(bw[p])]
      /\ send_event' = [i \in Inputs |-> IF send_event[i] > 0 THEN send_event[i] - 1 ELSE -1]
      /\ UNCHANGED denied_on_output /\ UNCHANGED pending_req /\ UNCHANGED inflight
      /\ UNCHANGED inflight_free /\ UNCHANGED handler /\ UNCHANGED cb
      /\ UNCHANGED mst /\ UNCHANGED owes /\ UNCHANGED pvars
      /\ UNCHANGED addr /\ UNCHANGED route
  BY DEF Tick, avars
<1>2. handler.kind = "idle" /\ cb = None
  BY <1>1, QuietHandler
<1>3. bw' \in Watermarks
  BY <1>1, EdgeShape DEF Types
<1>4. /\ send_event' \in [Inputs -> Int]
      /\ \A i \in Inputs : (send_event'[i] >= 0 <=> send_event[i] >= 0)
      /\ \A i \in Inputs : (send_event[i] < 0 => send_event'[i] < 0)
  BY <1>1 DEF Types
<1>5. UNCHANGED load /\ UNCHANGED misled
  BY <1>1 DEF pvars
<1>6. Types' /\ Places'
  BY <1>1, <1>3, <1>4, <1>5 DEF Types, Places
<1>7. ProxyTypes' /\ ProxyWaiterSet'
  BY <1>1, ProxyKeeps
<1>8. BitsParked' /\ Parked' /\ EventHasRequest' /\ BitsOwed'
  BY <1>1, <1>4 DEF BitsParked, Parked, EventHasRequest, BitsOwed
<1>9. Masters' /\ Past' /\ BitsDenied'
  BY <1>1 DEF Masters, Past, BitsDenied, Waits, Decoded
<1>10. BitsFresh'
  <2>1. \A q \in Reqs : mst[q] # "retrying"
    BY <1>2, NoneRetrying
  <2> QED
    BY <1>1, <1>2, <2>1 DEF BitsFresh, Called
<1> QED
  BY <1>6, <1>7, <1>8, <1>9, <1>10

----------------------------------------------------------------------------
(* The theorems.                                                           *)

LEMMA IInvInit ==
    ASSUME Init PROVE IInv
<1>1. bw \in Watermarks
  BY DEF Init, Watermarks
<1>2. inflight = <<>> /\ DOMAIN inflight = {} /\ inflight_free \in Seq({None, Proxy})
  BY DEF Init
<1>3. inflight \in [DOMAIN inflight -> {None, Proxy}]
  BY <1>2
<1>4. handler = Idle /\ handler \in Handlers /\ handler.kind = "idle"
  BY NewHandlers DEF Init
<1>5. Types
  BY <1>1, <1>2, <1>3, <1>4 DEF Init, Types
<1>6. ProxyTypes /\ Places /\ Masters /\ Past
  BY <1>2, <1>4 DEF Init, ProxyTypes, Places, Masters, Past, Waits
<1>7. BitsParked /\ BitsDenied /\ BitsFresh /\ Parked /\ EventHasRequest /\ BitsOwed /\ ProxyWaiterSet
  BY DEF Init, BitsParked, BitsDenied, BitsFresh, Parked, EventHasRequest, BitsOwed, ProxyWaiterSet
<1> QED
  BY <1>5, <1>6, <1>7 DEF IInv

LEMMA IInvKept ==
    ASSUME ~EagerMasters, AddressesKept, IInv, [Next]_vars
    PROVE  IInv'
<1>1. ASSUME NEW r \in Reqs, MasterSend(r) \/ MasterResend(r)
      PROVE  IInv'
  <2>1. req_muxed(r) /\ UNCHANGED <<handler, cb, pvars>>
    BY <1>1 DEF MasterSend, MasterResend
  <2>2. Issues(r)
    BY <1>1 DEF MasterSend, MasterResend, Issues, Waits
  <2> QED
    BY <2>1, <2>2, ReqKeeps
<1>2. ASSUME NEW i \in Inputs, SendHandler(i) \/ WalkAccepted(i) \/ WalkDenied(i) \/ WalkRetry(i)
      PROVE  IInv'
  BY <1>2, SendHandlerKeeps, WalkServes, WalkRetryKeeps
<1>3. CASE UNCHANGED vars
  <2>1. UNCHANGED rvars /\ UNCHANGED avars /\ UNCHANGED pvars /\ UNCHANGED handler /\ UNCHANGED cb
        /\ UNCHANGED mst /\ UNCHANGED owes
    BY <1>3 DEF vars
  <2>2. /\ UNCHANGED bw /\ UNCHANGED denied_on_output /\ UNCHANGED pending_req
        /\ UNCHANGED send_event /\ UNCHANGED inflight /\ UNCHANGED inflight_free
        /\ UNCHANGED load /\ UNCHANGED misled /\ UNCHANGED proxy_retry_waiter
        /\ UNCHANGED waiter /\ UNCHANGED pst /\ UNCHANGED pdest
        /\ UNCHANGED addr /\ UNCHANGED route
    BY <2>1 DEF rvars, pvars, avars
  <2>3. Types' /\ ProxyTypes' /\ Places' /\ Masters' /\ Past'
    BY <2>1, <2>2 DEF IInv, Types, ProxyTypes, Places, Masters, Past, Waits
  <2>4. BitsParked' /\ BitsDenied' /\ Parked' /\ EventHasRequest' /\ BitsOwed' /\ ProxyWaiterSet'
    BY <2>1, <2>2 DEF IInv, BitsParked, BitsDenied, Parked, EventHasRequest, BitsOwed,
                      ProxyWaiterSet, Waits, Decoded
  <2>5. BitsFresh'
    BY <2>1, <2>2 DEF IInv, BitsFresh, Called, Delay, Decoded, peek
  <2> QED
    BY <2>3, <2>4, <2>5 DEF IInv
<1>4. CASE CallbackReturns
  BY <1>4, CallbackKeeps
<1>5. CASE SendReturns \/ WalkEnds
  BY <1>5, SendReturnsKeeps, WalkEndsKeeps
<1>6. ASSUME NEW o \in Outputs, retry_muxed(o) PROVE IInv'
  BY <1>6, RetryMuxedKeeps
<1>7. ASSUME NEW r \in Reqs \cup {Proxy}, resp_muxed(r) PROVE IInv'
  BY <1>7, RespKeeps
<1>8. CASE (\E o \in load.dests : handle_proxy_command(o)) \/ ProxyRetries \/ ProxyReplied
  BY <1>8, ProxyKeepsAll
<1>9. CASE Tick
  BY <1>9, TickKeeps
<1> QED
  BY <1>1, <1>2, <1>3, <1>4, <1>5, <1>6, <1>7, <1>8, <1>9 DEF Next

LEMMA IInvAlways ==
    ASSUME ~EagerMasters, AddressesKept
    PROVE  Spec => []IInv
<1>1. IInv /\ [Next]_vars => IInv'
  BY IInvKept
<1>2. Init => IInv
  BY IInvInit
<1> QED
  BY <1>1, <1>2, PTL DEF Spec

(* With masters that wait for retry() after a denial, and a request that   *)
(* is decoded to the same mapping when it is issued again, every variable  *)
(* stays in its range and a granted request is parked at its own input or  *)
(* in flight, never both or neither (req_muxed, send_handler, retry_muxed, *)
(* resp_muxed), except for the answers a stale waiter takes.               *)
THEOREM InvHolds ==
    ASSUME ~EagerMasters, AddressesKept
    PROVE  Spec => []Inv
<1>1. IInv => Inv
  <2> SUFFICES ASSUME IInv PROVE Inv
    OBVIOUS
  <2> USE DEF IInv
  <2>1. \A p \in Ports : bw[p].cur \in Nat /\ bw[p].nxt \in Nat
    BY DEF Types, Watermarks
  <2>2. handler.kind \in {"idle", "send", "walk", "resp"}
    BY HandlerCases DEF Types
  <2>3. TypeOK
    BY <2>1, <2>2 DEF Types, ProxyTypes, TypeOK
  <2>4. GrantedHeld
    <3> SUFFICES ASSUME NEW r \in Reqs
                 PROVE  /\ ~(pending_req[In[r]] = r /\ r \in DOMAIN inflight)
                        /\ mst[r] = "granted" <=>
                             (pending_req[In[r]] = r \/ r \in DOMAIN inflight \/ r \in misled)
                        /\ \A i \in Inputs : pending_req[i] = r => i = In[r]
      BY DEF GrantedHeld
    <3> QED
      BY DEF Places
  <2> QED
    BY <2>3, <2>4 DEF Inv
<1> QED
  BY <1>1, IInvAlways, PTL

(* With such masters and addresses, a parked request has its event or a    *)
(* retry() to come, the event always finds a request, a deny bit stands    *)
(* for a retry() to come, and a proxy thread that waits for one can be     *)
(* signalled (send_handler, retry_muxed, handle_proxy_command).  The       *)
(* addresses are those of masters that write them again before re-issuing, *)
(* or of mappings whose translation decodes to the same mapping.           *)
THEOREM WokenHolds ==
    ASSUME ~EagerMasters, AddressesKept
    PROVE  Spec => []Woken
<1>1. IInv => Woken
  <2> SUFFICES ASSUME IInv PROVE Woken
    OBVIOUS
  <2> USE DEF IInv
  <2>1. ParkedWoken
    BY DEF Parked, BitsOwed, ParkedWoken
  <2> QED
    BY <2>1 DEF Woken
<1> QED
  BY <1>1, IInvAlways, PTL
=============================================================================
