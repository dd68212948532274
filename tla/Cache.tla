------------------------------- MODULE Cache -------------------------------
(***************************************************************************)
(* The io_v2 set-associative cache, models/cache/cache_v4.cpp.  A hit is   *)
(* served inline; a miss refills a line through the only refill request    *)
(* the cache has, and whoever comes meanwhile waits in refill_pending_reqs *)
(* until fsm_event drains the queue.  A disabled cache forwards inline.    *)
(*                                                                         *)
(* Abstractions.  The address of a request is its line (Tag) and a place   *)
(* in it; the bytes of a line are represented by the line they were        *)
(* fetched for.  A read copies from the line and a write into it, and      *)
(* neither changes which line the bytes are of; nothing is ever written    *)
(* back.  The victim of a refill is any way (CacheLru has the register     *)
(* that picks it).  The refill state is forgotten once the refill is       *)
(* answered: the code never reads it again.  Latencies and their           *)
(* timestamps are only annotations on the request and are left out.        *)
(*                                                                         *)
(* The master issues on its own or from inside resp() and retry(), also    *)
(* while a request of its is denied.  A slave that denied owes a retry()   *)
(* and denies until it makes it; it may also retry when it owes none.  The *)
(* wires may be driven at any time, callbacks included.                    *)
(***************************************************************************)
EXTENDS Integers, Sequences, FiniteSets, SequencesExt

CONSTANTS Reqs,
          Tag,              \* Tag[r]: the line of r
          NoData,           \* the requests whose data pointer is null
          nb_sets,
          Ways,             \* the associativities of platforms
          cfg_enabled,
          None

Tags == {Tag[r] : r \in Reqs}

ASSUME CacheAssumption ==
    /\ Tag \in [Reqs -> Nat] /\ NoData \subseteq Reqs
    /\ nb_sets \in Nat \ {0} /\ Ways \subseteq Nat \ {0}
    /\ cfg_enabled \in BOOLEAN
    /\ None \notin Reqs \cup Nat \cup (Nat \X Nat)

VARIABLES
    ways,                   \* of this platform
    enabled,
    tag, data,              \* tag[l], and the line (by its tag) whose bytes l holds
    refill_pending_reqs,
    pending_refill,
    refill_line, refill_tag,
    pending_line_offset,    \* the request whose offset it is
    refill_retry_pending,
    input_needs_retry,
    fsm_event,              \* enqueued
    flush_line_addr,
    cb,                     \* a callback of the master runs: what follows it
    mst,                    \* mst[r]: what the master knows of r
    moved,                  \* requests whose object holds the rewritten address
    bypassed,               \* slave: requests it holds, granted while disabled
    refills,                \* slave: how often it holds refill_req
    owes                    \* slave: it denied and has not retried

lvars == <<tag, data>>
qvars == <<refill_pending_reqs, pending_refill, refill_line, refill_tag,
           pending_line_offset, refills>>
wvars == <<ways, enabled, flush_line_addr>>
vars  == <<lvars, qvars, wvars, refill_retry_pending, input_needs_retry, fsm_event,
           cb, mst, moved, bypassed, owes>>

Lines == (0 .. (nb_sets - 1)) \X (0 .. (ways - 1))

Init ==
    /\ ways \in Ways
    /\ enabled = cfg_enabled
    /\ tag = [l \in Lines |-> None] /\ data = [l \in Lines |-> None]
    /\ refill_pending_reqs = <<>> /\ pending_refill = FALSE
    /\ refill_line = None /\ refill_tag = None /\ pending_line_offset = None
    /\ refill_retry_pending = FALSE /\ input_needs_retry = FALSE
    /\ fsm_event = FALSE
    /\ flush_line_addr = None
    /\ cb = "none"
    /\ mst = [r \in Reqs |-> "idle"]
    /\ moved = {} /\ bypassed = {} /\ refills = 0 /\ owes = FALSE

Quiet == cb = "none"

----------------------------------------------------------------------------
(* get_line: the ways of the set that a tag selects.                       *)
line_index(t) == t % nb_sets
WaysOf(t) == {l \in Lines : l[1] = line_index(t)}

Hit(r) == \E l \in WaysOf(Tag[r]) : tag[l] = Tag[r]

(* A slip: the event is armed by the answer of a refill only if it was     *)
(* armed before.                                                           *)
SlipCheckState(q, pending, denied) == fsm_event

(* check_state: the event that the queue q needs.                          *)
CheckState(q, pending, denied) == fsm_event \/ (q # <<>> /\ ~pending /\ ~denied)

----------------------------------------------------------------------------
(* handle_req and refill, by what the lines and the slave say.  q is the   *)
(* queue without r; the callers add what happens to the master.  (refill's *)
(* own test of pending_refill never holds: both callers made it.)          *)

HandleHit(r, q) ==
    /\ Hit(r)
    /\ refill_pending_reqs' = q
    /\ UNCHANGED <<lvars, pending_refill, refill_line, refill_tag, pending_line_offset,
                   refills, refill_retry_pending, owes>>

RefillDone(r, q) ==
    /\ ~Hit(r) /\ ~owes
    /\ \E l \in WaysOf(Tag[r]) :
         /\ tag' = [tag EXCEPT ![l] = Tag[r]]
         /\ data' = [data EXCEPT ![l] = Tag[r]]
    /\ refill_pending_reqs' = q
    /\ UNCHANGED <<pending_refill, refill_line, refill_tag, pending_line_offset, refills,
                   refill_retry_pending, owes>>

(* The request that missed waits at the head.                              *)
Parked(r, q) == <<r>> \o q

(* The slave writes straight into the bytes of the victim, whose tag stays *)
(* as it is until the answer.                                              *)
RefillGranted(r, q) ==
    /\ ~Hit(r) /\ ~owes
    /\ \E l \in WaysOf(Tag[r]) :
         /\ refill_line' = l
         /\ data' = [data EXCEPT ![l] = None]
    /\ refill_tag' = Tag[r] /\ pending_line_offset' = r
    /\ refill_pending_reqs' = Parked(r, q)
    /\ pending_refill' = TRUE /\ refills' = refills + 1
    /\ UNCHANGED <<tag, refill_retry_pending, owes>>

RefillDenied(r, q) ==
    /\ ~Hit(r)
    /\ refill_retry_pending' = TRUE /\ owes' = TRUE
    /\ refill_pending_reqs' = q
    /\ UNCHANGED <<lvars, pending_refill, refill_line, refill_tag, pending_line_offset, refills>>

----------------------------------------------------------------------------
(* input_req                                                               *)

Becomes(r, st) == mst' = [mst EXCEPT ![r] = st]

(* The address after a denial.                                             *)
Undone(r) == moved \ {r}

Bypass(r) ==
    /\ ~enabled
    /\ \/ ~owes /\ Becomes(r, "idle") /\ UNCHANGED <<moved, bypassed, input_needs_retry, owes>>
       \/ /\ ~owes /\ Becomes(r, "granted")
          /\ moved' = moved \cup {r} /\ bypassed' = bypassed \cup {r}
          /\ UNCHANGED <<input_needs_retry, owes>>
       \/ /\ Becomes(r, "denied") /\ moved' = Undone(r)
          /\ input_needs_retry' = TRUE /\ owes' = TRUE
          /\ UNCHANGED bypassed
    /\ UNCHANGED <<lvars, qvars, refill_retry_pending, fsm_event>>

(* A slip: a request is served next to a pending refill.                   *)
SlipBlocked == refill_retry_pending

Blocked == pending_refill \/ refill_retry_pending

Enqueue(r) ==
    /\ enabled /\ Blocked
    /\ refill_pending_reqs' = Append(refill_pending_reqs, r)
    /\ fsm_event' = CheckState(refill_pending_reqs', pending_refill, refill_retry_pending)
    /\ Becomes(r, "granted")
    /\ UNCHANGED <<lvars, pending_refill, refill_line, refill_tag, pending_line_offset, refills,
                   refill_retry_pending, input_needs_retry, moved, bypassed, owes>>

NeedsRetry == TRUE

Serve(r) ==
    /\ enabled /\ ~Blocked
    /\ LET q == refill_pending_reqs
       IN  \/ (HandleHit(r, q) \/ RefillDone(r, q)) /\ Becomes(r, "idle")
              /\ UNCHANGED input_needs_retry
           \/ RefillGranted(r, q) /\ Becomes(r, "granted") /\ UNCHANGED input_needs_retry
           \/ RefillDenied(r, q) /\ Becomes(r, "denied") /\ input_needs_retry' = NeedsRetry
    /\ UNCHANGED <<fsm_event, moved, bypassed>>

input_req(r) == Bypass(r) \/ Enqueue(r) \/ Serve(r)

MasterSend(r) ==
    /\ mst[r] = "idle"
    /\ input_req(r)
    /\ UNCHANGED <<wvars, cb>>

(* In retry() the master re-issues what was denied.                        *)
MasterResend(r) ==
    /\ ~Quiet /\ mst[r] = "retrying"
    /\ input_req(r)
    /\ UNCHANGED <<wvars, cb>>

(* resp() or retry() of the master returns to its caller, which goes on    *)
(* with check_state unless it was the answer of a bypassed request.        *)
CallbackReturns ==
    /\ ~Quiet /\ \A r \in Reqs : mst[r] # "retrying"
    /\ cb' = "none"
    /\ fsm_event' = IF cb = "check"
                      THEN CheckState(refill_pending_reqs, pending_refill, refill_retry_pending)
                      ELSE fsm_event
    /\ UNCHANGED <<lvars, qvars, wvars, refill_retry_pending, input_needs_retry,
                   mst, moved, bypassed, owes>>

----------------------------------------------------------------------------
(* refill_resp                                                             *)

(* resp() of the master: only a granted request is waiting for one.        *)
Answer(r) == Becomes(r, IF mst[r] = "granted" THEN "idle" ELSE "spurious")

(* The answer of a bypassed request.                                       *)
BypassResp(r) ==
    /\ Quiet /\ r \in bypassed
    /\ bypassed' = bypassed \ {r} /\ moved' = moved \ {r}
    /\ Answer(r) /\ cb' = "pass"
    /\ UNCHANGED <<lvars, qvars, wvars, refill_retry_pending, input_needs_retry, fsm_event, owes>>

(* The bytes the slave wrote.                                              *)
Filled == [data EXCEPT ![refill_line] = refill_tag]

(* A beat that is not the last: bytes have come in, and refill_resp leaves *)
(* at once.                                                                *)
RefillBeat ==
    /\ Quiet /\ refills > 0
    /\ data' = Filled
    /\ UNCHANGED <<tag, qvars, wvars, refill_retry_pending, input_needs_retry, fsm_event,
                   cb, mst, moved, bypassed, owes>>

(* The answer of the refill goes to the head of the queue.  A request that *)
(* carries no data leaves the tag of the victim over the new bytes.        *)
RefillResp ==
    /\ Quiet /\ refills > 0 /\ refill_pending_reqs # <<>>
    /\ refills' = refills - 1
    /\ refill_pending_reqs' = Tail(refill_pending_reqs)
    /\ pending_refill' = FALSE
    /\ data' = Filled
    /\ tag' = IF Head(refill_pending_reqs) \in NoData THEN tag
              ELSE [tag EXCEPT ![refill_line] = refill_tag]
    /\ Answer(Head(refill_pending_reqs)) /\ cb' = "check"
    /\ refill_line' = None /\ refill_tag' = None /\ pending_line_offset' = None
    /\ UNCHANGED <<wvars, refill_retry_pending, input_needs_retry, fsm_event, moved,
                   bypassed, owes>>

(* refill_retry: the master first, then the queue.                         *)
refill_retry ==
    /\ Quiet
    /\ owes' = FALSE
    /\ refill_retry_pending' = FALSE /\ input_needs_retry' = FALSE
    /\ IF input_needs_retry
         THEN /\ mst' = [r \in Reqs |-> IF mst[r] = "denied" THEN "retrying" ELSE mst[r]]
              /\ cb' = "check" /\ UNCHANGED fsm_event
         ELSE /\ fsm_event' = CheckState(refill_pending_reqs, pending_refill, FALSE)
              /\ UNCHANGED <<mst, cb>>
    /\ UNCHANGED <<lvars, qvars, wvars, moved, bypassed>>

----------------------------------------------------------------------------
(* fsm_handler                                                             *)

(* The drained request is served from its line; resp() is called.          *)
DrainDone ==
    /\ ~Blocked /\ refill_pending_reqs # <<>>
    /\ LET r == Head(refill_pending_reqs)
           q == Tail(refill_pending_reqs)
       IN  (HandleHit(r, q) \/ RefillDone(r, q)) /\ Answer(r)
    /\ cb' = "check"

DrainGranted ==
    /\ ~Blocked /\ refill_pending_reqs # <<>>
    /\ RefillGranted(Head(refill_pending_reqs), Tail(refill_pending_reqs))
    /\ UNCHANGED <<mst, cb>>

(* The request goes back to the head.                                      *)
DrainDenied ==
    /\ ~Blocked /\ refill_pending_reqs # <<>>
    /\ RefillDenied(Head(refill_pending_reqs), refill_pending_reqs)
    /\ UNCHANGED <<mst, cb>>

DrainNothing ==
    /\ Blocked \/ refill_pending_reqs = <<>>
    /\ UNCHANGED <<lvars, qvars, refill_retry_pending, owes, mst, cb>>

fsm_handler ==
    /\ Quiet /\ fsm_event
    /\ fsm_event' = FALSE
    /\ DrainDone \/ DrainGranted \/ DrainDenied \/ DrainNothing
    /\ UNCHANGED <<wvars, input_needs_retry, moved, bypassed>>

----------------------------------------------------------------------------
(* The wires and reset.                                                    *)

Untouched == UNCHANGED <<qvars, refill_retry_pending, input_needs_retry, fsm_event,
                         cb, mst, moved, bypassed, owes>>

enable_sync(e) ==
    /\ enabled' = e
    /\ UNCHANGED <<lvars, ways, flush_line_addr>> /\ Untouched

(* The lines of S lose their tags.  A refill in progress is not looked at: *)
(* its answer brings its line back.                                        *)
Invalidate(S) ==
    /\ tag' = [l \in Lines |-> IF tag[l] \in S THEN None ELSE tag[l]]
    /\ UNCHANGED data

flush == Invalidate(Tags)

flush_sync == flush /\ UNCHANGED wvars /\ Untouched

flush_line_addr_sync(t) ==
    /\ flush_line_addr' = t
    /\ UNCHANGED <<lvars, ways, enabled>> /\ Untouched

flush_line_sync ==
    /\ flush_line_addr # None
    /\ Invalidate({flush_line_addr})
    /\ UNCHANGED wvars /\ Untouched

(* The engine resets the queue and the signal, which are blocks of theirs. *)
QueueReset == refill_pending_reqs' = <<>> /\ pending_refill' = FALSE

(* reset(true), of the whole platform.  The event stays enqueued.          *)
reset ==
    /\ Quiet
    /\ flush /\ enabled' = cfg_enabled
    /\ refill_retry_pending' = FALSE /\ input_needs_retry' = FALSE
    /\ QueueReset
    /\ mst' = [r \in Reqs |-> "idle"]
    /\ moved' = {} /\ bypassed' = {} /\ refills' = 0 /\ owes' = FALSE
    /\ refill_line' = None /\ refill_tag' = None /\ pending_line_offset' = None
    /\ UNCHANGED <<ways, fsm_event, flush_line_addr, cb>>

Next ==
    \/ \E r \in Reqs : MasterSend(r) \/ MasterResend(r) \/ BypassResp(r)
    \/ CallbackReturns
    \/ RefillBeat \/ RefillResp \/ refill_retry
    \/ fsm_handler
    \/ \E e \in BOOLEAN : enable_sync(e)
    \/ flush_sync \/ flush_line_sync
    \/ \E t \in Tags : flush_line_addr_sync(t)
    \/ reset

Spec == Init /\ [][Next]_vars

(* Callbacks return, the engine runs the event, and the slave answers what *)
(* it granted, retries what it denied and does not deny for ever.          *)
Accepted == (fsm_handler \/ \E r \in Reqs : MasterResend(r)) /\ ~owes'

Fairness ==
    /\ WF_vars(CallbackReturns \/ \E r \in Reqs : MasterResend(r))
    /\ WF_vars(fsm_handler)
    /\ SF_vars(Accepted)
    /\ WF_vars(RefillResp)
    /\ WF_vars(owes /\ refill_retry)

FairSpec == Spec /\ Fairness

----------------------------------------------------------------------------
(* Every variable stays in its range.                                      *)
TypeOK ==
    /\ ways \in Ways /\ enabled \in BOOLEAN /\ pending_refill \in BOOLEAN /\ fsm_event \in BOOLEAN
    /\ refill_retry_pending \in BOOLEAN /\ input_needs_retry \in BOOLEAN /\ owes \in BOOLEAN
    /\ tag \in [Lines -> Tags \cup {None}]
    /\ data \in [Lines -> Tags \cup {None}]
    /\ refill_pending_reqs \in Seq(Reqs)
    /\ refill_line \in Lines \cup {None} /\ refill_tag \in Tags \cup {None}
    /\ pending_line_offset \in Reqs \cup {None}
    /\ flush_line_addr \in Tags \cup {None}
    /\ cb \in {"none", "check", "pass"}
    /\ mst \in [Reqs -> {"idle", "denied", "retrying", "granted"}]
    /\ moved \subseteq Reqs /\ bypassed \subseteq Reqs /\ refills \in Nat

(* A line is in at most one way of its set.                                *)
TagUnique == \A l, m \in Lines : tag[l] # None /\ tag[l] = tag[m] => l = m

(* The bytes under a tag are those of the line it names, except in the     *)
(* victim of a refill in progress: there the slave writes the new line     *)
(* under the old tag, and nothing but the queueing of every request keeps  *)
(* it from being hit.                                                      *)
LineOwned ==
    \A l \in Lines : tag[l] # None /\ ~(pending_refill /\ l = refill_line) => data[l] = tag[l]

(* "only one refill is ever in flight" (cache_v4.py:137), and the state    *)
(* that refill leaves in the cache for refill_resp is that of the request  *)
(* at the head of the queue, whatever was queued, flushed, disabled or     *)
(* bypassed in between.                                                    *)
RefillOwner ==
    /\ refills = (IF pending_refill THEN 1 ELSE 0)
    /\ pending_refill =>
         /\ refill_pending_reqs # <<>>
         /\ LET r == Head(refill_pending_reqs)
            IN  Tag[r] = refill_tag /\ refill_line \in WaysOf(Tag[r]) /\ pending_line_offset = r

(* Whoever waits has something to wait for: a queue that can be drained    *)
(* has its event, and a denied master and a denied refill have the retry() *)
(* of the slave to come.                                                   *)
Armed ==
    /\ refill_pending_reqs # <<>> /\ ~Blocked => fsm_event \/ cb = "check"
    /\ refill_retry_pending \/ input_needs_retry => owes
    /\ Quiet /\ (\E r \in Reqs : mst[r] = "denied") => input_needs_retry

(* A granted request waits in exactly one place, once in the queue or at   *)
(* the slave, and only one that bypassed the cache has the rewritten       *)
(* address: a denied one is re-issued with its own.                        *)
GrantedHeld ==
    /\ IsInjective(refill_pending_reqs)
    /\ ToSet(refill_pending_reqs) \cap bypassed = {}
    /\ {r \in Reqs : mst[r] = "granted"} = ToSet(refill_pending_reqs) \cup bypassed
    /\ moved = bypassed

(* The types, one way per line, no tag over the bytes of another line, a   *)
(* refill of the head of the queue (refill, refill_resp, flush), each      *)
(* granted request in its place, and for each wait what ends it.           *)
Inv == TypeOK /\ TagUnique /\ LineOwned /\ RefillOwner /\ Armed /\ GrantedHeld

(* A request that waits in the queue is answered, unless the master keeps  *)
(* issuing: what it sends from inside resp(), or before the event runs, is *)
(* served before the queue and can start a refill of its own each time.    *)
Issue == \E r \in Reqs : MasterSend(r)

QueueDrains ==
    \/ []<>(refill_pending_reqs = <<>>)
    \/ []<><<Issue>>_vars
=============================================================================
