----------------------------- MODULE RouterBeat -----------------------------
(***************************************************************************)
(* The beat-streaming io_v2 router,                                        *)
(* models/interco/router/router_v2_beat.cpp, with the proxy access of      *)
(* proxy_command.hpp.  A burst takes a slot of burst_table at its first    *)
(* beat; its beats wait in the FIFO of their input, fsm_handler forwards   *)
(* at most one per output, channel and cycle, and the slot, whose index    *)
(* travels as burst_id, tells the way back.                                *)
(*                                                                         *)
(* Abstractions.  A burst has a fixed input, mapping (Invalid when the     *)
(* decoding, the straddling rule or an unbound output makes it an error),  *)
(* direction and number of forward beats; beat k of burst b is <<b, k>>.   *)
(* Sizes are in units of the FIFO limit.  Of head_cycle only matters       *)
(* whether it names an earlier cycle, now (cur) and after the clock edge   *)
(* (nxt).  Addresses, statistics and traces are left out.                  *)
(*                                                                         *)
(* A master issues the beats of a burst in order, one burst of several     *)
(* beats at a time, on its own or in a callback, and re-issues in retry()  *)
(* what was denied.  An output answers in any order and never returns      *)
(* DONE; it calls retry() for a channel it stalls, and may call it for     *)
(* others.                                                                 *)
(***************************************************************************)
EXTENDS Integers, Sequences, SequencesExt, FiniteSetsExt

CONSTANTS
    Bursts, nb_input_port, Outputs,
    In, Dest, Write, NbBeats, BeatSize, \* functions on Bursts
    Alongside,              \* inputs that issue single beats inside a burst
    width, max_input_pending_size, max_pending_bursts, shared_rw_channel,
    ProxyCmds,              \* <<mapping, is_write>> of the proxy commands
    Proxy, Null, Invalid

Inputs == 0 .. (nb_input_port - 1)
Slots  == 0 .. (max_pending_bursts - 1)
Channels == {0, 1}
Beats  == UNION {{b} \X (1 .. NbBeats[b]) : b \in Bursts}

ASSUME RouterBeatAssumption ==
    /\ nb_input_port \in Nat \ {0} /\ max_pending_bursts \in Nat \ {0}
    /\ In \in [Bursts -> Inputs] /\ Dest \in [Bursts -> Outputs \cup {Invalid}]
    /\ Write \in [Bursts -> BOOLEAN] /\ NbBeats \in [Bursts -> Nat \ {0}]
    /\ BeatSize \in [Bursts -> Nat] /\ width \in Nat /\ max_input_pending_size \in Nat
    /\ Alongside \subseteq Inputs /\ shared_rw_channel \in BOOLEAN
    /\ ProxyCmds \subseteq (Outputs \cup {Invalid}) \X BOOLEAN
    /\ Invalid \notin Outputs /\ Proxy \notin Bursts \cup {Null}
    /\ Null \notin Inputs \cup Slots \cup Outputs

VARIABLES
    burst_table,            \* BurstEntry of each slot
    pending,                \* pending[i]: <<beat, slot_idx>>
    pending_bytes,
    head_cycle,             \* [cur, nxt]: is the head of an earlier cycle?
    active_multi_beat_slot,
    denied_upstream,
    elected_input,          \* elected_input[o][ch]
    stalled, stalled_input, \* likewise
    round_robin_next,
    fsm_event,              \* "off", "next" cycle or "due" in this one
    below,                  \* <<beat, slot_idx, output>> outputs hold
    handler, wake,          \* the handler that runs; where its wake-up is
    cb,                     \* the input whose master runs a callback
    sent, master,           \* the master: beats accepted; state of each
    proxy_retry_waiter, waiter, pst, pcmd

tvars == <<burst_table, elected_input>>
svars == <<stalled, stalled_input>>
ivars == <<pending, pending_bytes, head_cycle, active_multi_beat_slot>>
mvars == <<sent, master>>
pvars == <<proxy_retry_waiter, waiter, pst, pcmd>>
BeatVars == <<tvars, svars, ivars, denied_upstream, round_robin_next, fsm_event,
              below, handler, wake, cb, mvars, pvars>>

NoCmd == <<Invalid, FALSE>>
Idle == [kind |-> "idle"]
Free == [in_use |-> FALSE, input |-> Null, output_id |-> Null, channel |-> 0,
         original_burst_id |-> Null, pending_master_is_last |-> <<>>]

BeatInit ==
    /\ burst_table = [s \in Slots |-> Free]
    /\ pending = [i \in Inputs |-> <<>>] /\ pending_bytes = [i \in Inputs |-> 0]
    /\ head_cycle = [i \in Inputs |-> [cur |-> FALSE, nxt |-> FALSE]]
    /\ active_multi_beat_slot = [i \in Inputs |-> Null]
    /\ denied_upstream = [i \in Inputs |-> FALSE]
    /\ elected_input = [o \in Outputs |-> [c \in Channels |-> Null]]
    /\ stalled = [o \in Outputs |-> [c \in Channels |-> FALSE]]
    /\ stalled_input = [o \in Outputs |-> [c \in Channels |-> Null]]
    /\ round_robin_next = 0 /\ fsm_event = "off" /\ below = {}
    /\ handler = Idle /\ wake = nb_input_port /\ cb = Null
    /\ sent = [b \in Bursts |-> 0] /\ master = [x \in Beats |-> "idle"]
    /\ proxy_retry_waiter = Null /\ waiter = "Pending"
    /\ pst = "idle" /\ pcmd = NoCmd

(* Nobody is being called, and nothing runs.                               *)
Running(kind) == handler.kind = kind /\ cb = Null /\ wake = nb_input_port
Quiet == Running("idle")

channel_of(is_write) == IF shared_rw_channel \/ ~is_write THEN 0 ELSE 1

(* Only the payload of a write takes room in the FIFO.                     *)
fifo_cost(b) == IF Write[b] THEN BeatSize[b] ELSE 0

is_last(x) == x[2] = NbBeats[x[1]]

Scheduled == IF fsm_event = "off" THEN "next" ELSE fsm_event

FreeSlots == {s \in Slots : ~burst_table[s].in_use}

(* What free_burst_slot leaves of slot s.                                  *)
Freed(s) == [Free EXCEPT !.channel = burst_table[s].channel]

----------------------------------------------------------------------------
(* req_muxed, on the next beat of burst b.                                 *)

Beat(b) == <<b, sent[b] + 1>>

(* Accepted, or answered at once: the master goes on with the next beat.   *)
Next_beat(b) == sent' = [sent EXCEPT ![b] = (@ + 1) % NbBeats[b]]
Becomes(x, st) == master' = [master EXCEPT ![x] = st]

Refused(b) ==
    \/ Write[b] /\ BeatSize[b] > width
    \/ sent[b] > 0 /\ active_multi_beat_slot[In[b]] = Null

ReqRefused(b) ==
    /\ Refused(b)
    /\ Next_beat(b) /\ Becomes(Beat(b), "idle")
    /\ UNCHANGED <<tvars, ivars, denied_upstream, fsm_event>>

Full(b) == pending_bytes[In[b]] + fifo_cost(b) > max_input_pending_size

ReqDenied(b) ==
    /\ ~Refused(b)
    /\ Full(b) \/ (sent[b] = 0 /\ FreeSlots = {})
    /\ denied_upstream' = [denied_upstream EXCEPT ![In[b]] = TRUE]
    /\ Becomes(Beat(b), "denied")
    /\ UNCHANGED <<tvars, ivars, fsm_event, sent>>

(* active_multi_beat_slot once a beat of b has joined the FIFO.            *)
Tracker(b, s) ==
    IF NbBeats[b] = 1 THEN active_multi_beat_slot[In[b]]
    ELSE IF is_last(Beat(b)) THEN Null ELSE s

ReqQueued(b) ==
    /\ ~Refused(b) /\ ~Full(b) /\ (sent[b] = 0 => FreeSlots # {})
    /\ LET i == In[b]
           s == IF sent[b] = 0 THEN Min(FreeSlots) ELSE active_multi_beat_slot[i]
       IN  /\ burst_table' = IF sent[b] > 0 THEN burst_table
                ELSE [burst_table EXCEPT ![s] =
                        [@ EXCEPT !.in_use = TRUE, !.input = i, !.output_id = Null,
                                  !.channel = channel_of(Write[b]),
                                  !.original_burst_id = b]]
           /\ active_multi_beat_slot' = [active_multi_beat_slot EXCEPT ![i] = Tracker(b, s)]
           /\ pending' = [pending EXCEPT ![i] = Append(@, <<Beat(b), s>>)]
           /\ pending_bytes' = [pending_bytes EXCEPT ![i] = @ + fifo_cost(b)]
           /\ head_cycle' = IF pending[i] = <<>> THEN [head_cycle EXCEPT ![i].nxt = TRUE]
                            ELSE head_cycle
    /\ fsm_event' = Scheduled
    /\ Next_beat(b) /\ Becomes(Beat(b), "granted")
    /\ UNCHANGED <<denied_upstream, elected_input>>

req_muxed(b) ==
    /\ ReqRefused(b) \/ ReqDenied(b) \/ ReqQueued(b)
    /\ UNCHANGED <<svars, round_robin_next, below, handler, wake, cb, pvars>>

(* The master may issue the next beat of b: the last round of b is over,   *)
(* and no other burst is under way that b may not be mixed with.           *)
MayIssue(b) ==
    /\ master[Beat(b)] = "idle"
    /\ sent[b] = 0 =>
         /\ \A k \in 1 .. NbBeats[b] : master[<<b, k>>] = "idle"
         /\ \A d \in Bursts \ {b} : In[d] = In[b] =>
               /\ sent[d] > 0 => NbBeats[b] = 1 /\ In[b] \in Alongside
               /\ NbBeats[b] > 1 /\ NbBeats[d] > 1 =>
                     master[<<d, 1>>] \notin {"denied", "retrying"}

BeatSend(b) == (Quiet \/ cb = In[b]) /\ MayIssue(b) /\ req_muxed(b)

(* In retry() the master re-issues what was denied.                        *)
BeatResend(b) == cb = In[b] /\ master[Beat(b)] = "retrying" /\ req_muxed(b)

(* resp() or retry() of the master returns.                                *)
CallbackReturns ==
    /\ cb # Null
    /\ \A x \in Beats : In[x[1]] = cb => master[x] # "retrying"
    /\ cb' = Null
    /\ UNCHANGED <<tvars, svars, ivars, denied_upstream, round_robin_next,
                   fsm_event, below, handler, wake, mvars, pvars>>

(* resp() of input i for beat x, which the master of i is waiting for.     *)
Answer(i, x) == Becomes(x, IF master[x] = "granted" /\ In[x[1]] = i THEN "idle" ELSE "spurious")

(* wake_denied_masters: the next input that was denied, in port order.     *)
WakeNext ==
    /\ cb = Null /\ wake < nb_input_port
    /\ LET denied == {i \in Inputs : i >= wake /\ denied_upstream[i]}
           i      == Min(denied)
       IN  IF denied = {}
             THEN wake' = nb_input_port /\ UNCHANGED <<denied_upstream, cb, master>>
             ELSE /\ wake' = i + 1 /\ cb' = i
                  /\ denied_upstream' = [denied_upstream EXCEPT ![i] = FALSE]
                  /\ master' = [x \in Beats |->
                        IF In[x[1]] = i /\ master[x] = "denied" THEN "retrying" ELSE master[x]]
    /\ UNCHANGED <<tvars, svars, ivars, round_robin_next, fsm_event, below,
                   handler, sent, pvars>>

----------------------------------------------------------------------------
(* The head of the FIFO of input i leaves it.                              *)
Pop(i) ==
    /\ pending' = [pending EXCEPT ![i] = Tail(@)]
    /\ pending_bytes' = [pending_bytes EXCEPT ![i] = @ - fifo_cost(Head(pending[i])[1][1])]
    /\ head_cycle' = IF Len(pending[i]) = 1 THEN [head_cycle EXCEPT ![i].nxt = FALSE]
                     ELSE head_cycle

(* forward_beat, on the head of input i, by the status of output o; table  *)
(* is burst_table as the caller leaves it.  A denial takes back the        *)
(* snapshot of is_last.                                                    *)

ForwardGranted(i, o, table) ==
    LET x == Head(pending[i])[1]
        s == Head(pending[i])[2]
    IN  /\ burst_table' = [table EXCEPT ![s].pending_master_is_last = Append(@, is_last(x))]
        /\ below' = below \cup {<<x, s, o>>}
        /\ Pop(i)
        /\ wake' = 0

ForwardDenied(i, o, table) ==
    LET c == burst_table[Head(pending[i])[2]].channel
    IN  /\ burst_table' = table
        /\ stalled' = [stalled EXCEPT ![o][c] = TRUE]
        /\ stalled_input' = [stalled_input EXCEPT ![o][c] = i]
        /\ UNCHANGED <<below, pending, pending_bytes, head_cycle, wake>>

----------------------------------------------------------------------------
(* fsm_handler: the k-th input of the round is next; used are the output   *)
(* channels that took a beat in this cycle.                                *)

FsmStarts ==
    /\ Quiet /\ fsm_event = "due"
    /\ fsm_event' = "off"
    /\ handler' = [kind |-> "fsm", k |-> 0, used |-> {}]
    /\ UNCHANGED <<tvars, svars, ivars, denied_upstream, round_robin_next,
                   below, wake, cb, mvars, pvars>>

Turn(i) ==
    /\ Running("fsm") /\ handler.k < nb_input_port
    /\ i = (round_robin_next + handler.k) % nb_input_port

Next_input == [handler EXCEPT !.k = @ + 1]

Visible(i) == pending[i] # <<>> /\ head_cycle[i].cur

HeadBeat(i) == Head(pending[i])[1]
HeadSlot(i) == Head(pending[i])[2]

(* The mapping of the head: that of its slot, or its own when the slot has *)
(* none yet.                                                               *)
Output(i) ==
    IF burst_table[HeadSlot(i)].output_id # Null THEN burst_table[HeadSlot(i)].output_id
    ELSE Dest[HeadBeat(i)[1]]

Decoded(i) == [burst_table EXCEPT ![HeadSlot(i)].output_id = Output(i)]

MayForward(i, o, c) ==
    /\ ~stalled[o][c]
    /\ elected_input[o][c] \in {Null, i}
    /\ <<o, c>> \notin handler.used

FsmSkips(i) ==
    /\ Turn(i)
    /\ \/ ~Visible(i) /\ UNCHANGED burst_table
       \/ /\ Visible(i) /\ Output(i) # Invalid
          /\ ~MayForward(i, Output(i), burst_table[HeadSlot(i)].channel)
          /\ burst_table' = Decoded(i)
    /\ handler' = Next_input
    /\ UNCHANGED <<elected_input, svars, ivars, denied_upstream, round_robin_next,
                   fsm_event, below, wake, cb, mvars, pvars>>

(* active_multi_beat_slot when the burst of slot s is dead.                *)
Closed(i, s) == IF active_multi_beat_slot[i] = s THEN Null ELSE active_multi_beat_slot[i]

(* The beat decodes to nothing: the burst is freed and the beat answered.  *)
FsmInvalid(i) ==
    /\ Turn(i) /\ Visible(i) /\ Output(i) = Invalid
    /\ LET s == HeadSlot(i)
       IN  /\ burst_table' = [burst_table EXCEPT ![s] = Freed(s)]
           /\ active_multi_beat_slot' = [active_multi_beat_slot EXCEPT ![i] = Closed(i, s)]
    /\ Pop(i)
    /\ Answer(i, HeadBeat(i))
    /\ cb' = i /\ wake' = 0 /\ handler' = Next_input
    /\ UNCHANGED <<elected_input, svars, denied_upstream, round_robin_next,
                   fsm_event, below, sent, pvars>>

(* The first beat of a burst locks the channel, also when it is denied.    *)
FsmForwards(i) ==
    /\ Turn(i) /\ Visible(i) /\ Output(i) # Invalid
    /\ LET o == Output(i)
           c == burst_table[HeadSlot(i)].channel
       IN  /\ MayForward(i, o, c)
           /\ elected_input' = IF HeadBeat(i)[2] = 1
                 THEN [elected_input EXCEPT ![o][c] = i] ELSE elected_input
           /\ \/ /\ ForwardGranted(i, o, Decoded(i))
                 /\ handler' = [Next_input EXCEPT !.used = @ \cup {<<o, c>>}]
                 /\ UNCHANGED svars
              \/ ForwardDenied(i, o, Decoded(i)) /\ handler' = Next_input
    /\ UNCHANGED <<active_multi_beat_slot, denied_upstream, round_robin_next,
                   fsm_event, cb, mvars, pvars>>

(* A slip: the event is left alone when nothing could be forwarded.        *)
SlipRearmed == IF handler.used = {} THEN fsm_event ELSE Scheduled

Rearmed == IF \E i \in Inputs : pending[i] # <<>> THEN Scheduled ELSE fsm_event

FsmEnds ==
    /\ Running("fsm") /\ handler.k = nb_input_port
    /\ round_robin_next' = (round_robin_next + 1) % nb_input_port
    /\ fsm_event' = Rearmed
    /\ handler' = Idle
    /\ UNCHANGED <<tvars, svars, ivars, denied_upstream, below, wake, cb, mvars, pvars>>

(* The clock edge; an event that is due runs first.                        *)
ClockEdge ==
    /\ Quiet /\ fsm_event # "due"
    /\ fsm_event' = IF fsm_event = "next" THEN "due" ELSE "off"
    /\ head_cycle' = [i \in Inputs |-> [head_cycle[i] EXCEPT !.cur = head_cycle[i].nxt]]
    /\ UNCHANGED <<tvars, svars, pending, pending_bytes, active_multi_beat_slot,
                   denied_upstream, round_robin_next, below, handler, wake, cb,
                   mvars, pvars>>

----------------------------------------------------------------------------
(* resp_muxed, on what output y[3] holds.                                  *)

notify_replied == "Replied"
notify_retry   == "Retry"

(* A beat of the answer to a read that is not the last goes up and changes *)
(* nothing here; one of a proxy command is not even signalled.             *)
RespBeat(y) ==
    /\ Quiet /\ y \in below
    /\ burst_table[y[2]].input # Null /\ ~Write[y[1][1]]
    /\ cb' = burst_table[y[2]].input
    /\ UNCHANGED <<tvars, svars, ivars, denied_upstream, round_robin_next,
                   fsm_event, below, handler, wake, mvars, pvars>>

(* A slip: the is_last the answer carries ends the burst.                  *)
SlipBurstDone(s) == TRUE

(* Is the last beat of an answer the end of its burst?                     *)
BurstDone(s) == Head(burst_table[s].pending_master_is_last)

(* Its slot, then.                                                         *)
LastGone(s) ==
    IF BurstDone(s) THEN Freed(s)
    ELSE [burst_table[s] EXCEPT !.pending_master_is_last = Tail(@)]

Unlocked(o, c) == [elected_input EXCEPT ![o][c] = Null]

(* Unlocked, freed, and only then answered.                                *)
RespLast(y) ==
    /\ Quiet /\ y \in below
    /\ below' = below \ {y}
    /\ LET s == y[2]
           c == burst_table[s].channel
           i == burst_table[s].input
       IN  /\ burst_table' = [burst_table EXCEPT ![s] = LastGone(s)]
           /\ elected_input' = IF BurstDone(s) THEN Unlocked(y[3], c) ELSE elected_input
           /\ \/ /\ i = Null
                 /\ waiter' = IF BurstDone(s) THEN notify_replied ELSE waiter
                 /\ UNCHANGED <<master, cb, handler, wake>>
              \/ /\ i # Null
                 /\ Answer(i, y[1]) /\ cb' = i
                 /\ handler' = IF BurstDone(s) THEN [kind |-> "resp"] ELSE Idle
                 /\ wake' = IF BurstDone(s) THEN 0 ELSE wake
                 /\ UNCHANGED waiter
    /\ UNCHANGED <<svars, ivars, denied_upstream, round_robin_next, fsm_event,
                   sent, proxy_retry_waiter, pst, pcmd>>

RespEnds ==
    /\ Running("resp")
    /\ handler' = Idle
    /\ fsm_event' = Scheduled
    /\ UNCHANGED <<tvars, svars, ivars, denied_upstream, round_robin_next, below,
                   wake, cb, mvars, pvars>>

----------------------------------------------------------------------------
(* retry_muxed: todo are the channels the call is still to look at.        *)

channels_for(C) == IF shared_rw_channel THEN {0} ELSE C

retry_muxed(o, C) ==
    /\ Quiet
    /\ handler' = [kind |-> "retry", out |-> o, todo |-> channels_for(C)]
    /\ UNCHANGED <<tvars, svars, ivars, denied_upstream, round_robin_next,
                   fsm_event, below, wake, cb, mvars, pvars>>

(* The denied beat is issued again at once, without arbitration.           *)
RetryChannel ==
    /\ Running("retry") /\ handler.todo # {}
    /\ LET o == handler.out
           c == Min(handler.todo)
           i == stalled_input[o][c]
       IN  \/ /\ ~stalled[o][c]
              /\ UNCHANGED <<svars, burst_table, below, pending, pending_bytes, head_cycle, wake>>
           \/ /\ stalled[o][c] /\ i = Null
              /\ stalled' = [stalled EXCEPT ![o][c] = FALSE]
              /\ UNCHANGED <<stalled_input, burst_table, below, pending, pending_bytes,
                             head_cycle, wake>>
           \/ /\ stalled[o][c] /\ i # Null
              /\ \/ /\ ForwardGranted(i, o, burst_table)
                    /\ stalled' = [stalled EXCEPT ![o][c] = FALSE]
                    /\ stalled_input' = [stalled_input EXCEPT ![o][c] = Null]
                 \/ ForwardDenied(i, o, burst_table)
    /\ handler' = [handler EXCEPT !.todo = @ \ {Min(@)}]
    /\ UNCHANGED <<elected_input, active_multi_beat_slot, denied_upstream,
                   round_robin_next, fsm_event, cb, mvars, pvars>>

RetryEnds ==
    /\ Running("retry") /\ handler.todo = {}
    /\ handler' = Idle
    /\ fsm_event' = Scheduled
    /\ proxy_retry_waiter' = Null
    /\ waiter' = IF proxy_retry_waiter = Null THEN waiter ELSE notify_retry
    /\ UNCHANGED <<tvars, svars, ivars, denied_upstream, round_robin_next, below,
                   wake, cb, mvars, pst, pcmd>>

----------------------------------------------------------------------------
(* The proxy thread, which holds the engine lock except while it waits.    *)

(* dispatch_proxy_req for cmd, with what handle_proxy_command does on each *)
(* status; hook is the proxy_retry_waiter its caller leaves.               *)
ProxyDone(cmd, hook) ==
    /\ cmd[1] = Invalid
    /\ pst' = "idle" /\ pcmd' = NoCmd /\ proxy_retry_waiter' = hook
    /\ UNCHANGED <<tvars, svars, below>>

ProxyBlocked(cmd) == stalled[cmd[1]][channel_of(cmd[2])] \/ FreeSlots = {}

(* The request takes a slot without an input, and whoever holds the lock   *)
(* of the channel loses it.                                                *)
ProxyGranted(cmd, hook) ==
    /\ cmd[1] # Invalid /\ ~ProxyBlocked(cmd)
    /\ LET s == Min(FreeSlots)
           c == channel_of(cmd[2])
       IN  /\ burst_table' = [burst_table EXCEPT ![s] =
                [in_use |-> TRUE, input |-> Null, output_id |-> cmd[1], channel |-> c,
                 original_burst_id |-> Proxy, pending_master_is_last |-> <<TRUE>>]]
           /\ below' = below \cup {<<<<Proxy, 1>>, s, cmd[1]>>}
           /\ elected_input' = [elected_input EXCEPT ![cmd[1]][c] = Null]
    /\ pst' = "wait_reply" /\ pcmd' = cmd /\ proxy_retry_waiter' = hook
    /\ UNCHANGED svars

(* Denied by the router, or by the output: the slot is given back.         *)
ProxyDenied(cmd) ==
    /\ cmd[1] # Invalid
    /\ \/ ProxyBlocked(cmd) /\ UNCHANGED <<tvars, stalled>>
       \/ /\ ~ProxyBlocked(cmd)
          /\ LET c == channel_of(cmd[2])
             IN  /\ burst_table' = [burst_table EXCEPT ![Min(FreeSlots)].channel = c]
                 /\ elected_input' = [elected_input EXCEPT ![cmd[1]][c] = Null]
                 /\ stalled' = [stalled EXCEPT ![cmd[1]][c] = TRUE]
    /\ pst' = "wait_retry" /\ pcmd' = cmd /\ proxy_retry_waiter' = Proxy
    /\ UNCHANGED <<stalled_input, below>>

dispatch_proxy_req(cmd, hook) ==
    /\ ProxyDone(cmd, hook) \/ ProxyGranted(cmd, hook) \/ ProxyDenied(cmd)
    /\ UNCHANGED <<ivars, denied_upstream, round_robin_next, fsm_event, handler,
                   wake, cb, mvars>>

handle_proxy_command(cmd) ==
    /\ Quiet /\ pst = "idle"
    /\ waiter' = "Pending"
    /\ dispatch_proxy_req(cmd, proxy_retry_waiter)

ProxyRetries ==
    /\ Quiet /\ pst = "wait_retry" /\ waiter = "Retry"
    /\ waiter' = "Pending"
    /\ dispatch_proxy_req(pcmd, Null)                \* set_retry_waiter(nullptr)

ProxyReplied ==
    /\ Quiet /\ pst = "wait_reply" /\ waiter = "Replied"
    /\ pst' = "idle" /\ pcmd' = NoCmd /\ waiter' = "Pending"
    /\ UNCHANGED <<tvars, svars, ivars, denied_upstream, round_robin_next, fsm_event,
                   below, handler, wake, cb, mvars, proxy_retry_waiter>>

----------------------------------------------------------------------------
Retries == {{0}, {1}, {0, 1}}           \* IO_RETRY_READ, _WRITE and _ANY

BeatNext ==
    \/ \E b \in Bursts : BeatSend(b) \/ BeatResend(b)
    \/ CallbackReturns \/ WakeNext
    \/ ClockEdge \/ FsmStarts \/ FsmEnds
    \/ \E i \in Inputs : FsmSkips(i) \/ FsmInvalid(i) \/ FsmForwards(i)
    \/ \E y \in below : RespBeat(y) \/ RespLast(y)
    \/ RespEnds
    \/ \E o \in Outputs, C \in Retries : retry_muxed(o, C)
    \/ RetryChannel \/ RetryEnds
    \/ \E cmd \in ProxyCmds : handle_proxy_command(cmd)
    \/ ProxyRetries \/ ProxyReplied

BeatSpec == BeatInit /\ [][BeatNext]_BeatVars

----------------------------------------------------------------------------
(* Every variable stays in its range.                                      *)
BeatTypeOK ==
    /\ burst_table \in [Slots -> [in_use : BOOLEAN, input : Inputs \cup {Null},
            output_id : Outputs \cup {Null}, channel : Channels,
            original_burst_id : Bursts \cup {Proxy, Null},
            pending_master_is_last : Seq(BOOLEAN)]]
    /\ pending \in [Inputs -> Seq(Beats \X Slots)] /\ pending_bytes \in [Inputs -> Nat]
    /\ head_cycle \in [Inputs -> [cur : BOOLEAN, nxt : BOOLEAN]]
    /\ active_multi_beat_slot \in [Inputs -> Slots \cup {Null}]
    /\ denied_upstream \in [Inputs -> BOOLEAN]
    /\ elected_input \in [Outputs -> [Channels -> Inputs \cup {Null}]]
    /\ stalled \in [Outputs -> [Channels -> BOOLEAN]]
    /\ stalled_input \in [Outputs -> [Channels -> Inputs \cup {Null}]]
    /\ round_robin_next \in Inputs /\ fsm_event \in {"off", "next", "due"}
    /\ below \subseteq (Beats \cup {<<Proxy, 1>>}) \X Slots \X Outputs
    /\ handler.kind \in {"idle", "fsm", "resp", "retry"}
    /\ wake \in 0 .. nb_input_port /\ cb \in Inputs \cup {Null}
    /\ sent \in [Bursts -> Nat]
    /\ master \in [Beats -> {"idle", "denied", "retrying", "granted"}]
    /\ proxy_retry_waiter \in {Null, Proxy} /\ waiter \in {"Pending", "Replied", "Retry"}
    /\ pst \in {"idle", "wait_reply", "wait_retry"}
    /\ pcmd \in (Outputs \cup {Invalid}) \X BOOLEAN

Queued == UNION {ToSet(pending[i]) : i \in Inputs}

(* Slot s is that of the burst of beat x.                                  *)
SlotOf(s, x) ==
    LET e == burst_table[s]
    IN  /\ e.in_use /\ e.original_burst_id = x[1]
        /\ IF x[1] = Proxy THEN e.input = Null
           ELSE e.input = In[x[1]] /\ e.channel = channel_of(Write[x[1]])

(* No beat of b is yet to reach the output.                                *)
AllForwarded(b) == b = Proxy \/ (sent[b] = 0 /\ \A q \in Queued : q[1][1] # b)

(* The slot index a beat carries, from req_muxed through the FIFO and the  *)
(* output to resp_muxed, is that of its own burst: a slot is freed at the  *)
(* last answer of its burst and not before, and then taken by another.     *)
(* There is one snapshot of is_last for each beat below, set in the last   *)
(* one when no more is to come, whatever the order of the answers, and a   *)
(* burst of several beats that is under way finds its slot.                *)
SlotsExact ==
    /\ \A q \in Queued : SlotOf(q[2], q[1]) /\ burst_table[q[2]].output_id \in {Null, Dest[q[1][1]]}
    /\ \A y \in below : SlotOf(y[2], y[1]) /\ burst_table[y[2]].output_id = y[3]
    /\ \A s \in Slots :
         LET lasts == burst_table[s].pending_master_is_last
             mine  == {y \in below : y[2] = s}
         IN  /\ Len(lasts) = Cardinality(mine)
             /\ \A k \in 1 .. Len(lasts) :
                   lasts[k] <=> k = Len(lasts) /\ AllForwarded(burst_table[s].original_burst_id)
    /\ \A i \in Inputs : active_multi_beat_slot[i] # Null =>
         \E b \in Bursts : sent[b] > 0 /\ SlotOf(active_multi_beat_slot[i], <<b, sent[b]>>)

(* The bytes of the beats in a FIFO.                                       *)
FifoBytes(q) ==
    LET sum[k \in 0 .. Len(q)] == IF k = 0 THEN 0 ELSE sum[k - 1] + fifo_cost(q[k][1][1])
    IN  sum[Len(q)]

(* A granted beat is in exactly one place, the FIFO of its input or its    *)
(* output; the FIFO holds the bytes it counts, within its limit, and a     *)
(* master with a beat denied has its flag.                                 *)
GrantedHeld ==
    /\ \A i \in Inputs :
         /\ IsInjective([k \in DOMAIN pending[i] |-> pending[i][k][1]])
         /\ \A k \in DOMAIN pending[i] : In[pending[i][k][1][1]] = i
         /\ pending_bytes[i] = FifoBytes(pending[i])
         /\ pending_bytes[i] <= max_input_pending_size
         /\ denied_upstream[i] <=> \E x \in Beats : In[x[1]] = i /\ master[x] = "denied"
    /\ LET waiting == {q[1] : q \in Queued}
           held    == {y[1] : y \in {z \in below : z[1][1] # Proxy}}
       IN  /\ waiting \cap held = {}
           /\ waiting \cup held = {x \in Beats : master[x] = "granted"}
           /\ \A y, z \in below : y[1] = z[1] => y = z

(* Whoever holds the lock of a channel has a burst there that is not over, *)
(* whose last answer will release it.                                      *)
LockOwned ==
    \A o \in Outputs, c \in Channels : elected_input[o][c] # Null =>
        \E s \in Slots : /\ burst_table[s].in_use /\ burst_table[s].channel = c
                         /\ burst_table[s].input = elected_input[o][c]
                         /\ burst_table[s].output_id = o

(* retry_muxed re-issues the head of stalled_input without looking: it is  *)
(* still the beat that was denied there, whatever was forwarded, queued or *)
(* answered since.  A stall without an input is that of the proxy thread.  *)
StalledHead ==
    \A o \in Outputs, c \in Channels : stalled[o][c] =>
        LET i == stalled_input[o][c]
        IN  IF i = Null THEN pst = "wait_retry" /\ pcmd[1] = o /\ channel_of(pcmd[2]) = c
            ELSE /\ pending[i] # <<>>
                 /\ burst_table[HeadSlot(i)].output_id = o
                 /\ burst_table[HeadSlot(i)].channel = c

(* What an output remembers of an input, in its lock and in its stall, is  *)
(* true of that input: fsm_handler, resp_muxed and retry_muxed act on it   *)
(* without another look.                                                   *)
OutputsCurrent == LockOwned /\ StalledHead

(* What req_muxed, fsm_handler, resp_muxed and retry_muxed keep up between *)
(* them: the types, the slots of the beats, each granted beat in its place *)
(* and outputs that are right about their inputs.                          *)
BeatInv == BeatTypeOK /\ SlotsExact /\ GrantedHeld /\ OutputsCurrent

(* Nobody is forgotten between two events: a FIFO with beats has the event *)
(* scheduled, a denied master a beat in a FIFO or a burst of a master to   *)
(* come to its end, either of which wakes it, and a waiting proxy thread   *)
(* its waiter in the slot of the router, or its request at an output.      *)
Woken ==
    Quiet => /\ Queued # {} => fsm_event # "off"
             /\ \A i \in Inputs : denied_upstream[i] =>
                  Queued # {} \/ \E s \in Slots : burst_table[s].in_use /\ burst_table[s].input # Null
             /\ pst = "wait_retry" /\ waiter = "Pending" => proxy_retry_waiter = Proxy
             /\ pst = "wait_reply" /\ waiter = "Pending" => \E y \in below : y[1][1] = Proxy

(* An output channel locked to an input on is_first forward stays locked   *)
(* until is_last response: bursts of two inputs are never both between the *)
(* first forward and the last answer on one channel of an output.          *)
BurstAtomicity ==
    \A s, t \in Slots :
        LET p == burst_table[s]
            q == burst_table[t]
            Started(e) == /\ e.input # Null /\ e.output_id # Null
                          /\ \A z \in Queued : z[1] # <<e.original_burst_id, 1>>
        IN  Started(p) /\ Started(q) /\ p.output_id = q.output_id /\ p.channel = q.channel
                => p.input = q.input
=============================================================================
