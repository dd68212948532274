---------------------------- MODULE BeatAdapter ----------------------------
(***************************************************************************)
(* The adapter models/utils/io_v2_beat_adapter.cpp, inserted between a     *)
(* master that expects one resp() per beat of beat_width bytes and a slave *)
(* that answers in any of the three forms of io_v2: DONE, one resp() for   *)
(* the whole request, or a resp() for each chunk of it.  What the slave    *)
(* answers is cut into beats, which wait in a queue for their ready cycle. *)
(*                                                                         *)
(* Cycles are relative to the current one: a tick takes one from the event *)
(* and from the ready cycles, and none of them is ever late.  The event    *)
(* that fires is no longer enqueued while its handler runs.  What the      *)
(* engine does to an event that is enqueued twice is not known here: it    *)
(* keeps the old cycle or takes the new one.                               *)
(*                                                                         *)
(* resp() is a call to the master, which may issue a request before it     *)
(* returns: that request can be answered DONE, and its beats join the      *)
(* queue that the handler is emptying.  A slave that denied owes a retry() *)
(* and denies until it makes it.  Data, addresses, statuses and burst_id   *)
(* travel with the beat and are left out.                                  *)
(***************************************************************************)
EXTENDS Integers, Sequences, SequencesExt, FiniteSetsExt

CONSTANTS Reqs,
          Size,        \* Size[r]: the bytes of r
          beat_width,
          Chunks,      \* the sizes a slave that streams cuts its answers in
          Latencies    \* the latencies slaves annotate

ASSUME BeatAdapterAssumption ==
    /\ Size \in [Reqs -> Nat \ {0}] /\ beat_width \in Nat \ {0}
    /\ Chunks \subseteq Nat \ {0} /\ Latencies \subseteq Nat

VARIABLES
    in_flight,  \* in_flight[r]: bytes_routed, or -1 when r is not in the map
    pending,    \* the beats waiting for their ready cycle
    fsm,        \* cycles before fsm_event, or -1
    handler,    \* fsm_handler: "idle", "loop", "emit" (a beat), "resp" (master)
    ev,         \* the beat in hand while handler = "emit"
    st,         \* master: what it knows of each request, as in IoService
    got,        \* got[r]: the bytes of r it was sent
    beats,      \* beats[r]: the resp() calls it got for r
    below,      \* slave: the bytes of r it still has to answer
    owes        \* slave: it denied and has not retried

vars == <<in_flight, pending, fsm, handler, ev, st, got, beats, below, owes>>

NoBeat == [req |-> "none"]

Init ==
    /\ in_flight = [r \in Reqs |-> -1]
    /\ pending = <<>>
    /\ fsm = -1
    /\ handler = "idle" /\ ev = NoBeat
    /\ st = [r \in Reqs |-> "idle"]
    /\ got = [r \in Reqs |-> 0] /\ beats = [r \in Reqs |-> 0]
    /\ below = [r \in Reqs |-> 0]
    /\ owes = FALSE

----------------------------------------------------------------------------
Ceil(n) == (n + beat_width - 1) \div beat_width

(* A slip: the last beat of a chunk is taken for that of the request.      *)
SlipIsLast(r, offset, beat, chunk_end) == offset + beat = chunk_end

IsLast(r, offset, beat, chunk_end) == offset + beat = Size[r]

(* The beats of a chunk of size bytes, from byte routed of r on: the last  *)
(* is ready after latency cycles, the others step cycles apart before it,  *)
(* the first no sooner than the next cycle.                                *)
Cut(r, routed, size, latency) ==
    LET n     == Ceil(size)
        step  == IF n > 1 THEN Max({1, latency \div n}) ELSE 1
        first == Max({1, latency - (n - 1) * step})
    IN  [i \in 1 .. n |->
            LET cursor == (i - 1) * beat_width
                beat   == Min({size - cursor, beat_width})
                offset == routed + cursor
            IN  [req |-> r, offset |-> offset, size |-> beat,
                 ready |-> first + (i - 1) * step,
                 is_first |-> offset = 0,
                 is_last |-> IsLast(r, offset, beat, routed + size)]]

(* enqueue(max(ready - now, 1)) of the head of the queue q.                *)
HeadDelay(q) == Max({Head(q).ready, 1})

(* reschedule_fsm.                                                         *)
reschedule_fsm(q) == IF q = <<>> \/ fsm # -1 THEN fsm ELSE HeadDelay(q)

(* A slip: the chunks before this one are forgotten.                       *)
SlipRouted(routed, size) == size

Routed(routed, size) == routed + size

(* schedule_chunk for a request of which routed bytes were answered before.*)
(* All of them answered, it leaves the map.                                *)
schedule_chunk(r, routed, size, latency) ==
    LET q   == pending \o Cut(r, routed, size, latency)
        all == Routed(routed, size)
    IN  /\ pending' = q
        /\ in_flight' = [in_flight EXCEPT ![r] = IF all >= Size[r] THEN -1 ELSE all]
        /\ fsm' = reschedule_fsm(q)

----------------------------------------------------------------------------
(* req_handler, by the status that the slave returns: DONE is turned into  *)
(* a scheduled stream of beats.                                            *)
RequestDone(r, latency) ==
    /\ ~owes
    /\ schedule_chunk(r, 0, Size[r], latency)
    /\ st' = [st EXCEPT ![r] = "granted"]
    /\ UNCHANGED <<below, owes>>

RequestGranted(r) ==
    /\ ~owes
    /\ in_flight' = [in_flight EXCEPT ![r] = 0]
    /\ below' = [below EXCEPT ![r] = Size[r]]
    /\ st' = [st EXCEPT ![r] = "granted"]
    /\ UNCHANGED <<pending, fsm, owes>>

RequestDenied(r) ==
    /\ in_flight' = [in_flight EXCEPT ![r] = -1]
    /\ owes' = TRUE
    /\ st' = [st EXCEPT ![r] = "denied"]
    /\ UNCHANGED <<pending, fsm, below>>

(* The master issues a request that it holds, or re-issues one in retry(): *)
(* outside of the adapter's handler, or from inside a resp() it is given.  *)
req_handler(r) ==
    /\ handler \in {"idle", "resp"}
    /\ st[r] \in {"idle", "retrying"}
    /\ got' = [got EXCEPT ![r] = 0] /\ beats' = [beats EXCEPT ![r] = 0]
    /\ \/ \E latency \in Latencies : RequestDone(r, latency)
       \/ RequestGranted(r)
       \/ RequestDenied(r)
    /\ UNCHANGED <<handler, ev>>

(* resp_handler: the slave answers all that is left of r, or a chunk; from *)
(* inside its req() too, so also below a resp() to the master.             *)
resp_handler(r, size, latency) ==
    /\ handler \in {"idle", "resp"}
    /\ below[r] > 0 /\ size <= below[r]
    /\ below' = [below EXCEPT ![r] = @ - size]
    /\ IF in_flight[r] = -1
         THEN UNCHANGED <<in_flight, pending, fsm>>
         ELSE schedule_chunk(r, in_flight[r], size, latency)
    /\ UNCHANGED <<handler, ev, st, got, beats, owes>>

SlaveAnswers(r) ==
    \E size \in {below[r]} \cup Chunks, latency \in Latencies : resp_handler(r, size, latency)

(* retry_handler: passed on; the master re-issues all that was denied.     *)
retry_handler ==
    /\ handler = "idle" /\ owes
    /\ owes' = FALSE
    /\ st' = [r \in Reqs |-> IF st[r] = "denied" THEN "retrying" ELSE st[r]]
    /\ UNCHANGED <<in_flight, pending, fsm, handler, ev, got, beats, below>>

----------------------------------------------------------------------------
(* fsm_handler: it sends the beats that are ready, one resp() each, and    *)
(* enqueues itself for the next one.                                       *)
fsm_handler ==
    /\ handler = "idle" /\ fsm = 0
    /\ handler' = "loop" /\ fsm' = -1
    /\ UNCHANGED <<in_flight, pending, ev, st, got, beats, below, owes>>

PopBeat ==
    /\ handler = "loop"
    /\ pending # <<>> /\ Head(pending).ready <= 0
    /\ handler' = "emit"
    /\ ev' = Head(pending)
    /\ pending' = Tail(pending)
    /\ got' = [got EXCEPT ![ev'.req] = @ + ev'.size]
    /\ UNCHANGED <<in_flight, fsm, st, beats, below, owes>>

(* emit_beat: the master gets its request object back with the last beat.  *)
emit_beat ==
    /\ handler = "emit"
    /\ handler' = "resp" /\ ev' = NoBeat
    /\ beats' = [beats EXCEPT ![ev.req] = @ + 1]
    /\ st' = IF ev.is_last THEN [st EXCEPT ![ev.req] = "idle"] ELSE st
    /\ UNCHANGED <<in_flight, pending, fsm, got, below, owes>>

RespReturns ==
    /\ handler = "resp"
    /\ handler' = "loop"
    /\ UNCHANGED <<in_flight, pending, fsm, ev, st, got, beats, below, owes>>

(* A slip: the event is left to reschedule_fsm.                            *)
SlipRearmed(q) == {fsm}

(* The event at the end of the handler; a request that was answered DONE   *)
(* inside a resp() may have enqueued it already.                           *)
Rearmed(q) == IF q = <<>> THEN {fsm}
              ELSE IF fsm = -1 THEN {HeadDelay(q)}
              ELSE {fsm, HeadDelay(q)}

HandlerReturns ==
    /\ handler = "loop"
    /\ pending # <<>> => Head(pending).ready > 0
    /\ handler' = "idle"
    /\ fsm' \in Rearmed(pending)
    /\ UNCHANGED <<in_flight, pending, ev, st, got, beats, below, owes>>

(* Time goes on when everything of this cycle is done: the event has fired *)
(* and the callbacks have returned.                                        *)
Tick ==
    /\ handler = "idle" /\ fsm > 0
    /\ \A r \in Reqs : st[r] # "retrying"
    /\ fsm' = fsm - 1
    /\ pending' = [i \in DOMAIN pending |-> [pending[i] EXCEPT !.ready = @ - 1]]
    /\ UNCHANGED <<in_flight, handler, ev, st, got, beats, below, owes>>

(* reset(true), of the whole platform.                                     *)
reset ==
    /\ handler = "idle"
    /\ pending' = <<>> /\ in_flight' = [r \in Reqs |-> -1] /\ fsm' = -1
    /\ st' = [r \in Reqs |-> "idle"]
    /\ below' = [r \in Reqs |-> 0] /\ owes' = FALSE
    /\ got' = [r \in Reqs |-> 0] /\ beats' = [r \in Reqs |-> 0]
    /\ UNCHANGED <<handler, ev>>

Handler == fsm_handler \/ PopBeat \/ emit_beat \/ RespReturns \/ HandlerReturns

Next ==
    \/ \E r \in Reqs : req_handler(r) \/ SlaveAnswers(r)
    \/ retry_handler
    \/ Handler
    \/ Tick
    \/ reset

Spec == Init /\ [][Next]_vars

(* The engine runs the event and the calls in progress, and a cycle ends   *)
(* although a slave may deny and retry any number of times in it; a slave  *)
(* answers what it granted and retries what it denied, and a master        *)
(* re-issues in retry().  Nothing makes a master issue.                    *)
Fairness ==
    /\ WF_vars(Handler) /\ SF_vars(Tick) /\ WF_vars(retry_handler)
    /\ \A r \in Reqs : /\ SF_vars(SlaveAnswers(r))
                       /\ SF_vars(st[r] = "retrying" /\ req_handler(r))

FairSpec == Spec /\ Fairness

----------------------------------------------------------------------------
(* Every variable stays in its range, and the event is never further away  *)
(* than a latency, or than a beat a cycle of a whole request.              *)
TypeOK ==
    /\ \A r \in Reqs : in_flight[r] \in -1 .. (Size[r] - 1)
    /\ \A i \in DOMAIN pending : pending[i].req \in Reqs /\ pending[i].size \in 1 .. beat_width
    /\ fsm >= -1
    /\ fsm > 1 => \E c \in Latencies \cup {Ceil(Size[r]) : r \in Reqs} : fsm <= c
    /\ handler \in {"idle", "loop", "emit", "resp"}
    /\ handler = "emit" <=> ev # NoBeat
    /\ \A r \in Reqs : /\ st[r] \in {"idle", "denied", "retrying", "granted"}
                       /\ got[r] \in 0 .. Size[r] /\ below[r] \in 0 .. Size[r]
    /\ owes \in BOOLEAN

(* The places of the beats of r in the queue, and the bytes of a beat.     *)
Places(r) == {i \in DOMAIN pending : pending[i].req = r}

BytesAt(i) == pending[i].offset .. (pending[i].offset + pending[i].size - 1)

(* However the answers of several requests interleave in the queue, the    *)
(* beats that wait for a granted request are in order, and are exactly the *)
(* bytes between those its master was sent and those the slave still owes; *)
(* the map has the request as long as the slave owes bytes of it, and      *)
(* nothing is left anywhere of a request that its master got back.  Of a   *)
(* slave whose chunks are whole beats the master gets "exactly             *)
(* ceil(total_size / beat_width) resp() calls" (io_v2_beat_adapter.hpp:20).*)
StreamOrder ==
    \A r \in Reqs :
        LET q        == Places(r)
            LastSent == handler = "emit" /\ ev.req = r /\ ev.is_last
        IN  /\ in_flight[r] = IF below[r] > 0 THEN Size[r] - below[r] ELSE -1
            /\ st[r] = "granted" =>
                 /\ \A i \in q : /\ pending[i].is_first <=> 0 \in BytesAt(i)
                                 /\ pending[i].is_last <=> Size[r] - 1 \in BytesAt(i)
                 /\ \A i, j \in q :
                      i < j => pending[i].offset + pending[i].size <= pending[j].offset
                 /\ UNION {BytesAt(i) : i \in q} = got[r] .. (Size[r] - below[r] - 1)
                 /\ got[r] + below[r] <= Size[r]
                 /\ q # {} \/ below[r] > 0 \/ LastSent
            /\ (\A c \in Chunks : c % beat_width = 0) /\ ~(handler = "emit" /\ ev.req = r) =>
                 beats[r] = Ceil(got[r])
            /\ st[r] # "granted" => q = {} /\ below[r] = 0

(* Between calls the event is enqueued for the ready cycle of the head of  *)
(* the queue or sooner, so no beat leaves later than its ready cycle and   *)
(* those before it ask for, although reschedule_fsm leaves an enqueued     *)
(* event alone and a resp() may enqueue it in the middle of the handler.   *)
Armed == handler = "idle" /\ pending # <<>> => fsm \in 0 .. Head(pending).ready

(* The types, the stream and the event.                                    *)
Inv == TypeOK /\ StreamOrder /\ Armed

(* The bytes of r that its master was not sent yet.                        *)
todo == [r \in Reqs |-> IF st[r] = "granted" THEN got[r] .. (Size[r] - 1) ELSE {}]

IO == INSTANCE IoService WITH Bad <- [r \in Reqs |-> {}],
                              status <- [r \in Reqs |-> "OK"]

(* The adapter is an io_v2 component: fsm_handler serves a granted request *)
(* beat by beat, no byte twice, and gives it back once, with its last one; *)
(* only reset drops one.                                                   *)
ServiceSpec == IO!Spec /\ [][reset \/ IO!Serving]_(IO!vars)

(* A granted request is given back, unless a reset ends it first, whatever *)
(* stands before it in the queue.                                          *)
GrantedAnswered == \A r \in Reqs : st[r] = "granted" ~> st[r] = "idle"
=============================================================================
