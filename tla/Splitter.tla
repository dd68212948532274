------------------------------ MODULE Splitter ------------------------------
(***************************************************************************)
(* The io_v2 width splitter, models/interco/splitter_v2.cpp.               *)
(*                                                                         *)
(* One request at a time is served.  It is walked in phases, each up to    *)
(* the next InputWidth boundary; a phase is cut at OutputWidth boundaries  *)
(* into chunks sent on output 0, 1, 2...  The next phase starts when every *)
(* chunk of the current one has been answered.                             *)
(*                                                                         *)
(* issue_phases runs inside input_req as well as inside the downstream     *)
(* callbacks; pc is the code in progress and ret what input_req returns    *)
(* to.  A request whose chunks are all answered at once is answered by the *)
(* return value of input_req, any other one by resp().  Latency            *)
(* annotations are left out: they never decide what happens.  The widths   *)
(* are powers of two, as splitter_v2.py asks for, so that the masks of the *)
(* code are remainders.                                                    *)
(***************************************************************************)
EXTENDS Integers, FiniteSets

CONSTANTS
    Reqs,          \* request objects of the upstream master
    Addr, Size,    \* Addr[r], Size[r]: the bytes r asks for
    Bad,           \* Bad[r]: the bytes of r the slaves answer INVALID for
    InputWidth, OutputWidth,
    None

ASSUME SplitterAssumption ==
    /\ Addr \in [Reqs -> Nat] /\ Size \in [Reqs -> Nat]
    /\ Bad \in [Reqs -> SUBSET Nat]
    /\ InputWidth \in Nat \ {0} /\ OutputWidth \in Nat \ {0}
    /\ InputWidth % OutputWidth = 0
    /\ \E n \in 0 .. InputWidth : InputWidth = 2 ^ n
    /\ None \notin Reqs

nb_outputs == InputWidth \div OutputWidth

Outputs == 0 .. (nb_outputs - 1)

(* The sub-requests, each for a run of bytes of its parent.                *)
Chunks == [parent : Reqs, port : Outputs, off : Nat, size : Nat]

ASSUME NoneAssumption == None \notin Chunks

VARIABLES
    pending_parent,     \* the request being served, or None
    bytes_planned,      \* parent_bytes_planned: where the next phase starts
    chunks_pending,     \* parent_phase_chunks_pending
    resp_status,        \* parent->get_resp_status()
    stuck,              \* stuck[i]: the chunk output i denied, or None
    input_needs_retry,  \* the master was denied and is owed a retry()
    inside_input_req,   \* parent_inside_input_req
    next_output,        \* issue_phases: the loop variable i
    cursor,             \* issue_phases: the offset of the next chunk
    pc, ret,            \* the call stack
    mst,                \* master: what it knows of each of its requests
    down                \* slaves: the chunks granted and not answered

issueVars == <<next_output, cursor>>
vars == <<pending_parent, bytes_planned, chunks_pending, resp_status, stuck,
          input_needs_retry, inside_input_req, issueVars, pc, ret, mst, down>>

Smaller(a, b) == IF a < b THEN a ELSE b

Bytes(sub) == sub.off .. (sub.off + sub.size - 1)

ChunkStatus(sub) ==
    IF Bytes(sub) \cap Bad[pending_parent] # {} THEN "INVALID" ELSE "OK"

Init ==
    /\ pending_parent = None
    /\ bytes_planned = 0 /\ chunks_pending = 0
    /\ resp_status = [r \in Reqs |-> "OK"]
    /\ stuck = [i \in Outputs |-> None]
    /\ input_needs_retry = FALSE /\ inside_input_req = FALSE
    /\ next_output = 0 /\ cursor = 0
    /\ pc = "idle" /\ ret = "idle"
    /\ mst = [r \in Reqs |-> "idle"]
    /\ down = {}

----------------------------------------------------------------------------
(* A slip: the last chunk decides the status.                              *)
SlipLatched(sub) ==
    [resp_status EXCEPT ![pending_parent] = ChunkStatus(sub)]

(* account_chunk: an error is latched, and the phase has one chunk less.   *)
Latched(sub) ==
    IF ChunkStatus(sub) = "INVALID" THEN [resp_status EXCEPT ![pending_parent] = "INVALID"]
                                    ELSE resp_status

CountDown == chunks_pending - 1

(* A slip: a chunk in flight is not counted.                               *)
SlipCountUp == chunks_pending

CountUp == chunks_pending + 1

(* The state that finalize_parent and input_req clear after a burst.       *)
ClearParent ==
    /\ pending_parent' = None
    /\ bytes_planned' = 0
    /\ chunks_pending' = 0

----------------------------------------------------------------------------

(* input_req: one parent at a time; an empty request is done at once.      *)
Deny(r) ==
    /\ pending_parent # None
    /\ input_needs_retry' = TRUE
    /\ mst' = [mst EXCEPT ![r] = "denied"]
    /\ UNCHANGED <<pending_parent, bytes_planned, chunks_pending, resp_status,
                   inside_input_req, issueVars, pc, ret>>

DoneEmpty(r) ==
    /\ pending_parent = None /\ Size[r] = 0
    /\ resp_status' = [resp_status EXCEPT ![r] = "OK"]
    /\ mst' = [mst EXCEPT ![r] = "idle"]
    /\ UNCHANGED <<pending_parent, bytes_planned, chunks_pending,
                   input_needs_retry, inside_input_req, issueVars, pc, ret>>

Accept(r) ==
    /\ pending_parent = None /\ Size[r] # 0
    /\ pending_parent' = r
    /\ bytes_planned' = 0 /\ chunks_pending' = 0
    /\ resp_status' = [resp_status EXCEPT ![r] = "OK"]
    /\ inside_input_req' = TRUE
    /\ next_output' = 0 /\ cursor' = 0
    /\ pc' = "issue" /\ ret' = pc
    /\ mst' = [mst EXCEPT ![r] = "granted"]
    /\ UNCHANGED input_needs_retry

(* The master calls input_req of its own accord, from the engine or from   *)
(* inside resp(); once denied it waits for retry(), and re-issues in it.   *)
MasterSend(r) ==
    /\ \/ pc \in {"idle", "in_resp"} /\ mst[r] = "idle" /\ \A q \in Reqs : mst[q] # "denied"
       \/ pc = "in_retry" /\ mst[r] = "retrying"
    /\ Deny(r) \/ DoneEmpty(r) \/ Accept(r)
    /\ UNCHANGED <<stuck, down>>

----------------------------------------------------------------------------
(* issue_phases.                                                           *)

(* The current phase runs up to an InputWidth boundary or to the end.      *)
PhaseEnd ==
    LET base   == Addr[pending_parent] + bytes_planned
        iw_rem == InputWidth - (base % InputWidth)
    IN  Smaller(bytes_planned + iw_rem, Size[pending_parent])

PortSize(addr) == OutputWidth - (addr % OutputWidth)

NextChunk ==
    LET addr == Addr[pending_parent] + cursor
    IN  [parent |-> pending_parent, port |-> next_output, off |-> cursor,
         size |-> Smaller(PortSize(addr), PhaseEnd - cursor)]

MoreChunks == next_output < nb_outputs /\ cursor < PhaseEnd

(* The next chunk of the phase goes to the next output, which answers      *)
(* DONE, GRANTED or DENIED.                                                *)
IssueChunk ==
    /\ pc = "issue" /\ MoreChunks
    /\ \/ /\ resp_status' = Latched(NextChunk)
          /\ UNCHANGED <<chunks_pending, stuck, down>>
       \/ /\ chunks_pending' = CountUp
          /\ down' = down \cup {NextChunk}
          /\ UNCHANGED <<resp_status, stuck>>
       \/ /\ chunks_pending' = CountUp
          /\ stuck' = [stuck EXCEPT ![next_output] = NextChunk]
          /\ UNCHANGED <<resp_status, down>>
    /\ next_output' = next_output + 1
    /\ cursor' = cursor + NextChunk.size
    /\ UNCHANGED <<pending_parent, bytes_planned, input_needs_retry, inside_input_req,
                   pc, ret, mst>>

(* The while condition: the next phase starts at once only when every      *)
(* chunk of this one was answered inline.                                  *)
NextPhaseNow == PhaseEnd < Size[pending_parent] /\ chunks_pending = 0

PhaseIssued ==
    /\ pc = "issue" /\ ~MoreChunks /\ NextPhaseNow
    /\ bytes_planned' = PhaseEnd
    /\ next_output' = 0 /\ cursor' = PhaseEnd
    /\ UNCHANGED <<pending_parent, chunks_pending, resp_status, stuck, input_needs_retry,
                   inside_input_req, pc, ret, mst, down>>

(* Back in input_req: DONE when nothing is pending, GRANTED otherwise.     *)
InputReturns ==
    /\ pc = "issue" /\ ~MoreChunks /\ ~NextPhaseNow
    /\ inside_input_req
    /\ \/ /\ chunks_pending = 0
          /\ ClearParent
          /\ mst' = [mst EXCEPT ![pending_parent] = "idle"]
       \/ /\ chunks_pending # 0
          /\ bytes_planned' = PhaseEnd
          /\ UNCHANGED <<pending_parent, chunks_pending, mst>>
    /\ inside_input_req' = FALSE
    /\ next_output' = 0 /\ cursor' = 0
    /\ pc' = ret /\ ret' = "idle"
    /\ UNCHANGED <<resp_status, stuck, input_needs_retry, down>>

(* Back in after_chunk_completion, which finalizes the parent when the     *)
(* burst is over and returns to the engine otherwise.                      *)
AfterPhase == IF chunks_pending = 0 THEN "finalize" ELSE "idle"

ResumeReturns ==
    /\ pc = "issue" /\ ~MoreChunks /\ ~NextPhaseNow
    /\ ~inside_input_req
    /\ bytes_planned' = PhaseEnd
    /\ next_output' = 0 /\ cursor' = 0
    /\ pc' = AfterPhase
    /\ UNCHANGED <<pending_parent, chunks_pending, resp_status, stuck, input_needs_retry,
                   inside_input_req, ret, mst, down>>

----------------------------------------------------------------------------
(* The downstream callbacks.                                               *)

(* account_chunk then after_chunk_completion.                              *)
ChunkCompleted(sub) ==
    /\ chunks_pending' = CountDown
    /\ resp_status' = Latched(sub)
    /\ \/ /\ chunks_pending' # 0
          /\ UNCHANGED <<pc, issueVars>>
       \/ /\ chunks_pending' = 0 /\ bytes_planned < Size[pending_parent]
          /\ pc' = "issue"
          /\ next_output' = 0 /\ cursor' = bytes_planned
       \/ /\ chunks_pending' = 0 /\ bytes_planned = Size[pending_parent]
          /\ pc' = "finalize"
          /\ UNCHANGED issueVars

output_resp(sub) ==
    /\ pc = "idle"
    /\ down' = down \ {sub}
    /\ ChunkCompleted(sub)
    /\ UNCHANGED <<pending_parent, bytes_planned, stuck, input_needs_retry,
                   inside_input_req, ret, mst>>

(* output_retry on output i: the stuck chunk is replayed, and may be       *)
(* denied again.  Without one the call has no effect.                      *)
output_retry(i) ==
    /\ pc = "idle"
    /\ stuck[i] # None
    /\ \/ /\ ChunkCompleted(stuck[i])
          /\ stuck' = [stuck EXCEPT ![i] = None]
          /\ UNCHANGED down
       \/ /\ down' = down \cup {stuck[i]}
          /\ stuck' = [stuck EXCEPT ![i] = None]
          /\ UNCHANGED <<chunks_pending, resp_status, pc, issueVars>>
       \/ UNCHANGED <<chunks_pending, resp_status, stuck, down, pc, issueVars>>
    /\ UNCHANGED <<pending_parent, bytes_planned, input_needs_retry, inside_input_req,
                   ret, mst>>

(* finalize_parent: the burst state is cleared, then resp() is called...   *)
Finalize ==
    /\ pc = "finalize"
    /\ ClearParent
    /\ mst' = [mst EXCEPT ![pending_parent] = IF @ = "granted" THEN "idle" ELSE "spurious"]
    /\ pc' = "in_resp"
    /\ UNCHANGED <<resp_status, stuck, input_needs_retry, inside_input_req, issueVars,
                   ret, down>>

(* A slip: the retry owed is forgotten.                                    *)
SlipRetryDue == FALSE

(* ... and the retry owed is paid.                                         *)
RetryDue == input_needs_retry

RespReturns ==
    /\ pc = "in_resp"
    /\ pc' = IF RetryDue THEN "in_retry" ELSE "idle"
    /\ mst' = [r \in Reqs |-> IF RetryDue /\ mst[r] = "denied" THEN "retrying" ELSE mst[r]]
    /\ input_needs_retry' = FALSE
    /\ UNCHANGED <<pending_parent, bytes_planned, chunks_pending, resp_status, stuck,
                   inside_input_req, issueVars, ret, down>>

RetryReturns ==
    /\ pc = "in_retry"
    /\ \A r \in Reqs : mst[r] # "retrying"
    /\ pc' = "idle"
    /\ UNCHANGED <<pending_parent, bytes_planned, chunks_pending, resp_status, stuck,
                   input_needs_retry, inside_input_req, issueVars, ret, mst, down>>

(* reset(true) of the platform.                                            *)
reset ==
    /\ pc = "idle"
    /\ ClearParent
    /\ stuck' = [i \in Outputs |-> None]
    /\ input_needs_retry' = FALSE /\ inside_input_req' = FALSE
    /\ mst' = [r \in Reqs |-> "idle"]
    /\ down' = {}
    /\ UNCHANGED <<resp_status, issueVars, pc, ret>>

Next ==
    \/ \E r \in Reqs : MasterSend(r)
    \/ IssueChunk \/ PhaseIssued \/ InputReturns \/ ResumeReturns
    \/ \E sub \in down : output_resp(sub)
    \/ \E i \in Outputs : output_retry(i)
    \/ Finalize \/ RespReturns \/ RetryReturns
    \/ reset

Spec == Init /\ [][Next]_vars

(* Calls return; slaves answer what they granted and do not deny forever.  *)
Fairness ==
    /\ WF_vars(IssueChunk \/ PhaseIssued \/ InputReturns \/ ResumeReturns)
    /\ WF_vars(Finalize \/ RespReturns \/ RetryReturns)
    /\ \A r \in Reqs : WF_vars(pc = "in_retry" /\ MasterSend(r))
    /\ \A i \in Outputs :
          /\ SF_vars(\E sub \in down : sub.port = i /\ output_resp(sub))
          /\ SF_vars(output_retry(i) /\ stuck'[i] = None)

FairSpec == Spec /\ Fairness

----------------------------------------------------------------------------
Stuck == {stuck[i] : i \in Outputs} \ {None}

Outstanding == down \cup Stuck

(* The bytes of r that no slave has answered yet.                          *)
Unserved(r) ==
    (IF pending_parent = r /\ pc # "finalize"
       THEN (IF pc = "issue" THEN cursor ELSE bytes_planned) .. (Size[r] - 1)
       ELSE {})
      \cup UNION {Bytes(sub) : sub \in {d \in Outstanding : d.parent = r}}

(* Every variable stays in its range.                                      *)
TypeOK ==
    /\ pending_parent \in Reqs \cup {None}
    /\ bytes_planned \in Nat /\ chunks_pending \in Nat
    /\ resp_status \in [Reqs -> {"OK", "INVALID"}]
    /\ stuck \in [Outputs -> Chunks \cup {None}]
    /\ input_needs_retry \in BOOLEAN /\ inside_input_req \in BOOLEAN
    /\ next_output \in Nat /\ cursor \in Nat
    /\ pc \in {"idle", "issue", "finalize", "in_resp", "in_retry"}
    /\ ret \in {"idle", "in_resp", "in_retry"}
    /\ mst \in [Reqs -> {"idle", "denied", "retrying", "granted", "spurious"}]
    /\ down \subseteq Chunks

(* The pending count, on which every decision to move on rests, counts the *)
(* chunks in flight, all of them of the current parent.                    *)
PendingExact ==
    /\ chunks_pending = Cardinality(Outstanding)
    /\ \A d \in Outstanding : d.parent = pending_parent

(* splitter_v2.cpp:33-34 phases issue strictly in order: chunks in flight  *)
(* together lie in one InputWidth window, on distinct outputs.             *)
OnePhaseInFlight ==
    \A d, e \in Outstanding :
        /\ (Addr[d.parent] + d.off) \div InputWidth = (Addr[e.parent] + e.off) \div InputWidth
        /\ d.port = e.port => d = e

(* One phase at a time, and all of it counted: issue_phases and            *)
(* account_chunk agree on what is in flight however the answers mix.       *)
PhaseExact == PendingExact /\ OnePhaseInFlight

(* A chunk never straddles an OutputWidth boundary.                        *)
ChunksAligned ==
    \A d \in Outstanding :
        (Addr[d.parent] + d.off) \div OutputWidth
          = (Addr[d.parent] + d.off + d.size - 1) \div OutputWidth

(* No lost wake-up: a denied master has its retry recorded and a chunk is  *)
(* in flight whose answer leads to it.                                     *)
WakeupHeld ==
    pc = "idle" /\ (\E r \in Reqs : mst[r] = "denied") =>
        input_needs_retry /\ Outstanding # {}

(* Throughout a burst the splitter's state keeps its shape: types, one     *)
(* phase at a time and all of it counted, chunks cut at the boundaries of  *)
(* the outputs by issue_phases, and the retry() that finalize_parent owes  *)
(* to a denied master.                                                     *)
Inv == TypeOK /\ PhaseExact /\ ChunksAligned /\ WakeupHeld

(* An accepted request is answered, after its last phase.                  *)
GrantedAnswered == \A r \in Reqs : mst[r] = "granted" ~> mst[r] = "idle"

(* A denied master is called back once the burst in front of it is over.   *)
DeniedRetried == \A r \in Reqs : mst[r] = "denied" ~> mst[r] # "denied"

(* Nobody waits for ever: neither for an answer nor for a retry(), both of *)
(* which finalize_parent makes.                                            *)
Progress == GrantedAnswered /\ DeniedRetried

(* The refinement mapping: a byte of r is to do until a slave answers it.  *)
Service == INSTANCE IoService WITH
    st <- mst,
    todo <- [r \in Reqs |-> Unserved(r)],
    status <- resp_status

(* The splitter serves its master as IoService promises, and drops a request*)
(* only in reset: every accepted byte once, then one answer, however its   *)
(* handlers re-enter each other.                                           *)
ServiceSpec == Service!Spec /\ [][reset \/ Service!Serving]_(Service!vars)
=============================================================================
