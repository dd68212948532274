------------------------------ MODULE IssCore ------------------------------
(***************************************************************************)
(* The in-order core of the second instruction-set simulator: the          *)
(* dispatcher of models/cpu/iss_v2/src/exec/exec_inorder.cpp and the io_v2 *)
(* load/store unit of models/cpu/iss_v2/src/lsu_v2.cpp, with the scoreboard*)
(* of the register file and the commit queue both compiled in.             *)
(*                                                                         *)
(* instr_event runs once per cycle: the pending tasks first, then one      *)
(* instruction.  An access that is not over at once holds its instruction; *)
(* the answer, or a task of the access when the slave only announced a     *)
(* latency, retires it.  Answers and retry() come between two events.      *)
(*                                                                         *)
(* Abstractions.  The program is any sequence of instructions; each is its *)
(* operation and the registers it reads and writes.  The values are left   *)
(* out: a split access is followed by the parts of it that were sent.      *)
(* Times are relative to the current cycle.  A run of instructions of the  *)
(* commit queue that are ready is one element, for they commit together.   *)
(* An access answered with an error ends as any other.  What an exception  *)
(* or an interrupt jumps to is a choice of the program, at any event that  *)
(* is not stalled (Begin).  Traces, counters and the reset, which is not   *)
(* given while the core runs, are left out.                                *)
(***************************************************************************)
EXTENDS Integers, Sequences, FiniteSets, SequencesExt

CONSTANTS Insns,            \* [op, in, out, split, stall]
          Platforms         \* [nb, split, answers]

(* The answers of data.req(): a latency for a request that is DONE.        *)
Granted == -1
Denied  == -2

Ops == {"load", "store", "alu", "fence", "wfi"}

ASSUME IssCoreAssumption ==
    /\ \A i \in Insns :
         /\ i.op \in Ops /\ i.split \in BOOLEAN /\ i.stall \in Nat
         /\ IsFiniteSet(i.in) /\ IsFiniteSet(i.out)
         /\ i.split => i.op \in {"load", "store"}
    /\ \A p \in Platforms :
         /\ p.nb \in Nat \ {0} /\ p.split \in BOOLEAN
         /\ p.answers \subseteq Nat \cup {Granted, Denied}

(* Elements of the commit queue and of the task list that are no accesses. *)
Ready   == 0
Wfi     == -1
Unblock == 0

VARIABLES
    platform,               \* how this core and its memory are built
    current_insn,
    phase,                  \* of instr_event: start, tasks, issue, end
    first_task, todo,       \* the tasks enqueued, and those being run
    stall_cycles,
    wfi, instr_disabled,
    pending_interrupt,      \* mie & mip
    sb_reg_invalid,
    unblock_slot,           \* the parked mask, and cycles until it is due
    queue,
    req_entry_first,        \* the free entries
    entry,                  \* entry[e]
    io_req_denied, pending_fence,
    next_retire_cycle,
    owes,                   \* slave: it denied and has not retried
    landed                  \* registers whose access retired in this cycle

evars == <<phase, first_task, todo, stall_cycles, wfi, instr_disabled>>
svars == <<sb_reg_invalid, unblock_slot, queue, landed>>
lvars == <<req_entry_first, entry, io_req_denied, pending_fence, next_retire_cycle, owes>>
IssVars  == <<platform, current_insn, pending_interrupt, evars, svars, lvars>>

Entries == 1 .. platform.nb

(* second is misaligned_size # 0, out what the instruction will write, and *)
(* left how many parts of the access are still to be sent.                 *)
FreeEntry == [st |-> "free", out |-> {}, second |-> FALSE, timestamp |-> 0, left |-> 0]

Program == {i \in Insns : i.split => platform.split}

Slot(mask, due) == [mask |-> mask, due |-> due]
NoSlot == Slot({}, 0)

IssInit ==
    /\ platform \in Platforms
    /\ current_insn \in Program
    /\ phase = "start" /\ first_task = <<>> /\ todo = <<>> /\ stall_cycles = 0
    /\ wfi = FALSE /\ instr_disabled = FALSE /\ pending_interrupt = FALSE
    /\ sb_reg_invalid = {} /\ unblock_slot = NoSlot /\ queue = <<>> /\ landed = {}
    /\ req_entry_first = [i \in Entries |-> platform.nb + 1 - i]
    /\ entry = [e \in Entries |-> FreeEntry]
    /\ io_req_denied = FALSE /\ pending_fence = FALSE
    /\ next_retire_cycle = 0 /\ owes = FALSE

nb_pending_accesses == platform.nb - Len(req_entry_first)

----------------------------------------------------------------------------
(* The commit queue.                                                       *)

(* An instruction that is over at once, or becomes ready, behind those of  *)
(* q: at the head it commits, and behind a ready one it joins its run.     *)
Follow(q) == IF q = <<>> \/ Last(q) = Ready THEN q ELSE Append(q, Ready)

(* The same of the run of ready instructions that comes next.              *)
Joined(q) == IF q # <<>> /\ Head(q) = Ready THEN Tail(q) ELSE q

(* A slip: only the head can become ready.                                 *)
SlipInsnTerminate(q, x) == IF q # <<>> /\ Head(q) = x THEN Joined(Tail(q)) ELSE q

(* insn_terminate of the youngest instruction held for x.                  *)
InsnTerminate(q, x) ==
    LET at == {i \in DOMAIN q : q[i] = x}
        k  == CHOOSE i \in at : \A j \in at : j <= i
    IN  IF at = {} THEN q
        ELSE Follow(SubSeq(q, 1, k - 1)) \o Joined(SubSeq(q, k + 1, Len(q)))

InsnHold(q, x) == Append(q, x)

----------------------------------------------------------------------------
(* An access and the answer a to its request.                              *)

(* free_req_entry: the mark of a second part stays.                        *)
Freed(en) == [FreeEntry EXCEPT !.second = en.second, !.left = en.left]

Sent(en, a) ==
    CASE a = Granted -> [en EXCEPT !.st = "slave"]
      [] a = Denied  -> [en EXCEPT !.st = "denied"]
      [] a > 0       -> [en EXCEPT !.st = "task", !.timestamp = a]
      [] a = 0       -> Freed(en)

(* A slave that denied denies until it retries.                            *)
Answers == IF owes THEN platform.answers \cap {Denied} ELSE platform.answers

(* fire_misaligned_second: the entry is used again, for the second part.   *)
Rearm(en) == [en EXCEPT !.second = FALSE, !.left = @ - 1]
FireSecond(en) == {Sent(Rearm(en), a) : a \in Answers}

(* data_req_aligned for instruction i, when it is not denied.              *)
Prepare(en, i) == [en EXCEPT !.out = i.out, !.left = IF i.split THEN 1 ELSE 0]
DataReqAligned(en) ==
    UNION {IF a = 0 /\ en.second THEN FireSecond(en) ELSE {Sent(en, a)} :
           a \in Answers \ {Denied}}

(* data_req_misaligned marks the entry once the first part has been sent,  *)
(* whatever became of the entry.                                           *)
Misaligned(en, i) ==
    IF i.split THEN [en EXCEPT !.second = TRUE] ELSE en

(* The task list and the free list once entry e has become en.             *)
EnqueueIf(c, t, tasks) == IF c THEN <<t>> \o tasks ELSE tasks
FreeIf(c, e, list)     == IF c THEN <<e>> \o list ELSE list

----------------------------------------------------------------------------
(* Retiring an access.                                                     *)

unblock_task_pending(tasks) == Unblock \in Range(tasks)

(* schedule_scoreboard_release; tasks are the ones enqueued or to be run.  *)
ScheduleScoreboardRelease(mask, tasks) ==
    IF mask = {} THEN UNCHANGED <<sb_reg_invalid, unblock_slot>> /\ first_task' = first_task
    ELSE /\ sb_reg_invalid' = sb_reg_invalid \ unblock_slot.mask
         /\ unblock_slot' = Slot(mask, 1)
         /\ first_task' = EnqueueIf(~unblock_task_pending(tasks), Unblock, first_task)

(* handle_req_end, the release of the registers and insn_terminate.        *)
Retire(e, tasks) ==
    /\ entry' = [entry EXCEPT ![e] = Freed(@)]
    /\ req_entry_first' = <<e>> \o req_entry_first
    /\ ScheduleScoreboardRelease(entry[e].out, tasks)
    /\ queue' = InsnTerminate(queue, e)
    /\ landed' = landed \cup entry[e].out
    /\ next_retire_cycle' = 1
    /\ UNCHANGED <<io_req_denied, pending_fence, owes>>

(* The access waits for the next cycle in which it may retire.             *)
Defer(e) ==
    /\ entry' = [entry EXCEPT ![e].st = "task", ![e].timestamp = next_retire_cycle]
    /\ next_retire_cycle' = next_retire_cycle + 1
    /\ first_task' = <<e>> \o first_task
    /\ UNCHANGED <<svars, req_entry_first, io_req_denied, pending_fence, owes>>

(* The second part of a split access; nobody looks at what it returns.     *)
SecondPart(e) ==
    /\ \E en \in FireSecond(entry[e]) :
         /\ entry' = [entry EXCEPT ![e] = en]
         /\ req_entry_first' = FreeIf(en.st = "free", e, req_entry_first)
         /\ first_task' = EnqueueIf(en.st = "task", e, first_task)
         /\ owes' = (owes \/ en.st = "denied")
    /\ UNCHANGED <<svars, io_req_denied, pending_fence, next_retire_cycle>>

(* A slip: answers retire as they come.                                    *)
SlipMayRetire == TRUE

MayRetire == next_retire_cycle = 0

(* What data_response and task_handle have in common.                      *)
Land(e, tasks) ==
    \/ entry[e].second /\ SecondPart(e)
    \/ ~entry[e].second /\ ~MayRetire /\ Defer(e)
    \/ ~entry[e].second /\ MayRetire /\ Retire(e, tasks)

----------------------------------------------------------------------------
(* instr_event.                                                            *)

(* has_exception, irq.check: the core goes on where it was, possibly with  *)
(* an instruction that it could not issue yet, or in a trap handler.       *)
Redirected == current_insn' \in Program

(* exec_instr_check_all up to handle_tasks.                                *)
Begin ==
    /\ phase = "start" /\ ~instr_disabled
    /\ \/ /\ stall_cycles > 0
          /\ stall_cycles' = stall_cycles - 1 /\ phase' = "end"
          /\ UNCHANGED <<current_insn, first_task, todo>>
       \/ /\ stall_cycles = 0
          /\ Redirected
          /\ phase' = IF first_task = <<>> THEN "issue" ELSE "tasks"
          /\ todo' = first_task /\ first_task' = <<>>
          /\ UNCHANGED stall_cycles
    /\ UNCHANGED <<platform, pending_interrupt, wfi, instr_disabled, svars, lvars>>

(* task_unblock_handle                                                     *)
TaskUnblock ==
    /\ phase = "tasks" /\ todo # <<>> /\ Head(todo) = Unblock
    /\ todo' = Tail(todo)
    /\ LET due == unblock_slot.due = 0 IN
         /\ sb_reg_invalid' = IF due THEN sb_reg_invalid \ unblock_slot.mask ELSE sb_reg_invalid
         /\ unblock_slot' = IF due THEN NoSlot ELSE unblock_slot
         /\ first_task' = EnqueueIf(~due, Unblock, first_task)
    /\ UNCHANGED <<platform, current_insn, pending_interrupt, phase, stall_cycles, wfi,
                   instr_disabled, queue, landed, lvars>>

(* task_handle                                                             *)
TaskHandle(e) ==
    /\ phase = "tasks" /\ todo # <<>> /\ Head(todo) = e
    /\ todo' = Tail(todo)
    /\ \/ /\ entry[e].timestamp > 0
          /\ first_task' = <<e>> \o first_task
          /\ UNCHANGED <<svars, lvars>>
       \/ /\ entry[e].timestamp = 0
          /\ Land(e, first_task \o Tail(todo))
    /\ UNCHANGED <<platform, current_insn, pending_interrupt, phase, stall_cycles, wfi,
                   instr_disabled>>

(* A slip: the event is disabled whatever waits in the task list.          *)
SlipRetainCheck(tasks) == TRUE

(* retain_check of a core that is retained.                                *)
RetainCheck(tasks) == instr_disabled \/ tasks = <<>>

(* The end of handle_tasks.                                                *)
TasksDone ==
    /\ phase = "tasks" /\ todo = <<>>
    /\ phase' = IF wfi THEN "end" ELSE "issue"
    /\ instr_disabled' = (wfi /\ RetainCheck(first_task))
    /\ UNCHANGED <<platform, current_insn, pending_interrupt, first_task, todo, stall_cycles,
                   wfi, svars, lvars>>

----------------------------------------------------------------------------
(* One instruction.                                                        *)

Regs(i) == i.in \cup i.out

(* scoreboard_insn_check                                                   *)
Blocked(i) == Regs(i) \cap sb_reg_invalid # {}

IsAccess(i) == i.op \in {"load", "store"}

Issuing(i) == phase = "issue" /\ phase' = "end" /\ i = current_insn
Stall == UNCHANGED <<current_insn, stall_cycles>>
Complete(i) == current_insn' \in Program /\ stall_cycles' = stall_cycles + i.stall

(* The instruction is tried again in the next cycle: a register it needs   *)
(* is not valid, or the unit takes no access.                              *)
IssueStalled(i) ==
    /\ Issuing(i) /\ Stall
    /\ \/ Blocked(i)
       \/ IsAccess(i) /\ (io_req_denied \/ req_entry_first = <<>>)
    /\ UNCHANGED <<platform, pending_interrupt, first_task, todo, wfi, instr_disabled,
                   svars, lvars>>

(* The request is sent and denied: the entry is given back.                *)
IssueDenied(i) ==
    /\ Issuing(i) /\ Stall
    /\ IsAccess(i) /\ ~Blocked(i) /\ ~io_req_denied
    /\ req_entry_first # <<>>
    /\ Denied \in Answers
    /\ io_req_denied' = TRUE /\ owes' = TRUE
    /\ UNCHANGED <<platform, pending_interrupt, first_task, todo, wfi, instr_disabled,
                   svars, req_entry_first, entry, pending_fence, next_retire_cycle>>

(* The request is sent and accepted.                                       *)
IssueAccess(i, e) ==
    /\ Issuing(i) /\ Complete(i)
    /\ IsAccess(i) /\ ~Blocked(i) /\ ~io_req_denied
    /\ req_entry_first # <<>> /\ e = Head(req_entry_first)
    /\ \E en \in DataReqAligned(Prepare(entry[e], i)) :
         /\ entry' = [entry EXCEPT ![e] = Misaligned(en, i)]
         /\ req_entry_first' = FreeIf(en.st = "free", e, Tail(req_entry_first))
         /\ first_task' = EnqueueIf(en.st = "task", e, first_task)
         /\ owes' = (owes \/ en.st = "denied")
         /\ queue' = IF en.st = "free" THEN Follow(queue) ELSE InsnHold(queue, e)
         /\ sb_reg_invalid' = IF en.st = "free" THEN sb_reg_invalid ELSE sb_reg_invalid \cup i.out
    /\ UNCHANGED <<platform, pending_interrupt, todo, wfi, instr_disabled, unblock_slot,
                   landed, io_req_denied, pending_fence, next_retire_cycle>>

IssueAlu(i) ==
    /\ Issuing(i) /\ Complete(i)
    /\ i.op = "alu" /\ ~Blocked(i)
    /\ queue' = Follow(queue)
    /\ UNCHANGED <<platform, pending_interrupt, first_task, todo, wfi, instr_disabled,
                   sb_reg_invalid, unblock_slot, landed, lvars>>

(* A slip: a fence that has waited once goes on.                           *)
SlipFencePassed == nb_pending_accesses = 0 \/ pending_fence

FencePassed == nb_pending_accesses = 0

(* fence: it stalls once; later it is executed again in each cycle, and    *)
(* follows the held instructions each time.                                *)
IssueFence(i) ==
    /\ Issuing(i)
    /\ i.op = "fence" /\ ~Blocked(i)
    /\ pending_fence' = ~FencePassed
    /\ IF FencePassed THEN Complete(i) ELSE Stall
    /\ queue' = IF FencePassed \/ pending_fence THEN Follow(queue) ELSE queue
    /\ UNCHANGED <<platform, pending_interrupt, first_task, todo, wfi, instr_disabled,
                   sb_reg_invalid, unblock_slot, landed,
                   req_entry_first, entry, io_req_denied, next_retire_cycle, owes>>

(* wfi_handle                                                              *)
IssueWfi(i) ==
    /\ Issuing(i) /\ Complete(i)
    /\ i.op = "wfi" /\ ~Blocked(i)
    /\ wfi' = ~pending_interrupt
    /\ instr_disabled' = (wfi' /\ RetainCheck(first_task))
    /\ queue' = IF wfi' THEN InsnHold(queue, Wfi) ELSE Follow(queue)
    /\ UNCHANGED <<platform, pending_interrupt, first_task, todo, sb_reg_invalid,
                   unblock_slot, landed, lvars>>

----------------------------------------------------------------------------
(* Callbacks, the interrupt lines and the clock.                           *)

Quiet == phase \in {"start", "end"}

(* data_response                                                           *)
DataResponse(e) ==
    /\ Quiet /\ entry[e].st = "slave"
    /\ Land(e, first_task)
    /\ UNCHANGED <<platform, current_insn, pending_interrupt, phase, todo, stall_cycles, wfi,
                   instr_disabled>>

(* data_retry                                                              *)
DataRetry ==
    /\ Quiet /\ owes
    /\ owes' = FALSE /\ io_req_denied' = FALSE
    /\ UNCHANGED <<platform, current_insn, pending_interrupt, evars, svars, req_entry_first,
                   entry, pending_fence, next_retire_cycle>>

(* check_interrupts, when a line changes.                                  *)
CheckInterrupts ==
    /\ Quiet
    /\ pending_interrupt' = ~pending_interrupt
    /\ wfi' = (wfi /\ ~pending_interrupt')
    /\ instr_disabled' = (instr_disabled /\ wfi')
    /\ queue' = IF wfi /\ ~wfi' THEN InsnTerminate(queue, Wfi) ELSE queue
    /\ UNCHANGED <<platform, current_insn, phase, first_task, todo, stall_cycles,
                   sb_reg_invalid, unblock_slot, landed, lvars>>

Sooner(t) == IF t = 0 THEN 0 ELSE t - 1

(* The clock engine.                                                       *)
Tick ==
    /\ phase = "end" \/ (phase = "start" /\ instr_disabled)
    /\ phase' = "start"
    /\ entry' = [e \in Entries |-> [entry[e] EXCEPT !.timestamp = Sooner(@)]]
    /\ next_retire_cycle' = Sooner(next_retire_cycle)
    /\ unblock_slot' = [unblock_slot EXCEPT !.due = Sooner(@)]
    /\ landed' = {}
    /\ UNCHANGED <<platform, current_insn, pending_interrupt, first_task, todo, stall_cycles,
                   wfi, instr_disabled, sb_reg_invalid, queue, req_entry_first, io_req_denied,
                   pending_fence, owes>>

Issue ==
    \E i \in Program :
       \/ IssueStalled(i)
       \/ IssueDenied(i)
       \/ \E e \in Entries : IssueAccess(i, e)
       \/ IssueAlu(i)
       \/ IssueFence(i)
       \/ IssueWfi(i)

InstrEvent ==
    \/ Begin
    \/ TaskUnblock
    \/ \E e \in Entries : TaskHandle(e)
    \/ TasksDone
    \/ Issue

IssNext ==
    \/ InstrEvent
    \/ \E e \in Entries : DataResponse(e)
    \/ DataRetry
    \/ CheckInterrupts
    \/ Tick

(* The clock does not stop, and the slave answers and retries.             *)
IssFairness ==
    /\ WF_IssVars(InstrEvent)
    /\ WF_IssVars(Tick)
    /\ \A e \in 1 .. Max({p.nb : p \in Platforms}) :
         WF_IssVars(e \in Entries /\ DataResponse(e))
    /\ WF_IssVars(DataRetry)

IssSpec == IssInit /\ [][IssNext]_IssVars
IssFairSpec == IssSpec /\ IssFairness

----------------------------------------------------------------------------
InFlight == {e \in Entries : entry[e].st # "free"}
Held(x)  == {i \in DOMAIN queue : queue[i] = x}

(* Every variable stays in its range.                                      *)
IssTypeOK ==
    /\ platform \in Platforms /\ current_insn \in Program
    /\ phase \in {"start", "tasks", "issue", "end"}
    /\ Range(first_task) \cup Range(todo) \subseteq Entries \cup {Unblock}
    /\ stall_cycles \in Nat /\ next_retire_cycle \in Nat
    /\ {wfi, instr_disabled, pending_interrupt, io_req_denied, pending_fence, owes}
         \subseteq BOOLEAN
    /\ UNION {sb_reg_invalid, unblock_slot.mask, landed} \subseteq UNION {i.out : i \in Insns}
    /\ unblock_slot.due \in {0, 1}
    /\ Range(queue) \subseteq Entries \cup {Ready, Wfi}
    /\ Range(req_entry_first) \subseteq Entries
    /\ \A e \in Entries :
         /\ entry[e].st \in {"free", "slave", "task", "denied"}
         /\ entry[e].timestamp \in Nat /\ entry[e].second \in BOOLEAN

(* What the accesses of I will write, where h[e] is the record of e.        *)
AllOuts(h, I) == UNION {h[f].out : f \in I}

(* A register is invalid exactly from the dispatch of the access that      *)
(* writes it to the cycle after the access retired: no instruction reads   *)
(* or writes it meanwhile (scoreboard_insn_check), and none waits for a    *)
(* register that nobody will release (schedule_scoreboard_release keeps    *)
(* one mask only).                                                         *)
ScoreboardExact ==
    sb_reg_invalid = AllOuts(entry, InFlight) \cup unblock_slot.mask

(* riscv.py:71 "modelling the classic load-use stall: a dependent insn     *)
(* dispatched the same cycle the response lands still sees the destination *)
(* as in flight".                                                          *)
LoadUse ==
    [][phase = "issue" /\ current_insn' # current_insn => Regs(current_insn) \cap landed = {}]_IssVars

(* Each access in flight holds one instruction of the commit queue, and    *)
(* each instruction that is held waits for an access or an interrupt that  *)
(* will release it: the queue cannot be stuck behind an instruction that   *)
(* insn_terminate was forgotten for.                                       *)
HeldExact ==
    /\ \A e \in Entries : Cardinality(Held(e)) = IF e \in InFlight THEN 1 ELSE 0
    /\ Cardinality(Held(Wfi)) = IF wfi THEN 1 ELSE 0

(* What waits for instr_event is in the task list once; a core that does   *)
(* not sleep in wfi has its event, and one that sleeps with nothing in the *)
(* list has not, for it would run on; and each entry is either free or in  *)
(* flight.                                                                 *)
TasksArmed ==
    LET tasks == first_task \o todo
        Count(t) == Cardinality({i \in DOMAIN tasks : tasks[i] = t})
    IN  /\ \A e \in Entries : Count(e) = IF entry[e].st = "task" THEN 1 ELSE 0
        /\ unblock_slot.mask # {} => Count(Unblock) = 1
        /\ ~wfi => ~instr_disabled
        /\ wfi /\ Quiet /\ tasks = <<>> => instr_disabled
        /\ Cardinality(InFlight) = nb_pending_accesses

(* retain_check stops the event of a core in wfi only when nothing that    *)
(* needs the event is left (exec_inorder.cpp:568, "first_task == NULL"):   *)
(* no access waits for its date, and no register for its release.  What is *)
(* in flight then is up to the slave.                                      *)
SleepsIdle ==
    [][instr_disabled' /\ ~instr_disabled =>
          /\ \A e \in Entries : entry'[e].st # "task"
          /\ unblock_slot'.mask = {}]_IssVars

(* A fence is passed only when every earlier access has committed: the     *)
(* count of accesses that fence() looks at and the commit queue agree.     *)
FenceOrdered ==
    [][phase = "issue" /\ current_insn.op = "fence" /\ current_insn' # current_insn
         => \A e \in Entries : Held(e) = {}]_IssVars

(* lsu_v2.cpp:401 "`data_req_aligned` doesn't free it on the sync-DONE /   *)
(* GRANTED paths": an access whose entry was given back has been sent      *)
(* completely, and its mark does not wait for another access.              *)
BothBeats == \A e \in Entries : entry[e].st = "free" => entry[e].left = 0 /\ ~entry[e].second

(* The dispatcher, the load/store unit, the scoreboard, the task list and  *)
(* the commit queue agree on the accesses in flight.                       *)
IssInv == IssTypeOK /\ ScoreboardExact /\ HeldExact /\ TasksArmed /\ BothBeats

(* lsu_v2.cpp:497 "GRANTED/DENIED: response or retry will land us back in  *)
(* data_response": a second part that was denied is sent again.            *)
NoneLost == \A e \in Entries : entry[e].st # "denied"

(* A core asleep has no access that waits for its event.  An answer of the *)
(* slave breaks it: data_response enqueues the task of an access it puts   *)
(* off (lsu_v2.cpp:127), and nobody enables the event before an interrupt. *)
AsleepIdle == instr_disabled => \A e \in Entries : entry[e].st # "task"

(* lsu_v2.hpp:158 "A response landing earlier [...] self-defers via its    *)
(* entry's task to the value in `next_retire_cycle`. Serializes writebacks *)
(* one per cycle": an access that was taken retires.                       *)
Retires == \A e \in 1 .. Max({p.nb : p \in Platforms}) : e \in InFlight ~> e \notin InFlight
=============================================================================
