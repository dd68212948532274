-------------------------------- MODULE Plic --------------------------------
(***************************************************************************)
(* The platform-level interrupt controller, models/cpu/plic.cpp: interrupt *)
(* lines of devices, and for each context (the machine mode of a hart, and *)
(* its supervisor mode) the sources it enables, those pending and claimed, *)
(* and a line to the hart.                                                 *)
(*                                                                         *)
(* The accesses of the hart and the changes of the lines come one at a     *)
(* time.  An access of eight bytes is two of four, in turn.  Registers     *)
(* that are only read, and accesses that are refused, change nothing and   *)
(* are left out; bit vectors are sets of sources.                          *)
(***************************************************************************)
EXTENDS Integers, FiniteSets

CONSTANTS ndev,
          Contexts,         \* their numbers: an even one is a machine mode
          WordBits,         \* sources per word of a bit vector
          PLIC_PRIO_BITS,
          Given,            \* Given[c]: the sources software enables there
          Disciplined       \* software changes the priority of a source
                            \* only while no context enables it

num_ids == ndev + 1
num_ids_word == (num_ids + WordBits - 1) \div WordBits
max_prio == 2 ^ PLIC_PRIO_BITS - 1

Sources  == 1 .. ndev
Bits     == 0 .. num_ids_word * WordBits - 1
Word(w)  == {id \in Bits : id \div WordBits = w}
Priority == 0 .. max_prio
Written  == 0 .. max_prio + 1          \* values software writes

ASSUME PlicAssumption ==
    /\ ndev \in Nat /\ WordBits \in Nat \ {0}
    /\ PLIC_PRIO_BITS \in Nat /\ max_prio \in Nat
    /\ Contexts \subseteq Nat /\ IsFiniteSet(Contexts)
    /\ Given \in [Contexts -> SUBSET Bits]
    /\ Disciplined \in BOOLEAN

VARIABLES priority, level,
          enable, pending, pending_priority, claimed, priority_threshold,
          irq               \* the lines to the harts

PlicVars == <<priority, level, enable, pending, pending_priority, claimed, priority_threshold, irq>>

PlicInit ==
    /\ priority = [id \in Bits |-> 0]
    /\ level = {}
    /\ enable = [c \in Contexts |-> {}]
    /\ pending = [c \in Contexts |-> {}]
    /\ pending_priority = [c \in Contexts |-> [id \in Bits |-> 0]]
    /\ claimed = [c \in Contexts |-> {}]
    /\ priority_threshold = [c \in Contexts |-> 0]
    /\ irq = [c \in Contexts |-> FALSE]

----------------------------------------------------------------------------
Waiting(c) == {id \in pending[c] \ claimed[c] : id < num_ids}

(* A slip: of equal priorities the last source wins.                       *)
SlipBeats(c, i, j) ==
    \/ pending_priority[c][i] > pending_priority[c][j]
    \/ pending_priority[c][i] = pending_priority[c][j] /\ i >= j

(* i is found before j, or has the higher priority.                        *)
Beats(c, i, j) ==
    \/ pending_priority[c][i] > pending_priority[c][j]
    \/ pending_priority[c][i] = pending_priority[c][j] /\ i <= j

context_best_pending(c) ==
    IF Waiting(c) = {} THEN 0
    ELSE CHOOSE i \in Waiting(c) : \A j \in Waiting(c) : Beats(c, i, j)

context_update(c) == irq' = [irq EXCEPT ![c] = (context_best_pending(c) # 0)']

(* Source id becomes pending in context c, or no longer is.                *)
Raise(c, ids) ==
    /\ pending' = [pending EXCEPT ![c] = @ \cup ids]
    /\ pending_priority' = [pending_priority EXCEPT ![c] =
                              [id \in Bits |-> IF id \in ids THEN priority[id] ELSE @[id]]]
    /\ UNCHANGED claimed

(* A slip: the claim outlives the interrupt.                               *)
SlipDropped(set, ids) == set

Dropped(set, ids) == set \ ids

Drop(c, ids) ==
    /\ pending' = [pending EXCEPT ![c] = @ \ ids]
    /\ pending_priority' = [pending_priority EXCEPT ![c] =
                              [id \in Bits |-> IF id \in ids THEN 0 ELSE @[id]]]
    /\ claimed' = [claimed EXCEPT ![c] = Dropped(@, ids)]

----------------------------------------------------------------------------
(* A device drives its line.  The first context that enables the source    *)
(* hears of it.                                                            *)
irq_sync(id, active) ==
    LET enabling == {c \in Contexts : id \in enable[c]} IN
    /\ level' = IF active THEN level \cup {id} ELSE level \ {id}
    /\ IF enabling = {} THEN UNCHANGED <<pending, pending_priority, claimed, irq>>
       ELSE \E c \in enabling :
            /\ \A d \in enabling : c <= d
            /\ IF active THEN Raise(c, {id}) ELSE Drop(c, {id})
            /\ context_update(c)
    /\ UNCHANGED <<priority, enable, priority_threshold>>

Masked(val) == val % (max_prio + 1)

(* What is pending keeps the priority it had when it became pending.       *)
priority_write(id, val) ==
    /\ Disciplined => \A c \in Contexts : id \notin enable[c]
    /\ priority' = [priority EXCEPT ![id] = Masked(val)]
    /\ UNCHANGED <<level, enable, pending, pending_priority, claimed, priority_threshold, irq>>

(* A slip: a source that is enabled while its line is up is overlooked.    *)
SlipNewlyPending(new) == {}

NewlyPending(new) == new \cap level

(* Word w of the vector becomes val, but source 0 does not exist.          *)
context_enable_write(c, w, val) ==
    LET new == (val \ {0}) \ enable[c]
        old == (enable[c] \cap Word(w)) \ val
        up  == NewlyPending(new)
    IN  /\ enable' = [enable EXCEPT ![c] = (@ \ Word(w)) \cup (val \ {0})]
        /\ pending' = [pending EXCEPT ![c] = (@ \ old) \cup up]
        /\ pending_priority' = [pending_priority EXCEPT ![c] =
                                  [id \in Bits |-> CASE id \in up  -> priority[id]
                                                     [] id \in old -> 0
                                                     [] OTHER      -> @[id]]]
        /\ claimed' = [claimed EXCEPT ![c] = Dropped(@, old)]
        /\ UNCHANGED <<priority, level, priority_threshold>>
        /\ context_update(c)

(* context_read of CONTEXT_CLAIM                                           *)
context_claim(c) ==
    /\ claimed' = [claimed EXCEPT ![c] = @ \cup ({context_best_pending(c)} \ {0})]
    /\ UNCHANGED <<priority, level, enable, pending, pending_priority, priority_threshold>>
    /\ context_update(c)

(* A slip: the line to the hart is not driven again.                       *)
SlipUpdateAfter(c) == UNCHANGED irq

UpdateAfter(c) == context_update(c)

(* context_write of CONTEXT_CLAIM                                          *)
Complete(c, id) ==
    /\ id < num_ids /\ id \in enable[c]
    /\ claimed' = [claimed EXCEPT ![c] = @ \ {id}]
    /\ UNCHANGED <<priority, level, enable, pending, pending_priority, priority_threshold>>
    /\ UpdateAfter(c)

(* context_write of CONTEXT_THRESHOLD                                      *)
WriteThreshold(c, val) ==
    /\ priority_threshold' = [priority_threshold EXCEPT ![c] = Masked(val)]
    /\ UNCHANGED <<priority, level, enable, pending, pending_priority, claimed, irq>>

PlicNext ==
    \/ \E id \in Sources : \/ \E active \in BOOLEAN : irq_sync(id, active)
                           \/ \E val \in Written : priority_write(id, val)
    \/ \E c \in Contexts :
         \/ \E w \in 0 .. num_ids_word - 1 : \E val \in SUBSET (Word(w) \cap Given[c]) :
              context_enable_write(c, w, val)
         \/ context_claim(c)
         \/ \E id \in Bits : Complete(c, id)
         \/ \E val \in Written : WriteThreshold(c, val)

PlicSpec == PlicInit /\ [][PlicNext]_PlicVars

(* The hart claims while its line is up.                                   *)
PlicFairSpec == PlicSpec /\ \A c \in Contexts : WF_PlicVars(irq[c] /\ context_claim(c))

----------------------------------------------------------------------------
(* Every variable stays in its range.                                      *)
PlicTypeOK ==
    /\ priority \in [Bits -> Priority] /\ level \subseteq Sources
    /\ enable \in [Contexts -> SUBSET (Bits \ {0})]
    /\ pending \in [Contexts -> SUBSET Sources] /\ claimed \in [Contexts -> SUBSET Sources]
    /\ pending_priority \in [Contexts -> [Bits -> Priority]]
    /\ priority_threshold \in [Contexts -> Priority]
    /\ irq \in [Contexts -> BOOLEAN]

(* The line to a hart is up exactly while a source waits for it, whichever *)
(* of the lines, the enables, the claims and the completions came last.    *)
LineExact == \A c \in Contexts : irq[c] <=> Waiting(c) # {}

(* plic.cpp:175 "PLIC interrupts are level-triggered": what is pending in  *)
(* a context are the sources it enables whose line is up, so that nothing  *)
(* is taken twice or not at all; and only those can be claimed.            *)
LevelTriggered ==
    \A c \in Contexts : pending[c] = enable[c] \cap level /\ claimed[c] \subseteq pending[c]

(* The hart gets the source with the highest priority its register has at  *)
(* that time, the lowest of several, although the comparison is made with  *)
(* copies (pending_priority).                                              *)
ClaimsHighest ==
    [][\A c \in Contexts : \A i \in claimed'[c] \ claimed[c] : \A j \in Waiting(c) :
         priority[j] < priority[i] \/ (priority[j] = priority[i] /\ i <= j)]_PlicVars

(* A source whose line stays up, and which no other source of its context  *)
(* comes before, is taken by a hart that claims while its line is up.      *)
First(c, id) == \A j \in enable[c] \ {id} :
                   priority[j] < priority[id] \/ (priority[j] = priority[id] /\ id < j)
FirstTaken ==
    \A c \in Contexts, id \in Sources :
      id \in enable[c] \cap level /\ First(c, id)
        ~> id \in claimed[c] \/ id \notin enable[c] \cap level \/ ~First(c, id)
=============================================================================
