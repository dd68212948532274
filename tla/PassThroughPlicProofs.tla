----------------------- MODULE PassThroughPlicProofs ------------------------
(***************************************************************************)
(* Proofs about the components that forward inline and about the interrupt *)
(* controller.                                                             *)
(*                                                                         *)
(* PassThrough, for any requests, addresses, number of outputs and window: *)
(* the latch is enough, it is paid by an output that denied a waiting      *)
(* request, and an address is remapped once.                               *)
(*                                                                         *)
(* Plic, for any number of devices, contexts, words and priorities: the    *)
(* lines to the harts are exact, a claim takes the source it should, and   *)
(* what is pending follows the lines of the devices.  The last needs that  *)
(* software enables each source in one context at most (GivenApart).       *)
(***************************************************************************)
EXTENDS PassThrough, SequencesExt, Plic, SequenceTheorems,
        WellFoundedInduction, TLAPS

USE PassThroughAssumption, PowersPositive

----------------------------------------------------------------------------
(* Queues without repetitions.                                             *)

(* The elements of a sequence, by its indices.                             *)
LEMMA InToSet ==
    ASSUME NEW S, NEW s \in Seq(S)
    PROVE  /\ ToSet(s) \subseteq S
           /\ \A x : x \in ToSet(s) <=> \E i \in 1 .. Len(s) : s[i] = x
BY DEF ToSet

LEMMA EmptyToSet ==
    ASSUME NEW S, NEW s \in Seq(S)
    PROVE  ToSet(s) = {} <=> s = <<>>
<1>1. s # <<>> => 1 \in 1 .. Len(s)
  BY EmptySeq
<1>2. s = <<>> => 1 .. Len(s) = {}
  BY EmptySeq
<1> QED
  BY <1>1, <1>2, InToSet

LEMMA AppendToSet ==
    ASSUME NEW S, NEW s \in Seq(S), NEW e \in S
    PROVE  ToSet(Append(s, e)) = ToSet(s) \cup {e}
<1> DEFINE t == Append(s, e)
<1>1. /\ DOMAIN s = 1 .. Len(s) /\ DOMAIN t = 1 .. Len(s) + 1 /\ Len(s) \in Nat
      /\ \A i \in 1 .. Len(s) : t[i] = s[i]
      /\ t[Len(s) + 1] = e
  OBVIOUS
<1> HIDE DEF t
<1>2. ToSet(t) = ToSet(s) \cup {e}
  BY <1>1 DEF ToSet
<1> QED
  BY <1>2 DEF t

LEMMA TailToSet ==
    ASSUME NEW S, NEW s \in Seq(S), s # <<>>
    PROVE  ToSet(s) = ToSet(Tail(s)) \cup {Head(s)}
<1> DEFINE t == Tail(s)
<1>1. /\ DOMAIN s = 1 .. Len(s) /\ DOMAIN t = 1 .. Len(s) - 1 /\ Len(s) \in Nat \ {0}
      /\ Head(s) = s[1]
      /\ \A i \in 1 .. Len(s) : i = 1 \/ (i - 1 \in DOMAIN t /\ s[i] = t[i - 1])
      /\ \A i \in DOMAIN t : i + 1 \in 1 .. Len(s) /\ t[i] = s[i + 1]
  OBVIOUS
<1> HIDE DEF t
<1>2. \A i \in DOMAIN s : s[i] \in ToSet(t) \cup {Head(s)}
  BY <1>1 DEF ToSet
<1>3. Head(s) \in ToSet(s) /\ \A i \in DOMAIN t : t[i] \in ToSet(s)
  BY <1>1 DEF ToSet
<1>4. ToSet(s) = ToSet(t) \cup {Head(s)}
  BY <1>2, <1>3 DEF ToSet
<1> QED
  BY <1>4 DEF t

LEMMA InjectiveEmpty == IsInjective(<<>>)
BY DEF IsInjective

LEMMA InjectiveAppend ==
    ASSUME NEW S, NEW s \in Seq(S), NEW e \in S, IsInjective(s), e \notin ToSet(s)
    PROVE  IsInjective(Append(s, e))
BY DEF ToSet, IsInjective

LEMMA InjectiveTail ==
    ASSUME NEW S, NEW s \in Seq(S), s # <<>>, IsInjective(s)
    PROVE  IsInjective(Tail(s)) /\ Head(s) \notin ToSet(Tail(s))
BY DEF ToSet, IsInjective

----------------------------------------------------------------------------
(* Routing and remapping.                                                  *)

Addresses == 0 .. (2 ^ Width - 1)

LEMMA PowersInt == 2 ^ Width \in Nat \ {0} /\ 2 ^ offset \in Nat \ {0} /\ 2 ^ width \in Nat \ {0, 1}
<1>1. 2 ^ Width \in Int /\ 2 ^ offset \in Int /\ 2 ^ width \in Int
  OBVIOUS
<1> QED
  BY <1>1

(* Every request goes to an output there is.                               *)
LEMMA RouteInOutputs ==
    ASSUME kind \in Kinds, NEW r, NEW a \in Addresses
    PROVE  Route(r, a) \in Outputs
<1>1. a \div 2 ^ offset \in Nat
  BY PowersInt DEF Addresses
<1>2. output_id(a) \in 0 .. 2 ^ width - 1
  BY <1>1, PowersInt DEF output_id
<1> QED
  BY <1>2, PowersInt DEF Route, Outputs, rw_output_id, ID_READ, ID_WRITE

LEMMA NoOutputBelow == -1 \notin Outputs
BY DEF Outputs

(* The machine arithmetic of remap does not wrap around, and what is sent  *)
(* on is an address again.                                                 *)
LEMMA SentOnExact ==
    ASSUME kind \in Kinds, NEW a \in Addresses
    PROVE  SentOn(a) = Target(a) /\ SentOn(a) \in Addresses
<1>1. (base + size) % 2 ^ Width = base + size
  BY PowersInt
<1>2. in_window(a) <=> a \in base .. (base + size - 1)
  BY <1>1 DEF in_window, Addresses
<1>3. CASE a \in base .. (base + size - 1)
  <2>1. a - base + target_base \in 0 .. (2 ^ Width - 1)
    BY <1>3, PowersInt
  <2>2. (a - base + target_base) % 2 ^ Width = a - base + target_base
    BY <2>1, PowersInt
  <2> QED
    BY <1>2, <1>3, <2>1, <2>2 DEF SentOn, remap, Target, Addresses
<1>4. CASE a \notin base .. (base + size - 1)
  BY <1>2, <1>4 DEF SentOn, remap, Target
<1> QED
  BY <1>3, <1>4

(* Neither the outputs nor the route of a request changes.                 *)
LEMMA RouteKept ==
    ASSUME kind' = kind
    PROVE  /\ Outputs' = Outputs
           /\ \A r, a : Route(r, a)' = Route(r, a)
           /\ \A a : SentOn(a)' = SentOn(a) /\ Target(a)' = Target(a)
BY DEF Outputs, Route, SentOn, Target

----------------------------------------------------------------------------
(* The types that matter.  The functions are over the requests, and a      *)
(* request waits once.                                                     *)
Shape ==
    /\ kind \in Kinds
    /\ denied_output \in Outputs \cup {-1}
    /\ addr \in [Reqs -> Addresses] /\ orig \in [Reqs -> Addresses]
    /\ \A r \in Reqs : orig[r] \in Addrs \cup {0}
    /\ seen \in [Reqs -> Addresses \cup {-1}]
    /\ denied_queue \in Seq(Reqs) /\ IsInjective(denied_queue)
    /\ owes \in [Outputs -> BOOLEAN] /\ cb \in BOOLEAN

(* A denied request is as its master wrote it, and no slave holds it.      *)
DeniedIntact == \A r \in Denied : addr[r] = orig[r] /\ seen[r] = -1

(* The latch holds an output that denied one of the requests that wait, at *)
(* any time, and nothing while the master is being called.                 *)
LatchOwned ==
    /\ cb => denied_output = -1
    /\ denied_output # -1 =>
         owes[denied_output] /\ \E r \in Denied : Route(r, addr[r]) = denied_output

IInv == Shape /\ DeniedIntact /\ RemappedOnce /\ LatchOwned /\ WakeupHeld

LEMMA NothingWaits == <<>> \in Seq(Reqs) /\ IsInjective(<<>>) /\ ToSet(<<>>) = {}
<1>1. <<>> \in Seq(Reqs)
  OBVIOUS
<1>2. ToSet(<<>>) = {}
  BY <1>1, EmptyToSet
<1> QED
  BY <1>1, <1>2, InjectiveEmpty

LEMMA IInvInit == Init => IInv
<1> SUFFICES ASSUME Init PROVE IInv
  OBVIOUS
<1> USE DEF Init
<1>1. denied_queue \in Seq(Reqs) /\ IsInjective(denied_queue) /\ Denied = {}
  BY NothingWaits DEF Denied
<1>2. 0 \in Addresses
  BY PowersInt DEF Addresses
<1>3. Shape
  BY <1>1, <1>2 DEF Shape
<1> QED
  BY <1>1, <1>3 DEF IInv, DeniedIntact, RemappedOnce, LatchOwned, WakeupHeld

----------------------------------------------------------------------------
(* input_req for request r with address a, called by MasterSend and by     *)
(* Resend: rest is what waits besides r, and a is what the master asked    *)
(* for.                                                                    *)
Call(r, a, rest) ==
    /\ r \in Reqs /\ a \in Addresses /\ a \in Addrs \cup {0}
    /\ rest \in Seq(Reqs) /\ IsInjective(rest)
    /\ ToSet(rest) \subseteq Denied /\ r \notin ToSet(rest)
    /\ seen[r] = -1
    /\ orig' = [orig EXCEPT ![r] = a]
    /\ kind' = kind /\ cb' \in BOOLEAN

(* Whatever the output says, the types are kept and the addresses right.   *)
LEMMA CallKeepsAddresses ==
    ASSUME IInv, NEW r, NEW a, NEW rest, Call(r, a, rest),
           Accepted(r, a, rest) \/ RequestDenied(r, a, rest)
    PROVE  Shape' /\ DeniedIntact' /\ RemappedOnce'
<1> USE DEF Call
<1>1. /\ Outputs' = Outputs /\ Route(r, a) \in Outputs
      /\ SentOn(a) = Target(a) /\ SentOn(a) \in Addresses
      /\ \A b : Target(b)' = Target(b)
  BY RouteKept, RouteInOutputs, SentOnExact DEF IInv, Shape
<1>2. CASE Accepted(r, a, rest)
  <2> USE <1>2 DEF Accepted
  <2>1. Shape'
    BY <1>1 DEF IInv, Shape
  <2>2. ASSUME NEW q \in Denied' PROVE q \in Denied /\ q # r /\ q \in Reqs
    BY InToSet DEF Denied
  <2>3. DeniedIntact'
    BY <2>2 DEF IInv, Shape, DeniedIntact
  <2>4. RemappedOnce'
    BY <1>1 DEF IInv, Shape, RemappedOnce
  <2> QED
    BY <2>1, <2>3, <2>4
<1>3. CASE RequestDenied(r, a, rest)
  <2> USE <1>3 DEF RequestDenied, Latched, Restored
  <2>1. /\ denied_queue' \in Seq(Reqs) /\ IsInjective(denied_queue')
        /\ Denied' = ToSet(rest) \cup {r}
    BY AppendToSet, InjectiveAppend DEF Denied
  <2>2. Shape'
    BY <1>1, <2>1 DEF IInv, Shape
  <2>3. DeniedIntact'
    BY <1>1, <2>1 DEF IInv, Shape, DeniedIntact
  <2>4. RemappedOnce'
    BY <1>1 DEF IInv, Shape, RemappedOnce
  <2> QED
    BY <2>2, <2>3, <2>4
<1> QED
  BY <1>2, <1>3

(* A denial leaves the latch with the output that denied.                  *)
LEMMA DenialLatches ==
    ASSUME IInv, NEW r, NEW a, NEW rest, Call(r, a, rest), RequestDenied(r, a, rest), ~cb'
    PROVE  LatchOwned' /\ WakeupHeld'
<1> USE DEF Call, RequestDenied, Latched, Restored
<1>1. Denied' = ToSet(rest) \cup {r}
  BY AppendToSet DEF Denied
<1>2. /\ Route(r, a) \in Outputs
      /\ \A q, b : Route(q, b)' = Route(q, b)
  BY RouteKept, RouteInOutputs DEF IInv, Shape
<1>3. denied_output' = Route(r, a) /\ addr'[r] = a /\ owes'[Route(r, a)] = TRUE
  BY <1>2 DEF IInv, Shape
<1> QED
  BY <1>1, <1>2, <1>3, NoOutputBelow DEF LatchOwned, WakeupHeld

----------------------------------------------------------------------------
LEMMA MasterSendKeeps ==
    ASSUME IInv, NEW r \in Reqs, NEW a \in Addrs, MasterSend(r, a)
    PROVE  IInv'
<1> USE DEF MasterSend
<1>1. Call(r, a, denied_queue)
  BY DEF Call, IInv, Shape, Denied, Addresses
<1>2. Shape' /\ DeniedIntact' /\ RemappedOnce'
  BY <1>1, CallKeepsAddresses
<1>3. CASE Accepted(r, a, denied_queue)
  <2>1. \A q, b : Route(q, b)' = Route(q, b)
    BY RouteKept
  <2>2. Denied' = Denied /\ \A q \in Denied : addr'[q] = addr[q]
    BY <1>3, InToSet DEF Accepted, Denied, IInv, Shape
  <2>3. LatchOwned' /\ WakeupHeld'
    BY <1>3, <2>1, <2>2 DEF Accepted, IInv, LatchOwned, WakeupHeld
  <2> QED
    BY <1>2, <2>3 DEF IInv
<1>4. CASE RequestDenied(r, a, denied_queue)
  BY <1>1, <1>2, <1>4, DenialLatches DEF IInv
<1> QED
  BY <1>3, <1>4

LEMMA ResendKeeps ==
    ASSUME IInv, Resend
    PROVE  IInv'
<1> DEFINE r    == Head(denied_queue)
           rest == Tail(denied_queue)
<1> USE DEF Resend
<1>1. /\ r \in Reqs /\ rest \in Seq(Reqs) /\ IsInjective(rest)
      /\ r \in Denied /\ ToSet(rest) \subseteq Denied /\ r \notin ToSet(rest)
  BY TailToSet, InjectiveTail, HeadTailProperties DEF IInv, Shape, Denied
<1>2. \/ Accepted(r, addr[r], rest) /\ cb' = cb
      \/ RequestDenied(r, addr[r], rest) /\ cb' = FALSE
  OBVIOUS
<1> HIDE DEF r, rest
<1>3. addr[r] = orig[r] /\ orig' = [orig EXCEPT ![r] = addr[r]]
  BY <1>1 DEF IInv, Shape, DeniedIntact
<1>4. Call(r, addr[r], rest)
  BY <1>1, <1>2, <1>3 DEF Call, IInv, Shape, DeniedIntact
<1>5. Shape' /\ DeniedIntact' /\ RemappedOnce'
  BY <1>2, <1>4, CallKeepsAddresses
<1>6. CASE Accepted(r, addr[r], rest) /\ cb' = cb
  BY <1>5, <1>6 DEF Accepted, IInv, LatchOwned, WakeupHeld
<1>7. CASE RequestDenied(r, addr[r], rest) /\ cb' = FALSE
  BY <1>4, <1>5, <1>7, DenialLatches DEF IInv
<1> QED
  BY <1>2, <1>6, <1>7

LEMMA RetryReturnsKeeps ==
    ASSUME IInv, RetryReturns
    PROVE  IInv'
<1>1. Denied' = Denied /\ Denied = {} /\ kind' = kind
  BY EmptyToSet DEF RetryReturns, Denied, IInv, Shape
<1>2. Shape'
  BY <1>1, RouteKept DEF RetryReturns, IInv, Shape
<1> QED
  BY <1>1, <1>2, RouteKept DEF RetryReturns, IInv, DeniedIntact, RemappedOnce, LatchOwned, WakeupHeld

LEMMA RespKeeps ==
    ASSUME IInv, NEW r \in Reqs, output_resp(r)
    PROVE  IInv'
<1> USE DEF output_resp
<1>1. Denied' = Denied /\ kind' = kind
  BY DEF Denied
<1>2. Shape'
  BY RouteKept, <1>1 DEF IInv, Shape
<1>3. DeniedIntact' /\ RemappedOnce'
  BY <1>1, RouteKept, InToSet DEF IInv, Shape, DeniedIntact, RemappedOnce, Denied
<1> QED
  BY <1>1, <1>2, <1>3, RouteKept DEF IInv, LatchOwned, WakeupHeld

LEMMA RetryKeeps ==
    ASSUME IInv, NEW o \in Outputs, output_retry(o)
    PROVE  IInv'
<1> USE DEF output_retry, PassedOn
<1>1. Denied' = Denied /\ kind' = kind
  BY DEF Denied
<1>2. Shape'
  BY RouteKept, <1>1 DEF IInv, Shape
<1>3. DeniedIntact' /\ RemappedOnce'
  BY <1>1, RouteKept DEF IInv, DeniedIntact, RemappedOnce
<1>4. CASE denied_output = o
  BY <1>1, <1>2, <1>3, <1>4 DEF IInv, LatchOwned, WakeupHeld
<1>5. CASE denied_output # o
  <2>1. denied_output # -1 => owes'[denied_output] = owes[denied_output]
    BY <1>5 DEF IInv, Shape
  <2> QED
    BY <1>1, <1>2, <1>3, <1>5, <2>1, RouteKept DEF IInv, LatchOwned, WakeupHeld
<1> QED
  BY <1>4, <1>5

LEMMA ResetKeeps ==
    ASSUME IInv, reset
    PROVE  IInv'
<1> USE DEF reset
<1>1. denied_queue' \in Seq(Reqs) /\ IsInjective(denied_queue') /\ Denied' = {}
  BY NothingWaits DEF Denied
<1>2. Shape'
  BY RouteKept, <1>1 DEF IInv, Shape
<1> QED
  BY <1>1, <1>2, RouteKept DEF IInv, DeniedIntact, RemappedOnce, LatchOwned, WakeupHeld

LEMMA StutterKeeps == IInv /\ UNCHANGED vars => IInv'
<1> SUFFICES ASSUME IInv, UNCHANGED vars PROVE IInv'
  OBVIOUS
<1> USE DEF vars, IInv
<1>1. Shape'
  BY DEF Shape, Outputs
<1>2. DeniedIntact' /\ RemappedOnce'
  BY DEF DeniedIntact, RemappedOnce, Denied, Target
<1>3. LatchOwned' /\ WakeupHeld'
  BY DEF LatchOwned, WakeupHeld, Denied, Outputs, Route
<1> QED
  BY <1>1, <1>2, <1>3

LEMMA IInvKept == IInv /\ [Next]_vars => IInv'
BY MasterSendKeeps, ResendKeeps, RetryReturnsKeeps, RespKeeps, RetryKeeps, ResetKeeps,
   StutterKeeps DEF Next

(* Every variable stays in its range; one remembered output is enough: a   *)
(* master with denied requests has one of their outputs remembered, which  *)
(* will retry (input_req, output_retry); and a slave holds a request at    *)
(* the address its master asked for, remapped once (remap, the rollback in *)
(* input_req).                                                             *)
THEOREM InvHolds == Spec => []Inv
<1>1. IInv => Inv
  BY DEF IInv, Inv, Shape, TypeOK, Addresses
<1> QED
  BY IInvInit, IInvKept, <1>1, PTL DEF Spec

(* The retry() of an output that denied none of the waiting requests is    *)
(* never passed to the master (output_retry).                              *)
THEOREM NoSpuriousRetryHolds == Spec => NoSpuriousRetry
<1>1. IInv /\ [Next]_vars =>
        [\A o \in Outputs : output_retry(o) /\ cb' => \E r \in Denied : Route(r, addr[r]) = o]_vars
  <2> SUFFICES ASSUME IInv, NEW o \in Outputs, output_retry(o), cb'
               PROVE  \E r \in Denied : Route(r, addr[r]) = o
    OBVIOUS
  <2>1. denied_output = o
    BY DEF output_retry, PassedOn
  <2> QED
    BY <2>1, NoOutputBelow DEF IInv, LatchOwned
<1> QED
  BY IInvInit, IInvKept, <1>1, PTL DEF Spec, NoSpuriousRetry

----------------------------------------------------------------------------
----------------------------------------------------------------------------
(* Plic: the interrupt controller.                                         *)

HIDE PassThroughAssumption
HIDE PowersPositive

USE PlicAssumption

(* A set of natural numbers that is not empty has a least element.         *)
LEMMA LeastNat ==
    ASSUME NEW T, T \subseteq Nat, T # {}
    PROVE  \E x \in T : \A y \in T : x <= y
<1> DEFINE R == OpToRel(<, Nat)
<1>1. IsWellFoundedOn(R, Nat)
  BY NatLessThanWellFounded
<1> HIDE DEF R
<1>2. PICK x \in T : \A y \in T : ~ (<<y, x>> \in R)
  BY <1>1, WFMin
<1>3. \A y \in Nat : y < x => <<y, x>> \in R
  BY DEF R, OpToRel
<1>4. \A y \in T : ~ (y < x)
  BY <1>2, <1>3
<1>5. \A y \in T : x <= y
  BY <1>4
<1> QED
  BY <1>5

----------------------------------------------------------------------------
(* What context_best_pending returns.                                      *)

(* The variables as far as the lines and the comparison depend on them.    *)
PlicShape ==
    /\ priority \in [Bits -> Priority]
    /\ level \subseteq Sources
    /\ enable \in [Contexts -> SUBSET Bits]
    /\ pending \in [Contexts -> SUBSET (Sources \cap Bits)]
    /\ pending_priority \in [Contexts -> [Bits -> Priority]]
    /\ claimed \in [Contexts -> SUBSET Bits]
    /\ irq \in [Contexts -> BOOLEAN]

(* The comparison of context_best_pending has a winner.                    *)
LEMMA WinnerExists ==
    ASSUME NEW c \in Contexts, PlicShape, Waiting(c) # {}
    PROVE  \E i \in Waiting(c) : \A j \in Waiting(c) : Beats(c, i, j)
<1> DEFINE P(i) == pending_priority[c][i]
           W == Waiting(c)
           D == {max_prio - P(i) : i \in W}
<1>1. W \subseteq Bits /\ Bits \subseteq Nat /\ W \subseteq Nat
  BY DEF PlicShape, Waiting, Bits
<1>2. \A i \in W : P(i) \in 0 .. max_prio
  BY <1>1 DEF PlicShape, Priority
<1> HIDE DEF W, P
<1>3. D \subseteq Nat /\ D # {}
  BY <1>2 DEF W
<1>4. PICK d \in D : \A e \in D : d <= e
  BY <1>3, LeastNat
<1> DEFINE T == {i \in W : max_prio - P(i) = d}
<1>5. T \subseteq Nat /\ T # {}
  BY <1>1, <1>4
<1>6. PICK i \in T : \A j \in T : i <= j
  BY <1>5, LeastNat
<1>7. ASSUME NEW j \in W
      PROVE  P(i) > P(j) \/ (P(i) = P(j) /\ i <= j)
  <2>1. max_prio - P(j) \in D /\ d <= max_prio - P(j)
    BY <1>4
  <2>2. CASE P(j) = P(i)
    BY <2>2, <1>6
  <2>3. CASE P(j) # P(i)
    BY <2>1, <2>3, <1>2, <1>6
  <2> QED
    BY <2>2, <2>3
<1> QED
  BY <1>6, <1>7 DEF W, P, Beats

(* It returns a source that waits, or 0 when none does.                    *)
LEMMA BestPending ==
    ASSUME NEW c \in Contexts, PlicShape, 0 \notin Waiting(c)
    PROVE  /\ Waiting(c) # {} => context_best_pending(c) \in Waiting(c)
           /\ context_best_pending(c) # 0 <=> Waiting(c) # {}
<1>1. CASE Waiting(c) = {}
  BY <1>1 DEF context_best_pending
<1>2. CASE Waiting(c) # {}
  <2>1. context_best_pending(c) \in Waiting(c)
    BY <1>2, WinnerExists DEF context_best_pending
  <2> QED
    BY <1>2, <2>1
<1> QED
  BY <1>1, <1>2
(* The same of all contexts, in a state and in the next.                   *)
Sound ==
    \A c \in Contexts :
        /\ Waiting(c) # {} => context_best_pending(c) \in Waiting(c)
        /\ context_best_pending(c) # 0 <=> Waiting(c) # {}

LEMMA BestSound == PlicShape => Sound
BY BestPending DEF Sound, PlicShape, Waiting, Sources

LEMMA BestSoundNext == PlicShape' => Sound'
BY BestSound, PTL

----------------------------------------------------------------------------
(* The line to each hart.                                                  *)

(* How a call of context_update keeps the lines exact: it drives the one   *)
(* of its context, and nothing changed in the others.                      *)
LEMMA UpdateExact ==
    ASSUME PlicShape, PlicShape', LineExact, NEW c \in Contexts, context_update(c),
           \A d \in Contexts \ {c} : pending'[d] = pending[d] /\ claimed'[d] = claimed[d]
    PROVE  LineExact'
<1>1. Sound'
  BY BestSoundNext
<1>2. irq'[c] <=> Waiting(c)' # {}
  BY <1>1 DEF Sound, context_update, PlicShape
<1>3. ASSUME NEW d \in Contexts \ {c}
      PROVE  irq'[d] <=> Waiting(d)' # {}
  <2>1. irq'[d] = irq[d] /\ Waiting(d)' = Waiting(d)
    BY DEF context_update, PlicShape, Waiting
  <2> QED
    BY <2>1 DEF LineExact
<1> QED
  BY <1>2, <1>3 DEF LineExact

(* Each action keeps the shape of the variables.                           *)
LEMMA ShapeKept == PlicShape /\ [PlicNext]_PlicVars => PlicShape'
<1> SUFFICES ASSUME PlicShape, [PlicNext]_PlicVars PROVE PlicShape'
  OBVIOUS
<1> USE DEF PlicShape
<1>1. \A val \in Written : Masked(val) \in Priority
  BY DEF Masked, Priority, Written
<1>2. \A c \in Contexts : context_update(c) => irq' \in [Contexts -> BOOLEAN]
  BY DEF context_update
<1>3. ASSUME NEW id \in Sources, NEW active \in BOOLEAN, irq_sync(id, active)
      PROVE  PlicShape'
  <2>1. CASE \A c \in Contexts : id \notin enable[c]
    BY <1>3, <2>1 DEF irq_sync
  <2>2. CASE \E c \in Contexts : id \in enable[c]
    <3>1. PICK c \in Contexts : /\ id \in enable[c]
                                /\ IF active THEN Raise(c, {id}) ELSE Drop(c, {id})
                                /\ context_update(c)
      BY <1>3, <2>2 DEF irq_sync
    <3>2. level' \subseteq Sources /\ UNCHANGED <<priority, enable>>
      BY <1>3 DEF irq_sync
    <3>3. CASE active
      BY <1>2, <3>1, <3>2, <3>3 DEF Raise
    <3>4. CASE ~active
      BY <1>2, <3>1, <3>2, <3>4 DEF Drop, Dropped, Priority
    <3> QED
      BY <3>3, <3>4
  <2> QED
    BY <2>1, <2>2
<1>4. ASSUME NEW id \in Sources, NEW val \in Written, priority_write(id, val)
      PROVE  PlicShape'
  BY <1>1, <1>4 DEF priority_write
<1>5. ASSUME NEW c \in Contexts, NEW w \in 0 .. num_ids_word - 1,
             NEW val \in SUBSET (Word(w) \cap Given[c]), context_enable_write(c, w, val)
      PROVE  PlicShape'
  <2>1. val \subseteq Bits
    BY DEF Word
  <2>2. enable' \in [Contexts -> SUBSET Bits]
    BY <1>5, <2>1 DEF context_enable_write
  <2>3. pending' \in [Contexts -> SUBSET (Sources \cap Bits)]
    BY <1>5, <2>1 DEF context_enable_write, NewlyPending
  <2>4. pending_priority' \in [Contexts -> [Bits -> Priority]]
    BY <1>5 DEF context_enable_write, Priority
  <2>5. claimed' \in [Contexts -> SUBSET Bits]
    BY <1>5 DEF context_enable_write, Dropped
  <2> QED
    BY <1>2, <1>5, <2>2, <2>3, <2>4, <2>5 DEF context_enable_write
<1>6. ASSUME NEW c \in Contexts, context_claim(c)
      PROVE  PlicShape'
  <2>1. context_best_pending(c) \in Bits \cup {0}
    BY BestSound DEF Sound, Waiting, context_best_pending
  <2> QED
    BY <1>2, <1>6, <2>1 DEF context_claim
<1>7. ASSUME NEW c \in Contexts, NEW id \in Bits, Complete(c, id)
      PROVE  PlicShape'
  BY <1>2, <1>7 DEF Complete, UpdateAfter
<1>8. ASSUME NEW c \in Contexts, NEW val \in Written, WriteThreshold(c, val)
      PROVE  PlicShape'
  BY <1>8 DEF WriteThreshold
<1>9. CASE UNCHANGED PlicVars
  BY <1>9 DEF PlicVars
<1> QED
  BY <1>3, <1>4, <1>5, <1>6, <1>7, <1>8, <1>9 DEF PlicNext

(* Each action keeps the lines exact: it calls context_update for the only *)
(* context whose vectors it changes, or changes none.                      *)
LEMMA LineKept == PlicShape /\ LineExact /\ [PlicNext]_PlicVars => LineExact'
<1> SUFFICES ASSUME PlicShape, LineExact, [PlicNext]_PlicVars PROVE LineExact'
  OBVIOUS
<1>1. PlicShape'
  BY ShapeKept
<1>2. ASSUME UNCHANGED <<pending, claimed, irq>>
      PROVE  LineExact'
  BY <1>2 DEF LineExact, Waiting
<1>3. ASSUME NEW id \in Sources, NEW active \in BOOLEAN, irq_sync(id, active)
      PROVE  LineExact'
  <2>1. CASE \A c \in Contexts : id \notin enable[c]
    BY <1>2, <1>3, <2>1 DEF irq_sync
  <2>2. CASE \E c \in Contexts : id \in enable[c]
    <3>1. PICK c \in Contexts : /\ IF active THEN Raise(c, {id}) ELSE Drop(c, {id})
                                /\ context_update(c)
      BY <1>3, <2>2 DEF irq_sync
    <3>2. \A d \in Contexts \ {c} : pending'[d] = pending[d] /\ claimed'[d] = claimed[d]
      BY <3>1 DEF Raise, Drop, PlicShape
    <3> QED
      BY <1>1, <3>1, <3>2, UpdateExact
  <2> QED
    BY <2>1, <2>2
<1>4. ASSUME NEW id \in Sources, NEW val \in Written, priority_write(id, val)
      PROVE  LineExact'
  BY <1>2, <1>4 DEF priority_write
<1>5. ASSUME NEW c \in Contexts, NEW w \in 0 .. num_ids_word - 1,
             NEW val \in SUBSET (Word(w) \cap Given[c]), context_enable_write(c, w, val)
      PROVE  LineExact'
  <2>1. \A d \in Contexts \ {c} : pending'[d] = pending[d] /\ claimed'[d] = claimed[d]
    BY <1>5 DEF context_enable_write, PlicShape
  <2> QED
    BY <1>1, <1>5, <2>1, UpdateExact DEF context_enable_write
<1>6. ASSUME NEW c \in Contexts, context_claim(c)
      PROVE  LineExact'
  <2>1. \A d \in Contexts \ {c} : pending'[d] = pending[d] /\ claimed'[d] = claimed[d]
    BY <1>6 DEF context_claim, PlicShape
  <2> QED
    BY <1>1, <1>6, <2>1, UpdateExact DEF context_claim
<1>7. ASSUME NEW c \in Contexts, NEW id \in Bits, Complete(c, id)
      PROVE  LineExact'
  <2>1. \A d \in Contexts \ {c} : pending'[d] = pending[d] /\ claimed'[d] = claimed[d]
    BY <1>7 DEF Complete, PlicShape
  <2> QED
    BY <1>1, <1>7, <2>1, UpdateExact DEF Complete, UpdateAfter
<1>8. ASSUME NEW c \in Contexts, NEW val \in Written, WriteThreshold(c, val)
      PROVE  LineExact'
  BY <1>2, <1>8 DEF WriteThreshold
<1>9. CASE UNCHANGED PlicVars
  BY <1>2, <1>9 DEF PlicVars
<1> QED
  BY <1>3, <1>4, <1>5, <1>6, <1>7, <1>8, <1>9 DEF PlicNext

LEMMA InitShape == PlicInit => PlicShape /\ LineExact
<1> SUFFICES ASSUME PlicInit PROVE PlicShape /\ LineExact
  OBVIOUS
<1>1. 0 \in Priority
  BY DEF Priority
<1>2. PlicShape
  BY <1>1 DEF PlicInit, PlicShape
<1>3. LineExact
  BY DEF PlicInit, LineExact, Waiting
<1> QED
  BY <1>2, <1>3

(* The line to a hart is up exactly while an interrupt waits for it: every *)
(* handler of plic.cpp that changes what waits drives the line again, and  *)
(* the search for the best source finds one whenever there is one.         *)
THEOREM LineExactHolds == PlicSpec => []LineExact
<1>1. PlicShape /\ LineExact /\ [PlicNext]_PlicVars => (PlicShape /\ LineExact)'
  BY ShapeKept, LineKept
<1> QED
  BY InitShape, <1>1, PTL DEF PlicSpec

----------------------------------------------------------------------------
(* The pending bits.                                                       *)

GivenApart == \A c, d \in Contexts : c # d => Given[c] \cap Given[d] = {}

(* What a context enables was given to it.                                 *)
EnablesGiven == \A c \in Contexts : enable[c] \subseteq Given[c]

LEMMA EnablesKept == PlicShape /\ EnablesGiven /\ [PlicNext]_PlicVars => EnablesGiven'
<1> SUFFICES ASSUME PlicShape, EnablesGiven, [PlicNext]_PlicVars PROVE EnablesGiven'
  OBVIOUS
<1>1. ASSUME UNCHANGED enable
      PROVE  EnablesGiven'
  BY <1>1 DEF EnablesGiven
<1>2. ASSUME NEW c \in Contexts, NEW w \in 0 .. num_ids_word - 1,
             NEW val \in SUBSET (Word(w) \cap Given[c]), context_enable_write(c, w, val)
      PROVE  EnablesGiven'
  BY <1>2 DEF EnablesGiven, context_enable_write, PlicShape
<1> QED
  BY <1>1, <1>2 DEF PlicNext, PlicVars, irq_sync, priority_write, context_claim, Complete, WriteThreshold

(* With sources given to one context each, the first context that enables  *)
(* a source is the only one, so that irq_sync leaves none behind.          *)
LEMMA LevelKept ==
    ASSUME GivenApart, PlicShape, EnablesGiven, LevelTriggered, [PlicNext]_PlicVars
    PROVE  LevelTriggered'
<1>1. ASSUME NEW id \in Sources, NEW active \in BOOLEAN, irq_sync(id, active)
      PROVE  LevelTriggered'
  <2>1. CASE \A c \in Contexts : id \notin enable[c]
    <3>1. UNCHANGED <<pending, claimed, enable>>
      BY <1>1, <2>1 DEF irq_sync
    <3>2. \A c \in Contexts : enable[c] \cap level' = enable[c] \cap level
      BY <1>1, <2>1 DEF irq_sync
    <3> QED
      BY <3>1, <3>2 DEF LevelTriggered
  <2>2. CASE \E c \in Contexts : id \in enable[c]
    <3>1. PICK c \in Contexts : /\ id \in enable[c]
                                /\ IF active THEN Raise(c, {id}) ELSE Drop(c, {id})
      BY <1>1, <2>2 DEF irq_sync
    <3>2. \A d \in Contexts \ {c} : id \notin enable[d]
      BY <3>1 DEF GivenApart, EnablesGiven
    <3>3. UNCHANGED enable
      BY <1>1 DEF irq_sync
    <3>4. CASE active
      <4>1. level' = level \cup {id}
        BY <1>1, <3>4 DEF irq_sync
      <4>2. /\ pending' = [pending EXCEPT ![c] = @ \cup {id}]
            /\ UNCHANGED claimed
        BY <3>1, <3>4 DEF Raise
      <4> QED
        BY <3>1, <3>2, <3>3, <4>1, <4>2 DEF LevelTriggered, PlicShape
    <3>5. CASE ~active
      <4>1. level' = level \ {id}
        BY <1>1, <3>5 DEF irq_sync
      <4>2. /\ pending' = [pending EXCEPT ![c] = @ \ {id}]
            /\ claimed' = [claimed EXCEPT ![c] = @ \ {id}]
        BY <3>1, <3>5 DEF Drop, Dropped
      <4> QED
        BY <3>1, <3>2, <3>3, <4>1, <4>2 DEF LevelTriggered, PlicShape
    <3> QED
      BY <3>4, <3>5
  <2> QED
    BY <2>1, <2>2
<1>2. ASSUME NEW c \in Contexts, NEW w \in 0 .. num_ids_word - 1,
             NEW val \in SUBSET (Word(w) \cap Given[c]), context_enable_write(c, w, val)
      PROVE  LevelTriggered'
  <2> DEFINE new == (val \ {0}) \ enable[c]
             old == (enable[c] \cap Word(w)) \ val
  <2>1. /\ enable' = [enable EXCEPT ![c] = (@ \ Word(w)) \cup (val \ {0})]
        /\ pending' = [pending EXCEPT ![c] = (@ \ old) \cup (new \cap level)]
        /\ claimed' = [claimed EXCEPT ![c] = @ \ old]
        /\ UNCHANGED level
    BY <1>2 DEF context_enable_write, NewlyPending, Dropped
  <2>2. 0 \notin level /\ val \subseteq Word(w)
    BY DEF PlicShape, Sources
  <2>3. /\ pending'[c] = enable'[c] \cap level
        /\ claimed'[c] \subseteq pending'[c]
    BY <2>1, <2>2 DEF LevelTriggered, PlicShape
  <2> QED
    BY <2>1, <2>3 DEF LevelTriggered, PlicShape
<1>3. ASSUME NEW c \in Contexts, context_claim(c)
      PROVE  LevelTriggered'
  <2>1. {context_best_pending(c)} \ {0} \subseteq pending[c]
    BY BestSound DEF Sound, Waiting
  <2> QED
    BY <1>3, <2>1 DEF context_claim, LevelTriggered, PlicShape
<1>4. ASSUME NEW c \in Contexts, NEW id \in Bits, Complete(c, id)
      PROVE  LevelTriggered'
  BY <1>4 DEF Complete, LevelTriggered, PlicShape
<1>5. ASSUME UNCHANGED <<level, enable, pending, claimed>>
      PROVE  LevelTriggered'
  BY <1>5 DEF LevelTriggered
<1> QED
  BY <1>1, <1>2, <1>3, <1>4, <1>5 DEF PlicNext, PlicVars, priority_write, WriteThreshold

(* When each source is given to one context, what is pending is what is    *)
(* enabled and has its line up, and only that is claimed: plic.cpp:175     *)
(* "PLIC interrupts are level-triggered".                                  *)
THEOREM LevelTriggeredHolds ==
    ASSUME GivenApart
    PROVE  PlicSpec => []LevelTriggered
<1> DEFINE I == PlicShape /\ EnablesGiven /\ LevelTriggered
<1>1. PlicInit => I
  <2>1. PlicInit => EnablesGiven /\ LevelTriggered
    BY DEF PlicInit, EnablesGiven, LevelTriggered
  <2> QED
    BY <2>1, InitShape
<1>2. I /\ [PlicNext]_PlicVars => I'
  BY ShapeKept, EnablesKept, LevelKept
<1> QED
  BY <1>1, <1>2, PTL DEF PlicSpec

----------------------------------------------------------------------------
(* What a claim takes.                                                     *)

(* What waits was enabled, and is compared with the priority its register  *)
(* has now: as software leaves the priority of an enabled source alone,    *)
(* the copy is not stale.                                                  *)
CopyExact ==
    \A c \in Contexts : \A id \in pending[c] :
        id \in enable[c] /\ pending_priority[c][id] = priority[id]

LEMMA CopyKept ==
    ASSUME Disciplined, PlicShape, CopyExact, [PlicNext]_PlicVars
    PROVE  CopyExact'
<1>1. ASSUME NEW id \in Sources, NEW active \in BOOLEAN, irq_sync(id, active)
      PROVE  CopyExact'
  <2>1. CASE \A c \in Contexts : id \notin enable[c]
    <3>1. {c \in Contexts : id \in enable[c]} = {}
      BY <2>1
    <3>2. /\ UNCHANGED pending /\ UNCHANGED pending_priority
          /\ UNCHANGED priority /\ UNCHANGED enable
      BY <1>1, <3>1 DEF irq_sync
    <3> QED
      BY <3>2 DEF CopyExact
  <2>2. CASE \E c \in Contexts : id \in enable[c]
    <3>1. PICK c \in Contexts : /\ id \in enable[c]
                                /\ IF active THEN Raise(c, {id}) ELSE Drop(c, {id})
      BY <1>1, <2>2 DEF irq_sync
    <3>2. UNCHANGED <<priority, enable>>
      BY <1>1 DEF irq_sync
    <3>3. CASE active
      BY <3>1, <3>2, <3>3 DEF Raise, CopyExact, PlicShape
    <3>4. CASE ~active
      BY <3>1, <3>2, <3>4 DEF Drop, CopyExact, PlicShape
    <3> QED
      BY <3>3, <3>4
  <2> QED
    BY <2>1, <2>2
<1>2. ASSUME NEW id \in Sources, NEW val \in Written, priority_write(id, val)
      PROVE  CopyExact'
  BY <1>2 DEF priority_write, CopyExact, PlicShape
<1>3. ASSUME NEW c \in Contexts, NEW w \in 0 .. num_ids_word - 1,
             NEW val \in SUBSET (Word(w) \cap Given[c]), context_enable_write(c, w, val)
      PROVE  CopyExact'
  <2> DEFINE new == (val \ {0}) \ enable[c]
             old == (enable[c] \cap Word(w)) \ val
             up  == new \cap level
  <2>1. /\ enable' = [enable EXCEPT ![c] = (@ \ Word(w)) \cup (val \ {0})]
        /\ pending' = [pending EXCEPT ![c] = (@ \ old) \cup up]
        /\ pending_priority' = [pending_priority EXCEPT ![c] =
                                  [id \in Bits |-> CASE id \in up  -> priority[id]
                                                     [] id \in old -> 0
                                                     [] OTHER      -> @[id]]]
        /\ UNCHANGED priority
    BY <1>3 DEF context_enable_write, NewlyPending
  <2>2. ASSUME NEW id \in pending'[c]
        PROVE  id \in enable'[c] /\ pending_priority'[c][id] = priority[id]
    <3>1. id \in up \/ (id \in pending[c] /\ id \notin old)
      BY <2>1 DEF PlicShape
    <3>2. CASE id \in up
      <4>1. id \in Bits
        BY <3>2 DEF Word
      <4> QED
        BY <2>1, <3>2, <4>1 DEF PlicShape
    <3>3. CASE id \in pending[c] /\ id \notin old /\ id \notin up
      <4>1. id \in Bits /\ id # 0 /\ id \in enable[c] /\ pending_priority[c][id] = priority[id]
        BY <3>3 DEF PlicShape, Sources, CopyExact
      <4>2. pending_priority'[c][id] = pending_priority[c][id]
        BY <2>1, <3>3, <4>1 DEF PlicShape
      <4> QED
        BY <2>1, <3>3, <4>1, <4>2 DEF PlicShape
    <3> QED
      BY <3>1, <3>2, <3>3
  <2>3. \A d \in Contexts : d # c =>
           /\ enable'[d] = enable[d] /\ pending'[d] = pending[d]
           /\ pending_priority'[d] = pending_priority[d]
    BY <2>1 DEF PlicShape
  <2>4. ASSUME NEW d \in Contexts, d # c, NEW id \in pending'[d]
        PROVE  id \in enable'[d] /\ pending_priority'[d][id] = priority[id]
    <3>1. /\ enable'[d] = enable[d] /\ pending'[d] = pending[d]
          /\ pending_priority'[d] = pending_priority[d]
      BY <2>3, <2>4
    <3>2. id \in pending[d]
      BY <2>4, <3>1
    <3>3. id \in enable[d] /\ pending_priority[d][id] = priority[id]
      BY ONLY CopyExact, d \in Contexts, <3>2 DEF CopyExact
    <3> QED
      BY ONLY <3>1, <3>3
  <2>5. UNCHANGED priority
    BY <2>1
  <2> HIDE DEF new, old, up
  <2> QED
    BY <2>2, <2>4, <2>5 DEF CopyExact
<1>4. ASSUME UNCHANGED <<priority, enable, pending, pending_priority>>
      PROVE  CopyExact'
  BY <1>4 DEF CopyExact
<1> QED
  BY <1>1, <1>2, <1>3, <1>4 DEF PlicNext, PlicVars, context_claim, Complete, WriteThreshold

(* Only context_claim adds a claim, and it adds the winner.                *)
LEMMA ClaimsWinner ==
    ASSUME PlicShape, CopyExact, [PlicNext]_PlicVars, NEW c \in Contexts,
           NEW i \in claimed'[c] \ claimed[c], NEW j \in Waiting(c)
    PROVE  priority[j] < priority[i] \/ (priority[j] = priority[i] /\ i <= j)
<1>1. ASSUME NEW id \in Sources, NEW active \in BOOLEAN, irq_sync(id, active)
      PROVE  FALSE
  BY <1>1 DEF irq_sync, Raise, Drop, Dropped, PlicShape
<1>2. ASSUME NEW d \in Contexts, NEW w \in 0 .. num_ids_word - 1,
             NEW val \in SUBSET (Word(w) \cap Given[d]), context_enable_write(d, w, val)
      PROVE  FALSE
  BY <1>2 DEF context_enable_write, Dropped, PlicShape
<1>3. ASSUME NEW d \in Contexts, NEW id \in Bits, Complete(d, id)
      PROVE  FALSE
  BY <1>3 DEF Complete, PlicShape
<1>4. PICK d \in Contexts : context_claim(d)
  BY <1>1, <1>2, <1>3 DEF PlicNext, PlicVars, priority_write, WriteThreshold
<1>5. d = c /\ i = context_best_pending(c)
  BY <1>4 DEF context_claim, PlicShape
<1>6. i \in Waiting(c) /\ Beats(c, i, j)
  BY <1>5, WinnerExists DEF context_best_pending
<1>7. /\ pending_priority[c][i] = priority[i] /\ pending_priority[c][j] = priority[j]
      /\ priority[i] \in Int /\ priority[j] \in Int
  BY <1>6 DEF Waiting, CopyExact, PlicShape, Priority
<1> QED
  BY <1>6, <1>7 DEF Beats

(* When software changes the priority of a source only while no context    *)
(* enables it, a claim takes the source whose register has the highest     *)
(* priority at that time, the lowest of several, although                  *)
(* context_best_pending compares the copies made when the sources became   *)
(* pending.                                                                *)
THEOREM ClaimsHighestHolds ==
    ASSUME Disciplined
    PROVE  PlicSpec => ClaimsHighest
<1> DEFINE I == PlicShape /\ CopyExact
<1>1. PlicInit => I
  <2>1. PlicInit => CopyExact
    BY DEF PlicInit, CopyExact
  <2> QED
    BY <2>1, InitShape
<1>2. I /\ [PlicNext]_PlicVars => I'
  BY ShapeKept, CopyKept
<1>3. I /\ [PlicNext]_PlicVars =>
        [\A c \in Contexts : \A i \in claimed'[c] \ claimed[c] : \A j \in Waiting(c) :
           priority[j] < priority[i] \/ (priority[j] = priority[i] /\ i <= j)]_PlicVars
  BY ClaimsWinner
<1> QED
  BY <1>1, <1>2, <1>3, PTL DEF PlicSpec, ClaimsHighest
=============================================================================
