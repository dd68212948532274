------------------------- MODULE RouterLogIcoProofs -------------------------
(***************************************************************************)
(* Proofs about the routers that forward inline and about the logarithmic  *)
(* interconnect.                                                           *)
(*                                                                         *)
(* RouterInline, for any masters, inputs, outputs and mappings: every      *)
(* granted request is in exactly one place, resp_muxed finds its way back, *)
(* and nobody waits without a retry() to come.                             *)
(*                                                                         *)
(* LogIco, for any number of masters and any number of banks the decoder   *)
(* is made for: the decoding is a bijection, the arbiter is a round robin, *)
(* a bank has two winners a cycle at most, no denied request is forgotten, *)
(* and the FSM runs as long as one waits.                                  *)
(***************************************************************************)
EXTENDS RouterInline, SequencesExt, LogIco, SequenceTheorems,
        FiniteSetTheorems, WellFoundedInduction, TLAPS

USE RouterInlineAssumption

----------------------------------------------------------------------------
(* Queues without repetitions.                                             *)

(* The elements of a sequence, by its indices.                             *)
LEMMA InToSet ==
    ASSUME NEW S, NEW s \in Seq(S)
    PROVE  /\ ToSet(s) \subseteq S
           /\ \A x : x \in ToSet(s) <=> \E i \in 1 .. Len(s) : s[i] = x
BY DEF ToSet

LEMMA EmptyToSet ==
    ASSUME NEW S, NEW s \in Seq(S)
    PROVE  ToSet(s) = {} <=> s = <<>>
<1>1. s # <<>> => 1 \in 1 .. Len(s)
  BY EmptySeq
<1>2. s = <<>> => 1 .. Len(s) = {}
  BY EmptySeq
<1> QED
  BY <1>1, <1>2, InToSet

LEMMA AppendToSet ==
    ASSUME NEW S, NEW s \in Seq(S), NEW e \in S
    PROVE  ToSet(Append(s, e)) = ToSet(s) \cup {e}
<1> DEFINE t == Append(s, e)
<1>1. /\ DOMAIN s = 1 .. Len(s) /\ DOMAIN t = 1 .. Len(s) + 1 /\ Len(s) \in Nat
      /\ \A i \in 1 .. Len(s) : t[i] = s[i]
      /\ t[Len(s) + 1] = e
  OBVIOUS
<1> HIDE DEF t
<1>2. ToSet(t) = ToSet(s) \cup {e}
  BY <1>1 DEF ToSet
<1> QED
  BY <1>2 DEF t

LEMMA TailToSet ==
    ASSUME NEW S, NEW s \in Seq(S), s # <<>>
    PROVE  ToSet(s) = ToSet(Tail(s)) \cup {Head(s)}
<1> DEFINE t == Tail(s)
<1>1. /\ DOMAIN s = 1 .. Len(s) /\ DOMAIN t = 1 .. Len(s) - 1 /\ Len(s) \in Nat \ {0}
      /\ Head(s) = s[1]
      /\ \A i \in 1 .. Len(s) : i = 1 \/ (i - 1 \in DOMAIN t /\ s[i] = t[i - 1])
      /\ \A i \in DOMAIN t : i + 1 \in 1 .. Len(s) /\ t[i] = s[i + 1]
  OBVIOUS
<1> HIDE DEF t
<1>2. \A i \in DOMAIN s : s[i] \in ToSet(t) \cup {Head(s)}
  BY <1>1 DEF ToSet
<1>3. Head(s) \in ToSet(s) /\ \A i \in DOMAIN t : t[i] \in ToSet(s)
  BY <1>1 DEF ToSet
<1>4. ToSet(s) = ToSet(t) \cup {Head(s)}
  BY <1>2, <1>3 DEF ToSet
<1> QED
  BY <1>4 DEF t

LEMMA InjectiveEmpty == IsInjective(<<>>)
BY DEF IsInjective

LEMMA InjectiveAppend ==
    ASSUME NEW S, NEW s \in Seq(S), NEW e \in S, IsInjective(s), e \notin ToSet(s)
    PROVE  IsInjective(Append(s, e))
BY DEF ToSet, IsInjective

LEMMA InjectiveTail ==
    ASSUME NEW S, NEW s \in Seq(S), s # <<>>, IsInjective(s)
    PROVE  IsInjective(Tail(s)) /\ Head(s) \notin ToSet(Tail(s))
BY DEF ToSet, IsInjective

----------------------------------------------------------------------------
(* The inductive invariant.                                                *)

Walks == [kind : {"walk"}, out : Outputs, at : 0 .. nb_input_port, drains : BOOLEAN]
Beats == [kind : {"beat"}, req : Reqs]

(* Only the bandwidth router drains queues.  While it delivers a beat with *)
(* the master's own initiator, the master is in its callback.              *)
HandlerShape ==
    \/ handler = Idle
    \/ handler \in Walks /\ (handler.drains => variant = "bandwidth")
    \/ handler \in Beats /\ cb = In[handler.req] /\ handler.req \in below

Types ==
    /\ variant \in {"bandwidth", "untimed"}
    /\ stalled \in [Outputs -> BOOLEAN] /\ owes \in [Outputs -> BOOLEAN]
    /\ below \subseteq Reqs \cup {Proxy} /\ moved = below
    /\ cb \in Inputs \cup {None}
    /\ mst \in [Reqs -> {"idle", "denied", "retrying", "granted"}]

(* A request waits once, at its own input, for an output there is.         *)
QueueShape ==
    /\ queue \in [Inputs -> Seq(Reqs)]
    /\ \A i \in Inputs : IsInjective(queue[i])
    /\ \A i \in Inputs : \A r \in ToSet(queue[i]) : In[r] = i /\ Dest[r] \in Outputs

Queued(r) == r \in ToSet(queue[In[r]])

Placed ==
    \A r \in Reqs : /\ mst[r] = "granted" <=> Queued(r) \/ r \in below
                    /\ ~(Queued(r) /\ r \in below)

(* The untimed router stalls and queues nothing, the bandwidth router      *)
(* denies nothing.                                                         *)
VariantShape ==
    /\ variant = "untimed" =>
         (\A o \in Outputs : ~stalled[o]) /\ (\A i \in Inputs : queue[i] = <<>>)
    /\ variant = "bandwidth" => \A r \in Reqs : mst[r] \notin {"denied", "retrying"}

StallOwed == \A o \in Outputs : stalled[o] => owes[o]

(* The walk of retry_muxed has still to come to input i, or drains it.     *)
Reaches(i, o) ==
    /\ handler.kind = "walk" /\ handler.at <= i
    /\ handler.out = o \/ (handler.at = i /\ handler.drains)

QueueServed ==
    \A i \in Inputs : queue[i] # <<>> =>
        LET o == Dest[Head(queue[i])] IN stalled[o] \/ Reaches(i, o)

MasterServed ==
    \A r \in Reqs : mst[r] = "denied" =>
        /\ Dest[r] \in Outputs
        /\ \/ owes[Dest[r]]
           \/ handler.kind = "walk" /\ handler.at <= In[r] /\ handler.out = Dest[r]

ProxyShape ==
    /\ proxy_retry_waiter \in {None, Proxy} /\ waiter \in {"Pending", "Replied", "Retry"}
    /\ pst \in {"idle", "wait_reply", "wait_retry"} /\ pdest \in Outputs \cup {Invalid}
    /\ variant = "bandwidth" /\ Proxy \in below => pst = "wait_reply" /\ waiter # "Replied"
    /\ pst = "wait_retry" => Proxy \notin below /\ pdest \in Outputs
    /\ proxy_retry_waiter = Proxy <=> pst = "wait_retry" /\ waiter = "Pending"
    /\ pst = "wait_retry" /\ waiter = "Pending" => owes[pdest] \/ handler.kind = "walk"

IInv ==
    /\ Types /\ HandlerShape /\ QueueShape /\ Placed /\ VariantShape /\ StallOwed
    /\ Routed /\ QueueServed /\ MasterServed /\ ProxyShape

----------------------------------------------------------------------------
(* The queues.                                                             *)

(* The oldest request of a queue.                                          *)
LEMMA HeadShape ==
    ASSUME QueueShape, NEW i \in Inputs, queue[i] # <<>>
    PROVE  LET r == Head(queue[i])
           IN  r \in Reqs /\ In[r] = i /\ Dest[r] \in Outputs /\ Queued(r)
<1>1. queue[i] \in Seq(Reqs)
  BY DEF QueueShape
<1>2. Head(queue[i]) \in ToSet(queue[i]) /\ Head(queue[i]) \in Reqs
  BY <1>1, TailToSet, HeadTailProperties
<1> QED
  BY <1>2 DEF QueueShape, Queued

(* A request joins the queue of its input.                                 *)
LEMMA Joins ==
    ASSUME QueueShape, NEW r \in Reqs, ~Queued(r), Dest[r] \in Outputs,
           queue' = [queue EXCEPT ![In[r]] = Append(@, r)]
    PROVE  /\ QueueShape'
           /\ \A q \in Reqs : Queued(q)' <=> Queued(q) \/ q = r
           /\ \A i \in Inputs : queue[i] # <<>> => queue'[i] # <<>> /\ Head(queue'[i]) = Head(queue[i])
           /\ \A i \in Inputs : queue[i] = <<>> /\ queue'[i] # <<>> => Head(queue'[i]) = r
<1> DEFINE j == In[r]
           s == queue[j]
           t == Append(s, r)
<1>1. j \in Inputs /\ s \in Seq(Reqs) /\ IsInjective(s) /\ r \notin ToSet(s)
  BY DEF QueueShape, Queued
<1>2. t \in Seq(Reqs) /\ IsInjective(t) /\ ToSet(t) = ToSet(s) \cup {r}
  BY <1>1, AppendToSet, InjectiveAppend
<1>3. t # <<>> /\ (s # <<>> => Head(t) = Head(s)) /\ (s = <<>> => Head(t) = r)
  <2>1. Len(t) = Len(s) + 1 /\ Len(s) \in Nat /\ t[Len(s) + 1] = r
        /\ \A k \in 1 .. Len(s) : t[k] = s[k]
    BY <1>1, AppendProperties, LenProperties
  <2>2. t # <<>> /\ Head(t) = t[1]
    <3> HIDE DEF t
    <3>1. Len(t) # 0
      BY <2>1
    <3> QED
      BY <1>2, <3>1, EmptySeq, HeadTailProperties
  <2>3. s # <<>> => Head(s) = s[1] /\ 1 \in 1 .. Len(s)
    BY <1>1, <2>1, EmptySeq, HeadTailProperties
  <2>4. s = <<>> => Len(s) = 0
    BY EmptySeq
  <2> QED
    BY <2>1, <2>2, <2>3, <2>4
<1>4. queue'[j] = t /\ \A i \in Inputs : i # j => queue'[i] = queue[i]
  BY <1>1 DEF QueueShape
<1> HIDE DEF t, s
<1>5. queue' \in [Inputs -> Seq(Reqs)]
  BY <1>1, <1>2 DEF QueueShape, s, t
<1>6. QueueShape'
  <2> SUFFICES ASSUME NEW i \in Inputs
               PROVE  /\ IsInjective(queue'[i])
                      /\ \A q \in ToSet(queue'[i]) : In[q] = i /\ Dest[q] \in Outputs
    BY <1>5 DEF QueueShape
  <2>1. CASE i = j
    BY <1>1, <1>2, <1>4, <2>1 DEF QueueShape, s
  <2>2. CASE i # j
    BY <1>4, <2>2 DEF QueueShape
  <2> QED
    BY <2>1, <2>2
<1>7. \A q \in Reqs : Queued(q)' <=> Queued(q) \/ q = r
  <2> SUFFICES ASSUME NEW q \in Reqs PROVE Queued(q)' <=> Queued(q) \/ q = r
    OBVIOUS
  <2>1. CASE In[q] = j
    BY <1>2, <1>4, <2>1 DEF Queued, s
  <2>2. CASE In[q] # j
    BY <1>4, <2>2 DEF Queued
  <2> QED
    BY <2>1, <2>2
<1>8. \A i \in Inputs : queue[i] # <<>> => queue'[i] # <<>> /\ Head(queue'[i]) = Head(queue[i])
  BY <1>3, <1>4 DEF s
<1>9. \A i \in Inputs : queue[i] = <<>> /\ queue'[i] # <<>> => Head(queue'[i]) = r
  BY <1>3, <1>4 DEF s
<1> QED
  BY <1>6, <1>7, <1>8, <1>9

(* The oldest request leaves its queue.                                    *)
LEMMA Leaves ==
    ASSUME QueueShape, NEW i \in Inputs, queue[i] # <<>>,
           queue' = [queue EXCEPT ![i] = Tail(@)]
    PROVE  /\ QueueShape'
           /\ \A q \in Reqs : Queued(q)' <=> Queued(q) /\ q # Head(queue[i])
           /\ \A k \in Inputs : k # i => queue'[k] = queue[k]
<1> DEFINE s == queue[i]
           t == Tail(s)
           r == Head(s)
<1>1. s \in Seq(Reqs) /\ IsInjective(s) /\ s # <<>>
  BY DEF QueueShape
<1>2. /\ t \in Seq(Reqs) /\ IsInjective(t) /\ r \in Reqs
      /\ ToSet(s) = ToSet(t) \cup {r} /\ r \notin ToSet(t)
  BY <1>1, TailToSet, InjectiveTail, HeadTailProperties
<1>3. queue'[i] = t /\ \A k \in Inputs : k # i => queue'[k] = queue[k]
  BY DEF QueueShape
<1> HIDE DEF t, r
<1>4. queue' \in [Inputs -> Seq(Reqs)]
  BY <1>2 DEF QueueShape, t
<1>5. QueueShape'
  BY <1>2, <1>3, <1>4 DEF QueueShape
<1>6. \A q \in Reqs : Queued(q)' <=> Queued(q) /\ q # r
  <2> SUFFICES ASSUME NEW q \in Reqs PROVE Queued(q)' <=> Queued(q) /\ q # r
    OBVIOUS
  <2>1. CASE In[q] = i
    BY <1>2, <1>3, <2>1 DEF Queued
  <2>2. CASE In[q] # i
    <3>1. In[r] = i
      BY HeadShape DEF r
    <3> QED
      BY <1>3, <2>2, <3>1 DEF Queued
  <2> QED
    BY <2>1, <2>2
<1> QED
  BY <1>3, <1>5, <1>6 DEF r

----------------------------------------------------------------------------
(* What a denial by output o does to who waits for whom.                   *)

(* Stalls and debts only grow in a forward, and the request may become     *)
(* denied only by the output it was sent to.                               *)
LEMMA ForwardKeeps ==
    ASSUME Types, VariantShape, StallOwed, MasterServed, NEW r, NEW o \in Outputs,
           ForwardDone(r, o) \/ ForwardGranted(r, o) \/ ForwardDenied(r, o),
           UNCHANGED variant
    PROVE  /\ stalled' \in [Outputs -> BOOLEAN] /\ owes' \in [Outputs -> BOOLEAN]
           /\ StallOwed'
           /\ \A p \in Outputs : (stalled[p] => stalled'[p]) /\ (owes[p] => owes'[p])
           /\ variant = "untimed" => \A p \in Outputs : ~stalled'[p]
           /\ ForwardDenied(r, o) => owes'[o] /\ (variant = "bandwidth" => stalled'[o])
<1>1. CASE ForwardDone(r, o) \/ ForwardGranted(r, o)
  <2>1. UNCHANGED <<stalled, owes>>
    BY <1>1 DEF ForwardDone, ForwardGranted
  <2>2. ~owes[o]
    BY <1>1 DEF ForwardDone, ForwardGranted
  <2>3. ~ForwardDenied(r, o)
    BY <2>1, <2>2 DEF ForwardDenied, Types
  <2> QED
    BY <2>1, <2>3 DEF Types, StallOwed, VariantShape
<1>2. CASE ForwardDenied(r, o)
  <2>1. /\ owes' = [owes EXCEPT ![o] = TRUE]
        /\ stalled' = [stalled EXCEPT ![o] = (variant = "bandwidth")]
    BY <1>2 DEF ForwardDenied
  <2>2. stalled' \in [Outputs -> BOOLEAN] /\ owes' \in [Outputs -> BOOLEAN]
    BY <2>1 DEF Types
  <2>3. owes'[o] /\ (\A p \in Outputs : owes[p] => owes'[p])
    BY <2>1 DEF Types
  <2>4. \A p \in Outputs : p # o => stalled'[p] = stalled[p] /\ owes'[p] = owes[p]
    BY <2>1 DEF Types
  <2>5. stalled'[o] = (variant = "bandwidth")
    BY <2>1 DEF Types
  <2>6. variant = "bandwidth" \/ variant = "untimed"
    BY DEF Types
  <2> QED
    BY <2>2, <2>3, <2>4, <2>5, <2>6 DEF StallOwed, VariantShape
<1> QED
  BY <1>1, <1>2

----------------------------------------------------------------------------
(* req_muxed, for a request its master has not been granted.               *)

LEMMA ReqKeeps ==
    ASSUME IInv, NEW r \in Reqs, mst[r] \in {"idle", "retrying"}, req_muxed(r),
           UNCHANGED <<variant, handler, cb, pvars>>
    PROVE  IInv'
<1> USE DEF IInv
<1>1. /\ r \notin below /\ r # Proxy /\ ~Queued(r)
      /\ r \in Reqs /\ In[r] \in Inputs
  BY DEF Placed
<1>2. handler \in Beats => handler.req # r
  BY <1>1 DEF HandlerShape, Idle, Walks, Beats
<1>3. CASE ReqInvalid(r)
  <2>1. /\ mst' = [mst EXCEPT ![r] = "idle"]
        /\ UNCHANGED <<stalled, queue, inflight, moved, below, owes>>
    BY <1>3 DEF ReqInvalid, Becomes, rvars
  <2>2. Types' /\ HandlerShape' /\ QueueShape' /\ StallOwed' /\ Routed'
    BY <2>1 DEF Types, HandlerShape, QueueShape, StallOwed, Routed
  <2>3. Placed' /\ VariantShape'
    BY <1>1, <2>1 DEF Placed, VariantShape, Queued, Types
  <2>4. QueueServed' /\ MasterServed' /\ ProxyShape'
    BY <2>1 DEF QueueServed, Reaches, MasterServed, ProxyShape, Types, pvars
  <2> QED
    BY <2>2, <2>3, <2>4
<1>4. CASE ReqStalled(r)
  <2>1. /\ Dest[r] \in Outputs /\ stalled[Dest[r]]
        /\ mst' = [mst EXCEPT ![r] = "granted"]
        /\ queue' = [queue EXCEPT ![In[r]] = Append(@, r)]
        /\ UNCHANGED <<stalled, inflight, moved, below, owes>>
    BY <1>4 DEF ReqStalled, Becomes
  <2>2. Types' /\ HandlerShape' /\ StallOwed' /\ Routed'
    BY <2>1 DEF Types, HandlerShape, StallOwed, Routed
  <2>3. /\ QueueShape'
        /\ \A q \in Reqs : Queued(q)' <=> Queued(q) \/ q = r
        /\ \A i \in Inputs : queue[i] # <<>> => queue'[i] # <<>> /\ Head(queue'[i]) = Head(queue[i])
        /\ \A i \in Inputs : queue[i] = <<>> /\ queue'[i] # <<>> => Head(queue'[i]) = r
    BY <1>1, <2>1, Joins
  <2>4. Placed' /\ VariantShape'
    BY <1>1, <2>1, <2>3 DEF Placed, VariantShape, Types
  <2>5. QueueServed'
    BY <2>1, <2>3 DEF QueueServed, Reaches
  <2>6. MasterServed' /\ ProxyShape'
    BY <2>1 DEF MasterServed, ProxyShape, Types, pvars
  <2> QED
    BY <2>2, <2>3, <2>4, <2>5, <2>6
<1>5. CASE ReqForwarded(r)
  <2>1. Dest[r] \in Outputs /\ queue' = queue
    BY <1>5 DEF ReqForwarded
  <2>2. \/ mst' = [mst EXCEPT ![r] = "idle"] /\ UNCHANGED <<stalled, inflight, moved, below, owes>>
        \/ /\ mst' = [mst EXCEPT ![r] = "granted"]
           /\ inflight' = inflight \cup {r} /\ moved' = moved \cup {r} /\ below' = below \cup {r}
           /\ UNCHANGED <<stalled, owes>>
    BY <1>5 DEF ReqForwarded, ForwardDone, ForwardGranted, Becomes
  <2>3. Types' /\ QueueShape' /\ StallOwed'
    <3>1. stalled' = stalled /\ owes' = owes
      BY <2>2
    <3>2. mst' \in [Reqs -> {"idle", "denied", "retrying", "granted"}]
      BY <2>2 DEF Types
    <3>3. below' \subseteq Reqs \cup {Proxy} /\ moved' = below'
      BY <2>2 DEF Types
    <3>4. Types'
      BY <3>1, <3>2, <3>3 DEF Types
    <3> QED
      BY <2>1, <3>1, <3>4 DEF QueueShape, StallOwed
  <2>4. HandlerShape' /\ Routed'
    <3>1. HandlerShape'
      BY <2>2 DEF HandlerShape
    <3>2. handler.kind = "beat" => handler.req # r
      BY <1>2 DEF HandlerShape, Idle, Walks
    <3> QED
      BY <2>2, <3>1, <3>2 DEF Routed
  <2>5. Placed' /\ VariantShape'
    BY <1>1, <2>1, <2>2 DEF Placed, VariantShape, Queued, Types
  <2>6. QueueServed' /\ MasterServed' /\ ProxyShape'
    BY <1>1, <2>1, <2>2 DEF QueueServed, Reaches, MasterServed, ProxyShape, Types, pvars
  <2> QED
    BY <2>3, <2>4, <2>5, <2>6
<1>6. CASE ReqDenied(r)
  <2> DEFINE o == Dest[r]
  <2>1. o \in Outputs /\ ForwardDenied(r, o)
    BY <1>6 DEF ReqDenied
  <2>2. /\ stalled' \in [Outputs -> BOOLEAN] /\ owes' \in [Outputs -> BOOLEAN]
        /\ StallOwed'
        /\ \A p \in Outputs : (stalled[p] => stalled'[p]) /\ (owes[p] => owes'[p])
        /\ variant = "untimed" => \A p \in Outputs : ~stalled'[p]
        /\ owes'[o] /\ (variant = "bandwidth" => stalled'[o])
    BY <2>1, ForwardKeeps
  <2>3. moved' = moved \ {r} /\ UNCHANGED <<inflight, below>>
    BY <2>1 DEF ForwardDenied, Restored
  <2>4. \/ /\ variant = "bandwidth"
           /\ queue' = [queue EXCEPT ![In[r]] = Append(@, r)]
           /\ mst' = [mst EXCEPT ![r] = "granted"]
        \/ variant = "untimed" /\ mst' = [mst EXCEPT ![r] = "denied"] /\ queue' = queue
    BY <1>1, <1>6 DEF ReqDenied, Absorbed, Becomes, QueueShape
  <2>5. Types'
    BY <1>1, <2>2, <2>3, <2>4 DEF Types
  <2>6. HandlerShape' /\ Routed'
    BY <2>3 DEF HandlerShape, Routed
  <2>7. CASE variant = "bandwidth"
    <3>1. /\ queue' = [queue EXCEPT ![In[r]] = Append(@, r)]
          /\ mst' = [mst EXCEPT ![r] = "granted"]
      BY <2>4, <2>7
    <3>2. /\ QueueShape'
          /\ \A q \in Reqs : Queued(q)' <=> Queued(q) \/ q = r
          /\ \A i \in Inputs : queue[i] # <<>> => queue'[i] # <<>> /\ Head(queue'[i]) = Head(queue[i])
          /\ \A i \in Inputs : queue[i] = <<>> /\ queue'[i] # <<>> => Head(queue'[i]) = r
      BY <1>1, <2>1, <3>1, Joins
    <3>3. Placed' /\ VariantShape'
      BY <1>1, <2>3, <2>7, <3>1, <3>2 DEF Placed, VariantShape, Types
    <3>4. QueueServed'
      <4> SUFFICES ASSUME NEW i \in Inputs, queue'[i] # <<>>
                   PROVE  stalled'[Dest[Head(queue'[i])]] \/ Reaches(i, Dest[Head(queue'[i])])
        BY DEF QueueServed, Reaches
      <4>1. CASE queue[i] # <<>>
        <5>1. Dest[Head(queue[i])] \in Outputs
          BY <4>1, HeadShape
        <5> QED
          BY <2>2, <3>2, <4>1, <5>1 DEF QueueServed
      <4>2. CASE queue[i] = <<>>
        BY <2>2, <2>7, <3>2, <4>2
      <4> QED
        BY <4>1, <4>2
    <3>5. MasterServed'
      BY <2>2, <3>1 DEF MasterServed, Types
    <3> QED
      BY <2>2, <2>5, <2>6, <3>2, <3>3, <3>4, <3>5, <2>3 DEF ProxyShape, pvars
  <2>8. CASE variant = "untimed"
    <3>1. mst' = [mst EXCEPT ![r] = "denied"] /\ queue' = queue
      BY <2>4, <2>8
    <3>2. QueueShape' /\ Placed' /\ VariantShape'
      BY <1>1, <2>2, <2>3, <2>8, <3>1 DEF QueueShape, Placed, VariantShape, Queued, Types
    <3>3. QueueServed'
      BY <2>8, <3>1 DEF QueueServed, VariantShape
    <3>4. MasterServed'
      BY <2>1, <2>2, <3>1 DEF MasterServed, Types
    <3> QED
      BY <2>2, <2>5, <2>6, <3>2, <3>3, <3>4, <2>3 DEF ProxyShape, pvars
  <2> QED
    BY <2>7, <2>8 DEF Types
<1> QED
  BY <1>3, <1>4, <1>5, <1>6 DEF req_muxed

----------------------------------------------------------------------------
(* The callbacks and retry_muxed.                                          *)

LEMMA HandlerKinds ==
    ASSUME HandlerShape
    PROVE  /\ handler.kind = "idle" <=> handler = Idle
           /\ handler.kind = "walk" <=> handler \in Walks
           /\ handler.kind = "beat" <=> handler \in Beats
           /\ handler.kind \in {"idle", "walk", "beat"}
BY DEF HandlerShape, Idle, Walks, Beats

LEMMA CallbackKeeps ==
    ASSUME IInv, CallbackReturns
    PROVE  IInv'
<1> USE DEF IInv
<1>1. /\ cb' = None /\ UNCHANGED <<variant, stalled, queue, moved, below, owes, mst, pvars>>
      /\ handler' = IF handler.kind = "beat" THEN Idle ELSE handler
      /\ inflight' = IF handler.kind = "beat" THEN inflight \cup {handler.req} ELSE inflight
  BY DEF CallbackReturns, Reinstalled
<1>2. Types' /\ QueueShape' /\ Placed' /\ VariantShape' /\ StallOwed'
  BY <1>1 DEF Types, QueueShape, Placed, Queued, VariantShape, StallOwed
<1>3. HandlerShape'
  <2>1. CASE handler.kind = "beat"
    BY <1>1, <2>1 DEF HandlerShape
  <2>2. CASE handler.kind # "beat"
    BY <1>1, <2>2 DEF HandlerShape, Beats
  <2> QED
    BY <2>1, <2>2
<1>5. Routed'
  <2>1. CASE handler.kind = "beat"
    <3>1. handler.req \in below
      BY <2>1 DEF HandlerShape, Idle, Walks
    <3>2. handler'.kind # "beat"
      BY <1>1, <2>1 DEF Idle
    <3> QED
      BY <1>1, <2>1, <3>1, <3>2 DEF Routed
  <2>2. CASE handler.kind # "beat"
    BY <1>1, <2>2 DEF Routed
  <2> QED
    BY <2>1, <2>2
<1>6. handler.kind = "walk" => handler' = handler
  BY <1>1
<1>7. QueueServed' /\ MasterServed' /\ ProxyShape'
  BY <1>1, <1>6 DEF QueueServed, Reaches, MasterServed, ProxyShape, pvars
<1> QED
  BY <1>2, <1>3, <1>5, <1>7

LEMMA RetryMuxedKeeps ==
    ASSUME IInv, NEW o \in Outputs, retry_muxed(o)
    PROVE  IInv'
<1> USE DEF IInv
<1>1. /\ handler = Idle
      /\ owes' = [owes EXCEPT ![o] = FALSE] /\ stalled' = [stalled EXCEPT ![o] = FALSE]
      /\ handler' = [kind |-> "walk", out |-> o, at |-> 0, drains |-> FALSE]
      /\ UNCHANGED <<variant, queue, inflight, moved, below, cb, mst, pvars>>
  BY DEF retry_muxed, Quiet, Unstalled
<1>2. handler' \in Walks /\ ~handler'.drains
  BY <1>1 DEF Walks
<1>3. handler'.kind = "walk" /\ handler'.out = o /\ handler'.at = 0 /\ handler.kind = "idle"
  BY <1>1 DEF Idle
<1>4. Types' /\ HandlerShape' /\ QueueShape' /\ Placed'
  BY <1>1, <1>2 DEF Types, HandlerShape, QueueShape, Placed, Queued
<1>5. VariantShape' /\ StallOwed' /\ Routed'
  BY <1>1, <1>3 DEF VariantShape, StallOwed, Routed, Types
<1>6. QueueServed'
  <2> SUFFICES ASSUME NEW i \in Inputs, queue[i] # <<>>
               PROVE  stalled'[Dest[Head(queue[i])]] \/ Reaches(i, Dest[Head(queue[i])])'
    BY <1>1 DEF QueueServed, Reaches
  <2>1. Dest[Head(queue[i])] \in Outputs /\ stalled[Dest[Head(queue[i])]]
    BY <1>3, HeadShape DEF QueueServed, Reaches
  <2>2. CASE Dest[Head(queue[i])] = o
    BY <1>1, <1>3, <2>2 DEF Reaches, Inputs
  <2>3. CASE Dest[Head(queue[i])] # o
    BY <1>1, <2>1, <2>3 DEF Types
  <2> QED
    BY <2>2, <2>3
<1>7. MasterServed'
  <2> SUFFICES ASSUME NEW r \in Reqs, mst[r] = "denied"
               PROVE  /\ Dest[r] \in Outputs
                      /\ owes'[Dest[r]] \/ (handler'.at <= In[r] /\ handler'.out = Dest[r])
    BY <1>1, <1>3 DEF MasterServed
  <2>1. Dest[r] \in Outputs /\ owes[Dest[r]]
    BY <1>3 DEF MasterServed
  <2>2. In[r] \in Nat
    BY DEF Inputs
  <2> QED
    BY <1>1, <1>3, <2>1, <2>2 DEF Types
<1>8. ProxyShape'
  BY <1>1, <1>3 DEF ProxyShape, pvars
<1> QED
  BY <1>4, <1>5, <1>6, <1>7, <1>8

(* A walk goes on at the next input: what it leaves behind is served.      *)
LEMMA StepKeeps ==
    ASSUME IInv, Walking, handler' = Next_input, UNCHANGED <<variant, inflight, moved, below>>
    PROVE  /\ HandlerShape' /\ Routed'
           /\ handler' \in Walks /\ handler'.out = handler.out /\ handler'.at = handler.at + 1
           /\ \A i \in Inputs : handler.at <= i /\ i # handler.at => handler'.at <= i
<1>1. handler \in Walks /\ handler.at \in Inputs
  BY HandlerKinds DEF IInv, Walking
<1>2. /\ handler' \in Walks /\ handler'.out = handler.out /\ handler'.at = handler.at + 1
      /\ ~handler'.drains
  <2>1. handler.at + 1 \in 0 .. nb_input_port
    BY <1>1 DEF Inputs
  <2>2. handler' = [handler EXCEPT !.at = handler.at + 1, !.drains = FALSE]
    BY DEF Next_input
  <2> QED
    BY <1>1, <2>1, <2>2 DEF Walks
<1>3. handler'.kind = "walk" /\ handler.kind = "walk"
  BY <1>1, <1>2 DEF Walks
<1> QED
  BY <1>1, <1>2, <1>3 DEF HandlerShape, Routed, IInv, Inputs

LEMMA WalkInputKeeps ==
    ASSUME IInv, WalkInput
    PROVE  IInv'
<1> USE DEF IInv
<1> DEFINE i == handler.at
<1>1. /\ handler \in Walks /\ handler.kind = "walk" /\ i \in Inputs /\ ~handler.drains
      /\ variant = "bandwidth"
      /\ handler' = IF Drains(i) THEN [handler EXCEPT !.drains = TRUE] ELSE Next_input
      /\ UNCHANGED <<variant, stalled, queue, inflight, moved, below, owes, cb, mst, pvars>>
  BY HandlerKinds DEF WalkInput, Walking, rvars
<1>2. Types' /\ QueueShape' /\ Placed' /\ VariantShape' /\ StallOwed'
  BY <1>1 DEF Types, QueueShape, Placed, Queued, VariantShape, StallOwed
<1>3. MasterServed'
  BY <1>1 DEF MasterServed, VariantShape
<1>4. CASE Drains(i)
  <2>1. handler' = [handler EXCEPT !.drains = TRUE]
    BY <1>1, <1>4
  <2>2. handler' \in Walks /\ handler'.kind = "walk" /\ handler'.at = i /\ handler'.drains
        /\ handler'.out = handler.out
    BY <1>1, <2>1 DEF Walks
  <2>3. HandlerShape' /\ Routed'
    BY <1>1, <2>2 DEF HandlerShape, Routed
  <2>4. QueueServed'
    BY <1>1, <2>2 DEF QueueServed, Reaches
  <2>5. ProxyShape'
    BY <1>1, <2>2 DEF ProxyShape, pvars
  <2> QED
    BY <1>2, <1>3, <2>3, <2>4, <2>5
<1>5. CASE ~Drains(i)
  <2>1. handler' = Next_input
    BY <1>1, <1>5
  <2>2. /\ HandlerShape' /\ Routed'
        /\ handler' \in Walks /\ handler'.out = handler.out /\ handler'.at = handler.at + 1
        /\ \A k \in Inputs : handler.at <= k /\ k # handler.at => handler'.at <= k
    BY <1>1, <2>1, StepKeeps DEF WalkInput
  <2>3. handler'.kind = "walk"
    BY <2>2 DEF Walks
  <2>4. QueueServed'
    <3> SUFFICES ASSUME NEW k \in Inputs, queue[k] # <<>>
                 PROVE  stalled[Dest[Head(queue[k])]] \/ Reaches(k, Dest[Head(queue[k])])'
      BY <1>1 DEF QueueServed, Reaches
    <3>1. CASE k = i
      BY <1>1, <1>5, <3>1 DEF QueueServed, Reaches, Drains
    <3>2. CASE k # i
      BY <1>1, <2>2, <2>3, <3>2 DEF QueueServed, Reaches
    <3> QED
      BY <3>1, <3>2
  <2>5. ProxyShape'
    BY <1>1, <2>3 DEF ProxyShape, pvars
  <2> QED
    BY <1>2, <1>3, <2>2, <2>4, <2>5
<1> QED
  BY <1>4, <1>5

LEMMA WalkRetryKeeps ==
    ASSUME IInv, WalkRetry
    PROVE  IInv'
<1> USE DEF IInv
<1>1. /\ handler.kind = "walk" /\ handler.at \in Inputs /\ variant = "untimed"
      /\ mst' = [r \in Reqs |-> IF In[r] = handler.at /\ mst[r] = "denied" THEN "retrying" ELSE mst[r]]
      /\ cb' = handler.at /\ handler' = Next_input
      /\ UNCHANGED <<variant, stalled, queue, inflight, moved, below, owes, pvars>>
  BY DEF WalkRetry, Walking, rvars
<1>2. /\ HandlerShape' /\ Routed'
      /\ handler' \in Walks /\ handler'.out = handler.out /\ handler'.at = handler.at + 1
      /\ \A k \in Inputs : handler.at <= k /\ k # handler.at => handler'.at <= k
  BY <1>1, StepKeeps DEF WalkRetry
<1>3. handler'.kind = "walk"
  BY <1>2 DEF Walks
<1>4. Types' /\ QueueShape' /\ StallOwed'
  BY <1>1 DEF Types, QueueShape, StallOwed
<1>5. Placed' /\ VariantShape'
  BY <1>1 DEF Placed, Queued, VariantShape, Types
<1>6. QueueServed'
  BY <1>1 DEF QueueServed, VariantShape
<1>7. MasterServed'
  <2> SUFFICES ASSUME NEW r \in Reqs, mst'[r] = "denied"
               PROVE  /\ Dest[r] \in Outputs
                      /\ owes[Dest[r]] \/ (handler'.at <= In[r] /\ handler'.out = Dest[r])
    BY <1>1, <1>3 DEF MasterServed
  <2>1. mst[r] = "denied" /\ In[r] # handler.at
    BY <1>1
  <2> QED
    BY <1>2, <2>1 DEF MasterServed
<1>8. ProxyShape'
  BY <1>1, <1>3 DEF ProxyShape, pvars
<1> QED
  BY <1>2, <1>4, <1>5, <1>6, <1>7, <1>8

LEMMA WalkEndsKeeps ==
    ASSUME IInv, WalkEnds
    PROVE  IInv'
<1> USE DEF IInv
<1>1. /\ handler.kind = "walk" /\ handler.at = nb_input_port /\ handler' = Idle
      /\ proxy_retry_waiter' = None
      /\ waiter' = IF proxy_retry_waiter = None THEN waiter ELSE "Retry"
      /\ UNCHANGED <<variant, stalled, queue, inflight, moved, below, owes, cb, mst, pst, pdest>>
  BY DEF WalkEnds, rvars, notify_retry
<1>2. handler'.kind = "idle"
  BY <1>1 DEF Idle
<1>3. Types' /\ HandlerShape' /\ QueueShape' /\ Placed' /\ VariantShape' /\ StallOwed' /\ Routed'
  BY <1>1, <1>2 DEF Types, HandlerShape, QueueShape, Placed, Queued, VariantShape, StallOwed, Routed
<1>4. \A i \in Inputs : ~(handler.at <= i)
  BY <1>1 DEF Inputs
<1>5. QueueServed' /\ MasterServed'
  BY <1>1, <1>4 DEF QueueServed, Reaches, MasterServed
<1>6. ProxyShape'
  BY <1>1 DEF ProxyShape
<1> QED
  BY <1>3, <1>5, <1>6

----------------------------------------------------------------------------
(* drain_queue.                                                            *)

LEMMA DrainStopsKeeps ==
    ASSUME IInv, NEW i \in Inputs, DrainStops(i)
    PROVE  IInv'
<1> USE DEF IInv
<1>1. /\ Walking /\ handler.kind = "walk" /\ handler.at = i /\ handler.drains
      /\ handler' = Next_input
      /\ queue[i] = <<>> \/ stalled[Dest[Head(queue[i])]]
      /\ UNCHANGED <<variant, stalled, queue, inflight, moved, below, owes, cb, mst, pvars>>
  BY DEF DrainStops, Draining, Ready, Walking, rvars
<1>2. /\ HandlerShape' /\ Routed'
      /\ handler' \in Walks /\ handler'.out = handler.out /\ handler'.at = handler.at + 1
      /\ \A k \in Inputs : handler.at <= k /\ k # handler.at => handler'.at <= k
  BY <1>1, StepKeeps
<1>3. handler'.kind = "walk"
  BY <1>2 DEF Walks
<1>4. Types' /\ QueueShape' /\ Placed' /\ VariantShape' /\ StallOwed'
  BY <1>1 DEF Types, QueueShape, Placed, Queued, VariantShape, StallOwed
<1>5. QueueServed'
  <2> SUFFICES ASSUME NEW k \in Inputs, queue[k] # <<>>
               PROVE  stalled[Dest[Head(queue[k])]] \/ Reaches(k, Dest[Head(queue[k])])'
    BY <1>1 DEF QueueServed, Reaches
  <2>1. CASE k = i
    BY <1>1, <2>1
  <2>2. CASE k # i
    BY <1>1, <1>2, <1>3, <2>2 DEF QueueServed, Reaches
  <2> QED
    BY <2>1, <2>2
<1>6. MasterServed'
  <2>1. variant = "bandwidth"
    BY <1>1, HandlerKinds DEF HandlerShape, Idle, Beats
  <2> QED
    BY <1>1, <2>1 DEF MasterServed, VariantShape
<1>7. ProxyShape'
  BY <1>1, <1>3 DEF ProxyShape, pvars
<1> QED
  BY <1>2, <1>4, <1>5, <1>6, <1>7

LEMMA DrainAcceptedKeeps ==
    ASSUME IInv, NEW i \in Inputs, DrainAccepted(i)
    PROVE  IInv'
<1> USE DEF IInv
<1> DEFINE r == Head(queue[i])
<1>1. /\ handler.kind = "walk" /\ handler.at = i /\ handler.drains
      /\ queue[i] # <<>> /\ ~stalled[Dest[r]]
      /\ queue' = [queue EXCEPT ![i] = Tail(@)]
      /\ UNCHANGED <<variant, handler, pvars>>
  BY DEF DrainAccepted, Draining, Walking, Ready
<1>2. variant = "bandwidth"
  BY <1>1, HandlerKinds DEF HandlerShape, Idle, Beats
<1>3. r \in Reqs /\ In[r] = i /\ Dest[r] \in Outputs /\ Queued(r) /\ r # Proxy
  BY <1>1, HeadShape
<1>4. mst[r] = "granted" /\ r \notin below
  BY <1>3 DEF Placed
<1>5. \/ /\ mst' = [mst EXCEPT ![r] = "idle"] /\ cb' = i
         /\ UNCHANGED <<stalled, inflight, moved, below, owes>>
      \/ /\ UNCHANGED <<mst, cb, stalled, owes>>
         /\ inflight' = inflight \cup {r} /\ moved' = moved \cup {r} /\ below' = below \cup {r}
  BY <1>4 DEF DrainAccepted, ForwardDone, ForwardGranted, Answer, Becomes
<1>6. /\ QueueShape'
      /\ \A q \in Reqs : Queued(q)' <=> Queued(q) /\ q # r
      /\ \A k \in Inputs : k # i => queue'[k] = queue[k]
  BY <1>1, Leaves
<1> HIDE DEF r
<1>7. Types'
  <2>1. stalled' = stalled /\ owes' = owes /\ cb' \in Inputs \cup {None}
    BY <1>5 DEF Types
  <2>2. mst' \in [Reqs -> {"idle", "denied", "retrying", "granted"}]
    BY <1>5 DEF Types
  <2>3. below' \subseteq Reqs \cup {Proxy} /\ moved' = below'
    BY <1>3, <1>5 DEF Types
  <2> QED
    BY <1>1, <2>1, <2>2, <2>3 DEF Types
<1>8. HandlerShape' /\ Routed'
  <2>1. handler \in Walks /\ handler.kind # "beat"
    BY <1>1, HandlerKinds
  <2>2. HandlerShape'
    BY <1>1, <1>2, <2>1 DEF HandlerShape
  <2> QED
    BY <1>1, <1>5, <2>1, <2>2 DEF Routed
<1>9. Placed'
  <2> SUFFICES ASSUME NEW q \in Reqs
               PROVE  /\ mst'[q] = "granted" <=> Queued(q)' \/ q \in below'
                      /\ ~(Queued(q)' /\ q \in below')
    BY DEF Placed
  <2>1. CASE q = r
    BY <1>3, <1>4, <1>5, <1>6, <2>1 DEF Types
  <2>2. CASE q # r
    BY <1>5, <1>6, <2>2 DEF Placed, Types
  <2> QED
    BY <2>1, <2>2
<1>10. VariantShape' /\ StallOwed' /\ MasterServed'
  BY <1>1, <1>2, <1>5 DEF VariantShape, StallOwed, MasterServed, Types
<1>11. QueueServed'
  <2> SUFFICES ASSUME NEW k \in Inputs, queue'[k] # <<>>
               PROVE  stalled'[Dest[Head(queue'[k])]] \/ Reaches(k, Dest[Head(queue'[k])])
    BY <1>1 DEF QueueServed, Reaches
  <2>1. CASE k = i
    BY <1>1, <2>1 DEF Reaches, Inputs
  <2>2. CASE k # i
    BY <1>1, <1>5, <1>6, <2>2 DEF QueueServed, Reaches
  <2> QED
    BY <2>1, <2>2
<1>12. ProxyShape'
  BY <1>1, <1>3, <1>5 DEF ProxyShape, pvars
<1> QED
  BY <1>6, <1>7, <1>8, <1>9, <1>10, <1>11, <1>12

LEMMA DrainDeniedKeeps ==
    ASSUME IInv, NEW i \in Inputs, DrainDenied(i)
    PROVE  IInv'
<1> USE DEF IInv
<1> DEFINE r == Head(queue[i])
           o == Dest[r]
<1>1. /\ Walking /\ handler.kind = "walk" /\ handler.at = i /\ handler.drains
      /\ queue[i] # <<>> /\ handler' = Next_input
      /\ ForwardDenied(r, o)
      /\ UNCHANGED <<variant, queue, cb, mst, pvars>>
  BY DEF DrainDenied, Draining, Walking, Ready
<1>2. variant = "bandwidth"
  BY <1>1, HandlerKinds DEF HandlerShape, Idle, Beats
<1>3. r \in Reqs /\ In[r] = i /\ o \in Outputs /\ Queued(r)
  BY <1>1, HeadShape
<1>4. r \notin below
  BY <1>3 DEF Placed
<1> HIDE DEF o
<1>5. /\ stalled' \in [Outputs -> BOOLEAN] /\ owes' \in [Outputs -> BOOLEAN]
      /\ StallOwed'
      /\ \A p \in Outputs : (stalled[p] => stalled'[p]) /\ (owes[p] => owes'[p])
      /\ stalled'[o]
  BY <1>1, <1>2, <1>3, ForwardKeeps
<1>6. moved' = moved /\ UNCHANGED <<inflight, below>>
  BY <1>1, <1>4 DEF ForwardDenied, Restored, Types
<1>7. /\ HandlerShape' /\ Routed'
      /\ handler' \in Walks /\ handler'.out = handler.out /\ handler'.at = handler.at + 1
      /\ \A k \in Inputs : handler.at <= k /\ k # handler.at => handler'.at <= k
  BY <1>1, <1>6, StepKeeps
<1>8. handler'.kind = "walk"
  BY <1>7 DEF Walks
<1>9. Types' /\ QueueShape' /\ Placed'
  BY <1>1, <1>5, <1>6 DEF Types, QueueShape, Placed, Queued
<1>10. VariantShape' /\ MasterServed'
  BY <1>1, <1>2 DEF VariantShape, MasterServed
<1>11. QueueServed'
  <2> SUFFICES ASSUME NEW k \in Inputs, queue[k] # <<>>
               PROVE  stalled'[Dest[Head(queue[k])]] \/ Reaches(k, Dest[Head(queue[k])])'
    BY <1>1 DEF QueueServed, Reaches
  <2>1. CASE k = i
    BY <1>5, <2>1 DEF o
  <2>2. CASE k # i
    <3>1. Dest[Head(queue[k])] \in Outputs
      BY HeadShape
    <3> QED
      BY <1>1, <1>5, <1>7, <1>8, <2>2, <3>1 DEF QueueServed, Reaches
  <2> QED
    BY <2>1, <2>2
<1>12. ProxyShape'
  BY <1>1, <1>6, <1>8 DEF ProxyShape, pvars
<1> QED
  BY <1>5, <1>7, <1>9, <1>10, <1>11, <1>12

----------------------------------------------------------------------------
(* resp_muxed.                                                             *)

LEMMA RespLastKeeps ==
    ASSUME IInv, NEW r \in Reqs \cup {Proxy}, RespLast(r)
    PROVE  IInv'
<1> USE DEF IInv
<1>1. /\ handler = Idle /\ handler.kind = "idle" /\ r \in below
      /\ inflight' = inflight \ {r} /\ moved' = moved \ {r} /\ below' = below \ {r}
      /\ UNCHANGED <<variant, stalled, queue, owes, handler, proxy_retry_waiter, pst, pdest>>
  BY DEF RespLast, Quiet, Idle
<1>2. HandlerShape' /\ QueueShape' /\ StallOwed' /\ QueueServed'
  BY <1>1 DEF HandlerShape, QueueShape, StallOwed, QueueServed, Reaches
<1>3. Routed'
  BY <1>1 DEF Routed
<1>4. CASE r = Proxy
  <2>1. waiter' = "Replied" /\ UNCHANGED <<mst, cb>>
    BY <1>4 DEF RespLast, notify_replied
  <2>2. Types' /\ Placed' /\ VariantShape' /\ MasterServed'
    BY <1>1, <1>4, <2>1 DEF Types, Placed, Queued, VariantShape, MasterServed
  <2>3. pst # "wait_retry" /\ Proxy \notin below'
    BY <1>1, <1>4 DEF ProxyShape
  <2>4. ProxyShape'
    BY <1>1, <2>1, <2>3 DEF ProxyShape
  <2> QED
    BY <1>2, <1>3, <2>2, <2>4
<1>5. CASE r # Proxy
  <2>1. r \in Reqs /\ mst[r] = "granted" /\ ~Queued(r)
    BY <1>1, <1>5 DEF Placed
  <2>2. mst' = [mst EXCEPT ![r] = "idle"] /\ cb' = In[r] /\ UNCHANGED waiter
    BY <1>5, <2>1 DEF RespLast, Answer, Becomes
  <2>3. Types'
    BY <1>1, <2>1, <2>2 DEF Types
  <2>4. Placed'
    BY <1>1, <2>1, <2>2 DEF Placed, Queued, Types
  <2>5. VariantShape' /\ MasterServed'
    BY <1>1, <2>2 DEF VariantShape, MasterServed, Types
  <2>6. ProxyShape'
    BY <1>1, <1>5, <2>2 DEF ProxyShape
  <2> QED
    BY <1>2, <1>3, <2>3, <2>4, <2>5, <2>6
<1> QED
  BY <1>4, <1>5

LEMMA RespBeatKeeps ==
    ASSUME IInv, NEW r \in Reqs \cup {Proxy}, RespBeat(r)
    PROVE  IInv'
<1> USE DEF IInv
<1>1. /\ handler = Idle /\ handler.kind = "idle" /\ r \in below
      /\ UNCHANGED <<variant, stalled, queue, moved, below, owes, mst,
                     proxy_retry_waiter, pst, pdest>>
  BY DEF RespBeat, Quiet, Idle
<1>2. QueueShape' /\ Placed' /\ VariantShape' /\ StallOwed'
  BY <1>1 DEF QueueShape, Placed, Queued, VariantShape, StallOwed
<1>3. QueueServed' /\ MasterServed'
  BY <1>1 DEF QueueServed, Reaches, MasterServed
<1>4. CASE r = Proxy
  <2>1. /\ waiter' = IF variant = "untimed" THEN "Replied" ELSE waiter
        /\ UNCHANGED <<inflight, handler, cb>>
    BY <1>4 DEF RespBeat, NotifiesBeat, notify_replied
  <2>2. Types' /\ HandlerShape' /\ Routed'
    BY <1>1, <2>1 DEF Types, HandlerShape, Routed
  <2>3. pst # "wait_retry"
    BY <1>1, <1>4 DEF ProxyShape
  <2>4. ProxyShape'
    BY <1>1, <2>1, <2>3 DEF ProxyShape
  <2> QED
    BY <1>2, <1>3, <2>2, <2>4
<1>5. CASE r # Proxy
  <2>1. /\ r \in Reqs /\ cb' = In[r] /\ UNCHANGED waiter
        /\ \/ variant = "bandwidth" /\ inflight' = inflight \ {r} /\ handler' = [kind |-> "beat", req |-> r]
           \/ UNCHANGED <<inflight, handler>>
    BY <1>5 DEF RespBeat
  <2>2. Types'
    BY <1>1, <2>1 DEF Types
  <2>3. HandlerShape' /\ Routed' /\ ProxyShape'
    <3>1. CASE inflight' = inflight \ {r} /\ handler' = [kind |-> "beat", req |-> r]
      <4>1. handler' \in Beats /\ handler'.req = r /\ handler'.kind = "beat"
        BY <2>1, <3>1 DEF Beats
      <4> QED
        BY <1>1, <2>1, <3>1, <4>1 DEF HandlerShape, Routed, ProxyShape
    <3>2. CASE UNCHANGED <<inflight, handler>>
      BY <1>1, <2>1, <3>2 DEF HandlerShape, Routed, ProxyShape
    <3> QED
      BY <2>1, <3>1, <3>2
  <2> QED
    BY <1>2, <1>3, <2>2, <2>3
<1> QED
  BY <1>4, <1>5
----------------------------------------------------------------------------
(* The proxy thread.                                                       *)

(* dispatch_proxy_req, on a first attempt or after a retry().              *)
LEMMA DispatchKeeps ==
    ASSUME IInv, NEW o \in Outputs \cup {Invalid}, Quiet, Proxy \notin below,
           dispatch_proxy_req(o, None), waiter' = "Pending", pdest' = o,
           UNCHANGED <<variant, handler, cb, mst>>
    PROVE  IInv'
<1> USE DEF IInv
<1>1. handler = Idle /\ handler.kind = "idle" /\ handler' = handler
  BY DEF Quiet, Idle
<1>2. ASSUME UNCHANGED rvars
      PROVE  /\ Types' /\ HandlerShape' /\ QueueShape' /\ Placed' /\ VariantShape' /\ StallOwed'
             /\ Routed' /\ QueueServed' /\ MasterServed'
  <2>1. Types' /\ HandlerShape' /\ Routed'
    BY <1>1, <1>2 DEF rvars, Types, HandlerShape, Routed
  <2>2. QueueShape' /\ Placed' /\ VariantShape' /\ StallOwed'
    BY <1>2 DEF rvars, QueueShape, Placed, Queued, VariantShape, StallOwed
  <2>3. QueueServed' /\ MasterServed'
    BY <1>1, <1>2 DEF rvars, QueueServed, Reaches, MasterServed
  <2> QED
    BY <2>1, <2>2, <2>3
<1>3. ASSUME o \in Outputs, ForwardGranted(Proxy, o) \/ ForwardDenied(Proxy, o), UNCHANGED queue
      PROVE  /\ Types' /\ HandlerShape' /\ QueueShape' /\ Placed' /\ VariantShape' /\ StallOwed'
             /\ Routed' /\ QueueServed' /\ MasterServed'
  <2>1. /\ stalled' \in [Outputs -> BOOLEAN] /\ owes' \in [Outputs -> BOOLEAN]
        /\ StallOwed'
        /\ \A p \in Outputs : (stalled[p] => stalled'[p]) /\ (owes[p] => owes'[p])
        /\ variant = "untimed" => \A p \in Outputs : ~stalled'[p]
    BY <1>3, ForwardKeeps
  <2>2. \/ UNCHANGED <<inflight, below, moved>>
        \/ /\ inflight' = inflight \cup {Proxy} /\ below' = below \cup {Proxy}
           /\ moved' = moved \cup {Proxy}
    BY <1>3 DEF ForwardGranted, ForwardDenied, Restored, Types
  <2>3. Types'
    BY <2>1, <2>2 DEF Types
  <2>4. HandlerShape' /\ Routed'
    BY <1>1, <2>2 DEF HandlerShape, Routed
  <2>5. QueueShape' /\ Placed' /\ VariantShape'
    <3>1. \A q \in Reqs : q \in below' <=> q \in below
      BY <2>2
    <3> QED
      BY <1>3, <2>1, <3>1 DEF QueueShape, Placed, Queued, VariantShape
  <2>6. QueueServed'
    <3> SUFFICES ASSUME NEW k \in Inputs, queue[k] # <<>>
                 PROVE  stalled'[Dest[Head(queue[k])]]
      BY <1>3 DEF QueueServed
    <3>1. Dest[Head(queue[k])] \in Outputs
      BY HeadShape
    <3> QED
      BY <1>1, <2>1, <3>1 DEF QueueServed, Reaches
  <2>7. MasterServed'
    BY <1>1, <2>1 DEF MasterServed
  <2> QED
    BY <2>1, <2>3, <2>4, <2>5, <2>6, <2>7
<1>4. CASE ProxyDone(o, None)
  <2>1. ProxyShape'
    BY <1>4 DEF ProxyDone, rvars, ProxyShape
  <2> QED
    BY <1>2, <1>4, <2>1 DEF ProxyDone
<1>5. CASE ProxyGranted(o, None)
  <2>1. o \in Outputs /\ ForwardGranted(Proxy, o) /\ UNCHANGED queue
    BY <1>5 DEF ProxyGranted
  <2>2. ProxyShape'
    BY <1>5 DEF ProxyGranted, ProxyShape
  <2> QED
    BY <1>3, <2>1, <2>2
<1>6. CASE ProxyDenied(o, None)
  <2>1. o \in Outputs /\ pst' = "wait_retry" /\ proxy_retry_waiter' = Proxy
    BY <1>6 DEF ProxyDenied, RetryHook
  <2>2. CASE stalled[o] /\ UNCHANGED rvars
    <3>1. owes'[o] /\ below' = below
      BY <2>1, <2>2 DEF StallOwed, rvars
    <3>2. ProxyShape'
      BY <2>1, <3>1 DEF ProxyShape
    <3> QED
      BY <1>2, <2>2, <3>2
  <2>3. CASE ForwardDenied(Proxy, o) /\ UNCHANGED queue
    <3>1. owes'[o] /\ below' = below
      BY <2>1, <2>3 DEF ForwardDenied, Types
    <3>2. ProxyShape'
      BY <2>1, <3>1 DEF ProxyShape
    <3> QED
      BY <1>3, <2>1, <2>3, <3>2
  <2> QED
    BY <1>6, <2>2, <2>3 DEF ProxyDenied
<1> QED
  BY <1>4, <1>5, <1>6 DEF dispatch_proxy_req

LEMMA ProxyKeeps ==
    ASSUME IInv, (\E o \in ProxyDests : handle_proxy_command(o)) \/ ProxyRetries \/ ProxyReplied
    PROVE  IInv'
<1>1. ASSUME NEW o \in ProxyDests, handle_proxy_command(o) PROVE IInv'
  <2>1. proxy_retry_waiter = None
    BY <1>1 DEF handle_proxy_command, IInv, ProxyShape
  <2> QED
    BY <1>1, <2>1, DispatchKeeps DEF handle_proxy_command
<1>2. ASSUME ProxyRetries PROVE IInv'
  <2>1. pdest \in Outputs \cup {Invalid} /\ Proxy \notin below
    BY <1>2 DEF ProxyRetries, IInv, ProxyShape
  <2> QED
    BY <1>2, <2>1, DispatchKeeps DEF ProxyRetries
<1>3. ASSUME ProxyReplied PROVE IInv'
  <2> USE DEF IInv
  <2>1. /\ handler' = handler /\ pst = "wait_reply" /\ waiter = "Replied" /\ pst' = "idle"
        /\ UNCHANGED <<variant, stalled, queue, inflight, moved, below, owes, cb, mst,
                       proxy_retry_waiter, waiter, pdest>>
    BY <1>3 DEF ProxyReplied, rvars
  <2>2. Types' /\ HandlerShape' /\ Routed' /\ QueueShape' /\ Placed' /\ VariantShape' /\ StallOwed'
    BY <2>1 DEF Types, HandlerShape, Routed, QueueShape, Placed, Queued, VariantShape, StallOwed
  <2>3. QueueServed' /\ MasterServed'
    BY <2>1 DEF QueueServed, Reaches, MasterServed
  <2>4. ProxyShape'
    BY <2>1 DEF ProxyShape
  <2> QED
    BY <2>2, <2>3, <2>4
<1> QED
  BY <1>1, <1>2, <1>3

----------------------------------------------------------------------------
(* The theorems.                                                           *)

LEMMA IInvInit == Init => IInv
<1> SUFFICES ASSUME Init PROVE IInv
  OBVIOUS
<1> USE DEF Init
<1>1. handler = Idle /\ handler.kind = "idle"
  BY DEF Idle
<1>2. Types /\ HandlerShape /\ Routed /\ StallOwed /\ VariantShape
  BY <1>1 DEF Types, HandlerShape, Routed, StallOwed, VariantShape
<1>3. \A i \in Inputs : queue[i] = <<>> /\ queue[i] \in Seq(Reqs) /\ IsInjective(queue[i])
                        /\ ToSet(queue[i]) = {}
  <2>1. <<>> \in Seq(Reqs)
    OBVIOUS
  <2>2. ToSet(<<>>) = {}
    BY <2>1, EmptyToSet
  <2> QED
    BY <2>1, <2>2, InjectiveEmpty
<1>4. QueueShape /\ Placed /\ QueueServed
  BY <1>3 DEF QueueShape, Placed, Queued, QueueServed
<1>5. MasterServed /\ ProxyShape
  BY DEF MasterServed, ProxyShape
<1> QED
  BY <1>2, <1>4, <1>5 DEF IInv

LEMMA IInvKept == IInv /\ [Next]_vars => IInv'
<1> SUFFICES ASSUME IInv, [Next]_vars PROVE IInv'
  OBVIOUS
<1>1. ASSUME NEW r \in Reqs, MasterSend(r) \/ MasterResend(r) PROVE IInv'
  BY <1>1, ReqKeeps DEF MasterSend, MasterResend
<1>2. ASSUME CallbackReturns PROVE IInv'
  BY <1>2, CallbackKeeps
<1>3. ASSUME NEW o \in Outputs, retry_muxed(o) PROVE IInv'
  BY <1>3, RetryMuxedKeeps
<1>4. ASSUME WalkInput \/ WalkRetry \/ WalkEnds PROVE IInv'
  BY <1>4, WalkInputKeeps, WalkRetryKeeps, WalkEndsKeeps
<1>5. ASSUME NEW i \in Inputs, DrainStops(i) \/ DrainAccepted(i) \/ DrainDenied(i) PROVE IInv'
  BY <1>5, DrainStopsKeeps, DrainAcceptedKeeps, DrainDeniedKeeps
<1>6. ASSUME NEW r \in Reqs \cup {Proxy}, RespLast(r) \/ RespBeat(r) PROVE IInv'
  BY <1>6, RespLastKeeps, RespBeatKeeps
<1>7. ASSUME (\E o \in ProxyDests : handle_proxy_command(o)) \/ ProxyRetries \/ ProxyReplied
      PROVE  IInv'
  BY <1>7, ProxyKeeps
<1>8. ASSUME UNCHANGED vars PROVE IInv'
  <2>1. UNCHANGED <<variant, stalled, queue, inflight, moved, below, owes, handler, cb, mst,
                    proxy_retry_waiter, waiter, pst, pdest>>
    BY <1>8 DEF vars, rvars, pvars
  <2> QED
    BY <2>1 DEF IInv, Types, HandlerShape, QueueShape, Placed, Queued, VariantShape, StallOwed,
                Routed, QueueServed, Reaches, MasterServed, ProxyShape
<1> QED
  BY <1>1, <1>2, <1>3, <1>4, <1>5, <1>6, <1>7, <1>8 DEF Next

LEMMA IInvAlways == Spec => []IInv
BY IInvInit, IInvKept, PTL DEF Spec

LEMMA IInvImpliesInv == IInv => Inv
<1> SUFFICES ASSUME IInv PROVE Inv
  OBVIOUS
<1> USE DEF IInv
<1>1. handler.kind \in {"idle", "walk", "beat"}
  BY HandlerKinds
<1>2. TypeOK
  BY <1>1 DEF Types, Routed, QueueShape, ProxyShape, TypeOK
<1>3. ProxyComplete
  BY DEF ProxyShape, ProxyComplete
<1>4. GrantedHeld
  <2> DEFINE waiting == UNION {ToSet(queue[i]) : i \in Inputs}
  <2>1. \A i \in Inputs : ToSet(queue[i]) \subseteq Reqs
    BY InToSet DEF QueueShape, ToSet
  <2>2. \A r : r \in waiting <=> r \in Reqs /\ Queued(r)
    BY <2>1 DEF QueueShape, Queued
  <2> HIDE DEF waiting
  <2>3. waiting \cap below = {}
    BY <2>2 DEF Placed
  <2>4. waiting \cup (below \ {Proxy}) = {r \in Reqs : mst[r] = "granted"}
    BY <2>2 DEF Placed, Types
  <2>5. \A i \in Inputs : IsInjective(queue[i]) /\ ToSet(queue[i]) \subseteq {r \in Reqs : In[r] = i}
    BY <2>1 DEF QueueShape
  <2> QED
    BY <2>3, <2>4, <2>5 DEF GrantedHeld, Types, waiting
<1> QED
  BY <1>2, <1>3, <1>4 DEF Inv, StallOwed

(* Every granted request is in the queue of its input or at its output,    *)
(* once, translated there and nowhere else; resp_muxed finds the InFlight  *)
(* of whatever an output may answer; an output is stalled only while it    *)
(* owes a retry(); and a proxy command through the bandwidth router ends   *)
(* with its answer.                                                        *)
THEOREM InvHolds == Spec => []Inv
BY IInvAlways, IInvImpliesInv, PTL

(* No input queue, no denied master and no waiting proxy thread is left    *)
(* without the retry() that will serve it.                                 *)
THEOREM WokenHolds == Spec => []Woken
<1>1. IInv => Woken
  <2> SUFFICES ASSUME IInv PROVE Woken
    OBVIOUS
  <2> USE DEF IInv
  <2>1. ASSUME Quiet
        PROVE  /\ \A i \in Inputs : queue[i] # <<>> => stalled[Dest[Head(queue[i])]]
               /\ \A r \in Reqs : mst[r] = "denied" => owes[Dest[r]]
    <3>1. handler.kind = "idle"
      BY <2>1 DEF Quiet, Idle
    <3> QED
      BY <3>1 DEF QueueServed, Reaches, MasterServed
  <2>2. pst = "wait_retry" /\ waiter = "Pending" =>
          proxy_retry_waiter = Proxy /\ (owes[pdest] \/ handler.kind = "walk")
    BY DEF ProxyShape
  <2> QED
    BY <2>1, <2>2 DEF Woken
<1> QED
  BY <1>1, IInvAlways, PTL

----------------------------------------------------------------------------
----------------------------------------------------------------------------
(* LogIco: the logarithmic interconnect.                                   *)

HIDE RouterInlineAssumption

USE LogIcoAssumption

----------------------------------------------------------------------------
(* Arithmetic.                                                             *)

(* Quotient and remainder are what the division leaves.                    *)
LEMMA Quotient ==
    ASSUME NEW n \in Nat \ {0}, NEW q \in Int, NEW r \in 0 .. (n - 1), NEW x, x = (n * q) + r
    PROVE  x \div n = q /\ x % n = r
OBVIOUS

LEMMA Wrap ==
    ASSUME NEW n \in Nat \ {0}
    PROVE  /\ \A x \in 0 .. (n - 1) : x % n = x
           /\ \A x \in n .. (2 * n - 1) : x % n = x - n
OBVIOUS

(* A set of natural numbers that is not empty has a least element.         *)
LEMMA LeastNat ==
    ASSUME NEW T, T \subseteq Nat, T # {}
    PROVE  \E x \in T : \A y \in T : x <= y
<1> DEFINE R == OpToRel(<, Nat)
<1>1. IsWellFoundedOn(R, Nat)
  BY NatLessThanWellFounded
<1> HIDE DEF R
<1>2. PICK x \in T : \A y \in T : ~ (<<y, x>> \in R)
  BY <1>1, WFMin
<1>3. \A y \in Nat : y < x => <<y, x>> \in R
  BY DEF R, OpToRel
<1>4. \A y \in T : ~ (y < x)
  BY <1>2, <1>3
<1>5. \A y \in T : x <= y
  BY <1>4
<1> QED
  BY <1>5

----------------------------------------------------------------------------
(* The powers of two, and the decoding.                                    *)

LEMMA Powers ==
    /\ Pow2[0] = 1 /\ Pow2[1] = 2 /\ Pow2[2] = 4 /\ Pow2[3] = 8 /\ Pow2[4] = 16 /\ Pow2[5] = 32
    /\ Pow2[6] = 64 /\ Pow2[7] = 128 /\ Pow2[8] = 256 /\ Pow2[9] = 512 /\ Pow2[10] = 1024
    /\ Pow2[11] = 2048 /\ Pow2[12] = 4096 /\ Pow2[13] = 8192 /\ Pow2[14] = 16384
    /\ Pow2[15] = 32768 /\ Pow2[16] = 65536
BY DEF Pow2

LEMMA PowerPositive == \A n \in 0 .. 16 : Pow2[n] \in Nat \ {0}
BY Powers

LEMMA PowerSum == \A m, n \in 0 .. 8 : Pow2[m + n] = Pow2[m] * Pow2[n]
<1> SUFFICES ASSUME NEW m \in 0 .. 8, NEW n \in 0 .. 8
             PROVE  Pow2[m + n] = Pow2[m] * Pow2[n]
  OBVIOUS
<1>1. CASE m = 0
  BY <1>1, Powers
<1>2. CASE m = 1
  BY <1>2, Powers
<1>3. CASE m = 2
  BY <1>3, Powers
<1>4. CASE m = 3
  BY <1>4, Powers
<1>5. CASE m = 4
  BY <1>5, Powers
<1>6. CASE m = 5
  BY <1>6, Powers
<1>7. CASE m = 6
  BY <1>7, Powers
<1>8. CASE m = 7
  BY <1>8, Powers
<1>9. CASE m = 8
  BY <1>9, Powers
<1> QED
  BY <1>1, <1>2, <1>3, <1>4, <1>5, <1>6, <1>7, <1>8, <1>9

(* ceil_log2_u is the logarithm of a power of two.                         *)
LEMMA SlaveBits ==
    ASSUME NEW k \in 0 .. 8
    PROVE  slave_bits(Pow2[k]) = k
<1> DEFINE P(j) == Pow2[j] >= Pow2[k] /\ (j = 0 \/ Pow2[j - 1] < Pow2[k])
<1>1. P(k)
  BY Powers
<1>2. ASSUME NEW j \in 0 .. 8, P(j)
      PROVE  j = k
  BY <1>2, Powers
<1>3. (CHOOSE j \in 0 .. 8 : P(j)) = k
  BY <1>1, <1>2
<1> QED
  BY <1>3 DEF slave_bits, ceil_log2_u

(* An address is a word of the banks' rows, a bank and a byte of the word: *)
(* the decoding takes it apart and Encode puts it together.                *)
LEMMA Decode ==
    ASSUME NEW k \in 0 .. 8, NEW iw \in 0 .. 8, NEW addr \in Nat
    PROVE  LET nb  == Pow2[k]
               b   == decode_bank(addr, iw, nb)
               off == decode_offset(addr, iw, nb)
           IN  /\ b = (addr \div Pow2[iw]) % nb
               /\ b \in 0 .. (nb - 1)
               /\ off = ((addr \div (nb * Pow2[iw])) * Pow2[iw]) + (addr % Pow2[iw])
               /\ Encode(b, off, iw, nb) = addr
<1> DEFINE N == Pow2[k]
           W == Pow2[iw]
           q == addr \div W
           o == addr % W
           h == q \div N
           b == q % N
<1>1. N \in Nat \ {0} /\ W \in Nat \ {0} /\ Pow2[k + iw] = N * W /\ slave_bits(N) = k
  <2>1. Pow2[k] \in Nat \ {0} /\ Pow2[iw] \in Nat \ {0}
    BY PowerPositive
  <2>2. Pow2[k + iw] = Pow2[k] * Pow2[iw]
    BY PowerSum
  <2> QED
    BY <2>1, <2>2, SlaveBits
<1>2. N = 1 <=> k = 0
  BY Powers
<1> HIDE DEF N, W
<1>3. addr = W * q + o /\ q \in Nat /\ o \in 0 .. (W - 1)
  BY <1>1
<1>4. q = N * h + b /\ h \in Nat /\ b \in 0 .. (N - 1)
  BY <1>1, <1>3
<1> HIDE DEF q, o, h, b
<1>5. decode_bank(addr, iw, N) = b
  <2>1. k = 0 => b = 0
    BY <1>2, <1>4
  <2>2. decode_bank(addr, iw, N) = IF k = 0 THEN 0 ELSE q % N
    BY <1>1 DEF decode_bank, Low, Right, N, W, q
  <2> QED
    BY <2>1, <2>2 DEF b
<1>6. addr \div (N * W) = h
  <2>1. W * b + o \in 0 .. (N * W - 1)
    <3>1. W * b \in Nat /\ W * b <= W * (N - 1)
      BY <1>1, <1>4
    <3>2. W * (N - 1) = N * W - W
      BY <1>1
    <3> QED
      BY <1>1, <1>3, <3>1, <3>2
  <2>2. addr = (N * W) * h + (W * b + o)
    BY <1>1, <1>3, <1>4
  <2>3. N * W \in Nat \ {0}
    BY <1>1
  <2> QED
    BY <2>1, <2>2, <2>3, <1>4, Quotient
<1>7. decode_offset(addr, iw, N) = (h * W) + o
  BY <1>1, <1>6 DEF decode_offset, Left, Right, Low, N, W, o
<1>8. ((h * W) + o) \div W = h /\ ((h * W) + o) % W = o
  <2>1. (h * W) + o = (W * h) + o /\ h \in Int
    BY <1>1, <1>3, <1>4
  <2> QED
    BY <1>1, <1>3, <2>1, Quotient
<1>9. Encode(b, (h * W) + o, iw, N) = (h * (N * W)) + (b * W) + o
  BY <1>1, <1>8 DEF Encode, Left, Right, Low, N, W
<1>10. (h * (N * W)) + (b * W) + o = addr
  BY <1>1, <1>3, <1>4
<1> QED
  BY <1>4, <1>5, <1>6, <1>7, <1>9, <1>10 DEF N, W, q, o, b

LEMMA OffsetOf ==
    ASSUME NEW k \in 0 .. 8, NEW iw \in 0 .. 8, NEW addr \in Nat
    PROVE  decode_offset(addr, iw, Pow2[k])
             = ((addr \div (Pow2[k] * Pow2[iw])) * Pow2[iw]) + (addr % Pow2[iw])
<1> HIDE LogIcoAssumption
<1> QED
  BY Decode, Zenon

(* The next word is in the next bank.                                      *)
LEMMA NextBank ==
    ASSUME NEW k \in 0 .. 8, NEW iw \in 0 .. 8, NEW addr \in Nat
    PROVE  decode_bank(addr + Pow2[iw], iw, Pow2[k]) = (decode_bank(addr, iw, Pow2[k]) + 1) % Pow2[k]
<1> DEFINE N == Pow2[k]
           W == Pow2[iw]
           q == addr \div W
<1>1. N \in Nat \ {0} /\ W \in Nat \ {0}
  BY PowerPositive
<1>2. /\ decode_bank(addr, iw, N) = q % N
      /\ decode_bank(addr + W, iw, N) = ((addr + W) \div W) % N
  <2>1. addr + W \in Nat
    BY <1>1
  <2> HIDE DEF W
  <2>2. decode_bank(addr, iw, N) = (addr \div Pow2[iw]) % N
    BY Decode
  <2>3. decode_bank(addr + W, iw, N) = ((addr + W) \div Pow2[iw]) % N
    BY <2>1, Decode
  <2> QED
    BY <2>2, <2>3 DEF W
<1> HIDE DEF N, W
<1>3. addr = (W * q) + (addr % W) /\ addr % W \in 0 .. (W - 1) /\ q \in Nat
  BY <1>1
<1>4. addr + W = (W * (q + 1)) + (addr % W)
  BY <1>1, <1>3
<1>5. (addr + W) \div W = q + 1
  <2> DEFINE p == q + 1
             r == addr % W
             x == addr + W
  <2>1. p \in Int /\ r \in 0 .. (W - 1) /\ x = (W * p) + r
    BY <1>1, <1>3, <1>4
  <2> HIDE DEF p, r, x
  <2>2. x \div W = p
    BY <1>1, <2>1, Quotient
  <2> QED
    BY <2>2 DEF x, p
<1> HIDE DEF q
<1>6. (q + 1) % N = ((q % N) + 1) % N
  <2>1. q = (N * (q \div N)) + (q % N) /\ q % N \in 0 .. (N - 1) /\ q \div N \in Nat
    BY <1>1, <1>3
  <2>2. CASE (q % N) + 1 < N
    <3>1. q + 1 = (N * (q \div N)) + ((q % N) + 1) /\ (q % N) + 1 \in 0 .. (N - 1)
      BY <1>1, <1>3, <2>1, <2>2
    <3>2. (q + 1) % N = (q % N) + 1
      BY <1>1, <2>1, <3>1, Quotient
    <3> QED
      BY <1>1, <3>1, <3>2, Wrap
  <2>3. CASE (q % N) + 1 = N
    <3>1. q + 1 = (N * ((q \div N) + 1)) + 0
      BY <1>1, <1>3, <2>1, <2>3
    <3>2. N = (N * 1) + 0 /\ 0 \in 0 .. (N - 1) /\ (q \div N) + 1 \in Int
      BY <1>1, <2>1
    <3>3. (q + 1) % N = 0
      BY <1>1, <3>1, <3>2, Quotient
    <3>4. N % N = 0
      BY <1>1, <3>2, Quotient
    <3> QED
      BY <2>3, <3>3, <3>4
  <2> QED
    BY <1>1, <2>1, <2>2, <2>3
<1> QED
  BY <1>2, <1>5, <1>6 DEF N, W

(* The offset is a byte of a bank with four words.                         *)
LEMMA OffsetBelow ==
    ASSUME NEW k \in 0 .. 8, NEW iw \in 0 .. 8, NEW addr \in 0 .. (Pow2[k] * (4 * Pow2[iw]) - 1)
    PROVE  decode_offset(addr, iw, Pow2[k]) \in 0 .. (4 * Pow2[iw] - 1)
<1> DEFINE N == Pow2[k]
           W == Pow2[iw]
           h == addr \div (N * W)
           o == addr % W
<1>1. N \in Nat \ {0} /\ W \in Nat \ {0}
  BY PowerPositive
<1>2. addr \in Nat
  BY <1>1
<1>3. decode_offset(addr, iw, N) = (h * W) + o
  BY <1>2, OffsetOf, Zenon
<1> HIDE DEF N, W
<1>4. N * W \in Nat \ {0} /\ N * (4 * W) = 4 * (N * W)
  BY <1>1
<1> DEFINE M == N * W
<1>5. addr \in 0 .. (4 * M - 1)
  BY <1>4 DEF N, W
<1> HIDE DEF M
<1>6. addr \div M \in 0 .. 3
  BY <1>4, <1>5 DEF M
<1>7. h \in 0 .. 3 /\ o \in 0 .. (W - 1)
  BY <1>1, <1>2, <1>6 DEF M
<1> HIDE DEF h, o
<1>8. (h * W) + o \in 0 .. (4 * W - 1)
  <2>1. h = 0 \/ h = 1 \/ h = 2 \/ h = 3
    BY <1>7
  <2> QED
    BY <1>1, <1>7, <2>1
<1> QED
  BY <1>3, <1>8 DEF W, N

(* Whatever the width, no two addresses share a byte of a bank, and        *)
(* consecutive words go to consecutive banks (decode_bank, decode_offset). *)
THEOREM DecodeBijectiveHolds == LogIcoSpec => []DecodeBijective
<1> DEFINE I == interleaving_width \in Widths
<1>1. LogIcoInit => I
  BY DEF LogIcoInit
<1>2. I /\ [LogIcoNext]_LogIcoVars => I'
  BY DEF LogIcoNext, LogIcoVars, MasterRequest, MasterForwarded,
         FsmStep, ElectionStart, SkipBank, Elect, RetryReturns, ElectionEnd, Tick, reset
<1>3. I => DecodeBijective
  <2> SUFFICES ASSUME I, NEW nb \in {1, 2, 4, 8},
                      NEW addr \in 0 .. (nb * (4 * Pow2[interleaving_width]) - 1)
               PROVE  LET iw  == interleaving_width
                          b   == decode_bank(addr, iw, nb)
                          off == decode_offset(addr, iw, nb)
                      IN  /\ b \in 0 .. (nb - 1) /\ off \in 0 .. (4 * Pow2[iw] - 1)
                          /\ Encode(b, off, iw, nb) = addr
                          /\ decode_bank(addr + Pow2[iw], iw, nb) = (b + 1) % nb
    BY DEF DecodeBijective
  <2>1. PICK k \in 0 .. 8 : nb = Pow2[k]
    BY Powers
  <2>2. interleaving_width \in 0 .. 8
    OBVIOUS
  <2>3. Pow2[interleaving_width] \in Nat \ {0}
    BY <2>2, PowerPositive
  <2>4. addr \in Nat
    BY ONLY <2>3, nb \in {1, 2, 4, 8}, addr \in 0 .. (nb * (4 * Pow2[interleaving_width]) - 1)
  <2> QED
    BY <2>1, <2>2, <2>4, Decode, NextBank, OffsetBelow
<1> QED
  BY <1>1, <1>2, <1>3, PTL DEF LogIcoSpec

----------------------------------------------------------------------------
(* The arbiter.                                                            *)

(* How far m is from rr in the order of the scan, and who is that far.     *)
LEMMA Distances ==
    ASSUME NEW rr \in Masters, NEW m \in Masters
    PROVE  /\ Distance(rr, m) = IF m >= rr THEN m - rr ELSE m - rr + nb_masters
           /\ Distance(rr, m) \in Masters
           /\ (rr + Distance(rr, m)) % nb_masters = m
<1> DEFINE d == IF m >= rr THEN m - rr ELSE m - rr + nb_masters
<1>1. d \in 0 .. (nb_masters - 1)
  BY DEF Masters
<1>2. Distance(rr, m) = d
  <2>1. CASE m >= rr
    <3>1. m - rr + nb_masters \in nb_masters .. (2 * nb_masters - 1)
      BY <2>1 DEF Masters
    <3>2. \A x \in nb_masters .. (2 * nb_masters - 1) : x % nb_masters = x - nb_masters
      BY Wrap
    <3> QED
      BY <2>1, <3>1, <3>2 DEF Distance, Masters
  <2>2. CASE ~(m >= rr)
    BY <1>1, <2>2, Wrap DEF Distance
  <2> QED
    BY <2>1, <2>2
<1>3. (rr + d) % nb_masters = m
  <2>1. CASE m >= rr
    BY <2>1, Wrap DEF Masters
  <2>2. CASE ~(m >= rr)
    <3>1. rr + d = m + nb_masters /\ rr + d \in nb_masters .. (2 * nb_masters - 1)
      BY <2>2 DEF Masters
    <3>2. \A x \in nb_masters .. (2 * nb_masters - 1) : x % nb_masters = x - nb_masters
      BY Wrap
    <3> QED
      BY <3>1, <3>2 DEF Masters
  <2> QED
    BY <2>1, <2>2
<1> QED
  BY <1>1, <1>2, <1>3 DEF Masters

(* The rotated mask holds the distances of the masters of the mask.        *)
LEMMA Rotation ==
    ASSUME NEW mask \in SUBSET Masters, NEW rr \in Masters
    PROVE  LET m       == mask \cap Masters
               rotated == IF rr = 0 THEN m
                          ELSE (Shr(m, rr) \cup Shl(m, nb_masters - rr)) \cap Masters
           IN  rotated = {Distance(rr, q) : q \in mask}
<1> DEFINE rotated == IF rr = 0 THEN mask \cap Masters
                      ELSE (Shr(mask \cap Masters, rr) \cup Shl(mask \cap Masters, nb_masters - rr))
                              \cap Masters
<1>1. \A q \in mask : /\ Distance(rr, q) = IF q >= rr THEN q - rr ELSE q - rr + nb_masters
                      /\ Distance(rr, q) \in Masters /\ q \in Masters /\ q \in Int
  <2>1. Masters \subseteq Int
    BY DEF Masters
  <2> QED
    BY <2>1, Distances
<1>2. ASSUME NEW i \in rotated
      PROVE  i \in {Distance(rr, q) : q \in mask}
  <2>1. CASE rr = 0
    BY <1>1, <1>2, <2>1 DEF Masters
  <2>2. CASE rr # 0 /\ i \in Shr(mask \cap Masters, rr)
    BY <1>1, <2>2 DEF Shr
  <2>3. CASE rr # 0 /\ i \in Shl(mask \cap Masters, nb_masters - rr)
    <3>1. PICK q \in mask : i = q + (nb_masters - rr)
      BY <2>3 DEF Shl
    <3>2. i \in Masters
      BY <1>2, <2>3
    <3>3. q < rr
      BY <3>1, <3>2 DEF Masters
    <3> QED
      BY <1>1, <3>1, <3>3 DEF Masters
  <2> QED
    BY <1>2, <2>1, <2>2, <2>3
<1>3. ASSUME NEW q \in mask
      PROVE  Distance(rr, q) \in rotated
  <2>1. CASE rr = 0
    BY <1>1, <2>1 DEF Masters
  <2>2. CASE rr # 0 /\ q >= rr
    BY <1>1, <2>2 DEF Shr
  <2>3. CASE rr # 0 /\ ~(q >= rr)
    <3>1. Distance(rr, q) = q + (nb_masters - rr)
      BY <1>1, <2>3 DEF Masters
    <3> QED
      BY <1>1, <2>3, <3>1 DEF Shl
  <2> QED
    BY <2>1, <2>2, <2>3
<1>4. rotated = {Distance(rr, q) : q \in mask}
  BY <1>2, <1>3
<1> QED
  BY <1>4

(* pick_winner returns the master of the mask the scan finds first.        *)
LEMMA Winner ==
    ASSUME NEW mask \in SUBSET Masters, NEW rr \in Masters, mask # {}
    PROVE  LET w == pick_winner(mask, rr, nb_masters)
           IN  w \in mask /\ \A q \in mask : Distance(rr, w) <= Distance(rr, q)
<1> DEFINE D == {Distance(rr, q) : q \in mask}
           rel == CHOOSE i \in D : \A j \in D : i <= j
<1>1. pick_winner(mask, rr, nb_masters) = (rr + rel) % nb_masters
  <2> DEFINE m == mask \cap Masters
             rot == IF rr = 0 THEN m
                    ELSE (Shr(m, rr) \cup Shl(m, nb_masters - rr)) \cap Masters
  <2>1. rot = D
    BY Rotation
  <2>2. pick_winner(mask, rr, nb_masters)
          = (rr + (CHOOSE i \in rot : \A j \in rot : i <= j)) % nb_masters
    BY Zenon DEF pick_winner, Masters
  <2> HIDE DEF rot, D
  <2> QED
    BY <2>1, <2>2
<1>2. D \subseteq Nat /\ D # {}
  <2>1. Masters \subseteq Nat
    BY DEF Masters
  <2>2. \A q \in mask : Distance(rr, q) \in Masters
    BY Distances
  <2> QED
    BY <2>1, <2>2
<1>3. rel \in D /\ \A j \in D : rel <= j
  BY <1>2, LeastNat
<1>4. PICK w \in mask : rel = Distance(rr, w)
  BY <1>3
<1>5. (rr + rel) % nb_masters = w
  BY <1>4, Distances
<1> QED
  BY <1>1, <1>3, <1>4, <1>5

(* When the scan starts behind the winner, the others come closer.         *)
LEMMA Closer ==
    ASSUME NEW rr \in Masters, NEW w \in Masters, NEW m \in Masters, m # w,
           Distance(rr, w) <= Distance(rr, m)
    PROVE  NextScan(w) \in Masters /\ Distance(NextScan(w), m) < Distance(rr, m)
<1>1. NextScan(w) = IF w + 1 = nb_masters THEN 0 ELSE w + 1
  <2>1. CASE w + 1 = nb_masters
    <3>1. nb_masters \in nb_masters .. (2 * nb_masters - 1)
      OBVIOUS
    <3> QED
      BY <2>1, <3>1, Wrap DEF NextScan
  <2>2. CASE w + 1 # nb_masters
    <3>1. w + 1 \in 0 .. (nb_masters - 1)
      BY <2>2 DEF Masters
    <3> QED
      BY <2>2, <3>1, Wrap DEF NextScan
  <2> QED
    BY <2>1, <2>2
<1>2. NextScan(w) \in Masters
  BY <1>1 DEF Masters
<1>3. /\ Distance(rr, w) = IF w >= rr THEN w - rr ELSE w - rr + nb_masters
      /\ Distance(rr, m) = IF m >= rr THEN m - rr ELSE m - rr + nb_masters
  BY Distances
<1>4. Distance(NextScan(w), m) =
        IF m >= NextScan(w) THEN m - NextScan(w) ELSE m - NextScan(w) + nb_masters
  BY <1>2, Distances
<1> QED
  BY <1>1, <1>2, <1>3, <1>4 DEF Masters

----------------------------------------------------------------------------
(* The invariant.                                                          *)

LEMMA BanksShape ==
    /\ nb_slaves \in Nat \ {0}
    /\ \A b \in Banks : b \in Nat /\ b < nb_slaves
    /\ \A b \in Nat : b < nb_slaves => b \in Banks
<1>1. nb_slaves \in Nat \ {0}
  BY PowerPositive
<1> QED
  BY <1>1 DEF Banks

(* Every address is in a bank there is.                                    *)
LEMMA BankExists ==
    ASSUME interleaving_width \in Widths, NEW addr \in Addrs
    PROVE  BankOf(addr) \in Banks
<1>1. PICK k \in 0 .. 8 : nb_slaves = Pow2[k]
  OBVIOUS
<1>2. interleaving_width \in 0 .. 8 /\ addr \in Nat
  OBVIOUS
<1> QED
  BY <1>1, <1>2, Decode DEF BankOf, Banks

LEMMA BankKept ==
    ASSUME interleaving_width' = interleaving_width
    PROVE  \A addr : BankOf(addr)' = BankOf(addr)
BY DEF BankOf

(* A master waits for a bank.                                              *)
Waits(m, b) == \E i \in DOMAIN denied[m] : BankOf(denied[m][i]) = b

Forgotten == \E m \in Masters, b \in Banks : Waits(m, b) /\ m \notin pending_mask[b]

(* A retry() is made by the running FSM, of a bank of the loop.  While the *)
(* FSM runs nobody schedules it, and it knows of the bits it has left      *)
(* behind.                                                                 *)
FsmShape ==
    /\ retrying => in_election /\ bank < nb_slaves
    /\ in_election => fsm_event = "none"
    /\ in_election => \A b \in Banks : b < bank /\ pending_mask[b] # {} => any_remaining

WInv == LogIcoTypeOK /\ ~Forgotten /\ FsmShape /\ FsmArmed

(* What an election of master w for a bank does.                           *)
LEMMA ElectEffect ==
    ASSUME LogIcoTypeOK, Elect
    PROVE  LET w == pick_winner(pending_mask[bank], rr_next[bank], nb_masters)
           IN  /\ bank \in Banks /\ w \in Masters /\ w \in pending_mask[bank]
               /\ \A q \in pending_mask[bank] :
                    Distance(rr_next[bank], w) <= Distance(rr_next[bank], q)
               /\ pending_mask' = [pending_mask EXCEPT ![bank] = @ \ {w}]
               /\ rr_next' = [rr_next EXCEPT ![bank] = NextScan(w)]
               /\ denied' = [denied EXCEPT ![w] = <<>>]
               /\ served' = [b \in Banks |-> served[b] \cup {m \in {w} : b \in DeniedBanks(m)}]
               /\ winners' = [winners EXCEPT ![bank] = @ + 1]
<1> DEFINE w == pick_winner(pending_mask[bank], rr_next[bank], nb_masters)
<1>1. bank \in Banks
  BY BanksShape DEF LogIcoTypeOK, Elect
<1>2. pending_mask[bank] \in SUBSET Masters /\ rr_next[bank] \in Masters /\ pending_mask[bank] # {}
  BY <1>1 DEF LogIcoTypeOK, Elect
<1>3. w \in pending_mask[bank] /\ \A q \in pending_mask[bank] :
                                    Distance(rr_next[bank], w) <= Distance(rr_next[bank], q)
  BY <1>2, Winner
<1> QED
  BY <1>1, <1>2, <1>3 DEF Elect

LEMMA TypeKept == LogIcoTypeOK /\ FsmShape /\ [LogIcoNext]_LogIcoVars => LogIcoTypeOK'
<1> SUFFICES ASSUME LogIcoTypeOK, FsmShape, [LogIcoNext]_LogIcoVars PROVE LogIcoTypeOK'
  OBVIOUS
<1>1. ASSUME NEW m \in Masters, NEW addr \in Addrs, MasterRequest(m, addr)
      PROVE  LogIcoTypeOK'
  <2>1. BankOf(addr) \in Banks
    BY BankExists DEF LogIcoTypeOK
  <2>2. pending_mask' \in [Banks -> SUBSET Masters]
    BY <1>1, <2>1 DEF MasterRequest, input_req, Marked, LogIcoTypeOK
  <2>3. denied' \in [Masters -> Seq(Addrs)]
    BY <1>1 DEF MasterRequest, input_req, LogIcoTypeOK
  <2> QED
    BY <1>1, <2>2, <2>3 DEF MasterRequest, input_req, EnqueuedNow, LogIcoTypeOK
<1>2. CASE Elect
  <2> DEFINE w == pick_winner(pending_mask[bank], rr_next[bank], nb_masters)
  <2>1. /\ bank \in Banks /\ w \in Masters /\ w \in pending_mask[bank]
        /\ pending_mask' = [pending_mask EXCEPT ![bank] = @ \ {w}]
        /\ rr_next' = [rr_next EXCEPT ![bank] = NextScan(w)]
        /\ denied' = [denied EXCEPT ![w] = <<>>]
        /\ served' = [b \in Banks |-> served[b] \cup {m \in {w} : b \in DeniedBanks(m)}]
        /\ winners' = [winners EXCEPT ![bank] = @ + 1]
    BY <1>2, ElectEffect
  <2> HIDE DEF w
  <2>2. NextScan(w) \in Masters
    BY <2>1 DEF NextScan, Masters
  <2>3. served' \in [Banks -> SUBSET Masters]
    BY ONLY <2>1, LogIcoTypeOK DEF LogIcoTypeOK
  <2>4. winners' \in [Banks -> Nat]
    BY <2>1 DEF LogIcoTypeOK
  <2>5. /\ pending_mask' \in [Banks -> SUBSET Masters] /\ rr_next' \in [Banks -> Masters]
        /\ denied' \in [Masters -> Seq(Addrs)]
    BY <2>1, <2>2 DEF LogIcoTypeOK
  <2>6. retrying' \in BOOLEAN
    BY <1>2 DEF Elect
  <2> QED
    BY <1>2, <2>3, <2>4, <2>5, <2>6 DEF Elect, LogIcoTypeOK
<1>3. CASE ElectionStart
  <2>1. in_election' \in BOOLEAN /\ any_remaining' \in BOOLEAN /\ ended' \in BOOLEAN
    BY <1>3 DEF ElectionStart
  <2> QED
    BY <1>3, <2>1, BanksShape DEF ElectionStart, LogIcoTypeOK
<1>4. CASE SkipBank
  BY <1>4, BanksShape DEF SkipBank, LogIcoTypeOK
<1>5. CASE ElectionEnd
  <2>1. fsm_event' \in {"none", "next"} /\ bank' \in 0 .. nb_slaves
    BY <1>5, BanksShape DEF ElectionEnd, Rearmed
  <2>2. in_election' \in BOOLEAN /\ any_remaining' \in BOOLEAN
    BY <1>5 DEF ElectionEnd
  <2> QED
    BY <1>5, <2>1, <2>2 DEF ElectionEnd, LogIcoTypeOK
<1>6. CASE Tick
  BY <1>6 DEF Tick, LogIcoTypeOK
<1>7. CASE reset
  BY <1>7 DEF reset, LogIcoTypeOK, Masters
<1>8. CASE UNCHANGED LogIcoVars
  BY <1>8 DEF LogIcoVars, LogIcoTypeOK
<1>9. ASSUME NEW m \in Eager, NEW addr \in Addrs, MasterForwarded(m, addr)
      PROVE  LogIcoTypeOK'
  <2>1. m \in Masters
    OBVIOUS
  <2>2. served' \in [Banks -> SUBSET Masters]
    BY <1>9, <2>1 DEF MasterForwarded, LogIcoTypeOK
  <2> QED
    BY <1>9, <2>2 DEF MasterForwarded, LogIcoTypeOK
<1>10. CASE RetryReturns
  <2>1. bank' \in 0 .. nb_slaves
    BY <1>10, BanksShape DEF RetryReturns, LogIcoTypeOK, FsmShape
  <2>2. retrying' \in BOOLEAN /\ any_remaining' \in BOOLEAN
    BY <1>10 DEF RetryReturns
  <2> QED
    BY <1>10, <2>1, <2>2 DEF RetryReturns, LogIcoTypeOK
<1> QED
  BY <1>1, <1>2, <1>3, <1>4, <1>5, <1>6, <1>7, <1>8, <1>9, <1>10 DEF LogIcoNext, FsmStep

(* Only an election takes a bit away, and with it all that its master had  *)
(* denied.                                                                 *)
LEMMA RememberedKept ==
    ASSUME LogIcoTypeOK, ~Forgotten, [LogIcoNext]_LogIcoVars
    PROVE  ~Forgotten'
<1> SUFFICES ASSUME NEW q \in Masters, NEW b \in Banks, Waits(q, b)'
             PROVE  q \in pending_mask'[b]
  BY DEF Forgotten
<1>1. interleaving_width' = interleaving_width
  BY DEF LogIcoNext, LogIcoVars, MasterRequest, MasterForwarded,
         FsmStep, ElectionStart, SkipBank, Elect, RetryReturns, ElectionEnd, Tick, reset
<1>2. Waits(q, b) => q \in pending_mask[b]
  BY DEF Forgotten
<1>3. ASSUME denied'[q] = denied[q] PROVE Waits(q, b)
  BY <1>1, <1>3, BankKept DEF Waits
<1>4. ASSUME NEW m \in Masters, NEW addr \in Addrs, MasterRequest(m, addr)
      PROVE  q \in pending_mask'[b]
  <2>1. BankOf(addr) \in Banks /\ denied[m] \in Seq(Addrs)
    BY BankExists DEF LogIcoTypeOK
  <2>2. /\ pending_mask' = [pending_mask EXCEPT ![BankOf(addr)] = @ \cup {m}]
        /\ denied' = [denied EXCEPT ![m] = Append(@, addr)]
    BY <1>4 DEF MasterRequest, input_req, Marked
  <2>3. CASE q # m
    BY <1>2, <1>3, <2>1, <2>2, <2>3 DEF LogIcoTypeOK
  <2>4. CASE q = m
    <3>1. PICK i \in DOMAIN denied'[m] : BankOf(denied'[m][i]) = b
      BY <1>1, <2>4, BankKept DEF Waits
    <3>2. denied'[m] = Append(denied[m], addr)
      BY <2>2 DEF LogIcoTypeOK
    <3>3. DOMAIN denied[m] = 1 .. Len(denied[m]) /\ Len(denied[m]) \in Nat
      BY <2>1, LenProperties
    <3>4. CASE i = Len(denied[m]) + 1
      BY <2>1, <2>2, <2>4, <3>1, <3>2, <3>4, AppendProperties DEF LogIcoTypeOK
    <3>5. CASE i # Len(denied[m]) + 1
      <4>1. i \in DOMAIN denied[m] /\ denied'[m][i] = denied[m][i]
        BY <2>1, <3>1, <3>2, <3>3, <3>5, AppendProperties
      <4>2. q \in pending_mask[b]
        BY <1>2, <2>4, <3>1, <4>1 DEF Waits
      <4> QED
        BY <2>1, <2>2, <4>2 DEF LogIcoTypeOK
    <3> QED
      BY <3>4, <3>5
  <2> QED
    BY <2>3, <2>4
<1>5. CASE Elect
  <2> DEFINE w == pick_winner(pending_mask[bank], rr_next[bank], nb_masters)
  <2>1. /\ bank \in Banks /\ w \in Masters
        /\ pending_mask' = [pending_mask EXCEPT ![bank] = @ \ {w}]
        /\ denied' = [denied EXCEPT ![w] = <<>>]
    BY <1>5, ElectEffect
  <2> HIDE DEF w
  <2>2. q # w
    BY <2>1 DEF Waits, LogIcoTypeOK
  <2> QED
    BY <1>2, <1>3, <2>1, <2>2 DEF LogIcoTypeOK
<1>6. CASE reset
  BY <1>6 DEF reset, Waits
<1>7. CASE \/ ElectionStart \/ SkipBank \/ RetryReturns \/ ElectionEnd \/ Tick
           \/ \E m \in Eager, addr \in Addrs : MasterForwarded(m, addr)
           \/ UNCHANGED LogIcoVars
  BY <1>2, <1>3, <1>7 DEF ElectionStart, SkipBank, RetryReturns, ElectionEnd, Tick, MasterForwarded,
                          LogIcoVars
<1> QED
  BY <1>4, <1>5, <1>6, <1>7 DEF LogIcoNext, FsmStep

(* input_req schedules the FSM when it sets a bit, and fsm_handler when it *)
(* leaves one behind.                                                      *)
LEMMA ArmedKept ==
    ASSUME LogIcoTypeOK, FsmShape, FsmArmed, [LogIcoNext]_LogIcoVars
    PROVE  FsmShape' /\ FsmArmed'
<1> USE DEF FsmShape, FsmArmed
<1>1. ASSUME NEW m \in Masters, NEW addr \in Addrs, MasterRequest(m, addr)
      PROVE  FsmShape' /\ FsmArmed'
  BY <1>1 DEF MasterRequest, input_req, EnqueuedNow
<1>2. CASE ElectionStart
  BY <1>2, BanksShape DEF ElectionStart
<1>3. CASE SkipBank
  <2>1. bank \in Banks /\ \A b \in Banks : b < bank + 1 => b < bank \/ b = bank
    BY <1>3, BanksShape DEF SkipBank, LogIcoTypeOK
  <2> QED
    BY <1>3, <2>1 DEF SkipBank
<1>4. CASE Elect
  <2> DEFINE w == pick_winner(pending_mask[bank], rr_next[bank], nb_masters)
  <2>1. bank \in Banks /\ pending_mask' = [pending_mask EXCEPT ![bank] = @ \ {w}]
    BY <1>4, ElectEffect
  <2> HIDE DEF w
  <2>2. \A b \in Banks : b < bank => b # bank
    BY BanksShape DEF LogIcoTypeOK
  <2>3. \A b \in Banks : b # bank => pending_mask'[b] = pending_mask[b]
    BY <2>1 DEF LogIcoTypeOK
  <2> QED
    BY <1>4, <2>2, <2>3 DEF Elect
<1>5. CASE RetryReturns
  <2>1. \A b \in Banks : b < bank + 1 => b < bank \/ b = bank
    BY BanksShape DEF LogIcoTypeOK
  <2> QED
    BY <1>5, <2>1 DEF RetryReturns
<1>6. CASE ElectionEnd
  BY <1>6, BanksShape DEF ElectionEnd, Rearmed
<1>7. CASE \/ Tick \/ reset \/ UNCHANGED LogIcoVars
           \/ \E m \in Eager, addr \in Addrs : MasterForwarded(m, addr)
  BY <1>7 DEF Tick, reset, MasterForwarded, LogIcoVars
<1> QED
  BY <1>1, <1>2, <1>3, <1>4, <1>5, <1>6, <1>7 DEF LogIcoNext, FsmStep

LEMMA WInvInit == LogIcoInit => WInv
<1> SUFFICES ASSUME LogIcoInit PROVE WInv
  OBVIOUS
<1>1. LogIcoTypeOK
  <2>1. in_election \in BOOLEAN /\ retrying \in BOOLEAN /\ any_remaining \in BOOLEAN /\ ended \in BOOLEAN
    BY DEF LogIcoInit
  <2>2. 0 \in Masters /\ 0 \in 0 .. nb_slaves
    BY BanksShape DEF Masters
  <2> QED
    BY <2>1, <2>2 DEF LogIcoInit, LogIcoTypeOK
<1>2. ~Forgotten
  BY DEF LogIcoInit, Forgotten, Waits
<1> QED
  BY <1>1, <1>2 DEF LogIcoInit, WInv, FsmShape, FsmArmed

LEMMA WInvKept == WInv /\ [LogIcoNext]_LogIcoVars => WInv'
BY TypeKept, RememberedKept, ArmedKept DEF WInv

(* A master that stays pending on a bank comes closer to the head of the   *)
(* scan with each election there, for any number of masters, so that it is *)
(* passed over at most nb_masters - 1 times (pick_winner, fsm_handler).    *)
THEOREM RoundRobinHolds == LogIcoSpec => RoundRobin
<1>1. LogIcoTypeOK /\ [LogIcoNext]_LogIcoVars =>
        [\A b \in Banks : Elected(b) /\ in_election =>
           \A m \in pending_mask'[b] : Distance(rr_next'[b], m) < Distance(rr_next[b], m)]_LogIcoVars
  <2> SUFFICES ASSUME LogIcoTypeOK, [LogIcoNext]_LogIcoVars, NEW b \in Banks, Elected(b), in_election,
                      NEW m \in pending_mask'[b]
               PROVE  Distance(rr_next'[b], m) < Distance(rr_next[b], m)
    OBVIOUS
  <2> DEFINE w == pick_winner(pending_mask[bank], rr_next[bank], nb_masters)
  <2>1. Elect
    BY DEF Elected, LogIcoNext, LogIcoVars, MasterRequest, MasterForwarded,
         FsmStep, ElectionStart, SkipBank, RetryReturns, ElectionEnd, Tick, reset
  <2>2. /\ bank \in Banks /\ w \in Masters /\ w \in pending_mask[bank]
        /\ \A q \in pending_mask[bank] : Distance(rr_next[bank], w) <= Distance(rr_next[bank], q)
        /\ pending_mask' = [pending_mask EXCEPT ![bank] = @ \ {w}]
        /\ rr_next' = [rr_next EXCEPT ![bank] = NextScan(w)]
    BY <2>1, ElectEffect
  <2> HIDE DEF w
  <2>3. b = bank
    BY <2>2 DEF Elected, LogIcoTypeOK
  <2>4. /\ m \in pending_mask[bank] /\ m # w /\ rr_next'[b] = NextScan(w)
        /\ m \in Masters /\ rr_next[bank] \in Masters
    BY <2>2, <2>3 DEF LogIcoTypeOK
  <2> QED
    BY <2>2, <2>3, <2>4, Closer
<1>2. WInv => LogIcoTypeOK
  BY DEF WInv
<1> QED
  BY WInvInit, WInvKept, <1>1, <1>2, PTL DEF LogIcoSpec, RoundRobin

----------------------------------------------------------------------------
(* The elections of a cycle, and masters that hold one denied request.     *)

(* A bit stands for the request its master holds.                          *)
BitsExact ==
    /\ \A m \in Masters : Len(denied[m]) <= 1
    /\ \A b \in Banks : \A m \in pending_mask[b] : Waits(m, b)

(* Elections of a cycle: the one that was due, which is to come or has     *)
(* reached a bank, and the one at the end of the cycle.                    *)
ElectionBound ==
    /\ fsm_event \in {"due", "now"} => ~ended
    /\ \A b \in Banks :
         winners[b] <= (IF ended THEN 2 ELSE 1)
                        - (IF \/ fsm_event = "due"
                              \/ in_election /\ (b > bank \/ (b = bank /\ ~retrying)) THEN 1 ELSE 0)

(* A bank has served a master for each of its elections, and those that    *)
(* issue new requests inside a retry().                                    *)
ServedBound ==
    \A b \in Banks : Cardinality(served[b] \ Eager) <= winners[b]

(* The one request of a master whose bit is set.                           *)
LEMMA TheRequest ==
    ASSUME LogIcoTypeOK, BitsExact, NEW b \in Banks, NEW m \in pending_mask[b]
    PROVE  DOMAIN denied[m] = {1} /\ BankOf(denied[m][1]) = b
<1>1. m \in Masters /\ Waits(m, b) /\ Len(denied[m]) <= 1
  BY DEF LogIcoTypeOK, BitsExact
<1>2. DOMAIN denied[m] = 1 .. Len(denied[m]) /\ Len(denied[m]) \in Nat
  BY <1>1, LenProperties DEF LogIcoTypeOK
<1>3. DOMAIN denied[m] # {}
  BY <1>1 DEF Waits
<1>4. DOMAIN denied[m] = {1}
  BY <1>1, <1>2, <1>3
<1> QED
  BY <1>1, <1>4 DEF Waits

LEMMA OneBank ==
    ASSUME LogIcoTypeOK, BitsExact, NEW b \in Banks, NEW c \in Banks,
           NEW m, m \in pending_mask[b], m \in pending_mask[c]
    PROVE  b = c
BY TheRequest

LEMMA ExactKept ==
    ASSUME MaxDenied = 1, LogIcoTypeOK, BitsExact, [LogIcoNext]_LogIcoVars
    PROVE  BitsExact'
<1>1. interleaving_width' = interleaving_width
  BY DEF LogIcoNext, LogIcoVars, MasterRequest, MasterForwarded,
         FsmStep, ElectionStart, SkipBank, Elect, RetryReturns, ElectionEnd, Tick, reset
<1>2. ASSUME NEW q, NEW b, Waits(q, b), denied'[q] = denied[q] PROVE Waits(q, b)'
  BY <1>1, <1>2, BankKept DEF Waits
<1>3. ASSUME NEW m \in Masters, NEW addr \in Addrs, MasterRequest(m, addr)
      PROVE  BitsExact'
  <2>1. BankOf(addr) \in Banks /\ denied[m] \in Seq(Addrs)
    BY BankExists DEF LogIcoTypeOK
  <2>2. /\ pending_mask' = [pending_mask EXCEPT ![BankOf(addr)] = @ \cup {m}]
        /\ denied' = [denied EXCEPT ![m] = Append(@, addr)]
        /\ Len(denied[m]) < 1
    BY <1>3 DEF MasterRequest, input_req, Marked
  <2>3. denied[m] = <<>>
    BY <2>1, <2>2, EmptySeq
  <2>4. denied'[m] = <<addr>>
    BY <2>1, <2>2, <2>3 DEF LogIcoTypeOK
  <2>5. \A q \in Masters : Len(denied'[q]) <= 1
    <3>1. ASSUME NEW q \in Masters, q # m PROVE Len(denied'[q]) <= 1
      <4>1. denied'[q] = denied[q]
        BY <2>2, <3>1 DEF LogIcoTypeOK
      <4> QED
        BY <4>1 DEF BitsExact
    <3>2. Len(denied'[m]) <= 1
      <4>1. Len(<<addr>>) = 1
        OBVIOUS
      <4> QED
        BY <2>4, <4>1
    <3> QED
      BY <3>1, <3>2
  <2>6. Waits(m, BankOf(addr))'
    BY <1>1, <2>4, BankKept DEF Waits
  <2>7. ASSUME NEW b \in Banks, NEW q \in pending_mask'[b]
        PROVE  Waits(q, b)'
    <3>1. CASE q = m /\ b = BankOf(addr)
      BY <2>6, <3>1, <1>1, BankKept
    <3>2. CASE ~(q = m /\ b = BankOf(addr))
      <4>1. q \in pending_mask[b] /\ q \in Masters
        BY <2>1, <2>2, <3>2 DEF LogIcoTypeOK
      <4>2. Waits(q, b)
        BY <4>1 DEF BitsExact
      <4>3. q # m
        BY <2>3, <4>2 DEF Waits
      <4>4. denied'[q] = denied[q]
        BY <2>2, <4>1, <4>3 DEF LogIcoTypeOK
      <4> QED
        BY <1>2, <4>2, <4>4
    <3> QED
      BY <3>1, <3>2
  <2> QED
    BY <2>5, <2>7 DEF BitsExact
<1>4. CASE Elect
  <2> DEFINE w == pick_winner(pending_mask[bank], rr_next[bank], nb_masters)
  <2>1. /\ bank \in Banks /\ w \in Masters /\ w \in pending_mask[bank]
        /\ pending_mask' = [pending_mask EXCEPT ![bank] = @ \ {w}]
        /\ denied' = [denied EXCEPT ![w] = <<>>]
    BY <1>4, ElectEffect
  <2> HIDE DEF w
  <2>2. \A q \in Masters : q # w => denied'[q] = denied[q]
    BY <2>1 DEF LogIcoTypeOK
  <2>3. \A q \in Masters : Len(denied'[q]) <= 1
    BY <2>1, <2>2 DEF BitsExact, LogIcoTypeOK
  <2>4. ASSUME NEW b \in Banks, w \in pending_mask[b] PROVE b = bank
    BY <2>1, <2>4, OneBank
  <2>5. ASSUME NEW b \in Banks, NEW q \in pending_mask'[b]
        PROVE  Waits(q, b)'
    <3>1. q \in pending_mask[b] /\ q # w /\ q \in Masters
      BY <2>1, <2>4 DEF LogIcoTypeOK
    <3> QED
      BY <1>2, <2>2, <3>1 DEF BitsExact
  <2> QED
    BY <2>3, <2>5 DEF BitsExact
<1>5. CASE reset
  BY <1>5 DEF reset, BitsExact
<1>6. CASE \/ ElectionStart \/ SkipBank \/ RetryReturns \/ ElectionEnd \/ Tick
           \/ \E m \in Eager, addr \in Addrs : MasterForwarded(m, addr)
           \/ UNCHANGED LogIcoVars
  <2>1. UNCHANGED <<denied, pending_mask>>
    BY <1>6 DEF ElectionStart, SkipBank, RetryReturns, ElectionEnd, Tick, MasterForwarded, LogIcoVars
  <2> QED
    BY <1>2, <2>1 DEF BitsExact
<1> QED
  BY <1>3, <1>4, <1>5, <1>6 DEF LogIcoNext, FsmStep

(* An election serves its bank with its winner, and no other bank.         *)
LEMMA ElectServes ==
    ASSUME LogIcoTypeOK, BitsExact, Elect
    PROVE  \E w \in Masters :
             \A b \in Banks : served'[b] = IF b = bank THEN served[b] \cup {w} ELSE served[b]
<1> DEFINE w == pick_winner(pending_mask[bank], rr_next[bank], nb_masters)
<1>1. /\ bank \in Banks /\ w \in Masters /\ w \in pending_mask[bank]
      /\ served' = [b \in Banks |-> served[b] \cup {m \in {w} : b \in DeniedBanks(m)}]
  BY ElectEffect
<1> HIDE DEF w
<1>2. DOMAIN denied[w] = {1} /\ BankOf(denied[w][1]) = bank
  BY <1>1, TheRequest
<1>3. DeniedBanks(w) = {bank}
  BY <1>2 DEF DeniedBanks
<1>4. \A b \in Banks : {m \in {w} : b \in DeniedBanks(m)} = IF b = bank THEN {w} ELSE {}
  BY <1>3
<1>5. \A b \in Banks : served'[b] = IF b = bank THEN served[b] \cup {w} ELSE served[b]
  BY <1>1, <1>4
<1> QED
  BY <1>1, <1>5

LEMMA BoundKept ==
    ASSUME WInv, ElectionBound, [LogIcoNext]_LogIcoVars
    PROVE  ElectionBound'
<1> USE DEF ElectionBound
<1>1. /\ LogIcoTypeOK
      /\ \A b \in Banks : winners[b] \in Nat /\ b \in Nat /\ b < nb_slaves
      /\ bank \in Nat /\ nb_slaves \in Nat
  BY BanksShape DEF WInv, LogIcoTypeOK
<1>2. ASSUME NEW m \in Masters, NEW addr \in Addrs, MasterRequest(m, addr)
      PROVE  ElectionBound'
  BY <1>1, <1>2 DEF MasterRequest, input_req, EnqueuedNow
<1>3. CASE ElectionStart
  <2>1. ~retrying /\ UNCHANGED retrying /\ in_election' /\ bank' = 0
    BY <1>3 DEF ElectionStart, WInv, FsmShape
  <2>2. CASE fsm_event = "now"
    <3>1. ended' = TRUE /\ ~ended /\ fsm_event' = "none" /\ UNCHANGED winners
      BY <1>3, <2>2 DEF ElectionStart
    <3>2. \A b \in Banks : winners[b] <= 1
      BY <1>1, <1>3, <2>2 DEF ElectionStart
    <3> QED
      BY <1>1, <2>1, <3>1, <3>2
  <2>3. CASE fsm_event = "due"
    <3>1. ended' = ended /\ ~ended /\ fsm_event' = "none" /\ UNCHANGED winners
      BY <1>3, <2>3 DEF ElectionStart, WInv, LogIcoTypeOK
    <3>2. \A b \in Banks : winners[b] <= 0
      BY <1>1, <2>3, <3>1
    <3> QED
      BY <1>1, <2>1, <3>1, <3>2
  <2> QED
    BY <1>3, <2>2, <2>3 DEF ElectionStart
<1>4. CASE SkipBank
  BY <1>1, <1>4 DEF SkipBank
<1>5. CASE Elect
  <2>1. fsm_event = "none" /\ in_election /\ ~retrying /\ retrying' = TRUE
        /\ UNCHANGED <<in_election, fsm_event, bank, ended>>
    BY <1>5 DEF Elect, WInv, FsmShape
  <2>2. \A b \in Banks : winners'[b] = IF b = bank THEN winners[b] + 1 ELSE winners[b]
    BY <1>1, <1>5 DEF Elect, LogIcoTypeOK
  <2> QED
    BY <1>1, <2>1, <2>2
<1>6. CASE RetryReturns
  <2>1. bank' = bank + 1 /\ ~retrying' /\ retrying /\ UNCHANGED <<in_election, fsm_event, ended, winners>>
    BY <1>6 DEF RetryReturns
  <2>2. \A b \in Banks : b >= bank + 1 => b > bank
    BY <1>1
  <2> QED
    BY <1>1, <2>1, <2>2
<1>7. CASE ElectionEnd
  BY <1>1, <1>7 DEF ElectionEnd, Rearmed
<1>8. CASE Tick
  BY <1>1, <1>8 DEF Tick, WInv, FsmShape
<1>9. CASE \/ reset \/ UNCHANGED LogIcoVars
           \/ \E m \in Eager, addr \in Addrs : MasterForwarded(m, addr)
  BY <1>9 DEF reset, MasterForwarded, LogIcoVars
<1> QED
  BY <1>2, <1>3, <1>4, <1>5, <1>6, <1>7, <1>8, <1>9 DEF LogIcoNext, FsmStep

LEMMA MastersFinite == \A T \in SUBSET Masters : IsFiniteSet(T) /\ Cardinality(T) \in Nat
<1>1. IsFiniteSet(Masters)
  BY FS_Interval DEF Masters
<1> QED
  BY <1>1, FS_Subset, FS_CardinalityType

LEMMA ServedKept ==
    ASSUME LogIcoTypeOK, BitsExact, ServedBound, [LogIcoNext]_LogIcoVars
    PROVE  ServedBound'
<1>1. \A b \in Banks : winners[b] \in Nat /\ served[b] \in SUBSET Masters
  BY DEF LogIcoTypeOK
<1>2. ASSUME NEW m \in Eager, NEW addr \in Addrs, MasterForwarded(m, addr)
      PROVE  ServedBound'
  <2>1. \A b \in Banks : served'[b] \ Eager = served[b] \ Eager
    BY <1>2 DEF MasterForwarded, LogIcoTypeOK
  <2>2. UNCHANGED winners
    BY <1>2 DEF MasterForwarded
  <2> QED
    BY <2>1, <2>2 DEF ServedBound
<1>3. CASE Elect
  <2>1. PICK w \in Masters :
             \A b \in Banks : served'[b] = IF b = bank THEN served[b] \cup {w} ELSE served[b]
    BY <1>3, ElectServes
  <2>2. \A b \in Banks : winners'[b] = IF b = bank THEN winners[b] + 1 ELSE winners[b]
    BY <1>3 DEF Elect, LogIcoTypeOK
  <2>3. ASSUME NEW b \in Banks
        PROVE  Cardinality(served'[b] \ Eager) <= winners'[b]
    <3> DEFINE T == served[b] \ Eager
               U == served'[b] \ Eager
    <3>1. T \in SUBSET Masters /\ Cardinality(T) <= winners[b] /\ winners[b] \in Nat
      BY <1>1 DEF ServedBound
    <3>2. U = T \/ (b = bank /\ (U = T \/ U = T \cup {w}))
      BY <2>1
    <3>3. winners'[b] \in Nat /\ winners'[b] >= winners[b] /\ (b = bank => winners'[b] = winners[b] + 1)
      BY <2>2, <3>1
    <3> HIDE DEF T, U
    <3>4. IsFiniteSet(T) /\ Cardinality(T) \in Nat
      BY <3>1, MastersFinite
    <3>5. Cardinality(T \cup {w}) = IF w \in T THEN Cardinality(T) ELSE Cardinality(T) + 1
      BY <3>4, FS_AddElement
    <3>6. Cardinality(U) = Cardinality(T) \/ (b = bank /\ Cardinality(U) = Cardinality(T) + 1)
      BY <3>2, <3>5
    <3>7. Cardinality(U) <= winners'[b]
      BY <3>1, <3>3, <3>4, <3>6
    <3> QED
      BY <3>7 DEF U
  <2> QED
    BY <2>3 DEF ServedBound
<1>4. CASE Tick
  <2>1. ASSUME NEW b \in Banks
        PROVE  Cardinality(served'[b] \ Eager) <= winners'[b]
    <3> DEFINE U == served'[b] \ Eager
    <3>1. winners'[b] = 0 /\ U = {}
      BY <1>4 DEF Tick
    <3> HIDE DEF U
    <3>2. Cardinality(U) = 0
      BY <3>1, FS_EmptySet
    <3>3. Cardinality(U) <= winners'[b]
      BY <3>1, <3>2
    <3> QED
      BY <3>3 DEF U
  <2> QED
    BY <2>1 DEF ServedBound
<1>5. CASE \/ ElectionStart \/ SkipBank \/ RetryReturns \/ ElectionEnd \/ reset
           \/ \E m \in Masters, addr \in Addrs : MasterRequest(m, addr)
           \/ UNCHANGED LogIcoVars
  <2>1. UNCHANGED <<served, winners>>
    BY <1>5 DEF ElectionStart, SkipBank, RetryReturns, ElectionEnd, reset, MasterRequest, LogIcoVars
  <2> QED
    BY <2>1 DEF ServedBound
<1> QED
  BY <1>2, <1>3, <1>4, <1>5 DEF LogIcoNext, FsmStep

(* Whatever the masters do, a bank has at most two winners in a cycle, no  *)
(* denied request is forgotten and the FSM is scheduled as long as one     *)
(* waits (input_req, fsm_handler).  With masters that hold one denied      *)
(* request at a time, a bit stands for a request exactly, and of those     *)
(* that issue nothing else in retry() a bank serves only winners.          *)
THEOREM LogIcoInvHolds == LogIcoSpec => []LogIcoInv
<1> DEFINE Single == MaxDenied = 1 => BitsExact /\ ServedBound
           I == WInv /\ ElectionBound /\ Single
<1>1. LogIcoInit => I
  <2>1. LogIcoInit => BitsExact
    BY DEF LogIcoInit, BitsExact
  <2>2. LogIcoInit => ElectionBound
    BY DEF LogIcoInit, ElectionBound
  <2>3. LogIcoInit => ServedBound
    <3>1. Cardinality({}) = 0 /\ {} \ Eager = {}
      BY FS_EmptySet
    <3> QED
      BY <3>1 DEF LogIcoInit, ServedBound
  <2> QED
    BY <2>1, <2>2, <2>3, WInvInit
<1>2. I /\ [LogIcoNext]_LogIcoVars => I'
  <2> SUFFICES ASSUME I, [LogIcoNext]_LogIcoVars PROVE I'
    OBVIOUS
  <2>1. WInv'
    BY WInvKept
  <2>2. ElectionBound'
    BY BoundKept
  <2>3. ASSUME MaxDenied = 1 PROVE BitsExact' /\ ServedBound'
    BY <2>3, ExactKept, ServedKept DEF WInv
  <2> QED
    BY <2>1, <2>2, <2>3
<1>3. I => LogIcoInv
  <2> SUFFICES ASSUME I PROVE LogIcoInv
    OBVIOUS
  <2>1. BitsMatch
    BY DEF WInv, Forgotten, Waits, BitsExact, BitsMatch
  <2>2. ASSUME NEW b \in Banks PROVE winners[b] <= 2
    <3> DEFINE opened == IF ended THEN 2 ELSE 1
               to_come == IF \/ fsm_event = "due"
                             \/ in_election /\ (b > bank \/ (b = bank /\ ~retrying)) THEN 1 ELSE 0
    <3>1. winners[b] <= opened - to_come /\ winners[b] \in Nat
      BY DEF WInv, LogIcoTypeOK, ElectionBound
    <3>2. opened \in {1, 2} /\ to_come \in {0, 1}
      OBVIOUS
    <3> HIDE DEF opened, to_come
    <3> QED
      BY <3>1, <3>2
  <2>3. MaxDenied = 1 => \A b \in Banks : Cardinality(served[b] \ Eager) <= winners[b]
    BY DEF ServedBound
  <2>4. TwoPerBank
    BY <2>2, <2>3 DEF TwoPerBank
  <2>5. LogIcoTypeOK /\ FsmArmed
    BY DEF WInv
  <2> HIDE DEF I
  <2> QED
    BY <2>1, <2>4, <2>5 DEF LogIcoInv
<1> QED
  BY <1>1, <1>2, <1>3, PTL DEF LogIcoSpec
=============================================================================
