------------------------- MODULE ClockBridgeProofs -------------------------
(***************************************************************************)
(* Proofs about ClockBridge, for every set of requests, every delay and    *)
(* every depth.  The argument has two layers.  QueueShape is about the     *)
(* four queues with their deadlines; on top of it, Nm(queue) is the        *)
(* function from the stages to the requests in them, each of whose steps   *)
(* appends a request, takes the head of a list, or both.                   *)
(***************************************************************************)
EXTENDS ClockBridge, SequencesExt, SequenceTheorems, FiniteSetTheorems, TLAPS

----------------------------------------------------------------------------
(* Queues without repetitions.                                             *)

(* The elements of a sequence, by its indices.                             *)
LEMMA InToSet ==
    ASSUME NEW S, NEW s \in Seq(S)
    PROVE  /\ ToSet(s) \subseteq S
           /\ \A x : x \in ToSet(s) <=> \E i \in 1 .. Len(s) : s[i] = x
BY DEF ToSet

LEMMA AppendToSet ==
    ASSUME NEW S, NEW s \in Seq(S), NEW e \in S
    PROVE  ToSet(Append(s, e)) = ToSet(s) \cup {e}
<1> DEFINE t == Append(s, e)
<1>1. /\ DOMAIN s = 1 .. Len(s) /\ DOMAIN t = 1 .. Len(s) + 1 /\ Len(s) \in Nat
      /\ \A i \in 1 .. Len(s) : t[i] = s[i]
      /\ t[Len(s) + 1] = e
  OBVIOUS
<1> HIDE DEF t
<1>2. ToSet(t) = ToSet(s) \cup {e}
  BY <1>1 DEF ToSet
<1> QED
  BY <1>2 DEF t

LEMMA TailToSet ==
    ASSUME NEW S, NEW s \in Seq(S), s # <<>>
    PROVE  ToSet(s) = ToSet(Tail(s)) \cup {Head(s)}
<1> DEFINE t == Tail(s)
<1>1. /\ DOMAIN s = 1 .. Len(s) /\ DOMAIN t = 1 .. Len(s) - 1 /\ Len(s) \in Nat \ {0}
      /\ Head(s) = s[1]
      /\ \A i \in 1 .. Len(s) : i = 1 \/ (i - 1 \in DOMAIN t /\ s[i] = t[i - 1])
      /\ \A i \in DOMAIN t : i + 1 \in 1 .. Len(s) /\ t[i] = s[i + 1]
  OBVIOUS
<1> HIDE DEF t
<1>2. \A i \in DOMAIN s : s[i] \in ToSet(t) \cup {Head(s)}
  BY <1>1 DEF ToSet
<1>3. Head(s) \in ToSet(s) /\ \A i \in DOMAIN t : t[i] \in ToSet(s)
  BY <1>1 DEF ToSet
<1>4. ToSet(s) = ToSet(t) \cup {Head(s)}
  BY <1>2, <1>3 DEF ToSet
<1> QED
  BY <1>4 DEF t

LEMMA InjectiveEmpty == IsInjective(<<>>)
BY DEF IsInjective

LEMMA InjectiveAppend ==
    ASSUME NEW S, NEW s \in Seq(S), NEW e \in S, IsInjective(s), e \notin ToSet(s)
    PROVE  IsInjective(Append(s, e))
BY DEF ToSet, IsInjective

LEMMA InjectiveTail ==
    ASSUME NEW S, NEW s \in Seq(S), s # <<>>, IsInjective(s)
    PROVE  IsInjective(Tail(s)) /\ Head(s) \notin ToSet(Tail(s))
BY DEF ToSet, IsInjective

(* One queue: its deadlines are a cycle apart; its event is on its head.   *)
Spaced(q) == \A i \in 1 .. (Len(q) - 1) : q[i + 1].due > q[i].due \/ q[i].due = -1

Armed(q, e) == IF q = <<>> THEN e = -1 ELSE e \in 0 .. reschedule_event(q)

Aged(q) == [i \in DOMAIN q |-> [q[i] EXCEPT !.due = IF @ < 0 THEN @ ELSE @ - 1]]

QueueShape(Q) == Q \in [Stages -> Seq(Txn)] /\ \A s \in Stages : Spaced(Q[s])

(* One stage of four changes.                                              *)
Put(f, s, v) == [f EXCEPT ![s] = v]

Moved(Q, s, t, k) == [Q EXCEPT ![s] = Tail(@), ![t] = enqueue_in(@, Q[s][1].req, k)]

(* The requests in each stage.                                             *)
Nm(Q) == [s \in Stages |-> Names(Q[s])]

----------------------------------------------------------------------------
(* What happens to one queue.                                              *)

LEMMA TxnFields ==
    /\ \A t \in Txn : t.req \in Reqs /\ t.due \in Nat \cup {-1}
    /\ \A r \in Reqs, d \in Nat \cup {-1} : [req |-> r, due |-> d] \in Txn
BY DEF Txn

LEMMA NamesSeq ==
    ASSUME NEW q \in Seq(Txn)
    PROVE  /\ Names(q) \in Seq(Reqs) /\ Len(Names(q)) = Len(q)
           /\ \A i \in 1 .. Len(q) : Names(q)[i] = q[i].req
<1>1. DOMAIN q = 1 .. Len(q) /\ Len(q) \in Nat /\ \A i \in 1 .. Len(q) : q[i] \in Txn
  BY ElementOfSeq, LenProperties
<1>2. Names(q) = [i \in 1 .. Len(q) |-> q[i].req]
  BY <1>1 DEF Names
<1>3. \A i \in 1 .. Len(q) : q[i].req \in Reqs
  BY <1>1, TxnFields
<1> QED
  BY <1>1, <1>2, <1>3, IsASeq

(* enqueue_in keeps the spacing whatever the delay.                        *)
LEMMA Enqueue ==
    ASSUME NEW q \in Seq(Txn), NEW r \in Reqs, NEW k \in Nat, Spaced(q)
    PROVE  /\ enqueue_in(q, r, k) \in Seq(Txn) /\ Spaced(enqueue_in(q, r, k))
           /\ Len(enqueue_in(q, r, k)) = Len(q) + 1
           /\ Names(enqueue_in(q, r, k)) = Append(Names(q), r)
<1> DEFINE d == IF q # <<>> /\ k < q[Len(q)].due + 1 THEN q[Len(q)].due + 1 ELSE k
           e == [req |-> r, due |-> d]
           t == Append(q, e)
<1>1. enqueue_in(q, r, k) = t
  BY DEF enqueue_in
<1>2. /\ Len(q) \in Nat /\ \A i \in 1 .. Len(q) : q[i] \in Txn
      /\ q # <<>> => Len(q) \in 1 .. Len(q)
  BY ElementOfSeq, LenProperties, EmptySeq
<1>3. \A i \in 1 .. Len(q) : q[i].due \in Nat \cup {-1}
  BY <1>2, TxnFields
<1>4. d \in Nat /\ (q # <<>> => d > q[Len(q)].due)
  BY <1>2, <1>3
<1>5. e \in Txn /\ e.req = r /\ e.due = d
  BY <1>4, TxnFields
<1> HIDE DEF d, e
<1>6. /\ t \in Seq(Txn) /\ Len(t) = Len(q) + 1
      /\ \A i \in 1 .. Len(q) : t[i] = q[i]
      /\ t[Len(q) + 1] = e
  BY <1>5, AppendProperties
<1> HIDE DEF t
<1>7. Spaced(t)
  <2> SUFFICES ASSUME NEW i \in 1 .. Len(q)
               PROVE  t[i + 1].due > t[i].due \/ t[i].due = -1
    BY <1>2, <1>6 DEF Spaced
  <2>1. CASE i = Len(q)
    <3>1. q # <<>>
      BY <1>2, EmptySeq
    <3> QED
      BY <2>1, <3>1, <1>4, <1>5, <1>6
  <2>2. CASE i # Len(q)
    <3>1. i \in 1 .. (Len(q) - 1) /\ i + 1 \in 1 .. Len(q)
      BY <2>2, <1>2
    <3> QED
      BY <3>1, <1>6 DEF Spaced
  <2> QED
    BY <2>1, <2>2
<1>8. Names(t) = Append(Names(q), r)
  <2>1. /\ Names(t) \in Seq(Reqs) /\ Len(Names(t)) = Len(q) + 1
        /\ \A i \in 1 .. (Len(q) + 1) : Names(t)[i] = t[i].req
    BY <1>6, NamesSeq
  <2>2. /\ Append(Names(q), r) \in Seq(Reqs) /\ Len(Append(Names(q), r)) = Len(q) + 1
        /\ \A i \in 1 .. Len(q) : Append(Names(q), r)[i] = q[i].req
        /\ Append(Names(q), r)[Len(q) + 1] = r
    BY NamesSeq, AppendProperties
  <2>3. \A i \in 1 .. (Len(q) + 1) : i \in 1 .. Len(q) \/ i = Len(q) + 1
    BY <1>2
  <2>4. \A i \in 1 .. (Len(q) + 1) : Names(t)[i] = Append(Names(q), r)[i]
    BY <2>1, <2>2, <2>3, <1>5, <1>6
  <2> QED
    BY <2>1, <2>2, <2>4, SeqEqual
<1> QED
  BY <1>1, <1>6, <1>7, <1>8

LEMMA Pop ==
    ASSUME NEW q \in Seq(Txn), Spaced(q), q # <<>>
    PROVE  /\ Tail(q) \in Seq(Txn) /\ Spaced(Tail(q)) /\ Len(Tail(q)) = Len(q) - 1
           /\ Names(Tail(q)) = Tail(Names(q))
           /\ Names(q) # <<>> /\ Head(Names(q)) = q[1].req /\ q[1].req \in Reqs
<1>1. /\ Tail(q) \in Seq(Txn) /\ Len(Tail(q)) = Len(q) - 1
      /\ Len(q) \in Nat /\ Len(q) >= 1
      /\ \A i \in 1 .. (Len(q) - 1) : Tail(q)[i] = q[i + 1]
  OBVIOUS
<1>2. /\ Names(q) \in Seq(Reqs) /\ Len(Names(q)) = Len(q)
      /\ \A i \in 1 .. Len(q) : Names(q)[i] = q[i].req
  BY NamesSeq
<1>3. /\ Names(Tail(q)) \in Seq(Reqs) /\ Len(Names(Tail(q))) = Len(q) - 1
      /\ \A i \in 1 .. (Len(q) - 1) : Names(Tail(q))[i] = q[i + 1].req
  BY <1>1, NamesSeq
<1>4. Names(q) # <<>>
  BY <1>1, <1>2, EmptySeq
<1> DEFINE n == Names(q)
<1> HIDE DEF n
<1>5. /\ Tail(n) \in Seq(Reqs) /\ Len(Tail(n)) = Len(q) - 1
      /\ \A i \in 1 .. (Len(q) - 1) : Tail(n)[i] = n[i + 1]
      /\ Head(n) = n[1] /\ n[1] \in Reqs
  <2>1. n \in Seq(Reqs) /\ n # <<>> /\ Len(n) = Len(q)
    BY <1>2, <1>4 DEF n
  <2> QED
    BY <2>1, <1>1
<1>6. \A i \in 1 .. (Len(q) - 1) : i + 1 \in 1 .. Len(q)
  BY <1>1
<1>7. \A i \in 1 .. (Len(q) - 1) : Names(Tail(q))[i] = Tail(n)[i]
  BY <1>2, <1>3, <1>5, <1>6 DEF n
<1>8. Names(Tail(q)) = Tail(n)
  BY <1>3, <1>5, <1>7, SeqEqual
<1>9. Head(n) = q[1].req /\ q[1].req \in Reqs
  BY <1>1, <1>2, <1>5 DEF n
<1>10. Spaced(Tail(q))
  <2> SUFFICES ASSUME NEW i \in 1 .. (Len(q) - 2)
               PROVE  Tail(q)[i + 1].due > Tail(q)[i].due \/ Tail(q)[i].due = -1
    BY <1>1 DEF Spaced
  <2>1. i + 1 \in 1 .. (Len(q) - 1) /\ i \in 1 .. (Len(q) - 1)
    BY <1>1
  <2> QED
    BY <2>1, <1>1 DEF Spaced
<1> QED
  BY <1>1, <1>4, <1>8, <1>9, <1>10 DEF n

LEMMA Ageing ==
    ASSUME NEW q \in Seq(Txn), Spaced(q)
    PROVE  /\ Aged(q) \in Seq(Txn) /\ Spaced(Aged(q)) /\ Len(Aged(q)) = Len(q)
           /\ Names(Aged(q)) = Names(q)
           /\ \A i \in 1 .. Len(q) :
                Aged(q)[i].due = IF q[i].due < 0 THEN q[i].due ELSE q[i].due - 1
<1> DEFINE age(d) == IF d < 0 THEN d ELSE d - 1
<1>1. DOMAIN q = 1 .. Len(q) /\ Len(q) \in Nat /\ \A i \in 1 .. Len(q) : q[i] \in Txn
  BY ElementOfSeq, LenProperties
<1>2. ASSUME NEW x \in Txn
      PROVE  /\ [x EXCEPT !.due = IF @ < 0 THEN @ ELSE @ - 1] \in Txn
             /\ [x EXCEPT !.due = IF @ < 0 THEN @ ELSE @ - 1].req = x.req
             /\ [x EXCEPT !.due = IF @ < 0 THEN @ ELSE @ - 1].due = age(x.due)
  BY DEF Txn
<1>3. Aged(q) = [i \in 1 .. Len(q) |-> [q[i] EXCEPT !.due = IF @ < 0 THEN @ ELSE @ - 1]]
  BY <1>1 DEF Aged
<1> DEFINE t == Aged(q)
<1> HIDE DEF t
<1>4. /\ DOMAIN t = 1 .. Len(q)
      /\ \A i \in 1 .. Len(q) : t[i] \in Txn /\ t[i].req = q[i].req /\ t[i].due = age(q[i].due)
  BY <1>1, <1>2, <1>3 DEF t
<1>5. t \in [1 .. Len(q) -> Txn]
  BY <1>3, <1>4 DEF t
<1>6. t \in Seq(Txn) /\ Len(t) = Len(q)
  BY <1>1, <1>4, <1>5
<1>7. Spaced(t)
  <2> SUFFICES ASSUME NEW i \in 1 .. (Len(q) - 1)
               PROVE  t[i + 1].due > t[i].due \/ t[i].due = -1
    BY <1>6 DEF Spaced
  <2>1. i \in 1 .. Len(q) /\ i + 1 \in 1 .. Len(q)
    BY <1>1
  <2>2. q[i].due \in Nat \cup {-1} /\ q[i + 1].due \in Nat \cup {-1}
    BY <2>1, <1>1, TxnFields
  <2>3. q[i + 1].due > q[i].due \/ q[i].due = -1
    BY DEF Spaced
  <2>4. t[i].due = age(q[i].due) /\ t[i + 1].due = age(q[i + 1].due)
    BY <2>1, <1>4
  <2> QED
    BY <2>2, <2>3, <2>4
<1>8. Names(t) = Names(q)
  <2>1. /\ Names(t) \in Seq(Reqs) /\ Len(Names(t)) = Len(q)
        /\ \A i \in 1 .. Len(q) : Names(t)[i] = t[i].req
    BY <1>6, NamesSeq
  <2>2. /\ Names(q) \in Seq(Reqs) /\ Len(Names(q)) = Len(q)
        /\ \A i \in 1 .. Len(q) : Names(q)[i] = q[i].req
    BY NamesSeq
  <2> QED
    BY <2>1, <2>2, <1>4, SeqEqual
<1> QED
  BY <1>4, <1>6, <1>7, <1>8 DEF t

LEMMA Rescheduling ==
    ASSUME NEW q \in Seq(Txn)
    PROVE  Armed(q, reschedule_event(q)) /\ reschedule_event(q) \in Nat \cup {-1}
<1>1. q # <<>> => q[1] \in Txn
  BY ElementOfSeq, EmptySeq
<1>2. q # <<>> => q[1].due \in Nat \cup {-1}
  BY <1>1, TxnFields
<1> QED
  BY <1>2 DEF Armed, reschedule_event

(* A cycle later the event is still on the head of its queue.              *)
LEMMA ArmedAged ==
    ASSUME NEW q \in Seq(Txn), Spaced(q), NEW e \in Nat \cup {-1}, Armed(q, e), e # 0
    PROVE  Armed(Aged(q), IF e > 0 THEN e - 1 ELSE e)
<1>1. /\ Aged(q) \in Seq(Txn) /\ Len(Aged(q)) = Len(q) /\ Len(q) \in Nat
      /\ Aged(q) = <<>> <=> q = <<>>
  BY Ageing, EmptySeq, LenProperties
<1>2. CASE q = <<>>
  BY <1>1, <1>2 DEF Armed
<1>3. CASE q # <<>>
  <2>1. 1 \in 1 .. Len(q)
    BY <1>1, <1>3, EmptySeq
  <2>2. q[1].due \in Nat \cup {-1}
    BY <2>1, ElementOfSeq, TxnFields
  <2>3. Aged(q)[1].due = IF q[1].due < 0 THEN q[1].due ELSE q[1].due - 1
    BY <2>1, Ageing
  <2> QED
    BY <1>1, <1>3, <2>2, <2>3 DEF Armed, reschedule_event
<1> QED
  BY <1>2, <1>3
----------------------------------------------------------------------------
(* What happens to the four queues.                                        *)

LEMMA NmType ==
    ASSUME NEW Q, QueueShape(Q)
    PROVE  /\ Nm(Q) \in [Stages -> Seq(Reqs)]
           /\ \A s \in Stages : Nm(Q)[s] = Names(Q[s]) /\ Q[s] \in Seq(Txn) /\ Spaced(Q[s])
BY NamesSeq DEF Nm, QueueShape

LEMMA QueueEnqueue ==
    ASSUME NEW Q, QueueShape(Q), NEW s \in Stages, NEW r \in Reqs, NEW k \in Nat,
           NEW R, R = Put(Q, s, enqueue_in(Q[s], r, k))
    PROVE  QueueShape(R) /\ Nm(R) = Put(Nm(Q), s, Append(Nm(Q)[s], r))
<1> DEFINE t == enqueue_in(Q[s], r, k)
<1>0. Nm(Q)[s] = Names(Q[s]) /\ Q[s] \in Seq(Txn) /\ Spaced(Q[s])
  BY NmType
<1>1. t \in Seq(Txn) /\ Spaced(t) /\ Names(t) = Append(Nm(Q)[s], r)
  BY <1>0, Enqueue
<1>4. R = [Q EXCEPT ![s] = t]
  BY DEF Put
<1> HIDE DEF t
<1>2. QueueShape(R)
  BY <1>1, <1>4 DEF QueueShape
<1>3. Nm(R) = Put(Nm(Q), s, Append(Nm(Q)[s], r))
  BY <1>1, <1>4 DEF Nm, QueueShape, Put
<1> QED
  BY <1>2, <1>3

LEMMA QueuePop ==
    ASSUME NEW Q, QueueShape(Q), NEW s \in Stages, Q[s] # <<>>,
           NEW R, R = Put(Q, s, Tail(Q[s]))
    PROVE  /\ QueueShape(R) /\ Nm(R) = Put(Nm(Q), s, Tail(Nm(Q)[s]))
           /\ Nm(Q)[s] # <<>> /\ Head(Nm(Q)[s]) = Q[s][1].req /\ Q[s][1].req \in Reqs
<1> DEFINE t == Tail(Q[s])
<1>0. Nm(Q)[s] = Names(Q[s]) /\ Q[s] \in Seq(Txn) /\ Spaced(Q[s])
  BY NmType
<1>1. /\ t \in Seq(Txn) /\ Spaced(t) /\ Names(t) = Tail(Nm(Q)[s])
      /\ Nm(Q)[s] # <<>> /\ Head(Nm(Q)[s]) = Q[s][1].req /\ Q[s][1].req \in Reqs
  BY <1>0, Pop
<1>4. R = [Q EXCEPT ![s] = t]
  BY DEF Put
<1> HIDE DEF t
<1>2. QueueShape(R)
  BY <1>1, <1>4 DEF QueueShape
<1>3. Nm(R) = Put(Nm(Q), s, Tail(Nm(Q)[s]))
  BY <1>1, <1>4 DEF Nm, QueueShape, Put
<1> QED
  BY <1>1, <1>2, <1>3

LEMMA QueueMove ==
    ASSUME NEW Q, QueueShape(Q), NEW s \in Stages, Q[s] # <<>>,
           NEW t \in Stages, s # t, NEW k \in Nat,
           NEW R, R = Moved(Q, s, t, k)
    PROVE  /\ QueueShape(R)
           /\ Nm(R) = Put(Put(Nm(Q), s, Tail(Nm(Q)[s])), t, Append(Nm(Q)[t], Head(Nm(Q)[s])))
           /\ Nm(Q)[s] # <<>> /\ Head(Nm(Q)[s]) = Q[s][1].req /\ Q[s][1].req \in Reqs
<1> DEFINE P == Put(Q, s, Tail(Q[s]))
           r == Q[s][1].req
<1>1. /\ QueueShape(P) /\ Nm(P) = Put(Nm(Q), s, Tail(Nm(Q)[s]))
      /\ Nm(Q)[s] # <<>> /\ Head(Nm(Q)[s]) = r /\ r \in Reqs
  BY QueuePop
<1>0. P[t] = Q[t]
  BY DEF QueueShape, Put
<1>2. R = Put(P, t, enqueue_in(P[t], r, k))
  <2> DEFINE v == Tail(Q[s])  w == enqueue_in(Q[t], r, k)
  <2>1. R = [Q EXCEPT ![s] = v, ![t] = w]
    BY DEF Moved
  <2>2. Put(P, t, enqueue_in(P[t], r, k)) = [[Q EXCEPT ![s] = v] EXCEPT ![t] = w]
    BY <1>0 DEF Put
  <2> HIDE DEF v, w
  <2> QED
    BY <2>1, <2>2
<1> HIDE DEF P, r
<1>3. QueueShape(R) /\ Nm(R) = Put(Nm(P), t, Append(Nm(P)[t], r))
  <2>1. ASSUME NEW p, NEW x \in Reqs, NEW y, QueueShape(p), y = Put(p, t, enqueue_in(p[t], x, k))
        PROVE  QueueShape(y) /\ Nm(y) = Put(Nm(p), t, Append(Nm(p)[t], x))
    BY <2>1, QueueEnqueue
  <2>2. QueueShape(P) /\ r \in Reqs
    BY <1>1
  <2> QED
    BY <1>2, <2>1, <2>2
<1>4. Nm(P)[t] = Nm(Q)[t]
  BY <1>1, NmType DEF Put
<1> QED
  BY <1>1, <1>3, <1>4 DEF r

LEMMA QueueAged ==
    ASSUME NEW Q, QueueShape(Q), NEW S,
           NEW R, R = [s \in Stages |-> IF s \in S THEN Aged(Q[s]) ELSE Q[s]]
    PROVE  QueueShape(R) /\ Nm(R) = Nm(Q)
<1>1. ASSUME NEW s \in Stages
      PROVE  R[s] \in Seq(Txn) /\ Spaced(R[s]) /\ Names(R[s]) = Names(Q[s])
  BY NmType, Ageing
<1>2. R \in [Stages -> Seq(Txn)]
  BY <1>1
<1>3. QueueShape(R)
  BY <1>1, <1>2 DEF QueueShape
<1>4. Nm(R) = Nm(Q)
  BY <1>1 DEF Nm
<1> QED
  BY <1>3, <1>4

LEMMA QueueEmpty ==
    LET R == [s \in Stages |-> <<>>]
    IN  QueueShape(R) /\ Nm(R) = [s \in Stages |-> <<>>]
<1>1. <<>> \in Seq(Txn) /\ Spaced(<<>>) /\ Names(<<>>) = <<>>
  BY DEF Spaced, Names
<1> QED
  BY <1>1 DEF QueueShape, Nm

----------------------------------------------------------------------------
(* Where the requests are: each in one place of one stage, or with the     *)
(* slave (B), or dropped (D).                                              *)
Apart(n, B, D) ==
    /\ n \in [Stages -> Seq(Reqs)] /\ B \subseteq Reqs /\ D \subseteq Reqs
    /\ \A s \in Stages : /\ IsInjective(n[s])
                         /\ ToSet(n[s]) \cap (B \cup D) = {}
                         /\ \A t \in Stages \ {s} : ToSet(n[s]) \cap ToSet(n[t]) = {}
    /\ B \cap D = {}

Everywhere(n, B, D) == B \cup D \cup UNION {ToSet(n[s]) : s \in Stages}

LEMMA TakeHead ==
    ASSUME NEW n, NEW B, NEW D, Apart(n, B, D), NEW s \in Stages, n[s] # <<>>,
           NEW m, m = Put(n, s, Tail(n[s]))
    PROVE  /\ Apart(m, B, D)
           /\ Head(n[s]) \in Reqs \ Everywhere(m, B, D)
           /\ Everywhere(n, B, D) = Everywhere(m, B, D) \cup {Head(n[s])}
<1> DEFINE h == Head(n[s])
<1>1. n[s] \in Seq(Reqs) /\ IsInjective(n[s])
  BY DEF Apart
<1>2. /\ Tail(n[s]) \in Seq(Reqs) /\ h \in Reqs
  BY <1>1
<1>3. /\ IsInjective(Tail(n[s])) /\ h \notin ToSet(Tail(n[s]))
      /\ ToSet(n[s]) = ToSet(Tail(n[s])) \cup {h}
  BY <1>1, InjectiveTail, TailToSet
<1>4. m[s] = Tail(n[s]) /\ \A t \in Stages \ {s} : m[t] = n[t]
  BY DEF Apart, Put
<1>5. m \in [Stages -> Seq(Reqs)]
  BY <1>2 DEF Apart, Put
<1> HIDE DEF h
<1>6. Apart(m, B, D)
  <2>1. ASSUME NEW t \in Stages
        PROVE  IsInjective(m[t]) /\ ToSet(m[t]) \subseteq ToSet(n[t])
    BY <1>3, <1>4 DEF Apart
  <2> QED
    BY <1>5, <2>1 DEF Apart
<1>7. ASSUME NEW t \in Stages PROVE h \notin ToSet(m[t])
  BY <1>3, <1>4 DEF Apart
<1>8. h \notin B \cup D
  BY <1>3 DEF Apart
<1>9. Everywhere(n, B, D) = Everywhere(m, B, D) \cup {h}
  <2>1. ToSet(n[s]) = ToSet(m[s]) \cup {h} /\ \A t \in Stages \ {s} : ToSet(n[t]) = ToSet(m[t])
    BY <1>3, <1>4
  <2> QED
    BY <2>1 DEF Everywhere
<1>10. h \notin Everywhere(m, B, D)
  BY <1>7, <1>8 DEF Everywhere
<1> QED
  BY <1>2, <1>6, <1>9, <1>10 DEF h

LEMMA PutLast ==
    ASSUME NEW n, NEW B, NEW D, Apart(n, B, D), NEW s \in Stages,
           NEW r \in Reqs, r \notin Everywhere(n, B, D),
           NEW m, m = Put(n, s, Append(n[s], r))
    PROVE  Apart(m, B, D) /\ Everywhere(m, B, D) = Everywhere(n, B, D) \cup {r}
<1>1. n[s] \in Seq(Reqs) /\ IsInjective(n[s]) /\ r \notin ToSet(n[s])
  BY DEF Apart, Everywhere
<1>2. Append(n[s], r) \in Seq(Reqs)
  BY <1>1
<1>3. IsInjective(Append(n[s], r)) /\ ToSet(Append(n[s], r)) = ToSet(n[s]) \cup {r}
  BY <1>1, InjectiveAppend, AppendToSet
<1>4. m[s] = Append(n[s], r) /\ \A t \in Stages \ {s} : m[t] = n[t]
  BY DEF Apart, Put
<1>5. m \in [Stages -> Seq(Reqs)]
  BY <1>2 DEF Apart, Put
<1>6. \A t \in Stages : r \notin ToSet(n[t])
  BY DEF Everywhere
<1>7. r \notin B \cup D
  BY DEF Everywhere
<1>8. ToSet(m[s]) = ToSet(n[s]) \cup {r} /\ \A t \in Stages \ {s} : ToSet(m[t]) = ToSet(n[t])
  BY <1>3, <1>4
<1>9. Apart(m, B, D)
  <2>1. \A t \in Stages : IsInjective(m[t])
    BY <1>3, <1>4 DEF Apart
  <2>2. \A t \in Stages : ToSet(m[t]) \cap (B \cup D) = {}
    BY <1>7, <1>8 DEF Apart
  <2>3. ASSUME NEW t \in Stages, NEW u \in Stages \ {t}
        PROVE  ToSet(m[t]) \cap ToSet(m[u]) = {}
    BY <1>6, <1>8 DEF Apart
  <2> QED
    BY <1>5, <2>1, <2>2, <2>3 DEF Apart
<1>10. Everywhere(m, B, D) = Everywhere(n, B, D) \cup {r}
  BY <1>8 DEF Everywhere
<1> QED
  BY <1>9, <1>10

LEMMA HandDown ==
    ASSUME NEW n, NEW B, NEW D, Apart(n, B, D), NEW r \in Reqs, r \notin Everywhere(n, B, D),
           NEW C, NEW E, \/ (C = B \cup {r} /\ E = D)
                         \/ (C = B /\ E = D \cup {r})
    PROVE  Apart(n, C, E) /\ Everywhere(n, C, E) = Everywhere(n, B, D) \cup {r}
<1>1. \A t \in Stages : r \notin ToSet(n[t])
  BY DEF Everywhere
<1>2. r \notin B \cup D
  BY DEF Everywhere
<1>3. Apart(n, C, E)
  BY <1>1, <1>2 DEF Apart
<1>4. Everywhere(n, C, E) = Everywhere(n, B, D) \cup {r}
  BY DEF Everywhere
<1> QED
  BY <1>3, <1>4

LEMMA TakeUp ==
    ASSUME NEW n, NEW B, NEW D, Apart(n, B, D), NEW r \in B, NEW C, C = B \ {r}
    PROVE  /\ Apart(n, C, D) /\ r \in Reqs \ Everywhere(n, C, D)
           /\ Everywhere(n, B, D) = Everywhere(n, C, D) \cup {r}
<1>1. Apart(n, C, D)
  BY DEF Apart
<1>2. r \in Reqs \ Everywhere(n, C, D)
  BY DEF Apart, Everywhere
<1>3. Everywhere(n, B, D) = Everywhere(n, C, D) \cup {r}
  BY DEF Everywhere
<1> QED
  BY <1>1, <1>2, <1>3
----------------------------------------------------------------------------
(* The inductive invariant.                                                *)

Fields ==
    /\ event \in [Stages -> Nat \cup {-1}]
    /\ retry_owed \in BOOLEAN /\ cb \in BOOLEAN
    /\ pc \in Stages \cup {"idle"}
    /\ mst \in [Reqs -> {"idle", "denied", "retrying", "granted"}]

(* The granted requests are the ones that are somewhere, each in one place.*)
Granted == {r \in Reqs : mst[r] = "granted"}

Placed ==
    /\ Apart(Nm(queue), below, dropped)
    /\ Everywhere(Nm(queue), below, dropped) = Granted

(* While a handler runs, the stages it is going to reschedule are left out.*)
Unsettled == IF pc = "idle" THEN {} ELSE Feeds(pc)

EventsArmed == \A s \in Stages \ Unsettled : Armed(queue[s], event[s])

IInv == QueueShape(queue) /\ Fields /\ Placed /\ EventsArmed /\ RetryOwedHeld

Total(Q) == Len(Q["fwd_src"]) + Len(Q["fwd_dst"]) + Len(Q["rev_src"]) + Len(Q["rev_dst"])

LEMMA TotalPositive ==
    ASSUME NEW Q, QueueShape(Q)
    PROVE  Total(Q) \in Nat /\ (Total(Q) > 0 <=> \E s \in Stages : Q[s] # <<>>)
<1>1. \A s \in Stages : Len(Q[s]) \in Nat /\ (Len(Q[s]) = 0 <=> Q[s] = <<>>)
  BY NmType, EmptySeq, LenProperties
<1> DEFINE a == Len(Q["fwd_src"])  b == Len(Q["fwd_dst"])
           c == Len(Q["rev_src"])  d == Len(Q["rev_dst"])
<1>2. a \in Nat /\ b \in Nat /\ c \in Nat /\ d \in Nat
  BY <1>1 DEF Stages
<1>3. (\E s \in Stages : Q[s] # <<>>) <=> a # 0 \/ b # 0 \/ c # 0 \/ d # 0
  BY <1>1 DEF Stages
<1> HIDE DEF a, b, c, d
<1>4. a + b + c + d \in Nat /\ (a + b + c + d > 0 <=> a # 0 \/ b # 0 \/ c # 0 \/ d # 0)
  BY <1>2
<1> QED
  BY <1>3, <1>4 DEF Total, a, b, c, d

LEMMA InFlight == in_flight = Total(queue) /\ in_flight' = Total(queue')
BY DEF in_flight, Total

LEMMA InitIInv == Init => IInv
<1> SUFFICES ASSUME Init PROVE IInv
  OBVIOUS
<1> DEFINE n == [s \in Stages |-> <<>>]
<1>1. QueueShape(queue) /\ Nm(queue) = n
  BY QueueEmpty DEF Init
<1>2. Fields
  BY DEF Init, Fields
<1>3. Apart(n, {}, {})
  <2>1. ToSet(<<>>) = {} /\ IsInjective(<<>>) /\ <<>> \in Seq(Reqs)
    BY InjectiveEmpty DEF ToSet
  <2> QED
    BY <2>1 DEF Apart
<1>4. Everywhere(n, {}, {}) = {}
  BY DEF Everywhere, ToSet
<1>5. Placed
  BY <1>1, <1>3, <1>4 DEF Init, Placed, Granted
<1>6. EventsArmed
  BY DEF Init, EventsArmed, Armed
<1>7. RetryOwedHeld
  BY DEF Init, RetryOwedHeld
<1> QED
  BY <1>1, <1>2, <1>5, <1>6, <1>7 DEF IInv

(* in_req_handler denies: the bridge is full, so something is in flight.   *)
LEMMA DenyKeeps ==
    ASSUME IInv, NEW r \in Reqs, mst[r] # "granted", Deny(r), UNCHANGED <<pc, cb, below, dropped>>
    PROVE  IInv'
<1> USE DEF IInv
<1>1. QueueShape(queue)' /\ EventsArmed'
  BY DEF Deny, EventsArmed, Unsettled
<1>2. Fields'
  BY DEF Deny, Fields
<1>3. Granted' = Granted
  BY DEF Deny, Granted, Fields
<1>4. Placed'
  BY <1>3 DEF Deny, Placed
<1>5. in_flight' > 0 /\ retry_owed'
  BY InFlight, TotalPositive, BridgeAssumption DEF Deny, DepthGate
<1> QED
  BY <1>1, <1>2, <1>4, <1>5 DEF RetryOwedHeld

(* in_req_handler grants: the request enters fwd_src and arms its event.   *)
LEMMA GrantKeeps ==
    ASSUME IInv, NEW r \in Reqs, mst[r] # "granted", Grant(r), UNCHANGED <<pc, cb, below, dropped>>
    PROVE  IInv' /\ Nm(queue') = Put(Nm(queue), "fwd_src", Append(Nm(queue)["fwd_src"], r))
<1> USE DEF IInv
<1> DEFINE q == enqueue_in(queue["fwd_src"], r, k_src_per_dir)
<1>1. "fwd_src" \in Stages /\ k_src_per_dir \in Nat
  BY BridgeAssumption DEF Stages
<1>2. /\ queue' = Put(queue, "fwd_src", q)
      /\ event' = [event EXCEPT !["fwd_src"] = reschedule_event(q)]
      /\ mst' = [mst EXCEPT ![r] = "granted"]
      /\ UNCHANGED retry_owed
  BY DEF Grant, Put
<1>3. /\ QueueShape(queue')
      /\ Nm(queue') = Put(Nm(queue), "fwd_src", Append(Nm(queue)["fwd_src"], r))
  BY <1>1, <1>2, QueueEnqueue
<1>4. q \in Seq(Txn)
  BY <1>1, NmType, Enqueue
<1> HIDE DEF q
<1>5. reschedule_event(q) \in Nat \cup {-1} /\ Armed(q, reschedule_event(q))
  BY <1>4, Rescheduling
<1>6. Fields'
  BY <1>2, <1>5 DEF Fields
<1>7. Granted' = Granted \cup {r}
  BY <1>2 DEF Granted, Fields
<1>8. r \notin Everywhere(Nm(queue), below, dropped)
  BY DEF Placed, Granted
<1>9. /\ Apart(Nm(queue'), below, dropped)
      /\ Everywhere(Nm(queue'), below, dropped) = Everywhere(Nm(queue), below, dropped) \cup {r}
  BY <1>1, <1>3, <1>8, PutLast DEF Placed
<1>10. Placed'
  BY <1>7, <1>9 DEF Placed
<1>11. EventsArmed'
  <2>1. Unsettled' = Unsettled
    BY DEF Unsettled
  <2>2. ASSUME NEW s \in Stages \ Unsettled PROVE Armed(queue'[s], event'[s])
    <3>1. CASE s = "fwd_src"
      <4>1. queue'[s] = q /\ event'[s] = reschedule_event(q)
        BY <1>1, <1>2, <3>1 DEF QueueShape, Fields, Put
      <4> QED
        BY <4>1, <1>5
    <3>2. CASE s # "fwd_src"
      <4>1. queue'[s] = queue[s] /\ event'[s] = event[s]
        BY <1>2, <3>2 DEF QueueShape, Fields, Put
      <4> QED
        BY <4>1 DEF EventsArmed
    <3> QED
      BY <3>1, <3>2
  <2> QED
    BY <2>1, <2>2 DEF EventsArmed
<1>12. RetryOwedHeld'
  <2>1. queue'["fwd_src"] # <<>>
    <3>1. Len(q) = Len(queue["fwd_src"]) + 1 /\ Len(queue["fwd_src"]) \in Nat
      BY <1>1, NmType, Enqueue, LenProperties DEF q
    <3>2. queue'["fwd_src"] = q
      BY <1>1, <1>2 DEF QueueShape, Put
    <3> QED
      BY <3>1, <3>2, <1>4, EmptySeq
  <2>2. in_flight' > 0
    BY <2>1, <1>1, <1>3, InFlight, TotalPositive
  <2>3. (\E x \in Reqs : mst'[x] = "denied") => \E x \in Reqs : mst[x] = "denied"
    BY <1>2 DEF Fields
  <2> QED
    BY <2>2, <2>3, <1>2 DEF RetryOwedHeld
<1> QED
  BY <1>3, <1>6, <1>10, <1>11, <1>12

LEMMA MasterKeeps ==
    ASSUME IInv, NEW r \in Reqs, MasterSend(r) \/ MasterResend(r)
    PROVE  IInv'
<1>1. mst[r] # "granted" /\ (Deny(r) \/ Grant(r)) /\ UNCHANGED <<pc, cb, below, dropped>>
  BY DEF MasterSend, MasterResend, in_req_handler
<1> QED
  BY <1>1, DenyKeeps, GrantKeeps
(* A step that leaves the queues, the slave and who is granted alone.      *)
LEMMA SamePlaces ==
    ASSUME IInv, UNCHANGED <<queue, below, dropped>>, Granted' = Granted
    PROVE  QueueShape(queue') /\ Placed' /\ in_flight' = in_flight
BY InFlight DEF IInv, Placed

LEMMA CallbackReturnsKeeps == IInv /\ CallbackReturns => IInv'
<1> SUFFICES ASSUME IInv, CallbackReturns PROVE IInv'
  OBVIOUS
<1> USE DEF IInv, CallbackReturns
<1>1. Granted' = Granted
  BY DEF Granted
<1>2. Fields' /\ EventsArmed'
  BY DEF Fields, EventsArmed, Unsettled
<1>3. QueueShape(queue') /\ Placed' /\ in_flight' = in_flight
  BY <1>1, SamePlaces
<1> QED
  BY <1>2, <1>3 DEF RetryOwedHeld

LEMMA FeedsKnown ==
    ASSUME NEW s \in Stages PROVE s \in Feeds(s) /\ Feeds(s) \subseteq Stages
BY DEF Stages, Feeds

LEMMA HandlerStartsKeeps ==
    ASSUME IInv, NEW s \in Stages, HandlerStarts(s) PROVE IInv'
<1> USE DEF IInv, HandlerStarts
<1>1. Granted' = Granted
  BY DEF Granted
<1>2. QueueShape(queue') /\ Placed' /\ in_flight' = in_flight
  BY <1>1, SamePlaces
<1>3. Fields'
  BY DEF Fields
<1>4. EventsArmed'
  <2>1. "idle" \notin Stages
    BY DEF Stages
  <2>2. Unsettled = {} /\ Unsettled' = Feeds(s)
    BY <2>1 DEF Unsettled, Quiet
  <2>3. \A t \in Stages \ Feeds(s) : event'[t] = event[t]
    BY FeedsKnown DEF Fields
  <2> QED
    BY <2>2, <2>3 DEF EventsArmed
<1>5. RetryOwedHeld'
  BY <1>2 DEF RetryOwedHeld, Quiet
<1> QED
  BY <1>2, <1>3, <1>4, <1>5

(* The events a handler reschedules at its end are armed again.            *)
LEMMA RescheduledArms ==
    ASSUME IInv, NEW s \in Stages, pc = s, UNCHANGED queue, pc' = "idle",
           event' = Rescheduled(Feeds(s))
    PROVE  EventsArmed' /\ event' \in [Stages -> Nat \cup {-1}]
<1> USE DEF IInv
<1>1. \A t \in Stages : queue[t] \in Seq(Txn)
  BY NmType
<1>2. \A t \in Stages : /\ Armed(queue[t], reschedule_event(queue[t]))
                        /\ reschedule_event(queue[t]) \in Nat \cup {-1}
  BY <1>1, Rescheduling
<1>3. event' \in [Stages -> Nat \cup {-1}]
  BY <1>2 DEF Rescheduled, Fields
<1>4. "idle" \notin Stages
  BY DEF Stages
<1>5. Unsettled = Feeds(s) /\ Unsettled' = {}
  BY <1>4 DEF Unsettled
<1>6. ASSUME NEW t \in Stages PROVE Armed(queue'[t], event'[t])
  <2>1. CASE t \in Feeds(s)
    BY <2>1, <1>2 DEF Rescheduled
  <2>2. CASE t \notin Feeds(s)
    BY <2>2, <1>5 DEF Rescheduled, EventsArmed
  <2> QED
    BY <2>1, <2>2
<1> QED
  BY <1>3, <1>5, <1>6 DEF EventsArmed

LEMMA HandlerEndsKeeps ==
    ASSUME IInv, NEW s \in Stages, HandlerEnds(s) PROVE IInv'
<1> USE DEF IInv, HandlerEnds
<1>1. Granted' = Granted
  BY DEF Granted
<1>2. QueueShape(queue') /\ Placed' /\ in_flight' = in_flight
  BY <1>1, SamePlaces
<1>3. EventsArmed' /\ event' \in [Stages -> Nat \cup {-1}]
  BY RescheduledArms
<1>4. Fields'
  BY <1>3 DEF Fields
<1>5. RetryOwedHeld'
  BY <1>2 DEF RetryOwedHeld
<1> QED
  BY <1>2, <1>3, <1>4, <1>5

(* The handler of rev_dst ends with the retry() it owes, or the bridge is  *)
(* still full: something is left that will end there again.                *)
LEMMA RevDstEndsKeeps == IInv /\ RevDstEnds => IInv'
<1> SUFFICES ASSUME IInv, RevDstEnds PROVE IInv'
  OBVIOUS
<1> USE DEF IInv
<1>0. /\ pc = "rev_dst" /\ pc' = "idle" /\ event' = Rescheduled(Feeds("rev_dst"))
      /\ UNCHANGED <<queue, below, dropped>> /\ "rev_dst" \in Stages
  BY DEF RevDstEnds, Stages
<1>1. EventsArmed' /\ event' \in [Stages -> Nat \cup {-1}]
  BY <1>0, RescheduledArms
<1>2. CASE RetryDue
  <2>1. /\ retry_owed' = FALSE /\ cb' = TRUE
        /\ mst' = [r \in Reqs |-> IF mst[r] = "denied" THEN "retrying" ELSE mst[r]]
    BY <1>2 DEF RevDstEnds
  <2>2. Granted' = Granted
    BY <2>1 DEF Granted
  <2>3. QueueShape(queue') /\ Placed'
    BY <1>0, <2>2, SamePlaces
  <2>4. Fields'
    BY <1>0, <1>1, <2>1 DEF Fields
  <2>5. RetryOwedHeld'
    BY <2>1 DEF RetryOwedHeld
  <2> QED
    BY <1>1, <2>3, <2>4, <2>5
<1>3. CASE ~RetryDue
  <2>1. UNCHANGED <<retry_owed, mst, cb>>
    BY <1>3 DEF RevDstEnds
  <2>2. Granted' = Granted
    BY <2>1 DEF Granted
  <2>3. QueueShape(queue') /\ Placed' /\ in_flight' = in_flight
    BY <1>0, <2>2, SamePlaces
  <2>4. Fields'
    BY <1>0, <1>1, <2>1 DEF Fields
  <2>5. ~retry_owed \/ in_flight > 0
    BY <1>3, BridgeAssumption, InFlight, TotalPositive DEF RetryDue, DepthGate
  <2>6. RetryOwedHeld'
    BY <2>1, <2>3, <2>5 DEF RetryOwedHeld
  <2> QED
    BY <1>1, <2>3, <2>4, <2>6
<1> QED
  BY <1>2, <1>3

(* A handler that moves the head of its stage to the stage it feeds.       *)
LEMMA MoveKeeps ==
    ASSUME IInv, NEW s \in Stages, NEW t \in Stages, s # t, t \in Feeds(s),
           NEW k \in Nat, Popping(s), Move(s, t, k),
           UNCHANGED <<event, retry_owed, pc, cb, mst, below, dropped>>
    PROVE  /\ IInv'
           /\ Nm(queue)[s] # <<>> /\ Head(Nm(queue)[s]) = queue[s][1].req
           /\ Nm(queue') = Put(Put(Nm(queue), s, Tail(Nm(queue)[s])), t,
                               Append(Nm(queue)[t], Head(Nm(queue)[s])))
<1> USE DEF IInv
<1> DEFINE n == Nm(queue)
           m == Put(n, s, Tail(n[s]))
           h == Head(n[s])
<1>1. queue[s] # <<>> /\ pc = s
  BY DEF Popping, HeadDue
<1>2. /\ QueueShape(queue') /\ Nm(queue') = Put(m, t, Append(n[t], h))
      /\ n[s] # <<>> /\ h = queue[s][1].req /\ h \in Reqs
  <2>1. queue' = Moved(queue, s, t, k)
    BY DEF Move, Moved
  <2> QED
    BY <1>1, <2>1, QueueMove
<1>3. n \in [Stages -> Seq(Reqs)]
  BY NmType
<1>4. m[t] = n[t]
  BY <1>3 DEF Put
<1> HIDE DEF n
<1>5. /\ Apart(m, below, dropped) /\ h \in Reqs \ Everywhere(m, below, dropped)
      /\ Everywhere(n, below, dropped) = Everywhere(m, below, dropped) \cup {h}
  BY <1>2, TakeHead DEF Placed, n
<1> HIDE DEF m, h
<1>6. /\ Apart(Nm(queue'), below, dropped)
      /\ Everywhere(Nm(queue'), below, dropped) = Everywhere(m, below, dropped) \cup {h}
  <2>1. Nm(queue') = Put(m, t, Append(m[t], h))
    BY <1>2, <1>4
  <2> QED
    BY <2>1, <1>5, PutLast
<1>7. Placed'
  BY <1>5, <1>6 DEF Placed, Granted, n
<1>8. Fields'
  BY DEF Fields
<1>9. EventsArmed'
  <2>1. "idle" \notin Stages
    BY DEF Stages
  <2>2. Unsettled = Feeds(s) /\ Unsettled' = Feeds(s)
    BY <1>1, <2>1 DEF Unsettled
  <2>3. \A u \in Stages \ Feeds(s) : queue'[u] = queue[u]
    BY FeedsKnown DEF Move, QueueShape
  <2> QED
    BY <2>2, <2>3 DEF EventsArmed
<1>10. in_flight' > 0
  <2>1. queue'[t] # <<>>
    <3>1. queue'[t] = enqueue_in(queue[t], queue[s][1].req, k)
      BY DEF Move, QueueShape
    <3>2. queue[t] \in Seq(Txn) /\ Spaced(queue[t]) /\ queue[s][1].req \in Reqs
      BY <1>2, NmType
    <3>3. queue'[t] \in Seq(Txn) /\ Len(queue'[t]) = Len(queue[t]) + 1
      BY <3>1, <3>2, Enqueue
    <3>4. Len(queue[t]) \in Nat
      BY <3>2, LenProperties
    <3> QED
      BY <3>3, <3>4, EmptySeq
  <2> QED
    BY <2>1, <1>2, InFlight, TotalPositive
<1>11. RetryOwedHeld'
  BY <1>10 DEF RetryOwedHeld
<1> QED
  BY <1>2, <1>7, <1>8, <1>9, <1>11 DEF n, m, h
(* A handler that takes the head of its stage out of the queues.           *)
LEMMA PopShape ==
    ASSUME IInv, NEW s \in Stages, Popping(s), queue' = [queue EXCEPT ![s] = Tail(@)],
           UNCHANGED <<event, pc>>
    PROVE  /\ QueueShape(queue') /\ Nm(queue') = Put(Nm(queue), s, Tail(Nm(queue)[s]))
           /\ Nm(queue)[s] # <<>> /\ Head(Nm(queue)[s]) = queue[s][1].req
           /\ queue[s][1].req \in Granted \ Everywhere(Nm(queue'), below, dropped)
           /\ Apart(Nm(queue'), below, dropped)
           /\ Granted = Everywhere(Nm(queue'), below, dropped) \cup {queue[s][1].req}
           /\ EventsArmed'
<1> USE DEF IInv
<1> DEFINE n == Nm(queue)
           m == Nm(queue')
           h == queue[s][1].req
<1>1. queue[s] # <<>> /\ pc = s
  BY DEF Popping, HeadDue
<1>2. queue' = Put(queue, s, Tail(queue[s]))
  BY DEF Put
<1>3. /\ QueueShape(queue') /\ m = Put(n, s, Tail(n[s]))
      /\ n[s] # <<>> /\ Head(n[s]) = h
  BY <1>1, <1>2, QueuePop
<1> HIDE DEF n, m, h
<1>4. /\ Apart(m, below, dropped) /\ h \in Reqs \ Everywhere(m, below, dropped)
      /\ Everywhere(n, below, dropped) = Everywhere(m, below, dropped) \cup {h}
  <2>1. Apart(n, below, dropped)
    BY DEF Placed, n
  <2> QED
    BY <2>1, <1>3, TakeHead
<1>5. Everywhere(n, below, dropped) = Granted
  BY DEF Placed, n
<1>6. EventsArmed'
  <2>1. "idle" \notin Stages
    BY DEF Stages
  <2>2. Unsettled = Feeds(s) /\ Unsettled' = Feeds(s)
    BY <1>1, <2>1 DEF Unsettled
  <2>3. \A u \in Stages \ Feeds(s) : queue'[u] = queue[u] /\ event'[u] = event[u]
    BY FeedsKnown DEF QueueShape
  <2> QED
    BY <2>2, <2>3 DEF EventsArmed
<1> QED
  BY <1>3, <1>4, <1>5, <1>6 DEF n, m, h

(* The slave grants the request, or denies it, which the bridge does not   *)
(* look at.                                                                *)
LEMMA DownKeeps ==
    ASSUME IInv, Popping("fwd_dst"), NEW r, r = queue["fwd_dst"][1].req,
           SlaveGranted(r) \/ SlaveDenied(r), UNCHANGED <<event, retry_owed, pc, cb, mst>>
    PROVE  /\ IInv'
           /\ Nm(queue)["fwd_dst"] # <<>>
           /\ Nm(queue') = Put(Nm(queue), "fwd_dst", Tail(Nm(queue)["fwd_dst"]))
<1> USE DEF IInv
<1>0. "fwd_dst" \in Stages
  BY DEF Stages
<1>1. queue' = [queue EXCEPT !["fwd_dst"] = Tail(@)]
  BY DEF SlaveGranted, SlaveDenied
<1> DEFINE m == Nm(queue')
<1>2. /\ QueueShape(queue') /\ m = Put(Nm(queue), "fwd_dst", Tail(Nm(queue)["fwd_dst"]))
      /\ Nm(queue)["fwd_dst"] # <<>>
      /\ r \in Granted \ Everywhere(m, below, dropped)
      /\ Apart(m, below, dropped)
      /\ Granted = Everywhere(m, below, dropped) \cup {r}
      /\ EventsArmed'
  BY <1>0, <1>1, PopShape
<1>3. Granted' = Granted /\ r \in Reqs
  BY <1>2 DEF Granted
<1> HIDE DEF m
<1>4. \/ (below' = below \cup {r} /\ dropped' = dropped)
      \/ (below' = below /\ dropped' = dropped \cup {r})
  BY DEF SlaveGranted, SlaveDenied
<1>5. Apart(m, below', dropped') /\ Everywhere(m, below', dropped') = Granted
  <2>1. Apart(m, below, dropped) /\ r \in Reqs /\ r \notin Everywhere(m, below, dropped)
    BY <1>2, <1>3
  <2>2. /\ Apart(m, below', dropped')
        /\ Everywhere(m, below', dropped') = Everywhere(m, below, dropped) \cup {r}
    BY <1>4, <2>1, HandDown
  <2> QED
    BY <1>2, <2>2
<1>6. Placed'
  BY <1>3, <1>5 DEF Placed, m
<1>7. Fields'
  BY DEF Fields
<1>8. RetryOwedHeld'
  BY <1>4 DEF RetryOwedHeld
<1> QED
  BY <1>2, <1>6, <1>7, <1>8 DEF m

LEMMA RevDstKeeps ==
    ASSUME IInv, rev_dst_done_handler
    PROVE  /\ IInv'
           /\ Nm(queue') = Put(Nm(queue), "rev_dst", Tail(Nm(queue)["rev_dst"]))
           /\ queue["rev_dst"][1].req \in Granted \ Everywhere(Nm(queue'), below, dropped)
           /\ mst' = [mst EXCEPT ![queue["rev_dst"][1].req] = "idle"]
<1> USE DEF IInv
<1> DEFINE r == queue["rev_dst"][1].req
           m == Nm(queue')
<1>0. "rev_dst" \in Stages /\ Popping("rev_dst")
  BY DEF Stages, rev_dst_done_handler
<1>1. /\ queue' = [queue EXCEPT !["rev_dst"] = Tail(@)] /\ cb' = TRUE
      /\ mst' = [mst EXCEPT ![r] = IF @ = "granted" THEN "idle" ELSE "spurious"]
      /\ UNCHANGED <<event, retry_owed, pc, below, dropped>>
  BY DEF rev_dst_done_handler
<1>2. /\ QueueShape(queue') /\ m = Put(Nm(queue), "rev_dst", Tail(Nm(queue)["rev_dst"]))
      /\ r \in Granted \ Everywhere(m, below, dropped)
      /\ Apart(m, below, dropped)
      /\ Granted = Everywhere(m, below, dropped) \cup {r}
      /\ EventsArmed'
  BY <1>0, <1>1, PopShape
<1> HIDE DEF m, r
<1>3. mst' = [mst EXCEPT ![r] = "idle"] /\ r \in Reqs
  BY <1>1, <1>2 DEF Granted
<1>4. Granted' = Granted \ {r}
  BY <1>3 DEF Granted, Fields
<1>5. Placed'
  BY <1>1, <1>2, <1>4 DEF Placed, m
<1>6. Fields'
  BY <1>1, <1>3 DEF Fields
<1>7. RetryOwedHeld'
  <2>1. pc' = "rev_dst"
    BY <1>0, <1>1 DEF Popping
  <2>2. (\E x \in Reqs : mst'[x] = "denied") => \E x \in Reqs : mst[x] = "denied"
    BY <1>3 DEF Fields
  <2> QED
    BY <1>1, <2>1, <2>2 DEF RetryOwedHeld
<1> QED
  BY <1>2, <1>3, <1>5, <1>6, <1>7 DEF m, r

LEMMA OutRespKeeps ==
    ASSUME IInv, NEW r \in Reqs, out_resp_handler(r)
    PROVE  IInv' /\ Nm(queue') = Put(Nm(queue), "rev_src", Append(Nm(queue)["rev_src"], r))
<1> USE DEF IInv
<1> DEFINE q == enqueue_in(queue["rev_src"], r, k_src_per_dir)
<1>1. "rev_src" \in Stages /\ k_src_per_dir \in Nat
  BY BridgeAssumption DEF Stages
<1>2. /\ queue' = Put(queue, "rev_src", q)
      /\ event' = [event EXCEPT !["rev_src"] = reschedule_event(q)]
      /\ r \in below /\ below' = below \ {r}
      /\ UNCHANGED <<retry_owed, pc, cb, mst, dropped>>
  BY DEF out_resp_handler, Put
<1>3. /\ QueueShape(queue')
      /\ Nm(queue') = Put(Nm(queue), "rev_src", Append(Nm(queue)["rev_src"], r))
  BY <1>1, <1>2, QueueEnqueue
<1>4. q \in Seq(Txn) /\ q # <<>>
  <2>1. queue["rev_src"] \in Seq(Txn) /\ Spaced(queue["rev_src"])
    BY <1>1, NmType
  <2>2. q \in Seq(Txn) /\ Len(q) = Len(queue["rev_src"]) + 1 /\ Len(queue["rev_src"]) \in Nat
    BY <1>1, <2>1, Enqueue, LenProperties
  <2> QED
    BY <2>2, EmptySeq
<1> HIDE DEF q
<1>5. reschedule_event(q) \in Nat \cup {-1} /\ Armed(q, reschedule_event(q))
  BY <1>4, Rescheduling
<1>6. Fields'
  BY <1>2, <1>5 DEF Fields
<1> DEFINE n == Nm(queue)
<1>7. /\ Apart(n, below', dropped) /\ r \notin Everywhere(n, below', dropped)
      /\ Everywhere(n, below, dropped) = Everywhere(n, below', dropped) \cup {r}
  <2>1. Apart(n, below, dropped) /\ r \in below
    BY <1>2 DEF Placed
  <2> HIDE DEF n
  <2> QED
    BY <1>2, <2>1, TakeUp
<1>8. /\ Apart(Nm(queue'), below', dropped)
      /\ Everywhere(Nm(queue'), below', dropped) = Everywhere(n, below', dropped) \cup {r}
  BY <1>1, <1>3, <1>7, PutLast
<1>9. Placed'
  BY <1>2, <1>7, <1>8 DEF Placed, Granted
<1>10. EventsArmed'
  <2>1. Unsettled' = Unsettled
    BY <1>2 DEF Unsettled
  <2>2. ASSUME NEW s \in Stages \ Unsettled PROVE Armed(queue'[s], event'[s])
    <3>1. CASE s = "rev_src"
      <4>1. queue'[s] = q /\ event'[s] = reschedule_event(q)
        BY <1>1, <1>2, <3>1 DEF QueueShape, Fields, Put
      <4> QED
        BY <4>1, <1>5
    <3>2. CASE s # "rev_src"
      <4>1. queue'[s] = queue[s] /\ event'[s] = event[s]
        BY <1>2, <3>2 DEF QueueShape, Fields, Put
      <4> QED
        BY <4>1 DEF EventsArmed
    <3> QED
      BY <3>1, <3>2
  <2> QED
    BY <2>1, <2>2 DEF EventsArmed
<1>11. RetryOwedHeld'
  <2>1. queue'["rev_src"] # <<>>
    BY <1>1, <1>2, <1>4 DEF QueueShape, Put
  <2>2. in_flight' > 0
    BY <2>1, <1>1, <1>3, InFlight, TotalPositive
  <2> QED
    BY <2>2, <1>2 DEF RetryOwedHeld
<1> QED
  BY <1>3, <1>6, <1>9, <1>10, <1>11

(* A cycle of one engine.                                                  *)
LEMMA TickKeeps ==
    ASSUME IInv, NEW S \in SUBSET Stages, Tick(S)
    PROVE  IInv' /\ Nm(queue') = Nm(queue)
<1> USE DEF IInv
<1>1. /\ queue' = [s \in Stages |-> IF s \in S THEN Aged(queue[s]) ELSE queue[s]]
      /\ event' = [s \in Stages |-> IF s \in S /\ event[s] > 0 THEN event[s] - 1 ELSE event[s]]
      /\ pc = "idle" /\ \A s \in S : event[s] # 0
      /\ UNCHANGED <<retry_owed, pc, cb, mst, below, dropped>>
  BY DEF Tick, Elapsed, Aged, Quiet
<1>2. QueueShape(queue') /\ Nm(queue') = Nm(queue)
  BY <1>1, QueueAged
<1>3. Fields'
  <2>1. event' \in [Stages -> Nat \cup {-1}]
    BY <1>1 DEF Fields
  <2> QED
    BY <1>1, <2>1 DEF Fields
<1>4. Placed'
  BY <1>1, <1>2 DEF Placed, Granted
<1>5. EventsArmed'
  <2> SUFFICES ASSUME NEW s \in Stages PROVE Armed(queue'[s], event'[s])
    BY DEF EventsArmed
  <2>1. /\ queue[s] \in Seq(Txn) /\ Spaced(queue[s]) /\ event[s] \in Nat \cup {-1}
        /\ Armed(queue[s], event[s])
    BY <1>1, NmType DEF Fields, EventsArmed, Unsettled
  <2>2. CASE s \in S
    <3>1. event[s] # 0 /\ queue'[s] = Aged(queue[s])
          /\ event'[s] = IF event[s] > 0 THEN event[s] - 1 ELSE event[s]
      BY <1>1, <2>2
    <3>2. Armed(Aged(queue[s]), IF event[s] > 0 THEN event[s] - 1 ELSE event[s])
      BY <2>1, <3>1, ArmedAged
    <3> QED
      BY <3>1, <3>2
  <2>3. CASE s \notin S
    BY <1>1, <2>1, <2>3
  <2> QED
    BY <2>2, <2>3
<1>6. in_flight' > 0 <=> in_flight > 0
  <2>1. ASSUME NEW s \in Stages PROVE queue'[s] = <<>> <=> queue[s] = <<>>
    <3>1. queue[s] \in Seq(Txn) /\ Spaced(queue[s])
      BY NmType
    <3>2. Aged(queue[s]) \in Seq(Txn) /\ Len(Aged(queue[s])) = Len(queue[s])
      BY <3>1, Ageing
    <3>3. Aged(queue[s]) = <<>> <=> queue[s] = <<>>
      BY <3>1, <3>2, EmptySeq
    <3> QED
      BY <1>1, <3>3
  <2> QED
    BY <1>2, <2>1, InFlight, TotalPositive
<1>7. RetryOwedHeld'
  BY <1>1, <1>6 DEF RetryOwedHeld
<1> QED
  BY <1>2, <1>3, <1>4, <1>5, <1>7

LEMMA ResetKeeps ==
    ASSUME IInv, reset
    PROVE  IInv' /\ Nm(queue') = [s \in Stages |-> <<>>]
<1> DEFINE n == [s \in Stages |-> <<>>]
<1>1. QueueShape(queue') /\ Nm(queue') = n
  BY QueueEmpty DEF reset
<1>2. Fields'
  BY DEF reset, Fields, IInv
<1>3. Apart(n, {}, {})
  <2>1. ToSet(<<>>) = {} /\ IsInjective(<<>>) /\ <<>> \in Seq(Reqs)
    BY InjectiveEmpty DEF ToSet
  <2> QED
    BY <2>1 DEF Apart
<1>4. Everywhere(n, {}, {}) = {}
  BY DEF Everywhere, ToSet
<1>5. Placed'
  BY <1>1, <1>3, <1>4 DEF reset, Placed, Granted
<1>6. EventsArmed'
  BY DEF reset, EventsArmed, Armed
<1>7. RetryOwedHeld'
  BY DEF reset, RetryOwedHeld
<1> QED
  BY <1>1, <1>2, <1>5, <1>6, <1>7 DEF IInv

LEMMA ForwardStage ==
    /\ "fwd_src" \in Stages /\ "fwd_dst" \in Stages /\ "rev_src" \in Stages /\ "rev_dst" \in Stages
    /\ "fwd_dst" \in Feeds("fwd_src") /\ "rev_src" \in Feeds("fwd_dst")
    /\ "rev_dst" \in Feeds("rev_src")
    /\ k_src_per_dir \in Nat /\ k_dst_per_dir \in Nat
    /\ MasterStages \subseteq Stages /\ SlaveStages \subseteq Stages
BY BridgeAssumption DEF Stages, Feeds, MasterStages, SlaveStages

LEMMA IInvKept == IInv /\ [Next]_vars => IInv'
<1> SUFFICES ASSUME IInv, [Next]_vars PROVE IInv'
  OBVIOUS
<1>1. ASSUME NEW r \in Reqs, MasterSend(r) \/ MasterResend(r) PROVE IInv'
  BY <1>1, MasterKeeps
<1>2. ASSUME NEW r \in Reqs, out_resp_handler(r) PROVE IInv'
  BY <1>2, OutRespKeeps
<1>3. ASSUME NEW s \in Stages, HandlerStarts(s) \/ HandlerEnds(s) PROVE IInv'
  BY <1>3, HandlerStartsKeeps, HandlerEndsKeeps
<1>4. CASE fwd_src_done_handler
  BY <1>4, ForwardStage, MoveKeeps DEF fwd_src_done_handler
<1>5. CASE fwd_dst_done_handler
  BY <1>5, ForwardStage, MoveKeeps, DownKeeps DEF fwd_dst_done_handler, SlaveDone
<1>6. CASE rev_src_done_handler
  BY <1>6, ForwardStage, MoveKeeps DEF rev_src_done_handler
<1>7. CASE rev_dst_done_handler
  BY <1>7, RevDstKeeps
<1>8. CASE RevDstEnds \/ CallbackReturns
  BY <1>8, RevDstEndsKeeps, CallbackReturnsKeeps
<1>9. CASE MasterTick \/ SlaveTick
  BY <1>9, ForwardStage, TickKeeps DEF MasterTick, SlaveTick
<1>10. CASE reset
  BY <1>10, ResetKeeps
<1>11. CASE UNCHANGED vars
  BY <1>11 DEF vars, IInv, Fields, Placed, Granted, EventsArmed, Unsettled, RetryOwedHeld, in_flight
<1> QED
  BY <1>1, <1>2, <1>3, <1>4, <1>5, <1>6, <1>7, <1>8, <1>9, <1>10, <1>11 DEF Next, Handlers

LEMMA IInvAlways == Spec => []IInv
BY InitIInv, IInvKept, PTL DEF Spec
----------------------------------------------------------------------------
(* Inv follows from the inductive invariant.                               *)

Places(r) ==
    UNION {{<<s, i>> : i \in {j \in DOMAIN queue[s] : queue[s][j].req = r}} : s \in Stages}

LEMMA StageOf ==
    ASSUME NEW Q, QueueShape(Q), NEW s \in Stages, NEW r
    PROVE  /\ DOMAIN Q[s] = 1 .. Len(Q[s])
           /\ r \in ToSet(Nm(Q)[s]) <=> \E i \in 1 .. Len(Q[s]) : Q[s][i].req = r
<1>1. Q[s] \in Seq(Txn) /\ Nm(Q)[s] = Names(Q[s])
  BY NmType
<1>2. /\ Names(Q[s]) \in Seq(Reqs) /\ Len(Names(Q[s])) = Len(Q[s])
      /\ \A i \in 1 .. Len(Q[s]) : Names(Q[s])[i] = Q[s][i].req
  BY <1>1, NamesSeq
<1>3. r \in ToSet(Names(Q[s])) <=> \E i \in 1 .. Len(Q[s]) : Names(Q[s])[i] = r
  BY <1>2, InToSet
<1> QED
  BY <1>1, <1>2, <1>3, LenProperties

LEMMA StageNow ==
    ASSUME QueueShape(queue), NEW s \in Stages, NEW r
    PROVE  /\ DOMAIN queue[s] = 1 .. Len(queue[s])
           /\ r \in ToSet(Nm(queue)[s]) <=> \E i \in 1 .. Len(queue[s]) : queue[s][i].req = r
BY StageOf

LEMMA OnePlace ==
    ASSUME IInv, NEW r \in Reqs, NEW s \in Stages, r \in ToSet(Nm(queue)[s])
    PROVE  Cardinality(Places(r)) = 1 /\ r \notin below /\ r \notin dropped
<1> USE DEF IInv
<1>1. PICK i \in 1 .. Len(queue[s]) : queue[s][i].req = r
  BY StageNow
<1>2. ASSUME NEW t \in Stages, NEW j \in 1 .. Len(queue[t]), queue[t][j].req = r
      PROVE  t = s /\ j = i
  <2>1. r \in ToSet(Nm(queue)[t])
    BY <1>2, StageNow
  <2>2. t = s
    BY <2>1 DEF Placed, Apart
  <2>3. /\ Nm(queue)[s] = Names(queue[s]) /\ Names(queue[s])[i] = r /\ Names(queue[s])[j] = r
        /\ DOMAIN Names(queue[s]) = 1 .. Len(queue[s])
    <3>1. queue[s] \in Seq(Txn) /\ Nm(queue)[s] = Names(queue[s])
      BY NmType
    <3>2. /\ Names(queue[s]) \in Seq(Reqs) /\ Len(Names(queue[s])) = Len(queue[s])
          /\ \A k \in 1 .. Len(queue[s]) : Names(queue[s])[k] = queue[s][k].req
      BY <3>1, NamesSeq
    <3> QED
      BY <3>1, <3>2, <1>1, <1>2, <2>2, LenProperties
  <2>4. i = j
    BY <2>2, <2>3 DEF Placed, Apart, IsInjective
  <2> QED
    BY <2>2, <2>4
<1>3. Places(r) = {<<s, i>>}
  <2>1. \A t \in Stages : DOMAIN queue[t] = 1 .. Len(queue[t])
    BY StageNow
  <2>2. \A p \in Places(r) : p = <<s, i>>
    BY <1>2, <2>1 DEF Places
  <2>3. <<s, i>> \in Places(r)
    BY <1>1, <2>1 DEF Places
  <2> QED
    BY <2>2, <2>3
<1>4. Cardinality({<<s, i>>}) = 1
  BY FS_Singleton
<1> QED
  BY <1>3, <1>4 DEF Placed, Apart

LEMMA IInvImpliesInv == IInv => Inv
<1> SUFFICES ASSUME IInv PROVE Inv
  OBVIOUS
<1> USE DEF IInv
<1>1. TypeOK
  BY DEF TypeOK, QueueShape, Fields, Placed, Apart
<1>2. DeadlinesSpaced
  BY DEF DeadlinesSpaced, QueueShape, Spaced
<1>3. EventArmed
  BY DEF EventArmed, EventsArmed, Unsettled, Armed
<1>4. GrantedHeld
  <2> SUFFICES ASSUME NEW r \in Reqs PROVE Held(r) = IF mst[r] = "granted" THEN 1 ELSE 0
    BY DEF GrantedHeld
  <2>0. Held(r) = Cardinality(Places(r)) + (IF r \in below THEN 1 ELSE 0)
                  + (IF r \in dropped THEN 1 ELSE 0)
    BY DEF Held, Places
  <2>1. mst[r] = "granted" <=> \/ r \in below \/ r \in dropped
                               \/ \E s \in Stages : r \in ToSet(Nm(queue)[s])
    BY DEF Placed, Granted, Everywhere
  <2>2. CASE \E s \in Stages : r \in ToSet(Nm(queue)[s])
    <3>1. Cardinality(Places(r)) = 1 /\ r \notin below /\ r \notin dropped
      BY <2>2, OnePlace
    <3> QED
      BY <2>0, <2>1, <2>2, <3>1
  <2>3. CASE ~ \E s \in Stages : r \in ToSet(Nm(queue)[s])
    <3>1. Places(r) = {}
      <4>1. ASSUME NEW s \in Stages
            PROVE  {<<s, i>> : i \in {j \in DOMAIN queue[s] : queue[s][j].req = r}} = {}
        <5>1. {j \in DOMAIN queue[s] : queue[s][j].req = r} = {}
          BY <2>3, StageNow
        <5> QED
          BY <5>1
      <4> QED
        BY <4>1 DEF Places
    <3>2. Cardinality(Places(r)) = 0
      BY <3>1, FS_EmptySet
    <3>3. ~(r \in below /\ r \in dropped)
      BY DEF Placed, Apart
    <3> QED
      BY <2>0, <2>1, <2>3, <3>2, <3>3
  <2> QED
    BY <2>2, <2>3
<1> QED
  BY <1>1, <1>2, <1>3, <1>4 DEF Inv

(* Each granted request is in one stage or with the slave and nothing else *)
(* is; the deadlines of a stage stay a cycle apart through delays, moves   *)
(* and ticks of either engine; every stage that holds something has its    *)
(* event no later than its head; and a denied master is owed a retry() by  *)
(* a transaction on its way.                                               *)
THEOREM InvHolds == Spec => []Inv
BY IInvAlways, IInvImpliesInv, PTL

----------------------------------------------------------------------------
(* The forward path is a FIFO.                                             *)

Path(n) == n["fwd_dst"] \o n["fwd_src"]

LEMMA ConcatAppend ==
    ASSUME NEW S, NEW s \in Seq(S), NEW t \in Seq(S), NEW e \in S
    PROVE  s \o Append(t, e) = Append(s \o t, e)
OBVIOUS

LEMMA ConcatTail ==
    ASSUME NEW S, NEW s \in Seq(S), NEW t \in Seq(S), s # <<>>
    PROVE  Tail(s) \o t = Tail(s \o t) /\ s \o t # <<>>
OBVIOUS

LEMMA ConcatShift ==
    ASSUME NEW S, NEW s \in Seq(S), NEW t \in Seq(S), t # <<>>
    PROVE  Append(s, Head(t)) \o Tail(t) = s \o t
OBVIOUS
LEMMA PathTypes ==
    ASSUME IInv
    PROVE  /\ Nm(queue)["fwd_dst"] \in Seq(Reqs) /\ Nm(queue)["fwd_src"] \in Seq(Reqs)
           /\ Nm(queue) \in [Stages -> Seq(Reqs)]
BY NmType, ForwardStage DEF IInv

FPath == Names(queue["fwd_dst"]) \o Names(queue["fwd_src"])

LEMMA FPathIs == FPath = Path(Nm(queue)) /\ FPath' = Path(Nm(queue'))
BY ForwardStage DEF FPath, Path, Nm

LEMMA ChannelStep ==
    /\ \A r \in Reqs : FPath' = Append(FPath, r) => Forward!Next
    /\ FPath # <<>> /\ FPath' = Tail(FPath) => Forward!Next
    /\ FPath' = <<>> => Forward!Next
BY DEF FPath, Forward!Next, Forward!Send, Forward!Deliver, Forward!Clear

LEMMA FifoStep == IInv /\ [Next]_vars => [Forward!Next]_FPath
<1> SUFFICES ASSUME IInv, [Next]_vars
             PROVE  [Forward!Next]_FPath
  OBVIOUS
<1> DEFINE n == Nm(queue)
           m == Nm(queue')
           d == n["fwd_dst"]
           u == n["fwd_src"]
<1>0. FPath = d \o u /\ FPath' = m["fwd_dst"] \o m["fwd_src"]
  BY FPathIs DEF Path
<1>00. /\ d \in Seq(Reqs) /\ u \in Seq(Reqs) /\ n \in [Stages -> Seq(Reqs)]
  BY PathTypes
<1>1. ASSUME NEW r \in Reqs, MasterSend(r) \/ MasterResend(r)
      PROVE  FPath' = FPath \/ FPath' = Append(FPath, r)
  <2>1. mst[r] # "granted" /\ (Deny(r) \/ Grant(r)) /\ UNCHANGED <<pc, cb, below, dropped>>
    BY <1>1 DEF MasterSend, MasterResend, in_req_handler
  <2>2. CASE Deny(r)
    BY <2>2 DEF Deny, FPath
  <2>3. CASE Grant(r)
    <3>1. m = Put(n, "fwd_src", Append(u, r))
      BY <2>1, <2>3, GrantKeeps
    <3>2. m["fwd_dst"] = d /\ m["fwd_src"] = Append(u, r)
      BY <3>1, <1>00, ForwardStage DEF Put
    <3> HIDE DEF d, u, m, n
    <3> QED
      BY <3>2, <1>0, <1>00, ConcatAppend
  <2> QED
    BY <2>1, <2>2, <2>3
<1>2. CASE fwd_src_done_handler
  <2>1. u # <<>> /\ m = Put(Put(n, "fwd_src", Tail(u)), "fwd_dst", Append(d, Head(u)))
    BY <1>2, ForwardStage, MoveKeeps DEF fwd_src_done_handler
  <2>2. m["fwd_dst"] = Append(d, Head(u)) /\ m["fwd_src"] = Tail(u)
    BY <2>1, <1>00, ForwardStage DEF Put
  <2> HIDE DEF d, u, m, n
  <2> QED
    BY <2>1, <2>2, <1>0, <1>00, ConcatShift
<1>3. ASSUME m["fwd_src"] = u, d # <<>>, m["fwd_dst"] = Tail(d)
      PROVE  FPath # <<>> /\ FPath' = Tail(FPath)
  <2> HIDE DEF d, u, m, n
  <2> QED
    BY <1>3, <1>0, <1>00, ConcatTail
<1>4. CASE fwd_dst_done_handler
  <2> DEFINE r == queue["fwd_dst"][1].req
  <2>1. CASE SlaveDone(r)
    <3>1. d # <<>> /\ m = Put(Put(n, "fwd_dst", Tail(d)), "rev_src", Append(n["rev_src"], Head(d)))
      BY <1>4, <2>1, ForwardStage, MoveKeeps DEF fwd_dst_done_handler, SlaveDone
    <3>2. m["fwd_dst"] = Tail(d) /\ m["fwd_src"] = u
      BY <3>1, <1>00, ForwardStage DEF Put
    <3> QED
      BY <3>1, <3>2, <1>3, ChannelStep
  <2>2. CASE SlaveGranted(r) \/ SlaveDenied(r)
    <3>1. d # <<>> /\ m = Put(n, "fwd_dst", Tail(d))
      BY <1>4, <2>2, DownKeeps DEF fwd_dst_done_handler
    <3>2. m["fwd_dst"] = Tail(d) /\ m["fwd_src"] = u
      BY <3>1, <1>00, ForwardStage DEF Put
    <3> QED
      BY <3>1, <3>2, <1>3, ChannelStep
  <2> QED
    BY <1>4, <2>1, <2>2 DEF fwd_dst_done_handler
<1>5. CASE rev_src_done_handler
  <2>1. m = Put(Put(n, "rev_src", Tail(n["rev_src"])), "rev_dst",
                Append(n["rev_dst"], Head(n["rev_src"])))
    BY <1>5, ForwardStage, MoveKeeps DEF rev_src_done_handler
  <2>2. m["fwd_dst"] = d /\ m["fwd_src"] = u
    BY <2>1, <1>00, ForwardStage DEF Put
  <2> QED
    BY <2>2, <1>0
<1>6. CASE rev_dst_done_handler
  <2>1. m = Put(n, "rev_dst", Tail(n["rev_dst"]))
    BY <1>6, RevDstKeeps
  <2>2. m["fwd_dst"] = d /\ m["fwd_src"] = u
    BY <2>1, <1>00, ForwardStage DEF Put
  <2> QED
    BY <2>2, <1>0
<1>7. ASSUME NEW r \in Reqs, out_resp_handler(r) PROVE FPath' = FPath
  <2>1. m = Put(n, "rev_src", Append(n["rev_src"], r))
    BY <1>7, OutRespKeeps
  <2>2. m["fwd_dst"] = d /\ m["fwd_src"] = u
    BY <2>1, <1>00, ForwardStage DEF Put
  <2> QED
    BY <2>2, <1>0
<1>8. CASE MasterTick \/ SlaveTick
  <2>1. m = n
    BY <1>8, ForwardStage, TickKeeps DEF MasterTick, SlaveTick
  <2> QED
    BY <2>1, <1>0
<1>9. CASE reset
  <2>1. m = [s \in Stages |-> <<>>]
    BY <1>9, ResetKeeps
  <2>2. FPath' = <<>>
    BY <2>1, <1>0, ForwardStage
  <2> QED
    BY <2>2, ChannelStep
<1>10. CASE \/ \E s \in Stages : HandlerStarts(s) \/ HandlerEnds(s)
            \/ RevDstEnds \/ CallbackReturns \/ UNCHANGED vars
  <2>1. queue' = queue
    BY <1>10 DEF HandlerStarts, HandlerEnds, RevDstEnds, CallbackReturns, vars
  <2> QED
    BY <2>1, <1>0
<1>11. ASSUME NEW r \in Reqs, MasterSend(r) \/ MasterResend(r)
       PROVE  [Forward!Next]_FPath
  BY <1>1, <1>11, ChannelStep
<1> HIDE DEF n, m, d, u
<1> QED
  BY <1>2, <1>4, <1>5, <1>6, <1>7, <1>8, <1>9, <1>10, <1>11 DEF Next, Handlers
(* Whatever the delays, the depth and the two clocks, requests reach the   *)
(* slave in the order they were granted in: the two forward stages are a   *)
(* FIFO, which only reset empties.                                         *)
THEOREM ForwardFifoHolds == Spec => ForwardFifo
<1>1. Init => Forward!Init
  <2> SUFFICES ASSUME Init PROVE FPath = <<>>
    BY DEF FPath, Forward!Init
  <2>1. Names(<<>>) = <<>>
    BY DEF Names
  <2> QED
    BY <2>1, ForwardStage DEF Init, FPath
<1>2. IInv /\ [Next]_vars => [Forward!Next]_(Names(queue["fwd_dst"]) \o Names(queue["fwd_src"]))
  BY FifoStep DEF FPath
<1> QED
  BY <1>1, <1>2, IInvAlways, PTL DEF Spec, ForwardFifo, Forward!Spec

----------------------------------------------------------------------------
(* The bridge implements IoService.  What is still to be served is what is *)
(* granted and not on its way back.                                        *)

Back(n) == ToSet(n["rev_src"]) \cup ToSet(n["rev_dst"])

TodoOf(A) == [r \in Reqs |-> IF r \in A THEN {0} ELSE {}]

LEMMA AheadIs ==
    ASSUME NEW Q, QueueShape(Q), NEW B, NEW D, Apart(Nm(Q), B, D), NEW r \in Reqs
    PROVE  (r \in B \cup D \/ \E s \in {"fwd_src", "fwd_dst"} :
                                 \E i \in DOMAIN Q[s] : Q[s][i].req = r)
             <=> r \in Everywhere(Nm(Q), B, D) \ Back(Nm(Q))
<1> DEFINE n == Nm(Q)
<1>1. ASSUME NEW s \in Stages
      PROVE  (\E i \in DOMAIN Q[s] : Q[s][i].req = r) <=> r \in ToSet(n[s])
  BY StageOf
<1> HIDE DEF n
<1>2. /\ "fwd_src" \in Stages /\ "fwd_dst" \in Stages
      /\ (\E s \in {"fwd_src", "fwd_dst"} : \E i \in DOMAIN Q[s] : Q[s][i].req = r)
           <=> r \in ToSet(n["fwd_src"]) \cup ToSet(n["fwd_dst"])
  BY <1>1, ForwardStage
<1>3. r \in Everywhere(n, B, D)
        <=> r \in B \cup D \cup ToSet(n["fwd_src"]) \cup ToSet(n["fwd_dst"]) \cup Back(n)
  BY DEF Everywhere, Stages, Back
<1>4. r \in Back(n) => r \notin B \cup D \cup ToSet(n["fwd_src"]) \cup ToSet(n["fwd_dst"])
  <2>1. Apart(n, B, D)
    BY DEF n
  <2>2. ASSUME NEW s \in {"rev_src", "rev_dst"}, r \in ToSet(n[s])
        PROVE  r \notin B \cup D \cup ToSet(n["fwd_src"]) \cup ToSet(n["fwd_dst"])
    <3>1. s \in Stages /\ "fwd_src" \in Stages \ {s} /\ "fwd_dst" \in Stages \ {s}
      BY DEF Stages
    <3> QED
      BY <2>1, <2>2, <3>1 DEF Apart
  <2> QED
    BY <2>2 DEF Back
<1> QED
  BY <1>2, <1>3, <1>4 DEF n

todoBar == [r \in Reqs |-> Unserved(r)]

LEMMA TodoIs == IInv => todoBar = TodoOf(Granted \ Back(Nm(queue)))
<1> SUFFICES ASSUME IInv PROVE todoBar = TodoOf(Granted \ Back(Nm(queue)))
  OBVIOUS
<1>1. ASSUME NEW r \in Reqs
      PROVE  Unserved(r) = IF r \in Granted \ Back(Nm(queue)) THEN {0} ELSE {}
  BY AheadIs DEF IInv, Placed, Unserved
<1> QED
  BY <1>1 DEF todoBar, TodoOf

LEMMA TodoNext == IInv' => todoBar' = TodoOf(Granted' \ Back(Nm(queue')))
<1> SUFFICES ASSUME IInv' PROVE todoBar' = TodoOf(Granted' \ Back(Nm(queue')))
  OBVIOUS
<1>1. QueueShape(queue') /\ Apart(Nm(queue'), below', dropped')
      /\ Everywhere(Nm(queue'), below', dropped') = Granted'
  BY DEF IInv, Placed
<1>2. ASSUME NEW r \in Reqs
      PROVE  Unserved(r)' = IF r \in Granted' \ Back(Nm(queue')) THEN {0} ELSE {}
  BY <1>1, AheadIs DEF Unserved
<1> QED
  BY <1>2 DEF todoBar, TodoOf

(* The steps of IoService, with one byte per request.                      *)
LEMMA ServiceStep ==
    ASSUME NEW r \in Reqs
    PROVE  /\ (mst[r] \in {"idle", "retrying"} /\ mst' = [mst EXCEPT ![r] = "granted"]
                 /\ todoBar' = [todoBar EXCEPT ![r] = {0}]) => Service!Serving
           /\ (mst[r] \in {"idle", "retrying"} /\ mst' = [mst EXCEPT ![r] = "denied"]
                 /\ todoBar' = todoBar) => Service!Serving
           /\ (mst[r] = "granted" /\ mst' = mst /\ todoBar[r] = {0}
                 /\ todoBar' = [todoBar EXCEPT ![r] = {}]) => Service!Serving
           /\ (mst[r] = "granted" /\ mst' = [mst EXCEPT ![r] = "idle"]
                 /\ todoBar[r] = {} /\ todoBar' = todoBar) => Service!Serving
<1>1. ASSUME mst[r] \in {"idle", "retrying"}, mst' = [mst EXCEPT ![r] = "granted"],
             todoBar' = [todoBar EXCEPT ![r] = {0}]
      PROVE  Service!Serving
  <2>1. 0 .. ([x \in Reqs |-> 1][r] - 1) = {0}
    OBVIOUS
  <2>2. Service!Accept(r)
    BY <1>1, <2>1 DEF Service!Accept, todoBar
  <2> QED
    BY <2>2 DEF Service!Serving
<1>2. ASSUME mst[r] \in {"idle", "retrying"}, mst' = [mst EXCEPT ![r] = "denied"],
             todoBar' = todoBar
      PROVE  Service!Serving
  BY <1>2 DEF Service!Serving, Service!Deny, todoBar
<1>3. ASSUME mst[r] = "granted", mst' = mst, todoBar[r] = {0},
             todoBar' = [todoBar EXCEPT ![r] = {}]
      PROVE  Service!Serving
  <2>1. todoBar' = [todoBar EXCEPT ![r] = @ \ {0}] /\ {0} \in SUBSET todoBar[r]
    BY <1>3
  <2>2. {0} \cap [x \in Reqs |-> {}][r] = {}
    OBVIOUS
  <2>3. Service!Serve(r, {0})
    BY <1>3, <2>1, <2>2 DEF Service!Serve, todoBar
  <2> QED
    BY <2>1, <2>3 DEF Service!Serving, todoBar
<1>4. ASSUME mst[r] = "granted", mst' = [mst EXCEPT ![r] = "idle"],
             todoBar[r] = {}, todoBar' = todoBar
      PROVE  Service!Serving
  BY <1>4 DEF Service!Serving, Service!Answer, todoBar
<1> QED
  BY <1>1, <1>2, <1>3, <1>4
(* Whoever is granted and not on the way back stays so.                    *)
LEMMA SameService ==
    ASSUME IInv, IInv', UNCHANGED mst, Back(Nm(queue')) = Back(Nm(queue))
    PROVE  UNCHANGED Service!vars
<1>1. Granted' = Granted
  BY DEF Granted
<1>2. todoBar' = todoBar
  BY <1>1, TodoIs, TodoNext
<1> QED
  BY <1>2 DEF Service!vars, todoBar

(* A request that starts its way back has been served.                     *)
LEMMA ServedStep ==
    ASSUME IInv, IInv', UNCHANGED mst, NEW r \in Granted, r \notin Back(Nm(queue)),
           Back(Nm(queue')) = Back(Nm(queue)) \cup {r}
    PROVE  Service!Serving
<1>1. Granted' = Granted /\ r \in Reqs /\ mst[r] = "granted"
  BY DEF Granted
<1>2. todoBar = TodoOf(Granted \ Back(Nm(queue)))
      /\ todoBar' = TodoOf(Granted \ (Back(Nm(queue)) \cup {r}))
  BY <1>1, TodoIs, TodoNext
<1>3. todoBar[r] = {0} /\ todoBar' = [todoBar EXCEPT ![r] = {}]
  BY <1>1, <1>2 DEF TodoOf
<1> QED
  BY <1>1, <1>3, ServiceStep

LEMMA BackMoves ==
    ASSUME NEW n \in [Stages -> Seq(Reqs)], NEW m
    PROVE  /\ \A s \in {"fwd_src", "fwd_dst"} : \A v : m = Put(n, s, v) => Back(m) = Back(n)
           /\ \A v, w : m = Put(Put(n, "fwd_src", v), "fwd_dst", w) => Back(m) = Back(n)
           /\ \A v : \A r \in Reqs :
                m = Put(Put(n, "fwd_dst", v), "rev_src", Append(n["rev_src"], r))
                  => Back(m) = Back(n) \cup {r}
           /\ \A r \in Reqs : m = Put(n, "rev_src", Append(n["rev_src"], r))
                => Back(m) = Back(n) \cup {r}
<1>1. /\ "fwd_src" \in Stages /\ "fwd_dst" \in Stages /\ "rev_src" \in Stages /\ "rev_dst" \in Stages
      /\ n["rev_src"] \in Seq(Reqs)
  BY ForwardStage
<1>2. \A r \in Reqs : ToSet(Append(n["rev_src"], r)) = ToSet(n["rev_src"]) \cup {r}
  BY <1>1, AppendToSet
<1>3. ASSUME NEW s \in {"fwd_src", "fwd_dst"}, NEW v, m = Put(n, s, v)
      PROVE  Back(m) = Back(n)
  BY <1>1, <1>3 DEF Put, Back
<1>4. ASSUME NEW v, NEW w, m = Put(Put(n, "fwd_src", v), "fwd_dst", w)
      PROVE  Back(m) = Back(n)
  BY <1>1, <1>4 DEF Put, Back
<1>5. ASSUME NEW v, NEW r \in Reqs,
             m = Put(Put(n, "fwd_dst", v), "rev_src", Append(n["rev_src"], r))
      PROVE  Back(m) = Back(n) \cup {r}
  <2>1. m["rev_src"] = Append(n["rev_src"], r) /\ m["rev_dst"] = n["rev_dst"]
    BY <1>1, <1>5 DEF Put
  <2> QED
    BY <1>2, <2>1 DEF Back
<1>6. ASSUME NEW r \in Reqs, m = Put(n, "rev_src", Append(n["rev_src"], r))
      PROVE  Back(m) = Back(n) \cup {r}
  <2>1. m["rev_src"] = Append(n["rev_src"], r) /\ m["rev_dst"] = n["rev_dst"]
    BY <1>1, <1>6 DEF Put
  <2> QED
    BY <1>2, <2>1 DEF Back
<1> QED
  BY <1>3, <1>4, <1>5, <1>6

LEMMA MasterSim ==
    ASSUME IInv, NEW r \in Reqs, MasterSend(r) \/ MasterResend(r)
    PROVE  Service!Serving
<1>1. /\ mst[r] \in {"idle", "retrying"} /\ (Deny(r) \/ Grant(r))
      /\ UNCHANGED <<pc, cb, below, dropped>>
  BY DEF MasterSend, MasterResend, in_req_handler
<1>2. CASE Deny(r)
  <2>1. mst' = [mst EXCEPT ![r] = "denied"] /\ Back(Nm(queue')) = Back(Nm(queue))
    BY <1>2 DEF Deny
  <2>2. Granted' = Granted
    BY <1>1, <2>1 DEF Granted, IInv, Fields
  <2>3. todoBar' = todoBar
    BY <2>1, <2>2, TodoIs, TodoNext, MasterKeeps
  <2> QED
    BY <1>1, <2>1, <2>3, ServiceStep
<1>3. CASE Grant(r)
  <2>1. /\ mst' = [mst EXCEPT ![r] = "granted"] /\ IInv'
        /\ Nm(queue') = Put(Nm(queue), "fwd_src", Append(Nm(queue)["fwd_src"], r))
    BY <1>1, <1>3, GrantKeeps DEF Grant
  <2>2. Back(Nm(queue')) = Back(Nm(queue))
    BY <2>1, PathTypes, BackMoves
  <2>3. Granted' = Granted \cup {r} /\ r \notin Granted
    BY <1>1, <2>1 DEF Granted, IInv, Fields
  <2>4. r \notin Back(Nm(queue))
    <3>1. Back(Nm(queue)) \subseteq Everywhere(Nm(queue), below, dropped)
      BY ForwardStage DEF Back, Everywhere
    <3> QED
      BY <2>3, <3>1 DEF IInv, Placed
  <2>5. todoBar' = [todoBar EXCEPT ![r] = {0}]
    BY <2>1, <2>2, <2>3, <2>4, TodoIs, TodoNext DEF TodoOf
  <2> QED
    BY <1>1, <2>1, <2>5, ServiceStep
<1> QED
  BY <1>1, <1>2, <1>3

LEMMA FwdDstSim ==
    ASSUME IInv, fwd_dst_done_handler
    PROVE  Service!Serving \/ UNCHANGED Service!vars
<1> DEFINE r == queue["fwd_dst"][1].req
           n == Nm(queue)
<1>1. UNCHANGED mst /\ IInv'
  <2>1. IInv'
    BY IInvKept DEF Next, Handlers
  <2> QED
    BY <2>1 DEF fwd_dst_done_handler
<1>2. CASE SlaveDone(r)
  <2>1. /\ n["fwd_dst"] # <<>> /\ Head(n["fwd_dst"]) = r
        /\ Nm(queue') = Put(Put(n, "fwd_dst", Tail(n["fwd_dst"])), "rev_src",
                            Append(n["rev_src"], Head(n["fwd_dst"])))
    BY <1>2, ForwardStage, MoveKeeps DEF fwd_dst_done_handler, SlaveDone
  <2>2. n["fwd_dst"] \in Seq(Reqs)
    BY PathTypes
  <2>3. r \in ToSet(n["fwd_dst"]) /\ r \in Reqs
    <3>1. ToSet(n["fwd_dst"]) = ToSet(Tail(n["fwd_dst"])) \cup {r} /\ ToSet(n["fwd_dst"]) \subseteq Reqs
      BY <2>1, <2>2, TailToSet, InToSet
    <3> QED
      BY <3>1
  <2>4. r \in Granted
    BY <2>3, ForwardStage DEF IInv, Placed, Everywhere
  <2>5. r \notin Back(n)
    <3>1. /\ "fwd_dst" \in Stages
          /\ "rev_src" \in Stages \ {"fwd_dst"} /\ "rev_dst" \in Stages \ {"fwd_dst"}
      BY DEF Stages
    <3>2. /\ ToSet(n["fwd_dst"]) \cap ToSet(n["rev_src"]) = {}
          /\ ToSet(n["fwd_dst"]) \cap ToSet(n["rev_dst"]) = {}
      BY <3>1 DEF IInv, Placed, Apart
    <3> QED
      BY <2>3, <3>2 DEF Back
  <2>6. Back(Nm(queue')) = Back(n) \cup {r}
    <3>1. n \in [Stages -> Seq(Reqs)]
      BY PathTypes
    <3>2. Nm(queue') = Put(Put(n, "fwd_dst", Tail(n["fwd_dst"])), "rev_src", Append(n["rev_src"], r))
      BY <2>1
    <3> HIDE DEF n, r
    <3> QED
      BY <2>3, <3>1, <3>2, BackMoves
  <2> QED
    BY <1>1, <2>4, <2>5, <2>6, ServedStep
<1>3. CASE SlaveGranted(r) \/ SlaveDenied(r)
  <2>1. Nm(queue') = Put(n, "fwd_dst", Tail(n["fwd_dst"]))
    BY <1>3, DownKeeps DEF fwd_dst_done_handler
  <2>2. Back(Nm(queue')) = Back(n)
    BY <2>1, PathTypes, BackMoves
  <2> QED
    BY <1>1, <2>2, SameService
<1> QED
  BY <1>2, <1>3 DEF fwd_dst_done_handler

LEMMA OutRespSim ==
    ASSUME IInv, NEW r \in Reqs, out_resp_handler(r)
    PROVE  Service!Serving
<1>1. /\ IInv' /\ Nm(queue') = Put(Nm(queue), "rev_src", Append(Nm(queue)["rev_src"], r))
      /\ r \in below /\ UNCHANGED mst
  BY OutRespKeeps DEF out_resp_handler
<1>2. r \in Granted
  BY <1>1 DEF IInv, Placed, Everywhere
<1>3. r \notin Back(Nm(queue))
  BY <1>1, ForwardStage DEF IInv, Placed, Apart, Back
<1>4. Back(Nm(queue')) = Back(Nm(queue)) \cup {r}
  BY <1>1, PathTypes, BackMoves
<1> QED
  BY <1>1, <1>2, <1>3, <1>4, ServedStep

LEMMA RevDstSim ==
    ASSUME IInv, rev_dst_done_handler
    PROVE  Service!Serving
<1> DEFINE r == queue["rev_dst"][1].req
           n == Nm(queue)
           u == n["rev_dst"]
<1>1. /\ IInv' /\ Nm(queue') = Put(n, "rev_dst", Tail(u))
      /\ r \in Granted \ Everywhere(Nm(queue'), below, dropped)
      /\ mst' = [mst EXCEPT ![r] = "idle"]
  BY RevDstKeeps
<1>2. queue["rev_dst"] # <<>> /\ QueueShape(queue) /\ "rev_dst" \in Stages
  BY ForwardStage DEF rev_dst_done_handler, Popping, HeadDue, IInv
<1>3. u \in Seq(Reqs) /\ u # <<>> /\ Head(u) = r
  <2>1. Nm(queue)["rev_dst"] = Names(queue["rev_dst"])
        /\ queue["rev_dst"] \in Seq(Txn) /\ Spaced(queue["rev_dst"])
    BY <1>2, NmType
  <2> QED
    BY <1>2, <2>1, Pop, NamesSeq
<1>4. ToSet(u) = ToSet(Tail(u)) \cup {r}
  BY <1>3, TailToSet
<1>5. n \in [Stages -> Seq(Reqs)]
  BY PathTypes
<1> HIDE DEF n, r, u
<1>6. Nm(queue')["rev_dst"] = Tail(u) /\ Nm(queue')["rev_src"] = n["rev_src"]
  BY <1>1, <1>2, <1>5, ForwardStage DEF Put
<1>7. Back(n) = Back(Nm(queue')) \cup {r}
  BY <1>4, <1>6 DEF Back, u
<1>8. r \in Reqs /\ mst[r] = "granted" /\ Granted' = Granted \ {r}
  BY <1>1 DEF Granted, IInv, Fields
<1>9. r \notin Back(Nm(queue'))
  <2>1. Back(Nm(queue')) \subseteq Everywhere(Nm(queue'), below, dropped)
    BY ForwardStage DEF Back, Everywhere
  <2> QED
    BY <1>1, <2>1
<1>10. Granted' \ Back(Nm(queue')) = Granted \ Back(n)
  BY <1>7, <1>8, <1>9
<1>11. todoBar' = todoBar /\ todoBar = TodoOf(Granted \ Back(n))
  BY <1>1, <1>10, TodoIs, TodoNext DEF n
<1>12. todoBar[r] = {}
  BY <1>7, <1>8, <1>11 DEF TodoOf
<1> QED
  BY <1>1, <1>8, <1>11, <1>12, ServiceStep

LEMMA RevDstEndsSim ==
    ASSUME IInv, RevDstEnds
    PROVE  Service!Serving \/ UNCHANGED Service!vars
<1>1. IInv' /\ Back(Nm(queue')) = Back(Nm(queue))
  BY RevDstEndsKeeps DEF RevDstEnds
<1>2. CASE RetryDue
  <2>1. mst' = [r \in Reqs |-> IF mst[r] = "denied" THEN "retrying" ELSE mst[r]]
    BY <1>2 DEF RevDstEnds
  <2>2. Granted' = Granted
    BY <2>1 DEF Granted
  <2>3. todoBar' = todoBar
    BY <1>1, <2>2, TodoIs, TodoNext
  <2>4. Service!Retry
    BY <2>1, <2>3 DEF Service!Retry, todoBar
  <2> QED
    BY <2>4 DEF Service!Serving
<1>3. CASE ~RetryDue
  BY <1>1, <1>3, SameService DEF RevDstEnds
<1> QED
  BY <1>2, <1>3

LEMMA ResetSim ==
    ASSUME IInv, reset PROVE Service!Reset
<1>1. IInv' /\ Granted' = {}
  BY ResetKeeps DEF reset, Granted
<1>2. todoBar' = [r \in Reqs |-> {}]
  BY <1>1, TodoNext DEF TodoOf
<1> QED
  BY <1>2 DEF reset, Service!Reset, todoBar

LEMMA NextSim ==
    ASSUME IInv, [Next]_vars
    PROVE  Service!Serving \/ (reset /\ Service!Reset) \/ UNCHANGED Service!vars
<1>0. IInv'
  BY IInvKept
<1>1. ASSUME NEW r \in Reqs, MasterSend(r) \/ MasterResend(r) \/ out_resp_handler(r)
      PROVE  Service!Serving
  BY <1>1, MasterSim, OutRespSim
<1>2. CASE fwd_src_done_handler
  <2>1. Nm(queue') = Put(Put(Nm(queue), "fwd_src", Tail(Nm(queue)["fwd_src"])), "fwd_dst",
                         Append(Nm(queue)["fwd_dst"], Head(Nm(queue)["fwd_src"])))
    BY <1>2, ForwardStage, MoveKeeps DEF fwd_src_done_handler
  <2>2. Back(Nm(queue')) = Back(Nm(queue))
    BY <2>1, PathTypes, BackMoves
  <2> QED
    BY <1>0, <1>2, <2>2, SameService DEF fwd_src_done_handler
<1>3. CASE rev_src_done_handler
  <2> DEFINE n == Nm(queue)
             v == n["rev_src"]
             w == n["rev_dst"]
  <2>1. v # <<>> /\ Nm(queue') = Put(Put(n, "rev_src", Tail(v)), "rev_dst", Append(w, Head(v)))
    BY <1>3, ForwardStage, MoveKeeps DEF rev_src_done_handler
  <2>2. v \in Seq(Reqs) /\ w \in Seq(Reqs) /\ n \in [Stages -> Seq(Reqs)]
    BY PathTypes, ForwardStage
  <2>3. Nm(queue')["rev_src"] = Tail(v) /\ Nm(queue')["rev_dst"] = Append(w, Head(v))
    BY <2>1, <2>2, ForwardStage DEF Put
  <2> HIDE DEF v, w
  <2>4. Head(v) \in Reqs
    BY <2>1, <2>2
  <2>5. /\ ToSet(v) = ToSet(Tail(v)) \cup {Head(v)}
        /\ ToSet(Append(w, Head(v))) = ToSet(w) \cup {Head(v)}
    BY <2>1, <2>2, <2>4, TailToSet, AppendToSet
  <2>6. Back(Nm(queue')) = Back(n)
    BY <2>3, <2>5 DEF Back, v, w
  <2> QED
    BY <1>0, <1>3, <2>6, SameService DEF rev_src_done_handler
<1>4. CASE fwd_dst_done_handler
  BY <1>4, FwdDstSim
<1>5. CASE rev_dst_done_handler
  BY <1>5, RevDstSim
<1>6. CASE RevDstEnds
  BY <1>6, RevDstEndsSim
<1>7. CASE MasterTick \/ SlaveTick
  <2>1. Nm(queue') = Nm(queue) /\ UNCHANGED mst
    BY <1>7, ForwardStage, TickKeeps DEF MasterTick, SlaveTick, Tick
  <2> QED
    BY <1>0, <2>1, SameService
<1>8. CASE reset
  BY <1>8, ResetSim
<1>9. CASE \/ \E s \in Stages : HandlerStarts(s) \/ HandlerEnds(s)
           \/ CallbackReturns \/ UNCHANGED vars
  <2>1. queue' = queue /\ mst' = mst
    BY <1>9 DEF HandlerStarts, HandlerEnds, CallbackReturns, vars
  <2> QED
    BY <1>0, <2>1, SameService
<1> QED
  BY <1>1, <1>2, <1>3, <1>4, <1>5, <1>6, <1>7, <1>8, <1>9 DEF Next, Handlers

(* Whatever the delays and the depth, the bridge serves its master as      *)
(* IoService promises: an answer comes after the slave's, once, and only   *)
(* for a granted request, and only reset drops one.                        *)
THEOREM Refinement == Spec => ServiceSpec
<1>1. Init => Service!Init
  <2> SUFFICES ASSUME Init PROVE Service!Init
    OBVIOUS
  <2>1. Granted = {}
    BY DEF Init, Granted
  <2>2. todoBar = [r \in Reqs |-> {}]
    BY <2>1, InitIInv, TodoIs DEF TodoOf
  <2> QED
    BY <2>2 DEF Init, Service!Init, todoBar
<1>2. IInv /\ [Next]_vars => [Service!Next]_(Service!vars)
  BY NextSim DEF Service!Next
<1>3. IInv /\ [Next]_vars => [reset \/ Service!Serving]_(Service!vars)
  BY NextSim
<1> QED
  BY <1>1, <1>2, <1>3, IInvAlways, PTL DEF Spec, ServiceSpec, Service!Spec
=============================================================================
