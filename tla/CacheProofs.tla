---------------------------- MODULE CacheProofs ----------------------------
(***************************************************************************)
(* Proofs about the cache, for any requests, lines, sets and ways: a line  *)
(* is in one way of its own set, the refill in flight is that of the head  *)
(* of the queue, every granted request waits in exactly one place and for  *)
(* each wait there is what ends it.  When every request carries data, no   *)
(* tag stands over the bytes of another line.                              *)
(***************************************************************************)
EXTENDS Cache, SequenceTheorems, TLAPS

USE CacheAssumption

----------------------------------------------------------------------------
(* Queues without repetitions.                                             *)

(* The elements of a sequence, by its indices.                             *)
LEMMA InToSet ==
    ASSUME NEW S, NEW s \in Seq(S)
    PROVE  /\ ToSet(s) \subseteq S
           /\ \A x : x \in ToSet(s) <=> \E i \in 1 .. Len(s) : s[i] = x
BY DEF ToSet

LEMMA EmptyQueue == ToSet(<<>>) = {} /\ IsInjective(<<>>)
BY DEF ToSet, IsInjective

LEMMA AppendQueue ==
    ASSUME NEW S, NEW s \in Seq(S), NEW e \in S, IsInjective(s), e \notin ToSet(s)
    PROVE  /\ Append(s, e) \in Seq(S) /\ Append(s, e) # <<>>
           /\ ToSet(Append(s, e)) = ToSet(s) \cup {e}
           /\ IsInjective(Append(s, e))
           /\ s # <<>> => Head(Append(s, e)) = Head(s)
<1> DEFINE t == Append(s, e)
<1>1. /\ DOMAIN s = 1 .. Len(s) /\ DOMAIN t = 1 .. Len(s) + 1 /\ Len(s) \in Nat
      /\ \A i \in 1 .. Len(s) : t[i] = s[i]
      /\ t[Len(s) + 1] = e
      /\ t \in Seq(S)
  OBVIOUS
<1>2. t # <<>>
  BY <1>1
<1>3. s # <<>> => Head(t) = Head(s)
  OBVIOUS
<1> HIDE DEF t
<1>4. ToSet(t) = ToSet(s) \cup {e}
  <2>1. \A i \in DOMAIN t : t[i] = e \/ \E j \in DOMAIN s : t[i] = s[j]
    BY <1>1
  <2>2. Len(s) + 1 \in DOMAIN t /\ \A j \in DOMAIN s : j \in DOMAIN t
    BY <1>1
  <2> QED
    BY <1>1, <2>1, <2>2 DEF ToSet
<1>5. IsInjective(t)
  BY <1>1 DEF IsInjective, ToSet
<1> QED
  BY <1>1, <1>2, <1>3, <1>4, <1>5 DEF t

LEMMA TailQueue ==
    ASSUME NEW S, NEW s \in Seq(S), s # <<>>, IsInjective(s)
    PROVE  /\ Head(s) \in S /\ Tail(s) \in Seq(S)
           /\ IsInjective(Tail(s)) /\ Head(s) \notin ToSet(Tail(s))
           /\ ToSet(s) = ToSet(Tail(s)) \cup {Head(s)}
<1> DEFINE t == Tail(s)
<1>1. /\ DOMAIN s = 1 .. Len(s) /\ DOMAIN t = 1 .. Len(s) - 1 /\ Len(s) \in Nat \ {0}
      /\ Head(s) = s[1] /\ s[1] \in S /\ t \in Seq(S)
      /\ \A i \in 1 .. Len(s) : i = 1 \/ (i - 1 \in DOMAIN t /\ s[i] = t[i - 1])
      /\ \A i \in DOMAIN t : i + 1 \in 1 .. Len(s) /\ t[i] = s[i + 1]
  OBVIOUS
<1> HIDE DEF t
<1>2. \A i \in DOMAIN s : s[i] \in ToSet(t) \cup {Head(s)}
  <2>1. \A i \in DOMAIN s : s[i] = Head(s) \/ \E j \in DOMAIN t : s[i] = t[j]
    BY <1>1
  <2> QED
    BY <2>1 DEF ToSet
<1>3. Head(s) \in ToSet(s) /\ \A i \in DOMAIN t : t[i] \in ToSet(s)
  BY <1>1 DEF ToSet
<1>4. ToSet(s) = ToSet(t) \cup {Head(s)}
  BY <1>2, <1>3 DEF ToSet
<1>5. IsInjective(t)
  <2>1. \A i, j \in DOMAIN t : t[i] = t[j] => i + 1 = j + 1
    BY <1>1 DEF IsInjective
  <2> QED
    BY <1>1, <2>1 DEF IsInjective
<1>6. Head(s) \notin ToSet(t)
  <2>1. \A i \in DOMAIN t : t[i] # s[1]
    BY <1>1 DEF IsInjective
  <2> QED
    BY <1>1, <2>1 DEF ToSet
<1> QED
  BY <1>1, <1>4, <1>5, <1>6 DEF t

(* A request that is parked at the head.                                   *)
LEMMA ParkedQueue ==
    ASSUME NEW S, NEW s \in Seq(S), NEW e \in S, IsInjective(s), e \notin ToSet(s)
    PROVE  /\ Parked(e, s) \in Seq(S) /\ Parked(e, s) # <<>>
           /\ ToSet(Parked(e, s)) = ToSet(s) \cup {e}
           /\ IsInjective(Parked(e, s))
           /\ Head(Parked(e, s)) = e
<1> DEFINE t == <<e>> \o s
<1>1. /\ DOMAIN s = 1 .. Len(s) /\ DOMAIN t = 1 .. Len(s) + 1 /\ Len(s) \in Nat
      /\ t[1] = e /\ t \in Seq(S)
      /\ \A i \in DOMAIN t : i = 1 \/ (i - 1 \in DOMAIN s /\ t[i] = s[i - 1])
      /\ \A i \in DOMAIN s : i + 1 \in DOMAIN t /\ t[i + 1] = s[i]
  OBVIOUS
<1>2. t # <<>> /\ Head(t) = e
  BY <1>1
<1> HIDE DEF t
<1>3. \A i \in DOMAIN t : t[i] \in ToSet(s) \cup {e}
  BY <1>1 DEF ToSet
<1>4. e \in ToSet(t) /\ \A i \in DOMAIN s : s[i] \in ToSet(t)
  BY <1>1 DEF ToSet
<1>5. ToSet(t) = ToSet(s) \cup {e}
  BY <1>3, <1>4 DEF ToSet
<1>6. IsInjective(t)
  BY <1>1 DEF IsInjective, ToSet
<1> QED
  BY <1>1, <1>2, <1>5, <1>6 DEF t, Parked

----------------------------------------------------------------------------
(* The lines.                                                              *)

LEMMA TagTypes ==
    /\ \A r \in Reqs : Tag[r] \in Tags
    /\ Tags \subseteq Nat /\ None \notin Tags
    /\ None \notin Lines /\ None \notin Reqs
BY DEF Tags, Lines

(* A tag is over at most one line, and over one of the set it selects.     *)
Unique(f) == \A l, m \in Lines : f[l] # None /\ f[l] = f[m] => l = m
Placed(f) == \A l \in Lines : f[l] # None => l \in WaysOf(f[l])
Absent(f, t) == \A l \in Lines : f[l] # t

(* Where no way of its set has a tag, no line has it.                      *)
LEMMA MissAbsent ==
    ASSUME NEW r \in Reqs, ~Hit(r), Placed(tag)
    PROVE  Absent(tag, Tag[r])
BY TagTypes DEF Hit, Placed, Absent

LEMMA PutTag ==
    ASSUME NEW f \in [Lines -> Tags \cup {None}], Unique(f), Placed(f),
           NEW t \in Tags, NEW l \in WaysOf(t), Absent(f, t),
           NEW g, g = [f EXCEPT ![l] = t]
    PROVE  g \in [Lines -> Tags \cup {None}] /\ Unique(g) /\ Placed(g)
<1>1. l \in Lines
  BY DEF WaysOf
<1>2. /\ g \in [Lines -> Tags \cup {None}]
      /\ \A m \in Lines : g[m] = IF m = l THEN t ELSE f[m]
  BY <1>1
<1>3. Unique(g)
  BY <1>1, <1>2 DEF Unique, Absent
<1>4. Placed(g)
  BY <1>1, <1>2 DEF Placed
<1> QED
  BY <1>2, <1>3, <1>4

(* Losing tags keeps the others where they are.                            *)
LEMMA DropTags ==
    ASSUME NEW f \in [Lines -> Tags \cup {None}], Unique(f), Placed(f), NEW S,
           NEW g, g = [l \in Lines |-> IF f[l] \in S THEN None ELSE f[l]]
    PROVE  /\ g \in [Lines -> Tags \cup {None}] /\ Unique(g) /\ Placed(g)
           /\ \A l \in Lines : g[l] \in {None, f[l]}
           /\ \A t \in Tags : Absent(f, t) => Absent(g, t)
<1>1. /\ g \in [Lines -> Tags \cup {None}]
      /\ \A l \in Lines : g[l] = IF f[l] \in S THEN None ELSE f[l]
  OBVIOUS
<1>2. Unique(g) /\ Placed(g)
  BY <1>1 DEF Unique, Placed
<1>3. \A t \in Tags : Absent(f, t) => Absent(g, t)
  BY <1>1, TagTypes DEF Absent
<1> QED
  BY <1>1, <1>2, <1>3

----------------------------------------------------------------------------
(* The inductive invariant.                                                *)

FlagsOK ==
    /\ ways \in Ways /\ enabled \in BOOLEAN /\ pending_refill \in BOOLEAN /\ fsm_event \in BOOLEAN
    /\ refill_retry_pending \in BOOLEAN /\ input_needs_retry \in BOOLEAN /\ owes \in BOOLEAN
    /\ flush_line_addr \in Tags \cup {None}
    /\ cb \in {"none", "check", "pass"}

(* A tag is once in its own set, and the line being refilled is nowhere    *)
(* until its answer.                                                       *)
LinesOK ==
    /\ tag \in [Lines -> Tags \cup {None}] /\ data \in [Lines -> Tags \cup {None}]
    /\ refill_line \in Lines \cup {None} /\ refill_tag \in Tags \cup {None}
    /\ Unique(tag) /\ Placed(tag)
    /\ pending_refill =>
         refill_tag \in Tags /\ refill_line \in WaysOf(refill_tag) /\ Absent(tag, refill_tag)

QueueOK ==
    /\ refill_pending_reqs \in Seq(Reqs)
    /\ mst \in [Reqs -> {"idle", "denied", "retrying", "granted"}]
    /\ bypassed \subseteq Reqs
    /\ GrantedHeld

OwnerOK ==
    /\ pending_line_offset \in Reqs \cup {None}
    /\ refills = (IF pending_refill THEN 1 ELSE 0)
    /\ pending_refill =>
         /\ refill_pending_reqs # <<>>
         /\ Tag[Head(refill_pending_reqs)] = refill_tag
         /\ pending_line_offset = Head(refill_pending_reqs)

(* A denied request is remembered inside a callback too.                   *)
WaitsOK ==
    /\ refill_pending_reqs # <<>> /\ ~Blocked => fsm_event \/ cb = "check"
    /\ refill_retry_pending \/ input_needs_retry => owes
    /\ (\E r \in Reqs : mst[r] = "denied") => input_needs_retry

IInv == FlagsOK /\ LinesOK /\ QueueOK /\ OwnerOK /\ WaitsOK

LEMMA InvFromIInv ==
    ASSUME IInv
    PROVE  TypeOK /\ TagUnique /\ RefillOwner /\ Armed /\ GrantedHeld
<1> USE DEF IInv
<1>1. TagUnique
  BY DEF LinesOK, Unique, TagUnique
<1>2. RefillOwner
  BY DEF LinesOK, OwnerOK, RefillOwner
<1>3. Armed
  BY DEF WaitsOK, Armed
<1>4. GrantedHeld /\ moved \subseteq Reqs
  BY DEF QueueOK, GrantedHeld
<1>5. refills \in Nat
  BY DEF OwnerOK
<1>6. TypeOK
  BY <1>4, <1>5 DEF FlagsOK, LinesOK, QueueOK, OwnerOK, TypeOK
<1> QED
  BY <1>1, <1>2, <1>3, <1>4, <1>6

LEMMA InitIInv == Init => IInv
<1> SUFFICES ASSUME Init PROVE IInv
  OBVIOUS
<1>1. FlagsOK
  BY DEF Init, FlagsOK
<1>2. LinesOK
  BY DEF Init, LinesOK, Unique, Placed
<1>3. QueueOK
  <2>1. {r \in Reqs : mst[r] = "granted"} = {}
    BY DEF Init
  <2> QED
    BY <2>1, EmptyQueue DEF Init, QueueOK, GrantedHeld
<1>4. OwnerOK
  BY DEF Init, OwnerOK
<1>5. WaitsOK
  BY DEF Init, WaitsOK
<1> QED
  BY <1>1, <1>2, <1>3, <1>4, <1>5 DEF IInv

----------------------------------------------------------------------------
(* The parts, step by step.                                                *)

(* The lines of a platform do not change.                                  *)
LEMMA LinesSame ==
    ASSUME ways' = ways
    PROVE  Lines' = Lines /\ \A t : WaysOf(t)' = WaysOf(t)
BY DEF Lines, WaysOf, line_index

(* What makes up the lines after a step.                                   *)
LEMMA LinesNext ==
    ASSUME ways' = ways,
           NEW g, g = tag', g \in [Lines -> Tags \cup {None}], Unique(g), Placed(g),
           data' \in [Lines -> Tags \cup {None}],
           refill_line' \in Lines \cup {None}, refill_tag' \in Tags \cup {None},
           pending_refill' => /\ refill_tag' \in Tags
                              /\ refill_line' \in WaysOf(refill_tag')
                              /\ Absent(g, refill_tag')
    PROVE  LinesOK'
<1>1. Lines' = Lines /\ \A t : WaysOf(t)' = WaysOf(t)
  BY LinesSame
<1>2. Unique(tag)' /\ Placed(tag)'
  BY <1>1 DEF Unique, Placed, WaysOf, Lines, line_index
<1>3. pending_refill' => /\ refill_line' \in (WaysOf(refill_tag))'
                         /\ Absent(tag, refill_tag)'
  BY <1>1 DEF Absent, WaysOf, Lines, line_index
<1>4. Tags' = Tags
  BY DEF Tags
<1> QED
  BY <1>1, <1>2, <1>3, <1>4 DEF LinesOK

(* Nothing happens to the lines.                                           *)
LEMMA LinesIdle ==
    ASSUME LinesOK, ways' = ways, tag' = tag, data' = data, refill_line' = refill_line,
           refill_tag' = refill_tag, pending_refill' = pending_refill
    PROVE  LinesOK'
BY LinesNext DEF LinesOK

(* Lines lose their tags, in a refill or not.                              *)
LEMMA InvalidateLines ==
    ASSUME LinesOK, ways' = ways, NEW S, Invalidate(S), refill_line' = refill_line,
           refill_tag' = refill_tag, pending_refill' = pending_refill
    PROVE  LinesOK'
<1>1. /\ tag \in [Lines -> Tags \cup {None}] /\ Unique(tag) /\ Placed(tag)
      /\ tag' = [l \in Lines |-> IF tag[l] \in S THEN None ELSE tag[l]]
      /\ data' = data
  BY DEF LinesOK, Invalidate
<1>2. PICK g : g = tag'
  OBVIOUS
<1>3. /\ g \in [Lines -> Tags \cup {None}] /\ Unique(g) /\ Placed(g)
      /\ \A t \in Tags : Absent(tag, t) => Absent(g, t)
  BY <1>1, <1>2, DropTags
<1>4. pending_refill => Absent(g, refill_tag)
  BY <1>3 DEF LinesOK
<1> QED
  BY <1>1, <1>2, <1>3, <1>4, LinesNext DEF LinesOK

(* handle_req: a miss that is refilled at once.                            *)
LEMMA RefillDoneLines ==
    ASSUME LinesOK, ways' = ways, ~pending_refill, NEW r \in Reqs, NEW q, RefillDone(r, q)
    PROVE  LinesOK'
<1>1. PICK l \in WaysOf(Tag[r]) : /\ tag' = [tag EXCEPT ![l] = Tag[r]]
                                  /\ data' = [data EXCEPT ![l] = Tag[r]]
  BY DEF RefillDone
<1>2. /\ ~Hit(r) /\ pending_refill' = pending_refill
      /\ refill_line' = refill_line /\ refill_tag' = refill_tag
  BY DEF RefillDone
<1>3. Absent(tag, Tag[r]) /\ Tag[r] \in Tags
  BY <1>2, MissAbsent, TagTypes DEF LinesOK
<1>4. PICK g : g = tag'
  OBVIOUS
<1>5. g \in [Lines -> Tags \cup {None}] /\ Unique(g) /\ Placed(g)
  BY <1>1, <1>3, <1>4, PutTag DEF LinesOK
<1>6. data' \in [Lines -> Tags \cup {None}]
  BY <1>1, <1>3 DEF LinesOK
<1> QED
  BY <1>2, <1>4, <1>5, <1>6, LinesNext DEF LinesOK

(* handle_req: a refill that the slave keeps.                              *)
LEMMA RefillGrantedLines ==
    ASSUME LinesOK, ways' = ways, NEW r \in Reqs, NEW q, RefillGranted(r, q)
    PROVE  LinesOK'
<1>1. PICK l \in WaysOf(Tag[r]) : refill_line' = l /\ data' = [data EXCEPT ![l] = None]
  BY DEF RefillGranted
<1>2. ~Hit(r) /\ tag' = tag /\ refill_tag' = Tag[r]
  BY DEF RefillGranted
<1>3. Absent(tag, Tag[r]) /\ Tag[r] \in Tags
  BY <1>2, MissAbsent, TagTypes DEF LinesOK
<1>4. data' \in [Lines -> Tags \cup {None}] /\ l \in Lines
  BY <1>1 DEF LinesOK, WaysOf
<1> QED
  BY <1>1, <1>2, <1>3, <1>4, LinesNext DEF LinesOK

(* refill_resp: the bytes of the refill, then the tag with the last.       *)
LEMMA RefillBeatLines ==
    ASSUME LinesOK, RefillBeat
    PROVE  LinesOK'
<1>1. data' \in [Lines -> Tags \cup {None}]
  BY DEF LinesOK, RefillBeat, Filled
<1> QED
  BY <1>1, LinesNext DEF LinesOK, RefillBeat, qvars, wvars

LEMMA RefillRespLines ==
    ASSUME LinesOK, RefillResp, pending_refill
    PROVE  LinesOK'
<1>1. /\ refill_tag \in Tags /\ refill_line \in WaysOf(refill_tag) /\ Absent(tag, refill_tag)
      /\ tag \in [Lines -> Tags \cup {None}] /\ Unique(tag) /\ Placed(tag)
  BY DEF LinesOK
<1>2. data' \in [Lines -> Tags \cup {None}]
  BY DEF LinesOK, RefillResp, Filled
<1>3. /\ ways' = ways /\ refill_line' = None /\ refill_tag' = None /\ pending_refill' = FALSE
      /\ tag' \in {tag, [tag EXCEPT ![refill_line] = refill_tag]}
  BY DEF RefillResp, wvars
<1>4. PICK g : g = tag'
  OBVIOUS
<1>5. g \in [Lines -> Tags \cup {None}] /\ Unique(g) /\ Placed(g)
  BY <1>1, <1>3, <1>4, PutTag
<1> QED
  BY <1>2, <1>3, <1>4, <1>5, LinesNext
----------------------------------------------------------------------------
(* The queue and what the master knows.                                    *)

MasterStates == {"idle", "denied", "retrying", "granted"}

(* What makes up the queue after a step.                                   *)
LEMMA QueueNext ==
    ASSUME NEW q \in Seq(Reqs), q = refill_pending_reqs', IsInjective(q),
           NEW m \in [Reqs -> MasterStates], m = mst',
           NEW b \in SUBSET Reqs, b = bypassed', moved' = b, ToSet(q) \cap b = {},
           \A r \in Reqs : m[r] = "granted" <=> r \in ToSet(q) \cup b
    PROVE  QueueOK'
<1>1. ToSet(q) \subseteq Reqs
  BY InToSet
<1>2. {r \in Reqs : m[r] = "granted"} = ToSet(q) \cup b
  BY <1>1
<1> QED
  BY <1>2 DEF QueueOK, GrantedHeld, MasterStates

(* What it says of a request.                                              *)
LEMMA QueueFacts ==
    ASSUME QueueOK
    PROVE  /\ refill_pending_reqs \in Seq(Reqs) /\ IsInjective(refill_pending_reqs)
           /\ mst \in [Reqs -> MasterStates] /\ bypassed \in SUBSET Reqs /\ moved = bypassed
           /\ ToSet(refill_pending_reqs) \cap bypassed = {}
           /\ \A r \in Reqs : mst[r] = "granted" <=> r \in ToSet(refill_pending_reqs) \cup bypassed
<1>1. {r \in Reqs : mst[r] = "granted"} = ToSet(refill_pending_reqs) \cup bypassed
  BY DEF QueueOK, GrantedHeld
<1> QED
  BY <1>1 DEF QueueOK, GrantedHeld, MasterStates

(* No request moves, and none becomes or ceases to be granted.             *)
LEMMA QueueIdle ==
    ASSUME QueueOK, NEW m \in [Reqs -> MasterStates], m = mst',
           \A r \in Reqs : m[r] = "granted" <=> mst[r] = "granted",
           refill_pending_reqs' = refill_pending_reqs, bypassed' = bypassed, moved' = bypassed
    PROVE  QueueOK'
BY QueueFacts, QueueNext

LEMMA QueueSame ==
    ASSUME QueueOK, UNCHANGED mst, UNCHANGED refill_pending_reqs, UNCHANGED bypassed,
           UNCHANGED moved
    PROVE  QueueOK'
BY QueueFacts, QueueIdle

(* A request that was not granted is done with or denied.                  *)
LEMMA QueueNotGranted ==
    ASSUME QueueOK, NEW r \in Reqs, mst[r] # "granted", NEW st \in {"idle", "denied"},
           Becomes(r, st), refill_pending_reqs' = refill_pending_reqs,
           bypassed' = bypassed, moved' \in {moved, Undone(r)}
    PROVE  QueueOK'
<1>1. PICK m : m = mst'
  OBVIOUS
<1>2. /\ m \in [Reqs -> MasterStates]
      /\ \A x \in Reqs : m[x] = IF x = r THEN st ELSE mst[x]
  BY <1>1, QueueFacts DEF Becomes, MasterStates
<1>3. moved' = bypassed
  <2>1. moved = bypassed /\ r \notin bypassed
    BY QueueFacts
  <2> QED
    BY <2>1 DEF Undone
<1> QED
  BY <1>1, <1>2, <1>3, QueueIdle

(* A request joins those at the slave.                                     *)
LEMMA QueueBypassed ==
    ASSUME QueueOK, NEW r \in Reqs, mst[r] # "granted", Becomes(r, "granted"),
           refill_pending_reqs' = refill_pending_reqs,
           bypassed' = bypassed \cup {r}, moved' = moved \cup {r}
    PROVE  QueueOK'
<1>1. PICK m, b : m = mst' /\ b = bypassed'
  OBVIOUS
<1>2. /\ m \in [Reqs -> MasterStates]
      /\ \A x \in Reqs : m[x] = IF x = r THEN "granted" ELSE mst[x]
  BY <1>1, QueueFacts DEF Becomes, MasterStates
<1>3. r \notin ToSet(refill_pending_reqs)
  BY QueueFacts
<1>4. b \in SUBSET Reqs /\ ToSet(refill_pending_reqs) \cap b = {} /\ moved' = b
  BY <1>1, <1>3, QueueFacts
<1>5. \A x \in Reqs : m[x] = "granted" <=> x \in ToSet(refill_pending_reqs) \cup b
  BY <1>1, <1>2, QueueFacts
<1>6. /\ refill_pending_reqs \in Seq(Reqs) /\ refill_pending_reqs = refill_pending_reqs'
      /\ IsInjective(refill_pending_reqs)
  BY QueueFacts
<1> QED
  BY ONLY <1>1, <1>2, <1>4, <1>5, <1>6, QueueNext

(* A request joins the queue, or the one at its head goes on waiting.      *)
LEMMA QueueJoined ==
    ASSUME QueueOK, NEW r \in Reqs, NEW q \in Seq(Reqs), q = refill_pending_reqs',
           IsInjective(q), ToSet(q) = ToSet(refill_pending_reqs) \cup {r}, r \notin bypassed,
           Becomes(r, "granted"), bypassed' = bypassed, moved' = moved
    PROVE  QueueOK'
<1>1. PICK m : m = mst'
  OBVIOUS
<1>2. /\ m \in [Reqs -> MasterStates]
      /\ \A x \in Reqs : m[x] = IF x = r THEN "granted" ELSE mst[x]
  BY <1>1, QueueFacts DEF Becomes, MasterStates
<1>3. ToSet(q) \cap bypassed = {}
  BY QueueFacts
<1>4. \A x \in Reqs : m[x] = "granted" <=> x \in ToSet(q) \cup bypassed
  BY <1>2, QueueFacts
<1> QED
  BY <1>1, <1>2, <1>3, <1>4, QueueFacts, QueueNext

(* The head of the queue is answered.                                      *)
LEMMA QueueAnswered ==
    ASSUME QueueOK, refill_pending_reqs # <<>>, Answer(Head(refill_pending_reqs)),
           refill_pending_reqs' = Tail(refill_pending_reqs), bypassed' = bypassed, moved' = moved
    PROVE  QueueOK' /\ \A x \in Reqs : mst'[x] = "denied" => mst[x] = "denied"
<1> DEFINE s == refill_pending_reqs
           h == Head(s)
<1>1. PICK m, q : m = mst' /\ q = refill_pending_reqs'
  OBVIOUS
<1>2. /\ h \in Reqs /\ q \in Seq(Reqs) /\ IsInjective(q) /\ h \notin ToSet(q)
      /\ ToSet(s) = ToSet(q) \cup {h}
  BY <1>1, QueueFacts, TailQueue
<1>3. mst[h] = "granted"
  BY <1>2, QueueFacts
<1>4. m = [mst EXCEPT ![h] = "idle"]
  BY <1>1, <1>3 DEF Answer, Becomes
<1> HIDE DEF s, h
<1>5. /\ m \in [Reqs -> MasterStates]
      /\ \A x \in Reqs : m[x] = IF x = h THEN "idle" ELSE mst[x]
  BY <1>2, <1>4, QueueFacts DEF MasterStates
<1>6. ToSet(q) \cap bypassed = {} /\ h \notin bypassed
  BY <1>2, QueueFacts DEF s
<1>7. \A x \in Reqs : m[x] = "granted" <=> x \in ToSet(q) \cup bypassed
  BY <1>2, <1>5, <1>6, QueueFacts DEF s
<1>8. QueueOK'
  <2>1. q \in Seq(Reqs) /\ q = refill_pending_reqs' /\ IsInjective(q)
    BY <1>1, <1>2
  <2>2. bypassed \in SUBSET Reqs /\ bypassed = bypassed' /\ moved' = bypassed
    BY QueueFacts
  <2>3. m \in [Reqs -> MasterStates] /\ m = mst' /\ ToSet(q) \cap bypassed = {}
    BY <1>1, <1>5, <1>6
  <2> QED
    BY ONLY <1>7, <2>1, <2>2, <2>3, QueueNext
<1> QED
  BY <1>1, <1>5, <1>8

(* A request at the slave is answered.                                     *)
LEMMA QueueBypassResp ==
    ASSUME QueueOK, NEW r \in bypassed, Answer(r), refill_pending_reqs' = refill_pending_reqs,
           bypassed' = bypassed \ {r}, moved' = moved \ {r}
    PROVE  QueueOK' /\ \A x \in Reqs : mst'[x] = "denied" => mst[x] = "denied"
<1>1. PICK m, b : m = mst' /\ b = bypassed'
  OBVIOUS
<1>2. r \in Reqs /\ mst[r] = "granted" /\ r \notin ToSet(refill_pending_reqs)
  BY QueueFacts
<1>3. m = [mst EXCEPT ![r] = "idle"]
  BY <1>1, <1>2 DEF Answer, Becomes
<1>4. /\ m \in [Reqs -> MasterStates]
      /\ \A x \in Reqs : m[x] = IF x = r THEN "idle" ELSE mst[x]
  BY <1>2, <1>3, QueueFacts DEF MasterStates
<1>5. b \in SUBSET Reqs /\ ToSet(refill_pending_reqs) \cap b = {} /\ moved' = b
  BY <1>1, QueueFacts
<1>6. \A x \in Reqs : m[x] = "granted" <=> x \in ToSet(refill_pending_reqs) \cup b
  BY <1>1, <1>2, <1>4, QueueFacts
<1>7. QueueOK'
  <2>1. /\ refill_pending_reqs \in Seq(Reqs) /\ refill_pending_reqs = refill_pending_reqs'
        /\ IsInjective(refill_pending_reqs)
    BY QueueFacts
  <2>2. m \in [Reqs -> MasterStates] /\ m = mst'
    BY <1>1, <1>4
  <2>3. /\ b \in SUBSET Reqs /\ b = bypassed' /\ moved' = b
        /\ ToSet(refill_pending_reqs) \cap b = {}
    BY <1>1, <1>5
  <2> QED
    BY ONLY <1>6, <2>1, <2>2, <2>3, QueueNext
<1> QED
  BY <1>1, <1>4, <1>7
----------------------------------------------------------------------------
(* The steps.                                                              *)

(* A request is looked up, and its line refilled at once or not at all.    *)
LEMMA HandleLines ==
    ASSUME LinesOK, ways' = ways, ~pending_refill, NEW r \in Reqs, NEW q,
           HandleHit(r, q) \/ RefillDone(r, q) \/ RefillDenied(r, q)
    PROVE  LinesOK'
<1>1. CASE HandleHit(r, q)
  BY <1>1, LinesIdle DEF HandleHit, lvars
<1>2. CASE RefillDone(r, q)
  BY <1>2, RefillDoneLines
<1>3. CASE RefillDenied(r, q)
  BY <1>3, LinesIdle DEF RefillDenied, lvars
<1> QED
  BY <1>1, <1>2, <1>3

(* The master's states after one of its requests changed to st.            *)
LEMMA MasterNext ==
    ASSUME QueueOK, NEW r \in Reqs, NEW st, Becomes(r, st)
    PROVE  \A x \in Reqs : mst'[x] = IF x = r THEN st ELSE mst[x]
BY QueueFacts DEF Becomes

LEMMA BypassKeeps ==
    ASSUME IInv, NEW r \in Reqs, mst[r] \in {"idle", "retrying"}, Bypass(r),
           UNCHANGED <<wvars, cb>>
    PROVE  IInv'
<1> USE DEF IInv
<1>1. /\ UNCHANGED ways /\ UNCHANGED enabled /\ UNCHANGED flush_line_addr /\ UNCHANGED cb
      /\ UNCHANGED tag /\ UNCHANGED data
      /\ UNCHANGED refill_pending_reqs /\ UNCHANGED pending_refill /\ UNCHANGED refill_line
      /\ UNCHANGED refill_tag /\ UNCHANGED pending_line_offset /\ UNCHANGED refills
      /\ UNCHANGED refill_retry_pending /\ UNCHANGED fsm_event
  BY DEF Bypass, lvars, qvars, wvars
<1>2. /\ input_needs_retry' \in {input_needs_retry, TRUE} /\ owes' \in {owes, TRUE}
      /\ owes => owes'
  BY DEF Bypass, FlagsOK
<1>3. FlagsOK'
  BY <1>1, <1>2 DEF FlagsOK
<1>4. LinesOK'
  BY <1>1, LinesIdle
<1>5. QueueOK' /\ (input_needs_retry' => owes' \/ input_needs_retry)
      /\ ((\E x \in Reqs : mst'[x] = "denied") => input_needs_retry')
  <2>1. CASE Becomes(r, "idle") /\ UNCHANGED <<moved, bypassed, input_needs_retry, owes>>
    <3>1. QueueOK'
      BY <1>1, <2>1, QueueNotGranted
    <3> QED
      BY <2>1, <3>1, MasterNext DEF WaitsOK
  <2>2. CASE /\ Becomes(r, "granted") /\ moved' = moved \cup {r} /\ bypassed' = bypassed \cup {r}
             /\ UNCHANGED <<input_needs_retry, owes>>
    <3>1. QueueOK'
      BY <1>1, <2>2, QueueBypassed
    <3> QED
      BY <2>2, <3>1, MasterNext DEF WaitsOK
  <2>3. CASE /\ Becomes(r, "denied") /\ moved' = Undone(r) /\ UNCHANGED bypassed
             /\ input_needs_retry' = TRUE /\ owes' = TRUE
    <3>1. QueueOK'
      BY <1>1, <2>3, QueueNotGranted
    <3> QED
      BY <2>3, <3>1
  <2> QED
    BY <2>1, <2>2, <2>3 DEF Bypass
<1>6. OwnerOK'
  BY <1>1 DEF OwnerOK
<1>7. WaitsOK'
  BY <1>1, <1>2, <1>5 DEF WaitsOK, Blocked
<1> QED
  BY <1>3, <1>4, <1>5, <1>6, <1>7

LEMMA EnqueueKeeps ==
    ASSUME IInv, NEW r \in Reqs, mst[r] \in {"idle", "retrying"}, Enqueue(r),
           UNCHANGED <<wvars, cb>>
    PROVE  IInv'
<1> USE DEF IInv
<1>1. /\ UNCHANGED ways /\ UNCHANGED enabled /\ UNCHANGED flush_line_addr /\ UNCHANGED cb
      /\ UNCHANGED tag /\ UNCHANGED data
      /\ UNCHANGED pending_refill /\ UNCHANGED refill_line
      /\ UNCHANGED refill_tag /\ UNCHANGED pending_line_offset /\ UNCHANGED refills
      /\ UNCHANGED refill_retry_pending /\ UNCHANGED input_needs_retry
      /\ UNCHANGED moved /\ UNCHANGED bypassed /\ UNCHANGED owes
      /\ Blocked /\ Becomes(r, "granted")
      /\ refill_pending_reqs' = Append(refill_pending_reqs, r)
  BY DEF Enqueue, lvars, wvars
<1>2. r \notin ToSet(refill_pending_reqs) /\ r \notin bypassed
  BY QueueFacts
<1>3. PICK q : q = refill_pending_reqs'
  OBVIOUS
<1>4. /\ q \in Seq(Reqs) /\ q # <<>> /\ ToSet(q) = ToSet(refill_pending_reqs) \cup {r}
      /\ IsInjective(q)
      /\ refill_pending_reqs # <<>> => Head(q) = Head(refill_pending_reqs)
  BY <1>1, <1>2, <1>3, QueueFacts, AppendQueue
<1>5. FlagsOK'
  BY <1>1 DEF FlagsOK, Enqueue, CheckState
<1>6. LinesOK'
  BY <1>1, LinesIdle
<1>7. QueueOK'
  BY <1>1, <1>2, <1>3, <1>4, QueueJoined
<1>8. OwnerOK'
  BY <1>1, <1>3, <1>4 DEF OwnerOK
<1>9. WaitsOK'
  BY <1>1, MasterNext DEF WaitsOK, Blocked
<1> QED
  BY <1>5, <1>6, <1>7, <1>8, <1>9

LEMMA ServeKeeps ==
    ASSUME IInv, NEW r \in Reqs, mst[r] \in {"idle", "retrying"}, Serve(r),
           UNCHANGED <<wvars, cb>>
    PROVE  IInv'
<1> USE DEF IInv
<1> DEFINE q == refill_pending_reqs
<1>1. /\ UNCHANGED ways /\ UNCHANGED enabled /\ UNCHANGED flush_line_addr /\ UNCHANGED cb
      /\ UNCHANGED fsm_event /\ UNCHANGED moved /\ UNCHANGED bypassed
      /\ ~pending_refill /\ ~refill_retry_pending
  BY DEF Serve, wvars, Blocked
<1>2. r \notin ToSet(q) /\ r \notin bypassed
  BY QueueFacts
<1>3. CASE /\ HandleHit(r, q) \/ RefillDone(r, q)
           /\ Becomes(r, "idle") /\ UNCHANGED input_needs_retry
  <2>1. /\ UNCHANGED pending_refill /\ UNCHANGED pending_line_offset /\ UNCHANGED refills
        /\ UNCHANGED refill_pending_reqs /\ UNCHANGED refill_retry_pending /\ UNCHANGED owes
    BY <1>3 DEF HandleHit, RefillDone
  <2>2. FlagsOK'
    BY <1>1, <1>3, <2>1 DEF FlagsOK
  <2>3. LinesOK'
    BY <1>1, <1>3, HandleLines
  <2>4. QueueOK'
    BY <1>1, <1>3, <2>1, QueueNotGranted
  <2>5. OwnerOK'
    BY <1>1, <2>1 DEF OwnerOK
  <2>6. WaitsOK'
    BY <1>1, <1>3, <2>1, MasterNext DEF WaitsOK, Blocked
  <2> QED
    BY <2>2, <2>3, <2>4, <2>5, <2>6
<1>4. CASE RefillGranted(r, q) /\ Becomes(r, "granted") /\ UNCHANGED input_needs_retry
  <2>1. /\ pending_refill' = TRUE /\ refills' = refills + 1 /\ UNCHANGED refill_retry_pending
        /\ UNCHANGED owes /\ refill_tag' = Tag[r] /\ pending_line_offset' = r
        /\ refill_pending_reqs' = Parked(r, q)
    BY <1>4 DEF RefillGranted
  <2>2. PICK p : p = refill_pending_reqs'
    OBVIOUS
  <2>3. /\ p \in Seq(Reqs) /\ p # <<>> /\ ToSet(p) = ToSet(refill_pending_reqs) \cup {r}
        /\ IsInjective(p) /\ Head(p) = r
    BY <1>2, <2>1, <2>2, QueueFacts, ParkedQueue
  <2>4. FlagsOK'
    BY <1>1, <1>4, <2>1 DEF FlagsOK
  <2>5. LinesOK'
    BY <1>1, <1>4, RefillGrantedLines
  <2>6. QueueOK'
    BY <1>1, <1>2, <1>4, <2>2, <2>3, QueueJoined
  <2>7. OwnerOK'
    BY <1>1, <2>1, <2>2, <2>3 DEF OwnerOK
  <2>8. WaitsOK'
    BY <1>1, <1>4, <2>1, MasterNext DEF WaitsOK, Blocked
  <2> QED
    BY <2>4, <2>5, <2>6, <2>7, <2>8
<1>5. CASE RefillDenied(r, q) /\ Becomes(r, "denied") /\ input_needs_retry' = NeedsRetry
  <2>1. /\ UNCHANGED pending_refill /\ UNCHANGED pending_line_offset /\ UNCHANGED refills
        /\ UNCHANGED refill_pending_reqs /\ refill_retry_pending' = TRUE /\ owes' = TRUE
        /\ input_needs_retry' = TRUE
    BY <1>5 DEF RefillDenied, NeedsRetry
  <2>2. FlagsOK'
    BY <1>1, <2>1 DEF FlagsOK
  <2>3. LinesOK'
    BY <1>1, <1>5, HandleLines
  <2>4. QueueOK'
    BY <1>1, <1>5, <2>1, QueueNotGranted
  <2>5. OwnerOK'
    BY <1>1, <2>1 DEF OwnerOK
  <2>6. WaitsOK'
    BY <2>1 DEF WaitsOK, Blocked
  <2> QED
    BY <2>2, <2>3, <2>4, <2>5, <2>6
<1> QED
  BY <1>3, <1>4, <1>5 DEF Serve
LEMMA CallbackReturnsKeeps ==
    ASSUME IInv, CallbackReturns
    PROVE  IInv'
<1> USE DEF IInv
<1>1. /\ UNCHANGED ways /\ UNCHANGED enabled /\ UNCHANGED flush_line_addr
      /\ UNCHANGED tag /\ UNCHANGED data /\ UNCHANGED refill_pending_reqs
      /\ UNCHANGED pending_refill /\ UNCHANGED refill_line
      /\ UNCHANGED refill_tag /\ UNCHANGED pending_line_offset /\ UNCHANGED refills
      /\ UNCHANGED refill_retry_pending /\ UNCHANGED input_needs_retry
      /\ UNCHANGED mst /\ UNCHANGED moved /\ UNCHANGED bypassed /\ UNCHANGED owes
      /\ cb' = "none"
      /\ fsm_event' = IF cb = "check"
                        THEN CheckState(refill_pending_reqs, pending_refill, refill_retry_pending)
                        ELSE fsm_event
  BY DEF CallbackReturns, lvars, qvars, wvars
<1>2. FlagsOK'
  BY <1>1 DEF FlagsOK, CheckState
<1>3. LinesOK'
  BY <1>1, LinesIdle
<1>4. QueueOK'
  BY <1>1, QueueSame
<1>5. OwnerOK'
  BY <1>1 DEF OwnerOK
<1>6. WaitsOK'
  BY <1>1 DEF WaitsOK, Blocked, CheckState
<1> QED
  BY <1>2, <1>3, <1>4, <1>5, <1>6

LEMMA BypassRespKeeps ==
    ASSUME IInv, NEW r \in Reqs, BypassResp(r)
    PROVE  IInv'
<1> USE DEF IInv
<1>1. /\ UNCHANGED ways /\ UNCHANGED enabled /\ UNCHANGED flush_line_addr
      /\ UNCHANGED tag /\ UNCHANGED data /\ UNCHANGED refill_pending_reqs
      /\ UNCHANGED pending_refill /\ UNCHANGED refill_line
      /\ UNCHANGED refill_tag /\ UNCHANGED pending_line_offset /\ UNCHANGED refills
      /\ UNCHANGED refill_retry_pending /\ UNCHANGED input_needs_retry /\ UNCHANGED fsm_event
      /\ UNCHANGED owes /\ r \in bypassed /\ Answer(r) /\ cb = "none" /\ cb' = "pass"
      /\ bypassed' = bypassed \ {r} /\ moved' = moved \ {r}
  BY DEF BypassResp, lvars, qvars, wvars, Quiet
<1>2. FlagsOK'
  BY <1>1 DEF FlagsOK
<1>3. LinesOK'
  BY <1>1, LinesIdle
<1>4. QueueOK' /\ \A x \in Reqs : mst'[x] = "denied" => mst[x] = "denied"
  BY <1>1, QueueBypassResp
<1>5. OwnerOK'
  BY <1>1 DEF OwnerOK
<1>6. WaitsOK'
  BY <1>1, <1>4 DEF WaitsOK, Blocked
<1> QED
  BY <1>2, <1>3, <1>4, <1>5, <1>6

LEMMA RefillBeatKeeps ==
    ASSUME IInv, RefillBeat
    PROVE  IInv'
<1> USE DEF IInv
<1>1. /\ UNCHANGED ways /\ UNCHANGED enabled /\ UNCHANGED flush_line_addr
      /\ UNCHANGED refill_pending_reqs /\ UNCHANGED pending_refill
      /\ UNCHANGED refill_tag /\ UNCHANGED pending_line_offset /\ UNCHANGED refills
      /\ UNCHANGED refill_retry_pending /\ UNCHANGED input_needs_retry /\ UNCHANGED fsm_event
      /\ UNCHANGED mst /\ UNCHANGED moved /\ UNCHANGED bypassed /\ UNCHANGED owes /\ UNCHANGED cb
  BY DEF RefillBeat, qvars, wvars
<1>2. FlagsOK'
  BY <1>1 DEF FlagsOK
<1>3. LinesOK'
  BY RefillBeatLines
<1>4. QueueOK'
  BY <1>1, QueueSame
<1>5. OwnerOK'
  BY <1>1 DEF OwnerOK
<1>6. WaitsOK'
  BY <1>1 DEF WaitsOK, Blocked
<1> QED
  BY <1>2, <1>3, <1>4, <1>5, <1>6

LEMMA RefillRespKeeps ==
    ASSUME IInv, RefillResp
    PROVE  IInv'
<1> USE DEF IInv
<1>1. /\ UNCHANGED ways /\ UNCHANGED enabled /\ UNCHANGED flush_line_addr
      /\ UNCHANGED refill_retry_pending /\ UNCHANGED input_needs_retry /\ UNCHANGED fsm_event
      /\ UNCHANGED moved /\ UNCHANGED bypassed /\ UNCHANGED owes
      /\ refills > 0 /\ refills' = refills - 1
      /\ refill_pending_reqs # <<>> /\ refill_pending_reqs' = Tail(refill_pending_reqs)
      /\ pending_refill' = FALSE /\ cb' = "check" /\ pending_line_offset' = None
      /\ Answer(Head(refill_pending_reqs))
  BY DEF RefillResp, wvars
<1>2. pending_refill
  BY <1>1 DEF OwnerOK
<1>3. FlagsOK'
  BY <1>1 DEF FlagsOK
<1>4. LinesOK'
  BY <1>2, RefillRespLines
<1>5. QueueOK' /\ \A x \in Reqs : mst'[x] = "denied" => mst[x] = "denied"
  BY <1>1, QueueAnswered
<1>6. OwnerOK'
  BY <1>1, <1>2 DEF OwnerOK
<1>7. WaitsOK'
  BY <1>1, <1>5 DEF WaitsOK, Blocked
<1> QED
  BY <1>3, <1>4, <1>5, <1>6, <1>7

LEMMA RetryKeeps ==
    ASSUME IInv, refill_retry
    PROVE  IInv'
<1> USE DEF IInv
<1>1. /\ UNCHANGED ways /\ UNCHANGED enabled /\ UNCHANGED flush_line_addr
      /\ UNCHANGED tag /\ UNCHANGED data /\ UNCHANGED refill_pending_reqs
      /\ UNCHANGED pending_refill /\ UNCHANGED refill_line
      /\ UNCHANGED refill_tag /\ UNCHANGED pending_line_offset /\ UNCHANGED refills
      /\ UNCHANGED moved /\ UNCHANGED bypassed
      /\ owes' = FALSE /\ refill_retry_pending' = FALSE /\ input_needs_retry' = FALSE
  BY DEF refill_retry, lvars, qvars, wvars
<1>2. LinesOK'
  BY <1>1, LinesIdle
<1>3. OwnerOK'
  BY <1>1 DEF OwnerOK
<1>4. CASE input_needs_retry
  <2>1. /\ mst' = [r \in Reqs |-> IF mst[r] = "denied" THEN "retrying" ELSE mst[r]]
        /\ cb' = "check" /\ UNCHANGED fsm_event
    BY <1>4 DEF refill_retry
  <2>2. PICK m : m = mst'
    OBVIOUS
  <2>3. /\ m \in [Reqs -> MasterStates]
        /\ \A r \in Reqs : m[r] = IF mst[r] = "denied" THEN "retrying" ELSE mst[r]
    BY <2>1, <2>2, QueueFacts DEF MasterStates
  <2>4. \A r \in Reqs : m[r] = "granted" <=> mst[r] = "granted"
    BY <2>3
  <2>5. moved' = bypassed
    BY <1>1, QueueFacts
  <2>6. QueueOK'
    BY <1>1, <2>2, <2>3, <2>4, <2>5, QueueIdle
  <2>7. FlagsOK'
    BY <1>1, <2>1 DEF FlagsOK
  <2>8. WaitsOK'
    BY <1>1, <2>1, <2>2, <2>3 DEF WaitsOK, Blocked
  <2> QED
    BY <1>2, <1>3, <2>6, <2>7, <2>8
<1>5. CASE ~input_needs_retry
  <2>1. /\ fsm_event' = CheckState(refill_pending_reqs, pending_refill, FALSE)
        /\ UNCHANGED mst /\ UNCHANGED cb
    BY <1>5 DEF refill_retry
  <2>2. QueueOK'
    BY <1>1, <2>1, QueueSame
  <2>3. FlagsOK'
    BY <1>1, <2>1 DEF FlagsOK, CheckState
  <2>4. WaitsOK'
    BY <1>1, <1>5, <2>1 DEF WaitsOK, Blocked, CheckState
  <2> QED
    BY <1>2, <1>3, <2>2, <2>3, <2>4
<1> QED
  BY <1>4, <1>5

(* fsm_handler: the head of the queue is looked up again.                  *)
LEMMA DrainKeeps ==
    ASSUME IInv, fsm_handler
    PROVE  IInv'
<1> USE DEF IInv
<1> DEFINE s == refill_pending_reqs
           h == Head(s)
<1>1. /\ UNCHANGED ways /\ UNCHANGED enabled /\ UNCHANGED flush_line_addr
      /\ UNCHANGED input_needs_retry /\ UNCHANGED moved /\ UNCHANGED bypassed
      /\ cb = "none" /\ fsm_event' = FALSE
  BY DEF fsm_handler, wvars, Quiet
<1>2. s # <<>> => /\ h \in Reqs /\ Tail(s) \in Seq(Reqs) /\ IsInjective(Tail(s))
                  /\ h \notin ToSet(Tail(s)) /\ ToSet(s) = ToSet(Tail(s)) \cup {h}
  BY QueueFacts, TailQueue
<1>3. CASE DrainDone
  <2>1. /\ ~pending_refill /\ ~refill_retry_pending /\ s # <<>> /\ Answer(h) /\ cb' = "check"
        /\ HandleHit(h, Tail(s)) \/ RefillDone(h, Tail(s))
    BY <1>3 DEF DrainDone, Blocked
  <2>2. /\ UNCHANGED pending_refill /\ UNCHANGED pending_line_offset /\ UNCHANGED refills
        /\ refill_pending_reqs' = Tail(s) /\ UNCHANGED refill_retry_pending /\ UNCHANGED owes
    BY <2>1 DEF HandleHit, RefillDone
  <2>3. FlagsOK'
    BY <1>1, <2>1, <2>2 DEF FlagsOK
  <2>4. LinesOK'
    BY <1>1, <1>2, <2>1, HandleLines
  <2>5. QueueOK' /\ \A x \in Reqs : mst'[x] = "denied" => mst[x] = "denied"
    BY <1>1, <2>1, <2>2, QueueAnswered
  <2>6. OwnerOK'
    BY <2>1, <2>2 DEF OwnerOK
  <2>7. WaitsOK'
    BY <1>1, <2>1, <2>2, <2>5 DEF WaitsOK
  <2> QED
    BY <2>3, <2>4, <2>5, <2>6, <2>7
<1>4. CASE DrainGranted
  <2>1. /\ ~pending_refill /\ ~refill_retry_pending /\ s # <<>> /\ UNCHANGED mst /\ UNCHANGED cb
        /\ RefillGranted(h, Tail(s))
    BY <1>4 DEF DrainGranted, Blocked
  <2>2. /\ pending_refill' = TRUE /\ refills' = refills + 1 /\ UNCHANGED refill_retry_pending
        /\ UNCHANGED owes /\ refill_tag' = Tag[h] /\ pending_line_offset' = h
        /\ refill_pending_reqs' = Parked(h, Tail(s))
    BY <2>1 DEF RefillGranted
  <2>3. PICK p : p = refill_pending_reqs'
    OBVIOUS
  <2>4. /\ p \in Seq(Reqs) /\ p # <<>> /\ ToSet(p) = ToSet(s)
        /\ IsInjective(p) /\ Head(p) = h
    <3>1. PICK e, t : e = h /\ t = Tail(s)
      OBVIOUS
    <3>2. e \in Reqs /\ t \in Seq(Reqs) /\ IsInjective(t) /\ e \notin ToSet(t)
      BY <1>2, <2>1, <3>1
    <3>3. p = Parked(e, t) /\ ToSet(s) = ToSet(t) \cup {e}
      BY <1>2, <2>1, <2>2, <2>3, <3>1
    <3> HIDE DEF s, h
    <3>4. /\ Parked(e, t) \in Seq(Reqs) /\ Parked(e, t) # <<>>
          /\ ToSet(Parked(e, t)) = ToSet(t) \cup {e}
          /\ IsInjective(Parked(e, t)) /\ Head(Parked(e, t)) = e
      BY ONLY <3>2, ParkedQueue
    <3> QED
      BY <3>1, <3>3, <3>4
  <2>5. FlagsOK'
    BY <1>1, <2>1, <2>2 DEF FlagsOK
  <2>6. LinesOK'
    BY <1>1, <1>2, <2>1, RefillGrantedLines
  <2>7. QueueOK'
    <3>1. /\ mst \in [Reqs -> MasterStates] /\ mst = mst' /\ bypassed \in SUBSET Reqs
          /\ bypassed = bypassed' /\ moved' = bypassed /\ ToSet(p) \cap bypassed = {}
          /\ \A r \in Reqs : mst[r] = "granted" <=> r \in ToSet(p) \cup bypassed
      BY <1>1, <2>1, <2>4, QueueFacts
    <3> QED
      BY ONLY <2>3, <2>4, <3>1, QueueNext
  <2>8. OwnerOK'
    BY <1>2, <2>1, <2>2, <2>3, <2>4 DEF OwnerOK
  <2>9. WaitsOK'
    BY <1>1, <2>1, <2>2 DEF WaitsOK, Blocked
  <2> QED
    BY <2>5, <2>6, <2>7, <2>8, <2>9
<1>5. CASE DrainDenied
  <2>1. /\ ~pending_refill /\ ~refill_retry_pending /\ s # <<>> /\ UNCHANGED mst /\ UNCHANGED cb
        /\ RefillDenied(h, s)
    BY <1>5 DEF DrainDenied, Blocked
  <2>2. /\ UNCHANGED pending_refill /\ UNCHANGED pending_line_offset /\ UNCHANGED refills
        /\ UNCHANGED refill_pending_reqs /\ refill_retry_pending' = TRUE /\ owes' = TRUE
    BY <2>1 DEF RefillDenied
  <2>3. FlagsOK'
    BY <1>1, <2>1, <2>2 DEF FlagsOK
  <2>4. LinesOK'
    BY <1>1, <1>2, <2>1, HandleLines
  <2>5. QueueOK'
    BY <1>1, <2>1, <2>2, QueueSame
  <2>6. OwnerOK'
    BY <2>1, <2>2 DEF OwnerOK
  <2>7. WaitsOK'
    BY <1>1, <2>1, <2>2 DEF WaitsOK, Blocked
  <2> QED
    BY <2>3, <2>4, <2>5, <2>6, <2>7
<1>6. CASE DrainNothing
  <2>1. /\ UNCHANGED tag /\ UNCHANGED data /\ UNCHANGED refill_pending_reqs
        /\ UNCHANGED pending_refill /\ UNCHANGED refill_line
        /\ UNCHANGED refill_tag /\ UNCHANGED pending_line_offset /\ UNCHANGED refills
        /\ UNCHANGED refill_retry_pending /\ UNCHANGED owes /\ UNCHANGED mst /\ UNCHANGED cb
        /\ Blocked \/ refill_pending_reqs = <<>>
    BY <1>6 DEF DrainNothing, lvars, qvars
  <2>2. FlagsOK'
    BY <1>1, <2>1 DEF FlagsOK
  <2>3. LinesOK'
    BY <1>1, <2>1, LinesIdle
  <2>4. QueueOK'
    BY <1>1, <2>1, QueueSame
  <2>5. OwnerOK'
    BY <2>1 DEF OwnerOK
  <2>6. WaitsOK'
    BY <1>1, <2>1 DEF WaitsOK, Blocked
  <2> QED
    BY <2>2, <2>3, <2>4, <2>5, <2>6
<1> QED
  BY <1>3, <1>4, <1>5, <1>6 DEF fsm_handler

(* The wires: flags, and lines that lose their tags.                       *)
LEMMA WiresKeep ==
    ASSUME IInv, ways' = ways, Untouched, enabled' \in BOOLEAN,
           flush_line_addr' \in Tags \cup {None},
           UNCHANGED lvars \/ \E S : Invalidate(S)
    PROVE  IInv'
<1> USE DEF IInv
<1>1. /\ UNCHANGED refill_pending_reqs /\ UNCHANGED pending_refill /\ UNCHANGED refill_line
      /\ UNCHANGED refill_tag /\ UNCHANGED pending_line_offset /\ UNCHANGED refills
      /\ UNCHANGED refill_retry_pending /\ UNCHANGED input_needs_retry /\ UNCHANGED fsm_event
      /\ UNCHANGED mst /\ UNCHANGED moved /\ UNCHANGED bypassed /\ UNCHANGED owes /\ UNCHANGED cb
  BY DEF Untouched, qvars
<1>2. FlagsOK'
  BY <1>1 DEF FlagsOK
<1>3. LinesOK'
  <2>1. CASE UNCHANGED lvars
    BY <1>1, <2>1, LinesIdle DEF lvars
  <2>2. CASE \E S : Invalidate(S)
    BY <1>1, <2>2, InvalidateLines
  <2> QED
    BY <2>1, <2>2
<1>4. QueueOK'
  BY <1>1, QueueSame
<1>5. OwnerOK'
  BY <1>1 DEF OwnerOK
<1>6. WaitsOK'
  BY <1>1 DEF WaitsOK, Blocked
<1> QED
  BY <1>2, <1>3, <1>4, <1>5, <1>6

LEMMA ResetKeeps ==
    ASSUME IInv, reset
    PROVE  IInv'
<1> USE DEF IInv
<1>1. /\ UNCHANGED ways /\ UNCHANGED fsm_event /\ UNCHANGED flush_line_addr /\ UNCHANGED cb
      /\ enabled' = cfg_enabled /\ Invalidate(Tags)
      /\ refill_retry_pending' = FALSE /\ input_needs_retry' = FALSE /\ owes' = FALSE
      /\ refill_pending_reqs' = <<>> /\ pending_refill' = FALSE /\ refills' = 0
      /\ mst' = [r \in Reqs |-> "idle"] /\ moved' = {} /\ bypassed' = {}
      /\ refill_line' = None /\ refill_tag' = None /\ pending_line_offset' = None
  BY DEF reset, flush, QueueReset
<1>2. FlagsOK'
  BY <1>1 DEF FlagsOK
<1>3. LinesOK'
  <2>1. /\ tag \in [Lines -> Tags \cup {None}] /\ Unique(tag) /\ Placed(tag)
        /\ tag' = [l \in Lines |-> IF tag[l] \in Tags THEN None ELSE tag[l]]
        /\ data' = data
    BY <1>1 DEF LinesOK, Invalidate
  <2>2. PICK g : g = tag'
    OBVIOUS
  <2>3. tag \in [Lines -> Tags \cup {None}]
    BY ONLY <2>1
  <2>4. Unique(tag) /\ Placed(tag)
    BY ONLY <2>1
  <2>5. g = [l \in Lines |-> IF tag[l] \in Tags THEN None ELSE tag[l]]
    BY ONLY <2>1, <2>2
  <2>6. g \in [Lines -> Tags \cup {None}] /\ Unique(g) /\ Placed(g)
    BY ONLY <2>3, <2>4, <2>5, DropTags
  <2> QED
    BY <1>1, <2>1, <2>2, <2>6, LinesNext DEF LinesOK
<1>4. QueueOK'
  <2>1. \A r \in Reqs : mst'[r] = "idle"
    BY <1>1
  <2>2. {r \in Reqs : mst'[r] = "granted"} = {}
    BY <2>1
  <2> QED
    BY <1>1, <2>2, EmptyQueue DEF QueueOK, GrantedHeld
<1>5. OwnerOK'
  BY <1>1 DEF OwnerOK
<1>6. WaitsOK'
  BY <1>1 DEF WaitsOK
<1> QED
  BY <1>2, <1>3, <1>4, <1>5, <1>6
LEMMA NextKeeps == IInv /\ [Next]_vars => IInv'
<1> SUFFICES ASSUME IInv, [Next]_vars PROVE IInv'
  OBVIOUS
<1>1. CASE \E r \in Reqs : MasterSend(r) \/ MasterResend(r)
  <2>1. PICK r \in Reqs : MasterSend(r) \/ MasterResend(r)
    BY <1>1
  <2>2. mst[r] \in {"idle", "retrying"} /\ input_req(r) /\ UNCHANGED <<wvars, cb>>
    BY <2>1 DEF MasterSend, MasterResend
  <2> QED
    BY <2>2, BypassKeeps, EnqueueKeeps, ServeKeeps DEF input_req
<1>2. CASE \E r \in Reqs : BypassResp(r)
  BY <1>2, BypassRespKeeps
<1>3. CASE CallbackReturns
  BY <1>3, CallbackReturnsKeeps
<1>4. CASE RefillBeat
  BY <1>4, RefillBeatKeeps
<1>5. CASE RefillResp
  BY <1>5, RefillRespKeeps
<1>6. CASE refill_retry
  BY <1>6, RetryKeeps
<1>7. CASE fsm_handler
  BY <1>7, DrainKeeps
<1>8. CASE \E e \in BOOLEAN : enable_sync(e)
  BY <1>8, WiresKeep DEF enable_sync, lvars, IInv, FlagsOK
<1>9. CASE flush_sync
  <2>1. ways' = ways /\ enabled' = enabled /\ flush_line_addr' = flush_line_addr
    BY <1>9 DEF flush_sync, wvars
  <2>2. Invalidate(Tags) /\ Untouched
    BY <1>9 DEF flush_sync, flush
  <2> QED
    BY <2>1, <2>2, WiresKeep DEF IInv, FlagsOK
<1>10. CASE flush_line_sync
  <2>1. ways' = ways /\ enabled' = enabled /\ flush_line_addr' = flush_line_addr
    BY <1>10 DEF flush_line_sync, wvars
  <2>2. Untouched /\ \E S : Invalidate(S)
    BY <1>10 DEF flush_line_sync
  <2> QED
    BY <2>1, <2>2, WiresKeep DEF IInv, FlagsOK
<1>11. CASE \E t \in Tags : flush_line_addr_sync(t)
  BY <1>11, WiresKeep DEF flush_line_addr_sync, lvars, IInv, FlagsOK
<1>12. CASE reset
  BY <1>12, ResetKeeps
<1>13. CASE UNCHANGED vars
  <2>1. ways' = ways /\ enabled' = enabled /\ flush_line_addr' = flush_line_addr
    BY <1>13 DEF vars, wvars
  <2>2. UNCHANGED lvars /\ Untouched
    BY <1>13 DEF vars, Untouched
  <2> QED
    BY <2>1, <2>2, WiresKeep DEF IInv, FlagsOK
<1> QED
  BY <1>1, <1>2, <1>3, <1>4, <1>5, <1>6, <1>7, <1>8, <1>9, <1>10, <1>11, <1>12, <1>13 DEF Next

(* Whatever arrives, whoever answers and whatever the wires do, a line is  *)
(* in one way of its set, refill_resp finds in the cache the state of the  *)
(* request at the head of the queue, every granted request waits in one    *)
(* place, and the queue and the denied have what wakes them up.            *)
THEOREM CacheSafe ==
    Spec => [](TypeOK /\ TagUnique /\ RefillOwner /\ Armed /\ GrantedHeld)
<1>1. Spec => []IInv
  BY InitIInv, NextKeeps, PTL DEF Spec
<1>2. IInv => TypeOK /\ TagUnique /\ RefillOwner /\ Armed /\ GrantedHeld
  BY InvFromIInv
<1> QED
  BY <1>1, <1>2, PTL

----------------------------------------------------------------------------
(* The bytes under a tag, where every request carries data.                *)

LEMMA OwnedIdle ==
    ASSUME LineOwned, ways' = ways, tag' = tag, data' = data,
           pending_refill' = pending_refill, refill_line' = refill_line
    PROVE  LineOwned'
BY LinesSame DEF LineOwned

(* A tag that goes takes nothing from the others.                          *)
LEMMA InvalidateOwned ==
    ASSUME LinesOK, LineOwned, ways' = ways, NEW S, Invalidate(S),
           pending_refill' = pending_refill, refill_line' = refill_line
    PROVE  LineOwned'
<1>1. Lines' = Lines
  BY LinesSame
<1>2. \A l \in Lines : tag'[l] \in {None, tag[l]}
  BY DEF Invalidate
<1>3. data' = data
  BY DEF Invalidate
<1> QED
  BY <1>1, <1>2, <1>3 DEF LineOwned

LEMMA HandleOwned ==
    ASSUME LinesOK, LineOwned, ways' = ways, ~pending_refill, NEW r \in Reqs, NEW q,
           \/ HandleHit(r, q) \/ RefillDone(r, q)
           \/ RefillGranted(r, q) \/ RefillDenied(r, q)
    PROVE  LineOwned'
<1>1. CASE HandleHit(r, q)
  BY <1>1, OwnedIdle DEF HandleHit, lvars
<1>2. CASE RefillDenied(r, q)
  BY <1>2, OwnedIdle DEF RefillDenied, lvars
<1>3. CASE RefillDone(r, q)
  <2>1. PICK l \in WaysOf(Tag[r]) : /\ tag' = [tag EXCEPT ![l] = Tag[r]]
                                    /\ data' = [data EXCEPT ![l] = Tag[r]]
    BY <1>3 DEF RefillDone
  <2>2. l \in Lines
    BY DEF WaysOf
  <2>3. \A m \in Lines : /\ tag'[m] = IF m = l THEN Tag[r] ELSE tag[m]
                         /\ data'[m] = IF m = l THEN Tag[r] ELSE data[m]
    BY <2>1, <2>2 DEF LinesOK
  <2> QED
    BY <2>3, LinesSame DEF LineOwned
<1>4. CASE RefillGranted(r, q)
  <2>1. PICK l \in WaysOf(Tag[r]) : refill_line' = l /\ data' = [data EXCEPT ![l] = None]
    BY <1>4 DEF RefillGranted
  <2>2. tag' = tag /\ pending_refill' = TRUE
    BY <1>4 DEF RefillGranted
  <2>3. l \in Lines
    BY DEF WaysOf
  <2>4. \A m \in Lines : m # l => data'[m] = data[m]
    BY <2>1, <2>3 DEF LinesOK
  <2> QED
    BY <2>1, <2>2, <2>4, LinesSame DEF LineOwned
<1> QED
  BY <1>1, <1>2, <1>3, <1>4

(* The slave writes into the victim alone, and the tag follows the bytes.  *)
LEMMA RefillOwned ==
    ASSUME LinesOK, OwnerOK, LineOwned, NoData = {}, RefillBeat \/ RefillResp
    PROVE  LineOwned'
<1>1. ways' = ways /\ refills > 0
  BY DEF RefillBeat, RefillResp, wvars
<1>2. pending_refill
  BY <1>1 DEF OwnerOK
<1>3. refill_line \in Lines /\ refill_tag \in Tags
  BY <1>2 DEF LinesOK, WaysOf
<1>4. \A m \in Lines : data'[m] = IF m = refill_line THEN refill_tag ELSE data[m]
  BY <1>3 DEF RefillBeat, RefillResp, Filled, LinesOK
<1>5. CASE RefillBeat
  <2>1. tag' = tag /\ pending_refill' = pending_refill /\ refill_line' = refill_line
    BY <1>5 DEF RefillBeat, qvars
  <2> QED
    BY <1>1, <1>2, <1>4, <2>1, LinesSame DEF LineOwned
<1>6. CASE RefillResp
  <2>1. tag' = [tag EXCEPT ![refill_line] = refill_tag]
    BY <1>6 DEF RefillResp
  <2>2. \A m \in Lines : tag'[m] = IF m = refill_line THEN refill_tag ELSE tag[m]
    BY <1>3, <2>1 DEF LinesOK
  <2> QED
    BY <1>1, <1>4, <2>2, LinesSame DEF LineOwned
<1> QED
  BY <1>5, <1>6

LEMMA OwnedKept ==
    ASSUME NoData = {}
    PROVE  IInv /\ LineOwned /\ [Next]_vars => LineOwned'
<1> SUFFICES ASSUME IInv, LineOwned, [Next]_vars PROVE LineOwned'
  OBVIOUS
<1> USE DEF IInv
<1>1. CASE \E r \in Reqs : MasterSend(r) \/ MasterResend(r)
  <2>1. PICK r \in Reqs : MasterSend(r) \/ MasterResend(r)
    BY <1>1
  <2>2. input_req(r) /\ ways' = ways
    BY <2>1 DEF MasterSend, MasterResend, wvars
  <2>3. CASE Bypass(r)
    BY <2>2, <2>3, OwnedIdle DEF Bypass, lvars, qvars
  <2>4. CASE Enqueue(r)
    BY <2>2, <2>4, OwnedIdle DEF Enqueue, lvars
  <2>5. CASE Serve(r)
    <3> DEFINE q == refill_pending_reqs
    <3>1. ~pending_refill
      BY <2>5 DEF Serve, Blocked
    <3>2. \/ HandleHit(r, q) \/ RefillDone(r, q)
          \/ RefillGranted(r, q) \/ RefillDenied(r, q)
      BY <2>5 DEF Serve
    <3> QED
      BY <2>2, <3>1, <3>2, HandleOwned
  <2> QED
    BY <2>2, <2>3, <2>4, <2>5 DEF input_req
<1>2. CASE \E r \in Reqs : BypassResp(r)
  BY <1>2, OwnedIdle DEF BypassResp, lvars, qvars, wvars
<1>3. CASE CallbackReturns
  BY <1>3, OwnedIdle DEF CallbackReturns, lvars, qvars, wvars
<1>4. CASE RefillBeat \/ RefillResp
  BY <1>4, RefillOwned
<1>5. CASE refill_retry
  BY <1>5, OwnedIdle DEF refill_retry, lvars, qvars, wvars
<1>6. CASE fsm_handler
  <2>1. ways' = ways
    BY <1>6 DEF fsm_handler, wvars
  <2>2. CASE DrainNothing
    BY <2>1, <2>2, OwnedIdle DEF DrainNothing, lvars, qvars
  <2>3. CASE DrainDone \/ DrainGranted \/ DrainDenied
    <3> DEFINE s == refill_pending_reqs
    <3>1. s # <<>> /\ ~pending_refill
      BY <2>3 DEF DrainDone, DrainGranted, DrainDenied, Blocked
    <3>2. Head(s) \in Reqs
      BY <3>1, QueueFacts, TailQueue
    <3>3. \E q : \/ HandleHit(Head(s), q) \/ RefillDone(Head(s), q)
                 \/ RefillGranted(Head(s), q) \/ RefillDenied(Head(s), q)
      BY <2>3 DEF DrainDone, DrainGranted, DrainDenied
    <3> QED
      BY <2>1, <3>1, <3>2, <3>3, HandleOwned
  <2> QED
    BY <1>6, <2>2, <2>3 DEF fsm_handler
<1>7. CASE \E e \in BOOLEAN : enable_sync(e)
  BY <1>7, OwnedIdle DEF enable_sync, Untouched, lvars, qvars
<1>8. CASE flush_sync \/ flush_line_sync
  <2>1. /\ ways' = ways /\ pending_refill' = pending_refill /\ refill_line' = refill_line
        /\ \E S : Invalidate(S)
    BY <1>8 DEF flush_sync, flush_line_sync, flush, Untouched, qvars, wvars
  <2> QED
    BY <2>1, InvalidateOwned
<1>9. CASE \E t \in Tags : flush_line_addr_sync(t)
  BY <1>9, OwnedIdle DEF flush_line_addr_sync, Untouched, lvars, qvars
<1>10. CASE reset
  <2>1. ways' = ways /\ tag' = [l \in Lines |-> IF tag[l] \in Tags THEN None ELSE tag[l]]
    BY <1>10 DEF reset, flush, Invalidate
  <2>2. \A l \in Lines : tag'[l] = None
    BY <2>1 DEF LinesOK
  <2> QED
    BY <2>1, <2>2, LinesSame DEF LineOwned
<1>11. CASE UNCHANGED vars
  BY <1>11, OwnedIdle DEF vars, lvars, qvars, wvars
<1> QED
  BY <1>1, <1>2, <1>3, <1>4, <1>5, <1>6, <1>7, <1>8, <1>9, <1>10, <1>11 DEF Next

(* Where every request carries data, the bytes under a tag are also those  *)
(* of its line, although the slave writes a new line under the old tag     *)
(* while other requests arrive.  (refill_resp sets the tag only with the   *)
(* data of a request to copy: one without data would leave the old tag     *)
(* over the new bytes, and so the theorem needs its hypothesis.)           *)
THEOREM InvHolds ==
    ASSUME NoData = {}
    PROVE  Spec => []Inv
<1>1. Init => LineOwned
  BY DEF Init, LineOwned
<1>2. Spec => [](IInv /\ LineOwned)
  BY <1>1, InitIInv, NextKeeps, OwnedKept, PTL DEF Spec
<1>3. IInv /\ LineOwned => Inv
  BY InvFromIInv DEF Inv
<1> QED
  BY <1>2, <1>3, PTL
=============================================================================
