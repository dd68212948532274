---------------------- MODULE LimiterRouterBeatProofs -----------------------
(***************************************************************************)
(* Proofs about the limiter and about the beat router.                     *)
(*                                                                         *)
(* Limiter, for every set of requests, every size and every bandwidth.     *)
(* The inductive invariant IInv adds to the properties of Limiter the      *)
(* shape that makes them inductive: chunks in flight are non-empty,        *)
(* pairwise disjoint, and below what is not emitted yet; only accepted     *)
(* requests have bytes anywhere; and a request about to be answered has    *)
(* none left.                                                              *)
(*                                                                         *)
(* RouterBeat, for any numbers of inputs, outputs, slots and bursts, any   *)
(* numbers of beats and sizes, and any order of the answers: a slot        *)
(* belongs to one burst from its first beat to its last answer, each       *)
(* granted beat is in one place, a FIFO counts its bytes, locks and stalls *)
(* are right about their inputs (InvalidAlone), and whoever waits is       *)
(* remembered (Wakeable).                                                  *)
(***************************************************************************)
EXTENDS Limiter, RouterBeat, FiniteSetTheorems, WellFoundedInduction,
        NaturalsInduction, TLAPS

Types ==
    /\ pending_req \in Reqs \cup {None}
    /\ pending_size \in Nat
    /\ remaining_size \in [Reqs -> Nat]
    /\ denied_sub \in Subs \cup {None}
    /\ parent \in Reqs \cup {None}
    /\ mst \in [Reqs -> MstStates]
    /\ down \subseteq Subs

SlotShape ==
    /\ pending_req = None => pending_size = 0
    /\ pending_req # None => /\ 0 < pending_size
                             /\ pending_size <= Size[pending_req]
                             /\ mst[pending_req] = "granted"

ChunkShape ==
    /\ denied_sub \notin down
    /\ \A d \in Outstanding :
          /\ 0 < d.size
          /\ d.off + d.size <= Size[d.parent]
          /\ pending_req = d.parent => d.off + d.size <= Size[d.parent] - pending_size
          /\ mst[d.parent] = "granted"

ChunksApart ==
    \A d, e \in Outstanding :
        d.parent = e.parent /\ d # e =>
            d.off + d.size <= e.off \/ e.off + e.size <= d.off

CallShape ==
    /\ pc = "resp" => parent # None /\ mst[parent] = "granted" /\ remaining_size[parent] = 0
    /\ \A r \in Reqs : mst[r] # "spurious"

IInv ==
    /\ Types
    /\ SlotShape
    /\ ChunkShape
    /\ ChunksApart
    /\ BytesConserved
    /\ CallShape

USE LimiterAssumption

----------------------------------------------------------------------------
(* Facts about the bytes a request still waits for.                        *)

LEMMA UnservedElement ==
    ASSUME NEW r, NEW b
    PROVE  b \in Unserved(r) <=>
               \/ b \in Unemitted(r)
               \/ \E d \in Outstanding : d.parent = r /\ b \in Bytes(d)
BY DEF Unserved

(* The bytes waited for lie in the request, so there are finitely many.    *)
LEMMA UnservedFinite ==
    ASSUME Types, SlotShape, ChunkShape, NEW r \in Reqs
    PROVE  /\ Unserved(r) \subseteq 0 .. (Size[r] - 1)
           /\ IsFiniteSet(Unserved(r))
<1>1. Unemitted(r) \subseteq 0 .. (Size[r] - 1)
  BY DEF Types, SlotShape, Unemitted
<1>2. ASSUME NEW d \in Outstanding, d.parent = r
      PROVE  Bytes(d) \subseteq 0 .. (Size[r] - 1)
  <2>1. d \in Subs
    BY DEF Types, Outstanding, Parked
  <2> QED BY <1>2, <2>1 DEF ChunkShape, Bytes, Subs
<1>3. Unserved(r) \subseteq 0 .. (Size[r] - 1)
  BY <1>1, <1>2, UnservedElement
<1>4. IsFiniteSet(0 .. (Size[r] - 1))
  BY FS_Interval
<1> QED BY <1>3, <1>4, FS_Subset

(* Serving a chunk removes as many bytes as the chunk has.                 *)
LEMMA ServeCount ==
    ASSUME NEW S, IsFiniteSet(S), NEW sub \in Subs, 0 < sub.size, Bytes(sub) \subseteq S
    PROVE  /\ IsFiniteSet(S \ Bytes(sub))
           /\ Cardinality(S \ Bytes(sub)) = Cardinality(S) - sub.size
           /\ Cardinality(S \ Bytes(sub)) \in Nat
<1>1. Cardinality(Bytes(sub)) = sub.size
  BY FS_Interval DEF Bytes, Subs
<1>2. S \cap Bytes(sub) = Bytes(sub)
  OBVIOUS
<1>3. /\ IsFiniteSet(S \ Bytes(sub))
      /\ Cardinality(S \ Bytes(sub)) = Cardinality(S) - Cardinality(S \cap Bytes(sub))
  BY FS_Difference
<1>4. Cardinality(S \ Bytes(sub)) \in Nat
  BY <1>3, FS_CardinalityType
<1> QED BY <1>1, <1>2, <1>3, <1>4

----------------------------------------------------------------------------
(* What a step does to the chunks in flight and to the bytes waited for.   *)

LEMMA NextSubShape ==
    ASSUME IInv, ~NothingToEmit
    PROVE  /\ pending_req \in Reqs
           /\ NextSub \in Subs
           /\ NextSub.parent = pending_req
           /\ 0 < NextSub.size
           /\ NextSub.size <= pending_size
           /\ NextSub.size = Chunk
           /\ NextSub.off = Size[pending_req] - pending_size
           /\ Bytes(NextSub) \subseteq Unemitted(pending_req)
           /\ \A d \in Outstanding :
                 d.parent = pending_req => d.off + d.size <= NextSub.off
           /\ NextSub \notin Outstanding
<1> USE DEF IInv, Types, SlotShape, NothingToEmit
<1>1. pending_req \in Reqs /\ Chunk \in Nat /\ 0 < Chunk /\ Chunk <= pending_size
  BY DEF Chunk
<1>2. NextSub = [parent |-> pending_req, off |-> Size[pending_req] - pending_size, size |-> Chunk]
  BY DEF NextSub, Sub
<1>3. NextSub \in Subs
  BY <1>1, <1>2 DEF Subs
<1>4. Bytes(NextSub) \subseteq Unemitted(pending_req)
  BY <1>1, <1>2 DEF Bytes, Unemitted
<1>5. \A d \in Outstanding :
        d.parent = pending_req => d.off + d.size <= NextSub.off
  BY <1>1, <1>2 DEF ChunkShape
<1>6. NextSub \notin Outstanding
  BY <1>1, <1>2, <1>5
<1> QED BY <1>1, <1>2, <1>3, <1>4, <1>5, <1>6

(* Emitting a chunk the slave answers at once.                             *)
LEMMA EmitDoneEffect ==
    ASSUME IInv, EventEmit, SendDone(NextSub, "event_handler")
    PROVE  /\ Outstanding' = Outstanding
           /\ \A r \in Reqs : Unserved(r)' = IF r = pending_req THEN Unserved(r) \ Bytes(NextSub)
                                                                ELSE Unserved(r)
<1>1. denied_sub = None /\ denied_sub' = None
  BY NextSubShape DEF EventEmit, NothingToEmit, SendDone, Unparked
<1>2. Outstanding' = Outstanding
  BY <1>1 DEF Outstanding, Parked, SendDone
<1>3. ASSUME NEW r \in Reqs, r # pending_req
      PROVE  Unserved(r)' = Unserved(r)
  <2>1. Unemitted(r)' = Unemitted(r)
    BY <1>3 DEF EventEmit, Unemitted
  <2> QED BY <1>2, <2>1 DEF Unserved
<1>4. ASSUME NEW r \in Reqs, r = pending_req
      PROVE  Unserved(r)' = Unserved(r) \ Bytes(NextSub)
  <2>1. /\ pending_size' = pending_size - NextSub.size
        /\ pending_req' = IF pending_size' = 0 THEN None ELSE r
    BY <1>4, NextSubShape DEF EventEmit
  <2>2. ASSUME NEW b
        PROVE  b \in Unemitted(r)' <=> b \in Unemitted(r) /\ b \notin Bytes(NextSub)
    BY <1>4, <2>1, NextSubShape DEF EventEmit, Unemitted, Bytes, Subs, IInv, Types, SlotShape
  <2>3. ASSUME NEW d \in Outstanding, d.parent = r, NEW b \in Bytes(d)
        PROVE  b \notin Bytes(NextSub)
    <3>1. d \in Subs
      BY DEF IInv, Types, Outstanding, Parked
    <3> QED BY <1>4, <2>3, <3>1, NextSubShape DEF EventEmit, Bytes, Subs
  <2>4. ASSUME NEW b
        PROVE  b \in Unserved(r)' <=> b \in Unserved(r) /\ b \notin Bytes(NextSub)
    BY <1>2, <2>2, <2>3 DEF Unserved
  <2> QED BY <2>4
<1>5. ASSUME NEW r \in Reqs
      PROVE  Unserved(r)' = IF r = pending_req THEN Unserved(r) \ Bytes(NextSub)
                                               ELSE Unserved(r)
  BY <1>3, <1>4
<1> QED BY <1>2, <1>5

(* Emitting a chunk the slave grants or denies.                            *)
LEMMA EmitHeldEffect ==
    ASSUME IInv, EventEmit,
           SendGranted(NextSub, "event_handler") \/ SendDenied(NextSub)
    PROVE  /\ Outstanding' = Outstanding \cup {NextSub}
           /\ \A r \in Reqs : Unserved(r)' = Unserved(r)
<1>1. denied_sub = None /\ NextSub # None
  BY NextSubShape, NoneAssumption DEF EventEmit, NothingToEmit
<1>2. Outstanding' = Outstanding \cup {NextSub}
  BY <1>1 DEF Outstanding, Parked, SendGranted, SendDenied, Unparked
<1>3. ASSUME NEW r \in Reqs, r # pending_req
      PROVE  Unserved(r)' = Unserved(r)
  <2>1. Unemitted(r)' = Unemitted(r)
    BY <1>3 DEF EventEmit, Unemitted
  <2>2. NextSub.parent # r
    BY <1>3, NextSubShape DEF EventEmit
  <2> QED BY <1>2, <2>1, <2>2 DEF Unserved
<1>4. ASSUME NEW r \in Reqs, r = pending_req
      PROVE  Unserved(r)' = Unserved(r)
  <2>1. /\ pending_size' = pending_size - NextSub.size
        /\ pending_req' = IF pending_size' = 0 THEN None ELSE r
    BY <1>4, NextSubShape DEF EventEmit
  <2>2. ASSUME NEW b
        PROVE  b \in Unemitted(r) <=> b \in Unemitted(r)' \/ b \in Bytes(NextSub)
    BY <1>4, <2>1, NextSubShape DEF EventEmit, Unemitted, Bytes, Subs, IInv, Types, SlotShape
  <2>3. NextSub.parent = r
    BY <1>4, NextSubShape DEF EventEmit
  <2>4. ASSUME NEW b
        PROVE  b \in Unserved(r)' <=> b \in Unserved(r)
    BY <1>2, <2>2, <2>3 DEF Unserved
  <2> QED BY <2>4
<1> QED BY <1>2, <1>3, <1>4

(* A chunk in flight is answered.                                          *)
LEMMA AnsweredEffect ==
    ASSUME IInv, NEW sub \in Outstanding,
           Outstanding' = Outstanding \ {sub}, UNCHANGED <<pending_req, pending_size>>
    PROVE  \A r \in Reqs : Unserved(r)' = IF r = sub.parent THEN Unserved(r) \ Bytes(sub)
                                                           ELSE Unserved(r)
<1>1. ASSUME NEW r \in Reqs PROVE Unemitted(r)' = Unemitted(r)
  BY DEF Unemitted
<1>2. ASSUME NEW d \in Outstanding PROVE d \in Subs
  BY DEF IInv, Types, Outstanding, Parked
<1>3. ASSUME NEW b \in Unemitted(sub.parent) PROVE b \notin Bytes(sub)
  BY <1>2 DEF IInv, Types, SlotShape, ChunkShape, Unemitted, Bytes, Subs
<1>4. ASSUME NEW d \in Outstanding, d # sub, d.parent = sub.parent, NEW b \in Bytes(d)
      PROVE  b \notin Bytes(sub)
  BY <1>2, <1>4 DEF IInv, ChunksApart, Bytes, Subs
<1>5. ASSUME NEW r \in Reqs, NEW b
      PROVE  b \in Unserved(r)' <=> b \in Unserved(r) /\ ~(r = sub.parent /\ b \in Bytes(sub))
  BY <1>1, <1>3, <1>4 DEF Unserved
<1> QED BY <1>5

LEMMA SameOutstanding ==
    ASSUME Outstanding' = Outstanding, UNCHANGED <<pending_req, pending_size>>
    PROVE  \A r \in Reqs : Unserved(r)' = Unserved(r)
BY DEF Unserved, Unemitted

LEMMA RespEffect ==
    ASSUME IInv, NEW sub \in down, output_resp(sub)
    PROVE  Outstanding' = Outstanding \ {sub}
BY DEF IInv, ChunkShape, output_resp, Outstanding, Parked

LEMMA ReplayEffect ==
    ASSUME IInv, output_retry
    PROVE  /\ SendDone(denied_sub, "output_retry") => Outstanding' = Outstanding \ {denied_sub}
           /\ SendGranted(denied_sub, "output_retry") => Outstanding' = Outstanding
           /\ SendDenied(denied_sub) => Outstanding' = Outstanding
BY DEF IInv, ChunkShape, output_retry, Outstanding, Parked, SendDone, SendGranted,
       SendDenied, Unparked

(* finish_chunk keeps the count exact.                                     *)
LEMMA FinishCount ==
    ASSUME IInv, NEW sub \in Subs, NEW h, finish_chunk(sub, h), 0 < sub.size,
           Bytes(sub) \subseteq Unserved(sub.parent),
           \A r \in Reqs : Unserved(r)' = IF r = sub.parent THEN Unserved(r) \ Bytes(sub)
                                                          ELSE Unserved(r)
    PROVE  /\ BytesConserved'
           /\ remaining_size' \in [Reqs -> Nat]
           /\ parent' = sub.parent /\ parent' \in Reqs
           /\ pc' \in {"resp", "return"}
           /\ pc' = "resp" => remaining_size'[parent'] = 0
<1> DEFINE p == sub.parent
<1>0. p \in Reqs /\ remaining_size[p] \in Nat /\ sub.size \in Nat
  BY DEF IInv, Types, Subs
<1>1. remaining_size' = [remaining_size EXCEPT ![p] = remaining_size[p] - sub.size]
  BY DEF finish_chunk, Remaining
<1>2. remaining_size[p] = Cardinality(Unserved(p)) /\ IsFiniteSet(Unserved(p))
  BY <1>0, UnservedFinite DEF IInv, BytesConserved
<1>3. /\ Cardinality(Unserved(p) \ Bytes(sub)) = remaining_size[p] - sub.size
      /\ remaining_size[p] - sub.size \in Nat
  BY <1>2, ServeCount
<1>4. remaining_size' \in [Reqs -> Nat]
  BY <1>0, <1>1, <1>3 DEF IInv, Types
<1>5. ASSUME NEW r \in Reqs PROVE remaining_size'[r] = Cardinality(Unserved(r)')
  BY <1>0, <1>1, <1>2, <1>3 DEF IInv, Types, BytesConserved
<1>6. parent' = p /\ pc' = IF remaining_size[p] - sub.size = 0 THEN "resp" ELSE "return"
  BY DEF finish_chunk, Remaining
<1>7. remaining_size'[p] = remaining_size[p] - sub.size
  BY <1>0, <1>1 DEF IInv, Types
<1> QED BY <1>0, <1>4, <1>5, <1>6, <1>7 DEF BytesConserved

(* A step that leaves the slot, the chunks and the counters alone, and     *)
(* takes no granted request from the master, keeps the shape.              *)
LEMMA QuietStep ==
    ASSUME IInv,
           UNCHANGED <<pending_req, pending_size, remaining_size, denied_sub, down>>,
           mst' \in [Reqs -> MstStates],
           \A d \in Outstanding : mst'[d.parent] = "granted",
           pending_req # None => mst'[pending_req] = "granted"
    PROVE  SlotShape' /\ ChunkShape' /\ ChunksApart' /\ BytesConserved'
<1>1. Outstanding' = Outstanding
  BY DEF Outstanding, Parked
<1>2. \A r \in Reqs : Unserved(r)' = Unserved(r)
  BY <1>1, SameOutstanding
<1>3. BytesConserved'
  BY <1>2 DEF IInv, BytesConserved
<1>4. SlotShape'
  BY DEF IInv, SlotShape
<1>5. ChunkShape'
  BY <1>1 DEF IInv, ChunkShape
<1>6. ChunksApart'
  BY <1>1 DEF IInv, ChunksApart
<1> QED BY <1>3, <1>4, <1>5, <1>6

LEMMA InitInv == Init => IInv
<1> SUFFICES ASSUME Init PROVE IInv
  OBVIOUS
<1>1. Types
  BY DEF Init, Types, MstStates
<1>2. Outstanding = {}
  BY DEF Init, Outstanding, Parked
<1>3. \A r \in Reqs : Unserved(r) = {}
  BY <1>2 DEF Init, Unserved, Unemitted
<1>4. BytesConserved
  BY <1>3, FS_EmptySet DEF Init, BytesConserved
<1>5. SlotShape /\ CallShape
  BY DEF Init, SlotShape, CallShape
<1>6. ChunkShape /\ ChunksApart
  BY <1>2 DEF Init, ChunkShape, ChunksApart
<1> QED BY <1>1, <1>4, <1>5, <1>6 DEF IInv

(* A request that is not granted has no byte anywhere.                     *)
LEMMA NotGrantedServed ==
    ASSUME IInv, NEW r \in Reqs, mst[r] # "granted"
    PROVE  Unserved(r) = {}
BY DEF IInv, SlotShape, ChunkShape, Unserved, Unemitted

LEMMA GrantEffect ==
    ASSUME IInv, NEW r \in Reqs, mst[r] # "granted", pending_req = None, Grant(r),
           UNCHANGED <<denied_sub, down>>
    PROVE  /\ Outstanding' = Outstanding
           /\ \A q \in Reqs : Unserved(q)' = IF q = r THEN 0 .. (Size[r] - 1) ELSE Unserved(q)
<1>1. Outstanding' = Outstanding
  BY DEF Outstanding, Parked
<1>2. ASSUME NEW d \in Outstanding PROVE d.parent # r
  BY DEF IInv, ChunkShape
<1>3. Unemitted(r)' = 0 .. (Size[r] - 1)
  BY DEF Grant, Unemitted
<1>4. ASSUME NEW q \in Reqs, q # r PROVE Unemitted(q)' = Unemitted(q)
  BY <1>4 DEF Grant, Unemitted
<1>5. Unserved(r)' = 0 .. (Size[r] - 1)
  BY <1>1, <1>2, <1>3 DEF Unserved
<1>6. ASSUME NEW q \in Reqs, q # r PROVE Unserved(q)' = Unserved(q)
  BY <1>1, <1>4, <1>6 DEF Unserved
<1> QED BY <1>1, <1>5, <1>6

----------------------------------------------------------------------------
(* Every action preserves the invariant.                                   *)

LEMMA InputInv ==
    ASSUME IInv, NEW r \in Reqs, mst[r] \in {"idle", "retrying"}, pc # "resp",
           input_req(r), UNCHANGED <<pcVars, down>>
    PROVE  IInv'
<1>1. CASE pending_req # None /\ Deny(r)
  <2>1. Types' /\ CallShape'
    BY <1>1 DEF IInv, Types, CallShape, Deny, input_req, pcVars, MstStates
  <2>2. /\ \A d \in Outstanding : mst'[d.parent] = "granted"
        /\ mst'[pending_req] = "granted"
    BY <1>1 DEF IInv, Types, SlotShape, ChunkShape, Deny
  <2>3. SlotShape' /\ ChunkShape' /\ ChunksApart' /\ BytesConserved'
    BY <1>1, <2>1, <2>2, QuietStep DEF Deny, input_req, Types
  <2> QED BY <2>1, <2>3 DEF IInv
<1>2. CASE pending_req = None /\ Grant(r)
  <2>0. Size[r] \in Nat /\ 0 < Size[r]
    OBVIOUS
  <2>1. Types' /\ CallShape'
    BY <1>2, <2>0 DEF IInv, Types, CallShape, Grant, input_req, pcVars, MstStates
  <2>2. /\ Outstanding' = Outstanding
        /\ \A q \in Reqs : Unserved(q)' = IF q = r THEN 0 .. (Size[r] - 1) ELSE Unserved(q)
    BY <1>2, GrantEffect DEF input_req
  <2>3. SlotShape'
    BY <1>2, <2>0 DEF IInv, Types, SlotShape, Grant
  <2>4. ASSUME NEW d \in Outstanding PROVE d.parent # r /\ d \in Subs
    BY DEF IInv, Types, ChunkShape, Outstanding, Parked
  <2>5. ChunkShape'
    BY <1>2, <2>2, <2>4 DEF IInv, Types, ChunkShape, Grant, input_req, Subs
  <2>6. ChunksApart'
    BY <2>2 DEF IInv, ChunksApart
  <2>7. Cardinality(0 .. (Size[r] - 1)) = Size[r]
    BY <2>0, FS_Interval
  <2>8. BytesConserved'
    BY <1>2, <2>2, <2>7 DEF IInv, Types, BytesConserved, Grant
  <2> QED BY <2>1, <2>3, <2>5, <2>6, <2>8 DEF IInv
<1> QED BY <1>1, <1>2 DEF input_req

LEMMA EmitInv ==
    ASSUME IInv, EventEmit
    PROVE  IInv'
<1>0. ~NothingToEmit
  BY DEF EventEmit
<1>1. SlotShape'
  BY <1>0, NextSubShape DEF IInv, Types, SlotShape, EventEmit, Subs
<1>2. pending_req' \in Reqs \cup {None} /\ pending_size' \in Nat /\ mst' \in [Reqs -> MstStates]
  BY <1>0, NextSubShape DEF IInv, Types, EventEmit, Subs
<1>3. pending_req' # None => pending_req' = pending_req /\ pending_size' = pending_size - NextSub.size
  BY <1>0, NextSubShape DEF EventEmit
<1>4. ASSUME NEW d \in Outstanding \cup {NextSub}
      PROVE  /\ 0 < d.size
             /\ d.off + d.size <= Size[d.parent]
             /\ pending_req' = d.parent => d.off + d.size <= Size[d.parent] - pending_size'
             /\ mst'[d.parent] = "granted"
  <2>1. d \in Subs
    BY <1>0, NextSubShape DEF IInv, Types, Outstanding, Parked
  <2>2. CASE d \in Outstanding
    BY <1>0, <1>3, <2>1, <2>2, NextSubShape
       DEF IInv, Types, ChunkShape, SlotShape, EventEmit, Subs
  <2>3. CASE d = NextSub
    BY <1>0, <1>3, <2>1, <2>3, NextSubShape DEF IInv, Types, SlotShape, EventEmit, Subs
  <2> QED BY <2>2, <2>3
<1>5. CASE SendDone(NextSub, "event_handler")
  <2>1. /\ Outstanding' = Outstanding
        /\ \A r \in Reqs : Unserved(r)' = IF r = pending_req THEN Unserved(r) \ Bytes(NextSub)
                                                             ELSE Unserved(r)
    BY <1>5, EmitDoneEffect
  <2>2. finish_chunk(NextSub, "event_handler")
    BY <1>5 DEF SendDone
  <2>3. /\ NextSub \in Subs /\ 0 < NextSub.size /\ NextSub.parent = pending_req
        /\ Bytes(NextSub) \subseteq Unserved(NextSub.parent)
    BY <1>0, NextSubShape DEF Unserved
  <2>4. /\ BytesConserved'
        /\ remaining_size' \in [Reqs -> Nat]
        /\ parent' = pending_req /\ parent' \in Reqs
        /\ pc' = "resp" => remaining_size'[parent'] = 0
    BY <2>1, <2>2, <2>3, FinishCount
  <2>5. denied_sub' = None /\ down' = down
    BY <1>0, <1>5 DEF SendDone, Unparked, NothingToEmit
  <2>6. Types'
    BY <1>2, <2>4, <2>5 DEF IInv, Types
  <2>7. ChunkShape' /\ ChunksApart'
    BY <1>4, <2>1, <2>5, NoneAssumption DEF IInv, Types, ChunkShape, ChunksApart
  <2>8. mst[pending_req] = "granted"
    BY <1>0 DEF IInv, SlotShape, NothingToEmit
  <2>9. CallShape'
    BY <2>4, <2>8 DEF IInv, CallShape, EventEmit
  <2> QED BY <1>1, <2>4, <2>6, <2>7, <2>9 DEF IInv
<1>6. CASE SendGranted(NextSub, "event_handler") \/ SendDenied(NextSub)
  <2>1. /\ Outstanding' = Outstanding \cup {NextSub}
        /\ \A r \in Reqs : Unserved(r)' = Unserved(r)
    BY <1>6, EmitHeldEffect
  <2>2. denied_sub = None
    BY <1>0 DEF NothingToEmit
  <2>3. NextSub \in Subs /\ NextSub \notin Outstanding
    BY <1>0, NextSubShape
  <2>4. remaining_size' = remaining_size /\ parent' = parent
    BY <1>6 DEF SendGranted, SendDenied, pcVars
  <2>5. Types'
    BY <1>2, <1>6, <2>2, <2>3, <2>4 DEF IInv, Types, SendGranted, SendDenied, Unparked
  <2>6. denied_sub' \notin down'
    BY <1>6, <2>2, <2>3, NoneAssumption
       DEF IInv, Types, Outstanding, SendGranted, SendDenied, Unparked
  <2>7. ChunkShape'
    BY <1>4, <2>1, <2>6 DEF ChunkShape
  <2>8. ASSUME NEW d \in Outstanding, d.parent = NextSub.parent
        PROVE  d.off + d.size <= NextSub.off
    BY <1>0, <2>8, NextSubShape
  <2>9. ChunksApart'
    BY <2>1, <2>8 DEF IInv, ChunksApart
  <2>10. BytesConserved'
    BY <2>1, <2>4 DEF IInv, BytesConserved
  <2>11. CallShape'
    BY <1>6 DEF IInv, CallShape, EventEmit, SendGranted, SendDenied, pcVars
  <2> QED BY <1>1, <2>5, <2>7, <2>9, <2>10, <2>11 DEF IInv
<1> QED BY <1>5, <1>6 DEF EventEmit

(* A chunk in flight is answered, by output_resp or by a replay.           *)
LEMMA AnsweredInv ==
    ASSUME IInv, NEW sub \in Outstanding, NEW h, finish_chunk(sub, h),
           Outstanding' = Outstanding \ {sub},
           denied_sub' \in {denied_sub, None}, down' \subseteq down,
           UNCHANGED <<pending_req, pending_size, mst>>
    PROVE  IInv'
<1>1. sub \in Subs /\ 0 < sub.size /\ mst[sub.parent] = "granted"
  BY DEF IInv, Types, ChunkShape, Outstanding, Parked
<1>2. \A r \in Reqs : Unserved(r)' = IF r = sub.parent THEN Unserved(r) \ Bytes(sub)
                                                      ELSE Unserved(r)
  BY AnsweredEffect
<1>3. Bytes(sub) \subseteq Unserved(sub.parent)
  BY DEF Unserved
<1>4. /\ BytesConserved'
      /\ remaining_size' \in [Reqs -> Nat]
      /\ parent' = sub.parent /\ parent' \in Reqs
      /\ pc' = "resp" => remaining_size'[parent'] = 0
  BY <1>1, <1>2, <1>3, FinishCount
<1>5. Types'
  BY <1>4 DEF IInv, Types
<1>6. SlotShape' /\ ChunksApart'
  BY DEF IInv, SlotShape, ChunksApart
<1>7. ChunkShape'
  BY NoneAssumption DEF IInv, Types, ChunkShape
<1>8. CallShape'
  BY <1>1, <1>4 DEF IInv, CallShape
<1> QED BY <1>4, <1>5, <1>6, <1>7, <1>8 DEF IInv

LEMMA OutputRespInv ==
    ASSUME IInv, NEW sub \in down, output_resp(sub)
    PROVE  IInv'
<1>1. /\ sub \in Outstanding
      /\ Outstanding' = Outstanding \ {sub}
      /\ finish_chunk(sub, "output_resp")
      /\ denied_sub' = denied_sub /\ down' \subseteq down
      /\ UNCHANGED <<pending_req, pending_size, mst>>
  BY RespEffect DEF output_resp, Outstanding
<1> QED BY <1>1, AnsweredInv

LEMMA OutputRetryInv ==
    ASSUME IInv, output_retry
    PROVE  IInv'
<1>1. denied_sub \in Outstanding /\ denied_sub \in Subs
  BY DEF IInv, Types, output_retry, Outstanding, Parked
<1>2. CASE SendDone(denied_sub, "output_retry")
  <2>1. /\ Outstanding' = Outstanding \ {denied_sub}
        /\ finish_chunk(denied_sub, "output_retry")
        /\ denied_sub' \in {denied_sub, None} /\ down' \subseteq down
        /\ UNCHANGED <<pending_req, pending_size, mst>>
    BY <1>2, ReplayEffect DEF output_retry, SendDone, Unparked
  <2> QED BY <1>1, <2>1, AnsweredInv
<1>3. CASE SendGranted(denied_sub, "output_retry") \/ SendDenied(denied_sub)
  <2>1. /\ Outstanding' = Outstanding
        /\ UNCHANGED <<pending_req, pending_size, mst, remaining_size, parent>>
    BY <1>3, ReplayEffect DEF output_retry, SendGranted, SendDenied, pcVars
  <2>2. \A r \in Reqs : Unserved(r)' = Unserved(r)
    BY <2>1, SameOutstanding
  <2>3. Types'
    BY <1>1, <1>3, <2>1 DEF IInv, Types, SendGranted, SendDenied, Unparked
  <2>4. SlotShape' /\ ChunksApart' /\ BytesConserved'
    BY <2>1, <2>2 DEF IInv, SlotShape, ChunksApart, BytesConserved
  <2>5. denied_sub' \notin down'
    BY <1>1, <1>3, NoneAssumption
       DEF IInv, Types, ChunkShape, SendGranted, SendDenied, Unparked
  <2>6. ChunkShape'
    BY <2>1, <2>5 DEF IInv, ChunkShape
  <2>7. CallShape'
    BY <1>3, <2>1 DEF IInv, CallShape, output_retry, SendGranted, SendDenied, pcVars
  <2> QED BY <2>3, <2>4, <2>6, <2>7 DEF IInv
<1> QED BY <1>2, <1>3 DEF output_retry

(* resp() hands back a request that waits for no byte.                     *)
LEMMA RespInv ==
    ASSUME IInv, Resp
    PROVE  /\ IInv'
           /\ parent \in Reqs /\ mst[parent] = "granted" /\ Unserved(parent) = {}
           /\ mst' = [mst EXCEPT ![parent] = "idle"]
<1>1. parent \in Reqs /\ mst[parent] = "granted" /\ remaining_size[parent] = 0
  BY DEF IInv, Types, CallShape, Resp
<1>2. Unserved(parent) = {}
  BY <1>1, UnservedFinite, FS_EmptySet DEF IInv, BytesConserved
<1>3. mst' = [mst EXCEPT ![parent] = "idle"]
  BY <1>1 DEF Resp, IInv, Types
<1>4. Types' /\ CallShape'
  BY <1>1, <1>3 DEF IInv, Types, CallShape, Resp, limVars, MstStates
<1>5. ASSUME NEW d \in Outstanding PROVE d.parent # parent /\ d.parent \in Reqs
  <2>1. d \in Subs /\ 0 < d.size
    BY DEF IInv, Types, ChunkShape, Outstanding, Parked
  <2>2. d.off \in Bytes(d)
    BY <2>1 DEF Bytes, Subs
  <2>3. d.parent = parent => d.off \in Unserved(parent)
    BY <2>2 DEF Unserved
  <2> QED BY <1>2, <2>1, <2>3 DEF Subs
<1>6. pending_req # parent
  <2>1. pending_req = parent => Size[parent] - 1 \in Unemitted(parent)
    BY <1>1 DEF IInv, Types, SlotShape, Unemitted
  <2> QED BY <1>2, <2>1 DEF Unserved
<1>7. SlotShape' /\ ChunkShape' /\ ChunksApart' /\ BytesConserved'
  <2>1. \A d \in Outstanding : mst'[d.parent] = "granted"
    BY <1>1, <1>3, <1>5 DEF IInv, Types, ChunkShape
  <2>2. pending_req # None => mst'[pending_req] = "granted"
    BY <1>1, <1>3, <1>6 DEF IInv, Types, SlotShape
  <2> QED BY <1>4, <2>1, <2>2, QuietStep DEF Resp, limVars, Types
<1> QED BY <1>1, <1>2, <1>3, <1>4, <1>7 DEF IInv

LEMMA CallRetryInv ==
    ASSUME IInv, CallRetry, parent' \in {parent, None},
           UNCHANGED <<pending_req, pending_size, remaining_size, denied_sub, down>>
    PROVE  IInv'
<1>1. \A r \in Reqs : mst[r] = "granted" => mst'[r] = "granted"
  BY DEF CallRetry
<1>2. Types' /\ CallShape'
  BY DEF IInv, Types, CallShape, CallRetry, MstStates
<1>3. /\ \A d \in Outstanding : mst'[d.parent] = "granted"
      /\ pending_req # None => mst'[pending_req] = "granted"
  BY <1>1 DEF IInv, Types, SlotShape, ChunkShape, Outstanding, Parked, Subs
<1>4. SlotShape' /\ ChunkShape' /\ ChunksApart' /\ BytesConserved'
  BY <1>2, <1>3, QuietStep DEF Types
<1> QED BY <1>2, <1>4 DEF IInv

(* Steps that change only the clock, the flags and the call stack.         *)
LEMMA StackStep ==
    ASSUME IInv, parent' \in {parent, None}, pc' # "resp" \/ UNCHANGED <<pc, parent>>,
           UNCHANGED <<pending_req, pending_size, remaining_size, denied_sub, down, mst>>
    PROVE  IInv'
<1>1. Types' /\ CallShape'
  BY DEF IInv, Types, CallShape
<1>2. SlotShape' /\ ChunkShape' /\ ChunksApart' /\ BytesConserved'
  BY <1>1, QuietStep DEF IInv, Types, SlotShape, ChunkShape
<1> QED BY <1>1, <1>2 DEF IInv

LEMMA ResetInv ==
    ASSUME IInv, reset
    PROVE  IInv' /\ \A r \in Reqs : Unserved(r)' = {}
<1>1. Types' /\ SlotShape' /\ CallShape'
  BY DEF IInv, Types, SlotShape, CallShape, reset, pcVars, MstStates
<1>2. Outstanding' = {}
  BY DEF reset, Outstanding, Parked
<1>3. \A r \in Reqs : Unserved(r)' = {}
  BY <1>2 DEF reset, Unserved, Unemitted
<1>4. BytesConserved'
  BY <1>3, FS_EmptySet DEF reset, BytesConserved
<1>5. ChunkShape' /\ ChunksApart'
  BY <1>2 DEF reset, ChunkShape, ChunksApart
<1> QED BY <1>1, <1>3, <1>4, <1>5 DEF IInv

LEMMA NextInv ==
    ASSUME IInv, [Next]_vars
    PROVE  IInv'
<1> USE DEF limVars, clkVars, pcVars
<1>1. ASSUME NEW r \in Reqs, MasterSend(r) \/ MasterResend(r) PROVE IInv'
  BY <1>1, InputInv DEF MasterSend, MasterResend
<1>2. CASE EventSkip
  BY <1>2, StackStep DEF EventSkip
<1>3. CASE EventEmit
  BY <1>3, EmitInv
<1>4. ASSUME NEW sub \in down, output_resp(sub) PROVE IInv'
  BY <1>4, OutputRespInv
<1>5. CASE output_retry
  BY <1>5, OutputRetryInv
<1>6. CASE Resp
  BY <1>6, RespInv
<1>7. CASE RespReturns
  <2>1. CASE RetryOwed
    BY <1>7, <2>1, CallRetryInv DEF RespReturns
  <2>2. CASE ~RetryOwed
    BY <1>7, <2>2, StackStep DEF RespReturns
  <2> QED BY <2>1, <2>2
<1>8. CASE RetryReturns
  BY <1>8, StackStep DEF RetryReturns
<1>9. CASE EventReturns
  <2>1. CASE ~MoreToEmit /\ input_needs_retry /\ CallRetry
    BY <1>9, <2>1, CallRetryInv DEF EventReturns
  <2>2. CASE pc' = "idle" /\ UNCHANGED mst
    BY <1>9, <2>2, StackStep DEF EventReturns
  <2> QED BY <1>9, <2>1, <2>2 DEF EventReturns
<1>10. CASE OutputRetryReturns
  BY <1>10, StackStep DEF OutputRetryReturns
<1>11. CASE HandlerReturns
  BY <1>11, StackStep DEF HandlerReturns
<1>12. CASE Tick
  BY <1>12, StackStep DEF Tick
<1>13. CASE reset
  BY <1>13, ResetInv
<1>14. CASE UNCHANGED vars
  BY <1>14, StackStep DEF vars
<1> QED
  BY <1>1, <1>2, <1>3, <1>4, <1>5, <1>6, <1>7, <1>8, <1>9, <1>10, <1>11, <1>12,
     <1>13, <1>14 DEF Next

(* The invariant holds in every reachable state; in particular resp() is   *)
(* only ever called for a request its master was granted.                  *)
THEOREM Invariance == Spec => []IInv
BY InitInv, NextInv, PTL DEF Spec

(* The count of finish_chunk is exact: remaining_size of a request is the  *)
(* number of its bytes that no slave has answered.                         *)
THEOREM BytesConservedHolds == Spec => []BytesConserved
<1>1. IInv => BytesConserved
  BY DEF IInv
<1> QED BY <1>1, Invariance, PTL

(* Every variable keeps its type; the counters never go below zero.        *)
THEOREM TypeCorrect == Spec => []TypeOK
<1>1. Init => TypeOK
  <2> SUFFICES ASSUME Init PROVE TypeOK
    OBVIOUS
  <2>1. Types
    BY InitInv DEF IInv
  <2>2. resp_status \in [Reqs -> {"OK", "INVALID"}]
    BY DEF Init
  <2>3. input_needs_retry \in BOOLEAN /\ paced \in BOOLEAN
    BY DEF Init
  <2>4. /\ event \in {"none", "next", "now"}
        /\ pc \in {"idle", "resp", "in_resp", "in_retry", "return"}
        /\ cont \in {"none", "event_handler", "output_resp", "output_retry"}
    BY DEF Init
  <2> QED BY <2>1, <2>2, <2>3, <2>4 DEF TypeOK, Types
<1>2. TypeOK /\ IInv /\ IInv' /\ [Next]_vars => TypeOK'
  <2> SUFFICES ASSUME TypeOK, IInv', [Next]_vars PROVE TypeOK'
    OBVIOUS
  <2> USE DEF limVars, clkVars, pcVars, Next, vars, MasterSend, MasterResend, input_req,
          Deny, Grant, EventSkip, EventEmit, SendDone, SendGranted, SendDenied, finish_chunk,
          output_resp, output_retry, Resp, RespReturns, CallRetry, RetryReturns,
          EventReturns, OutputRetryReturns, HandlerReturns, Tick, reset, Enqueued, Resumed
  <2>1. Types'
    BY DEF IInv
  <2>2. resp_status' \in [Reqs -> {"OK", "INVALID"}]
    BY DEF TypeOK
  <2>3. input_needs_retry' \in BOOLEAN
    BY Zenon DEF TypeOK
  <2>4. paced' \in BOOLEAN
    BY Zenon DEF TypeOK
  <2>5. event' \in {"none", "next", "now"}
    BY DEF TypeOK
  <2>6. pc' \in {"idle", "resp", "in_resp", "in_retry", "return"}
    BY DEF TypeOK
  <2>7. cont' \in {"none", "event_handler", "output_resp", "output_retry"}
    BY DEF TypeOK
  <2> HIDE DEF limVars, clkVars, pcVars, Next, vars
  <2> QED BY <2>1, <2>2, <2>3, <2>4, <2>5, <2>6, <2>7 DEF TypeOK, Types
<1> QED BY <1>1, <1>2, Invariance, PTL DEF Spec

----------------------------------------------------------------------------
(* The limiter implements IoService.                                       *)

todoBar == [r \in Reqs |-> Unserved(r)]

(* A chunk is answered: a Serve step of the abstract specification.        *)
LEMMA ServeSim ==
    ASSUME IInv, TypeOK, NEW sub \in Subs, NEW h, finish_chunk(sub, h), 0 < sub.size,
           mst[sub.parent] = "granted", UNCHANGED mst,
           Bytes(sub) \subseteq Unserved(sub.parent),
           \A r \in Reqs : Unserved(r)' = IF r = sub.parent THEN Unserved(r) \ Bytes(sub)
                                                          ELSE Unserved(r)
    PROVE  Service!Serving
<1> DEFINE p == sub.parent
<1>1. p \in Reqs /\ Bytes(sub) # {}
  <2>1. sub.off \in Bytes(sub)
    BY DEF Bytes, Subs
  <2> QED BY <2>1 DEF Subs
<1>2. todoBar' = [todoBar EXCEPT ![p] = todoBar[p] \ Bytes(sub)]
  BY <1>1 DEF todoBar
<1>3. resp_status' = IF Bytes(sub) \cap Bad[p] # {}
                       THEN [resp_status EXCEPT ![p] = "INVALID"] ELSE resp_status
  BY DEF finish_chunk, ChunkStatus
<1>4. Bytes(sub) \in SUBSET todoBar[p]
  BY <1>1 DEF todoBar
<1>5. Service!Serve(p, Bytes(sub))
  BY <1>1, <1>2, <1>3, <1>4 DEF Service!Serve, todoBar
<1> QED BY <1>1, <1>4, <1>5 DEF Service!Serving, todoBar

LEMMA InputSim ==
    ASSUME IInv, TypeOK, NEW r \in Reqs, mst[r] \in {"idle", "retrying"},
           input_req(r), UNCHANGED down
    PROVE  Service!Serving
<1>1. CASE pending_req # None /\ Deny(r)
  <2>1. Outstanding' = Outstanding /\ UNCHANGED <<pending_req, pending_size>>
    BY <1>1 DEF Outstanding, Parked, Deny, input_req
  <2>2. todoBar' = todoBar
    BY <2>1, SameOutstanding DEF todoBar
  <2>3. Service!Deny(r)
    BY <1>1, <2>2 DEF Deny, Service!Deny, todoBar
  <2> QED BY <2>3 DEF Service!Serving
<1>2. CASE pending_req = None /\ Grant(r)
  <2>1. \A q \in Reqs : Unserved(q)' = IF q = r THEN 0 .. (Size[r] - 1) ELSE Unserved(q)
    BY <1>2, GrantEffect DEF input_req
  <2>2. todoBar' = [todoBar EXCEPT ![r] = 0 .. (Size[r] - 1)]
    BY <2>1 DEF todoBar
  <2>3. Service!Accept(r)
    BY <1>2, <2>2 DEF Grant, Service!Accept, todoBar
  <2> QED BY <2>3 DEF Service!Serving
<1> QED BY <1>1, <1>2 DEF input_req

LEMMA Stutter ==
    ASSUME \A r \in Reqs : Unserved(r)' = Unserved(r), UNCHANGED <<mst, resp_status>>
    PROVE  UNCHANGED Service!vars
BY DEF Service!vars

LEMMA QuietSim ==
    ASSUME UNCHANGED <<pending_req, pending_size, denied_sub, down, mst, resp_status>>
    PROVE  UNCHANGED Service!vars
<1>1. Outstanding' = Outstanding
  BY DEF Outstanding, Parked
<1> QED BY <1>1, SameOutstanding, Stutter

LEMMA RetrySim ==
    ASSUME CallRetry, UNCHANGED <<pending_req, pending_size, denied_sub, down, resp_status>>
    PROVE  Service!Serving
<1>1. Outstanding' = Outstanding
  BY DEF Outstanding, Parked
<1>2. todoBar' = todoBar
  BY <1>1, SameOutstanding DEF todoBar
<1>3. Service!Retry
  BY <1>2 DEF CallRetry, Service!Retry, todoBar
<1> QED BY <1>3 DEF Service!Serving

LEMMA EmitSim ==
    ASSUME IInv, TypeOK, EventEmit
    PROVE  [Service!Serving]_(Service!vars)
<1>0. ~NothingToEmit
  BY DEF EventEmit
<1>1. CASE SendDone(NextSub, "event_handler")
  <2>1. /\ NextSub \in Subs /\ 0 < NextSub.size /\ NextSub.parent = pending_req
        /\ Bytes(NextSub) \subseteq Unserved(NextSub.parent)
        /\ mst[pending_req] = "granted"
    BY <1>0, NextSubShape DEF Unserved, IInv, SlotShape, NothingToEmit
  <2>2. \A r \in Reqs : Unserved(r)' = IF r = NextSub.parent THEN Unserved(r) \ Bytes(NextSub)
                                                            ELSE Unserved(r)
    BY <1>1, <2>1, EmitDoneEffect
  <2>3. finish_chunk(NextSub, "event_handler") /\ UNCHANGED mst
    BY <1>1 DEF SendDone, EventEmit
  <2> QED BY <2>1, <2>2, <2>3, ServeSim
<1>2. CASE SendGranted(NextSub, "event_handler") \/ SendDenied(NextSub)
  <2>1. \A r \in Reqs : Unserved(r)' = Unserved(r)
    BY <1>2, EmitHeldEffect
  <2>2. UNCHANGED <<mst, resp_status>>
    BY <1>2 DEF EventEmit, SendGranted, SendDenied
  <2> QED BY <2>1, <2>2, Stutter
<1> QED BY <1>1, <1>2 DEF EventEmit

LEMMA AnsweredSim ==
    ASSUME IInv, TypeOK, NEW sub \in Outstanding, NEW h, finish_chunk(sub, h),
           Outstanding' = Outstanding \ {sub}, UNCHANGED <<pending_req, pending_size, mst>>
    PROVE  Service!Serving
<1>1. sub \in Subs /\ 0 < sub.size /\ mst[sub.parent] = "granted"
  BY DEF IInv, Types, ChunkShape, Outstanding, Parked
<1>2. Bytes(sub) \subseteq Unserved(sub.parent)
  BY DEF Unserved
<1>3. \A r \in Reqs : Unserved(r)' = IF r = sub.parent THEN Unserved(r) \ Bytes(sub)
                                                      ELSE Unserved(r)
  BY AnsweredEffect
<1> QED BY <1>1, <1>2, <1>3, ServeSim

LEMMA ReplaySim ==
    ASSUME IInv, TypeOK, output_retry
    PROVE  [Service!Serving]_(Service!vars)
<1>1. denied_sub \in Outstanding
  BY DEF output_retry, Outstanding, Parked
<1>2. CASE SendDone(denied_sub, "output_retry")
  <2>1. /\ Outstanding' = Outstanding \ {denied_sub}
        /\ finish_chunk(denied_sub, "output_retry")
        /\ UNCHANGED <<pending_req, pending_size, mst>>
    BY <1>2, ReplayEffect DEF output_retry, SendDone
  <2> QED BY <1>1, <2>1, AnsweredSim
<1>3. CASE SendGranted(denied_sub, "output_retry") \/ SendDenied(denied_sub)
  <2>1. Outstanding' = Outstanding /\ UNCHANGED <<pending_req, pending_size, mst, resp_status>>
    BY <1>3, ReplayEffect DEF output_retry, SendGranted, SendDenied
  <2> QED BY <2>1, SameOutstanding, Stutter
<1> QED BY <1>2, <1>3 DEF output_retry

LEMMA RespSim ==
    ASSUME IInv, Resp
    PROVE  Service!Serving
<1>1. /\ parent \in Reqs /\ mst[parent] = "granted" /\ Unserved(parent) = {}
      /\ mst' = [mst EXCEPT ![parent] = "idle"]
  BY RespInv
<1>2. Outstanding' = Outstanding /\ UNCHANGED <<pending_req, pending_size, resp_status>>
  BY DEF Resp, limVars, Outstanding, Parked
<1>3. todoBar' = todoBar
  BY <1>2, SameOutstanding DEF todoBar
<1>4. PICK r \in Reqs : r = parent
  BY <1>1
<1>5. Service!Answer(r)
  BY <1>1, <1>2, <1>3, <1>4 DEF Service!Answer, todoBar
<1> QED BY <1>5 DEF Service!Serving

LEMMA ResetSim ==
    ASSUME IInv, reset
    PROVE  Service!Reset
<1>1. todoBar' = [r \in Reqs |-> {}]
  BY ResetInv DEF todoBar
<1> QED
  BY <1>1 DEF reset, Service!Reset, todoBar

LEMMA NextSim ==
    ASSUME IInv, TypeOK, [Next]_vars
    PROVE  \/ Service!Serving \/ UNCHANGED Service!vars
           \/ reset /\ Service!Reset
<1> USE DEF limVars, clkVars, pcVars
<1>1. ASSUME NEW r \in Reqs, MasterSend(r) \/ MasterResend(r) PROVE Service!Serving
  BY <1>1, InputSim DEF MasterSend, MasterResend
<1>2. CASE EventSkip
  BY <1>2, QuietSim DEF EventSkip
<1>3. CASE EventEmit
  BY <1>3, EmitSim
<1>4. ASSUME NEW sub \in down, output_resp(sub) PROVE Service!Serving
  <2>1. /\ sub \in Outstanding
        /\ Outstanding' = Outstanding \ {sub}
        /\ finish_chunk(sub, "output_resp")
        /\ UNCHANGED <<pending_req, pending_size, mst>>
    BY <1>4, RespEffect DEF output_resp, Outstanding
  <2> QED BY <2>1, AnsweredSim
<1>5. CASE output_retry
  BY <1>5, ReplaySim
<1>6. CASE Resp
  BY <1>6, RespSim
<1>7. CASE RespReturns
  BY <1>7, RetrySim, QuietSim DEF RespReturns
<1>8. CASE RetryReturns
  BY <1>8, QuietSim DEF RetryReturns
<1>9. CASE EventReturns
  BY <1>9, RetrySim, QuietSim DEF EventReturns
<1>10. CASE OutputRetryReturns \/ HandlerReturns \/ Tick
  BY <1>10, QuietSim DEF OutputRetryReturns, HandlerReturns, Tick
<1>11. CASE reset
  BY <1>11, ResetSim
<1>12. CASE UNCHANGED vars
  BY <1>12, QuietSim DEF vars
<1> QED
  BY <1>1, <1>2, <1>3, <1>4, <1>5, <1>6, <1>7, <1>8, <1>9, <1>10, <1>11, <1>12 DEF Next

(* For every master, every size and every bandwidth, what the limiter does *)
(* is allowed by IoService: each accepted byte is served once, and each    *)
(* accepted request answered once, after its last byte, with its status,   *)
(* unless a reset drops it.                                                *)
THEOREM Refinement == Spec => ServiceSpec
<1>1. Init => Service!Init
  <2> SUFFICES ASSUME Init PROVE Service!Init
    OBVIOUS
  <2>1. Outstanding = {}
    BY DEF Init, Outstanding, Parked
  <2>2. \A r \in Reqs : Unserved(r) = {}
    BY <2>1 DEF Init, Unserved, Unemitted
  <2> QED BY <2>2 DEF Init, Service!Init
<1>2. IInv /\ TypeOK /\ [Next]_vars => [Service!Next]_(Service!vars)
  BY NextSim DEF Service!Next
<1>3. IInv /\ TypeOK /\ [Next]_vars => [reset \/ Service!Serving]_(Service!vars)
  BY NextSim
<1> QED BY <1>1, <1>2, <1>3, Invariance, TypeCorrect, PTL DEF Spec, ServiceSpec, Service!Spec

----------------------------------------------------------------------------
(* No wake-up is lost.                                                     *)

Trigger == pending_req # None \/ denied_sub # None \/ down # {}

(* The handler in progress will not look at input_needs_retry any more.    *)
PastRetry == pc = "idle" \/ (pc = "return" /\ cont # "event_handler")

WInv ==
    /\ \A r \in Reqs : mst[r] = "denied" => input_needs_retry
    /\ input_needs_retry /\ PastRetry => Trigger
    /\ input_needs_retry /\ pc = "in_retry" => pending_req # None

(* A chunk was answered and it was not the last of its request.            *)
LEMMA FinishTrigger ==
    ASSUME IInv', NEW sub \in Subs, NEW h, finish_chunk(sub, h), IInv, pc' # "resp"
    PROVE  Trigger'
<1> DEFINE p == sub.parent
<1>1. p \in Reqs /\ remaining_size'[p] # 0
  BY DEF finish_chunk, Subs, IInv, Types
<1>2. Cardinality(Unserved(p)') # 0
  BY <1>1 DEF IInv, BytesConserved
<1>3. Unserved(p)' # {}
  BY <1>2, FS_EmptySet
<1>4. pending_req' = p \/ Outstanding' # {}
  BY <1>3 DEF Unserved, Unemitted
<1> QED BY <1>1, <1>4 DEF Trigger, Outstanding, Parked

LEMMA WakeupStep ==
    ASSUME IInv, IInv', TypeOK, WInv, [Next]_vars
    PROVE  WInv'
<1> USE DEF limVars, clkVars, pcVars, WInv, PastRetry
<1>1. ASSUME NEW r \in Reqs, MasterSend(r) \/ MasterResend(r) PROVE WInv'
  <2>1. CASE pending_req # None /\ Deny(r)
    BY <1>1, <2>1 DEF MasterSend, MasterResend, Deny, Trigger, IInv, Types
  <2>2. CASE pending_req = None /\ Grant(r)
    BY <1>1, <2>2 DEF MasterSend, MasterResend, Grant, Trigger, IInv, Types
  <2> QED BY <1>1, <2>1, <2>2 DEF MasterSend, MasterResend, input_req
<1>2. CASE EventEmit
  <2>0. NextSub \in Subs
    BY <1>2, NextSubShape DEF EventEmit
  <2>1. CASE SendDone(NextSub, "event_handler")
    BY <1>2, <2>1 DEF EventEmit, SendDone, finish_chunk
  <2>2. CASE SendGranted(NextSub, "event_handler")
    BY <1>2, <2>2 DEF EventEmit, SendGranted
  <2>3. CASE SendDenied(NextSub)
    BY <1>2, <2>0, <2>3, NoneAssumption DEF EventEmit, SendDenied, Trigger
  <2> QED BY <1>2, <2>1, <2>2, <2>3 DEF EventEmit
<1>3. ASSUME NEW sub \in down, output_resp(sub) PROVE WInv'
  <2>1. sub \in Subs /\ pc' \in {"resp", "return"}
    BY <1>3 DEF IInv, Types, output_resp, finish_chunk
  <2>2. pc' # "resp" => Trigger'
    BY <1>3, <2>1, FinishTrigger DEF output_resp
  <2> QED BY <1>3, <2>1, <2>2 DEF output_resp
<1>4. CASE output_retry
  <2>0. denied_sub \in Subs
    BY <1>4 DEF IInv, Types, output_retry
  <2>1. CASE SendDone(denied_sub, "output_retry")
    <3>1. pc' \in {"resp", "return"} /\ (pc' # "resp" => Trigger')
      BY <2>0, <2>1, FinishTrigger DEF SendDone, finish_chunk
    <3> QED BY <1>4, <3>1 DEF output_retry
  <2>2. CASE SendGranted(denied_sub, "output_retry")
    BY <1>4, <2>2 DEF output_retry, SendGranted, Trigger
  <2>3. CASE SendDenied(denied_sub)
    BY <1>4, <2>3 DEF output_retry, SendDenied, Trigger
  <2> QED BY <1>4, <2>1, <2>2, <2>3 DEF output_retry
<1>5. CASE Resp
  BY <1>5, RespInv DEF Resp, IInv, Types
<1>6. CASE RespReturns
  BY <1>6 DEF RespReturns, RetryOwed, CallRetry, Trigger
<1>7. CASE RetryReturns
  BY <1>7 DEF RetryReturns, Trigger
<1>8. CASE EventReturns
  BY <1>8 DEF EventReturns, MoreToEmit, CallRetry, Trigger
<1>9. CASE OutputRetryReturns \/ HandlerReturns
  BY <1>9 DEF OutputRetryReturns, HandlerReturns, Trigger
<1>10. CASE EventSkip \/ Tick \/ UNCHANGED vars
  BY <1>10 DEF EventSkip, Tick, vars, Trigger
<1>11. CASE reset
  BY <1>11 DEF reset
<1> QED
  BY <1>1, <1>2, <1>3, <1>4, <1>5, <1>6, <1>7, <1>8, <1>9, <1>10, <1>11 DEF Next

(* Whenever the engine is back in control, a denied master has its retry   *)
(* recorded and something is in flight that will lead to it.               *)
THEOREM WakeupHeldHolds == Spec => []WakeupHeld
<1>1. Init => WInv
  BY DEF Init, WInv, PastRetry
<1>2. IInv /\ IInv' /\ TypeOK /\ WInv /\ [Next]_vars => WInv'
  BY WakeupStep
<1>3. WInv => WakeupHeld
  BY DEF WInv, PastRetry, Trigger, WakeupHeld
<1> QED BY <1>1, <1>2, <1>3, Invariance, TypeCorrect, PTL DEF Spec

----------------------------------------------------------------------------
(* The order of the chunks, and the pacing event.                          *)

(* The handler in progress arms the pacing event before it returns.        *)
WillArm == pc # "idle" /\ cont \in {"event_handler", "output_retry"}

Armed == pending_req # None => event # "none" \/ denied_sub # None \/ WillArm

(* While a chunk is parked the event handler emits nothing, so that only a *)
(* whole request can be put into the slot behind it.                       *)
(* What is still to emit lies behind every chunk that is out.              *)
LEMMA EmittedBefore ==
    ASSUME IInv', NEW d \in Subs, d \in Outstanding'
    PROVE  \A b \in Unemitted(d.parent)' : b >= d.off + d.size
<1>1. pending_req' = d.parent => d.off + d.size <= Size[d.parent] - pending_size'
  BY DEF IInv, ChunkShape
<1>2. /\ pending_size' \in Nat /\ Size[d.parent] \in Nat
      /\ d.off \in Nat /\ d.size \in Nat
  BY LimiterAssumption DEF IInv, Types, Subs
<1> QED
  BY <1>1, <1>2 DEF Unemitted

LEMMA OrderStep ==
    ASSUME IInv, IInv', NoOvertaking, [Next]_vars
    PROVE  NoOvertaking'
<1> USE DEF limVars, pcVars, clkVars
<1>1. ASSUME UNCHANGED <<pending_req, pending_size, denied_sub>>, down' \subseteq down
      PROVE  NoOvertaking'
  BY <1>1 DEF NoOvertaking, Parked, Unemitted
<1>2. ASSUME denied_sub' = None
      PROVE  NoOvertaking'
  BY <1>2 DEF NoOvertaking, Parked
<1>3. ASSUME NEW r \in Reqs, pending_req = None, Grant(r), UNCHANGED <<denied_sub, down>>
      PROVE  NoOvertaking'
  <2>1. CASE denied_sub = None
    BY <1>2, <1>3, <2>1
  <2>2. CASE denied_sub # None
    <3>1. Parked' = {denied_sub} /\ Parked = {denied_sub} /\ denied_sub \in Outstanding'
      BY <1>3, <2>2 DEF Parked, Outstanding
    <3>2. denied_sub \in Subs
      BY <2>2 DEF IInv, Types
    <3>4. pending_size' = Size[pending_req']
      BY <1>3 DEF Grant
    <3> SUFFICES ASSUME NEW sub \in Parked' PROVE
              /\ \A d \in down' : d.parent = sub.parent => d.off + d.size <= sub.off
              /\ \A b \in Unemitted(sub.parent)' : b >= sub.off + sub.size
              /\ pending_req' \in Reqs \ {sub.parent} => pending_size' = Size[pending_req']
      BY DEF NoOvertaking
    <3>3. sub \in Subs /\ sub \in Outstanding' /\ sub \in Parked
      BY <3>1, <3>2
    <3> QED
      BY <1>3, <3>3, <3>4, EmittedBefore DEF NoOvertaking
  <2> QED
    BY <2>1, <2>2
<1>4. ASSUME NEW r \in Reqs, MasterSend(r) \/ MasterResend(r)
      PROVE  NoOvertaking'
  BY <1>1, <1>3, <1>4 DEF MasterSend, MasterResend, input_req, Deny
<1>5. CASE EventEmit
  <2>1. denied_sub = None /\ ~NothingToEmit
    BY <1>5 DEF EventEmit, NothingToEmit
  <2>2. CASE SendDone(NextSub, "event_handler") \/ SendGranted(NextSub, "event_handler")
    BY <1>2, <2>1, <2>2 DEF SendDone, SendGranted, Unparked
  <2>3. CASE SendDenied(NextSub)
    <3>1. Parked' = {NextSub} /\ down' = down /\ NextSub \in Outstanding'
      BY <2>1, <2>3, NextSubShape, NoneAssumption DEF SendDenied, Parked, Outstanding
    <3>2. \A d \in down : d.parent = NextSub.parent => d.off + d.size <= NextSub.off
      BY <2>1, NextSubShape DEF Outstanding
    <3>4. pending_req' \in {None, NextSub.parent}
      BY <1>5, <2>1, NextSubShape DEF EventEmit
    <3> SUFFICES ASSUME NEW sub \in Parked' PROVE
              /\ \A d \in down' : d.parent = sub.parent => d.off + d.size <= sub.off
              /\ \A b \in Unemitted(sub.parent)' : b >= sub.off + sub.size
              /\ pending_req' \in Reqs \ {sub.parent} => pending_size' = Size[pending_req']
      BY DEF NoOvertaking
    <3>3. sub = NextSub /\ sub \in Subs /\ sub \in Outstanding'
      BY <2>1, <3>1, NextSubShape
    <3> HIDE DEF NextSub
    <3> QED
      BY <3>1, <3>2, <3>3, <3>4, EmittedBefore, LimiterAssumption
  <2> QED
    BY <1>5, <2>2, <2>3 DEF EventEmit
<1>6. CASE output_retry
  <2>1. CASE SendDenied(denied_sub)
    BY <1>1, <1>6, <2>1 DEF output_retry, SendDenied
  <2>2. CASE SendDone(denied_sub, "output_retry") \/ SendGranted(denied_sub, "output_retry")
    BY <1>2, <2>2 DEF SendDone, SendGranted, Unparked
  <2> QED
    BY <1>6, <2>1, <2>2 DEF output_retry
<1>7. CASE reset
  BY <1>2, <1>7 DEF reset
<1>8. CASE \/ EventSkip \/ (\E sub \in down : output_resp(sub)) \/ Tick \/ UNCHANGED vars
           \/ Resp \/ RespReturns \/ RetryReturns
           \/ EventReturns \/ OutputRetryReturns \/ HandlerReturns
  BY <1>1, <1>8 DEF EventSkip, output_resp, Tick, vars, Resp, RespReturns, RetryReturns,
                    EventReturns, OutputRetryReturns, HandlerReturns
<1> QED
  BY <1>4, <1>5, <1>6, <1>7, <1>8 DEF Next

(* event_handler and output_retry arm the event in their last lines,       *)
(* whatever the callbacks they make do in between.                         *)
LEMMA ArmedStep ==
    ASSUME IInv, IInv', Armed, [Next]_vars
    PROVE  Armed'
<1> USE DEF limVars, clkVars, pcVars, Armed, WillArm
<1>1. ASSUME NEW r \in Reqs, MasterSend(r) \/ MasterResend(r)
      PROVE  Armed'
  BY <1>1 DEF MasterSend, MasterResend, input_req, Deny, Grant, Enqueued
<1>2. CASE EventSkip
  BY <1>2 DEF EventSkip, NothingToEmit, IInv, Types, SlotShape
<1>3. CASE EventEmit
  <2>1. NextSub # None
    BY <1>3, NextSubShape, NoneAssumption DEF EventEmit
  <2> QED
    BY <1>3, <2>1 DEF EventEmit, SendDone, finish_chunk, SendGranted, SendDenied
<1>4. ASSUME NEW sub \in down, output_resp(sub)
      PROVE  Armed'
  BY <1>4 DEF output_resp, finish_chunk
<1>5. CASE output_retry
  BY <1>5 DEF output_retry, SendDone, finish_chunk, SendGranted, SendDenied
<1>6. CASE Resp \/ RespReturns \/ RetryReturns
  BY <1>6 DEF Resp, RespReturns, CallRetry, RetryReturns
<1>7. CASE EventReturns
  BY <1>7 DEF EventReturns, MoreToEmit, Enqueued, CallRetry, IInv, SlotShape
<1>8. CASE OutputRetryReturns
  BY <1>8 DEF OutputRetryReturns, Resumed, MoreToEmit, Enqueued, IInv, SlotShape
<1>9. CASE HandlerReturns \/ Tick \/ reset \/ UNCHANGED vars
  BY <1>9 DEF HandlerReturns, Tick, reset, vars
<1> QED
  BY <1>1, <1>2, <1>3, <1>4, <1>5, <1>6, <1>7, <1>8, <1>9 DEF Next

(* A chunk that was denied is never overtaken, neither by later chunks of  *)
(* its request nor by a later request, although input_req accepts one      *)
(* while it is parked; and what waits in the emission slot has its event   *)
(* armed, or will have it armed by the retry() of the output.              *)
THEOREM InvHolds == Spec => []Inv
<1>1. Init => NoOvertaking /\ Armed
  BY DEF Init, NoOvertaking, Parked, Armed
<1>2. IInv /\ IInv' /\ NoOvertaking /\ Armed /\ [Next]_vars => (NoOvertaking /\ Armed)'
  BY OrderStep, ArmedStep
<1>3. TypeOK /\ NoOvertaking /\ Armed => Inv
  BY DEF Inv, Armed, WillArm, EmissionArmed
<1> QED
  BY <1>1, <1>2, <1>3, Invariance, TypeCorrect, PTL DEF Spec

----------------------------------------------------------------------------
----------------------------------------------------------------------------
(* RouterBeat: the burst table, the FIFOs, the locks and who waits.        *)

HIDE LimiterAssumption

(* A burst of several beats that decodes to nothing is freed at its first  *)
(* beat: none of its beats may be queued behind it.                        *)
InvalidAlone ==
    \A b \in Bursts : Dest[b] = Invalid /\ NbBeats[b] > 1 =>
        Write[b] /\ 2 * BeatSize[b] > max_input_pending_size

----------------------------------------------------------------------------
(* The inductive invariant.                                                *)

Entry == [in_use : BOOLEAN, input : Inputs \cup {Null}, output_id : Outputs \cup {Null},
          channel : Channels, original_burst_id : Bursts \cup {Proxy, Null},
          pending_master_is_last : Seq(BOOLEAN)]

Handlers ==
    {Idle, [kind |-> "resp"]}
    \cup {[kind |-> "fsm", k |-> n, used |-> u] :
             n \in 0 .. nb_input_port, u \in SUBSET (Outputs \X Channels)}
    \cup {[kind |-> "retry", out |-> o, todo |-> c] : o \in Outputs, c \in SUBSET Channels}

Marked == {"denied", "retrying"}

TypesOK ==
    /\ burst_table \in [Slots -> Entry]
    /\ pending \in [Inputs -> Seq(Beats \X Slots)] /\ pending_bytes \in [Inputs -> Nat]
    /\ head_cycle \in [Inputs -> [cur : BOOLEAN, nxt : BOOLEAN]]
    /\ active_multi_beat_slot \in [Inputs -> Slots \cup {Null}]
    /\ denied_upstream \in [Inputs -> BOOLEAN]
    /\ elected_input \in [Outputs -> [Channels -> Inputs \cup {Null}]]
    /\ stalled \in [Outputs -> [Channels -> BOOLEAN]]
    /\ stalled_input \in [Outputs -> [Channels -> Inputs \cup {Null}]]
    /\ round_robin_next \in Inputs /\ fsm_event \in {"off", "next", "due"}
    /\ below \subseteq (Beats \cup {<<Proxy, 1>>}) \X Slots \X Outputs /\ IsFiniteSet(below)
    /\ handler \in Handlers
    /\ wake \in 0 .. nb_input_port /\ cb \in Inputs \cup {Null}
    /\ sent \in [Bursts -> Nat] /\ \A b \in Bursts : sent[b] < NbBeats[b]
    /\ master \in [Beats -> {"idle", "denied", "retrying", "granted"}]
    /\ proxy_retry_waiter \in {Null, Proxy} /\ waiter \in {"Pending", "Replied", "Retry"}
    /\ pst \in {"idle", "wait_reply", "wait_retry"}
    /\ pcmd \in (Outputs \cup {Invalid}) \X BOOLEAN

(* A master: the beat it may not send yet is the next of its burst, the    *)
(* beats after it are not in the router, and of two bursts of several      *)
(* beats one is under way.                                                 *)
UnderWay(b) == sent[b] > 0 \/ master[<<b, 1>>] \in Marked

Rounds ==
    /\ \A x \in Beats :
         /\ master[x] \in Marked => x[2] = sent[x[1]] + 1
         /\ sent[x[1]] > 0 /\ x[2] > sent[x[1]] => master[x] # "granted"
         /\ sent[x[1]] = 0 /\ master[<<x[1], 1>>] \in Marked => master[x] # "granted"
    /\ \A b, d \in Bursts :
         b # d /\ In[b] = In[d] /\ NbBeats[b] > 1 /\ NbBeats[d] > 1 /\ UnderWay(b) => ~UnderWay(d)

Flags ==
    /\ \A x \in Beats : master[x] = "retrying" => cb = In[x[1]]
    /\ \A i \in Inputs : denied_upstream[i] <=> \E x \in Beats : In[x[1]] = i /\ master[x] = "denied"

(* Slots: who has them, one for a burst, and for no longer than beats of   *)
(* the burst are below, queued or to come.                                 *)
TooLarge(b) == Write[b] /\ BeatSize[b] > width

BeatSlotShape(s) ==
    LET e == burst_table[s]
        b == e.original_burst_id
    IN  \/ b = Proxy /\ e.input = Null
        \/ /\ b \in Bursts /\ e.input = In[b] /\ e.channel = channel_of(Write[b])
           /\ e.output_id \in {Null, Dest[b]} /\ ~TooLarge(b)
           /\ sent[b] > 0 \/ \E x \in Beats : x[1] = b /\ master[x] = "granted"

UsedBy(s, b) == burst_table[s].in_use /\ burst_table[s].original_burst_id = b

SlotsOK ==
    /\ \A s \in Slots : burst_table[s].in_use => BeatSlotShape(s)
    /\ \A s \in Slots : ~burst_table[s].in_use => burst_table[s].pending_master_is_last = <<>>
    /\ \A s, t \in Slots, b \in Bursts \cup {Proxy} : UsedBy(s, b) /\ UsedBy(t, b) => s = t

ActiveOK ==
    /\ \A i \in Inputs : active_multi_beat_slot[i] # Null =>
         \E b \in Bursts : In[b] = i /\ sent[b] > 0 /\ UsedBy(active_multi_beat_slot[i], b)
    /\ \A b \in Bursts : sent[b] > 0 =>
         active_multi_beat_slot[In[b]] # Null \/ \A s \in Slots : ~UsedBy(s, b)

(* A FIFO: the beats of a burst in order, none missing.                    *)
Fifo(q, i) ==
    /\ \A m \in DOMAIN q : In[q[m][1][1]] = i
    /\ \A m, n \in DOMAIN q : m < n /\ q[m][1][1] = q[n][1][1] => q[m][1][2] < q[n][1][2]

FifosOK ==
    /\ \A i \in Inputs : Fifo(pending[i], i)
    /\ \A q \in Queued : UsedBy(q[2], q[1][1])
    /\ \A q \in Queued :
         q[1][2] < NbBeats[q[1][1]] /\ (q[1][2] < sent[q[1][1]] \/ sent[q[1][1]] = 0) =>
            <<<<q[1][1], q[1][2] + 1>>, q[2]>> \in Queued

BelowOK ==
    /\ \A y \in below : UsedBy(y[2], y[1][1]) /\ burst_table[y[2]].output_id = y[3]
    /\ \A y, z \in below : y[1] = z[1] => y = z

PlacesOK ==
    /\ \A q \in Queued : master[q[1]] = "granted"
    /\ \A y \in below : y[1][1] # Proxy => master[y[1]] = "granted"
    /\ \A q \in Queued, y \in below : q[1] # y[1]
    /\ \A x \in Beats : master[x] = "granted" =>
         (\E q \in Queued : q[1] = x) \/ (\E y \in below : y[1] = x)

At(B, s) == {y \in B : y[2] = s}
Mine(s) == At(below, s)

LastsOK ==
    \A s \in Slots :
       LET lasts == burst_table[s].pending_master_is_last
       IN  /\ Len(lasts) = Cardinality(Mine(s))
           /\ \A k \in 1 .. Len(lasts) :
                 lasts[k] <=> k = Len(lasts) /\ AllForwarded(burst_table[s].original_burst_id)

StallsOK ==
    /\ StalledHead
    /\ \A o \in Outputs, c \in Channels : ~stalled[o][c] => stalled_input[o][c] = Null

ProxyOK ==
    /\ pst # "wait_retry" => proxy_retry_waiter = Null
    /\ pst = "wait_retry" => pcmd[1] # Invalid
    /\ pst = "wait_retry" /\ waiter = "Pending" => proxy_retry_waiter = Proxy
    /\ \A s \in Slots : UsedBy(s, Proxy) => pst = "wait_reply" /\ waiter = "Pending"
    /\ pst = "wait_reply" /\ waiter = "Pending" => \E y \in below : y[1][1] = Proxy

(* The bytes of a FIFO: f[k] are those of its first k beats.               *)

Cost(q, k) == fifo_cost(q[k][1][1])

Sums(f, q) ==
    /\ f \in [0 .. Len(q) -> Nat] /\ f[0] = 0
    /\ \A k \in 1 .. Len(q) : f[k] = f[k - 1] + Cost(q, k)
    /\ \A k, m \in 0 .. Len(q) : k <= m => f[k] <= f[m]

Counted(q, n) == \E f : Sums(f, q) /\ f[Len(q)] = n

BytesOK ==
    \A i \in Inputs : /\ Counted(pending[i], pending_bytes[i])
                      /\ pending_bytes[i] <= max_input_pending_size

(* What wakes the denied.                                                  *)
Awaited == Queued # {} \/ \E s \in Slots : burst_table[s].in_use /\ burst_table[s].input # Null

WakesOK ==
    /\ handler.kind # "fsm" /\ Queued # {} => fsm_event # "off"
    /\ \A i \in Inputs : denied_upstream[i] => i >= wake \/ Awaited
    /\ ProxyCmds = {} => pst = "idle"

BeatIInv ==
    /\ TypesOK /\ Rounds /\ Flags /\ SlotsOK /\ ActiveOK /\ FifosOK /\ BelowOK /\ PlacesOK
    /\ LastsOK /\ BytesOK /\ LockOwned /\ StallsOK /\ ProxyOK

----------------------------------------------------------------------------
(* Values.                                                                 *)

LEMMA BeatIs ==
    /\ \A x \in Beats : /\ x[1] \in Bursts /\ x[2] \in 1 .. NbBeats[x[1]] /\ x = <<x[1], x[2]>>
                        /\ x[1] # Proxy /\ x # <<Proxy, 1>>
    /\ \A b \in Bursts : \A k \in 1 .. NbBeats[b] : <<b, k>> \in Beats
BY RouterBeatAssumption DEF Beats

(* A burst of which some beats are in, and some are not, has several.      *)
LEMMA BegunLong ==
    ASSUME TypesOK, NEW b \in Bursts, sent[b] > 0
    PROVE  NbBeats[b] > 1
<1>1. sent[b] < NbBeats[b] /\ sent[b] \in Nat
  BY DEF TypesOK
<1>2. NbBeats[b] \in Nat
  BY RouterBeatAssumption
<1> QED
  BY ONLY sent[b] > 0, <1>1, <1>2

LEMMA InputsNat == Inputs \subseteq Nat /\ Slots \subseteq Nat /\ Channels \subseteq Nat
BY DEF Inputs, Slots, Channels

LEMMA Nothing ==
    /\ Null \notin Inputs /\ Null \notin Slots /\ Null \notin Outputs
    /\ Invalid \notin Outputs /\ Proxy \notin Bursts /\ Proxy # Null
BY RouterBeatAssumption

LEMMA EntryFields ==
    ASSUME NEW e \in Entry
    PROVE  /\ e.in_use \in BOOLEAN /\ e.input \in Inputs \cup {Null}
           /\ e.output_id \in Outputs \cup {Null} /\ e.channel \in Channels
           /\ e.original_burst_id \in Bursts \cup {Proxy, Null}
           /\ e.pending_master_is_last \in Seq(BOOLEAN)
BY DEF Entry

LEMMA ChannelOf ==
    /\ \A b \in Bursts : channel_of(Write[b]) \in Channels /\ Write[b] \in BOOLEAN
    /\ \A w \in BOOLEAN : channel_of(w) \in Channels
BY RouterBeatAssumption DEF channel_of, Channels

LEMMA CostIs == \A b \in Bursts : fifo_cost(b) \in Nat
BY RouterBeatAssumption DEF fifo_cost

(* The least element of a set of numbers.                                  *)
LEMMA LeastNat ==
    ASSUME NEW S, S \subseteq Nat, S # {}
    PROVE  Min(S) \in S /\ \A y \in S : Min(S) <= y
<1>1. \E x \in S : \A y \in S : ~(<<y, x>> \in OpToRel(<, Nat))
  BY NatLessThanWellFounded, WFMin
<1>2. PICK x \in S : \A y \in S : ~(y < x)
  BY <1>1 DEF OpToRel
<1>3. \E z \in S : \A y \in S : z <= y
  BY <1>2
<1> QED
  BY <1>3 DEF Min

LEMMA FreeSlot ==
    ASSUME FreeSlots # {}
    PROVE  /\ Min(FreeSlots) \in Slots /\ ~burst_table[Min(FreeSlots)].in_use
<1>1. FreeSlots \subseteq Nat
  BY InputsNat DEF FreeSlots
<1>2. Min(FreeSlots) \in FreeSlots
  BY <1>1, LeastNat
<1> QED
  BY <1>2 DEF FreeSlots

(* The input whose turn it is.                                             *)
LEMMA RoundRobin ==
    ASSUME NEW r \in Nat
    PROVE  r % nb_input_port \in Inputs
BY RouterBeatAssumption DEF Inputs

LEMMA HandlerKinds ==
    ASSUME handler \in Handlers
    PROVE  /\ handler.kind = "idle" => handler = Idle
           /\ handler.kind = "resp" => handler = [kind |-> "resp"]
           /\ handler.kind = "fsm" =>
                /\ handler = [kind |-> "fsm", k |-> handler.k, used |-> handler.used]
                /\ handler.k \in 0 .. nb_input_port /\ handler.used \in SUBSET (Outputs \X Channels)
           /\ handler.kind = "retry" =>
                /\ handler = [kind |-> "retry", out |-> handler.out, todo |-> handler.todo]
                /\ handler.out \in Outputs /\ handler.todo \in SUBSET Channels
           /\ handler.kind \in {"idle", "resp", "fsm", "retry"}
BY DEF Handlers, Idle
----------------------------------------------------------------------------
(* The FIFOs.                                                              *)

InFifo(i) == ToSet(pending[i])

LEMMA QueuedIs ==
    ASSUME NEW q
    PROVE  /\ q \in Queued <=> \E i \in Inputs : \E m \in DOMAIN pending[i] : q = pending[i][m]
           /\ q \in Queued' <=> \E i \in Inputs : \E m \in DOMAIN pending'[i] : q = pending'[i][m]
BY ONLY TRUE DEF Queued, ToSet, Inputs

LEMMA SeqPlaces ==
    ASSUME NEW S, NEW q \in Seq(S)
    PROVE  /\ DOMAIN q = 1 .. Len(q) /\ Len(q) \in Nat
           /\ \A m \in DOMAIN q : q[m] \in S
           /\ q # <<>> => Head(q) = q[1] /\ 1 \in DOMAIN q /\ Len(q) > 0
           /\ q = <<>> => DOMAIN q = {} /\ Len(q) = 0
OBVIOUS

LEMMA AppendPlaces ==
    ASSUME NEW S, NEW q \in Seq(S), NEW e \in S, NEW t, t = Append(q, e)
    PROVE  /\ t \in Seq(S) /\ t # <<>> /\ Len(t) = Len(q) + 1
           /\ DOMAIN q = 1 .. Len(q) /\ DOMAIN t = 1 .. (Len(q) + 1) /\ Len(q) \in Nat
           /\ \A m \in 1 .. Len(q) : t[m] = q[m]
           /\ t[Len(q) + 1] = e
           /\ q # <<>> => Head(t) = Head(q)
OBVIOUS

LEMMA TailPlaces ==
    ASSUME NEW S, NEW q \in Seq(S), q # <<>>, NEW t, t = Tail(q)
    PROVE  /\ t \in Seq(S) /\ Len(t) = Len(q) - 1
           /\ DOMAIN q = 1 .. Len(q) /\ DOMAIN t = 1 .. (Len(q) - 1) /\ Len(q) \in Nat \ {0}
           /\ \A m \in 1 .. (Len(q) - 1) : t[m] = q[m + 1]
           /\ Head(q) = q[1] /\ q[1] \in S
           /\ t = <<>> <=> Len(q) = 1
<1>1. q \in Seq(S) /\ q # <<>> /\ Len(q) \in Nat \ {0} /\ DOMAIN q = 1 .. Len(q)
  OBVIOUS
<1>2. Head(q) = q[1] /\ q[1] \in S
  BY <1>1
<1>3. t \in Seq(S) /\ Len(t) = Len(q) - 1 /\ DOMAIN t = 1 .. (Len(q) - 1)
  BY <1>1
<1>4. \A m \in 1 .. (Len(q) - 1) : t[m] = q[m + 1]
  BY <1>1
<1>5. t = <<>> <=> Len(q) = 1
  <2>1. t = <<>> <=> Len(t) = 0
    BY ONLY <1>3
  <2> QED
    BY ONLY <1>1, <1>3, <2>1
<1> QED
  BY <1>1, <1>2, <1>3, <1>4, <1>5

(* A beat that follows those of its burst joins its FIFO.                  *)
LEMMA FifoJoins ==
    ASSUME NEW i \in Inputs, NEW q \in Seq(Beats \X Slots), NEW e \in Beats \X Slots,
           NEW t, t = Append(q, e), Fifo(q, i), In[e[1][1]] = i,
           \A m \in DOMAIN q : q[m][1][1] = e[1][1] => q[m][1][2] < e[1][2]
    PROVE  Fifo(t, i)
<1>1. /\ DOMAIN q = 1 .. Len(q) /\ DOMAIN t = 1 .. (Len(q) + 1) /\ Len(q) \in Nat
      /\ \A m \in 1 .. Len(q) : t[m] = q[m]
      /\ t[Len(q) + 1] = e
  BY ONLY q \in Seq(Beats \X Slots), e \in Beats \X Slots, t = Append(q, e), AppendPlaces
<1>2. \A m \in DOMAIN t : m \in 1 .. Len(q) \/ (m = Len(q) + 1 /\ t[m] = e)
  BY <1>1
<1>3. \A m \in 1 .. Len(q) : m \in DOMAIN q /\ t[m] = q[m]
  BY <1>1
<1>4. \A m \in DOMAIN t : In[t[m][1][1]] = i
  BY <1>2, <1>3 DEF Fifo
<1>5. ASSUME NEW m \in DOMAIN t, NEW n \in DOMAIN t, m < n, t[m][1][1] = t[n][1][1]
      PROVE  t[m][1][2] < t[n][1][2]
  <2>1. m \in 1 .. Len(q) /\ t[m] = q[m] /\ m \in DOMAIN q
    BY <1>1, <1>5
  <2>2. CASE n \in 1 .. Len(q)
    BY <1>3, <1>5, <2>1, <2>2 DEF Fifo
  <2>3. CASE t[n] = e
    BY <1>5, <2>1, <2>3
  <2> QED
    BY <1>2, <1>5, <2>2, <2>3
<1> QED
  BY <1>4, <1>5 DEF Fifo

LEMMA FifoLeaves ==
    ASSUME NEW i \in Inputs, NEW q \in Seq(Beats \X Slots), q # <<>>,
           NEW t, t = Tail(q), Fifo(q, i)
    PROVE  Fifo(t, i)
<1>1. /\ DOMAIN q = 1 .. Len(q) /\ DOMAIN t = 1 .. (Len(q) - 1) /\ Len(q) \in Nat \ {0}
      /\ \A m \in 1 .. (Len(q) - 1) : t[m] = q[m + 1]
  BY ONLY q \in Seq(Beats \X Slots), q # <<>>, t = Tail(q), TailPlaces
<1>2. \A m \in DOMAIN t : m \in Int /\ m + 1 \in DOMAIN q /\ t[m] = q[m + 1]
  BY <1>1
<1>3. \A m \in DOMAIN t : In[t[m][1][1]] = i
  BY <1>2 DEF Fifo
<1>4. ASSUME NEW m \in DOMAIN t, NEW n \in DOMAIN t, m < n, t[m][1][1] = t[n][1][1]
      PROVE  t[m][1][2] < t[n][1][2]
  <2>1. m + 1 \in DOMAIN q /\ n + 1 \in DOMAIN q /\ m + 1 < n + 1 /\ t[m] = q[m + 1] /\ t[n] = q[n + 1]
    BY <1>2, <1>4
  <2> QED
    BY <1>4, <2>1 DEF Fifo
<1> QED
  BY <1>3, <1>4 DEF Fifo

(* The head of a FIFO: no other entry is its beat.                         *)
LEMMA HeadAlone ==
    ASSUME NEW i \in Inputs, NEW q \in Seq(Beats \X Slots), q # <<>>, Fifo(q, i)
    PROVE  /\ 1 \in DOMAIN q /\ Head(q) = q[1]
           /\ \A m \in DOMAIN q : m # 1 /\ q[m][1][1] = q[1][1][1] => q[m][1][2] > q[1][1][2]
           /\ \A m \in DOMAIN q : m # 1 => q[m] # q[1]
<1>1. DOMAIN q = 1 .. Len(q) /\ Head(q) = q[1] /\ 1 \in DOMAIN q /\ Len(q) \in Nat
  BY SeqPlaces
<1>2. \A m \in DOMAIN q : q[m][1][2] \in Nat
  <2>1. \A m \in DOMAIN q : q[m] \in Beats \X Slots
    BY SeqPlaces
  <2> QED
    BY <2>1, BeatIs
<1>3. ASSUME NEW m \in DOMAIN q, m # 1, q[m][1][1] = q[1][1][1] PROVE q[m][1][2] > q[1][1][2]
  <2>1. 1 \in DOMAIN q /\ 1 < m
    BY <1>1, <1>3
  <2>2. q[1][1][2] < q[m][1][2]
    BY <1>3, <2>1 DEF Fifo
  <2> QED
    BY <1>1, <1>2, <2>2
<1>4. \A m \in DOMAIN q : m # 1 => q[m] # q[1]
  <2>1. ASSUME NEW m \in DOMAIN q, m # 1, q[m] = q[1] PROVE FALSE
    <3>1. q[m][1][2] > q[1][1][2]
      BY <1>3, <2>1
    <3> QED
      BY <1>1, <1>2, <2>1, <3>1
  <2> QED
    BY <2>1
<1> QED
  BY <1>1, <1>3, <1>4

(* What a change of one FIFO makes of the beats that are queued.           *)
LEMMA QueuedJoins ==
    ASSUME NEW i \in Inputs, NEW e \in Beats \X Slots, pending \in [Inputs -> Seq(Beats \X Slots)],
           pending' = [pending EXCEPT ![i] = Append(@, e)]
    PROVE  /\ pending' \in [Inputs -> Seq(Beats \X Slots)]
           /\ Queued' = Queued \cup {e}
           /\ \A j \in Inputs : j # i => pending'[j] = pending[j]
           /\ pending'[i] = Append(pending[i], e)
<1>1. /\ pending' \in [Inputs -> Seq(Beats \X Slots)]
      /\ pending[i] \in Seq(Beats \X Slots)
      /\ pending'[i] = Append(pending[i], e)
      /\ \A j \in Inputs : j # i => pending'[j] = pending[j]
  OBVIOUS
<1> DEFINE q == pending[i]
           t == pending'[i]
<1>2. /\ DOMAIN q = 1 .. Len(q) /\ DOMAIN t = 1 .. (Len(q) + 1) /\ Len(q) \in Nat
      /\ \A m \in 1 .. Len(q) : t[m] = q[m]
      /\ t[Len(q) + 1] = e
  <2>1. q \in Seq(Beats \X Slots) /\ t = Append(q, e)
    BY <1>1
  <2> HIDE DEF q, t
  <2> QED
    BY ONLY <2>1, e \in Beats \X Slots, AppendPlaces
<1>3. ASSUME NEW p PROVE p \in Queued' <=> p \in Queued \/ p = e
  <2>1. p \in Queued <=> \E j \in Inputs : \E m \in DOMAIN pending[j] : p = pending[j][m]
    BY QueuedIs
  <2>2. p \in Queued' <=> \E j \in Inputs : \E m \in DOMAIN pending'[j] : p = pending'[j][m]
    BY ONLY QueuedIs
  <2>3. ASSUME NEW j \in Inputs, NEW m \in DOMAIN pending'[j], p = pending'[j][m]
        PROVE  p \in Queued \/ p = e
    <3>1. CASE j # i
      BY <1>1, <2>1, <2>3, <3>1
    <3>2. CASE j = i /\ m = Len(q) + 1
      BY <1>2, <2>3, <3>2
    <3>3. CASE j = i /\ m # Len(q) + 1
      <4>1. m \in DOMAIN q /\ p = q[m]
        BY <1>2, <2>3, <3>3
      <4> QED
        BY <2>1, <4>1
    <3> QED
      BY <3>1, <3>2, <3>3
  <2>4. ASSUME NEW j \in Inputs, NEW m \in DOMAIN pending[j], p = pending[j][m] PROVE p \in Queued'
    <3>1. CASE j # i
      BY <1>1, <2>2, <2>4, <3>1
    <3>2. CASE j = i
      <4>1. m \in DOMAIN t /\ p = t[m]
        BY <1>2, <2>4, <3>2
      <4> QED
        BY <2>2, <4>1
    <3> QED
      BY <3>1, <3>2
  <2>5. e \in Queued'
    <3>1. e \in Queued' <=> \E j \in Inputs : \E m \in DOMAIN pending'[j] : e = pending'[j][m]
      BY ONLY QueuedIs
    <3>2. Len(q) + 1 \in DOMAIN t
      BY <1>2
    <3> QED
      BY <1>2, <3>1, <3>2
  <2> QED
    BY <2>1, <2>2, <2>3, <2>4, <2>5
<1> QED
  BY <1>1, <1>3

LEMMA QueuedLeaves ==
    ASSUME NEW i \in Inputs, pending \in [Inputs -> Seq(Beats \X Slots)],
           pending[i] # <<>>, \A j \in Inputs : Fifo(pending[j], j),
           pending' = [pending EXCEPT ![i] = Tail(@)]
    PROVE  /\ pending' \in [Inputs -> Seq(Beats \X Slots)]
           /\ Queued' = Queued \ {Head(pending[i])} /\ Head(pending[i]) \in Queued
           /\ \A j \in Inputs : j # i => pending'[j] = pending[j]
           /\ pending'[i] = Tail(pending[i])
<1>1. /\ pending' \in [Inputs -> Seq(Beats \X Slots)]
      /\ pending[i] \in Seq(Beats \X Slots)
      /\ pending'[i] = Tail(pending[i])
      /\ \A j \in Inputs : j # i => pending'[j] = pending[j]
  OBVIOUS
<1> DEFINE q == pending[i]
           t == pending'[i]
           e == Head(pending[i])
<1>2. /\ DOMAIN q = 1 .. Len(q) /\ DOMAIN t = 1 .. (Len(q) - 1) /\ Len(q) \in Nat \ {0}
      /\ \A m \in 1 .. (Len(q) - 1) : t[m] = q[m + 1]
      /\ e = q[1]
  <2>1. q \in Seq(Beats \X Slots) /\ q # <<>> /\ t = Tail(q) /\ e = Head(q)
    BY <1>1
  <2> HIDE DEF q, t, e
  <2> QED
    BY ONLY <2>1, TailPlaces
<1>3. \A m \in DOMAIN q : m # 1 => q[m] # e
  <2>1. q \in Seq(Beats \X Slots) /\ q # <<>> /\ Fifo(q, i)
    BY <1>1
  <2> HIDE DEF q, e
  <2>2. \A m \in DOMAIN q : m # 1 => q[m] # q[1]
    BY ONLY <2>1, i \in Inputs, HeadAlone
  <2> QED
    BY <1>2, <2>2
<1>4. \A j \in Inputs : \A m \in DOMAIN pending[j] : j # i => pending[j][m] # e
  <2>1. In[e[1][1]] = i
    BY <1>2 DEF Fifo
  <2> QED
    BY <2>1 DEF Fifo
<1>5. ASSUME NEW p PROVE p \in Queued' <=> p \in Queued /\ p # e
  <2>1. p \in Queued <=> \E j \in Inputs : \E m \in DOMAIN pending[j] : p = pending[j][m]
    BY QueuedIs
  <2>2. p \in Queued' <=> \E j \in Inputs : \E m \in DOMAIN pending'[j] : p = pending'[j][m]
    BY ONLY QueuedIs
  <2>3. ASSUME NEW j \in Inputs, NEW m \in DOMAIN pending'[j], p = pending'[j][m]
        PROVE  p \in Queued /\ p # e
    <3>1. CASE j # i
      BY <1>1, <1>4, <2>1, <2>3, <3>1
    <3>2. CASE j = i
      <4>1. m + 1 \in DOMAIN q /\ m + 1 # 1 /\ p = q[m + 1]
        BY <1>2, <2>3, <3>2
      <4> QED
        BY <1>3, <2>1, <4>1
    <3> QED
      BY <3>1, <3>2
  <2>4. ASSUME NEW j \in Inputs, NEW m \in DOMAIN pending[j], p = pending[j][m], p # e
        PROVE  p \in Queued'
    <3>1. CASE j # i
      BY <1>1, <2>2, <2>4, <3>1
    <3>2. CASE j = i
      <4>1. m # 1
        BY <1>2, <2>4, <3>2
      <4>2. m - 1 \in DOMAIN t /\ p = t[m - 1]
        <5>1. m \in 1 .. Len(q) /\ m - 1 \in 1 .. (Len(q) - 1) /\ m - 1 + 1 = m
          BY <1>2, <2>4, <3>2, <4>1
        <5> QED
          BY <1>2, <2>4, <3>2, <5>1
      <4> QED
        BY <2>2, <4>2
    <3> QED
      BY <3>1, <3>2
  <2> QED
    BY <2>1, <2>2, <2>3, <2>4
<1>6. e \in Queued
  <2>1. e \in Queued <=> \E j \in Inputs : \E m \in DOMAIN pending[j] : e = pending[j][m]
    BY QueuedIs
  <2>2. 1 \in DOMAIN q
    BY <1>2
  <2> QED
    BY <1>2, <2>1, <2>2
<1> QED
  BY <1>1, <1>5, <1>6

----------------------------------------------------------------------------
(* The bytes of a FIFO.                                                    *)

LEMMA CostNat ==
    ASSUME NEW q \in Seq(Beats \X Slots), NEW k \in DOMAIN q
    PROVE  Cost(q, k) \in Nat
<1>1. q[k] \in Beats \X Slots
  BY SeqPlaces
<1>2. q[k][1][1] \in Bursts
  BY <1>1, BeatIs
<1> QED
  BY <1>2, CostIs DEF Cost

LEMMA CountedNone == Counted(<<>>, 0)
<1> DEFINE f == [k \in 0 .. 0 |-> 0]
<1>1. Len(<<>>) = 0
  OBVIOUS
<1>2. f \in [0 .. 0 -> Nat] /\ \A k \in 0 .. 0 : f[k] = 0
  OBVIOUS
<1> HIDE DEF f
<1>3. Sums(f, <<>>)
  BY <1>1, <1>2 DEF Sums
<1> QED
  BY <1>1, <1>2, <1>3 DEF Counted

LEMMA CountedJoins ==
    ASSUME NEW q \in Seq(Beats \X Slots), NEW e \in Beats \X Slots, NEW t, t = Append(q, e),
           NEW n, Counted(q, n)
    PROVE  n \in Nat /\ Counted(t, n + fifo_cost(e[1][1]))
<1>1. /\ t \in Seq(Beats \X Slots) /\ Len(t) = Len(q) + 1 /\ Len(q) \in Nat /\ DOMAIN t = 1 .. (Len(q) + 1)
      /\ \A m \in 1 .. Len(q) : t[m] = q[m]
      /\ t[Len(q) + 1] = e
  BY ONLY q \in Seq(Beats \X Slots), e \in Beats \X Slots, t = Append(q, e), AppendPlaces
<1> DEFINE L == Len(q)
           c == fifo_cost(e[1][1])
<1>2. PICK f : Sums(f, q) /\ f[L] = n
  BY DEF Counted
<1>3. f \in [0 .. L -> Nat] /\ f[0] = 0 /\ (\A k \in 1 .. L : f[k] = f[k - 1] + Cost(q, k))
      /\ \A k, m \in 0 .. L : k <= m => f[k] <= f[m]
  BY <1>2 DEF Sums
<1>4. c \in Nat
  <2>1. e[1][1] \in Bursts
    BY BeatIs
  <2> QED
    BY <2>1, CostIs
<1>5. Cost(t, L + 1) = c /\ \A k \in 1 .. L : Cost(t, k) = Cost(q, k)
  BY <1>1 DEF Cost
<1>6. L \in Nat /\ Len(t) = L + 1
  BY <1>1
<1> HIDE DEF L, c
<1>7. n \in Nat
  BY <1>2, <1>3, <1>6
<1> DEFINE g == [k \in 0 .. (L + 1) |-> IF k = L + 1 THEN n + c ELSE f[k]]
<1>8. /\ g[L + 1] = n + c
      /\ \A k \in 0 .. L : g[k] = f[k] /\ f[k] \in Nat /\ f[k] <= n
      /\ DOMAIN g = 0 .. (L + 1)
  BY <1>2, <1>3, <1>6
<1>9. g \in [0 .. (L + 1) -> Nat]
  BY <1>3, <1>4, <1>6, <1>7
<1> HIDE DEF g
<1>10. g[0] = 0
  BY <1>3, <1>6, <1>8
<1>11. ASSUME NEW k \in 1 .. (L + 1) PROVE g[k] = g[k - 1] + Cost(t, k)
  <2>1. CASE k = L + 1
    <3>1. g[k - 1] = n
      BY <1>2, <1>6, <1>8, <2>1
    <3> QED
      BY <1>5, <1>8, <2>1, <3>1
  <2>2. CASE k # L + 1
    <3>1. k \in 1 .. L /\ k \in 0 .. L /\ k - 1 \in 0 .. L
      BY <1>6, <2>2
    <3> QED
      BY <1>3, <1>5, <1>8, <3>1
  <2> QED
    BY <2>1, <2>2
<1>12. ASSUME NEW k \in 0 .. (L + 1), NEW m \in 0 .. (L + 1), k <= m PROVE g[k] <= g[m]
  <2>1. CASE m # L + 1
    <3>1. k \in 0 .. L /\ m \in 0 .. L
      BY <1>6, <1>12, <2>1
    <3> QED
      BY <1>3, <1>8, <1>12, <3>1
  <2>2. CASE m = L + 1 /\ k # L + 1
    <3>1. k \in 0 .. L
      BY <1>6, <2>2
    <3>2. g[k] \in Nat /\ g[k] <= n /\ g[m] = n + c
      BY <1>8, <2>2, <3>1
    <3> QED
      BY <1>4, <1>7, <3>2
  <2>3. CASE m = L + 1 /\ k = L + 1
    BY <1>4, <1>7, <1>8, <2>3
  <2> QED
    BY <2>1, <2>2, <2>3
<1>13. Sums(g, t)
  BY <1>6, <1>9, <1>10, <1>11, <1>12 DEF Sums
<1> QED
  BY <1>6, <1>7, <1>8, <1>13 DEF Counted, c

LEMMA CountedLeaves ==
    ASSUME NEW q \in Seq(Beats \X Slots), q # <<>>, NEW t, t = Tail(q), NEW n, Counted(q, n)
    PROVE  /\ n \in Nat /\ Cost(q, 1) \in Nat /\ n - Cost(q, 1) \in Nat
           /\ Counted(t, n - Cost(q, 1))
           /\ \A m \in DOMAIN q : m # 1 => n >= Cost(q, 1) + Cost(q, m)
<1>1. /\ Len(t) = Len(q) - 1 /\ DOMAIN q = 1 .. Len(q) /\ Len(q) \in Nat \ {0}
      /\ \A m \in 1 .. (Len(q) - 1) : t[m] = q[m + 1]
  BY ONLY q \in Seq(Beats \X Slots), q # <<>>, t = Tail(q), TailPlaces
<1> DEFINE L == Len(q)
           c == Cost(q, 1)
<1>2. PICK f : Sums(f, q) /\ f[L] = n
  BY DEF Counted
<1>3. f \in [0 .. L -> Nat] /\ f[0] = 0 /\ (\A k \in 1 .. L : f[k] = f[k - 1] + Cost(q, k))
      /\ \A k, m \in 0 .. L : k <= m => f[k] <= f[m]
  BY <1>2 DEF Sums
<1>4. L \in Nat \ {0} /\ Len(t) = L - 1 /\ DOMAIN q = 1 .. L
  BY <1>1
<1>5. \A k \in 1 .. (L - 1) : Cost(t, k) = Cost(q, k + 1)
  BY <1>1 DEF Cost
<1>6. c \in Nat
  BY <1>4, CostNat
<1>6a. \A k \in 1 .. L : Cost(q, k) \in Nat
  BY <1>4, CostNat
<1> HIDE DEF L
<1>7. f[1] = c
  BY <1>3, <1>4, <1>6
<1> HIDE DEF c
<1>8. n \in Nat /\ \A k \in 1 .. L : f[k] \in Nat /\ c <= f[k] /\ f[k] <= n
  BY <1>2, <1>3, <1>4, <1>7
<1> DEFINE g == [k \in 0 .. (L - 1) |-> f[k + 1] - c]
<1>9. \A k \in 0 .. (L - 1) : k + 1 \in 1 .. L /\ g[k] = f[k + 1] - c /\ g[k] \in Nat
  BY <1>4, <1>6, <1>8
<1>10. g \in [0 .. (L - 1) -> Nat]
  BY <1>9
<1> HIDE DEF g
<1>11. g[0] = 0
  BY <1>4, <1>6, <1>7, <1>9
<1>12. ASSUME NEW k \in 1 .. (L - 1) PROVE g[k] = g[k - 1] + Cost(t, k)
  <2>1. k \in 0 .. (L - 1) /\ k - 1 \in 0 .. (L - 1) /\ k + 1 \in 1 .. L /\ k - 1 + 1 = k /\ k + 1 - 1 = k
    BY <1>4
  <2>2. g[k] = f[k + 1] - c /\ g[k - 1] = f[k] - c /\ f[k + 1] = f[k] + Cost(q, k + 1)
    BY <1>3, <1>9, <2>1
  <2>3. f[k] \in Nat /\ f[k + 1] \in Nat /\ Cost(q, k + 1) \in Nat /\ Cost(t, k) = Cost(q, k + 1)
    BY <1>4, <1>5, <1>6a, <1>8, <2>1
  <2> QED
    BY <1>6, <2>2, <2>3
<1>13. ASSUME NEW k \in 0 .. (L - 1), NEW m \in 0 .. (L - 1), k <= m PROVE g[k] <= g[m]
  <2>1. k + 1 \in 0 .. L /\ m + 1 \in 0 .. L /\ k + 1 <= m + 1
    BY <1>4, <1>13
  <2>2. f[k + 1] <= f[m + 1]
    BY <1>3, <2>1
  <2>3. f[k + 1] \in Nat /\ f[m + 1] \in Nat
    BY <1>3, <2>1
  <2> QED
    BY <1>6, <1>9, <2>2, <2>3
<1>14. Sums(g, t)
  BY <1>4, <1>10, <1>11, <1>12, <1>13 DEF Sums
<1>15. g[L - 1] = n - c /\ n - c \in Nat
  <2>1. L - 1 \in 0 .. (L - 1) /\ L - 1 + 1 = L
    BY <1>4
  <2> QED
    BY <1>2, <1>9, <2>1
<1>16. Counted(t, n - c)
  BY <1>4, <1>14, <1>15 DEF Counted
<1>17. ASSUME NEW m \in DOMAIN q, m # 1 PROVE n >= c + Cost(q, m)
  <2>1. m \in 1 .. L /\ m - 1 \in 1 .. L
    BY <1>4, <1>17
  <2>2. f[m] = f[m - 1] + Cost(q, m) /\ c <= f[m - 1] /\ f[m] <= n
    BY <1>3, <1>8, <2>1
  <2>3. f[m] \in Nat /\ f[m - 1] \in Nat /\ Cost(q, m) \in Nat
    BY <1>6a, <1>8, <2>1
  <2> QED
    BY <1>6, <1>8, <2>2, <2>3
<1> QED
  BY <1>6, <1>8, <1>15, <1>16, <1>17 DEF c

LEMMA CountedEmpty ==
    ASSUME NEW n, Counted(<<>>, n)
    PROVE  n = 0
BY DEF Counted, Sums

(* The sums of a FIFO are those that FifoBytes takes.                          *)
LEMMA CountedIs ==
    ASSUME NEW q \in Seq(Beats \X Slots), NEW n, Counted(q, n)
    PROVE  FifoBytes(q) = n
<1> DEFINE L == Len(q)
           Def(g) == g = [k \in 0 .. L |-> IF k = 0 THEN 0 ELSE g[k - 1] + fifo_cost(q[k][1][1])]
           s == CHOOSE g : Def(g)
<1>1. PICK f : Sums(f, q) /\ f[L] = n
  BY DEF Counted
<1>2. L \in Nat
  OBVIOUS
<1>3. FifoBytes(q) = s[L]
  BY DEF FifoBytes
<1>4. Def(f)
  BY <1>1 DEF Sums, Cost
<1>5. Def(s)
  BY <1>4
<1> HIDE DEF s, L
<1>6. ASSUME NEW k \in 0 .. L PROVE s[k] = f[k]
  <2> DEFINE D == {m \in 0 .. L : s[m] # f[m]}
  <2>1. CASE D = {}
    BY <2>1
  <2>2. CASE D # {}
    <3>1. D \subseteq Nat
      OBVIOUS
    <3>2. Min(D) \in D /\ \A y \in D : Min(D) <= y
      BY <2>2, <3>1, LeastNat
    <3>3. PICK m \in D : \A y \in D : m <= y
      BY <3>2
    <3>4. m \in 0 .. L /\ s[m] # f[m]
      BY <3>3
    <3>5. m # 0
      BY <1>2, <1>4, <1>5, <3>4
    <3>6. m - 1 \in 0 .. L /\ m - 1 \notin D
      BY <1>2, <3>3, <3>4, <3>5
    <3>7. s[m - 1] = f[m - 1]
      BY <3>6
    <3> QED
      <4>1. f[m] = f[m - 1] + fifo_cost(q[m][1][1])
        BY ONLY <1>4, <3>4, <3>5
      <4>2. s[m] = s[m - 1] + fifo_cost(q[m][1][1])
        BY ONLY <1>5, <3>4, <3>5
      <4> QED
        BY ONLY <3>4, <3>7, <4>1, <4>2
  <2> QED
    BY <2>1, <2>2
<1> QED
  BY <1>1, <1>2, <1>3, <1>6

----------------------------------------------------------------------------
(* What a step leaves as it was.                                           *)

(* The slots, but for the mapping of the bursts that have none yet.        *)
IdentKept ==
    \A s \in Slots :
       LET e == burst_table[s]
           d == burst_table'[s]
       IN  /\ d.in_use = e.in_use
           /\ e.in_use =>
                /\ d.input = e.input /\ d.channel = e.channel
                /\ d.original_burst_id = e.original_burst_id
                /\ d.output_id = e.output_id
                     \/ (e.output_id = Null /\ d.output_id = Dest[e.original_burst_id])

LastsKept == \A s \in Slots :
    burst_table'[s].pending_master_is_last = burst_table[s].pending_master_is_last

MastersKept == \A x \in Beats : /\ master'[x] = "granted" <=> master[x] = "granted"
                                /\ master'[x] \in Marked <=> master[x] \in Marked

GrantedKept == \A x \in Beats : master'[x] = "granted" <=> master[x] = "granted"

LEMMA UsersKept ==
    ASSUME IdentKept
    PROVE  \A s \in Slots : \A b : UsedBy(s, b)' <=> UsedBy(s, b)
BY DEF IdentKept, UsedBy

LEMMA QueuedKept ==
    ASSUME UNCHANGED pending
    PROVE  Queued' = Queued
BY DEF Queued

LEMMA Kept_Rounds ==
    ASSUME Rounds, MastersKept, UNCHANGED sent
    PROVE  Rounds'
<1>1. \A b \in Bursts : <<b, 1>> \in Beats
  BY BeatIs, RouterBeatAssumption
<1>2. \A b \in Bursts : UnderWay(b)' <=> UnderWay(b)
  BY <1>1 DEF UnderWay, MastersKept
<1>3. \A x \in Beats : x[1] \in Bursts
  BY BeatIs
<1> QED
  BY <1>1, <1>2, <1>3 DEF Rounds, MastersKept

LEMMA Kept_Slots ==
    ASSUME SlotsOK, IdentKept, LastsKept, GrantedKept, UNCHANGED sent
    PROVE  SlotsOK'
<1>1. ASSUME NEW s \in Slots, burst_table'[s].in_use PROVE BeatSlotShape(s)'
  <2>1. burst_table[s].in_use /\ BeatSlotShape(s)
    BY <1>1 DEF IdentKept, LastsKept, SlotsOK
  <2> QED
    BY <2>1 DEF BeatSlotShape, IdentKept, LastsKept, GrantedKept
<1>2. \A s \in Slots : ~burst_table'[s].in_use => burst_table'[s].pending_master_is_last = <<>>
  BY DEF IdentKept, LastsKept, SlotsOK
<1>3. \A s \in Slots, t \in Slots, b \in Bursts \cup {Proxy} : UsedBy(s, b)' /\ UsedBy(t, b)' => s = t
  BY UsersKept DEF SlotsOK
<1> QED
  BY <1>1, <1>2, <1>3 DEF SlotsOK

LEMMA Kept_Active ==
    ASSUME TypesOK, ActiveOK, IdentKept, UNCHANGED <<active_multi_beat_slot, sent>>
    PROVE  ActiveOK'
<1>1. \A i \in Inputs : active_multi_beat_slot[i] # Null => active_multi_beat_slot[i] \in Slots
  BY DEF TypesOK
<1> QED
  BY <1>1, UsersKept DEF ActiveOK

LEMMA QueuedTypes ==
    ASSUME TypesOK
    PROVE  \A q \in Queued : /\ q \in Beats \X Slots /\ q[1] \in Beats /\ q[2] \in Slots
                             /\ q[1][1] \in Bursts /\ q[1][2] \in 1 .. NbBeats[q[1][1]]
                             /\ NbBeats[q[1][1]] \in Nat \ {0} /\ q[1] = <<q[1][1], q[1][2]>>
<1>1. ASSUME NEW q \in Queued PROVE q \in Beats \X Slots
  <2>1. PICK i \in Inputs : \E m \in DOMAIN pending[i] : q = pending[i][m]
    BY QueuedIs
  <2>2. pending[i] \in Seq(Beats \X Slots)
    BY DEF TypesOK
  <2> QED
    BY <2>1, <2>2, SeqPlaces
<1> QED
  BY <1>1, BeatIs, RouterBeatAssumption

LEMMA BelowTypes ==
    ASSUME TypesOK
    PROVE  \A y \in below : /\ y[1] \in Beats \cup {<<Proxy, 1>>} /\ y[2] \in Slots
                            /\ y[3] \in Outputs /\ y[3] # Null /\ y = <<y[1], y[2], y[3]>>
                            /\ y[1][1] # Proxy => y[1] \in Beats /\ y[1][1] \in Bursts
                            /\ y[1][1] = Proxy => y[1] = <<Proxy, 1>>
<1>1. \A y \in below : /\ y[1] \in Beats \cup {<<Proxy, 1>>} /\ y[2] \in Slots
                       /\ y[3] \in Outputs /\ y = <<y[1], y[2], y[3]>>
  BY DEF TypesOK
<1> QED
  BY <1>1, BeatIs, Nothing

LEMMA Kept_Fifos ==
    ASSUME TypesOK, FifosOK, IdentKept, UNCHANGED <<pending, sent>>
    PROVE  FifosOK'
<1>1. Queued' = Queued
  BY QueuedKept
<1>2. \A i \in Inputs : Fifo(pending[i], i)'
  BY DEF FifosOK, Fifo
<1>3. \A q \in Queued : UsedBy(q[2], q[1][1])'
  BY UsersKept, QueuedTypes DEF FifosOK
<1> QED
  BY <1>1, <1>2, <1>3 DEF FifosOK

LEMMA Kept_Below ==
    ASSUME TypesOK, BelowOK, IdentKept, UNCHANGED below
    PROVE  BelowOK'
<1>1. ASSUME NEW y \in below PROVE UsedBy(y[2], y[1][1])' /\ burst_table'[y[2]].output_id = y[3]
  <2>1. UsedBy(y[2], y[1][1]) /\ burst_table[y[2]].output_id = y[3] /\ y[2] \in Slots /\ y[3] # Null
    BY BelowTypes DEF BelowOK
  <2> QED
    BY <2>1, UsersKept DEF IdentKept, UsedBy
<1> QED
  BY <1>1 DEF BelowOK

LEMMA Kept_Places ==
    ASSUME TypesOK, PlacesOK, GrantedKept, UNCHANGED <<pending, below>>
    PROVE  PlacesOK'
<1>1. Queued' = Queued
  BY QueuedKept
<1>2. (\A q \in Queued : q[1] \in Beats) /\ \A y \in below : y[1][1] # Proxy => y[1] \in Beats
  BY QueuedTypes, BelowTypes
<1> QED
  BY <1>1, <1>2 DEF PlacesOK, GrantedKept

LEMMA Kept_Lasts ==
    ASSUME SlotsOK, LastsOK, IdentKept, LastsKept, UNCHANGED <<pending, below, sent>>
    PROVE  LastsOK'
<1>1. Queued' = Queued
  BY QueuedKept
<1>2. ASSUME NEW b PROVE AllForwarded(b)' <=> AllForwarded(b)
  BY <1>1 DEF AllForwarded
<1>3. \A s \in Slots : Mine(s)' = Mine(s)
  BY DEF Mine, At
<1> DEFINE lasts(s) == burst_table[s].pending_master_is_last
<1>4. ASSUME NEW s \in Slots PROVE Len(lasts(s)') = Cardinality(Mine(s)')
  BY <1>3 DEF LastsOK, IdentKept, LastsKept
<1>5. ASSUME NEW s \in Slots, NEW k \in 1 .. Len(lasts(s)')
      PROVE  lasts(s)'[k] <=> k = Len(lasts(s)') /\ AllForwarded(burst_table[s].original_burst_id)'
  <2>1. lasts(s)' = lasts(s)
    BY DEF IdentKept, LastsKept
  <2>2. burst_table[s].in_use
    BY <1>5, <2>1 DEF SlotsOK
  <2>3. burst_table'[s].original_burst_id = burst_table[s].original_burst_id
    BY <2>2 DEF IdentKept, LastsKept
  <2> QED
    BY <1>2, <1>5, <2>1, <2>3 DEF LastsOK
<1> QED
  BY <1>4, <1>5 DEF LastsOK

LEMMA Kept_Bytes ==
    ASSUME BytesOK, UNCHANGED <<pending, pending_bytes>>
    PROVE  BytesOK'
BY DEF BytesOK, Counted, Sums, Cost

LEMMA HeadQueued ==
    ASSUME TypesOK, FifosOK, NEW i \in Inputs, pending[i] # <<>>
    PROVE  /\ Head(pending[i]) \in Queued /\ HeadSlot(i) \in Slots /\ HeadBeat(i) \in Beats
           /\ UsedBy(HeadSlot(i), HeadBeat(i)[1]) /\ In[HeadBeat(i)[1]] = i
           /\ HeadBeat(i)[1] \in Bursts
<1>1. pending[i] \in Seq(Beats \X Slots)
  BY DEF TypesOK
<1>2. Head(pending[i]) = pending[i][1] /\ 1 \in DOMAIN pending[i]
  BY <1>1, SeqPlaces
<1>3. Head(pending[i]) \in Queued
  BY <1>2, QueuedIs
<1>4. UsedBy(HeadSlot(i), HeadBeat(i)[1])
  BY <1>3 DEF FifosOK, HeadSlot, HeadBeat
<1>5. In[HeadBeat(i)[1]] = i
  BY <1>2 DEF FifosOK, Fifo, HeadBeat
<1> QED
  BY <1>3, <1>4, <1>5, QueuedTypes DEF HeadSlot, HeadBeat

LEMMA Kept_Lock ==
    ASSUME TypesOK, LockOwned, IdentKept,
           \A o \in Outputs, c \in Channels : elected_input'[o][c] \in {Null, elected_input[o][c]}
    PROVE  LockOwned'
<1>1. ASSUME NEW o \in Outputs, NEW c \in Channels, elected_input'[o][c] # Null
      PROVE  \E s \in Slots : /\ burst_table'[s].in_use /\ burst_table'[s].channel = c
                              /\ burst_table'[s].input = elected_input'[o][c]
                              /\ burst_table'[s].output_id = o
  <2>1. elected_input[o][c] # Null /\ elected_input'[o][c] = elected_input[o][c] /\ o # Null
    BY <1>1, Nothing
  <2>2. PICK s \in Slots : /\ burst_table[s].in_use /\ burst_table[s].channel = c
                           /\ burst_table[s].input = elected_input[o][c]
                           /\ burst_table[s].output_id = o
    BY <2>1 DEF LockOwned
  <2> QED
    BY <2>1, <2>2 DEF IdentKept
<1> QED
  BY <1>1 DEF LockOwned

(* The stall of a channel is about the proxy thread or about a head.       *)
HeldHead(o, c, i) ==
    /\ pending[i] # <<>> /\ burst_table[HeadSlot(i)].output_id = o
    /\ burst_table[HeadSlot(i)].channel = c

LEMMA HeldKept ==
    ASSUME TypesOK, FifosOK, IdentKept, NEW i \in Inputs, NEW o \in Outputs, NEW c,
           HeldHead(o, c, i), pending'[i] = pending[i]
    PROVE  HeldHead(o, c, i)'
<1>1. HeadSlot(i) \in Slots /\ burst_table[HeadSlot(i)].in_use /\ o # Null
  BY HeadQueued, Nothing DEF HeldHead, UsedBy
<1>2. HeadSlot(i)' = HeadSlot(i)
  BY DEF HeadSlot
<1> QED
  BY <1>1, <1>2 DEF HeldHead, IdentKept

(* StalledHead, one channel at a time.                                     *)
StallRight(o, c) ==
    LET i == stalled_input[o][c]
    IN  /\ stalled[o][c] =>
              \/ i = Null /\ pst = "wait_retry" /\ pcmd[1] = o /\ channel_of(pcmd[2]) = c
              \/ i # Null /\ HeldHead(o, c, i)
        /\ ~stalled[o][c] => i = Null

LEMMA StallsAre ==
    /\ StallsOK <=> \A o \in Outputs, c \in Channels : StallRight(o, c)
    /\ StallsOK' <=> \A o \in Outputs, c \in Channels : StallRight(o, c)'
<1>1. StallsOK <=> \A o \in Outputs, c \in Channels : StallRight(o, c)
  BY DEF StallsOK, StallRight, StalledHead, HeldHead
<1>2. StallsOK' <=> \A o \in Outputs, c \in Channels : StallRight(o, c)'
  BY DEF StallsOK, StallRight, StalledHead, HeldHead, HeadSlot
<1> QED
  BY <1>1, <1>2

LEMMA StallInput ==
    ASSUME TypesOK, NEW o \in Outputs, NEW c \in Channels
    PROVE  stalled_input[o][c] \in Inputs \cup {Null} /\ stalled[o][c] \in BOOLEAN
BY DEF TypesOK

LEMMA Kept_Stalls ==
    ASSUME TypesOK, StallsOK, FifosOK, IdentKept, UNCHANGED <<pending, svars, pst, pcmd>>
    PROVE  StallsOK'
<1>1. ASSUME NEW o \in Outputs, NEW c \in Channels PROVE StallRight(o, c)'
  <2>1. StallRight(o, c)
    BY StallsAre
  <2>2. ASSUME stalled_input[o][c] \in Inputs, HeldHead(o, c, stalled_input[o][c])
        PROVE  HeldHead(o, c, stalled_input[o][c])'
    <3>1. PICK i \in Inputs : i = stalled_input[o][c]
      BY <2>2
    <3>2. HeldHead(o, c, i)'
      BY <2>2, <3>1, HeldKept
    <3>3. stalled_input'[o][c] = i
      BY <3>1 DEF svars
    <3> QED
      BY <3>2, <3>3 DEF HeldHead, HeadSlot
  <2>3. UNCHANGED stalled /\ UNCHANGED stalled_input /\ UNCHANGED pst /\ UNCHANGED pcmd
    BY DEF svars
  <2> QED
    BY <2>1, <2>2, <2>3, StallInput DEF StallRight
<1> QED
  BY <1>1, StallsAre

LEMMA Kept_Proxy ==
    ASSUME ProxyOK, IdentKept, UNCHANGED <<below, pvars>>
    PROVE  ProxyOK'
<1>1. UNCHANGED pst /\ UNCHANGED pcmd /\ UNCHANGED waiter /\ UNCHANGED proxy_retry_waiter
      /\ UNCHANGED below
  BY DEF pvars
<1> QED
  BY <1>1, UsersKept DEF ProxyOK

LEMMA Kept_Flags ==
    ASSUME Flags, UNCHANGED <<master, denied_upstream, cb>>
    PROVE  Flags'
BY DEF Flags

StillParts == Rounds /\ SlotsOK /\ ActiveOK /\ FifosOK /\ BelowOK /\ PlacesOK /\ LastsOK /\ BytesOK

LEMMA Still ==
    ASSUME BeatIInv, IdentKept, LastsKept, MastersKept,
           UNCHANGED <<sent, pending, pending_bytes, active_multi_beat_slot, below>>
    PROVE  StillParts'
<1>0. GrantedKept
  BY DEF MastersKept, GrantedKept
<1>1. Rounds'
  BY Kept_Rounds DEF BeatIInv
<1>2. SlotsOK'
  BY <1>0, Kept_Slots DEF BeatIInv
<1>3. ActiveOK'
  BY Kept_Active DEF BeatIInv
<1>4. FifosOK'
  BY Kept_Fifos DEF BeatIInv
<1>5. BelowOK'
  BY Kept_Below DEF BeatIInv
<1>6. PlacesOK'
  BY <1>0, Kept_Places DEF BeatIInv
<1>7. LastsOK'
  BY Kept_Lasts DEF BeatIInv
<1>8. BytesOK'
  BY Kept_Bytes DEF BeatIInv
<1> QED
  BY <1>1, <1>2, <1>3, <1>4, <1>5, <1>6, <1>7, <1>8 DEF StillParts

LEMMA SameTable ==
    ASSUME UNCHANGED burst_table
    PROVE  IdentKept /\ LastsKept
BY DEF IdentKept, LastsKept

LEMMA SameMasters ==
    ASSUME UNCHANGED master
    PROVE  MastersKept
BY DEF MastersKept

----------------------------------------------------------------------------
(* The steps that move no beat.                                            *)

(* Everything but the handlers and the flags of the masters stays.         *)
OnlyEvents ==
    /\ UNCHANGED <<burst_table, elected_input>> /\ UNCHANGED <<stalled, stalled_input>>
    /\ UNCHANGED <<pending, pending_bytes, active_multi_beat_slot>>
    /\ UNCHANGED <<below, sent>> /\ UNCHANGED <<proxy_retry_waiter, waiter, pst, pcmd>>

LEMMA EventsStill ==
    ASSUME BeatIInv, OnlyEvents, MastersKept, TypesOK', Flags'
    PROVE  BeatIInv'
<1>1. /\ UNCHANGED burst_table /\ UNCHANGED elected_input /\ UNCHANGED <<pending, svars, pst, pcmd>>
      /\ UNCHANGED <<sent, pending, pending_bytes, active_multi_beat_slot, below>>
      /\ UNCHANGED <<below, pvars>>
  BY DEF OnlyEvents, svars, pvars
<1>2. IdentKept /\ LastsKept
  BY <1>1, SameTable
<1>3. StillParts'
  BY <1>1, <1>2, Still
<1>4. LockOwned'
  BY <1>1, <1>2, Kept_Lock DEF BeatIInv
<1>5. StallsOK'
  BY <1>1, <1>2, Kept_Stalls DEF BeatIInv
<1>6. ProxyOK'
  BY <1>1, <1>2, Kept_Proxy DEF BeatIInv
<1> QED
  BY <1>3, <1>4, <1>5, <1>6 DEF BeatIInv, StillParts

LEMMA HandlersAre ==
    /\ Idle \in Handlers /\ [kind |-> "resp"] \in Handlers
    /\ \A n \in 0 .. nb_input_port, u \in SUBSET (Outputs \X Channels) :
          [kind |-> "fsm", k |-> n, used |-> u] \in Handlers
    /\ \A o \in Outputs, c \in SUBSET Channels : [kind |-> "retry", out |-> o, todo |-> c] \in Handlers
<1> DEFINE F == {[kind |-> "fsm", k |-> n, used |-> u] :
                    n \in 0 .. nb_input_port, u \in SUBSET (Outputs \X Channels)}
           R == {[kind |-> "retry", out |-> o, todo |-> c] : o \in Outputs, c \in SUBSET Channels}
<1>1. Handlers = {Idle, [kind |-> "resp"]} \cup F \cup R
  BY DEF Handlers
<1>2. \A n \in 0 .. nb_input_port, u \in SUBSET (Outputs \X Channels) :
          [kind |-> "fsm", k |-> n, used |-> u] \in F
  OBVIOUS
<1>3. \A o \in Outputs, c \in SUBSET Channels : [kind |-> "retry", out |-> o, todo |-> c] \in R
  OBVIOUS
<1> HIDE DEF F, R
<1> QED
  BY <1>1, <1>2, <1>3

LEMMA ScheduledIs ==
    ASSUME TypesOK
    PROVE  Scheduled \in {"next", "due"}
BY DEF Scheduled, TypesOK

LEMMA Keep_CallbackReturns ==
    ASSUME BeatIInv, CallbackReturns
    PROVE  BeatIInv'
<1>1. OnlyEvents /\ UNCHANGED <<head_cycle, denied_upstream, round_robin_next, fsm_event>>
      /\ UNCHANGED <<handler, wake, master>> /\ cb' = Null
  BY DEF CallbackReturns, OnlyEvents, tvars, svars, ivars, mvars, pvars
<1>2. TypesOK'
  BY <1>1 DEF BeatIInv, TypesOK, OnlyEvents
<1>3. Flags'
  BY <1>1 DEF BeatIInv, Flags, CallbackReturns
<1> QED
  BY <1>1, <1>2, <1>3, SameMasters, EventsStill

LEMMA Keep_FsmStarts ==
    ASSUME BeatIInv, FsmStarts
    PROVE  BeatIInv'
<1>1. OnlyEvents /\ UNCHANGED <<head_cycle, denied_upstream, round_robin_next, master, wake, cb>>
  BY DEF FsmStarts, OnlyEvents, tvars, svars, ivars, mvars, pvars
<1>2. handler' \in Handlers /\ fsm_event' = "off"
  <2>1. handler' = [kind |-> "fsm", k |-> 0, used |-> {}] /\ fsm_event' = "off"
    BY DEF FsmStarts
  <2>2. 0 \in 0 .. nb_input_port /\ {} \in SUBSET (Outputs \X Channels)
    BY RouterBeatAssumption
  <2> QED
    BY <2>1, <2>2, HandlersAre
<1>3. TypesOK'
  BY <1>1, <1>2 DEF BeatIInv, TypesOK, OnlyEvents
<1> QED
  BY <1>1, <1>3, Kept_Flags, SameMasters, EventsStill DEF BeatIInv

LEMMA Keep_FsmEnds ==
    ASSUME BeatIInv, FsmEnds
    PROVE  BeatIInv'
<1>1. OnlyEvents /\ UNCHANGED <<head_cycle, denied_upstream, master, wake, cb>>
  BY DEF FsmEnds, OnlyEvents, tvars, svars, ivars, mvars, pvars
<1>2. handler' \in Handlers
  BY HandlersAre DEF FsmEnds
<1>3. fsm_event' \in {"off", "next", "due"}
  BY ScheduledIs DEF BeatIInv, TypesOK, FsmEnds, Rearmed
<1>4. round_robin_next' \in Inputs
  <2>1. round_robin_next + 1 \in Nat
    BY InputsNat DEF BeatIInv, TypesOK
  <2> QED
    BY <2>1, RoundRobin DEF FsmEnds
<1>5. TypesOK'
  BY <1>1, <1>2, <1>3, <1>4 DEF BeatIInv, TypesOK, OnlyEvents
<1> QED
  BY <1>1, <1>5, Kept_Flags, SameMasters, EventsStill DEF BeatIInv

LEMMA Keep_ClockEdge ==
    ASSUME BeatIInv, ClockEdge
    PROVE  BeatIInv'
<1>1. OnlyEvents /\ UNCHANGED <<denied_upstream, round_robin_next, master, handler, wake, cb>>
  BY DEF ClockEdge, OnlyEvents, tvars, svars, ivars, mvars, pvars
<1>2. head_cycle' \in [Inputs -> [cur : BOOLEAN, nxt : BOOLEAN]]
  BY DEF BeatIInv, TypesOK, ClockEdge
<1>3. fsm_event' \in {"off", "next", "due"}
  BY DEF ClockEdge
<1>4. TypesOK'
  BY <1>1, <1>2, <1>3 DEF BeatIInv, TypesOK, OnlyEvents
<1> QED
  BY <1>1, <1>4, Kept_Flags, SameMasters, EventsStill DEF BeatIInv

LEMMA Keep_RespBeat ==
    ASSUME BeatIInv, NEW y \in below, RespBeat(y)
    PROVE  BeatIInv'
<1>1. OnlyEvents /\ UNCHANGED <<head_cycle, denied_upstream, round_robin_next, fsm_event>>
      /\ UNCHANGED <<master, handler, wake>>
  BY DEF RespBeat, OnlyEvents, tvars, svars, ivars, mvars, pvars
<1>2. y[2] \in Slots /\ burst_table[y[2]] \in Entry
  BY BelowTypes DEF BeatIInv, TypesOK
<1>3. cb' \in Inputs \cup {Null}
  BY <1>2, EntryFields DEF RespBeat
<1>4. TypesOK'
  BY <1>1, <1>3 DEF BeatIInv, TypesOK, OnlyEvents
<1>5. Flags'
  <2>1. cb = Null
    BY DEF RespBeat, Quiet, Running
  <2>2. \A x \in Beats : In[x[1]] \in Inputs
    BY BeatIs, RouterBeatAssumption
  <2> QED
    BY <1>1, <2>1, <2>2, Nothing DEF BeatIInv, Flags
<1> QED
  BY <1>1, <1>4, <1>5, SameMasters, EventsStill

LEMMA Keep_RespEnds ==
    ASSUME BeatIInv, RespEnds
    PROVE  BeatIInv'
<1>1. OnlyEvents /\ UNCHANGED <<head_cycle, denied_upstream, round_robin_next, master, wake, cb>>
  BY DEF RespEnds, OnlyEvents, tvars, svars, ivars, mvars, pvars
<1>2. handler' \in Handlers
  BY HandlersAre DEF RespEnds
<1>3. fsm_event' \in {"off", "next", "due"}
  BY ScheduledIs DEF BeatIInv, RespEnds
<1>4. TypesOK'
  BY <1>1, <1>2, <1>3 DEF BeatIInv, TypesOK, OnlyEvents
<1> QED
  BY <1>1, <1>4, Kept_Flags, SameMasters, EventsStill DEF BeatIInv

LEMMA Keep_retry_muxed ==
    ASSUME BeatIInv, NEW o \in Outputs, NEW C \in Retries, retry_muxed(o, C)
    PROVE  BeatIInv'
<1>1. OnlyEvents /\ UNCHANGED <<head_cycle, denied_upstream, round_robin_next, fsm_event>>
      /\ UNCHANGED <<master, wake, cb>>
  BY DEF retry_muxed, OnlyEvents, tvars, svars, ivars, mvars, pvars
<1>2. handler' \in Handlers
  <2>1. channels_for(C) \in SUBSET Channels
    BY DEF channels_for, Channels, Retries
  <2> QED
    BY <2>1, HandlersAre DEF retry_muxed
<1>3. TypesOK'
  BY <1>1, <1>2 DEF BeatIInv, TypesOK, OnlyEvents
<1> QED
  BY <1>1, <1>3, Kept_Flags, SameMasters, EventsStill DEF BeatIInv

LEMMA Keep_WakeNext ==
    ASSUME BeatIInv, WakeNext
    PROVE  BeatIInv'
<1> DEFINE denied == {i \in Inputs : i >= wake /\ denied_upstream[i]}
<1>1. OnlyEvents /\ UNCHANGED <<head_cycle, round_robin_next, fsm_event, handler>>
  BY DEF WakeNext, OnlyEvents, tvars, svars, ivars, mvars, pvars
<1>2. CASE denied = {}
  <2>1. wake' = nb_input_port /\ UNCHANGED <<denied_upstream, cb, master>>
    BY <1>2 DEF WakeNext
  <2>2. wake' \in 0 .. nb_input_port
    BY <2>1, RouterBeatAssumption
  <2>3. TypesOK'
    BY <1>1, <2>1, <2>2 DEF BeatIInv, TypesOK, OnlyEvents
  <2> QED
    BY <1>1, <2>1, <2>3, Kept_Flags, SameMasters, EventsStill DEF BeatIInv
<1>3. CASE denied # {}
  <2>1. PICK i \in Inputs : i = Min(denied) /\ denied_upstream[i]
    <3>1. denied \subseteq Nat
      BY InputsNat
    <3> QED
      BY <1>3, <3>1, LeastNat
  <2>2. /\ wake' = i + 1 /\ cb' = i
        /\ denied_upstream' = [denied_upstream EXCEPT ![i] = FALSE]
        /\ master' = [x \in Beats |->
                        IF In[x[1]] = i /\ master[x] = "denied" THEN "retrying" ELSE master[x]]
    BY <1>3, <2>1 DEF WakeNext
  <2>3. /\ denied_upstream \in [Inputs -> BOOLEAN]
        /\ master \in [Beats -> {"idle", "denied", "retrying", "granted"}]
    BY DEF BeatIInv, TypesOK
  <2>4. /\ denied_upstream' \in [Inputs -> BOOLEAN] /\ denied_upstream'[i] = FALSE
        /\ \A j \in Inputs : j # i => denied_upstream'[j] = denied_upstream[j]
    BY <2>2, <2>3
  <2>5. /\ master' \in [Beats -> {"idle", "denied", "retrying", "granted"}]
        /\ \A x \in Beats :
              master'[x] = IF In[x[1]] = i /\ master[x] = "denied" THEN "retrying" ELSE master[x]
    BY <2>2, <2>3
  <2>6. wake' \in 0 .. nb_input_port
    BY <2>2, RouterBeatAssumption DEF Inputs
  <2>7. TypesOK'
    BY <1>1, <2>2, <2>4, <2>5, <2>6 DEF BeatIInv, TypesOK, OnlyEvents
  <2>8. MastersKept
    BY <2>5 DEF MastersKept, Marked
  <2>9. Flags'
    <3>1. cb = Null /\ \A x \in Beats : In[x[1]] \in Inputs
      BY BeatIs, RouterBeatAssumption DEF WakeNext
    <3>2. \A x \in Beats : master[x] # "retrying"
      BY <3>1, Nothing DEF BeatIInv, Flags
    <3>3. \A x \in Beats : master'[x] = "retrying" => cb' = In[x[1]]
      BY <2>2, <2>5, <3>2
    <3>4. ASSUME NEW j \in Inputs
          PROVE  denied_upstream'[j] <=> \E x \in Beats : In[x[1]] = j /\ master'[x] = "denied"
      BY <2>4, <2>5 DEF BeatIInv, Flags
    <3> QED
      BY <3>3, <3>4 DEF Flags
  <2> QED
    BY <1>1, <2>7, <2>8, <2>9, EventsStill
<1> QED
  BY <1>2, <1>3

LEMMA Keep_RetryEnds ==
    ASSUME BeatIInv, RetryEnds
    PROVE  BeatIInv'
<1>1. /\ UNCHANGED burst_table /\ UNCHANGED elected_input /\ UNCHANGED <<stalled, stalled_input>>
      /\ UNCHANGED <<pending, pending_bytes, active_multi_beat_slot, head_cycle, denied_upstream>>
      /\ UNCHANGED <<below, sent, master, round_robin_next, wake, cb, pst, pcmd>>
      /\ proxy_retry_waiter' = Null
      /\ waiter' = IF proxy_retry_waiter = Null THEN waiter ELSE "Retry"
  BY DEF RetryEnds, tvars, svars, ivars, mvars, notify_retry
<1>2. handler' \in Handlers
  BY HandlersAre DEF RetryEnds
<1>3. fsm_event' \in {"off", "next", "due"}
  BY ScheduledIs DEF BeatIInv, RetryEnds
<1>4. TypesOK'
  BY <1>1, <1>2, <1>3 DEF BeatIInv, TypesOK
<1>5. IdentKept /\ LastsKept
  BY <1>1, SameTable
<1>6. StillParts'
  BY <1>1, <1>5, SameMasters, Still
<1>7. Flags'
  BY <1>1, Kept_Flags DEF BeatIInv
<1>8. LockOwned'
  BY <1>1, <1>5, Kept_Lock DEF BeatIInv
<1>9. StallsOK'
  BY <1>1, <1>5, Kept_Stalls DEF BeatIInv, svars
<1>10. ProxyOK'
  <2>1. proxy_retry_waiter # Null => pst = "wait_retry"
    BY DEF BeatIInv, ProxyOK
  <2>2. waiter' = "Pending" => proxy_retry_waiter = Null /\ waiter = "Pending"
    BY <1>1
  <2>3. \A s \in Slots : UsedBy(s, Proxy)' <=> UsedBy(s, Proxy)
    BY <1>5, UsersKept
  <2>4. pst # "wait_retry" => waiter' = waiter
    BY <1>1, <2>1
  <2>5. ~(pst = "wait_retry" /\ waiter' = "Pending")
    <3>1. Proxy # Null
      BY <2>2, Nothing
    <3> QED
      BY <2>2, <3>1 DEF BeatIInv, ProxyOK
  <2> QED
    BY <1>1, <2>3, <2>4, <2>5 DEF BeatIInv, ProxyOK
<1> QED
  BY <1>4, <1>6, <1>7, <1>8, <1>9, <1>10 DEF BeatIInv, StillParts

(* The proxy thread starts on cmd, or tries it again.                      *)
Ready(cmd) == pst = "idle" \/ (pst = "wait_retry" /\ cmd = pcmd)

Command(cmd) == cmd[1] \in Outputs \cup {Invalid} /\ cmd[2] \in BOOLEAN
                /\ cmd \in (Outputs \cup {Invalid}) \X BOOLEAN

LEMMA OwnStall ==
    ASSUME BeatIInv, NEW cmd, Ready(cmd), NEW o \in Outputs, NEW c \in Channels,
           stalled[o][c], stalled_input[o][c] = Null
    PROVE  pst = "wait_retry" /\ o = cmd[1] /\ c = channel_of(cmd[2])
<1>1. StallRight(o, c)
  BY StallsAre DEF BeatIInv
<1> QED
  BY <1>1 DEF StallRight, Ready

LEMMA NoProxySlot ==
    ASSUME BeatIInv, NEW cmd, Ready(cmd)
    PROVE  \A s \in Slots : ~UsedBy(s, Proxy)
BY DEF BeatIInv, ProxyOK, Ready

(* Nothing but the thread and its flags changes.                           *)
OnlyThread ==
    /\ UNCHANGED <<pending, pending_bytes, head_cycle, active_multi_beat_slot>>
    /\ UNCHANGED <<denied_upstream, round_robin_next, fsm_event, handler, wake, cb>>
    /\ UNCHANGED <<sent, master>>

LEMMA ThreadSteps ==
    ASSUME NEW cmd, NEW hook, dispatch_proxy_req(cmd, hook)
    PROVE  OnlyThread
BY DEF dispatch_proxy_req, OnlyThread, ivars, mvars

LEMMA ThreadStill ==
    ASSUME BeatIInv, OnlyThread, IdentKept, LastsKept, UNCHANGED below
    PROVE  StillParts' /\ Flags'
<1>1. UNCHANGED master /\ UNCHANGED <<sent, pending, pending_bytes, active_multi_beat_slot, below>>
      /\ UNCHANGED <<master, denied_upstream, cb>>
  BY DEF OnlyThread
<1> QED
  BY <1>1, SameMasters, Still, Kept_Flags DEF BeatIInv

LEMMA Keep_ProxyReplied ==
    ASSUME BeatIInv, ProxyReplied
    PROVE  BeatIInv'
<1>1. OnlyThread /\ UNCHANGED burst_table /\ UNCHANGED elected_input
      /\ UNCHANGED <<stalled, stalled_input>> /\ UNCHANGED below /\ UNCHANGED proxy_retry_waiter
      /\ pst = "wait_reply" /\ waiter = "Replied"
      /\ pst' = "idle" /\ pcmd' = NoCmd /\ waiter' = "Pending"
  BY DEF ProxyReplied, OnlyThread, tvars, svars, ivars, mvars
<1>2. pcmd' \in (Outputs \cup {Invalid}) \X BOOLEAN
  BY <1>1 DEF NoCmd
<1>3. TypesOK'
  BY <1>1, <1>2 DEF BeatIInv, TypesOK, OnlyThread
<1>4. IdentKept /\ LastsKept
  BY <1>1, SameTable
<1>5. StillParts' /\ Flags'
  BY <1>1, <1>4, ThreadStill
<1>6. LockOwned'
  BY <1>1, <1>4, Kept_Lock DEF BeatIInv
<1>7. StallsOK'
  <2>1. ASSUME NEW o \in Outputs, NEW c \in Channels PROVE StallRight(o, c)'
    <3>1. StallRight(o, c)
      BY StallsAre DEF BeatIInv
    <3>2. UNCHANGED pending /\ UNCHANGED stalled /\ UNCHANGED stalled_input /\ UNCHANGED burst_table
      BY <1>1 DEF OnlyThread
    <3> QED
      BY <1>1, <3>1, <3>2 DEF StallRight, HeldHead, HeadSlot
  <2> QED
    BY <2>1, StallsAre
<1>8. ProxyOK'
  <2>1. \A s \in Slots : ~UsedBy(s, Proxy)
    BY <1>1 DEF BeatIInv, ProxyOK
  <2>2. \A s \in Slots : ~UsedBy(s, Proxy)'
    BY <1>4, <2>1, UsersKept
  <2> QED
    BY <1>1, <2>2 DEF BeatIInv, ProxyOK
<1> QED
  BY <1>3, <1>5, <1>6, <1>7, <1>8 DEF BeatIInv, StillParts

LEMMA Keep_ProxyDone ==
    ASSUME BeatIInv, NEW cmd, Command(cmd), Ready(cmd), waiter' = "Pending", OnlyThread,
           ProxyDone(cmd, Null)
    PROVE  BeatIInv'
<1>1. /\ UNCHANGED burst_table /\ UNCHANGED elected_input /\ UNCHANGED <<stalled, stalled_input>>
      /\ UNCHANGED below /\ pst' = "idle" /\ pcmd' = NoCmd /\ proxy_retry_waiter' = Null
      /\ cmd[1] = Invalid
  BY DEF ProxyDone, tvars, svars
<1>2. pcmd' \in (Outputs \cup {Invalid}) \X BOOLEAN
  BY <1>1 DEF NoCmd
<1>3. TypesOK'
  BY <1>1, <1>2 DEF BeatIInv, TypesOK, OnlyThread
<1>4. IdentKept /\ LastsKept
  BY <1>1, SameTable
<1>5. StillParts' /\ Flags'
  BY <1>1, <1>4, ThreadStill
<1>6. LockOwned'
  BY <1>1, <1>4, Kept_Lock DEF BeatIInv
<1>7. StallsOK'
  <2>1. ASSUME NEW o \in Outputs, NEW c \in Channels PROVE StallRight(o, c)'
    <3>1. StallRight(o, c)
      BY StallsAre DEF BeatIInv
    <3>2. UNCHANGED pending /\ UNCHANGED stalled /\ UNCHANGED stalled_input /\ UNCHANGED burst_table
      BY <1>1 DEF OnlyThread
    <3>3. ~(stalled[o][c] /\ stalled_input[o][c] = Null)
      BY <1>1, OwnStall, Nothing
    <3> QED
      BY <1>1, <3>1, <3>2, <3>3 DEF StallRight, HeldHead, HeadSlot
  <2> QED
    BY <2>1, StallsAre
<1>8. ProxyOK'
  <2>1. \A s \in Slots : ~UsedBy(s, Proxy)'
    BY <1>4, NoProxySlot, UsersKept
  <2> QED
    BY <1>1, <2>1 DEF ProxyOK
<1> QED
  BY <1>3, <1>5, <1>6, <1>7, <1>8 DEF BeatIInv, StillParts

LEMMA Keep_ProxyDenied ==
    ASSUME BeatIInv, NEW cmd, Command(cmd), Ready(cmd), waiter' = "Pending", OnlyThread,
           ProxyDenied(cmd)
    PROVE  BeatIInv'
<1> DEFINE o0 == cmd[1]
           c0 == channel_of(cmd[2])
<1>1. /\ UNCHANGED stalled_input /\ UNCHANGED below
      /\ pst' = "wait_retry" /\ pcmd' = cmd /\ proxy_retry_waiter' = Proxy
      /\ o0 # Invalid
  BY DEF ProxyDenied
<1>2. o0 \in Outputs /\ c0 \in Channels
  BY <1>1, ChannelOf DEF Command
<1>3. /\ burst_table \in [Slots -> Entry]
      /\ elected_input \in [Outputs -> [Channels -> Inputs \cup {Null}]]
      /\ stalled \in [Outputs -> [Channels -> BOOLEAN]]
  BY DEF BeatIInv, TypesOK
<1>4. /\ IdentKept /\ LastsKept /\ burst_table' \in [Slots -> Entry]
      /\ elected_input' \in [Outputs -> [Channels -> Inputs \cup {Null}]]
      /\ stalled' \in [Outputs -> [Channels -> BOOLEAN]]
      /\ \A o \in Outputs, c \in Channels :
            /\ elected_input'[o][c] \in {Null, elected_input[o][c]}
            /\ stalled'[o][c] # stalled[o][c] => o = o0 /\ c = c0 /\ ~stalled[o][c]
            /\ stalled[o][c] => stalled'[o][c]
  <2>1. CASE ProxyBlocked(cmd) /\ UNCHANGED <<tvars, stalled>>
    <3>1. UNCHANGED burst_table /\ UNCHANGED elected_input /\ UNCHANGED stalled
      BY <2>1 DEF tvars
    <3> QED
      BY <1>3, <3>1, SameTable
  <2>2. CASE /\ ~ProxyBlocked(cmd)
             /\ burst_table' = [burst_table EXCEPT ![Min(FreeSlots)].channel = c0]
             /\ elected_input' = [elected_input EXCEPT ![o0][c0] = Null]
             /\ stalled' = [stalled EXCEPT ![o0][c0] = TRUE]
    <3>1. PICK s \in Slots : s = Min(FreeSlots) /\ ~burst_table[s].in_use
      BY <2>2, FreeSlot DEF ProxyBlocked
    <3>2. burst_table' = [burst_table EXCEPT ![s].channel = c0]
      BY <2>2, <3>1
    <3>3. burst_table' \in [Slots -> Entry]
      <4>1. [burst_table[s] EXCEPT !.channel = c0] \in Entry
        BY <1>2, <1>3 DEF Entry
      <4>2. burst_table' = [burst_table EXCEPT ![s] = [burst_table[s] EXCEPT !.channel = c0]]
        BY <3>2
      <4> QED
        BY <1>3, <4>1, <4>2
    <3>4. /\ \A t \in Slots : t # s => burst_table'[t] = burst_table[t]
          /\ burst_table'[s].in_use = burst_table[s].in_use
          /\ burst_table'[s].pending_master_is_last = burst_table[s].pending_master_is_last
      BY <1>3, <3>2 DEF Entry
    <3>5. IdentKept /\ LastsKept
      BY <3>1, <3>4 DEF IdentKept, LastsKept
    <3>6. /\ elected_input' \in [Outputs -> [Channels -> Inputs \cup {Null}]]
          /\ \A o \in Outputs, c \in Channels :
                elected_input'[o][c] \in {Null, elected_input[o][c]}
      BY <1>2, <1>3, <2>2
    <3>7. ~stalled[o0][c0]
      BY <2>2 DEF ProxyBlocked
    <3>8. /\ stalled' \in [Outputs -> [Channels -> BOOLEAN]]
          /\ \A o \in Outputs, c \in Channels :
                stalled'[o][c] = IF o = o0 /\ c = c0 THEN TRUE ELSE stalled[o][c]
      BY <1>2, <1>3, <2>2
    <3> QED
      <4>1. \A o \in Outputs, c \in Channels :
               /\ stalled'[o][c] # stalled[o][c] => o = o0 /\ c = c0 /\ ~stalled[o][c]
               /\ stalled[o][c] => stalled'[o][c]
        BY <3>7, <3>8
      <4> QED
        BY <3>3, <3>5, <3>6, <3>8, <4>1
  <2> QED
    BY <2>1, <2>2 DEF ProxyDenied
<1>5. TypesOK'
  BY <1>1, <1>4 DEF BeatIInv, TypesOK, OnlyThread, Command
<1>6. StillParts' /\ Flags'
  BY <1>1, <1>4, ThreadStill
<1>7. LockOwned'
  BY <1>4, Kept_Lock DEF BeatIInv
<1>8. StallsOK'
  <2>1. ASSUME NEW o \in Outputs, NEW c \in Channels PROVE StallRight(o, c)'
    <3>1. StallRight(o, c)
      BY StallsAre DEF BeatIInv
    <3>2. UNCHANGED pending /\ stalled_input' = stalled_input
      BY <1>1 DEF OnlyThread
    <3>3. CASE stalled_input[o][c] = Null
      <4>1. stalled'[o][c] => o = o0 /\ c = c0
        <5>1. CASE stalled[o][c]
          BY <3>3, <5>1, OwnStall
        <5>2. CASE ~stalled[o][c]
          BY <1>4, <5>2
        <5> QED
          BY <5>1, <5>2
      <4> QED
        BY <1>1, <3>2, <3>3, <4>1 DEF StallRight
    <3>4. CASE stalled_input[o][c] # Null
      <4>1. PICK i \in Inputs : i = stalled_input[o][c]
        BY <3>4, StallInput DEF BeatIInv
      <4>2. stalled[o][c] /\ stalled'[o][c] /\ HeldHead(o, c, i)
        BY <1>4, <3>1, <3>4, <4>1 DEF StallRight
      <4>3. HeldHead(o, c, i)'
        BY <1>4, <3>2, <4>2, HeldKept DEF BeatIInv
      <4>4. stalled_input'[o][c] = i /\ i # Null
        BY <3>2, <3>4, <4>1
      <4> QED
        BY <4>2, <4>3, <4>4 DEF StallRight, HeldHead, HeadSlot
    <3> QED
      BY <3>3, <3>4
  <2> QED
    BY <2>1, StallsAre
<1>9. ProxyOK'
  <2>1. \A s \in Slots : ~UsedBy(s, Proxy)'
    BY <1>4, NoProxySlot, UsersKept
  <2> QED
    BY <1>1, <2>1 DEF ProxyOK
<1> QED
  BY <1>5, <1>6, <1>7, <1>8, <1>9 DEF BeatIInv, StillParts

----------------------------------------------------------------------------
(* A head is forwarded, or denied.                                         *)

(* T is the table once the slot of the head of i has its mapping o.        *)
ForwardTo(T, i, o) ==
    /\ T \in [Slots -> Entry] /\ o \in Outputs
    /\ \A t \in Slots : t # HeadSlot(i) => T[t] = burst_table[t]
    /\ LET e == burst_table[HeadSlot(i)]
           d == T[HeadSlot(i)]
       IN  /\ d.in_use = e.in_use /\ d.input = e.input /\ d.channel = e.channel
           /\ d.original_burst_id = e.original_burst_id
           /\ d.pending_master_is_last = e.pending_master_is_last
           /\ d.output_id = o /\ o = Dest[HeadBeat(i)[1]] /\ e.output_id \in {Null, o}

LEMMA HeadSlotShape ==
    ASSUME BeatIInv, NEW i \in Inputs, pending[i] # <<>>
    PROVE  LET e == burst_table[HeadSlot(i)]
               b == HeadBeat(i)[1]
           IN  /\ e \in Entry /\ e.in_use /\ e.original_burst_id = b /\ b \in Bursts
               /\ e.input = i /\ e.channel = channel_of(Write[b]) /\ e.channel \in Channels
               /\ e.output_id \in {Null, Dest[b]} /\ ~TooLarge(b)
<1>1. HeadSlot(i) \in Slots /\ UsedBy(HeadSlot(i), HeadBeat(i)[1]) /\ In[HeadBeat(i)[1]] = i
      /\ HeadBeat(i)[1] \in Bursts
  BY HeadQueued DEF BeatIInv
<1>2. BeatSlotShape(HeadSlot(i)) /\ burst_table[HeadSlot(i)] \in Entry
  BY <1>1 DEF BeatIInv, SlotsOK, TypesOK, UsedBy
<1>3. HeadBeat(i)[1] # Proxy
  BY <1>1, Nothing
<1> QED
  BY <1>1, <1>2, <1>3, EntryFields DEF BeatSlotShape, UsedBy

LEMMA OutputIs ==
    ASSUME BeatIInv, NEW i \in Inputs, pending[i] # <<>>
    PROVE  /\ Output(i) = Dest[HeadBeat(i)[1]] /\ Output(i) \in Outputs \cup {Invalid}
           /\ Output(i) = Invalid => burst_table[HeadSlot(i)].output_id = Null
<1> DEFINE e == burst_table[HeadSlot(i)]
           b == HeadBeat(i)[1]
<1>1. e.output_id \in {Null, Dest[b]} /\ e.output_id \in Outputs \cup {Null} /\ b \in Bursts
  BY HeadSlotShape, EntryFields
<1>2. Dest[b] \in Outputs \cup {Invalid}
  BY <1>1, RouterBeatAssumption
<1>3. Output(i) = IF e.output_id # Null THEN e.output_id ELSE Dest[b]
  BY DEF Output
<1> HIDE DEF e
<1>4. Output(i) = Invalid => e.output_id = Null
  BY <1>1, <1>3, Nothing
<1> QED
  BY <1>1, <1>2, <1>3, <1>4 DEF e

LEMMA DecodedIs ==
    ASSUME BeatIInv, NEW i \in Inputs, pending[i] # <<>>, Output(i) # Invalid, NEW T, T = Decoded(i)
    PROVE  ForwardTo(T, i, Output(i))
<1> DEFINE s == HeadSlot(i)
           o == Output(i)
<1>1. s \in Slots /\ o \in Outputs /\ burst_table \in [Slots -> Entry]
  BY HeadQueued, OutputIs DEF BeatIInv, TypesOK
<1>2. T = [burst_table EXCEPT ![s].output_id = o]
  BY DEF Decoded
<1>3. burst_table[s].output_id \in {Null, o} /\ o = Dest[HeadBeat(i)[1]]
  BY HeadSlotShape, OutputIs
<1> HIDE DEF s, o
<1>4. T \in [Slots -> Entry]
  BY <1>1, <1>2 DEF Entry
<1>5. \A t \in Slots : t # s => T[t] = burst_table[t]
  BY <1>1, <1>2
<1>6. LET e == burst_table[s]
          d == T[s]
      IN  /\ d.in_use = e.in_use /\ d.input = e.input /\ d.channel = e.channel
          /\ d.original_burst_id = e.original_burst_id
          /\ d.pending_master_is_last = e.pending_master_is_last
          /\ d.output_id = o
  BY <1>1, <1>2 DEF Entry
<1> QED
  BY <1>1, <1>3, <1>4, <1>5, <1>6 DEF ForwardTo, s, o

LEMMA HeldIs ==
    ASSUME BeatIInv, NEW i \in Inputs, NEW o \in Outputs, NEW c, HeldHead(o, c, i)
    PROVE  pending[i] # <<>> /\ ForwardTo(burst_table, i, o)
<1>1. pending[i] # <<>> /\ burst_table[HeadSlot(i)].output_id = o
  BY DEF HeldHead
<1>2. o = Dest[HeadBeat(i)[1]]
  BY <1>1, HeadSlotShape, Nothing
<1>3. burst_table \in [Slots -> Entry]
  BY DEF BeatIInv, TypesOK
<1> QED
  BY <1>1, <1>2, <1>3 DEF ForwardTo

LEMMA ForwardKeeps ==
    ASSUME BeatIInv, NEW i \in Inputs, pending[i] # <<>>, NEW o, ForwardTo(burst_table', i, o)
    PROVE  IdentKept /\ LastsKept
<1>1. HeadSlot(i) \in Slots /\ burst_table[HeadSlot(i)].original_burst_id = HeadBeat(i)[1]
  BY HeadSlotShape, HeadQueued DEF BeatIInv
<1>2. ASSUME NEW t \in Slots, t # HeadSlot(i) PROVE burst_table'[t] = burst_table[t]
  BY <1>2 DEF ForwardTo
<1> QED
  BY <1>1, <1>2 DEF ForwardTo, IdentKept, LastsKept

(* The round of fsm_handler moves on.                                      *)
LEMMA FsmMoves ==
    ASSUME handler \in Handlers, Running("fsm"), handler.k < nb_input_port
    PROVE  /\ Next_input \in Handlers
           /\ \A o \in Outputs, c \in Channels :
                 [Next_input EXCEPT !.used = @ \cup {<<o, c>>}] \in Handlers
<1>1. PICK n \in 0 .. nb_input_port, u \in SUBSET (Outputs \X Channels) :
          handler = [kind |-> "fsm", k |-> n, used |-> u]
  BY HandlerKinds DEF Running
<1>2. n + 1 \in 0 .. nb_input_port
  BY <1>1, RouterBeatAssumption
<1>3. Next_input = [kind |-> "fsm", k |-> n + 1, used |-> u]
  BY <1>1 DEF Next_input
<1>4. ASSUME NEW o \in Outputs, NEW c \in Channels
      PROVE  [Next_input EXCEPT !.used = @ \cup {<<o, c>>}] \in Handlers
  <2>1. [Next_input EXCEPT !.used = @ \cup {<<o, c>>}]
            = [kind |-> "fsm", k |-> n + 1, used |-> u \cup {<<o, c>>}]
    BY <1>3
  <2>2. u \cup {<<o, c>>} \in SUBSET (Outputs \X Channels)
    OBVIOUS
  <2> QED
    BY <1>2, <2>1, <2>2, HandlersAre
<1> QED
  BY <1>2, <1>3, <1>4, HandlersAre

LEMMA Keep_FsmSkips ==
    ASSUME BeatIInv, NEW i \in Inputs, FsmSkips(i)
    PROVE  BeatIInv'
<1>1. /\ UNCHANGED elected_input /\ UNCHANGED svars
      /\ UNCHANGED <<stalled, stalled_input>>
      /\ UNCHANGED <<pending, pending_bytes, head_cycle, active_multi_beat_slot>>
      /\ UNCHANGED <<below, sent, master, denied_upstream, round_robin_next, fsm_event, wake, cb>>
      /\ UNCHANGED pvars /\ UNCHANGED <<proxy_retry_waiter, waiter, pst, pcmd>>
  BY DEF FsmSkips, svars, ivars, mvars, pvars
<1>2. IdentKept /\ LastsKept /\ burst_table' \in [Slots -> Entry]
  <2>1. CASE UNCHANGED burst_table
    BY <2>1, SameTable DEF BeatIInv, TypesOK
  <2>2. CASE Visible(i) /\ Output(i) # Invalid /\ burst_table' = Decoded(i)
    <3>1. pending[i] # <<>>
      BY <2>2 DEF Visible
    <3>2. ForwardTo(burst_table', i, Output(i))
      BY <2>2, <3>1, DecodedIs
    <3> QED
      BY <3>1, <3>2, ForwardKeeps DEF ForwardTo
  <2> QED
    BY <2>1, <2>2 DEF FsmSkips
<1>3. handler' \in Handlers
  BY FsmMoves DEF BeatIInv, TypesOK, FsmSkips, Turn
<1>4. TypesOK'
  BY <1>1, <1>2, <1>3 DEF BeatIInv, TypesOK
<1>5. StillParts'
  BY <1>1, <1>2, SameMasters, Still
<1>6. Flags'
  BY <1>1, Kept_Flags DEF BeatIInv
<1>7. LockOwned'
  BY <1>1, <1>2, Kept_Lock DEF BeatIInv
<1>8. StallsOK'
  BY <1>1, <1>2, Kept_Stalls DEF BeatIInv
<1>9. ProxyOK'
  BY <1>1, <1>2, Kept_Proxy DEF BeatIInv
<1> QED
  BY <1>4, <1>5, <1>6, <1>7, <1>8, <1>9 DEF BeatIInv, StillParts

(* The head of the FIFO of i leaves it.                                    *)
LEMMA HeadIs ==
    ASSUME TypesOK, NEW i \in Inputs, pending[i] # <<>>
    PROVE  /\ pending[i] \in Seq(Beats \X Slots) /\ Head(pending[i]) = pending[i][1]
           /\ Head(pending[i]) = <<HeadBeat(i), HeadSlot(i)>>
           /\ Head(pending[i])[1] = HeadBeat(i) /\ Head(pending[i])[2] = HeadSlot(i)
<1>1. pending[i] \in Seq(Beats \X Slots)
  BY DEF TypesOK
<1>2. Head(pending[i]) = pending[i][1] /\ pending[i][1] \in Beats \X Slots
  BY <1>1, SeqPlaces
<1> QED
  BY <1>1, <1>2 DEF HeadBeat, HeadSlot

LEMMA HeadFirst ==
    ASSUME BeatIInv, NEW i \in Inputs, pending[i] # <<>>
    PROVE  \A q \in Queued : q[1][1] = HeadBeat(i)[1] /\ q # Head(pending[i]) => q[1][2] > HeadBeat(i)[2]
<1>1. ASSUME NEW q \in Queued, q[1][1] = HeadBeat(i)[1], q # Head(pending[i])
      PROVE  q[1][2] > HeadBeat(i)[2]
  <2>1. PICK j \in Inputs : \E m \in DOMAIN pending[j] : q = pending[j][m]
    BY QueuedIs
  <2>2. PICK m \in DOMAIN pending[j] : q = pending[j][m]
    BY <2>1
  <2>3. In[q[1][1]] = j
    BY <2>2 DEF BeatIInv, FifosOK, Fifo
  <2>4. j = i
    BY <1>1, <2>3, HeadQueued DEF BeatIInv
  <2>5. PICK p : p = pending[i]
    OBVIOUS
  <2>6. p \in Seq(Beats \X Slots) /\ p # <<>> /\ Fifo(p, i) /\ m \in DOMAIN p /\ q = p[m]
    BY <2>2, <2>4, <2>5 DEF BeatIInv, TypesOK, FifosOK
  <2>7. Head(pending[i]) = p[1] /\ HeadBeat(i) = p[1][1]
    BY <2>5, HeadIs DEF BeatIInv
  <2>8. \A n \in DOMAIN p : n # 1 /\ p[n][1][1] = p[1][1][1] => p[n][1][2] > p[1][1][2]
    BY ONLY <2>6, i \in Inputs, HeadAlone
  <2>9. m # 1 /\ p[m][1][1] = p[1][1][1]
    BY <1>1, <2>6, <2>7
  <2> QED
    BY <2>6, <2>7, <2>8, <2>9
<1> QED
  BY <1>1

LEMMA Popped ==
    ASSUME BeatIInv, NEW i \in Inputs, pending[i] # <<>>, Pop(i)
    PROVE  /\ pending' \in [Inputs -> Seq(Beats \X Slots)] /\ pending_bytes' \in [Inputs -> Nat]
           /\ head_cycle' \in [Inputs -> [cur : BOOLEAN, nxt : BOOLEAN]]
           /\ Queued' = Queued \ {Head(pending[i])} /\ Head(pending[i]) \in Queued
           /\ \A j \in Inputs : j # i => pending'[j] = pending[j]
           /\ \A j \in Inputs : Fifo(pending'[j], j)
           /\ BytesOK'
<1>1. /\ pending \in [Inputs -> Seq(Beats \X Slots)] /\ pending_bytes \in [Inputs -> Nat]
      /\ head_cycle \in [Inputs -> [cur : BOOLEAN, nxt : BOOLEAN]]
      /\ \A j \in Inputs : Fifo(pending[j], j)
  BY DEF BeatIInv, TypesOK, FifosOK
<1>2. /\ pending' = [pending EXCEPT ![i] = Tail(@)]
      /\ pending_bytes' = [pending_bytes EXCEPT ![i] = @ - fifo_cost(Head(pending[i])[1][1])]
      /\ head_cycle' = IF Len(pending[i]) = 1 THEN [head_cycle EXCEPT ![i].nxt = FALSE]
                       ELSE head_cycle
  BY DEF Pop
<1>3. /\ pending' \in [Inputs -> Seq(Beats \X Slots)]
      /\ Queued' = Queued \ {Head(pending[i])} /\ Head(pending[i]) \in Queued
      /\ \A j \in Inputs : j # i => pending'[j] = pending[j]
      /\ pending'[i] = Tail(pending[i])
  BY <1>1, <1>2, QueuedLeaves
<1>4. head_cycle' \in [Inputs -> [cur : BOOLEAN, nxt : BOOLEAN]]
  BY <1>1, <1>2
<1>5. PICK q : q = pending[i]
  OBVIOUS
<1>6. PICK t : t = Tail(q)
  OBVIOUS
<1>7. q \in Seq(Beats \X Slots) /\ q # <<>> /\ Fifo(q, i)
  BY <1>1, <1>5
<1>8. Fifo(t, i)
  BY ONLY <1>6, <1>7, i \in Inputs, FifoLeaves
<1>9. pending'[i] = t
  BY <1>3, <1>5, <1>6
<1>10. \A j \in Inputs : Fifo(pending'[j], j)
  BY <1>1, <1>3, <1>8, <1>9
<1>11. PICK n : n = pending_bytes[i]
  OBVIOUS
<1>12. Counted(q, n) /\ n \in Nat /\ n <= max_input_pending_size
  BY <1>1, <1>5, <1>11 DEF BeatIInv, BytesOK
<1>13. /\ Cost(q, 1) \in Nat /\ n - Cost(q, 1) \in Nat
       /\ Counted(t, n - Cost(q, 1))
  BY ONLY <1>6, <1>7, <1>12, CountedLeaves
<1>14. fifo_cost(Head(pending[i])[1][1]) = Cost(q, 1)
  BY <1>1, <1>5, SeqPlaces DEF Cost
<1>15. /\ pending_bytes'[i] = n - Cost(q, 1)
       /\ \A j \in Inputs : j # i => pending_bytes'[j] = pending_bytes[j]
       /\ pending_bytes' \in [Inputs -> Nat]
  BY <1>1, <1>2, <1>11, <1>13, <1>14
<1>16. n - Cost(q, 1) <= max_input_pending_size
  BY <1>12, <1>13, RouterBeatAssumption
<1>17. ASSUME NEW j \in Inputs
       PROVE  Counted(pending'[j], pending_bytes'[j]) /\ pending_bytes'[j] <= max_input_pending_size
  <2>1. CASE j = i
    BY <1>9, <1>13, <1>15, <1>16, <2>1
  <2>2. CASE j # i
    BY <1>3, <1>15, <2>2 DEF BeatIInv, BytesOK
  <2> QED
    BY <2>1, <2>2
<1>18. BytesOK'
  BY <1>17 DEF BytesOK, Counted, Sums, Cost
<1> QED
  BY <1>3, <1>4, <1>10, <1>15, <1>18

(* A stall that stays is right when its input keeps its FIFO.              *)
LEMMA StallMoves ==
    ASSUME BeatIInv, IdentKept, NEW o \in Outputs, NEW c \in Channels,
           stalled'[o][c] = stalled[o][c], stalled_input'[o][c] = stalled_input[o][c],
           UNCHANGED <<pst, pcmd>>,
           stalled[o][c] /\ stalled_input[o][c] \in Inputs =>
              pending'[stalled_input[o][c]] = pending[stalled_input[o][c]]
    PROVE  StallRight(o, c)'
<1>1. StallRight(o, c)
  BY StallsAre DEF BeatIInv
<1>2. CASE stalled_input[o][c] = Null
  BY <1>1, <1>2 DEF StallRight
<1>3. CASE stalled_input[o][c] # Null
  <2>1. PICK i \in Inputs : i = stalled_input[o][c]
    BY <1>3, StallInput DEF BeatIInv
  <2>2. stalled[o][c] /\ HeldHead(o, c, i) /\ pending'[i] = pending[i]
    BY <1>1, <1>3, <2>1 DEF StallRight
  <2>3. HeldHead(o, c, i)'
    BY <2>2, HeldKept DEF BeatIInv
  <2> QED
    BY <1>3, <2>1, <2>2, <2>3 DEF StallRight, HeldHead, HeadSlot
<1> QED
  BY <1>2, <1>3

(* The lock of the channel of the head.                                    *)
LEMMA LockTaken ==
    ASSUME BeatIInv, NEW i \in Inputs, pending[i] # <<>>, NEW o \in Outputs, NEW c, IdentKept,
           c = burst_table[HeadSlot(i)].channel, burst_table'[HeadSlot(i)].output_id = o,
           \A p \in Outputs, d \in Channels :
              \/ elected_input'[p][d] \in {Null, elected_input[p][d]}
              \/ p = o /\ d = c /\ elected_input'[p][d] = i
    PROVE  LockOwned'
<1>1. HeadSlot(i) \in Slots /\ burst_table[HeadSlot(i)].in_use /\ burst_table[HeadSlot(i)].input = i
  BY HeadSlotShape, HeadQueued DEF BeatIInv
<1>2. ASSUME NEW p \in Outputs, NEW d \in Channels, elected_input'[p][d] # Null
      PROVE  \E s \in Slots : /\ burst_table'[s].in_use /\ burst_table'[s].channel = d
                              /\ burst_table'[s].input = elected_input'[p][d]
                              /\ burst_table'[s].output_id = p
  <2>1. CASE elected_input'[p][d] = elected_input[p][d]
    <3>1. PICK s \in Slots : /\ burst_table[s].in_use /\ burst_table[s].channel = d
                             /\ burst_table[s].input = elected_input[p][d]
                             /\ burst_table[s].output_id = p
      BY <1>2, <2>1 DEF BeatIInv, LockOwned
    <3>2. p # Null
      BY Nothing
    <3> QED
      BY <2>1, <3>1, <3>2 DEF IdentKept
  <2>2. CASE p = o /\ d = c /\ elected_input'[p][d] = i
    BY <1>1, <2>2 DEF IdentKept
  <2> QED
    BY <1>2, <2>1, <2>2
<1> QED
  BY <1>2 DEF LockOwned

LEMMA DeniedStalls ==
    ASSUME BeatIInv, NEW i \in Inputs, pending[i] # <<>>, NEW T, NEW o, ForwardTo(T, i, o),
           ForwardDenied(i, o, T), UNCHANGED <<pst, pcmd>>
    PROVE  /\ IdentKept /\ LastsKept /\ burst_table' \in [Slots -> Entry]
           /\ burst_table'[HeadSlot(i)].output_id = o
           /\ stalled' \in [Outputs -> [Channels -> BOOLEAN]]
           /\ stalled_input' \in [Outputs -> [Channels -> Inputs \cup {Null}]]
           /\ UNCHANGED <<below, pending, pending_bytes, head_cycle, wake>>
           /\ StallsOK'
<1> DEFINE c == burst_table[HeadSlot(i)].channel
<1>1. /\ burst_table' = T /\ c \in Channels /\ o \in Outputs /\ i # Null
      /\ stalled' = [stalled EXCEPT ![o][c] = TRUE]
      /\ stalled_input' = [stalled_input EXCEPT ![o][c] = i]
      /\ UNCHANGED <<below, pending, pending_bytes, head_cycle, wake>>
  BY HeadSlotShape, Nothing DEF ForwardDenied, HeadSlot, ForwardTo
<1>2. ForwardTo(burst_table', i, o)
  BY <1>1
<1>3. IdentKept /\ LastsKept
  BY <1>2, ForwardKeeps
<1>4. /\ burst_table' \in [Slots -> Entry] /\ burst_table'[HeadSlot(i)].output_id = o
      /\ burst_table'[HeadSlot(i)].channel = c
  BY <1>2 DEF ForwardTo
<1>5. /\ stalled \in [Outputs -> [Channels -> BOOLEAN]]
      /\ stalled_input \in [Outputs -> [Channels -> Inputs \cup {Null}]]
  BY DEF BeatIInv, TypesOK
<1> HIDE DEF c
<1>6. /\ stalled' \in [Outputs -> [Channels -> BOOLEAN]]
      /\ \A p \in Outputs, d \in Channels :
            stalled'[p][d] = IF p = o /\ d = c THEN TRUE ELSE stalled[p][d]
  BY <1>1, <1>5
<1>7. /\ stalled_input' \in [Outputs -> [Channels -> Inputs \cup {Null}]]
      /\ \A p \in Outputs, d \in Channels :
            stalled_input'[p][d] = IF p = o /\ d = c THEN i ELSE stalled_input[p][d]
  BY <1>1, <1>5
<1>8. ASSUME NEW p \in Outputs, NEW d \in Channels PROVE StallRight(p, d)'
  <2>1. CASE p = o /\ d = c
    <3>1. pending'[i] # <<>> /\ HeadSlot(i)' = HeadSlot(i)
      BY <1>1 DEF HeadSlot
    <3>2. stalled_input'[p][d] = i /\ stalled'[p][d]
      BY <1>6, <1>7, <2>1
    <3> QED
      BY <1>1, <1>4, <2>1, <3>1, <3>2 DEF StallRight, HeldHead, HeadSlot
  <2>2. CASE ~(p = o /\ d = c)
    <3>1. stalled'[p][d] = stalled[p][d] /\ stalled_input'[p][d] = stalled_input[p][d]
      BY <1>6, <1>7, <2>2
    <3> QED
      BY <1>1, <1>3, <3>1, StallMoves
  <2> QED
    BY <2>1, <2>2
<1>9. StallsOK'
  BY <1>8, StallsAre
<1> QED
  BY <1>1, <1>3, <1>4, <1>6, <1>7, <1>9

----------------------------------------------------------------------------
(* A beat goes down.                                                       *)

(* The burst of the head has beats to forward; after the head only when it *)
(* was not the last.                                                       *)
LEMMA HeadPending ==
    ASSUME BeatIInv, NEW i \in Inputs, pending[i] # <<>>, Queued' = Queued \ {Head(pending[i])},
           UNCHANGED sent, NEW x, x = HeadBeat(i), NEW b, b = x[1]
    PROVE  /\ ~AllForwarded(b)
           /\ AllForwarded(b)' <=> is_last(x)
           /\ \A d : d # b => (AllForwarded(d)' <=> AllForwarded(d))
<1>0. PICK h : h = Head(pending[i])
  OBVIOUS
<1>1. h \in Queued /\ h[1] = x /\ h[2] = HeadSlot(i) /\ h = <<x, HeadSlot(i)>>
  BY <1>0, HeadQueued, HeadIs DEF BeatIInv
<1>2. /\ b \in Bursts /\ b # Proxy /\ x \in Beats /\ x[2] \in 1 .. NbBeats[b] /\ NbBeats[b] \in Nat \ {0}
      /\ sent[b] \in Nat
  BY <1>1, QueuedTypes, Nothing DEF BeatIInv, TypesOK
<1>3. \A q \in Queued : q[1][1] = b /\ q # h => q[1][2] > x[2]
  BY <1>0, HeadFirst
<1>4. master[x] = "granted"
  BY <1>1 DEF BeatIInv, PlacesOK
<1>5. \A q \in Queued : q[1][1] = b => q[1][2] \in 1 .. NbBeats[b]
  BY QueuedTypes DEF BeatIInv
<1>6. x[2] < NbBeats[b] /\ sent[b] = 0 => \E q \in Queued : q # h /\ q[1][1] = b
  <2>1. ASSUME x[2] < NbBeats[b], sent[b] = 0 PROVE \E q \in Queued : q # h /\ q[1][1] = b
    <3>1. <<<<b, x[2] + 1>>, h[2]>> \in Queued
      BY <1>1, <2>1 DEF BeatIInv, FifosOK
    <3>2. <<<<b, x[2] + 1>>, h[2]>> # h
      BY <1>1, <1>2
    <3> QED
      BY <3>1, <3>2
  <2> QED
    BY <2>1
<1>7. ~AllForwarded(b)
  BY <1>1, <1>2 DEF AllForwarded
<1>8. Queued' = Queued \ {h} /\ sent' = sent
  BY <1>0
<1>9. AllForwarded(b)' <=> is_last(x)
  <2>1. is_last(x) <=> x[2] = NbBeats[b]
    BY DEF is_last
  <2>2. AllForwarded(b)' <=> sent[b] = 0 /\ \A q \in Queued : q # h => q[1][1] # b
    BY <1>2, <1>8 DEF AllForwarded
  <2>3. ASSUME x[2] = NbBeats[b] PROVE AllForwarded(b)'
    <3>1. sent[b] = 0
      <4>1. ~(sent[b] > 0 /\ x[2] > sent[b])
        BY <1>2, <1>4 DEF BeatIInv, Rounds
      <4>2. sent[b] < NbBeats[b]
        BY <1>2 DEF BeatIInv, TypesOK
      <4> QED
        BY <1>2, <2>3, <4>1, <4>2
    <3>2. \A q \in Queued : q # h => q[1][1] # b
      BY <1>2, <1>3, <1>5, <2>3
    <3> QED
      BY <2>2, <3>1, <3>2
  <2>4. ASSUME AllForwarded(b)', x[2] # NbBeats[b] PROVE FALSE
    BY <1>2, <1>6, <2>2, <2>4
  <2> QED
    BY <2>1, <2>3, <2>4
<1>10. ASSUME NEW d, d # b PROVE AllForwarded(d)' <=> AllForwarded(d)
  BY <1>1, <1>8, <1>10 DEF AllForwarded
<1> QED
  BY <1>7, <1>9, <1>10

LEMMA OneMore ==
    ASSUME NEW B, IsFiniteSet(B), NEW z, z \notin B, NEW s, NEW C, C = B \cup {z}
    PROVE  /\ Cardinality(At(B, s)) \in Nat
           /\ z[2] = s => Cardinality(At(C, s)) = Cardinality(At(B, s)) + 1
           /\ z[2] # s => At(C, s) = At(B, s)
<1>1. PICK old, new : old = At(B, s) /\ new = At(C, s)
  OBVIOUS
<1>2. IsFiniteSet(old) /\ Cardinality(old) \in Nat
  <2>1. old \subseteq B
    BY <1>1 DEF At
  <2> QED
    BY <2>1, FS_Subset, FS_CardinalityType
<1>3. ASSUME z[2] = s PROVE Cardinality(new) = Cardinality(old) + 1
  <2>1. new = old \cup {z} /\ z \notin old
    BY <1>1, <1>3 DEF At
  <2> QED
    BY ONLY <1>2, <2>1, FS_AddElement
<1>4. z[2] # s => new = old
  BY <1>1 DEF At
<1> QED
  BY <1>1, <1>2, <1>3, <1>4

(* The table after the forward.                                            *)
LEMMA GrantedTable ==
    ASSUME BeatIInv, NEW i \in Inputs, pending[i] # <<>>, NEW T, NEW o, ForwardTo(T, i, o),
           ForwardGranted(i, o, T)
    PROVE  /\ burst_table' \in [Slots -> Entry] /\ IdentKept
           /\ burst_table'[HeadSlot(i)].output_id = o
           /\ \A t \in Slots : t # HeadSlot(i) => burst_table'[t] = burst_table[t]
           /\ burst_table'[HeadSlot(i)].pending_master_is_last
                 = Append(burst_table[HeadSlot(i)].pending_master_is_last, is_last(HeadBeat(i)))
<1> DEFINE s == HeadSlot(i)
           w == is_last(HeadBeat(i))
<1>1. burst_table' = [T EXCEPT ![s].pending_master_is_last = Append(@, w)]
  BY DEF ForwardGranted, HeadSlot, HeadBeat
<1>2. w \in BOOLEAN
  BY DEF is_last
<1>3. s \in Slots /\ T \in [Slots -> Entry]
  BY HeadQueued DEF BeatIInv, ForwardTo
<1>4. /\ \A t \in Slots : t # s => T[t] = burst_table[t]
      /\ LET e == burst_table[s]
             d == T[s]
         IN  /\ d.in_use = e.in_use /\ d.input = e.input /\ d.channel = e.channel
             /\ d.original_burst_id = e.original_burst_id
             /\ d.pending_master_is_last = e.pending_master_is_last
             /\ d.output_id = o /\ o = Dest[HeadBeat(i)[1]] /\ e.output_id \in {Null, o}
  BY DEF ForwardTo
<1>5. burst_table[s].original_burst_id = HeadBeat(i)[1]
  BY HeadSlotShape
<1> HIDE DEF s, w
<1>6. T[s] \in Entry /\ T[s].pending_master_is_last \in Seq(BOOLEAN)
  BY <1>3, EntryFields
<1>7. PICK l : l = Append(T[s].pending_master_is_last, w)
  OBVIOUS
<1>8. l \in Seq(BOOLEAN)
  BY <1>2, <1>6, <1>7
<1>9. burst_table' = [T EXCEPT ![s].pending_master_is_last = l]
  BY <1>1, <1>7
<1>10. /\ burst_table' \in [Slots -> Entry]
       /\ \A t \in Slots : t # s => burst_table'[t] = T[t]
       /\ burst_table'[s].pending_master_is_last = l
       /\ burst_table'[s].in_use = T[s].in_use /\ burst_table'[s].input = T[s].input
       /\ burst_table'[s].channel = T[s].channel /\ burst_table'[s].output_id = T[s].output_id
       /\ burst_table'[s].original_burst_id = T[s].original_burst_id
  BY <1>3, <1>6, <1>8, <1>9 DEF Entry
<1>11. \A t \in Slots : t # s => burst_table'[t] = burst_table[t]
  BY <1>4, <1>10
<1>12. IdentKept
  BY <1>4, <1>5, <1>10, <1>11 DEF IdentKept
<1> QED
  BY <1>4, <1>7, <1>10, <1>11, <1>12 DEF s, w

LEMMA Granted ==
    ASSUME BeatIInv, NEW i \in Inputs, pending[i] # <<>>, NEW T, NEW o, ForwardTo(T, i, o),
           ForwardGranted(i, o, T), UNCHANGED <<active_multi_beat_slot, sent, master>>
    PROVE  /\ burst_table' \in [Slots -> Entry] /\ IdentKept /\ wake' = 0
           /\ burst_table'[HeadSlot(i)].output_id = o
           /\ pending' \in [Inputs -> Seq(Beats \X Slots)] /\ pending_bytes' \in [Inputs -> Nat]
           /\ head_cycle' \in [Inputs -> [cur : BOOLEAN, nxt : BOOLEAN]]
           /\ \A j \in Inputs : j # i => pending'[j] = pending[j]
           /\ below' \subseteq (Beats \cup {<<Proxy, 1>>}) \X Slots \X Outputs /\ IsFiniteSet(below')
           /\ below \subseteq below' /\ Queued' \subseteq Queued
           /\ StillParts'
<1>0. PICK x, b, s, h, z : /\ x = HeadBeat(i) /\ b = x[1] /\ s = HeadSlot(i)
                          /\ h = Head(pending[i]) /\ z = <<x, s, o>>
  OBVIOUS
<1>1. Pop(i) /\ below' = below \cup {z} /\ wake' = 0
  BY <1>0 DEF ForwardGranted, HeadSlot, HeadBeat
<1>2. /\ pending' \in [Inputs -> Seq(Beats \X Slots)] /\ pending_bytes' \in [Inputs -> Nat]
      /\ head_cycle' \in [Inputs -> [cur : BOOLEAN, nxt : BOOLEAN]]
      /\ Queued' = Queued \ {h} /\ h \in Queued
      /\ \A j \in Inputs : j # i => pending'[j] = pending[j]
      /\ \A j \in Inputs : Fifo(pending'[j], j)
      /\ BytesOK'
  BY <1>0, <1>1, Popped
<1>3. /\ burst_table' \in [Slots -> Entry] /\ IdentKept
      /\ burst_table'[s].output_id = o
      /\ \A t \in Slots : t # s => burst_table'[t] = burst_table[t]
      /\ burst_table'[s].pending_master_is_last
            = Append(burst_table[s].pending_master_is_last, is_last(x))
  BY <1>0, GrantedTable
<1>4. /\ h[1] = x /\ h[2] = s /\ h = <<x, s>> /\ s \in Slots /\ x \in Beats /\ UsedBy(s, b)
      /\ b \in Bursts /\ b # Proxy /\ In[b] = i /\ o \in Outputs
  BY <1>0, HeadIs, HeadQueued, Nothing DEF BeatIInv, ForwardTo
<1>5. /\ ~AllForwarded(b) /\ (AllForwarded(b)' <=> is_last(x))
      /\ \A d : d # b => (AllForwarded(d)' <=> AllForwarded(d))
  BY <1>0, <1>2, HeadPending
<1>6. \A y \in below : y[1] # x
  BY <1>2, <1>4 DEF BeatIInv, PlacesOK
<1>7. z \notin below /\ z[1] = x /\ z[2] = s /\ z[3] = o
  BY <1>0, <1>6
<1>8. \A q \in Queued : q[1][1] = b /\ q # h => q[1][2] > x[2]
  BY <1>0, HeadFirst
<1>9. /\ below \subseteq (Beats \cup {<<Proxy, 1>>}) \X Slots \X Outputs /\ IsFiniteSet(below)
      /\ burst_table \in [Slots -> Entry]
  BY DEF BeatIInv, TypesOK
<1>10. below' \subseteq (Beats \cup {<<Proxy, 1>>}) \X Slots \X Outputs /\ IsFiniteSet(below')
  <2>1. z \in (Beats \cup {<<Proxy, 1>>}) \X Slots \X Outputs
    BY <1>0, <1>4
  <2>2. IsFiniteSet(below \cup {z})
    BY ONLY <1>9, FS_AddElement
  <2> QED
    BY <1>1, <1>9, <2>1, <2>2
<1>11. UNCHANGED active_multi_beat_slot /\ UNCHANGED sent /\ UNCHANGED master
  OBVIOUS
<1>12. Rounds'
  BY <1>11, SameMasters, Kept_Rounds DEF BeatIInv
<1>13. SlotsOK'
  <2>1. ASSUME NEW t \in Slots, burst_table'[t].in_use PROVE BeatSlotShape(t)'
    <3>1. burst_table[t].in_use /\ BeatSlotShape(t)
      BY <1>3, <2>1 DEF IdentKept, BeatIInv, SlotsOK
    <3> QED
      BY <1>3, <1>11, <3>1 DEF BeatSlotShape, IdentKept
  <2>2. ASSUME NEW t \in Slots, ~burst_table'[t].in_use
        PROVE  burst_table'[t].pending_master_is_last = <<>>
    <3>1. ~burst_table[t].in_use
      BY <1>3, <2>2 DEF IdentKept
    <3>2. t # s
      BY <1>4, <3>1 DEF UsedBy
    <3> QED
      BY <1>3, <3>1, <3>2 DEF BeatIInv, SlotsOK
  <2>3. \A t \in Slots, u \in Slots, d \in Bursts \cup {Proxy} : UsedBy(t, d)' /\ UsedBy(u, d)' => t = u
    BY <1>3, UsersKept DEF BeatIInv, SlotsOK
  <2> QED
    BY <2>1, <2>2, <2>3 DEF SlotsOK
<1>14. ActiveOK'
  BY <1>3, <1>11, Kept_Active DEF BeatIInv
<1>15. FifosOK'
  <2>1. \A q \in Queued' : UsedBy(q[2], q[1][1])'
    BY <1>2, <1>3, UsersKept, QueuedTypes DEF BeatIInv, FifosOK
  <2>2. ASSUME NEW q \in Queued', q[1][2] < NbBeats[q[1][1]],
               q[1][2] < sent'[q[1][1]] \/ sent'[q[1][1]] = 0
        PROVE  <<<<q[1][1], q[1][2] + 1>>, q[2]>> \in Queued'
    <3>1. q \in Queued /\ q # h /\ q[1][2] \in Nat
      BY <1>2, QueuedTypes DEF BeatIInv
    <3>2. <<<<q[1][1], q[1][2] + 1>>, q[2]>> \in Queued
      BY <1>11, <2>2, <3>1 DEF BeatIInv, FifosOK
    <3>3. <<<<q[1][1], q[1][2] + 1>>, q[2]>> # h
      <4>1. ASSUME <<<<q[1][1], q[1][2] + 1>>, q[2]>> = h PROVE FALSE
        <5>1. x = <<q[1][1], q[1][2] + 1>>
          BY <1>4, <4>1
        <5>2. b = q[1][1] /\ x[2] = q[1][2] + 1
          BY <1>0, <5>1
        <5> QED
          BY <1>8, <3>1, <5>2
      <4> QED
        BY <4>1
    <3> QED
      BY <1>2, <3>2, <3>3
  <2>3. \A j \in Inputs : Fifo(pending[j], j)'
    BY <1>2 DEF Fifo
  <2> QED
    BY <2>1, <2>2, <2>3 DEF FifosOK
<1>16. BelowOK'
  <2>1. ASSUME NEW y \in below' PROVE UsedBy(y[2], y[1][1])' /\ burst_table'[y[2]].output_id = y[3]
    <3>1. CASE y \in below
      <4>1. UsedBy(y[2], y[1][1]) /\ burst_table[y[2]].output_id = y[3] /\ y[2] \in Slots /\ y[3] # Null
        BY <3>1, BelowTypes DEF BeatIInv, BelowOK
      <4> QED
        BY <1>3, <4>1, UsersKept DEF IdentKept, UsedBy
    <3>2. CASE y = z
      BY <1>3, <1>4, <1>7, <3>2, UsersKept, <1>0
    <3> QED
      BY <1>1, <3>1, <3>2
  <2>2. ASSUME NEW y \in below', NEW v \in below', y[1] = v[1] PROVE y = v
    BY <1>1, <1>6, <1>7, <2>2 DEF BeatIInv, BelowOK
  <2> QED
    BY <2>1, <2>2 DEF BelowOK
<1>17. PlacesOK'
  <2>1. \A q \in Queued' : master'[q[1]] = "granted"
    BY <1>2, <1>11 DEF BeatIInv, PlacesOK
  <2>2. \A y \in below' : y[1][1] # Proxy => master'[y[1]] = "granted"
    BY <1>1, <1>2, <1>4, <1>7, <1>11 DEF BeatIInv, PlacesOK
  <2>3. ASSUME NEW q \in Queued', NEW y \in below' PROVE q[1] # y[1]
    <3>1. CASE y \in below
      BY <1>2, <3>1 DEF BeatIInv, PlacesOK
    <3>2. CASE y = z
      <4>1. ASSUME q[1] = x PROVE FALSE
        <5>1. q[1][1] = b /\ q[1][2] = x[2] /\ q \in Queued /\ q # h /\ q[1][2] \in Nat
          BY <1>2, <4>1, <1>0, QueuedTypes DEF BeatIInv
        <5> QED
          BY <1>8, <5>1
      <4> QED
        BY <1>7, <3>2, <4>1
    <3> QED
      BY <1>1, <3>1, <3>2
  <2>4. ASSUME NEW v \in Beats, master'[v] = "granted"
        PROVE  (\E q \in Queued' : q[1] = v) \/ (\E y \in below' : y[1] = v)
    <3>1. CASE v = x
      BY <1>1, <1>7, <3>1
    <3>2. CASE v # x
      <4>1. (\E q \in Queued : q[1] = v) \/ (\E y \in below : y[1] = v)
        BY <1>11, <2>4 DEF BeatIInv, PlacesOK
      <4> QED
        BY <1>1, <1>2, <1>4, <3>2, <4>1
    <3> QED
      BY <3>1, <3>2
  <2> QED
    BY <2>1, <2>2, <2>3, <2>4 DEF PlacesOK
<1>18. LastsOK'
  <2> DEFINE lasts(t) == burst_table[t].pending_master_is_last
  <2>1. ASSUME NEW t \in Slots
        PROVE  /\ Len(lasts(t)) = Cardinality(Mine(t)) /\ lasts(t) \in Seq(BOOLEAN)
               /\ \A k \in 1 .. Len(lasts(t)) :
                     lasts(t)[k] <=> k = Len(lasts(t)) /\ AllForwarded(burst_table[t].original_burst_id)
    BY <1>9, EntryFields DEF BeatIInv, LastsOK
  <2>2. ASSUME NEW t \in Slots
        PROVE  /\ Cardinality(Mine(t)) \in Nat
               /\ t = s => Cardinality(Mine(t)') = Cardinality(Mine(t)) + 1
               /\ t # s => Mine(t)' = Mine(t)
    <3>1. PICK B, C : B = below /\ C = below'
      OBVIOUS
    <3>2. IsFiniteSet(B) /\ z \notin B /\ C = B \cup {z}
      BY <1>1, <1>7, <1>9, <3>1
    <3>3. Mine(t) = At(B, t) /\ Mine(t)' = At(C, t)
      BY <3>1 DEF Mine, At
    <3>4. /\ Cardinality(At(B, t)) \in Nat
          /\ z[2] = t => Cardinality(At(C, t)) = Cardinality(At(B, t)) + 1
          /\ z[2] # t => At(C, t) = At(B, t)
      BY ONLY <3>2, OneMore
    <3> QED
      BY <1>7, <3>3, <3>4
  <2>3. ASSUME NEW t \in Slots, t # s
        PROVE  /\ Len(lasts(t)') = Cardinality(Mine(t)')
               /\ \A k \in 1 .. Len(lasts(t)') :
                     lasts(t)'[k] <=> k = Len(lasts(t)') /\ AllForwarded(burst_table[t].original_burst_id)'
    <3>1. burst_table'[t] = burst_table[t] /\ Mine(t)' = Mine(t)
      BY <1>3, <2>2, <2>3
    <3>2. ASSUME NEW k \in 1 .. Len(lasts(t))
          PROVE  lasts(t)[k] <=> k = Len(lasts(t)) /\ AllForwarded(burst_table[t].original_burst_id)'
      <4>1. burst_table[t].in_use
        BY <3>2 DEF BeatIInv, SlotsOK
      <4>2. burst_table[t].original_burst_id # b
        BY <1>4, <2>3, <4>1 DEF BeatIInv, SlotsOK, UsedBy
      <4>3. PICK d : d = burst_table[t].original_burst_id
        OBVIOUS
      <4>4. d # b /\ (AllForwarded(d)' <=> AllForwarded(d))
        BY <1>5, <4>2, <4>3
      <4>5. burst_table'[t].original_burst_id = d
        BY <3>1, <4>3
      <4>6. lasts(t)[k] <=> k = Len(lasts(t)) /\ AllForwarded(d)
        BY <2>1, <3>2, <4>3
      <4> QED
        BY <4>4, <4>5, <4>6
    <3> QED
      BY <2>1, <3>1, <3>2
  <2>4. /\ Len(lasts(s)') = Cardinality(Mine(s)')
        /\ \A k \in 1 .. Len(lasts(s)') :
              lasts(s)'[k] <=> k = Len(lasts(s)') /\ AllForwarded(burst_table[s].original_burst_id)'
    <3>1. burst_table[s].original_burst_id = b /\ burst_table'[s].original_burst_id = b
      BY <1>3, <1>4 DEF UsedBy, IdentKept
    <3>2. PICK w \in BOOLEAN : w = is_last(x)
      BY DEF is_last
    <3>3. PICK l : l = lasts(s)
      OBVIOUS
    <3>4. PICK m : m = lasts(s)'
      OBVIOUS
    <3>5. m = Append(l, w) /\ l \in Seq(BOOLEAN)
      BY <1>3, <1>4, <2>1, <3>2, <3>3, <3>4
    <3>6. /\ Len(m) = Len(l) + 1 /\ Len(l) \in Nat /\ m[Len(l) + 1] = w
          /\ \A k \in 1 .. Len(l) : m[k] = l[k]
      BY <3>5
    <3>7. \A k \in 1 .. Len(l) : ~l[k]
      BY <1>4, <1>5, <2>1, <3>1, <3>3
    <3>8. Len(m) = Cardinality(Mine(s)')
      BY <1>4, <2>1, <2>2, <3>3, <3>6
    <3>9. ASSUME NEW k \in 1 .. Len(m) PROVE m[k] <=> k = Len(m) /\ AllForwarded(b)'
      <4>1. CASE k \in 1 .. Len(l)
        BY <3>6, <3>7, <4>1
      <4>2. CASE k = Len(l) + 1
        <5>1. m[k] <=> is_last(x)
          BY <3>2, <3>6, <4>2
        <5> QED
          BY <1>5, <3>6, <4>2, <5>1
      <4> QED
        BY <3>6, <3>9, <4>1, <4>2
    <3> QED
      BY <3>1, <3>4, <3>8, <3>9
  <2> QED
    BY <2>3, <2>4 DEF LastsOK
<1> QED
  BY <1>1, <1>2, <1>3, <1>10, <1>12, <1>13, <1>14, <1>15, <1>16, <1>17, <1>18, <1>0 DEF StillParts

----------------------------------------------------------------------------
(* The steps that forward.                                                 *)

(* The head of a stalled input is where it was denied.                     *)
LEMMA StalledWhere ==
    ASSUME BeatIInv, NEW i \in Inputs, pending[i] # <<>>, NEW p \in Outputs, NEW d \in Channels,
           stalled[p][d], stalled_input[p][d] = i
    PROVE  Output(i) = p /\ burst_table[HeadSlot(i)].channel = d /\ HeldHead(p, d, i)
<1>1. HeldHead(p, d, i)
  BY StallsAre, Nothing DEF BeatIInv, StallRight
<1> QED
  BY <1>1, Nothing DEF HeldHead, Output

LEMMA GrantedStalls ==
    ASSUME BeatIInv, NEW i \in Inputs, IdentKept, UNCHANGED <<pst, pcmd>>,
           \A j \in Inputs : j # i => pending'[j] = pending[j],
           \A p \in Outputs, d \in Channels :
              \/ /\ stalled'[p][d] = stalled[p][d] /\ stalled_input'[p][d] = stalled_input[p][d]
                 /\ stalled[p][d] => stalled_input[p][d] # i
              \/ ~stalled'[p][d] /\ stalled_input'[p][d] = Null
    PROVE  StallsOK'
<1>1. ASSUME NEW p \in Outputs, NEW d \in Channels PROVE StallRight(p, d)'
  <2>1. CASE ~stalled'[p][d] /\ stalled_input'[p][d] = Null
    BY <2>1 DEF StallRight
  <2>2. CASE /\ stalled'[p][d] = stalled[p][d] /\ stalled_input'[p][d] = stalled_input[p][d]
             /\ stalled[p][d] => stalled_input[p][d] # i
    <3>1. stalled[p][d] /\ stalled_input[p][d] \in Inputs =>
             pending'[stalled_input[p][d]] = pending[stalled_input[p][d]]
      BY <2>2
    <3> QED
      BY <2>2, <3>1, StallMoves
  <2> QED
    BY <2>1, <2>2
<1> QED
  BY <1>1, StallsAre

LEMMA GrantedProxy ==
    ASSUME BeatIInv, IdentKept, UNCHANGED pvars, below \subseteq below'
    PROVE  ProxyOK'
<1>1. UNCHANGED pst /\ UNCHANGED waiter /\ UNCHANGED proxy_retry_waiter /\ UNCHANGED pcmd
  BY DEF pvars
<1> QED
  BY <1>1, UsersKept DEF BeatIInv, ProxyOK

(* Both may leave the lock of the head's channel with its input.           *)
LEMMA Keep_FsmForwards ==
    ASSUME BeatIInv, NEW i \in Inputs, FsmForwards(i)
    PROVE  BeatIInv'
<1>1. PICK o, c : o = Output(i) /\ c = burst_table[HeadSlot(i)].channel
  OBVIOUS
<1>2. /\ Turn(i) /\ Visible(i) /\ Output(i) # Invalid /\ MayForward(i, o, c)
      /\ elected_input' = IF HeadBeat(i)[2] = 1
            THEN [elected_input EXCEPT ![o][c] = i] ELSE elected_input
      /\ \/ /\ ForwardGranted(i, o, Decoded(i))
            /\ handler' = [Next_input EXCEPT !.used = @ \cup {<<o, c>>}]
            /\ UNCHANGED svars
         \/ ForwardDenied(i, o, Decoded(i)) /\ handler' = Next_input
  BY <1>1 DEF FsmForwards
<1>3. /\ UNCHANGED <<active_multi_beat_slot, sent, master>> /\ UNCHANGED pvars
      /\ UNCHANGED <<pst, pcmd>> /\ UNCHANGED <<proxy_retry_waiter, waiter, pst, pcmd>>
      /\ UNCHANGED <<master, denied_upstream, cb>>
      /\ UNCHANGED <<denied_upstream, round_robin_next, fsm_event, cb>>
  BY DEF FsmForwards, mvars, pvars
<1>4. pending[i] # <<>> /\ o \in Outputs /\ c \in Channels
  BY <1>1, <1>2, OutputIs, HeadSlotShape DEF Visible
<1>5. PICK T : T = Decoded(i)
  OBVIOUS
<1>6. ForwardTo(T, i, o)
  BY <1>1, <1>2, <1>4, <1>5, DecodedIs
<1>7. /\ elected_input' \in [Outputs -> [Channels -> Inputs \cup {Null}]]
      /\ \A p \in Outputs, d \in Channels :
            \/ elected_input'[p][d] \in {Null, elected_input[p][d]}
            \/ p = o /\ d = c /\ elected_input'[p][d] = i
  <2>1. elected_input \in [Outputs -> [Channels -> Inputs \cup {Null}]]
    BY DEF BeatIInv, TypesOK
  <2>2. CASE elected_input' = elected_input
    BY <2>1, <2>2
  <2>3. CASE elected_input' = [elected_input EXCEPT ![o][c] = i]
    BY <1>4, <2>1, <2>3
  <2> QED
    BY <1>2, <2>2, <2>3
<1>8. handler' \in Handlers
  BY <1>2, <1>4, FsmMoves DEF BeatIInv, TypesOK, Turn
<1>9. Flags'
  BY <1>3, Kept_Flags DEF BeatIInv
<1>10. CASE ForwardDenied(i, o, T)
  <2>1. /\ IdentKept /\ LastsKept /\ burst_table' \in [Slots -> Entry]
        /\ burst_table'[HeadSlot(i)].output_id = o
        /\ stalled' \in [Outputs -> [Channels -> BOOLEAN]]
        /\ stalled_input' \in [Outputs -> [Channels -> Inputs \cup {Null}]]
        /\ UNCHANGED <<below, pending, pending_bytes, head_cycle, wake>>
        /\ StallsOK'
    BY <1>3, <1>4, <1>6, <1>10, DeniedStalls
  <2>2. TypesOK'
    BY <1>3, <1>7, <1>8, <2>1 DEF BeatIInv, TypesOK
  <2>3. StillParts'
    BY <1>3, <2>1, SameMasters, Still
  <2>4. LockOwned'
    BY <1>1, <1>4, <1>7, <2>1, LockTaken
  <2>5. ProxyOK'
    BY <1>3, <2>1, Kept_Proxy DEF BeatIInv
  <2> QED
    BY <1>9, <2>1, <2>2, <2>3, <2>4, <2>5 DEF BeatIInv, StillParts
<1>11. CASE ForwardGranted(i, o, T) /\ UNCHANGED svars
  <2>1. /\ burst_table' \in [Slots -> Entry] /\ IdentKept /\ wake' = 0
        /\ burst_table'[HeadSlot(i)].output_id = o
        /\ pending' \in [Inputs -> Seq(Beats \X Slots)] /\ pending_bytes' \in [Inputs -> Nat]
        /\ head_cycle' \in [Inputs -> [cur : BOOLEAN, nxt : BOOLEAN]]
        /\ \A j \in Inputs : j # i => pending'[j] = pending[j]
        /\ below' \subseteq (Beats \cup {<<Proxy, 1>>}) \X Slots \X Outputs /\ IsFiniteSet(below')
        /\ below \subseteq below' /\ Queued' \subseteq Queued
        /\ StillParts'
    BY <1>3, <1>4, <1>6, <1>11, Granted
  <2>2. UNCHANGED stalled /\ UNCHANGED stalled_input
    BY <1>11 DEF svars
  <2>3. wake' \in 0 .. nb_input_port
    BY <2>1, RouterBeatAssumption
  <2>4. TypesOK'
    <3>1. /\ burst_table' \in [Slots -> Entry]
          /\ pending' \in [Inputs -> Seq(Beats \X Slots)] /\ pending_bytes' \in [Inputs -> Nat]
          /\ head_cycle' \in [Inputs -> [cur : BOOLEAN, nxt : BOOLEAN]]
          /\ below' \subseteq (Beats \cup {<<Proxy, 1>>}) \X Slots \X Outputs /\ IsFiniteSet(below')
      BY <2>1
    <3>2. UNCHANGED active_multi_beat_slot /\ UNCHANGED sent /\ UNCHANGED master
          /\ UNCHANGED denied_upstream /\ UNCHANGED round_robin_next /\ UNCHANGED fsm_event
          /\ UNCHANGED cb /\ UNCHANGED proxy_retry_waiter /\ UNCHANGED waiter
          /\ UNCHANGED pst /\ UNCHANGED pcmd
      BY <1>3
    <3> QED
      BY <1>7, <1>8, <2>2, <2>3, <3>1, <3>2 DEF BeatIInv, TypesOK
  <2>5. LockOwned'
    <3>1. IdentKept /\ burst_table'[HeadSlot(i)].output_id = o
      BY <2>1
    <3> QED
      BY ONLY BeatIInv, i \in Inputs, <1>1, <1>4, <1>7, <3>1, LockTaken
  <2>6. \A p \in Outputs, d \in Channels : stalled[p][d] => stalled_input[p][d] # i
    BY <1>1, <1>2, <1>4, StalledWhere DEF MayForward
  <2>7. StallsOK'
    <3>1. IdentKept /\ (\A j \in Inputs : j # i => pending'[j] = pending[j])
      BY <2>1
    <3>2. UNCHANGED <<pst, pcmd>>
      BY <1>3
    <3>3. \A p \in Outputs, d \in Channels :
             /\ stalled'[p][d] = stalled[p][d] /\ stalled_input'[p][d] = stalled_input[p][d]
             /\ stalled[p][d] => stalled_input[p][d] # i
      BY <2>2, <2>6
    <3> QED
      BY ONLY BeatIInv, i \in Inputs, <3>1, <3>2, <3>3, GrantedStalls
  <2>8. ProxyOK'
    BY <1>3, <2>1, GrantedProxy
  <2> QED
    BY <1>9, <2>1, <2>4, <2>5, <2>7, <2>8 DEF BeatIInv, StillParts
<1> QED
  BY <1>2, <1>5, <1>10, <1>11

(* retry_muxed takes its channels one by one.                              *)
LEMMA RetryMoves ==
    ASSUME handler \in Handlers, Running("retry"), handler.todo # {}
    PROVE  /\ handler.out \in Outputs /\ Min(handler.todo) \in Channels
           /\ [handler EXCEPT !.todo = @ \ {Min(@)}] \in Handlers
<1>1. PICK o \in Outputs, c \in SUBSET Channels : handler = [kind |-> "retry", out |-> o, todo |-> c]
  BY HandlerKinds DEF Running
<1>2. [handler EXCEPT !.todo = @ \ {Min(@)}] = [kind |-> "retry", out |-> o, todo |-> c \ {Min(c)}]
  BY <1>1
<1>3. c \ {Min(c)} \in SUBSET Channels
  OBVIOUS
<1>4. c \subseteq Nat /\ c # {}
  BY <1>1, InputsNat
<1>5. Min(c) \in c
  BY ONLY <1>4, LeastNat
<1> QED
  BY <1>1, <1>2, <1>3, <1>5, HandlersAre

LEMMA Keep_RetryChannel ==
    ASSUME BeatIInv, RetryChannel
    PROVE  BeatIInv'
<1>1. PICK o, c, i : o = handler.out /\ c = Min(handler.todo) /\ i = stalled_input[o][c]
  OBVIOUS
<1>2. /\ Running("retry") /\ handler.todo # {}
      /\ \/ /\ ~stalled[o][c]
            /\ UNCHANGED <<svars, burst_table, below, pending, pending_bytes, head_cycle, wake>>
         \/ /\ stalled[o][c] /\ i = Null
            /\ stalled' = [stalled EXCEPT ![o][c] = FALSE]
            /\ UNCHANGED <<stalled_input, burst_table, below, pending, pending_bytes,
                           head_cycle, wake>>
         \/ /\ stalled[o][c] /\ i # Null
            /\ \/ /\ ForwardGranted(i, o, burst_table)
                  /\ stalled' = [stalled EXCEPT ![o][c] = FALSE]
                  /\ stalled_input' = [stalled_input EXCEPT ![o][c] = Null]
               \/ ForwardDenied(i, o, burst_table)
      /\ handler' = [handler EXCEPT !.todo = @ \ {Min(@)}]
  BY <1>1 DEF RetryChannel
<1>3. /\ UNCHANGED <<active_multi_beat_slot, sent, master>> /\ UNCHANGED pvars
      /\ UNCHANGED <<pst, pcmd>> /\ UNCHANGED <<proxy_retry_waiter, waiter, pst, pcmd>>
      /\ UNCHANGED <<master, denied_upstream, cb>> /\ UNCHANGED elected_input
      /\ UNCHANGED <<denied_upstream, round_robin_next, fsm_event, cb>>
  BY DEF RetryChannel, mvars, pvars
<1>4. o \in Outputs /\ c \in Channels /\ handler' \in Handlers
  BY <1>1, <1>2, RetryMoves DEF BeatIInv, TypesOK
<1>5. Flags'
  BY <1>3, Kept_Flags DEF BeatIInv
<1>6. /\ stalled \in [Outputs -> [Channels -> BOOLEAN]]
      /\ stalled_input \in [Outputs -> [Channels -> Inputs \cup {Null}]]
      /\ burst_table \in [Slots -> Entry]
  BY DEF BeatIInv, TypesOK
<1>7. CASE /\ i = Null /\ UNCHANGED <<stalled_input, burst_table, below, pending, pending_bytes, head_cycle, wake>>
           /\ (UNCHANGED stalled \/ stalled' = [stalled EXCEPT ![o][c] = FALSE])
  <2>1. /\ stalled' \in [Outputs -> [Channels -> BOOLEAN]]
        /\ \A p \in Outputs, d \in Channels :
              stalled'[p][d] = stalled[p][d] \/ (~stalled'[p][d] /\ p = o /\ d = c)
    <3>1. CASE UNCHANGED stalled
      BY <1>6, <3>1
    <3>2. CASE stalled' = [stalled EXCEPT ![o][c] = FALSE]
      <4>1. \A p \in Outputs, d \in Channels :
                stalled'[p][d] = IF p = o /\ d = c THEN FALSE ELSE stalled[p][d]
        BY <1>4, <1>6, <3>2
      <4> QED
        BY <1>4, <1>6, <3>2, <4>1
    <3> QED
      BY <1>7, <3>1, <3>2
  <2>2. IdentKept /\ LastsKept
    BY <1>7, SameTable
  <2>3. TypesOK'
    BY <1>3, <1>4, <1>7, <2>1 DEF BeatIInv, TypesOK
  <2>4. StillParts'
    BY <1>3, <1>7, <2>2, SameMasters, Still
  <2>5. LockOwned'
    BY <1>3, <2>2, Kept_Lock DEF BeatIInv
  <2>6. ProxyOK'
    BY <1>3, <1>7, <2>2, Kept_Proxy DEF BeatIInv
  <2>7. StallsOK'
    <3>1. ASSUME NEW p \in Outputs, NEW d \in Channels PROVE StallRight(p, d)'
      <4>1. CASE stalled'[p][d] = stalled[p][d]
        BY <1>3, <1>7, <2>2, <4>1, StallMoves
      <4>2. CASE ~stalled'[p][d] /\ p = o /\ d = c
        BY <1>1, <1>7, <4>2 DEF StallRight
      <4> QED
        BY <2>1, <4>1, <4>2
    <3> QED
      BY <3>1, StallsAre
  <2> QED
    BY <1>5, <2>3, <2>4, <2>5, <2>6, <2>7 DEF BeatIInv, StillParts
<1>8. CASE /\ ~stalled[o][c]
           /\ UNCHANGED <<svars, burst_table, below, pending, pending_bytes, head_cycle, wake>>
  <2>1. i = Null
    BY <1>1, <1>4, <1>8 DEF BeatIInv, StallsOK
  <2> QED
    BY <1>7, <1>8, <2>1 DEF svars
<1>9. CASE stalled[o][c] /\ i # Null
  <2>1. i \in Inputs
    BY <1>1, <1>4, <1>9, StallInput DEF BeatIInv
  <2>2. HeldHead(o, c, i)
    BY <1>1, <1>4, <1>9, StallsAre DEF BeatIInv, StallRight
  <2>3. pending[i] # <<>> /\ ForwardTo(burst_table, i, o)
    BY <1>4, <2>1, <2>2, HeldIs
  <2>4. c = burst_table[HeadSlot(i)].channel
    BY <2>2 DEF HeldHead
  <2>5. CASE ForwardDenied(i, o, burst_table)
    <3>1. /\ IdentKept /\ LastsKept /\ burst_table' \in [Slots -> Entry]
          /\ burst_table'[HeadSlot(i)].output_id = o
          /\ stalled' \in [Outputs -> [Channels -> BOOLEAN]]
          /\ stalled_input' \in [Outputs -> [Channels -> Inputs \cup {Null}]]
          /\ UNCHANGED <<below, pending, pending_bytes, head_cycle, wake>>
          /\ StallsOK'
      BY <1>3, <2>1, <2>3, <2>5, DeniedStalls
    <3>2. TypesOK'
      BY <1>3, <1>4, <3>1 DEF BeatIInv, TypesOK
    <3>3. StillParts'
      BY <1>3, <3>1, SameMasters, Still
    <3>4. LockOwned'
      BY <1>3, <3>1, Kept_Lock DEF BeatIInv
    <3>5. ProxyOK'
      BY <1>3, <3>1, Kept_Proxy DEF BeatIInv
    <3> QED
      BY <1>5, <3>1, <3>2, <3>3, <3>4, <3>5 DEF BeatIInv, StillParts
  <2>6. CASE /\ ForwardGranted(i, o, burst_table)
             /\ stalled' = [stalled EXCEPT ![o][c] = FALSE]
             /\ stalled_input' = [stalled_input EXCEPT ![o][c] = Null]
    <3>1. /\ burst_table' \in [Slots -> Entry] /\ IdentKept /\ wake' = 0
          /\ burst_table'[HeadSlot(i)].output_id = o
          /\ pending' \in [Inputs -> Seq(Beats \X Slots)] /\ pending_bytes' \in [Inputs -> Nat]
          /\ head_cycle' \in [Inputs -> [cur : BOOLEAN, nxt : BOOLEAN]]
          /\ \A j \in Inputs : j # i => pending'[j] = pending[j]
          /\ below' \subseteq (Beats \cup {<<Proxy, 1>>}) \X Slots \X Outputs /\ IsFiniteSet(below')
          /\ below \subseteq below' /\ Queued' \subseteq Queued
          /\ StillParts'
      BY <1>3, <2>1, <2>3, <2>6, Granted
    <3>2. /\ stalled' \in [Outputs -> [Channels -> BOOLEAN]]
          /\ \A p \in Outputs, d \in Channels :
                stalled'[p][d] = IF p = o /\ d = c THEN FALSE ELSE stalled[p][d]
      BY <1>4, <1>6, <2>6
    <3>3. /\ stalled_input' \in [Outputs -> [Channels -> Inputs \cup {Null}]]
          /\ \A p \in Outputs, d \in Channels :
                stalled_input'[p][d] = IF p = o /\ d = c THEN Null ELSE stalled_input[p][d]
      BY <1>4, <1>6, <2>6
    <3>4. wake' \in 0 .. nb_input_port
      BY <3>1, RouterBeatAssumption
    <3>5. TypesOK'
      <4>1. TypesOK
        BY DEF BeatIInv
      <4>2. /\ burst_table' \in [Slots -> Entry]
            /\ pending' \in [Inputs -> Seq(Beats \X Slots)] /\ pending_bytes' \in [Inputs -> Nat]
            /\ head_cycle' \in [Inputs -> [cur : BOOLEAN, nxt : BOOLEAN]]
            /\ below' \subseteq (Beats \cup {<<Proxy, 1>>}) \X Slots \X Outputs /\ IsFiniteSet(below')
        BY <3>1
      <4>3. stalled' \in [Outputs -> [Channels -> BOOLEAN]]
            /\ stalled_input' \in [Outputs -> [Channels -> Inputs \cup {Null}]]
        BY <3>2, <3>3
      <4> QED
        BY <1>3, <1>4, <3>4, <4>1, <4>2, <4>3 DEF TypesOK
    <3>6. LockOwned'
      BY <1>3, <3>1, Kept_Lock DEF BeatIInv
    <3>7. ASSUME NEW p \in Outputs, NEW d \in Channels, stalled[p][d], stalled_input[p][d] = i
          PROVE  p = o /\ d = c
      <4>1. HeldHead(p, d, i)
        BY <2>1, <2>3, <3>7, StalledWhere
      <4> QED
        BY <2>2, <4>1 DEF HeldHead
    <3>8. StallsOK'
      <4>1. ASSUME NEW p \in Outputs, NEW d \in Channels
            PROVE  \/ /\ stalled'[p][d] = stalled[p][d] /\ stalled_input'[p][d] = stalled_input[p][d]
                      /\ stalled[p][d] => stalled_input[p][d] # i
                   \/ ~stalled'[p][d] /\ stalled_input'[p][d] = Null
        BY <3>2, <3>3, <3>7
      <4> QED
        BY <1>3, <2>1, <3>1, <4>1, GrantedStalls
    <3>9. ProxyOK'
      BY <1>3, <3>1, GrantedProxy
    <3> QED
      BY <1>5, <3>1, <3>5, <3>6, <3>8, <3>9 DEF BeatIInv, StillParts
  <2> QED
    BY <1>2, <1>9, <2>5, <2>6
<1>10. CASE stalled[o][c] /\ i = Null
  BY <1>2, <1>7, <1>10
<1> QED
  BY <1>2, <1>8, <1>9, <1>10

----------------------------------------------------------------------------
(* A slot is freed.                                                        *)

LEMMA SlotUser ==
    ASSUME BeatIInv, NEW s \in Slots, NEW t \in Slots, NEW b \in Bursts \cup {Proxy}, UsedBy(s, b)
    PROVE  /\ \A d : UsedBy(s, d) => d = b
           /\ UsedBy(t, b) => t = s
BY DEF BeatIInv, SlotsOK, UsedBy

LEMMA UsersAre ==
    ASSUME BeatIInv, NEW s \in Slots, NEW b, UsedBy(s, b)
    PROVE  b \in Bursts \cup {Proxy}
BY DEF BeatIInv, SlotsOK, BeatSlotShape, UsedBy

LEMMA FreedTable ==
    ASSUME BeatIInv, NEW s \in Slots, burst_table' = [burst_table EXCEPT ![s] = Freed(s)]
    PROVE  /\ burst_table' \in [Slots -> Entry]
           /\ \A t \in Slots : t # s => burst_table'[t] = burst_table[t]
           /\ ~burst_table'[s].in_use /\ burst_table'[s].pending_master_is_last = <<>>
           /\ \A t \in Slots : \A d : UsedBy(t, d)' <=> UsedBy(t, d) /\ t # s
<1>1. burst_table \in [Slots -> Entry] /\ burst_table[s] \in Entry
  BY DEF BeatIInv, TypesOK
<1>2. burst_table[s].channel \in Channels
  BY <1>1, EntryFields
<1>3. PICK c \in Channels : c = burst_table[s].channel
  BY <1>2
<1>4. Freed(s) = [in_use |-> FALSE, input |-> Null, output_id |-> Null, channel |-> c,
                  original_burst_id |-> Null, pending_master_is_last |-> <<>>]
  <2>1. PICK e : e = <<>>
    OBVIOUS
  <2>2. Free = [in_use |-> FALSE, input |-> Null, output_id |-> Null, channel |-> 0,
                original_burst_id |-> Null, pending_master_is_last |-> e]
    BY <2>1 DEF Free
  <2>3. Freed(s) = [in_use |-> FALSE, input |-> Null, output_id |-> Null, channel |-> c,
                    original_burst_id |-> Null, pending_master_is_last |-> e]
    <3>1. PICK f : f = Free
      OBVIOUS
    <3>2. Freed(s) = [f EXCEPT !.channel = c]
      BY <1>3, <3>1 DEF Freed
    <3>3. f = [in_use |-> FALSE, input |-> Null, output_id |-> Null, channel |-> 0,
               original_burst_id |-> Null, pending_master_is_last |-> e]
      BY <2>2, <3>1
    <3>4. PICK g : g = [f EXCEPT !.channel = c]
      OBVIOUS
    <3>5. g = [in_use |-> FALSE, input |-> Null, output_id |-> Null, channel |-> c,
               original_burst_id |-> Null, pending_master_is_last |-> e]
      BY ONLY <3>3, <3>4
    <3> QED
      BY <3>2, <3>4, <3>5
  <2> QED
    BY <2>1, <2>3
<1>5. Freed(s) \in Entry
  BY <1>4 DEF Entry
<1>6. burst_table'[s] = Freed(s) /\ \A t \in Slots : t # s => burst_table'[t] = burst_table[t]
  BY <1>1
<1>7. burst_table' \in [Slots -> Entry]
  BY <1>1, <1>5
<1>8. ~burst_table'[s].in_use /\ burst_table'[s].pending_master_is_last = <<>>
  BY <1>4, <1>6
<1> QED
  BY <1>6, <1>7, <1>8 DEF UsedBy

(* Nothing of burst b is queued or below once its beat x is answered.      *)
Over(s, b, x) ==
    /\ burst_table' = [burst_table EXCEPT ![s] = Freed(s)] /\ UNCHANGED sent
    /\ Queued' \subseteq Queued /\ \A q \in Queued : q \in Queued' <=> q[1] # x
    /\ \A q \in Queued' : q[1][1] # b
    /\ below' \subseteq below /\ \A y \in below : y \in below' <=> y[1] # x
    /\ \A y \in below' : y[1][1] # b
    /\ \A v \in Beats : master'[v] = IF v = x THEN "idle" ELSE master[v]
    /\ \A j \in Inputs : Fifo(pending'[j], j)

LEMMA FreedParts ==
    ASSUME BeatIInv, NEW s \in Slots, NEW x, NEW b, b = x[1], UsedBy(s, b), Over(s, b, x),
           x \in Beats => master[x] = "granted",
           \A j \in Inputs : /\ active_multi_beat_slot'[j] # s
                             /\ active_multi_beat_slot'[j] # active_multi_beat_slot[j] =>
                                   active_multi_beat_slot[j] = s /\ active_multi_beat_slot'[j] = Null
    PROVE  Rounds' /\ SlotsOK' /\ ActiveOK' /\ FifosOK' /\ BelowOK' /\ PlacesOK' /\ LastsOK'
<1>1. /\ burst_table' = [burst_table EXCEPT ![s] = Freed(s)] /\ sent' = sent
      /\ Queued' \subseteq Queued /\ \A q \in Queued : q \in Queued' <=> q[1] # x
      /\ \A q \in Queued' : q[1][1] # b
      /\ below' \subseteq below /\ \A y \in below : y \in below' <=> y[1] # x
      /\ \A y \in below' : y[1][1] # b
      /\ \A v \in Beats : master'[v] = IF v = x THEN "idle" ELSE master[v]
      /\ \A j \in Inputs : Fifo(pending'[j], j)
  BY DEF Over
<1>2. /\ \A t \in Slots : t # s => burst_table'[t] = burst_table[t]
      /\ ~burst_table'[s].in_use /\ burst_table'[s].pending_master_is_last = <<>>
      /\ \A t \in Slots : \A d : UsedBy(t, d)' <=> UsedBy(t, d) /\ t # s
  BY <1>1, FreedTable
<1>3. b \in Bursts \cup {Proxy}
  BY UsersAre
<1>4. \A t \in Slots : \A d : UsedBy(t, d) /\ t # s => d # b
  BY <1>3, SlotUser
<1>5. /\ \A q \in Queued : q[2] \in Slots /\ UsedBy(q[2], q[1][1])
      /\ \A y \in below : y[2] \in Slots /\ UsedBy(y[2], y[1][1])
  BY QueuedTypes, BelowTypes DEF BeatIInv, FifosOK, BelowOK
<1>6. (\A q \in Queued' : q[2] # s) /\ \A y \in below' : y[2] # s
  BY <1>1, <1>3, <1>5, SlotUser
<1>7. Rounds'
  <2>1. \A v \in Beats : /\ master'[v] \in Marked <=> master[v] \in Marked
                         /\ master'[v] = "granted" => master[v] = "granted"
    BY <1>1 DEF Marked
  <2>2. \A d \in Bursts : <<d, 1>> \in Beats
    BY BeatIs, RouterBeatAssumption
  <2>3. \A d \in Bursts : UnderWay(d)' <=> UnderWay(d)
    BY <1>1, <2>1, <2>2 DEF UnderWay
  <2>4. \A v \in Beats : v[1] \in Bursts
    BY BeatIs
  <2> QED
    BY <1>1, <2>1, <2>2, <2>3, <2>4 DEF BeatIInv, Rounds
<1>8. SlotsOK'
  <2>1. ASSUME NEW t \in Slots, burst_table'[t].in_use PROVE BeatSlotShape(t)'
    <3>1. t # s /\ burst_table'[t] = burst_table[t] /\ burst_table[t].in_use
      BY <1>2, <2>1
    <3>2. BeatSlotShape(t) /\ burst_table[t].original_burst_id # b
      BY <1>4, <3>1 DEF BeatIInv, SlotsOK, UsedBy
    <3>3. \A v \in Beats : v[1] = burst_table[t].original_burst_id => master'[v] = master[v]
      BY <1>1, <3>2
    <3> QED
      BY <1>1, <3>1, <3>2, <3>3 DEF BeatSlotShape
  <2>2. \A t \in Slots : ~burst_table'[t].in_use => burst_table'[t].pending_master_is_last = <<>>
    BY <1>2 DEF BeatIInv, SlotsOK
  <2>3. \A t \in Slots, u \in Slots, d \in Bursts \cup {Proxy} : UsedBy(t, d)' /\ UsedBy(u, d)' => t = u
    BY <1>2 DEF BeatIInv, SlotsOK
  <2> QED
    BY <2>1, <2>2, <2>3 DEF SlotsOK
<1>9. ActiveOK'
  <2>1. ASSUME NEW j \in Inputs, active_multi_beat_slot'[j] # Null
        PROVE  \E d \in Bursts : In[d] = j /\ sent'[d] > 0 /\ UsedBy(active_multi_beat_slot[j], d)'
    <3>1. active_multi_beat_slot'[j] = active_multi_beat_slot[j] /\ active_multi_beat_slot[j] # s
          /\ active_multi_beat_slot[j] \in Slots
      BY <2>1 DEF BeatIInv, TypesOK
    <3>2. PICK d \in Bursts : In[d] = j /\ sent[d] > 0 /\ UsedBy(active_multi_beat_slot[j], d)
      BY <2>1, <3>1 DEF BeatIInv, ActiveOK
    <3>3. PICK t \in Slots : t = active_multi_beat_slot[j] /\ t = active_multi_beat_slot'[j]
      BY <3>1
    <3>4. UsedBy(t, d)'
      BY <1>2, <3>1, <3>2, <3>3
    <3> QED
      BY <1>1, <3>2, <3>3, <3>4 DEF UsedBy
  <2>2. ASSUME NEW d \in Bursts, sent'[d] > 0
        PROVE  active_multi_beat_slot'[In[d]] # Null \/ \A t \in Slots : ~UsedBy(t, d)'
    <3>1. In[d] \in Inputs /\ sent[d] > 0
      BY <1>1, <2>2, RouterBeatAssumption
    <3>2. PICK j \in Inputs : j = In[d]
      BY <3>1
    <3>3. CASE active_multi_beat_slot[j] = Null
      BY <1>2, <3>1, <3>2, <3>3 DEF BeatIInv, ActiveOK
    <3>4. CASE active_multi_beat_slot[j] # Null /\ active_multi_beat_slot[j] # s
      BY <3>2, <3>4
    <3>5. CASE active_multi_beat_slot[j] = s
      <4>1. PICK e \in Bursts : In[e] = j /\ sent[e] > 0 /\ UsedBy(s, e)
        BY <3>5, Nothing DEF BeatIInv, ActiveOK
      <4>2. e = b
        BY <1>3, <4>1, SlotUser
      <4>3. d = e
        <5>1. NbBeats[d] > 1 /\ NbBeats[e] > 1
          BY <3>1, <4>1, BegunLong DEF BeatIInv
        <5>2. UnderWay(d) /\ UnderWay(e)
          BY <3>1, <4>1 DEF UnderWay
        <5> QED
          BY <3>2, <4>1, <5>1, <5>2 DEF BeatIInv, Rounds
      <4> QED
        BY <1>2, <1>4, <4>2, <4>3
    <3> QED
      BY <3>2, <3>3, <3>4, <3>5
  <2> QED
    BY <2>1, <2>2 DEF ActiveOK, UsedBy
<1>10. FifosOK'
  <2>1. \A q \in Queued' : UsedBy(q[2], q[1][1])'
    BY <1>1, <1>2, <1>5, <1>6
  <2>2. ASSUME NEW q \in Queued', q[1][2] < NbBeats[q[1][1]],
               q[1][2] < sent'[q[1][1]] \/ sent'[q[1][1]] = 0
        PROVE  <<<<q[1][1], q[1][2] + 1>>, q[2]>> \in Queued'
    <3>1. PICK p : p = <<<<q[1][1], q[1][2] + 1>>, q[2]>>
      OBVIOUS
    <3>2. p \in Queued
      BY <1>1, <2>2, <3>1 DEF BeatIInv, FifosOK
    <3>3. p[1][1] = q[1][1] /\ q[1][1] # b
      BY <1>1, <3>1
    <3>4. p[1] # x
      BY <3>3
    <3> QED
      BY <1>1, <3>1, <3>2, <3>4
  <2>3. \A j \in Inputs : Fifo(pending[j], j)'
    BY <1>1 DEF Fifo
  <2> QED
    BY <2>1, <2>2, <2>3 DEF FifosOK
<1>11. BelowOK'
  <2>1. ASSUME NEW y \in below' PROVE UsedBy(y[2], y[1][1])' /\ burst_table'[y[2]].output_id = y[3]
    <3>1. y \in below /\ y[2] # s /\ y[2] \in Slots
      BY <1>1, <1>5, <1>6
    <3> QED
      BY <1>2, <3>1 DEF BeatIInv, BelowOK
  <2> QED
    BY <1>1, <2>1 DEF BeatIInv, BelowOK
<1>12. PlacesOK'
  <2>1. \A q \in Queued' : q[1] # x /\ q[1] \in Beats /\ q \in Queued
    BY <1>1, QueuedTypes DEF BeatIInv
  <2>2. \A y \in below' : y[1] # x /\ (y[1][1] # Proxy => y[1] \in Beats) /\ y \in below
    BY <1>1, BelowTypes DEF BeatIInv
  <2>3. ASSUME NEW v \in Beats, master'[v] = "granted"
        PROVE  (\E q \in Queued' : q[1] = v) \/ (\E y \in below' : y[1] = v)
    <3>1. v # x /\ master[v] = "granted"
      BY <1>1, <2>3
    <3>2. (\E q \in Queued : q[1] = v) \/ (\E y \in below : y[1] = v)
      BY <3>1 DEF BeatIInv, PlacesOK
    <3> QED
      BY <1>1, <3>1, <3>2
  <2> QED
    BY <1>1, <2>1, <2>2, <2>3 DEF BeatIInv, PlacesOK
<1>13. LastsOK'
  <2> DEFINE lasts(t) == burst_table[t].pending_master_is_last
  <2>1. ASSUME NEW t \in Slots, t # s
        PROVE  /\ Len(lasts(t)') = Cardinality(Mine(t)')
               /\ \A k \in 1 .. Len(lasts(t)') :
                     lasts(t)'[k] <=> k = Len(lasts(t)') /\ AllForwarded(burst_table[t].original_burst_id)'
    <3>1. burst_table'[t] = burst_table[t]
      BY <1>2, <2>1
    <3>2. Mine(t)' = Mine(t)
      <4>1. \A y \in below : y[1] = x => y[2] = s
        BY <1>3, <1>4, <1>5
      <4>2. \A y \in below : y[2] = t => y \in below'
        BY <1>1, <2>1, <4>1
      <4> QED
        BY <1>1, <4>2 DEF Mine, At
    <3>3. ASSUME NEW k \in 1 .. Len(lasts(t))
          PROVE  lasts(t)[k] <=> k = Len(lasts(t)) /\ AllForwarded(burst_table[t].original_burst_id)'
      <4>1. PICK d : d = burst_table[t].original_burst_id
        OBVIOUS
      <4>2. burst_table[t].in_use
        BY <3>3 DEF BeatIInv, SlotsOK
      <4>3. d # b
        BY <1>4, <2>1, <4>1, <4>2 DEF UsedBy
      <4>4. AllForwarded(d)' <=> AllForwarded(d)
        <5>1. \A q \in Queued : q[1][1] = d => q \in Queued'
          BY <1>1, <4>3
        <5> QED
          BY <1>1, <5>1 DEF AllForwarded
      <4>5. burst_table'[t].original_burst_id = d
        BY <3>1, <4>1
      <4>6. lasts(t)[k] <=> k = Len(lasts(t)) /\ AllForwarded(d)
        BY <3>3, <4>1 DEF BeatIInv, LastsOK
      <4> QED
        BY <4>4, <4>5, <4>6
    <3> QED
      BY <3>1, <3>2, <3>3 DEF BeatIInv, LastsOK
  <2>2. Len(lasts(s)') = Cardinality(Mine(s)') /\ Len(lasts(s)') = 0
    <3>1. Mine(s)' = {}
      BY <1>6 DEF Mine, At
    <3> QED
      BY <1>2, <3>1, FS_EmptySet
  <2>3. \A k \in 1 .. Len(lasts(s)') : FALSE
    BY <2>2
  <2> QED
    BY <2>1, <2>2, <2>3 DEF LastsOK
<1> QED
  BY <1>7, <1>8, <1>9, <1>10, <1>11, <1>12, <1>13

(* The locks and the stalls.                                               *)
LEMMA FreedChannels ==
    ASSUME BeatIInv, NEW s \in Slots, burst_table' = [burst_table EXCEPT ![s] = Freed(s)],
           \A q \in Queued' : q[2] # s, UNCHANGED <<stalled, stalled_input>>, UNCHANGED <<pst, pcmd>>,
           \A j \in Inputs : pending'[j] = pending[j] \/ (pending[j] # <<>> /\ HeadSlot(j) = s),
           \A j \in Inputs : pending'[j] # pending[j] => burst_table[s].output_id = Null,
           \A o \in Outputs, c \in Channels :
              /\ elected_input'[o][c] \in {Null, elected_input[o][c]}
              /\ elected_input'[o][c] # Null =>
                    burst_table[s].output_id # o \/ burst_table[s].channel # c
    PROVE  LockOwned' /\ StallsOK'
<1>1. \A t \in Slots : t # s => burst_table'[t] = burst_table[t]
  BY FreedTable
<1>2. LockOwned'
  <2>1. ASSUME NEW p \in Outputs, NEW d \in Channels, elected_input'[p][d] # Null
        PROVE  \E t \in Slots : /\ burst_table'[t].in_use /\ burst_table'[t].channel = d
                                /\ burst_table'[t].input = elected_input'[p][d]
                                /\ burst_table'[t].output_id = p
    <3>1. elected_input'[p][d] = elected_input[p][d]
      BY <2>1
    <3>2. PICK t \in Slots : /\ burst_table[t].in_use /\ burst_table[t].channel = d
                             /\ burst_table[t].input = elected_input[p][d]
                             /\ burst_table[t].output_id = p
      BY <2>1, <3>1 DEF BeatIInv, LockOwned
    <3>3. t # s
      BY <2>1, <3>2
    <3> QED
      BY <1>1, <3>1, <3>2, <3>3
  <2> QED
    BY <2>1 DEF LockOwned
<1>3. StallsOK'
  <2>1. ASSUME NEW p \in Outputs, NEW d \in Channels PROVE StallRight(p, d)'
    <3>1. StallRight(p, d)
      BY StallsAre DEF BeatIInv
    <3>2. UNCHANGED stalled /\ UNCHANGED stalled_input /\ UNCHANGED pst /\ UNCHANGED pcmd
      OBVIOUS
    <3>3. ASSUME NEW j \in Inputs, HeldHead(p, d, j) PROVE HeldHead(p, d, j)'
      <4>1. pending[j] # <<>> /\ burst_table[HeadSlot(j)].output_id = p /\ p # Null
        BY <3>3, Nothing DEF HeldHead
      <4>2. pending'[j] = pending[j]
        BY <4>1
      <4>3. HeadSlot(j)' = HeadSlot(j) /\ Head(pending[j]) \in Queued'
        <5>1. Head(pending[j]) = pending[j][1] /\ 1 \in DOMAIN pending[j]
          <6>1. pending[j] \in Seq(Beats \X Slots)
            BY DEF BeatIInv, TypesOK
          <6> QED
            BY <4>1, <6>1, SeqPlaces
        <5>2. PICK h : h = Head(pending[j])
          OBVIOUS
        <5>3. h \in Queued'
          <6>1. h \in Queued' <=> \E k \in Inputs : \E m \in DOMAIN pending'[k] : h = pending'[k][m]
            BY ONLY QueuedIs
          <6> QED
            BY <4>2, <5>1, <5>2, <6>1
        <5> QED
          BY <4>2, <5>2, <5>3 DEF HeadSlot
      <4>4. HeadSlot(j) \in Slots /\ HeadSlot(j) # s
        BY <4>1, <4>3, HeadQueued DEF HeadSlot, BeatIInv
      <4> QED
        BY <1>1, <3>3, <4>2, <4>3, <4>4 DEF HeldHead
    <3>4. CASE stalled_input[p][d] = Null
      BY <3>1, <3>2, <3>4 DEF StallRight
    <3>5. CASE stalled_input[p][d] # Null
      <4>1. PICK j \in Inputs : j = stalled_input[p][d]
        BY <3>5, StallInput DEF BeatIInv
      <4>2. stalled[p][d] /\ HeldHead(p, d, j)
        BY <3>1, <3>5, <4>1 DEF StallRight
      <4>3. HeldHead(p, d, j)'
        BY <3>3, <4>2
      <4> QED
        BY <3>2, <3>5, <4>1, <4>2, <4>3 DEF StallRight, HeldHead, HeadSlot
    <3> QED
      BY <3>4, <3>5
  <2> QED
    BY <2>1, StallsAre
<1> QED
  BY <1>2, <1>3

(* The beats of a burst that decodes to nothing are queued one at a time.  *)
LEMMA InvalidOnce ==
    ASSUME BeatIInv, InvalidAlone, NEW i \in Inputs, pending[i] # <<>>, Output(i) = Invalid
    PROVE  \A q \in Queued : q[1][1] = HeadBeat(i)[1] => q = Head(pending[i])
<1>1. ASSUME NEW q \in Queued, q[1][1] = HeadBeat(i)[1], q # Head(pending[i]) PROVE FALSE
  <2>1. PICK x, b : x = HeadBeat(i) /\ b = x[1]
    OBVIOUS
  <2>2. /\ b \in Bursts /\ x \in Beats /\ In[b] = i /\ Dest[b] = Invalid
    BY <2>1, HeadQueued, OutputIs DEF BeatIInv
  <2>3. q[1][2] > x[2] /\ x[2] \in 1 .. NbBeats[b] /\ q[1][2] \in 1 .. NbBeats[b]
        /\ NbBeats[b] \in Nat \ {0} /\ q[1][1] = b
    BY <1>1, <2>1, <2>2, HeadFirst, QueuedTypes, BeatIs DEF BeatIInv
  <2>4. NbBeats[b] > 1
    BY <2>3
  <2>5. Write[b] /\ 2 * BeatSize[b] > max_input_pending_size
    BY <2>2, <2>4 DEF InvalidAlone
  <2>6. PICK j \in Inputs : \E m \in DOMAIN pending[j] : q = pending[j][m]
    BY QueuedIs
  <2>7. PICK m \in DOMAIN pending[j] : q = pending[j][m]
    BY <2>6
  <2>8. j = i
    BY <2>2, <2>3, <2>7 DEF BeatIInv, FifosOK, Fifo
  <2>9. PICK p, n : p = pending[i] /\ n = pending_bytes[i]
    OBVIOUS
  <2>10. /\ p \in Seq(Beats \X Slots) /\ p # <<>> /\ Counted(p, n) /\ n <= max_input_pending_size
         /\ m \in DOMAIN p /\ q = p[m]
    BY <2>7, <2>8, <2>9 DEF BeatIInv, TypesOK, BytesOK
  <2>11. Head(pending[i]) = p[1] /\ x = p[1][1]
    BY <2>1, <2>9, HeadIs DEF BeatIInv
  <2>12. m # 1
    BY <1>1, <2>10, <2>11
  <2>13. PICK t : t = Tail(p)
    OBVIOUS
  <2>14. n \in Nat /\ \A k \in DOMAIN p : k # 1 => n >= Cost(p, 1) + Cost(p, k)
    BY ONLY <2>10, <2>13, CountedLeaves
  <2>15. Cost(p, 1) = BeatSize[b] /\ Cost(p, m) = BeatSize[b] /\ BeatSize[b] \in Nat
    BY <2>1, <2>2, <2>3, <2>5, <2>10, <2>11, RouterBeatAssumption DEF Cost, fifo_cost
  <2> QED
    BY <2>5, <2>10, <2>12, <2>14, <2>15, RouterBeatAssumption
<1> QED
  BY <1>1

LEMMA Keep_FsmInvalid ==
    ASSUME BeatIInv, InvalidAlone, NEW i \in Inputs, FsmInvalid(i)
    PROVE  BeatIInv'
<1>1. PICK x, b, s, h : x = HeadBeat(i) /\ b = x[1] /\ s = HeadSlot(i) /\ h = Head(pending[i])
  OBVIOUS
<1>2. /\ Turn(i) /\ pending[i] # <<>> /\ Output(i) = Invalid /\ Pop(i)
      /\ burst_table' = [burst_table EXCEPT ![s] = Freed(s)]
      /\ active_multi_beat_slot' = [active_multi_beat_slot EXCEPT ![i] = Closed(i, s)]
      /\ Answer(i, x) /\ cb' = i /\ wake' = 0 /\ handler' = Next_input
  BY <1>1 DEF FsmInvalid, Visible
<1>3. /\ UNCHANGED elected_input /\ UNCHANGED <<stalled, stalled_input>> /\ UNCHANGED pvars
      /\ UNCHANGED <<pst, pcmd>> /\ UNCHANGED <<proxy_retry_waiter, waiter, pst, pcmd>>
      /\ UNCHANGED <<denied_upstream, round_robin_next, fsm_event, below, sent>>
  BY DEF FsmInvalid, svars, pvars
<1>4. /\ h \in Queued /\ h[1] = x /\ h[2] = s /\ h = <<x, s>> /\ s \in Slots /\ x \in Beats
      /\ b \in Bursts /\ UsedBy(s, b) /\ In[b] = i /\ b # Proxy
  BY <1>1, <1>2, HeadIs, HeadQueued, Nothing DEF BeatIInv
<1>5. burst_table[s].output_id = Null
  BY <1>1, <1>2, OutputIs
<1>6. /\ pending' \in [Inputs -> Seq(Beats \X Slots)] /\ pending_bytes' \in [Inputs -> Nat]
      /\ head_cycle' \in [Inputs -> [cur : BOOLEAN, nxt : BOOLEAN]]
      /\ Queued' = Queued \ {h}
      /\ \A j \in Inputs : j # i => pending'[j] = pending[j]
      /\ \A j \in Inputs : Fifo(pending'[j], j)
      /\ BytesOK'
  BY <1>1, <1>2, Popped
<1>7. \A q \in Queued : q[1][1] = b => q = h
  BY <1>1, <1>2, InvalidOnce
<1>8. \A y \in below : y[1][1] # b /\ y[1] # x
  <2>1. ASSUME NEW y \in below, y[1][1] = b PROVE FALSE
    <3>1. UsedBy(y[2], b) /\ burst_table[y[2]].output_id = y[3] /\ y[3] # Null /\ y[2] \in Slots
      BY <2>1, BelowTypes DEF BeatIInv, BelowOK
    <3>2. y[2] = s
      BY <1>4, <3>1, SlotUser
    <3> QED
      BY <1>5, <3>1, <3>2
  <2> QED
    BY <1>1, <2>1
<1>9. master[x] = "granted"
  BY <1>4 DEF BeatIInv, PlacesOK
<1>10. /\ master' \in [Beats -> {"idle", "denied", "retrying", "granted"}]
       /\ \A v \in Beats : master'[v] = IF v = x THEN "idle" ELSE master[v]
  <2>1. master' = [master EXCEPT ![x] = "idle"]
    BY <1>1, <1>2, <1>4, <1>9 DEF Answer, Becomes
  <2>2. master \in [Beats -> {"idle", "denied", "retrying", "granted"}]
    BY DEF BeatIInv, TypesOK
  <2> QED
    BY <1>4, <2>1, <2>2
<1>11. /\ active_multi_beat_slot' \in [Inputs -> Slots \cup {Null}]
       /\ \A j \in Inputs : /\ active_multi_beat_slot'[j] # s
                            /\ active_multi_beat_slot'[j] # active_multi_beat_slot[j] =>
                                  active_multi_beat_slot[j] = s /\ active_multi_beat_slot'[j] = Null
  <2>1. active_multi_beat_slot \in [Inputs -> Slots \cup {Null}]
    BY DEF BeatIInv, TypesOK
  <2>2. s # Null
    BY <1>4, Nothing
  <2>3. \A j \in Inputs : j # i => active_multi_beat_slot[j] # s
    <3>1. ASSUME NEW j \in Inputs, j # i, active_multi_beat_slot[j] = s PROVE FALSE
      <4>1. PICK d \in Bursts : In[d] = j /\ UsedBy(s, d)
        BY <2>2, <3>1 DEF BeatIInv, ActiveOK
      <4>2. d = b
        BY <1>4, <4>1, SlotUser
      <4> QED
        BY <1>4, <3>1, <4>1, <4>2
    <3> QED
      BY <3>1
  <2>4. /\ active_multi_beat_slot' \in [Inputs -> Slots \cup {Null}]
        /\ active_multi_beat_slot'[i] = IF active_multi_beat_slot[i] = s THEN Null ELSE active_multi_beat_slot[i]
        /\ \A j \in Inputs : j # i => active_multi_beat_slot'[j] = active_multi_beat_slot[j]
    <3>1. Closed(i, s) = IF active_multi_beat_slot[i] = s THEN Null ELSE active_multi_beat_slot[i]
      BY DEF Closed
    <3> QED
      BY <1>2, <2>1, <3>1
  <2> QED
    BY <2>2, <2>3, <2>4
<1>12. Over(s, b, x)
  <2>1. \A q \in Queued : q \in Queued' <=> q[1] # x
    BY <1>1, <1>4, <1>6, <1>7
  <2>2. \A q \in Queued' : q[1][1] # b
    BY <1>6, <1>7
  <2>3. below' = below /\ sent' = sent
    BY <1>3
  <2> QED
    BY <1>2, <1>6, <1>8, <1>10, <2>1, <2>2, <2>3 DEF Over
<1>13. Rounds' /\ SlotsOK' /\ ActiveOK' /\ FifosOK' /\ BelowOK' /\ PlacesOK' /\ LastsOK'
  BY ONLY BeatIInv, <1>1, <1>4, <1>9, <1>11, <1>12, FreedParts
<1>14. LockOwned' /\ StallsOK'
  <2>1. \A q \in Queued' : q[2] # s
    <3>1. ASSUME NEW q \in Queued', q[2] = s PROVE FALSE
      <4>1. UsedBy(s, q[1][1]) /\ q \in Queued /\ q # h
        BY <1>6, <3>1 DEF BeatIInv, FifosOK
      <4>2. q[1][1] = b
        BY <1>4, <4>1, SlotUser
      <4> QED
        BY <1>7, <4>1, <4>2
    <3> QED
      BY <3>1
  <2>2. \A j \in Inputs : pending'[j] = pending[j] \/ (pending[j] # <<>> /\ HeadSlot(j) = s)
    BY <1>1, <1>2, <1>6
  <2>3. \A o \in Outputs, c \in Channels :
              /\ elected_input'[o][c] \in {Null, elected_input[o][c]}
              /\ elected_input'[o][c] # Null =>
                    burst_table[s].output_id # o \/ burst_table[s].channel # c
    BY <1>3, <1>5, Nothing
  <2>4. \A j \in Inputs : pending'[j] # pending[j] => burst_table[s].output_id = Null
    BY <1>5
  <2> QED
    BY <1>2, <1>3, <1>4, <2>1, <2>2, <2>3, <2>4, FreedChannels
<1>15. TypesOK'
  <2>1. burst_table' \in [Slots -> Entry]
    BY <1>2, <1>4, FreedTable
  <2>2. handler' \in Handlers
    BY <1>2, FsmMoves DEF BeatIInv, TypesOK, Turn
  <2>3. wake' \in 0 .. nb_input_port /\ cb' \in Inputs \cup {Null}
    BY <1>2, RouterBeatAssumption
  <2> QED
    BY <1>3, <1>6, <1>10, <1>11, <2>1, <2>2, <2>3 DEF BeatIInv, TypesOK
<1>16. Flags'
  <2>1. \A v \in Beats : master[v] # "retrying"
    <3>1. cb = Null /\ \A v \in Beats : In[v[1]] \in Inputs
      BY <1>2, BeatIs, RouterBeatAssumption DEF Turn, Running
    <3> QED
      BY <3>1, Nothing DEF BeatIInv, Flags
  <2>2. \A v \in Beats : /\ master'[v] # "retrying"
                         /\ master'[v] = "denied" <=> master[v] = "denied"
    BY <1>9, <1>10, <2>1
  <2> QED
    BY <1>3, <2>2 DEF BeatIInv, Flags
<1>17. ProxyOK'
  <2>1. \A t \in Slots : UsedBy(t, Proxy)' => UsedBy(t, Proxy)
    BY <1>2, <1>4, FreedTable
  <2> QED
    BY <1>3, <2>1 DEF BeatIInv, ProxyOK
<1> QED
  BY <1>6, <1>13, <1>14, <1>15, <1>16, <1>17 DEF BeatIInv


----------------------------------------------------------------------------
(* The last beat of an answer.                                             *)

LEMMA LastAnswer ==
    ASSUME BeatIInv, NEW y \in below, NEW x, x = y[1], NEW b, b = x[1], NEW s, s = y[2],
           NEW lasts, lasts = burst_table[s].pending_master_is_last
    PROVE  /\ s \in Slots /\ b \in Bursts \cup {Proxy} /\ UsedBy(s, b)
           /\ burst_table[s].output_id = y[3] /\ y[3] \in Outputs /\ burst_table[s].channel \in Channels
           /\ b = Proxy => x = <<Proxy, 1>> /\ burst_table[s].input = Null
           /\ b # Proxy => /\ b \in Bursts /\ x \in Beats /\ master[x] = "granted"
                           /\ In[b] \in Inputs /\ burst_table[s].input = In[b]
           /\ lasts \in Seq(BOOLEAN) /\ Len(lasts) = Cardinality(Mine(s)) /\ lasts # <<>>
           /\ y \in Mine(s) /\ IsFiniteSet(Mine(s))
           /\ \A k \in 1 .. Len(lasts) : lasts[k] <=> k = Len(lasts) /\ AllForwarded(b)
           /\ BurstDone(s) <=> Mine(s) = {y} /\ AllForwarded(b)
<1>1. /\ y[1] \in Beats \cup {<<Proxy, 1>>} /\ s \in Slots /\ y[3] \in Outputs
      /\ b # Proxy => x \in Beats /\ b \in Bursts
      /\ b = Proxy => x = <<Proxy, 1>>
  BY BelowTypes DEF BeatIInv
<1>2. UsedBy(s, b) /\ burst_table[s].output_id = y[3]
  BY DEF BeatIInv, BelowOK
<1>3. b \in Bursts \cup {Proxy} /\ burst_table[s] \in Entry
  BY <1>1 DEF BeatIInv, TypesOK
<1>4. burst_table[s].channel \in Channels /\ lasts \in Seq(BOOLEAN)
  BY <1>3, EntryFields
<1>5. b = Proxy => burst_table[s].input = Null
  BY <1>1, <1>2, Nothing DEF BeatIInv, SlotsOK, BeatSlotShape, UsedBy
<1>6. b # Proxy => burst_table[s].input = In[b] /\ In[b] \in Inputs /\ master[x] = "granted"
  BY <1>1, <1>2, Nothing, RouterBeatAssumption DEF BeatIInv, SlotsOK, BeatSlotShape, UsedBy, PlacesOK
<1>7. y \in Mine(s) /\ IsFiniteSet(Mine(s))
  <2>1. Mine(s) \subseteq below /\ IsFiniteSet(below)
    BY DEF Mine, At, BeatIInv, TypesOK
  <2> QED
    BY <2>1, FS_Subset DEF Mine, At
<1>8. /\ Len(lasts) = Cardinality(Mine(s))
      /\ \A k \in 1 .. Len(lasts) : lasts[k] <=> k = Len(lasts) /\ AllForwarded(b)
  BY <1>1, <1>2 DEF BeatIInv, LastsOK, UsedBy
<1>9. lasts # <<>> /\ Len(lasts) \in Nat \ {0} /\ Head(lasts) = lasts[1]
  <2>1. Cardinality(Mine(s)) # 0
    BY <1>7, FS_EmptySet
  <2>2. Len(lasts) # 0
    BY <1>8, <2>1
  <2> QED
    BY <1>4, <2>2
<1>10. BurstDone(s) <=> Mine(s) = {y} /\ AllForwarded(b)
  <2>1. BurstDone(s) <=> lasts[1]
    BY <1>9 DEF BurstDone
  <2>2. BurstDone(s) <=> 1 = Len(lasts) /\ AllForwarded(b)
    BY <1>8, <1>9, <2>1
  <2>3. Cardinality(Mine(s)) = 1 <=> Mine(s) = {y}
    BY <1>7, FS_Singleton
  <2> QED
    BY <1>8, <2>2, <2>3
<1> QED
  BY <1>1, <1>2, <1>3, <1>4, <1>5, <1>6, <1>7, <1>8, <1>9, <1>10

(* The burst is over.                                                      *)
LEMMA Keep_RespDone ==
    ASSUME BeatIInv, NEW y \in below, RespLast(y), BurstDone(y[2])
    PROVE  BeatIInv'
<1>1. PICK x, b, s, c, i : /\ x = y[1] /\ b = x[1] /\ s = y[2]
                           /\ c = burst_table[s].channel /\ i = burst_table[s].input
  OBVIOUS
<1>2. /\ s \in Slots /\ b \in Bursts \cup {Proxy} /\ UsedBy(s, b)
      /\ burst_table[s].output_id = y[3] /\ y[3] \in Outputs /\ c \in Channels
      /\ b = Proxy => x = <<Proxy, 1>> /\ i = Null
      /\ b # Proxy => b \in Bursts /\ x \in Beats /\ master[x] = "granted" /\ i = In[b] /\ i \in Inputs
      /\ Mine(s) = {y} /\ AllForwarded(b)
  BY ONLY BeatIInv, y \in below, BurstDone(y[2]), <1>1, LastAnswer, SMTT(30)
<1>3. /\ Quiet /\ below' = below \ {y}
      /\ burst_table' = [burst_table EXCEPT ![s] = Freed(s)]
      /\ elected_input' = Unlocked(y[3], c)
      /\ i = Null => waiter' = "Replied" /\ UNCHANGED <<master, cb, handler, wake>>
      /\ i # Null => /\ Answer(i, x) /\ cb' = i /\ handler' = [kind |-> "resp"] /\ wake' = 0
                     /\ waiter' = waiter
  BY <1>1 DEF RespLast, LastGone, notify_replied
<1>4. /\ UNCHANGED <<stalled, stalled_input>> /\ UNCHANGED <<pst, pcmd>> /\ UNCHANGED <<pending, pending_bytes>>
      /\ UNCHANGED <<head_cycle, active_multi_beat_slot, denied_upstream, round_robin_next, fsm_event>>
      /\ UNCHANGED <<sent, proxy_retry_waiter>>
  BY DEF RespLast, svars, ivars
<1>5. b = Proxy <=> i = Null
  BY <1>2, Nothing
<1>6. /\ master' \in [Beats -> {"idle", "denied", "retrying", "granted"}]
      /\ \A v \in Beats : master'[v] = IF v = x THEN "idle" ELSE master[v]
  <2>1. master \in [Beats -> {"idle", "denied", "retrying", "granted"}]
    BY DEF BeatIInv, TypesOK
  <2>2. CASE b = Proxy
    <3>1. \A v \in Beats : v # x
      BY <1>2, <2>2, BeatIs
    <3> QED
      BY <1>3, <1>5, <2>1, <2>2, <3>1
  <2>3. CASE b # Proxy
    <3>1. master' = [master EXCEPT ![x] = "idle"]
      BY <1>1, <1>2, <1>3, <1>5, <2>3 DEF Answer, Becomes
    <3> QED
      BY <1>2, <2>1, <2>3, <3>1
  <2> QED
    BY <2>2, <2>3
<1>7. \A q \in Queued : q[1][1] # b /\ q[1] # x
  BY <1>1, <1>2, QueuedTypes, Nothing DEF AllForwarded, BeatIInv, PlacesOK
<1>8. \A j \in Inputs : active_multi_beat_slot[j] # s
  <2>1. ASSUME NEW j \in Inputs, active_multi_beat_slot[j] = s PROVE FALSE
    <3>1. PICK d \in Bursts : sent[d] > 0 /\ UsedBy(s, d)
      BY <1>2, <2>1, Nothing DEF BeatIInv, ActiveOK
    <3>2. d = b
      BY <1>2, <3>1, SlotUser
    <3> QED
      BY <1>2, <3>1, <3>2, Nothing DEF AllForwarded
  <2> QED
    BY <2>1
<1>9. Queued' = Queued
  BY <1>4, QueuedKept
<1>10. \A z \in below : /\ z \in below' <=> z[1] # x
                        /\ z \in below' => z[1][1] # b
  <2>1. \A z \in below : z[1] = x => z = y
    BY <1>1 DEF BeatIInv, BelowOK
  <2>2. ASSUME NEW z \in below', z[1][1] = b PROVE FALSE
    <3>1. UsedBy(z[2], b) /\ z[2] \in Slots /\ z \in below /\ z # y
      BY <1>3, <2>2, BelowTypes DEF BeatIInv, BelowOK
    <3>2. z[2] = s
      BY <1>2, <3>1, SlotUser
    <3>3. z \in Mine(s)
      BY <3>1, <3>2 DEF Mine, At
    <3> QED
      BY <1>2, <3>1, <3>3
  <2> QED
    BY <1>1, <1>3, <2>1, <2>2
<1>11. Over(s, b, x)
  <2>1. \A j \in Inputs : Fifo(pending'[j], j)
    BY <1>4 DEF BeatIInv, FifosOK
  <2> QED
    BY <1>3, <1>4, <1>6, <1>7, <1>9, <1>10, <2>1 DEF Over
<1>12. Rounds' /\ SlotsOK' /\ ActiveOK' /\ FifosOK' /\ BelowOK' /\ PlacesOK' /\ LastsOK'
  <2>1. \A j \in Inputs : /\ active_multi_beat_slot'[j] # s
                          /\ active_multi_beat_slot'[j] # active_multi_beat_slot[j] =>
                                active_multi_beat_slot[j] = s /\ active_multi_beat_slot'[j] = Null
    BY <1>4, <1>8
  <2>2. x \in Beats => master[x] = "granted"
    BY <1>2, BeatIs
  <2> QED
    BY ONLY BeatIInv, <1>1, <1>2, <1>11, <2>1, <2>2, FreedParts
<1>13. /\ elected_input' \in [Outputs -> [Channels -> Inputs \cup {Null}]]
       /\ \A o \in Outputs, d \in Channels :
             elected_input'[o][d] = IF o = y[3] /\ d = c THEN Null ELSE elected_input[o][d]
  <2>1. elected_input \in [Outputs -> [Channels -> Inputs \cup {Null}]]
    BY DEF BeatIInv, TypesOK
  <2>2. elected_input' = [elected_input EXCEPT ![y[3]][c] = Null]
    BY <1>3 DEF Unlocked
  <2> QED
    BY <1>2, <2>1, <2>2
<1>14. LockOwned' /\ StallsOK'
  <2>1. \A q \in Queued' : q[2] # s
    <3>1. ASSUME NEW q \in Queued, q[2] = s PROVE FALSE
      <4>1. UsedBy(s, q[1][1])
        BY <3>1 DEF BeatIInv, FifosOK
      <4> QED
        BY <1>2, <1>7, <3>1, <4>1, SlotUser
    <3> QED
      BY <1>9, <3>1
  <2>2. \A j \in Inputs : pending'[j] = pending[j]
    BY <1>4
  <2>3. \A o \in Outputs, d \in Channels :
              /\ elected_input'[o][d] \in {Null, elected_input[o][d]}
              /\ elected_input'[o][d] # Null =>
                    burst_table[s].output_id # o \/ burst_table[s].channel # d
    BY <1>1, <1>2, <1>13
  <2> QED
    BY <1>2, <1>3, <1>4, <2>1, <2>2, <2>3, FreedChannels
<1>15. TypesOK'
  <2>1. burst_table' \in [Slots -> Entry]
    BY <1>2, <1>3, FreedTable
  <2>2. handler' \in Handlers /\ wake' \in 0 .. nb_input_port /\ cb' \in Inputs \cup {Null}
        /\ waiter' \in {"Pending", "Replied", "Retry"}
    <3>1. handler \in Handlers /\ wake \in 0 .. nb_input_port /\ cb \in Inputs \cup {Null}
          /\ waiter \in {"Pending", "Replied", "Retry"}
      BY DEF BeatIInv, TypesOK
    <3>2. CASE i = Null
      BY <1>3, <3>1, <3>2
    <3>3. CASE i # Null
      BY <1>2, <1>3, <1>5, <3>1, <3>3, HandlersAre, RouterBeatAssumption
    <3> QED
      BY <3>2, <3>3
  <2>3. /\ below' \subseteq (Beats \cup {<<Proxy, 1>>}) \X Slots \X Outputs /\ IsFiniteSet(below')
    BY <1>3, FS_Subset DEF BeatIInv, TypesOK
  <2> QED
    BY <1>4, <1>6, <1>13, <2>1, <2>2, <2>3 DEF BeatIInv, TypesOK
<1>16. Flags'
  <2>1. \A v \in Beats : master[v] # "retrying"
    <3>1. cb = Null /\ \A v \in Beats : In[v[1]] \in Inputs
      BY <1>3, BeatIs, RouterBeatAssumption DEF Quiet, Running
    <3> QED
      BY <3>1, Nothing DEF BeatIInv, Flags
  <2>2. \A v \in Beats : /\ master'[v] # "retrying"
                         /\ master'[v] = "denied" <=> master[v] = "denied"
    <3>1. x \in Beats => master[x] = "granted"
      BY <1>2, BeatIs
    <3> QED
      BY <1>6, <2>1, <3>1
  <2> QED
    BY <1>4, <2>2 DEF BeatIInv, Flags
<1>17. ProxyOK'
  <2>1. \A t \in Slots : UsedBy(t, Proxy)' <=> UsedBy(t, Proxy) /\ t # s
    BY <1>2, <1>3, FreedTable
  <2>2. CASE b = Proxy
    <3>1. \A t \in Slots : ~UsedBy(t, Proxy)'
      BY <1>2, <2>1, <2>2, SlotUser
    <3>2. pst = "wait_reply" /\ waiter' = "Replied"
      BY <1>2, <1>3, <1>5, <2>2 DEF BeatIInv, ProxyOK
    <3> QED
      BY <1>4, <3>1, <3>2 DEF BeatIInv, ProxyOK
  <2>3. CASE b # Proxy
    <3>1. waiter' = waiter
      BY <1>3, <1>5, <2>3
    <3>2. \A z \in below : z[1][1] = Proxy => z \in below'
      BY <1>1, <1>3, <2>3
    <3> QED
      BY <1>4, <2>1, <3>1, <3>2 DEF BeatIInv, ProxyOK
  <2> QED
    BY <2>2, <2>3
<1>18. BytesOK'
  BY <1>4, Kept_Bytes DEF BeatIInv
<1> QED
  BY <1>12, <1>14, <1>15, <1>16, <1>17, <1>18 DEF BeatIInv

(* The burst is not over: another beat of it is below, queued or to come.  *)
LEMMA Keep_RespNotDone ==
    ASSUME BeatIInv, NEW y \in below, RespLast(y), ~BurstDone(y[2])
    PROVE  BeatIInv'
<1>1. PICK x, b, s, l : /\ x = y[1] /\ b = x[1] /\ s = y[2]
                        /\ l = burst_table[s].pending_master_is_last
  OBVIOUS
<1>2. /\ s \in Slots /\ b \in Bursts \cup {Proxy} /\ UsedBy(s, b)
      /\ burst_table[s].output_id = y[3] /\ y[3] \in Outputs
      /\ b = Proxy => x = <<Proxy, 1>>
      /\ b # Proxy => b \in Bursts /\ x \in Beats /\ master[x] = "granted"
                      /\ In[b] \in Inputs /\ burst_table[s].input = In[b]
      /\ l \in Seq(BOOLEAN) /\ Len(l) = Cardinality(Mine(s)) /\ l # <<>>
      /\ y \in Mine(s) /\ IsFiniteSet(Mine(s))
      /\ \A k \in 1 .. Len(l) : l[k] <=> k = Len(l) /\ AllForwarded(b)
      /\ ~(Mine(s) = {y} /\ AllForwarded(b))
  BY <1>1, LastAnswer
<1>3. \A z \in Mine(s) : z \in below /\ z[1][1] = b /\ z[2] = s
  BY <1>2, BelowTypes, SlotUser DEF BeatIInv, BelowOK, Mine, At
<1>4. b \in Bursts /\ b # Proxy
  <2>1. ASSUME b = Proxy PROVE FALSE
    <3>1. AllForwarded(b)
      BY <2>1 DEF AllForwarded
    <3>2. \A z \in Mine(s) : z[1] = <<Proxy, 1>>
      BY <1>3, <2>1, BelowTypes DEF BeatIInv
    <3>3. \A z \in Mine(s) : z = y
      BY <1>1, <1>2, <1>3, <2>1, <3>2 DEF BeatIInv, BelowOK
    <3> QED
      BY <1>2, <3>1, <3>3
  <2> QED
    BY <1>2, <2>1
<1>5. PICK i \in Inputs : i = In[b] /\ i = burst_table[s].input /\ i # Null
  BY <1>2, <1>4, Nothing
<1>6. /\ Quiet /\ below' = below \ {y}
      /\ elected_input' = elected_input
      /\ Answer(i, x) /\ cb' = i /\ handler' = Idle /\ wake' = wake /\ waiter' = waiter
  BY <1>1, <1>5 DEF RespLast
<1>7. /\ UNCHANGED <<stalled, stalled_input>> /\ UNCHANGED <<pst, pcmd>> /\ UNCHANGED <<pending, pending_bytes>>
      /\ UNCHANGED <<head_cycle, active_multi_beat_slot, denied_upstream, round_robin_next, fsm_event>>
      /\ UNCHANGED <<sent, proxy_retry_waiter>>
  BY DEF RespLast, svars, ivars
<1>8. Queued' = Queued
  BY <1>7, QueuedKept
<1>9. /\ master' \in [Beats -> {"idle", "denied", "retrying", "granted"}]
      /\ \A v \in Beats : master'[v] = IF v = x THEN "idle" ELSE master[v]
  <2>1. master \in [Beats -> {"idle", "denied", "retrying", "granted"}]
    BY DEF BeatIInv, TypesOK
  <2>2. master' = [master EXCEPT ![x] = "idle"]
    BY <1>1, <1>2, <1>4, <1>5, <1>6 DEF Answer, Becomes
  <2> QED
    BY <1>2, <1>4, <2>1, <2>2
<1>10. /\ burst_table' \in [Slots -> Entry] /\ IdentKept
       /\ \A t \in Slots : t # s => burst_table'[t] = burst_table[t]
       /\ burst_table'[s].pending_master_is_last = Tail(l)
       /\ burst_table'[s].original_burst_id = burst_table[s].original_burst_id
       /\ burst_table'[s].output_id = burst_table[s].output_id
       /\ burst_table'[s].in_use
  <2>1. burst_table \in [Slots -> Entry] /\ burst_table[s] \in Entry
    BY <1>2 DEF BeatIInv, TypesOK
  <2>2. PICK m : m = Tail(l)
    OBVIOUS
  <2>3. m \in Seq(BOOLEAN)
    BY <1>2, <2>2
  <2>4. PICK e, n : e = burst_table[s] /\ n = [e EXCEPT !.pending_master_is_last = m]
    OBVIOUS
  <2>5. burst_table' = [burst_table EXCEPT ![s] = n]
    <3>1. burst_table' = [burst_table EXCEPT ![y[2]] = LastGone(y[2])]
      BY DEF RespLast, LastGone
    <3>2. LastGone(s) = [e EXCEPT !.pending_master_is_last = Tail(l)]
      BY Zenon, <1>1, <2>4 DEF LastGone
    <3> QED
      BY Zenon, <1>1, <2>2, <2>4, <3>1, <3>2
  <2>6. /\ n \in Entry /\ n.pending_master_is_last = m
        /\ n.in_use = e.in_use /\ n.input = e.input /\ n.channel = e.channel
        /\ n.output_id = e.output_id /\ n.original_burst_id = e.original_burst_id
    BY <2>1, <2>3, <2>4 DEF Entry
  <2>7. /\ burst_table' \in [Slots -> Entry]
        /\ \A t \in Slots : t # s => burst_table'[t] = burst_table[t]
        /\ burst_table'[s].pending_master_is_last = m
        /\ burst_table'[s].in_use = burst_table[s].in_use /\ burst_table'[s].input = burst_table[s].input
        /\ burst_table'[s].channel = burst_table[s].channel
        /\ burst_table'[s].output_id = burst_table[s].output_id
        /\ burst_table'[s].original_burst_id = burst_table[s].original_burst_id
    BY <1>2, <2>1, <2>4, <2>5, <2>6
  <2>8. IdentKept
    BY <2>7 DEF IdentKept
  <2> QED
    BY <1>2, <2>2, <2>7, <2>8 DEF UsedBy
<1>11. Rounds'
  <2>1. \A v \in Beats : /\ master'[v] \in Marked <=> master[v] \in Marked
                         /\ master'[v] = "granted" => master[v] = "granted"
    BY <1>2, <1>4, <1>9 DEF Marked
  <2>2. \A d \in Bursts : <<d, 1>> \in Beats
    BY BeatIs, RouterBeatAssumption
  <2>3. \A d \in Bursts : UnderWay(d)' <=> UnderWay(d)
    BY <1>7, <2>1, <2>2 DEF UnderWay
  <2>4. \A v \in Beats : v[1] \in Bursts
    BY BeatIs
  <2> QED
    BY <1>7, <2>1, <2>2, <2>3, <2>4 DEF BeatIInv, Rounds
<1>12. \A t \in Slots : \A d : UsedBy(t, d)' <=> UsedBy(t, d)
  BY <1>10, UsersKept
<1>13. SlotsOK'
  <2>1. sent[b] > 0 \/ \E v \in Beats : v[1] = b /\ v # x /\ master[v] = "granted"
    <3>1. CASE Mine(s) # {y}
      <4>1. PICK z \in Mine(s) : z # y
        BY <1>2, <3>1
      <4>2. z[1] # x /\ z[1][1] = b
        BY <1>1, <1>2, <1>3, <4>1 DEF BeatIInv, BelowOK
      <4>3. z[1] \in Beats /\ master[z[1]] = "granted"
        BY <1>3, <1>4, <4>1, <4>2, BelowTypes DEF BeatIInv, PlacesOK
      <4> QED
        BY <4>2, <4>3
    <3>2. CASE ~AllForwarded(b)
      <4>1. CASE sent[b] # 0
        <5>1. sent[b] \in Nat
          BY <1>4 DEF BeatIInv, TypesOK
        <5> QED
          BY <4>1, <5>1
      <4>2. CASE \E q \in Queued : q[1][1] = b
        <5>1. PICK q \in Queued : q[1][1] = b
          BY <4>2
        <5>2. q[1] # x /\ q[1] \in Beats /\ master[q[1]] = "granted"
          BY <1>1, QueuedTypes DEF BeatIInv, PlacesOK
        <5> QED
          BY <5>1, <5>2
      <4> QED
        BY <3>2, <4>1, <4>2 DEF AllForwarded
    <3> QED
      BY <1>2, <3>1, <3>2
  <2>2. ASSUME NEW t \in Slots, burst_table'[t].in_use PROVE BeatSlotShape(t)'
    <3>1. burst_table[t].in_use /\ BeatSlotShape(t)
      BY <1>10, <2>2 DEF BeatIInv, SlotsOK, IdentKept
    <3>2. PICK d : d = burst_table[t].original_burst_id
      OBVIOUS
    <3>3. /\ burst_table'[t].input = burst_table[t].input /\ burst_table'[t].channel = burst_table[t].channel
          /\ burst_table'[t].original_burst_id = d
          /\ burst_table'[t].output_id = burst_table[t].output_id
               \/ (burst_table[t].output_id = Null /\ burst_table'[t].output_id = Dest[d])
      BY <1>10, <3>1, <3>2 DEF IdentKept
    <3>4. (sent[d] > 0 \/ \E v \in Beats : v[1] = d /\ master[v] = "granted") =>
             (sent'[d] > 0 \/ \E v \in Beats : v[1] = d /\ master'[v] = "granted")
      BY <1>1, <1>7, <1>9, <2>1
    <3> QED
      BY <3>1, <3>2, <3>3, <3>4 DEF BeatSlotShape
  <2>3. \A t \in Slots : ~burst_table'[t].in_use => burst_table'[t].pending_master_is_last = <<>>
    BY <1>10 DEF BeatIInv, SlotsOK
  <2>4. \A t \in Slots, u \in Slots, d \in Bursts \cup {Proxy} : UsedBy(t, d)' /\ UsedBy(u, d)' => t = u
    BY <1>12 DEF BeatIInv, SlotsOK
  <2> QED
    BY <2>2, <2>3, <2>4 DEF SlotsOK
<1>14. ActiveOK'
  BY <1>7, <1>10, Kept_Active DEF BeatIInv
<1>15. FifosOK'
  BY <1>7, <1>10, Kept_Fifos DEF BeatIInv
<1>16. BelowOK'
  <2>1. ASSUME NEW z \in below' PROVE UsedBy(z[2], z[1][1])' /\ burst_table'[z[2]].output_id = z[3]
    <3>1. /\ z \in below /\ z[2] \in Slots /\ UsedBy(z[2], z[1][1])
          /\ burst_table[z[2]].output_id = z[3]
      BY <1>6, BelowTypes DEF BeatIInv, BelowOK
    <3> QED
      BY <1>10, <1>12, <3>1
  <2> QED
    BY <1>6, <2>1 DEF BeatIInv, BelowOK
<1>17. PlacesOK'
  <2>1. \A q \in Queued : q[1] # x /\ q[1] \in Beats
    BY <1>1, QueuedTypes DEF BeatIInv, PlacesOK
  <2>2. \A z \in below' : z[1] # x /\ (z[1][1] # Proxy => z[1] \in Beats) /\ z \in below
    BY <1>1, <1>6, BelowTypes DEF BeatIInv, BelowOK
  <2>3. ASSUME NEW v \in Beats, master'[v] = "granted"
        PROVE  (\E q \in Queued : q[1] = v) \/ (\E z \in below' : z[1] = v)
    <3>1. v # x /\ master[v] = "granted"
      BY <1>9, <2>3
    <3>2. (\E q \in Queued : q[1] = v) \/ (\E z \in below : z[1] = v)
      BY <3>1 DEF BeatIInv, PlacesOK
    <3> QED
      BY <1>1, <1>6, <3>1, <3>2
  <2> QED
    BY <1>8, <1>9, <2>1, <2>2, <2>3 DEF BeatIInv, PlacesOK
<1>18. LastsOK'
  <2>1. \A d : AllForwarded(d)' <=> AllForwarded(d)
    BY <1>7, <1>8 DEF AllForwarded
  <2>2. ASSUME NEW t \in Slots, t # s
        PROVE  /\ Len(burst_table'[t].pending_master_is_last) = Cardinality(Mine(t)')
               /\ \A k \in 1 .. Len(burst_table'[t].pending_master_is_last) :
                    burst_table'[t].pending_master_is_last[k] <=>
                       /\ k = Len(burst_table'[t].pending_master_is_last)
                       /\ AllForwarded(burst_table[t].original_burst_id)'
    <3>1. burst_table'[t] = burst_table[t]
      BY <1>10, <2>2
    <3>2. Mine(t)' = Mine(t)
      BY <1>1, <1>6, <2>2 DEF Mine, At
    <3>3. PICK d : d = burst_table[t].original_burst_id
      OBVIOUS
    <3>4. AllForwarded(d)' <=> AllForwarded(d)
      BY <2>1
    <3>5. /\ Len(burst_table[t].pending_master_is_last) = Cardinality(Mine(t))
          /\ \A k \in 1 .. Len(burst_table[t].pending_master_is_last) :
               burst_table[t].pending_master_is_last[k] <=>
                  k = Len(burst_table[t].pending_master_is_last) /\ AllForwarded(d)
      BY <3>3 DEF BeatIInv, LastsOK
    <3>6. burst_table'[t].original_burst_id = d
      BY <3>1, <3>3
    <3>7. AllForwarded(burst_table[t].original_burst_id)' <=> AllForwarded(d)
      BY <3>4, <3>6 DEF AllForwarded
    <3> QED
      BY <3>1, <3>2, <3>5, <3>7
  <2>3. /\ Len(burst_table'[s].pending_master_is_last) = Cardinality(Mine(s)')
        /\ \A k \in 1 .. Len(burst_table'[s].pending_master_is_last) :
             burst_table'[s].pending_master_is_last[k] <=>
                /\ k = Len(burst_table'[s].pending_master_is_last)
                /\ AllForwarded(burst_table[s].original_burst_id)'
    <3>1. PICK old, new : old = Mine(s) /\ new = Mine(s)'
      OBVIOUS
    <3>2. new = old \ {y}
      BY <1>6, <3>1 DEF Mine, At
    <3>3. Cardinality(new) = Cardinality(old) - 1
      <4>1. IsFiniteSet(old) /\ y \in old
        BY <1>2, <3>1
      <4> QED
        BY ONLY <3>2, <4>1, FS_RemoveElement
    <3>4. PICK m : m = burst_table'[s].pending_master_is_last
      OBVIOUS
    <3>5. m = Tail(l)
      BY <1>10, <3>4
    <3>6. Len(m) = Len(l) - 1 /\ Len(l) \in Nat \ {0} /\ \A k \in 1 .. (Len(l) - 1) : m[k] = l[k + 1]
      BY <1>2, <3>5
    <3>7. burst_table'[s].original_burst_id = b
      BY <1>2, <1>10 DEF UsedBy
    <3>8. AllForwarded(burst_table[s].original_burst_id)' <=> AllForwarded(b)
      BY <2>1, <3>7 DEF AllForwarded
    <3>9. \A k \in 1 .. Len(m) : m[k] <=> k = Len(m) /\ AllForwarded(b)
      <4>1. ASSUME NEW k \in 1 .. Len(m) PROVE m[k] <=> k = Len(m) /\ AllForwarded(b)
        <5>1. k + 1 \in 1 .. Len(l) /\ m[k] = l[k + 1] /\ (k = Len(m) <=> k + 1 = Len(l))
          BY <3>6, <4>1
        <5> QED
          BY <1>2, <5>1
      <4> QED
        BY <4>1
    <3> QED
      BY <1>2, <3>1, <3>3, <3>4, <3>6, <3>8, <3>9
  <2> QED
    BY <2>2, <2>3 DEF LastsOK
<1>19. BytesOK'
  BY <1>7, Kept_Bytes DEF BeatIInv
<1>20. LockOwned'
  BY <1>6, <1>10, Kept_Lock DEF BeatIInv
<1>21. StallsOK'
  <2>1. UNCHANGED <<pending, svars, pst, pcmd>>
    BY <1>7 DEF svars
  <2> QED
    BY <1>10, <2>1, Kept_Stalls DEF BeatIInv
<1>22. TypesOK'
  <2>1. handler' \in Handlers /\ cb' \in Inputs \cup {Null}
    BY <1>6, HandlersAre
  <2>2. /\ below' \subseteq (Beats \cup {<<Proxy, 1>>}) \X Slots \X Outputs /\ IsFiniteSet(below')
    BY <1>6, FS_Subset DEF BeatIInv, TypesOK
  <2> QED
    BY <1>6, <1>7, <1>9, <1>10, <2>1, <2>2 DEF BeatIInv, TypesOK
<1>23. Flags'
  <2>1. \A v \in Beats : master[v] # "retrying"
    <3>1. cb = Null /\ \A v \in Beats : In[v[1]] \in Inputs
      BY <1>6, BeatIs, RouterBeatAssumption DEF Quiet, Running
    <3> QED
      BY <3>1, Nothing DEF BeatIInv, Flags
  <2>2. \A v \in Beats : /\ master'[v] # "retrying"
                         /\ master'[v] = "denied" <=> master[v] = "denied"
    BY <1>2, <1>4, <1>9, <2>1
  <2> QED
    BY <1>7, <2>2 DEF BeatIInv, Flags
<1>24. ProxyOK'
  <2>1. \A z \in below : z[1][1] = Proxy => z \in below'
    BY <1>1, <1>4, <1>6
  <2> QED
    BY <1>6, <1>7, <1>12, <2>1 DEF BeatIInv, ProxyOK
<1> QED
  BY <1>11, <1>13, <1>14, <1>15, <1>16, <1>17, <1>18, <1>19, <1>20, <1>21, <1>22, <1>23, <1>24 DEF BeatIInv

LEMMA Keep_RespLast ==
    ASSUME BeatIInv, NEW y \in below, RespLast(y)
    PROVE  BeatIInv'
<1>1. CASE BurstDone(y[2])
  BY <1>1, Keep_RespDone
<1>2. CASE ~BurstDone(y[2])
  BY <1>2, Keep_RespNotDone
<1> QED
  BY <1>1, <1>2

----------------------------------------------------------------------------
(* A slot is taken, or none is.                                            *)

UsedSame(s) ==
    \A t \in Slots : t # s \/ burst_table[t].in_use => burst_table'[t] = burst_table[t]

LEMMA TakenUsers ==
    ASSUME BeatIInv, NEW s \in Slots, UsedSame(s)
    PROVE  /\ \A t \in Slots : \A d : UsedBy(t, d) => UsedBy(t, d)'
           /\ \A t \in Slots : t # s => \A d : UsedBy(t, d)' => UsedBy(t, d)
           /\ ~burst_table[s].in_use => /\ \A q \in Queued : q[2] # s
                                        /\ \A z \in below : z[2] # s
                                        /\ \A j \in Inputs : active_multi_beat_slot[j] # s
                                        /\ Mine(s) = {}
                                        /\ burst_table[s].pending_master_is_last = <<>>
<1>1. \A t \in Slots : \A d : UsedBy(t, d) => UsedBy(t, d)'
  BY DEF UsedSame, UsedBy
<1>2. \A t \in Slots : t # s => \A d : UsedBy(t, d)' => UsedBy(t, d)
  BY DEF UsedSame, UsedBy
<1>3. ASSUME ~burst_table[s].in_use
      PROVE  /\ \A q \in Queued : q[2] # s
             /\ \A z \in below : z[2] # s
             /\ \A j \in Inputs : active_multi_beat_slot[j] # s
             /\ Mine(s) = {}
             /\ burst_table[s].pending_master_is_last = <<>>
  <2>1. \A q \in Queued : q[2] # s
    BY <1>3 DEF BeatIInv, FifosOK, UsedBy
  <2>2. \A z \in below : z[2] # s
    BY <1>3 DEF BeatIInv, BelowOK, UsedBy
  <2>3. \A j \in Inputs : active_multi_beat_slot[j] # s
    BY <1>3, Nothing DEF BeatIInv, ActiveOK, UsedBy
  <2>4. burst_table[s].pending_master_is_last = <<>>
    BY <1>3 DEF BeatIInv, SlotsOK
  <2> QED
    BY <2>1, <2>2, <2>3, <2>4 DEF Mine, At
<1> QED
  BY <1>1, <1>2, <1>3

LEMMA LockStays ==
    ASSUME BeatIInv, NEW s \in Slots, UsedSame(s),
           \A o \in Outputs, c \in Channels : elected_input'[o][c] \in {Null, elected_input[o][c]}
    PROVE  LockOwned'
<1>1. ASSUME NEW o \in Outputs, NEW c \in Channels, elected_input'[o][c] # Null
      PROVE  \E t \in Slots : /\ burst_table'[t].in_use /\ burst_table'[t].channel = c
                              /\ burst_table'[t].input = elected_input'[o][c]
                              /\ burst_table'[t].output_id = o
  <2>1. elected_input'[o][c] = elected_input[o][c] /\ elected_input[o][c] # Null
    BY <1>1
  <2>2. PICK t \in Slots : /\ burst_table[t].in_use /\ burst_table[t].channel = c
                           /\ burst_table[t].input = elected_input[o][c]
                           /\ burst_table[t].output_id = o
    BY <2>1 DEF BeatIInv, LockOwned
  <2> QED
    BY <2>1, <2>2 DEF UsedSame
<1> QED
  BY <1>1 DEF LockOwned

(* The heads of the FIFOs stay.                                            *)
LEMMA StallStays ==
    ASSUME BeatIInv, NEW s \in Slots, UsedSame(s), UNCHANGED <<stalled, stalled_input>>,
           \A j \in Inputs : pending[j] # <<>> =>
               pending'[j] # <<>> /\ Head(pending'[j]) = Head(pending[j]),
           NEW o \in Outputs, NEW c \in Channels,
           stalled[o][c] /\ stalled_input[o][c] = Null => UNCHANGED <<pst, pcmd>>
    PROVE  StallRight(o, c)'
<1>1. StallRight(o, c)
  BY StallsAre DEF BeatIInv
<1>2. CASE stalled_input[o][c] = Null
  <2>1. stalled[o][c] => UNCHANGED pst /\ UNCHANGED pcmd
    BY <1>2
  <2> QED
    BY <1>1, <1>2, <2>1 DEF StallRight
<1>3. CASE stalled_input[o][c] # Null
  <2>1. PICK j \in Inputs : j = stalled_input[o][c]
    BY <1>3, StallInput DEF BeatIInv
  <2>2. stalled[o][c] /\ HeldHead(o, c, j)
    BY <1>1, <1>3, <2>1 DEF StallRight
  <2>3. pending[j] # <<>>
    BY <2>2 DEF HeldHead
  <2>4. HeadSlot(j) \in Slots /\ burst_table[HeadSlot(j)].in_use
    BY <2>3, HeadQueued DEF BeatIInv, UsedBy
  <2>5. HeadSlot(j)' = HeadSlot(j) /\ pending'[j] # <<>>
    BY <2>3 DEF HeadSlot
  <2>6. HeldHead(o, c, j)'
    BY <2>2, <2>4, <2>5 DEF HeldHead, UsedSame
  <2> QED
    BY <1>3, <2>1, <2>2, <2>6 DEF StallRight, HeldHead, HeadSlot
<1> QED
  BY <1>2, <1>3

----------------------------------------------------------------------------
(* The request of the proxy thread.                                        *)

LEMMA Keep_ProxyGranted ==
    ASSUME BeatIInv, NEW cmd, Command(cmd), Ready(cmd), waiter' = "Pending", OnlyThread,
           ProxyGranted(cmd, Null)
    PROVE  BeatIInv'
<1>1. PICK s, o, c : s = Min(FreeSlots) /\ o = cmd[1] /\ c = channel_of(cmd[2])
  OBVIOUS
<1>2. /\ burst_table' = [burst_table EXCEPT ![s] =
            [in_use |-> TRUE, input |-> Null, output_id |-> o, channel |-> c,
             original_burst_id |-> Proxy, pending_master_is_last |-> <<TRUE>>]]
      /\ below' = below \cup {<<<<Proxy, 1>>, s, o>>}
      /\ elected_input' = [elected_input EXCEPT ![o][c] = Null]
      /\ pst' = "wait_reply" /\ pcmd' = cmd /\ proxy_retry_waiter' = Null
      /\ UNCHANGED <<stalled, stalled_input>>
      /\ o # Invalid /\ ~stalled[o][c] /\ FreeSlots # {}
  BY <1>1 DEF ProxyGranted, ProxyBlocked, svars
<1>3. s \in Slots /\ ~burst_table[s].in_use /\ o \in Outputs /\ c \in Channels
  BY <1>1, <1>2, FreeSlot, ChannelOf DEF Command
<1>4. PICK l, z : l = <<TRUE>> /\ z = <<<<Proxy, 1>>, s, o>>
  OBVIOUS
<1>5. l \in Seq(BOOLEAN) /\ Len(l) = 1 /\ l[1] = TRUE
  BY <1>4
<1>6. /\ burst_table' \in [Slots -> Entry]
      /\ \A t \in Slots : t # s => burst_table'[t] = burst_table[t]
      /\ burst_table'[s] = [in_use |-> TRUE, input |-> Null, output_id |-> o, channel |-> c,
                            original_burst_id |-> Proxy, pending_master_is_last |-> l]
  <2>1. PICK e : e = [in_use |-> TRUE, input |-> Null, output_id |-> o, channel |-> c,
                      original_burst_id |-> Proxy, pending_master_is_last |-> l]
    OBVIOUS
  <2>2. e \in Entry
    BY <1>3, <1>5, <2>1 DEF Entry
  <2>3. burst_table' = [burst_table EXCEPT ![s] = e]
    BY <1>2, <1>4, <2>1
  <2>4. burst_table \in [Slots -> Entry]
    BY DEF BeatIInv, TypesOK
  <2> QED
    BY <1>3, <2>1, <2>2, <2>3, <2>4
<1>7. UsedSame(s)
  BY <1>3, <1>6 DEF UsedSame
<1>8. /\ \A t \in Slots : \A d : UsedBy(t, d) => UsedBy(t, d)'
      /\ \A t \in Slots : t # s => \A d : UsedBy(t, d)' => UsedBy(t, d)
      /\ \A q \in Queued : q[2] # s
      /\ \A y \in below : y[2] # s
      /\ \A j \in Inputs : active_multi_beat_slot[j] # s
      /\ Mine(s) = {}
  BY <1>3, <1>7, TakenUsers
<1>9. /\ \A d : UsedBy(s, d)' <=> d = Proxy
      /\ \A t \in Slots : ~UsedBy(t, Proxy)
      /\ \A t \in Slots, d \in Bursts : UsedBy(t, d)' <=> UsedBy(t, d)
  <2>1. \A d : UsedBy(s, d)' <=> d = Proxy
    BY <1>6 DEF UsedBy
  <2>2. \A t \in Slots : ~UsedBy(t, Proxy)
    BY NoProxySlot
  <2>3. \A d : ~UsedBy(s, d)
    BY <1>3 DEF UsedBy
  <2> QED
    BY <1>8, <2>1, <2>2, <2>3, Nothing
<1>10. /\ UNCHANGED master /\ UNCHANGED sent /\ UNCHANGED pending /\ UNCHANGED active_multi_beat_slot
       /\ UNCHANGED <<pending, pending_bytes>> /\ UNCHANGED <<master, denied_upstream, cb>>
  BY DEF OnlyThread
<1>11. Queued' = Queued
  BY <1>10, QueuedKept
<1>12. below' = below \cup {z} /\ z \notin below /\ z[1] = <<Proxy, 1>> /\ z[2] = s /\ z[3] = o
  BY <1>2, <1>4, <1>8
<1>13. TypesOK'
  <2>1. below' \subseteq (Beats \cup {<<Proxy, 1>>}) \X Slots \X Outputs /\ IsFiniteSet(below')
    <3>1. z \in (Beats \cup {<<Proxy, 1>>}) \X Slots \X Outputs
      BY <1>3, <1>4
    <3> QED
      BY <1>12, <3>1, FS_AddElement DEF BeatIInv, TypesOK
  <2>2. elected_input' \in [Outputs -> [Channels -> Inputs \cup {Null}]]
    BY <1>2, <1>3 DEF BeatIInv, TypesOK
  <2>3. pcmd' \in (Outputs \cup {Invalid}) \X BOOLEAN
    BY <1>2 DEF Command
  <2> QED
    BY <1>2, <1>6, <2>1, <2>2, <2>3 DEF BeatIInv, TypesOK, OnlyThread
<1>14. Rounds' /\ Flags' /\ BytesOK'
  BY <1>10, SameMasters, Kept_Rounds, Kept_Flags, Kept_Bytes DEF BeatIInv
<1>15. SlotsOK'
  <2>1. ASSUME NEW t \in Slots, burst_table'[t].in_use PROVE BeatSlotShape(t)'
    <3>1. CASE t = s
      BY <1>6, <3>1 DEF BeatSlotShape
    <3>2. CASE t # s
      <4>1. burst_table'[t] = burst_table[t] /\ BeatSlotShape(t)
        BY <1>6, <2>1, <3>2 DEF BeatIInv, SlotsOK
      <4> QED
        BY <1>10, <4>1 DEF BeatSlotShape
    <3> QED
      BY <3>1, <3>2
  <2>2. \A t \in Slots : ~burst_table'[t].in_use => burst_table'[t].pending_master_is_last = <<>>
    BY <1>6 DEF BeatIInv, SlotsOK
  <2>3. \A t \in Slots, u \in Slots, d \in Bursts \cup {Proxy} : UsedBy(t, d)' /\ UsedBy(u, d)' => t = u
    BY <1>8, <1>9 DEF BeatIInv, SlotsOK
  <2> QED
    BY <2>1, <2>2, <2>3 DEF SlotsOK
<1>16. ActiveOK'
  <2>1. \A j \in Inputs : active_multi_beat_slot[j] # Null => active_multi_beat_slot[j] \in Slots
    BY DEF BeatIInv, TypesOK
  <2>2. ASSUME NEW j \in Inputs, active_multi_beat_slot[j] # Null
        PROVE  \E d \in Bursts : In[d] = j /\ sent[d] > 0 /\ UsedBy(active_multi_beat_slot[j], d)'
    <3>1. PICK t \in Slots : t = active_multi_beat_slot[j]
      BY <2>1, <2>2
    <3>2. PICK d \in Bursts : In[d] = j /\ sent[d] > 0 /\ UsedBy(t, d)
      BY <2>2, <3>1 DEF BeatIInv, ActiveOK
    <3>3. UsedBy(t, d)'
      BY <1>9, <3>2
    <3> QED
      BY <1>10, <3>1, <3>2, <3>3 DEF UsedBy
  <2>3. \A d \in Bursts : sent[d] > 0 =>
           active_multi_beat_slot[In[d]] # Null \/ \A t \in Slots : ~UsedBy(t, d)'
    BY <1>9 DEF BeatIInv, ActiveOK
  <2> QED
    BY <1>10, <2>2, <2>3 DEF ActiveOK, UsedBy
<1>17. FifosOK'
  <2>1. \A q \in Queued : UsedBy(q[2], q[1][1])'
    BY <1>8, QueuedTypes DEF BeatIInv, FifosOK
  <2>2. \A j \in Inputs : Fifo(pending'[j], j)
    BY <1>10 DEF BeatIInv, FifosOK
  <2>3. \A j \in Inputs : Fifo(pending[j], j)'
    BY <2>2 DEF Fifo
  <2> QED
    BY <1>10, <1>11, <2>1, <2>3 DEF BeatIInv, FifosOK
<1>18. BelowOK'
  <2>1. ASSUME NEW y \in below' PROVE UsedBy(y[2], y[1][1])' /\ burst_table'[y[2]].output_id = y[3]
    <3>1. CASE y = z
      BY <1>6, <1>9, <1>12, <3>1
    <3>2. CASE y \in below
      BY <1>6, <1>8, <3>2, BelowTypes DEF BeatIInv, BelowOK
    <3> QED
      BY <1>12, <3>1, <3>2
  <2>2. \A y \in below : y[1] # z[1]
    <3>1. \A y \in below : y[2] \in Slots /\ UsedBy(y[2], y[1][1])
      BY BelowTypes DEF BeatIInv, BelowOK
    <3> QED
      BY <1>9, <1>12, <3>1
  <2>3. \A y \in below', u \in below' : y[1] = u[1] => y = u
    BY <1>12, <2>2 DEF BeatIInv, BelowOK
  <2> QED
    BY <2>1, <2>3 DEF BelowOK
<1>19. PlacesOK'
  <2>1. \A q \in Queued : q[1] # z[1]
    BY <1>12, QueuedTypes, BeatIs DEF BeatIInv
  <2> QED
    BY <1>10, <1>11, <1>12, <2>1 DEF BeatIInv, PlacesOK
<1>20. LastsOK'
  <2>1. \A d : AllForwarded(d)' <=> AllForwarded(d)
    BY <1>10, <1>11 DEF AllForwarded
  <2>2. ASSUME NEW t \in Slots, t # s
        PROVE  /\ Len(burst_table'[t].pending_master_is_last) = Cardinality(Mine(t)')
               /\ \A k \in 1 .. Len(burst_table'[t].pending_master_is_last) :
                    burst_table'[t].pending_master_is_last[k] <=>
                       /\ k = Len(burst_table'[t].pending_master_is_last)
                       /\ AllForwarded(burst_table[t].original_burst_id)'
    <3>1. burst_table'[t] = burst_table[t]
      BY <1>6, <2>2
    <3>2. Mine(t)' = Mine(t)
      BY <1>12, <2>2 DEF Mine, At
    <3>3. PICK d : d = burst_table[t].original_burst_id
      OBVIOUS
    <3>4. AllForwarded(d)' <=> AllForwarded(d)
      BY <2>1
    <3>5. /\ Len(burst_table[t].pending_master_is_last) = Cardinality(Mine(t))
          /\ \A k \in 1 .. Len(burst_table[t].pending_master_is_last) :
               burst_table[t].pending_master_is_last[k] <=>
                  k = Len(burst_table[t].pending_master_is_last) /\ AllForwarded(d)
      BY <3>3 DEF BeatIInv, LastsOK
    <3>6. burst_table'[t].original_burst_id = d
      BY <3>1, <3>3
    <3>7. AllForwarded(burst_table[t].original_burst_id)' <=> AllForwarded(d)
      BY <3>4, <3>6 DEF AllForwarded
    <3> QED
      BY <3>1, <3>2, <3>5, <3>7
  <2>3. /\ Len(burst_table'[s].pending_master_is_last) = Cardinality(Mine(s)')
        /\ \A k \in 1 .. Len(burst_table'[s].pending_master_is_last) :
             burst_table'[s].pending_master_is_last[k] <=>
                /\ k = Len(burst_table'[s].pending_master_is_last)
                /\ AllForwarded(burst_table[s].original_burst_id)'
    <3>1. Mine(s)' = {z}
      BY <1>8, <1>12 DEF Mine, At
    <3>2. Cardinality(Mine(s)') = 1
      BY <3>1, FS_Singleton
    <3>3. burst_table'[s].pending_master_is_last = l /\ burst_table'[s].original_burst_id = Proxy
      BY <1>6
    <3>4. AllForwarded(burst_table[s].original_burst_id)'
      BY <3>3 DEF AllForwarded
    <3>5. Len(l) = 1 /\ \A k \in 1 .. Len(l) : k = Len(l) /\ l[k] = TRUE
      BY ONLY <1>5
    <3>6. \A k \in 1 .. Len(l) : l[k] <=> k = Len(l) /\ AllForwarded(burst_table[s].original_burst_id)'
      BY ONLY <3>4, <3>5
    <3> QED
      BY <3>2, <3>3, <3>5, <3>6
  <2> QED
    BY <2>2, <2>3 DEF LastsOK
<1>21. LockOwned'
  <2>1. \A p \in Outputs, d \in Channels : elected_input'[p][d] \in {Null, elected_input[p][d]}
    BY <1>2, <1>3 DEF BeatIInv, TypesOK
  <2> QED
    BY <1>3, <1>7, <2>1, LockStays
<1>22. StallsOK'
  <2>1. ASSUME NEW p \in Outputs, NEW d \in Channels PROVE StallRight(p, d)'
    <3>1. ~(stalled[p][d] /\ stalled_input[p][d] = Null)
      BY <1>1, <1>2, OwnStall
    <3>2. \A j \in Inputs : pending[j] # <<>> =>
             pending'[j] # <<>> /\ Head(pending'[j]) = Head(pending[j])
      BY <1>10
    <3> QED
      BY ONLY BeatIInv, <1>2, <1>3, <1>7, <2>1, <3>1, <3>2, StallStays
  <2> QED
    BY <2>1, StallsAre
<1>23. ProxyOK'
  BY <1>2, <1>12 DEF ProxyOK
<1> QED
  BY <1>13, <1>14, <1>15, <1>16, <1>17, <1>18, <1>19, <1>20, <1>21, <1>22, <1>23 DEF BeatIInv

LEMMA Keep_dispatch ==
    ASSUME BeatIInv, NEW cmd, Command(cmd), Ready(cmd), waiter' = "Pending",
           dispatch_proxy_req(cmd, Null)
    PROVE  BeatIInv'
<1>1. OnlyThread
  BY ThreadSteps
<1> QED
  BY <1>1, Keep_ProxyDone, Keep_ProxyGranted, Keep_ProxyDenied DEF dispatch_proxy_req

LEMMA Keep_handle_proxy_command ==
    ASSUME BeatIInv, NEW cmd \in ProxyCmds, handle_proxy_command(cmd)
    PROVE  BeatIInv'
<1>1. pst = "idle" /\ proxy_retry_waiter = Null /\ waiter' = "Pending"
      /\ dispatch_proxy_req(cmd, proxy_retry_waiter)
  BY DEF handle_proxy_command, BeatIInv, ProxyOK
<1>2. Command(cmd)
  BY RouterBeatAssumption DEF Command
<1>3. Ready(cmd)
  BY <1>1 DEF Ready
<1> QED
  BY <1>1, <1>2, <1>3, Keep_dispatch

LEMMA Keep_ProxyRetries ==
    ASSUME BeatIInv, ProxyRetries
    PROVE  BeatIInv'
<1>1. PICK cmd : cmd = pcmd
  OBVIOUS
<1>2. pst = "wait_retry" /\ waiter' = "Pending" /\ dispatch_proxy_req(cmd, Null)
  BY <1>1 DEF ProxyRetries
<1>3. Command(cmd) /\ Ready(cmd)
  BY <1>1, <1>2 DEF Command, Ready, BeatIInv, TypesOK
<1> QED
  BY <1>2, <1>3, Keep_dispatch


----------------------------------------------------------------------------
(* A master issues a beat.                                                 *)

Issues(b) == MayIssue(b) \/ master[Beat(b)] = "retrying"

LEMMA NextBeat ==
    ASSUME BeatIInv, NEW b \in Bursts, Issues(b), NEW x, x = Beat(b)
    PROVE  /\ x \in Beats /\ x = <<b, sent[b] + 1>> /\ x[1] = b /\ x[2] = sent[b] + 1
           /\ In[b] \in Inputs /\ b # Proxy
           /\ sent[b] \in Nat /\ NbBeats[b] \in Nat \ {0} /\ sent[b] + 1 <= NbBeats[b]
           /\ master[x] \in {"idle", "retrying"}
           /\ \A v \in Beats : v[1] = b /\ (sent[b] = 0 \/ v[2] > sent[b]) => master[v] # "granted"
           /\ \A v \in Beats : v[1] = b /\ master[v] \in Marked => v = x
           /\ \A d \in Bursts : d # b /\ In[d] = In[b] /\ NbBeats[b] > 1 /\ NbBeats[d] > 1 => ~UnderWay(d)
<1>1. /\ sent[b] \in Nat /\ sent[b] < NbBeats[b] /\ NbBeats[b] \in Nat \ {0} /\ In[b] \in Inputs
  BY RouterBeatAssumption DEF BeatIInv, TypesOK
<1>2. x = <<b, sent[b] + 1>> /\ x[1] = b /\ x[2] = sent[b] + 1
  BY DEF Beat
<1>3. sent[b] + 1 \in 1 .. NbBeats[b]
  BY <1>1
<1>4. x \in Beats
  BY <1>2, <1>3, BeatIs
<1>5. master[x] \in {"idle", "retrying"}
  BY DEF Issues, MayIssue
<1>6. \A v \in Beats : v[1] = b /\ (sent[b] = 0 \/ v[2] > sent[b]) => master[v] # "granted"
  <2>1. CASE sent[b] > 0
    <3>1. ASSUME NEW v \in Beats, v[1] = b, sent[b] = 0 \/ v[2] > sent[b] PROVE master[v] # "granted"
      <4>1. sent[v[1]] > 0 /\ v[2] > sent[v[1]]
        BY <1>1, <2>1, <3>1
      <4> QED
        BY <4>1 DEF BeatIInv, Rounds
    <3> QED
      BY <3>1
  <2>2. CASE sent[b] = 0 /\ MayIssue(b)
    <3>1. \A k \in 1 .. NbBeats[b] : master[<<b, k>>] = "idle"
      BY <2>2 DEF MayIssue
    <3>2. \A v \in Beats : v[1] = b => v = <<b, v[2]>> /\ v[2] \in 1 .. NbBeats[b]
      BY BeatIs
    <3> QED
      BY <3>1, <3>2
  <2>3. CASE sent[b] = 0 /\ master[x] = "retrying"
    <3>1. x = <<b, 1>> /\ master[<<b, 1>>] \in Marked
      BY <1>2, <2>3 DEF Marked
    <3> QED
      BY <2>3, <3>1 DEF BeatIInv, Rounds
  <2> QED
    BY <1>1, <2>1, <2>2, <2>3 DEF Issues
<1>7. \A v \in Beats : v[1] = b /\ master[v] \in Marked => v = x
  <2>1. ASSUME NEW v \in Beats, v[1] = b, master[v] \in Marked PROVE v = x
    <3>1. v[2] = sent[b] + 1
      BY <2>1 DEF BeatIInv, Rounds
    <3>2. v = <<v[1], v[2]>>
      BY BeatIs
    <3> QED
      BY <1>2, <2>1, <3>1, <3>2
  <2> QED
    BY <2>1
<1>8. ASSUME NEW d \in Bursts, d # b, In[d] = In[b], NbBeats[b] > 1, NbBeats[d] > 1
      PROVE  ~UnderWay(d)
  <2>1. CASE UnderWay(b)
    BY <1>8, <2>1 DEF BeatIInv, Rounds
  <2>2. CASE ~UnderWay(b)
    <3>1. sent[b] = 0 /\ x = <<b, 1>> /\ master[x] # "retrying"
      BY <1>1, <1>2, <2>2 DEF UnderWay, Marked
    <3>2. MayIssue(b)
      BY <3>1 DEF Issues
    <3>3. ~(sent[d] > 0) /\ master[<<d, 1>>] \notin Marked
      BY <1>1, <1>8, <3>1, <3>2 DEF MayIssue, Marked
    <3> QED
      BY <3>3 DEF UnderWay
  <2> QED
    BY <2>1, <2>2
<1> QED
  BY <1>1, <1>2, <1>3, <1>4, <1>5, <1>6, <1>7, <1>8, Nothing

(* The next beat of b is st from now on.                                   *)
LEMMA BecomesIs ==
    ASSUME BeatIInv, NEW x \in Beats, NEW st \in {"idle", "denied", "granted"}, Becomes(x, st)
    PROVE  /\ master' \in [Beats -> {"idle", "denied", "retrying", "granted"}]
           /\ \A v \in Beats : master'[v] = IF v = x THEN st ELSE master[v]
<1>1. master' = [master EXCEPT ![x] = st] /\ master \in [Beats -> {"idle", "denied", "retrying", "granted"}]
  BY DEF Becomes, BeatIInv, TypesOK
<1> QED
  BY <1>1

(* The burst goes on after its beat.                                       *)
LEMMA RoundGoesOn ==
    ASSUME BeatIInv, NEW b \in Bursts, Issues(b), Next_beat(b), NEW st \in {"idle", "granted"},
           Becomes(Beat(b), st)
    PROVE  /\ sent' \in [Bursts -> Nat] /\ \A d \in Bursts : sent'[d] < NbBeats[d]
           /\ sent'[b] = IF sent[b] + 1 = NbBeats[b] THEN 0 ELSE sent[b] + 1
           /\ \A d \in Bursts : d # b => sent'[d] = sent[d]
           /\ Rounds'
<1>1. PICK x : x = Beat(b)
  OBVIOUS
<1>2. /\ x \in Beats /\ x = <<b, sent[b] + 1>> /\ x[1] = b /\ x[2] = sent[b] + 1
      /\ In[b] \in Inputs
      /\ sent[b] \in Nat /\ NbBeats[b] \in Nat \ {0} /\ sent[b] + 1 <= NbBeats[b]
      /\ \A v \in Beats : v[1] = b /\ (sent[b] = 0 \/ v[2] > sent[b]) => master[v] # "granted"
      /\ \A v \in Beats : v[1] = b /\ master[v] \in Marked => v = x
      /\ \A d \in Bursts : d # b /\ In[d] = In[b] /\ NbBeats[b] > 1 /\ NbBeats[d] > 1 => ~UnderWay(d)
  BY <1>1, NextBeat
<1>3. \A v \in Beats : master'[v] = IF v = x THEN st ELSE master[v]
  BY <1>1, <1>2, BecomesIs
<1>4. /\ sent \in [Bursts -> Nat] /\ \A d \in Bursts : sent[d] < NbBeats[d]
  BY DEF BeatIInv, TypesOK
<1>5. (sent[b] + 1) % NbBeats[b] = IF sent[b] + 1 = NbBeats[b] THEN 0 ELSE sent[b] + 1
  <2>1. PICK n, k : n = NbBeats[b] /\ k = sent[b] + 1
    OBVIOUS
  <2>2. n \in Nat \ {0} /\ k \in 0 .. n
    BY <1>2, <2>1
  <2>3. k < n => k % n = k
    BY ONLY <2>2
  <2>4. k = n => k % n = 0
    BY ONLY <2>2
  <2> QED
    BY <2>1, <2>2, <2>3, <2>4
<1>6. /\ \A d \in Bursts : d # b => sent'[d] = sent[d]
      /\ sent'[b] = IF sent[b] + 1 = NbBeats[b] THEN 0 ELSE sent[b] + 1
      /\ sent' \in [Bursts -> Nat]
  <2>1. PICK k : k = (sent[b] + 1) % NbBeats[b]
    OBVIOUS
  <2>2. k \in Nat /\ (k = IF sent[b] + 1 = NbBeats[b] THEN 0 ELSE sent[b] + 1)
    BY <1>2, <1>5, <2>1
  <2>3. sent' = [sent EXCEPT ![b] = k]
    BY <2>1 DEF Next_beat
  <2> QED
    BY <1>4, <2>2, <2>3
<1>7. \A d \in Bursts : sent'[d] < NbBeats[d]
  BY <1>2, <1>4, <1>6
<1>8. \A v \in Beats : v[1] = b => master'[v] \notin Marked
  BY <1>2, <1>3 DEF Marked
<1>9. \A v \in Beats : v[1] # b => master'[v] = master[v]
  BY <1>2, <1>3
<1>10. \A d \in Bursts : d # b => (UnderWay(d)' <=> UnderWay(d))
  <2>1. \A d \in Bursts : <<d, 1>> \in Beats
    BY BeatIs, RouterBeatAssumption
  <2> QED
    BY <1>6, <1>9, <2>1 DEF UnderWay
<1>11. Rounds'
  <2>1. ASSUME NEW v \in Beats
        PROVE  /\ master'[v] \in Marked => v[2] = sent'[v[1]] + 1
               /\ sent'[v[1]] > 0 /\ v[2] > sent'[v[1]] => master'[v] # "granted"
               /\ sent'[v[1]] = 0 /\ master'[<<v[1], 1>>] \in Marked => master'[v] # "granted"
    <3>1. v[1] \in Bursts /\ <<v[1], 1>> \in Beats /\ v[2] \in 1 .. NbBeats[v[1]]
      BY BeatIs, RouterBeatAssumption
    <3>2. CASE v[1] # b
      BY <1>6, <1>9, <3>1, <3>2 DEF BeatIInv, Rounds
    <3>3. CASE v[1] = b
      <4>1. master'[v] \notin Marked /\ master'[<<b, 1>>] \notin Marked
        BY <1>8, <3>1, <3>3
      <4>2. ASSUME sent'[b] > 0, v[2] > sent'[b] PROVE master'[v] # "granted"
        <5>1. v[2] > sent[b] + 1 /\ v[2] > sent[b] /\ v # x
          BY <1>2, <1>6, <3>1, <3>3, <4>2
        <5> QED
          BY <1>2, <1>3, <3>3, <5>1
      <4> QED
        BY <3>3, <4>1, <4>2
    <3> QED
      BY <3>2, <3>3
  <2>2. ASSUME NEW d \in Bursts, NEW e \in Bursts, d # e, In[d] = In[e], NbBeats[d] > 1, NbBeats[e] > 1,
               UnderWay(d)'
        PROVE  ~UnderWay(e)'
    <3>1. CASE d = b
      BY <1>2, <1>10, <2>2, <3>1
    <3>2. CASE d # b
      <4>1. UnderWay(d)
        BY <1>10, <2>2, <3>2
      <4>2. e # b
        BY <1>2, <2>2, <3>2, <4>1
      <4> QED
        BY <1>10, <2>2, <4>1, <4>2 DEF BeatIInv, Rounds
    <3> QED
      BY <3>1, <3>2
  <2> QED
    BY <2>1, <2>2 DEF Rounds, UnderWay
<1> QED
  BY <1>6, <1>7, <1>11

(* The flags of the masters, when the beat is not denied.                  *)
LEMMA FlagsGoOn ==
    ASSUME BeatIInv, NEW b \in Bursts, Issues(b), NEW st \in {"idle", "granted"}, Becomes(Beat(b), st),
           UNCHANGED <<denied_upstream, cb>>
    PROVE  Flags'
<1>1. PICK x : x = Beat(b)
  OBVIOUS
<1>2. x \in Beats /\ master[x] \in {"idle", "retrying"}
  BY <1>1, NextBeat
<1>3. \A v \in Beats : master'[v] = IF v = x THEN st ELSE master[v]
  BY <1>1, <1>2, BecomesIs
<1>4. \A v \in Beats : /\ master'[v] = "retrying" => master[v] = "retrying"
                       /\ master'[v] = "denied" <=> master[v] = "denied"
  BY <1>2, <1>3
<1>5. cb' = cb /\ denied_upstream' = denied_upstream
  OBVIOUS
<1>6. \A v \in Beats : master'[v] = "retrying" => cb' = In[v[1]]
  BY <1>4, <1>5 DEF BeatIInv, Flags
<1>7. \A i \in Inputs : denied_upstream'[i] <=> \E v \in Beats : In[v[1]] = i /\ master'[v] = "denied"
  BY <1>4, <1>5 DEF BeatIInv, Flags
<1> QED
  BY <1>6, <1>7 DEF Flags

(* Refused: the burst has no slot.                                         *)
LEMMA Keep_ReqRefused ==
    ASSUME BeatIInv, NEW b \in Bursts, Issues(b), ReqRefused(b),
           UNCHANGED <<svars, round_robin_next, below, handler, wake, cb, pvars>>
    PROVE  BeatIInv'
<1>1. PICK x : x = Beat(b)
  OBVIOUS
<1>2. /\ x \in Beats /\ x[1] = b /\ sent[b] \in Nat /\ master[x] \in {"idle", "retrying"}
      /\ b # Proxy /\ In[b] \in Inputs
  BY <1>1, NextBeat
<1>3. /\ Refused(b) /\ Next_beat(b) /\ Becomes(Beat(b), "idle")
      /\ UNCHANGED burst_table /\ UNCHANGED elected_input /\ UNCHANGED <<pending, pending_bytes>>
      /\ UNCHANGED <<head_cycle, active_multi_beat_slot, denied_upstream, fsm_event>>
  BY DEF ReqRefused, tvars, ivars
<1>4. /\ UNCHANGED <<stalled, stalled_input>> /\ UNCHANGED <<round_robin_next, below, handler, wake, cb>>
      /\ UNCHANGED <<pending, svars, pst, pcmd>> /\ UNCHANGED <<below, pvars>>
      /\ UNCHANGED <<proxy_retry_waiter, waiter, pst, pcmd>> /\ UNCHANGED <<denied_upstream, cb>>
      /\ UNCHANGED <<pending, below>>
  BY <1>3 DEF svars, pvars
<1>5. /\ sent' \in [Bursts -> Nat] /\ \A d \in Bursts : sent'[d] < NbBeats[d]
      /\ \A d \in Bursts : d # b => sent'[d] = sent[d]
      /\ Rounds'
  BY <1>3, RoundGoesOn
<1>6. /\ master' \in [Beats -> {"idle", "denied", "retrying", "granted"}]
      /\ \A v \in Beats : master'[v] = IF v = x THEN "idle" ELSE master[v]
  BY <1>1, <1>2, <1>3, BecomesIs
<1>7. GrantedKept
  BY <1>2, <1>6 DEF GrantedKept
<1>8. Flags'
  BY <1>3, <1>4, FlagsGoOn
<1>9. \A s \in Slots : ~UsedBy(s, b)
  <2>1. CASE Write[b] /\ BeatSize[b] > width
    BY <1>2, <2>1 DEF BeatIInv, SlotsOK, BeatSlotShape, UsedBy, TooLarge
  <2>2. CASE sent[b] > 0 /\ active_multi_beat_slot[In[b]] = Null
    BY <2>2 DEF BeatIInv, ActiveOK
  <2> QED
    BY <1>3, <2>1, <2>2 DEF Refused
<1>10. IdentKept /\ LastsKept /\ Queued' = Queued
  BY <1>3, SameTable, QueuedKept
<1>11. \A s \in Slots : \A d : UsedBy(s, d)' <=> UsedBy(s, d)
  BY <1>10, UsersKept
<1>12. SlotsOK'
  <2>1. ASSUME NEW t \in Slots, burst_table'[t].in_use PROVE BeatSlotShape(t)'
    <3>1. burst_table'[t] = burst_table[t] /\ BeatSlotShape(t) /\ burst_table[t].in_use
      BY <1>3, <2>1 DEF BeatIInv, SlotsOK
    <3>2. burst_table[t].original_burst_id # b
      BY <1>9, <3>1 DEF UsedBy
    <3>3. \A v \in Beats : v[1] = burst_table[t].original_burst_id => master'[v] = master[v]
      BY <1>2, <1>6, <3>2
    <3> QED
      BY <1>5, <3>1, <3>2, <3>3 DEF BeatSlotShape
  <2>2. \A t \in Slots : ~burst_table'[t].in_use => burst_table'[t].pending_master_is_last = <<>>
    <3>1. burst_table' = burst_table
      BY <1>3
    <3> QED
      BY <3>1 DEF BeatIInv, SlotsOK
  <2>3. \A t \in Slots, u \in Slots, d \in Bursts \cup {Proxy} : UsedBy(t, d)' /\ UsedBy(u, d)' => t = u
    BY <1>11 DEF BeatIInv, SlotsOK
  <2> QED
    BY <2>1, <2>2, <2>3 DEF SlotsOK
<1>13. ActiveOK'
  <2>1. \A j \in Inputs : active_multi_beat_slot[j] # Null => active_multi_beat_slot[j] \in Slots
    BY DEF BeatIInv, TypesOK
  <2>2. ASSUME NEW j \in Inputs, active_multi_beat_slot[j] # Null
        PROVE  \E d \in Bursts : In[d] = j /\ sent'[d] > 0 /\ UsedBy(active_multi_beat_slot[j], d)
    <3>1. PICK d \in Bursts : In[d] = j /\ sent[d] > 0 /\ UsedBy(active_multi_beat_slot[j], d)
      BY <2>2 DEF BeatIInv, ActiveOK
    <3>2. d # b
      BY <1>9, <2>1, <2>2, <3>1
    <3> QED
      BY <1>5, <3>1, <3>2
  <2>3. \A d \in Bursts : sent'[d] > 0 =>
           active_multi_beat_slot[In[d]] # Null \/ \A t \in Slots : ~UsedBy(t, d)
    BY <1>5, <1>9 DEF BeatIInv, ActiveOK
  <2> QED
    BY <1>3, <2>2, <2>3 DEF ActiveOK, UsedBy
<1>14. \A q \in Queued : q[1][1] # b
  BY <1>9, QueuedTypes DEF BeatIInv, FifosOK
<1>15. FifosOK'
  <2>1. \A q \in Queued : UsedBy(q[2], q[1][1])'
    BY <1>11, QueuedTypes DEF BeatIInv, FifosOK
  <2>2. \A j \in Inputs : Fifo(pending'[j], j)
    BY <1>3 DEF BeatIInv, FifosOK
  <2>3. \A j \in Inputs : Fifo(pending[j], j)'
    BY <2>2 DEF Fifo
  <2>4. ASSUME NEW q \in Queued, q[1][2] < NbBeats[q[1][1]], q[1][2] < sent'[q[1][1]] \/ sent'[q[1][1]] = 0
        PROVE  <<<<q[1][1], q[1][2] + 1>>, q[2]>> \in Queued
    <3>1. sent'[q[1][1]] = sent[q[1][1]]
      BY <1>5, <1>14, QueuedTypes DEF BeatIInv
    <3> QED
      BY <2>4, <3>1 DEF BeatIInv, FifosOK
  <2> QED
    BY <1>10, <2>1, <2>3, <2>4 DEF FifosOK
<1>16. BelowOK' /\ PlacesOK' /\ BytesOK'
  <2>1. BelowOK'
    BY <1>4, <1>10, Kept_Below DEF BeatIInv
  <2>2. PlacesOK'
    BY <1>4, <1>7, Kept_Places DEF BeatIInv
  <2>3. BytesOK'
    BY <1>3, Kept_Bytes DEF BeatIInv
  <2> QED
    BY <2>1, <2>2, <2>3
<1>17. LastsOK'
  <2>1. ASSUME NEW t \in Slots
        PROVE  /\ Len(burst_table'[t].pending_master_is_last) = Cardinality(Mine(t)')
               /\ \A k \in 1 .. Len(burst_table'[t].pending_master_is_last) :
                    burst_table'[t].pending_master_is_last[k] <=>
                       /\ k = Len(burst_table'[t].pending_master_is_last)
                       /\ AllForwarded(burst_table[t].original_burst_id)'
    <3>1. burst_table'[t] = burst_table[t]
      BY <1>3
    <3>2. Mine(t)' = Mine(t)
      BY <1>4 DEF Mine, At
    <3>3. PICK d : d = burst_table[t].original_burst_id
      OBVIOUS
    <3>4. /\ Len(burst_table[t].pending_master_is_last) = Cardinality(Mine(t))
          /\ \A k \in 1 .. Len(burst_table[t].pending_master_is_last) :
               burst_table[t].pending_master_is_last[k] <=>
                  k = Len(burst_table[t].pending_master_is_last) /\ AllForwarded(d)
      BY <3>3 DEF BeatIInv, LastsOK
    <3>5. CASE ~burst_table[t].in_use
      <4>1. Len(burst_table[t].pending_master_is_last) = 0
        BY <3>5 DEF BeatIInv, SlotsOK
      <4> QED
        BY <3>1, <3>2, <3>4, <4>1
    <3>6. CASE burst_table[t].in_use
      <4>1. d # b /\ d \in Bursts \cup {Proxy}
        BY <1>9, <3>3, <3>6, UsersAre DEF UsedBy
      <4>2. AllForwarded(d)' <=> AllForwarded(d)
        BY <1>5, <1>10, <4>1 DEF AllForwarded
      <4>3. burst_table'[t].original_burst_id = d
        BY <3>1, <3>3
      <4>4. AllForwarded(burst_table[t].original_burst_id)' <=> AllForwarded(d)
        BY <4>2, <4>3 DEF AllForwarded
      <4> QED
        BY <3>1, <3>2, <3>4, <4>4
    <3> QED
      BY <3>5, <3>6
  <2> QED
    BY <2>1 DEF LastsOK
<1>18. LockOwned' /\ StallsOK' /\ ProxyOK'
  <2>1. LockOwned'
    BY <1>3, <1>10, Kept_Lock DEF BeatIInv
  <2>2. StallsOK'
    BY <1>4, <1>10, Kept_Stalls DEF BeatIInv
  <2>3. ProxyOK'
    BY <1>4, <1>10, Kept_Proxy DEF BeatIInv
  <2> QED
    BY <2>1, <2>2, <2>3
<1>19. TypesOK'
  BY <1>3, <1>4, <1>5, <1>6 DEF BeatIInv, TypesOK
<1> QED
  BY <1>5, <1>8, <1>12, <1>13, <1>15, <1>16, <1>17, <1>18, <1>19 DEF BeatIInv

(* Denied: the master is to try again.                                     *)
LEMMA Keep_ReqDenied ==
    ASSUME BeatIInv, NEW b \in Bursts, Issues(b), ReqDenied(b),
           UNCHANGED <<svars, round_robin_next, below, handler, wake, cb, pvars>>
    PROVE  BeatIInv'
<1>1. PICK x : x = Beat(b)
  OBVIOUS
<1>2. /\ x \in Beats /\ x = <<b, sent[b] + 1>> /\ x[1] = b /\ x[2] = sent[b] + 1
      /\ In[b] \in Inputs /\ sent[b] \in Nat
      /\ master[x] \in {"idle", "retrying"}
      /\ \A v \in Beats : v[1] = b /\ (sent[b] = 0 \/ v[2] > sent[b]) => master[v] # "granted"
      /\ \A d \in Bursts : d # b /\ In[d] = In[b] /\ NbBeats[b] > 1 /\ NbBeats[d] > 1 => ~UnderWay(d)
  BY <1>1, NextBeat
<1>3. /\ denied_upstream' = [denied_upstream EXCEPT ![In[b]] = TRUE] /\ Becomes(Beat(b), "denied")
      /\ UNCHANGED burst_table /\ UNCHANGED elected_input /\ UNCHANGED <<pending, pending_bytes>>
      /\ UNCHANGED <<active_multi_beat_slot, sent>> /\ UNCHANGED <<head_cycle, fsm_event>>
      /\ UNCHANGED <<pending, sent>> /\ UNCHANGED sent
  BY DEF ReqDenied, tvars, ivars
<1>4. /\ UNCHANGED <<stalled, stalled_input>> /\ UNCHANGED <<round_robin_next, below, handler, wake, cb>>
      /\ UNCHANGED <<pending, svars, pst, pcmd>> /\ UNCHANGED <<below, pvars>>
      /\ UNCHANGED <<proxy_retry_waiter, waiter, pst, pcmd>> /\ UNCHANGED <<pending, below, sent>>
      /\ UNCHANGED <<pending, below>>
  BY <1>3 DEF svars, pvars
<1>5. /\ master' \in [Beats -> {"idle", "denied", "retrying", "granted"}]
      /\ \A v \in Beats : master'[v] = IF v = x THEN "denied" ELSE master[v]
  BY <1>1, <1>2, <1>3, BecomesIs
<1>6. GrantedKept
  BY <1>2, <1>5 DEF GrantedKept
<1>7. IdentKept /\ LastsKept
  BY <1>3, SameTable
<1>8. Rounds'
  <2>1. ASSUME NEW v \in Beats
        PROVE  /\ master'[v] \in Marked => v[2] = sent'[v[1]] + 1
               /\ sent'[v[1]] > 0 /\ v[2] > sent'[v[1]] => master'[v] # "granted"
               /\ sent'[v[1]] = 0 /\ master'[<<v[1], 1>>] \in Marked => master'[v] # "granted"
    <3>1. v[1] \in Bursts /\ <<v[1], 1>> \in Beats
      BY BeatIs, RouterBeatAssumption
    <3>2. master'[v] \in Marked => v[2] = sent'[v[1]] + 1
      BY <1>2, <1>3, <1>5 DEF BeatIInv, Rounds
    <3>3. sent'[v[1]] > 0 /\ v[2] > sent'[v[1]] => master'[v] # "granted"
      BY <1>3, <1>5 DEF BeatIInv, Rounds
    <3>4. ASSUME sent'[v[1]] = 0, master'[<<v[1], 1>>] \in Marked PROVE master'[v] # "granted"
      <4>1. CASE v[1] = b
        BY <1>2, <1>3, <1>5, <3>4, <4>1
      <4>2. CASE v[1] # b
        <5>1. <<v[1], 1>> # x
          BY <1>2, <4>2
        <5> QED
          BY <1>3, <1>5, <3>1, <3>4, <5>1 DEF BeatIInv, Rounds
      <4> QED
        BY <4>1, <4>2
    <3> QED
      BY <3>2, <3>3, <3>4
  <2>2. \A d \in Bursts : d # b => (UnderWay(d)' <=> UnderWay(d))
    <3>1. \A d \in Bursts : <<d, 1>> \in Beats
      BY BeatIs, RouterBeatAssumption
    <3>2. \A d \in Bursts : d # b => <<d, 1>> # x
      BY <1>2
    <3> QED
      BY <1>3, <1>5, <3>1, <3>2 DEF UnderWay
  <2>3. ASSUME NEW d \in Bursts, NEW e \in Bursts, d # e, In[d] = In[e], NbBeats[d] > 1, NbBeats[e] > 1,
               UnderWay(d)'
        PROVE  ~UnderWay(e)'
    <3>1. CASE d = b
      BY <1>2, <2>2, <2>3, <3>1
    <3>2. CASE d # b
      <4>1. UnderWay(d)
        BY <2>2, <2>3, <3>2
      <4>2. e # b
        BY <1>2, <2>3, <3>2, <4>1
      <4> QED
        BY <2>2, <2>3, <4>1, <4>2 DEF BeatIInv, Rounds
    <3> QED
      BY <3>1, <3>2
  <2> QED
    BY <2>1, <2>3 DEF Rounds, UnderWay
<1>9. denied_upstream' \in [Inputs -> BOOLEAN]
      /\ \A j \in Inputs : denied_upstream'[j] <=> (j = In[b] \/ denied_upstream[j])
  <2>1. denied_upstream \in [Inputs -> BOOLEAN]
    BY DEF BeatIInv, TypesOK
  <2> QED
    BY <1>2, <1>3, <2>1
<1>10. Flags'
  <2>1. \A v \in Beats : master'[v] = "retrying" => master[v] = "retrying"
    BY <1>5
  <2>2. \A v \in Beats : master'[v] = "denied" <=> (v = x \/ master[v] = "denied")
    BY <1>5
  <2>3. \A v \in Beats : master'[v] = "retrying" => cb' = In[v[1]]
    BY <1>4, <2>1 DEF BeatIInv, Flags
  <2>4. \A j \in Inputs : denied_upstream'[j] <=> \E v \in Beats : In[v[1]] = j /\ master'[v] = "denied"
    BY <1>2, <1>9, <2>2 DEF BeatIInv, Flags
  <2> QED
    BY <2>3, <2>4 DEF Flags
<1>11. SlotsOK'
  BY <1>3, <1>6, <1>7, Kept_Slots DEF BeatIInv
<1>12. ActiveOK'
  BY <1>3, <1>7, Kept_Active DEF BeatIInv
<1>13. FifosOK'
  BY <1>3, <1>7, Kept_Fifos DEF BeatIInv
<1>14. BelowOK'
  BY <1>4, <1>7, Kept_Below DEF BeatIInv
<1>15. PlacesOK'
  BY <1>4, <1>6, Kept_Places DEF BeatIInv
<1>16. LastsOK'
  BY <1>4, <1>7, Kept_Lasts DEF BeatIInv
<1>17. BytesOK'
  BY <1>3, Kept_Bytes DEF BeatIInv
<1>18. LockOwned'
  BY <1>3, <1>7, Kept_Lock DEF BeatIInv
<1>19. StallsOK'
  BY <1>4, <1>7, Kept_Stalls DEF BeatIInv
<1>20. ProxyOK'
  BY <1>4, <1>7, Kept_Proxy DEF BeatIInv
<1>21. TypesOK'
  <2>1. TypesOK
    BY DEF BeatIInv
  <2> QED
    <3>1. UNCHANGED burst_table /\ UNCHANGED pending /\ UNCHANGED pending_bytes /\ UNCHANGED below
      BY <1>3, <1>4
    <3>2. /\ UNCHANGED head_cycle /\ UNCHANGED active_multi_beat_slot /\ UNCHANGED elected_input
          /\ UNCHANGED fsm_event /\ UNCHANGED sent
      BY <1>3
    <3>3. /\ UNCHANGED stalled /\ UNCHANGED stalled_input /\ UNCHANGED round_robin_next
          /\ UNCHANGED handler /\ UNCHANGED wake /\ UNCHANGED cb /\ UNCHANGED pst /\ UNCHANGED pcmd
          /\ UNCHANGED proxy_retry_waiter /\ UNCHANGED waiter
      BY <1>4
    <3> QED
      BY ONLY <1>5, <1>9, <2>1, <3>1, <3>2, <3>3 DEF TypesOK
<1> QED
  BY <1>8, <1>10, <1>11, <1>12, <1>13, <1>14, <1>15, <1>16, <1>17, <1>18, <1>19, <1>20, <1>21 DEF BeatIInv


(* The slot of a beat that is queued: a free one for the first of a burst, *)
(* then that of the burst.                                                 *)
TakenBy(s, b) ==
    /\ s \in Slots /\ UsedSame(s) /\ burst_table' \in [Slots -> Entry]
    /\ LET e == burst_table'[s]
       IN  /\ e.in_use /\ e.original_burst_id = b /\ e.input = In[b]
           /\ e.channel = channel_of(Write[b]) /\ e.output_id \in {Null, Dest[b]}
           /\ e.pending_master_is_last = burst_table[s].pending_master_is_last
    /\ sent[b] > 0 => UsedBy(s, b)
    /\ sent[b] = 0 => ~burst_table[s].in_use /\ \A t \in Slots : ~UsedBy(t, b)

SlotFor(b) == IF sent[b] = 0 THEN Min(FreeSlots) ELSE active_multi_beat_slot[In[b]]

LEMMA SlotTaken ==
    ASSUME BeatIInv, NEW b \in Bursts, Issues(b), ReqQueued(b), NEW s, s = SlotFor(b)
    PROVE  TakenBy(s, b)
<1>1. PICK i, c : i = In[b] /\ c = channel_of(Write[b])
  OBVIOUS
<1>2. i \in Inputs /\ c \in Channels /\ sent[b] \in Nat /\ NbBeats[b] \in Nat \ {0} /\ sent[b] < NbBeats[b]
      /\ burst_table \in [Slots -> Entry]
  BY <1>1, ChannelOf, RouterBeatAssumption DEF BeatIInv, TypesOK
<1>3. ~Refused(b) /\ (sent[b] = 0 => FreeSlots # {})
  BY DEF ReqQueued
<1>4. CASE sent[b] = 0
  <2>1. s = Min(FreeSlots) /\ s \in Slots /\ ~burst_table[s].in_use
    BY <1>3, <1>4, FreeSlot DEF SlotFor
  <2>2. burst_table' = [burst_table EXCEPT ![s] =
                        [@ EXCEPT !.in_use = TRUE, !.input = i, !.output_id = Null,
                                  !.channel = c, !.original_burst_id = b]]
    BY <1>1, <1>4, <2>1 DEF ReqQueued
  <2>3. PICK e, n : e = burst_table[s]
                    /\ n = [e EXCEPT !.in_use = TRUE, !.input = i, !.output_id = Null,
                                     !.channel = c, !.original_burst_id = b]
    OBVIOUS
  <2>4. e \in Entry /\ burst_table' = [burst_table EXCEPT ![s] = n]
    BY <1>2, <2>1, <2>2, <2>3
  <2>5. /\ n \in Entry /\ n.in_use /\ n.input = i /\ n.output_id = Null /\ n.channel = c
        /\ n.original_burst_id = b /\ n.pending_master_is_last = e.pending_master_is_last
    BY <1>2, <2>3, <2>4 DEF Entry
  <2>6. /\ burst_table' \in [Slots -> Entry] /\ burst_table'[s] = n
        /\ \A t \in Slots : t # s => burst_table'[t] = burst_table[t]
    BY <1>2, <2>1, <2>4, <2>5
  <2>7. \A t \in Slots : ~UsedBy(t, b)
    <3>1. ASSUME NEW t \in Slots, UsedBy(t, b) PROVE FALSE
      <4>1. BeatSlotShape(t) /\ burst_table[t].original_burst_id = b
        BY <3>1 DEF BeatIInv, SlotsOK, UsedBy
      <4>2. \E v \in Beats : v[1] = b /\ master[v] = "granted"
        BY <1>4, <4>1, Nothing DEF BeatSlotShape
      <4> QED
        BY <1>4, <4>2, NextBeat
    <3> QED
      BY <3>1
  <2>8. UsedSame(s)
    BY <2>1, <2>6 DEF UsedSame
  <2> QED
    BY <1>1, <1>4, <2>1, <2>3, <2>5, <2>6, <2>7, <2>8 DEF TakenBy
<1>5. CASE sent[b] > 0
  <2>1. s = active_multi_beat_slot[i] /\ s # Null /\ burst_table' = burst_table
    BY <1>1, <1>2, <1>3, <1>5 DEF SlotFor, Refused, ReqQueued
  <2>2. s \in Slots
    BY <1>2, <2>1 DEF BeatIInv, TypesOK
  <2>3. PICK d \in Bursts : In[d] = i /\ sent[d] > 0 /\ UsedBy(s, d)
    BY <1>2, <2>1 DEF BeatIInv, ActiveOK
  <2>4. d = b
    <3>1. NbBeats[d] > 1 /\ NbBeats[b] > 1
      BY <1>2, <1>5, <2>3, BegunLong DEF BeatIInv
    <3>2. UnderWay(d) /\ UnderWay(b)
      BY <1>5, <2>3 DEF UnderWay
    <3> QED
      BY <1>1, <2>3, <3>1, <3>2 DEF BeatIInv, Rounds
  <2>5. BeatSlotShape(s) /\ burst_table[s].original_burst_id = b /\ burst_table[s].in_use /\ b # Proxy
    BY <2>2, <2>3, <2>4, Nothing DEF BeatIInv, SlotsOK, UsedBy
  <2>6. UsedSame(s)
    BY <2>1 DEF UsedSame
  <2>7. sent[b] # 0
    BY <1>2, <1>5
  <2> QED
    BY <1>2, <2>1, <2>2, <2>3, <2>4, <2>5, <2>6, <2>7 DEF TakenBy, BeatSlotShape
<1> QED
  BY <1>2, <1>4, <1>5

LEMMA TakenAre ==
    ASSUME BeatIInv, NEW b \in Bursts, NEW s, TakenBy(s, b)
    PROVE  /\ \A t \in Slots : \A d : UsedBy(t, d)' <=> UsedBy(t, d) \/ (t = s /\ d = b)
           /\ \A t \in Slots : t # s => ~UsedBy(t, b)
           /\ \A t \in Slots : t # s => burst_table'[t] = burst_table[t]
<1>1. s \in Slots /\ UsedSame(s)
  BY DEF TakenBy
<1>2. \A t \in Slots : t # s => burst_table'[t] = burst_table[t]
  BY <1>1 DEF UsedSame
<1>3. \A d : UsedBy(s, d)' <=> d = b
  BY DEF TakenBy, UsedBy
<1>4. sent[b] \in Nat
  BY DEF BeatIInv, TypesOK
<1>5. \A d : UsedBy(s, d) => d = b
  BY <1>1, <1>3, TakenUsers
<1>6. \A t \in Slots : t # s => ~UsedBy(t, b)
  <2>1. CASE sent[b] = 0
    BY <2>1 DEF TakenBy
  <2>2. CASE sent[b] > 0
    <3>1. UsedBy(s, b)
      BY <2>2 DEF TakenBy
    <3> QED
      BY <1>1, <3>1, SlotUser
  <2> QED
    BY <1>4, <2>1, <2>2
<1>7. \A t \in Slots : t # s => \A d : UsedBy(t, d)' <=> UsedBy(t, d)
  BY <1>1, TakenUsers
<1> QED
  BY <1>2, <1>3, <1>5, <1>6, <1>7

(* Accepted: the beat joins the FIFO.                                      *)
LEMMA QueuedSlots ==
    ASSUME BeatIInv, NEW b \in Bursts, Issues(b), NEW s, TakenBy(s, b), ~Refused(b),
           NEW x, x = Beat(b), Next_beat(b), Becomes(Beat(b), "granted"), UNCHANGED below,
           NEW e, e = <<x, s>>, Queued' = Queued \cup {e},
           active_multi_beat_slot' = [active_multi_beat_slot EXCEPT ![In[b]] = Tracker(b, s)]
    PROVE  /\ SlotsOK' /\ ActiveOK' /\ BelowOK' /\ PlacesOK'
           /\ active_multi_beat_slot' \in [Inputs -> Slots \cup {Null}]
<1>1. /\ x \in Beats /\ x = <<b, sent[b] + 1>> /\ x[1] = b /\ x[2] = sent[b] + 1
      /\ In[b] \in Inputs /\ b # Proxy
      /\ sent[b] \in Nat /\ NbBeats[b] \in Nat \ {0} /\ sent[b] + 1 <= NbBeats[b]
      /\ master[x] \in {"idle", "retrying"}
      /\ \A d \in Bursts : d # b /\ In[d] = In[b] /\ NbBeats[b] > 1 /\ NbBeats[d] > 1 => ~UnderWay(d)
  BY NextBeat
<1>2. /\ sent'[b] = IF sent[b] + 1 = NbBeats[b] THEN 0 ELSE sent[b] + 1
      /\ \A d \in Bursts : d # b => sent'[d] = sent[d]
  BY RoundGoesOn
<1>3. \A v \in Beats : master'[v] = IF v = x THEN "granted" ELSE master[v]
  BY <1>1, BecomesIs
<1>4. /\ \A t \in Slots : \A d : UsedBy(t, d)' <=> UsedBy(t, d) \/ (t = s /\ d = b)
      /\ \A t \in Slots : t # s => ~UsedBy(t, b)
      /\ \A t \in Slots : t # s => burst_table'[t] = burst_table[t]
  BY TakenAre
<1>5. s \in Slots /\ s # Null
  BY Nothing DEF TakenBy
<1>6. SlotsOK'
  <2>1. ASSUME NEW t \in Slots, burst_table'[t].in_use PROVE BeatSlotShape(t)'
    <3>1. CASE t = s
      <4>1. ~TooLarge(b)
        BY DEF Refused, TooLarge
      <4>2. \E v \in Beats : v[1] = b /\ master'[v] = "granted"
        BY <1>1, <1>3
      <4>3. /\ burst_table'[t].original_burst_id = b /\ burst_table'[t].input = In[b]
            /\ burst_table'[t].channel = channel_of(Write[b])
            /\ burst_table'[t].output_id \in {Null, Dest[b]}
        BY <3>1 DEF TakenBy
      <4> QED
        BY <4>1, <4>2, <4>3 DEF BeatSlotShape
    <3>2. CASE t # s
      <4>1. burst_table'[t] = burst_table[t] /\ burst_table[t].in_use /\ BeatSlotShape(t)
        BY <1>4, <2>1, <3>2 DEF BeatIInv, SlotsOK
      <4>2. burst_table[t].original_burst_id # b
        BY <1>4, <3>2, <4>1 DEF UsedBy
      <4>3. \A v \in Beats : v[1] = burst_table[t].original_burst_id => master'[v] = master[v]
        BY <1>1, <1>3, <4>2
      <4> QED
        BY <1>2, <4>1, <4>2, <4>3 DEF BeatSlotShape
    <3> QED
      BY <3>1, <3>2
  <2>2. \A t \in Slots : ~burst_table'[t].in_use => burst_table'[t].pending_master_is_last = <<>>
    <3>1. burst_table'[s].in_use
      BY DEF TakenBy
    <3> QED
      BY <1>4, <3>1 DEF BeatIInv, SlotsOK
  <2>3. ASSUME NEW t \in Slots, NEW u \in Slots, NEW d \in Bursts \cup {Proxy}, UsedBy(t, d)', UsedBy(u, d)'
        PROVE  t = u
    <3>1. CASE d = b
      BY <1>4, <2>3, <3>1
    <3>2. CASE d # b
      <4>1. UsedBy(t, d) /\ UsedBy(u, d)
        BY <1>4, <2>3, <3>2
      <4> QED
        BY <4>1 DEF BeatIInv, SlotsOK
    <3> QED
      BY <3>1, <3>2
  <2> QED
    BY <2>1, <2>2, <2>3 DEF SlotsOK
<1>7. /\ active_multi_beat_slot' \in [Inputs -> Slots \cup {Null}]
      /\ active_multi_beat_slot'[In[b]] = Tracker(b, s)
      /\ \A j \in Inputs : j # In[b] => active_multi_beat_slot'[j] = active_multi_beat_slot[j]
  <2>1. active_multi_beat_slot \in [Inputs -> Slots \cup {Null}]
    BY DEF BeatIInv, TypesOK
  <2>2. PICK a : a = Tracker(b, s)
    OBVIOUS
  <2>3. a \in Slots \cup {Null}
    BY <1>1, <1>5, <2>1, <2>2 DEF Tracker
  <2> QED
    BY <1>1, <2>1, <2>2, <2>3
<1>8. ActiveOK'
  <2>1. is_last(Beat(b)) <=> sent[b] + 1 = NbBeats[b]
    BY <1>1 DEF is_last
  <2>2. ASSUME NEW j \in Inputs, active_multi_beat_slot'[j] # Null,
               active_multi_beat_slot'[j] = active_multi_beat_slot[j], j = In[b] => NbBeats[b] = 1
        PROVE  \E d \in Bursts : In[d] = j /\ sent'[d] > 0 /\ UsedBy(active_multi_beat_slot[j], d)'
    <3>1. PICK t \in Slots : t = active_multi_beat_slot[j]
      BY <2>2 DEF BeatIInv, TypesOK
    <3>2. PICK d \in Bursts : In[d] = j /\ sent[d] > 0 /\ UsedBy(t, d)
      BY <2>2, <3>1 DEF BeatIInv, ActiveOK
    <3>3. d # b
      BY <1>1, <2>2, <3>2
    <3>4. UsedBy(t, d)' /\ sent'[d] > 0
      BY <1>2, <1>4, <3>2, <3>3
    <3>5. t = active_multi_beat_slot'[j]
      BY <2>2, <3>1
    <3> QED
      BY <3>1, <3>2, <3>4, <3>5 DEF UsedBy
  <2>3. ASSUME NbBeats[b] # 1, Tracker(b, s) # Null
        PROVE  Tracker(b, s) = s /\ sent'[b] > 0 /\ UsedBy(s, b)'
    BY <1>1, <1>2, <1>4, <1>5, <2>1, <2>3 DEF Tracker
  <2>4. NbBeats[b] = 1 => Tracker(b, s) = active_multi_beat_slot[In[b]]
    BY DEF Tracker
  <2>5. ASSUME NEW j \in Inputs, active_multi_beat_slot'[j] # Null
        PROVE  \E d \in Bursts : In[d] = j /\ sent'[d] > 0
                                 /\ burst_table'[active_multi_beat_slot'[j]].in_use
                                 /\ burst_table'[active_multi_beat_slot'[j]].original_burst_id = d
    <3>1. CASE j = In[b] /\ NbBeats[b] # 1
      BY <1>7, <2>3, <2>5, <3>1 DEF UsedBy
    <3>2. CASE j # In[b] \/ NbBeats[b] = 1
      <4>1. active_multi_beat_slot'[j] = active_multi_beat_slot[j]
        BY <1>7, <2>4, <3>2
      <4> QED
        BY <2>2, <2>5, <3>2, <4>1 DEF UsedBy
    <3> QED
      BY <3>1, <3>2
  <2>6. ASSUME NEW d \in Bursts, sent'[d] > 0
        PROVE  active_multi_beat_slot'[In[d]] # Null \/ \A t \in Slots : ~UsedBy(t, d)'
    <3>1. In[d] \in Inputs
      BY RouterBeatAssumption
    <3>2. CASE d = b
      <4>1. sent[b] + 1 # NbBeats[b] /\ NbBeats[b] # 1
        BY <1>1, <1>2, <2>6, <3>2
      <4>2. Tracker(b, s) = s
        BY <2>1, <4>1 DEF Tracker
      <4> QED
        BY <1>5, <1>7, <3>2, <4>2
    <3>3. CASE d # b
      <4>1. sent[d] > 0 /\ NbBeats[d] > 1
        BY <1>2, <2>6, <3>3, RouterBeatAssumption DEF BeatIInv, TypesOK
      <4>2. active_multi_beat_slot'[In[d]] = active_multi_beat_slot[In[d]]
        <5>1. CASE In[d] # In[b]
          BY <1>7, <3>1, <5>1
        <5>2. CASE In[d] = In[b]
          <6>1. UnderWay(d)
            BY <4>1 DEF UnderWay
          <6>2. NbBeats[b] = 1
            BY <1>1, <3>3, <4>1, <5>2, <6>1
          <6> QED
            BY <1>7, <2>4, <5>2, <6>2
        <5> QED
          BY <5>1, <5>2
      <4> QED
        BY <1>4, <3>3, <4>1, <4>2 DEF BeatIInv, ActiveOK
    <3> QED
      BY <3>2, <3>3
  <2> QED
    BY <2>5, <2>6 DEF ActiveOK, UsedBy
<1>9. BelowOK'
  <2>1. ASSUME NEW y \in below PROVE UsedBy(y[2], y[1][1])' /\ burst_table'[y[2]].output_id = y[3]
    <3>1. y[2] \in Slots /\ UsedBy(y[2], y[1][1]) /\ burst_table[y[2]].output_id = y[3]
      BY BelowTypes DEF BeatIInv, BelowOK
    <3>2. burst_table'[y[2]] = burst_table[y[2]]
      BY <3>1 DEF TakenBy, UsedSame, UsedBy
    <3> QED
      BY <1>4, <3>1, <3>2
  <2> QED
    BY <2>1 DEF BeatIInv, BelowOK
<1>10. PlacesOK'
  <2>1. \A y \in below : y[1] # x
    <3>1. ASSUME NEW y \in below, y[1] = x PROVE FALSE
      <4>1. master[y[1]] = "granted"
        BY <1>1, <3>1 DEF BeatIInv, PlacesOK
      <4> QED
        BY <1>1, <3>1, <4>1
    <3> QED
      BY <3>1
  <2>2. \A q \in Queued : q[1] \in Beats /\ master'[q[1]] = "granted"
    BY <1>3, QueuedTypes DEF BeatIInv, PlacesOK
  <2>3. e[1] = x /\ master'[x] = "granted"
    BY <1>1, <1>3
  <2>4. \A y \in below : y[1][1] # Proxy => master'[y[1]] = "granted"
    BY <1>3, BelowTypes DEF BeatIInv, PlacesOK
  <2>5. \A q \in Queued', y \in below : q[1] # y[1]
    BY <2>1, <2>3 DEF BeatIInv, PlacesOK
  <2>6. \A v \in Beats : master'[v] = "granted" =>
         (\E q \in Queued' : q[1] = v) \/ (\E y \in below : y[1] = v)
    BY <1>3, <2>3 DEF BeatIInv, PlacesOK
  <2>7. \A q \in Queued' : master'[q[1]] = "granted"
    BY <2>2, <2>3
  <2> QED
    BY <2>4, <2>5, <2>6, <2>7 DEF PlacesOK
<1> QED
  BY <1>6, <1>7, <1>8, <1>9, <1>10

LEMMA QueuedLasts ==
    ASSUME BeatIInv, NEW b \in Bursts, Issues(b), NEW s, TakenBy(s, b), Next_beat(b),
           Becomes(Beat(b), "granted"), UNCHANGED below,
           NEW e, e = <<Beat(b), s>>, Queued' = Queued \cup {e}
    PROVE  LastsOK'
<1>1. b # Proxy /\ e[1][1] = b /\ sent[b] \in Nat
  BY NextBeat
<1>2. \A d \in Bursts : d # b => sent'[d] = sent[d]
  BY RoundGoesOn
<1>3. /\ \A t \in Slots : t # s => ~UsedBy(t, b)
      /\ \A t \in Slots : t # s => burst_table'[t] = burst_table[t]
  BY TakenAre
<1>4. ASSUME NEW t \in Slots
      PROVE  /\ Len(burst_table'[t].pending_master_is_last) = Cardinality(Mine(t)')
             /\ \A k \in 1 .. Len(burst_table'[t].pending_master_is_last) :
                  burst_table'[t].pending_master_is_last[k] <=>
                     /\ k = Len(burst_table'[t].pending_master_is_last)
                     /\ AllForwarded(burst_table[t].original_burst_id)'
  <2>1. burst_table'[t].pending_master_is_last = burst_table[t].pending_master_is_last
    BY <1>3 DEF TakenBy
  <2>2. Mine(t)' = Mine(t)
    BY DEF Mine, At
  <2>3. PICK d : d = burst_table[t].original_burst_id
    OBVIOUS
  <2>4. /\ Len(burst_table[t].pending_master_is_last) = Cardinality(Mine(t))
        /\ \A k \in 1 .. Len(burst_table[t].pending_master_is_last) :
             burst_table[t].pending_master_is_last[k] <=>
                k = Len(burst_table[t].pending_master_is_last) /\ AllForwarded(d)
    BY <2>3 DEF BeatIInv, LastsOK
  <2>5. CASE ~burst_table[t].in_use
    <3>1. Len(burst_table[t].pending_master_is_last) = 0
      BY <2>5 DEF BeatIInv, SlotsOK
    <3> QED
      BY <2>1, <2>2, <2>4, <3>1
  <2>6. CASE burst_table[t].in_use
    <3>1. burst_table'[t].original_burst_id = d
      BY <2>3, <2>6 DEF TakenBy, UsedSame
    <3>2. AllForwarded(d)' <=> AllForwarded(d)
      <4>1. CASE t = s
        <5>1. UsedBy(s, b) /\ sent[b] > 0
          BY <1>1, <2>6, <4>1 DEF TakenBy
        <5>2. d = b
          BY <2>3, <4>1, <5>1 DEF UsedBy
        <5>3. ~AllForwarded(b)
          BY <1>1, <5>1 DEF AllForwarded
        <5>4. ~AllForwarded(b)'
          BY <1>1 DEF AllForwarded
        <5> QED
          BY <5>2, <5>3, <5>4
      <4>2. CASE t # s
        <5>1. d # b /\ d \in Bursts \cup {Proxy}
          BY <1>3, <2>3, <2>6, <4>2, UsersAre DEF UsedBy
        <5> QED
          BY <1>1, <1>2, <5>1 DEF AllForwarded
      <4> QED
        BY <4>1, <4>2
    <3>3. AllForwarded(burst_table[t].original_burst_id)' <=> AllForwarded(d)
      BY <3>1, <3>2 DEF AllForwarded
    <3> QED
      BY <2>1, <2>2, <2>4, <3>3
  <2> QED
    BY <2>5, <2>6
<1> QED
  BY <1>4 DEF LastsOK


LEMMA QueuedFifos ==
    ASSUME BeatIInv, NEW b \in Bursts, Issues(b), NEW s, TakenBy(s, b), Next_beat(b),
           NEW i, i = In[b], NEW e, e = <<Beat(b), s>>,
           pending' = [pending EXCEPT ![i] = Append(@, e)]
    PROVE  /\ pending' \in [Inputs -> Seq(Beats \X Slots)] /\ Queued' = Queued \cup {e}
           /\ \A j \in Inputs : pending[j] # <<>> =>
                 pending'[j] # <<>> /\ Head(pending'[j]) = Head(pending[j])
           /\ e \in Beats \X Slots /\ i \in Inputs
           /\ FifosOK'
<1>1. PICK x : x = Beat(b)
  OBVIOUS
<1>2. /\ x \in Beats /\ x = <<b, sent[b] + 1>> /\ x[1] = b /\ x[2] = sent[b] + 1
      /\ In[b] \in Inputs
      /\ sent[b] \in Nat /\ NbBeats[b] \in Nat \ {0} /\ sent[b] + 1 <= NbBeats[b]
      /\ \A v \in Beats : v[1] = b /\ (sent[b] = 0 \/ v[2] > sent[b]) => master[v] # "granted"
  BY <1>1, NextBeat
<1>3. s \in Slots
  BY DEF TakenBy
<1>4. e \in Beats \X Slots /\ e[1] = x /\ e[2] = s /\ i \in Inputs
  BY <1>1, <1>2, <1>3
<1>5. pending \in [Inputs -> Seq(Beats \X Slots)]
  BY DEF BeatIInv, TypesOK
<1>6. /\ pending' \in [Inputs -> Seq(Beats \X Slots)]
      /\ Queued' = Queued \cup {e}
      /\ \A j \in Inputs : j # i => pending'[j] = pending[j]
      /\ pending'[i] = Append(pending[i], e)
  BY ONLY <1>4, <1>5, pending' = [pending EXCEPT ![i] = Append(@, e)], QueuedJoins
<1>7. PICK q, t : q = pending[i] /\ t = pending'[i]
  OBVIOUS
<1>8. q \in Seq(Beats \X Slots) /\ t = Append(q, e)
  BY <1>4, <1>5, <1>6, <1>7
<1>9. t # <<>> /\ (q # <<>> => Head(t) = Head(q))
  BY ONLY <1>4, <1>8, AppendPlaces
<1>10. \A j \in Inputs : pending[j] # <<>> =>
          pending'[j] # <<>> /\ Head(pending'[j]) = Head(pending[j])
  BY <1>6, <1>7, <1>9
<1>11. /\ \A u \in Slots : \A d : UsedBy(u, d)' <=> UsedBy(u, d) \/ (u = s /\ d = b)
       /\ \A u \in Slots : u # s => ~UsedBy(u, b)
  BY TakenAre
<1>12. /\ sent'[b] = IF sent[b] + 1 = NbBeats[b] THEN 0 ELSE sent[b] + 1
       /\ \A d \in Bursts : d # b => sent'[d] = sent[d]
  <2>1. PICK k : k = (sent[b] + 1) % NbBeats[b]
    OBVIOUS
  <2>2. k = IF sent[b] + 1 = NbBeats[b] THEN 0 ELSE sent[b] + 1
    <3>1. PICK n, m : n = NbBeats[b] /\ m = sent[b] + 1
      OBVIOUS
    <3>2. n \in Nat \ {0} /\ m \in 0 .. n /\ k = m % n
      BY <1>2, <2>1, <3>1
    <3>3. (m < n => k = m) /\ (m = n => k = 0)
      BY ONLY <3>2
    <3> QED
      BY <3>1, <3>2, <3>3
  <2>3. sent' = [sent EXCEPT ![b] = k] /\ sent \in [Bursts -> Nat]
    BY <2>1 DEF Next_beat, BeatIInv, TypesOK
  <2> QED
    BY <2>2, <2>3
<1>13. \A p \in Queued : p[1][1] = b => p[1][2] <= sent[b] /\ sent[b] # 0 /\ p[2] = s
  <2>1. ASSUME NEW p \in Queued, p[1][1] = b PROVE p[1][2] <= sent[b] /\ sent[b] # 0 /\ p[2] = s
    <3>1. /\ p[1] \in Beats /\ p[2] \in Slots /\ master[p[1]] = "granted" /\ UsedBy(p[2], b)
          /\ p[1][2] \in 1 .. NbBeats[b]
      BY <2>1, QueuedTypes DEF BeatIInv, PlacesOK, FifosOK
    <3> QED
      BY <1>2, <1>11, <2>1, <3>1
  <2> QED
    BY <2>1
<1>14. Fifo(t, i)
  <2>1. Fifo(q, i) /\ In[e[1][1]] = i
    BY <1>2, <1>4, <1>7 DEF BeatIInv, FifosOK
  <2>2. \A m \in DOMAIN q : q[m][1][1] = e[1][1] => q[m][1][2] < e[1][2]
    <3>1. ASSUME NEW m \in DOMAIN q, q[m][1][1] = b PROVE q[m][1][2] < sent[b] + 1
      <4>1. PICK p : p = q[m]
        OBVIOUS
      <4>2. p \in Queued
        <5>1. p \in Queued <=> \E j \in Inputs : \E n \in DOMAIN pending[j] : p = pending[j][n]
          BY ONLY QueuedIs
        <5> QED
          BY <1>4, <1>7, <4>1, <5>1
      <4>3. p[1][2] <= sent[b] /\ p[1][2] \in Nat
        BY <1>13, <3>1, <4>1, <4>2, QueuedTypes DEF BeatIInv
      <4> QED
        BY <1>2, <4>1, <4>3
    <3> QED
      BY <1>2, <1>4, <3>1
  <2> QED
    BY ONLY <1>4, <1>8, <2>1, <2>2, FifoJoins
<1>15. FifosOK'
  <2>1. \A j \in Inputs : Fifo(pending[j], j)'
    <3>1. \A j \in Inputs : Fifo(pending'[j], j)
      BY <1>6, <1>7, <1>14 DEF BeatIInv, FifosOK
    <3> QED
      BY <3>1 DEF Fifo
  <2>2. \A p \in Queued' : UsedBy(p[2], p[1][1])'
    <3>1. UsedBy(e[2], e[1][1])'
      BY <1>2, <1>3, <1>4, <1>11
    <3>2. \A p \in Queued : UsedBy(p[2], p[1][1])'
      BY <1>11, QueuedTypes DEF BeatIInv, FifosOK
    <3> QED
      BY <1>6, <3>1, <3>2
  <2>3. ASSUME NEW p \in Queued', p[1][2] < NbBeats[p[1][1]],
               p[1][2] < sent'[p[1][1]] \/ sent'[p[1][1]] = 0
        PROVE  <<<<p[1][1], p[1][2] + 1>>, p[2]>> \in Queued'
    <3>1. PICK r : r = <<<<p[1][1], p[1][2] + 1>>, p[2]>>
      OBVIOUS
    <3>2. CASE p \in Queued /\ p[1][1] # b
      <4>1. sent'[p[1][1]] = sent[p[1][1]]
        BY <1>12, <3>2, QueuedTypes DEF BeatIInv
      <4>2. r \in Queued
        BY <2>3, <3>1, <3>2, <4>1 DEF BeatIInv, FifosOK
      <4> QED
        BY <1>6, <3>1, <4>2
    <3>3. CASE p \in Queued /\ p[1][1] = b
      <4>1. p[1][2] <= sent[b] /\ p[2] = s /\ p[1][2] \in Nat
        BY <1>13, <3>3, QueuedTypes DEF BeatIInv
      <4>2. CASE p[1][2] < sent[b]
        <5>1. r \in Queued
          BY <2>3, <3>1, <3>3, <4>2 DEF BeatIInv, FifosOK
        <5> QED
          BY <1>6, <3>1, <5>1
      <4>3. CASE p[1][2] = sent[b]
        <5>1. r = e
          BY <1>1, <1>2, <3>1, <3>3, <4>1, <4>3
        <5> QED
          BY <1>6, <3>1, <5>1
      <4> QED
        BY <1>2, <4>1, <4>2, <4>3
    <3>4. CASE p = e
      BY <1>2, <1>4, <1>12, <2>3, <3>4
    <3> QED
      BY <1>6, <3>2, <3>3, <3>4
  <2> QED
    BY <2>1, <2>2, <2>3 DEF FifosOK
<1> QED
  BY <1>4, <1>6, <1>10, <1>15

LEMMA Keep_ReqQueued ==
    ASSUME BeatIInv, NEW b \in Bursts, Issues(b), ReqQueued(b),
           UNCHANGED <<svars, round_robin_next, below, handler, wake, cb, pvars>>
    PROVE  BeatIInv'
<1>1. PICK x, s, i : x = Beat(b) /\ s = SlotFor(b) /\ i = In[b]
  OBVIOUS
<1>2. PICK e : e = <<x, s>>
  OBVIOUS
<1>3. TakenBy(s, b)
  BY <1>1, SlotTaken
<1>4. /\ ~Refused(b) /\ ~Full(b) /\ Next_beat(b) /\ Becomes(Beat(b), "granted")
      /\ active_multi_beat_slot' = [active_multi_beat_slot EXCEPT ![In[b]] = Tracker(b, s)]
      /\ pending' = [pending EXCEPT ![i] = Append(@, e)]
      /\ pending_bytes' = [pending_bytes EXCEPT ![i] = @ + fifo_cost(b)]
      /\ head_cycle' = IF pending[i] = <<>> THEN [head_cycle EXCEPT ![i].nxt = TRUE] ELSE head_cycle
      /\ fsm_event' = Scheduled
      /\ UNCHANGED denied_upstream /\ UNCHANGED elected_input
  BY <1>1, <1>2 DEF ReqQueued, SlotFor
<1>5. /\ UNCHANGED <<stalled, stalled_input>> /\ UNCHANGED <<round_robin_next, below, handler, wake, cb>>
      /\ UNCHANGED <<proxy_retry_waiter, waiter, pst, pcmd>> /\ UNCHANGED <<denied_upstream, cb>>
      /\ UNCHANGED <<pst, pcmd>> /\ UNCHANGED below
  BY <1>4 DEF svars, pvars
<1>6. /\ pending' \in [Inputs -> Seq(Beats \X Slots)] /\ Queued' = Queued \cup {e}
      /\ \A j \in Inputs : pending[j] # <<>> =>
            pending'[j] # <<>> /\ Head(pending'[j]) = Head(pending[j])
      /\ e \in Beats \X Slots /\ i \in Inputs
      /\ FifosOK'
  BY ONLY BeatIInv, b \in Bursts, Issues(b), <1>1, <1>2, <1>3, <1>4, QueuedFifos
<1>7. /\ SlotsOK' /\ ActiveOK' /\ BelowOK' /\ PlacesOK'
      /\ active_multi_beat_slot' \in [Inputs -> Slots \cup {Null}]
  BY ONLY BeatIInv, b \in Bursts, Issues(b), <1>1, <1>2, <1>3, <1>4, <1>5, <1>6, QueuedSlots
<1>8. LastsOK'
  BY ONLY BeatIInv, b \in Bursts, Issues(b), <1>1, <1>2, <1>3, <1>4, <1>5, <1>6, QueuedLasts
<1>9. /\ sent' \in [Bursts -> Nat] /\ \A d \in Bursts : sent'[d] < NbBeats[d]
      /\ Rounds'
  BY <1>4, RoundGoesOn
<1>10. Flags'
  BY <1>4, <1>5, FlagsGoOn
<1>11. pending_bytes' \in [Inputs -> Nat] /\ BytesOK'
  <2>1. PICK q, t, n, k : q = pending[i] /\ t = pending'[i] /\ n = pending_bytes[i] /\ k = fifo_cost(b)
    OBVIOUS
  <2>2. /\ pending \in [Inputs -> Seq(Beats \X Slots)] /\ pending_bytes \in [Inputs -> Nat]
    BY DEF BeatIInv, TypesOK
  <2>3. q \in Seq(Beats \X Slots) /\ Counted(q, n) /\ t = Append(q, e)
    BY <1>4, <1>6, <2>1, <2>2 DEF BeatIInv, BytesOK
  <2>4. e[1][1] = b
    BY <1>1, <1>2 DEF Beat
  <2>5. n \in Nat /\ Counted(t, n + fifo_cost(e[1][1]))
    BY ONLY <1>6, <2>3, CountedJoins
  <2>6. k \in Nat /\ n + k <= max_input_pending_size /\ Counted(t, n + k)
    BY <1>1, <1>4, <2>1, <2>4, <2>5, CostIs, RouterBeatAssumption DEF Full
  <2>7. pending_bytes' \in [Inputs -> Nat] /\ pending_bytes'[i] = n + k
        /\ \A j \in Inputs : j # i => pending_bytes'[j] = pending_bytes[j] /\ pending'[j] = pending[j]
    BY <1>4, <1>6, <2>1, <2>2, <2>5, <2>6
  <2>8. ASSUME NEW j \in Inputs
        PROVE  Counted(pending'[j], pending_bytes'[j]) /\ pending_bytes'[j] <= max_input_pending_size
    <3>1. CASE j = i
      BY <2>1, <2>6, <2>7, <3>1
    <3>2. CASE j # i
      BY <2>7, <3>2 DEF BeatIInv, BytesOK
    <3> QED
      BY <3>1, <3>2
  <2>9. \A j \in Inputs : Counted(pending[j], pending_bytes[j])'
    BY <2>8 DEF Counted, Sums, Cost
  <2> QED
    BY <2>7, <2>8, <2>9 DEF BytesOK
<1>12. LockOwned'
  <2>1. s \in Slots /\ UsedSame(s)
    BY <1>3 DEF TakenBy
  <2>2. \A o \in Outputs, c \in Channels : elected_input'[o][c] \in {Null, elected_input[o][c]}
    BY <1>4
  <2> QED
    BY <2>1, <2>2, LockStays
<1>13. StallsOK'
  <2>1. s \in Slots /\ UsedSame(s)
    BY <1>3 DEF TakenBy
  <2>2. ASSUME NEW o \in Outputs, NEW c \in Channels PROVE StallRight(o, c)'
    BY ONLY BeatIInv, <1>5, <1>6, <2>1, <2>2, StallStays
  <2> QED
    BY <2>2, StallsAre
<1>14. ProxyOK'
  <2>1. \A t \in Slots : UsedBy(t, Proxy)' <=> UsedBy(t, Proxy)
    BY <1>3, TakenAre, Nothing
  <2> QED
    BY <1>5, <2>1 DEF BeatIInv, ProxyOK
<1>15. TypesOK'
  <2>1. burst_table' \in [Slots -> Entry]
    BY <1>3 DEF TakenBy
  <2>2. head_cycle' \in [Inputs -> [cur : BOOLEAN, nxt : BOOLEAN]]
    <3>1. head_cycle \in [Inputs -> [cur : BOOLEAN, nxt : BOOLEAN]]
      BY DEF BeatIInv, TypesOK
    <3> QED
      BY <1>4, <1>6, <3>1
  <2>3. fsm_event' \in {"off", "next", "due"}
    BY <1>4, ScheduledIs DEF BeatIInv
  <2>4. master' \in [Beats -> {"idle", "denied", "retrying", "granted"}]
    <3>1. x \in Beats
      BY <1>1, NextBeat
    <3> QED
      BY <1>1, <1>4, <3>1, BecomesIs
  <2> QED
    BY <1>4, <1>5, <1>6, <1>7, <1>9, <1>11, <2>1, <2>2, <2>3, <2>4 DEF BeatIInv, TypesOK
<1> QED
  BY <1>6, <1>7, <1>8, <1>9, <1>10, <1>11, <1>12, <1>13, <1>14, <1>15 DEF BeatIInv

LEMMA Keep_req_muxed ==
    ASSUME BeatIInv, NEW b \in Bursts, Issues(b), req_muxed(b)
    PROVE  BeatIInv'
BY Keep_ReqRefused, Keep_ReqDenied, Keep_ReqQueued DEF req_muxed

LEMMA Keep_BeatSend ==
    ASSUME BeatIInv, NEW b \in Bursts, BeatSend(b)
    PROVE  BeatIInv'
BY Keep_req_muxed DEF BeatSend, Issues

LEMMA Keep_BeatResend ==
    ASSUME BeatIInv, NEW b \in Bursts, BeatResend(b)
    PROVE  BeatIInv'
BY Keep_req_muxed DEF BeatResend, Issues


----------------------------------------------------------------------------
(* The invariant.                                                          *)

LEMMA BeginsRight == BeatInit => BeatIInv
<1> SUFFICES ASSUME BeatInit PROVE BeatIInv
  OBVIOUS
<1>1. /\ burst_table = [s \in Slots |-> Free]
      /\ pending = [i \in Inputs |-> <<>>] /\ pending_bytes = [i \in Inputs |-> 0]
      /\ head_cycle = [i \in Inputs |-> [cur |-> FALSE, nxt |-> FALSE]]
      /\ active_multi_beat_slot = [i \in Inputs |-> Null]
      /\ denied_upstream = [i \in Inputs |-> FALSE]
      /\ elected_input = [o \in Outputs |-> [c \in Channels |-> Null]]
      /\ stalled = [o \in Outputs |-> [c \in Channels |-> FALSE]]
      /\ stalled_input = [o \in Outputs |-> [c \in Channels |-> Null]]
      /\ round_robin_next = 0 /\ fsm_event = "off" /\ below = {}
      /\ handler = Idle /\ wake = nb_input_port /\ cb = Null
      /\ sent = [b \in Bursts |-> 0] /\ master = [x \in Beats |-> "idle"]
      /\ proxy_retry_waiter = Null /\ waiter = "Pending"
      /\ pst = "idle" /\ pcmd = NoCmd
  BY DEF BeatInit
<1>2. /\ Free \in Entry /\ ~Free.in_use /\ Free.pending_master_is_last = <<>>
  <2>1. PICK e : e = <<>>
    OBVIOUS
  <2>2. e \in Seq(BOOLEAN)
    BY <2>1
  <2>3. PICK f : f = Free
    OBVIOUS
  <2>4. f = [in_use |-> FALSE, input |-> Null, output_id |-> Null, channel |-> 0,
             original_burst_id |-> Null, pending_master_is_last |-> e]
    BY <2>1, <2>3 DEF Free
  <2>5. f \in Entry /\ ~f.in_use /\ f.pending_master_is_last = e
    BY <2>2, <2>4 DEF Entry, Channels
  <2> QED
    BY <2>1, <2>3, <2>5
<1>3. \A s \in Slots : burst_table[s] = Free /\ ~burst_table[s].in_use
                       /\ burst_table[s].pending_master_is_last = <<>>
  BY <1>1, <1>2
<1>4. \A i \in Inputs : pending[i] = <<>>
  BY <1>1
<1>5. Queued = {}
  <2>1. \A i \in Inputs : DOMAIN pending[i] = {}
    BY <1>4
  <2>2. ASSUME NEW q \in Queued PROVE FALSE
    BY <2>1, QueuedIs
  <2> QED
    BY <2>2
<1>6. TypesOK
  <2>1. burst_table \in [Slots -> Entry]
    BY <1>1, <1>2
  <2>2. pending \in [Inputs -> Seq(Beats \X Slots)]
    <3>1. PICK e : e = <<>>
      OBVIOUS
    <3>2. e \in Seq(Beats \X Slots)
      BY <3>1
    <3> QED
      BY <1>1, <3>1, <3>2
  <2>3. handler \in Handlers
    BY <1>1, HandlersAre
  <2>4. /\ round_robin_next \in Inputs /\ wake \in 0 .. nb_input_port
        /\ sent \in [Bursts -> Nat] /\ \A b \in Bursts : sent[b] < NbBeats[b]
    BY <1>1, RouterBeatAssumption DEF Inputs
  <2>5. IsFiniteSet(below)
    BY <1>1, FS_EmptySet
  <2>6. pcmd \in (Outputs \cup {Invalid}) \X BOOLEAN
    BY <1>1 DEF NoCmd
  <2>7. /\ pending_bytes \in [Inputs -> Nat]
        /\ head_cycle \in [Inputs -> [cur : BOOLEAN, nxt : BOOLEAN]]
        /\ active_multi_beat_slot \in [Inputs -> Slots \cup {Null}]
        /\ denied_upstream \in [Inputs -> BOOLEAN]
        /\ elected_input \in [Outputs -> [Channels -> Inputs \cup {Null}]]
        /\ stalled \in [Outputs -> [Channels -> BOOLEAN]]
        /\ stalled_input \in [Outputs -> [Channels -> Inputs \cup {Null}]]
        /\ master \in [Beats -> {"idle", "denied", "retrying", "granted"}]
    BY <1>1
  <2> QED
    BY <1>1, <2>1, <2>2, <2>3, <2>4, <2>5, <2>6, <2>7 DEF TypesOK
<1>7. \A b \in Bursts : sent[b] = 0
  BY <1>1
<1>8. \A x \in Beats : master[x] = "idle" /\ master[x] \notin Marked
  BY <1>1 DEF Marked
<1>9. Rounds
  <2>1. \A b \in Bursts : ~UnderWay(b)
    BY <1>7, <1>8, BeatIs, RouterBeatAssumption DEF UnderWay
  <2> QED
    BY <1>8, <2>1 DEF Rounds
<1>10. Flags
  BY <1>1, <1>8 DEF Flags
<1>11. SlotsOK
  BY <1>3 DEF SlotsOK, UsedBy
<1>12. ActiveOK
  BY <1>1, <1>7 DEF ActiveOK
<1>13. FifosOK /\ BelowOK /\ PlacesOK
  <2>1. \A i \in Inputs : Fifo(pending[i], i)
    BY <1>4 DEF Fifo
  <2> QED
    BY <1>1, <1>5, <1>8, <2>1 DEF FifosOK, BelowOK, PlacesOK
<1>14. LastsOK
  <2>1. \A s \in Slots : Mine(s) = {}
    BY <1>1 DEF Mine, At
  <2>2. Cardinality({}) = 0
    BY FS_EmptySet
  <2>3. \A s \in Slots : Len(burst_table[s].pending_master_is_last) = 0
    BY <1>3
  <2>4. ASSUME NEW s \in Slots
        PROVE  Len(burst_table[s].pending_master_is_last) = Cardinality(Mine(s))
    BY <2>1, <2>2, <2>3
  <2>5. \A s \in Slots : \A k \in 1 .. Len(burst_table[s].pending_master_is_last) : FALSE
    BY <2>3
  <2> QED
    BY <2>4, <2>5 DEF LastsOK
<1>15. BytesOK
  BY <1>1, CountedNone, RouterBeatAssumption DEF BytesOK
<1>16. LockOwned
  BY <1>1 DEF LockOwned
<1>17. StallsOK
  BY <1>1 DEF StallsOK, StalledHead
<1>18. ProxyOK
  BY <1>1, <1>3 DEF ProxyOK, UsedBy
<1> QED
  BY <1>6, <1>9, <1>10, <1>11, <1>12, <1>13, <1>14, <1>15, <1>16, <1>17, <1>18 DEF BeatIInv

LEMMA StutterKeeps ==
    ASSUME BeatIInv, UNCHANGED BeatVars
    PROVE  BeatIInv'
<1>1. /\ UNCHANGED burst_table /\ UNCHANGED elected_input /\ UNCHANGED <<stalled, stalled_input>>
      /\ UNCHANGED <<pending, pending_bytes, active_multi_beat_slot>> /\ UNCHANGED head_cycle
      /\ UNCHANGED <<below, sent>> /\ UNCHANGED <<proxy_retry_waiter, waiter, pst, pcmd>>
      /\ UNCHANGED denied_upstream /\ UNCHANGED round_robin_next /\ UNCHANGED fsm_event
      /\ UNCHANGED handler /\ UNCHANGED wake /\ UNCHANGED cb /\ UNCHANGED master
      /\ UNCHANGED <<master, denied_upstream, cb>>
  BY DEF BeatVars, tvars, svars, ivars, mvars, pvars
<1>2. OnlyEvents /\ MastersKept
  BY <1>1, SameMasters DEF OnlyEvents
<1>3. TypesOK'
  BY <1>1 DEF BeatIInv, TypesOK
<1>4. Flags'
  BY <1>1, Kept_Flags DEF BeatIInv
<1> QED
  BY <1>2, <1>3, <1>4, EventsStill

LEMMA NextKeeps ==
    ASSUME InvalidAlone, BeatIInv, [BeatNext]_BeatVars
    PROVE  BeatIInv'
<1>1. ASSUME NEW b \in Bursts, BeatSend(b) PROVE BeatIInv'
  BY <1>1, Keep_BeatSend
<1>2. ASSUME NEW b \in Bursts, BeatResend(b) PROVE BeatIInv'
  BY <1>2, Keep_BeatResend
<1>3. ASSUME CallbackReturns PROVE BeatIInv'
  BY <1>3, Keep_CallbackReturns
<1>4. ASSUME WakeNext PROVE BeatIInv'
  BY <1>4, Keep_WakeNext
<1>5. ASSUME ClockEdge PROVE BeatIInv'
  BY <1>5, Keep_ClockEdge
<1>6. ASSUME FsmStarts PROVE BeatIInv'
  BY <1>6, Keep_FsmStarts
<1>7. ASSUME FsmEnds PROVE BeatIInv'
  BY <1>7, Keep_FsmEnds
<1>8. ASSUME NEW i \in Inputs, FsmSkips(i) PROVE BeatIInv'
  BY <1>8, Keep_FsmSkips
<1>9. ASSUME NEW i \in Inputs, FsmInvalid(i) PROVE BeatIInv'
  BY <1>9, Keep_FsmInvalid
<1>10. ASSUME NEW i \in Inputs, FsmForwards(i) PROVE BeatIInv'
  BY <1>10, Keep_FsmForwards
<1>11. ASSUME NEW y \in below, RespBeat(y) PROVE BeatIInv'
  BY <1>11, Keep_RespBeat
<1>12. ASSUME NEW y \in below, RespLast(y) PROVE BeatIInv'
  BY <1>12, Keep_RespLast
<1>13. ASSUME RespEnds PROVE BeatIInv'
  BY <1>13, Keep_RespEnds
<1>14. ASSUME NEW o \in Outputs, NEW C \in Retries, retry_muxed(o, C) PROVE BeatIInv'
  BY <1>14, Keep_retry_muxed
<1>15. ASSUME RetryChannel PROVE BeatIInv'
  BY <1>15, Keep_RetryChannel
<1>16. ASSUME RetryEnds PROVE BeatIInv'
  BY <1>16, Keep_RetryEnds
<1>17. ASSUME NEW cmd \in ProxyCmds, handle_proxy_command(cmd) PROVE BeatIInv'
  BY <1>17, Keep_handle_proxy_command
<1>18. ASSUME ProxyRetries PROVE BeatIInv'
  BY <1>18, Keep_ProxyRetries
<1>19. ASSUME ProxyReplied PROVE BeatIInv'
  BY <1>19, Keep_ProxyReplied
<1>20. ASSUME UNCHANGED BeatVars PROVE BeatIInv'
  BY <1>20, StutterKeeps
<1> QED
  BY <1>1, <1>2, <1>3, <1>4, <1>5, <1>6, <1>7, <1>8, <1>9, <1>10, <1>11, <1>12, <1>13, <1>14,
     <1>15, <1>16, <1>17, <1>18, <1>19, <1>20 DEF BeatNext

(* The beats of a FIFO are all different.                                  *)
LEMMA FifoApart ==
    ASSUME BeatIInv, NEW i \in Inputs, NEW g, g = [k \in DOMAIN pending[i] |-> pending[i][k][1]]
    PROVE  IsInjective(g)
<1>1. PICK q : q = pending[i]
  OBVIOUS
<1>2. q \in Seq(Beats \X Slots) /\ Fifo(q, i)
  BY <1>1 DEF BeatIInv, TypesOK, FifosOK
<1>3. DOMAIN q = 1 .. Len(q) /\ Len(q) \in Nat /\ \A m \in DOMAIN q : q[m] \in Beats \X Slots
  BY <1>2, SeqPlaces
<1>4. \A m \in DOMAIN q : q[m][1][2] \in Int
  <2>1. ASSUME NEW m \in DOMAIN q PROVE q[m][1][2] \in Int
    <3>1. q[m][1] \in Beats
      BY <1>3
    <3>2. PICK x \in Beats : x = q[m][1]
      BY <3>1
    <3>3. x[2] \in 1 .. NbBeats[x[1]]
      BY BeatIs
    <3> QED
      BY <3>2, <3>3
  <2> QED
    BY <2>1
<1>5. ASSUME NEW m \in DOMAIN q, NEW n \in DOMAIN q, q[m][1] = q[n][1], m < n PROVE FALSE
  BY <1>2, <1>4, <1>5 DEF Fifo
<1>6. \A m \in DOMAIN q, n \in DOMAIN q : q[m][1] = q[n][1] => m = n
  BY <1>3, <1>5
<1>7. DOMAIN g = DOMAIN q /\ \A m \in DOMAIN q : g[m] = q[m][1]
  BY <1>1
<1> QED
  <2>1. \A m, n \in DOMAIN g : g[m] = g[n] => m = n
    BY ONLY <1>6, <1>7
  <2> QED
    BY ONLY <2>1 DEF IsInjective

LEMMA InvImplied == BeatIInv => BeatInv
<1> SUFFICES ASSUME BeatIInv PROVE BeatInv
  OBVIOUS
<1>1. BeatTypeOK
  <2>1. handler.kind \in {"idle", "fsm", "resp", "retry"}
    BY HandlerKinds DEF BeatIInv, TypesOK
  <2> QED
    BY <2>1 DEF BeatIInv, TypesOK, BeatTypeOK, Entry
<1>2. SlotsExact
  <2>1. ASSUME NEW q \in Queued
        PROVE  SlotOf(q[2], q[1]) /\ burst_table[q[2]].output_id \in {Null, Dest[q[1][1]]}
    <3>1. q[2] \in Slots /\ q[1][1] \in Bursts /\ UsedBy(q[2], q[1][1])
      BY QueuedTypes DEF BeatIInv, FifosOK
    <3>2. BeatSlotShape(q[2])
      BY <3>1 DEF BeatIInv, SlotsOK, UsedBy
    <3> QED
      BY <3>1, <3>2, Nothing DEF SlotOf, BeatSlotShape, UsedBy
  <2>2. ASSUME NEW y \in below PROVE SlotOf(y[2], y[1]) /\ burst_table[y[2]].output_id = y[3]
    <3>1. y[2] \in Slots /\ UsedBy(y[2], y[1][1]) /\ burst_table[y[2]].output_id = y[3]
      BY BelowTypes DEF BeatIInv, BelowOK
    <3>2. BeatSlotShape(y[2])
      BY <3>1 DEF BeatIInv, SlotsOK, UsedBy
    <3> QED
      BY <3>1, <3>2, Nothing DEF SlotOf, BeatSlotShape, UsedBy
  <2>3. ASSUME NEW s \in Slots
        PROVE  LET lasts == burst_table[s].pending_master_is_last
                   mine  == {y \in below : y[2] = s}
               IN  /\ Len(lasts) = Cardinality(mine)
                   /\ \A k \in 1 .. Len(lasts) :
                         lasts[k] <=> k = Len(lasts) /\ AllForwarded(burst_table[s].original_burst_id)
    BY DEF BeatIInv, LastsOK, Mine, At
  <2>4. ASSUME NEW i \in Inputs, active_multi_beat_slot[i] # Null
        PROVE  \E b \in Bursts : sent[b] > 0 /\ SlotOf(active_multi_beat_slot[i], <<b, sent[b]>>)
    <3>1. PICK s \in Slots : s = active_multi_beat_slot[i]
      BY <2>4 DEF BeatIInv, TypesOK
    <3>2. PICK b \in Bursts : In[b] = i /\ sent[b] > 0 /\ UsedBy(s, b)
      BY <2>4, <3>1 DEF BeatIInv, ActiveOK
    <3>3. BeatSlotShape(s)
      BY <3>2 DEF BeatIInv, SlotsOK, UsedBy
    <3>4. SlotOf(s, <<b, sent[b]>>)
      BY <3>2, <3>3, Nothing DEF SlotOf, BeatSlotShape, UsedBy
    <3> QED
      BY <3>1, <3>2, <3>4
  <2> QED
    BY <2>1, <2>2, <2>3, <2>4 DEF SlotsExact
<1>3. GrantedHeld
  <2>1. ASSUME NEW i \in Inputs
        PROVE  /\ IsInjective([k \in DOMAIN pending[i] |-> pending[i][k][1]])
               /\ \A k \in DOMAIN pending[i] : In[pending[i][k][1][1]] = i
               /\ pending_bytes[i] = FifoBytes(pending[i])
               /\ pending_bytes[i] <= max_input_pending_size
               /\ denied_upstream[i] <=> \E x \in Beats : In[x[1]] = i /\ master[x] = "denied"
    <3>1. IsInjective([k \in DOMAIN pending[i] |-> pending[i][k][1]])
      BY FifoApart
    <3>2. \A k \in DOMAIN pending[i] : In[pending[i][k][1][1]] = i
      BY DEF BeatIInv, FifosOK, Fifo
    <3>3. pending_bytes[i] = FifoBytes(pending[i]) /\ pending_bytes[i] <= max_input_pending_size
      <4>1. PICK q, n : q = pending[i] /\ n = pending_bytes[i]
        OBVIOUS
      <4>2. q \in Seq(Beats \X Slots) /\ Counted(q, n) /\ n <= max_input_pending_size
        BY <4>1 DEF BeatIInv, TypesOK, BytesOK
      <4>3. FifoBytes(q) = n
        BY ONLY <4>2, CountedIs
      <4> QED
        BY <4>1, <4>2, <4>3
    <3>4. denied_upstream[i] <=> \E x \in Beats : In[x[1]] = i /\ master[x] = "denied"
      BY DEF BeatIInv, Flags
    <3> QED
      BY <3>1, <3>2, <3>3, <3>4
  <2>2. LET waiting == {q[1] : q \in Queued}
            held    == {y[1] : y \in {z \in below : z[1][1] # Proxy}}
        IN  /\ waiting \cap held = {}
            /\ waiting \cup held = {x \in Beats : master[x] = "granted"}
            /\ \A y, z \in below : y[1] = z[1] => y = z
    <3> DEFINE waiting == {q[1] : q \in Queued}
               held    == {y[1] : y \in {z \in below : z[1][1] # Proxy}}
    <3>1. waiting \cap held = {}
      BY DEF BeatIInv, PlacesOK
    <3>2. \A v : v \in waiting => v \in Beats /\ master[v] = "granted"
      BY QueuedTypes DEF BeatIInv, PlacesOK
    <3>3. \A v : v \in held => v \in Beats /\ master[v] = "granted"
      BY BelowTypes DEF BeatIInv, PlacesOK
    <3>4. \A v \in Beats : master[v] = "granted" => v \in waiting \/ v \in held
      BY BeatIs DEF BeatIInv, PlacesOK
    <3>5. \A y, z \in below : y[1] = z[1] => y = z
      BY DEF BeatIInv, BelowOK
    <3> QED
      BY <3>1, <3>2, <3>3, <3>4, <3>5
  <2> QED
    BY <2>1, <2>2 DEF GrantedHeld
<1>4. OutputsCurrent
  BY DEF BeatIInv, StallsOK, OutputsCurrent
<1> QED
  BY <1>1, <1>2, <1>3, <1>4 DEF BeatInv

(* A slot index stays that of its burst on its way through FIFO and        *)
(* output, each granted beat has one place, the bytes of a FIFO are those  *)
(* it counts, and what an output remembers of an input is true, for any    *)
(* number of inputs, outputs, slots and bursts.                            *)
THEOREM BeatInvHolds == ASSUME InvalidAlone PROVE BeatSpec => []BeatInv
<1>1. BeatIInv /\ [BeatNext]_BeatVars => BeatIInv'
  BY NextKeeps
<1> QED
  BY <1>1, BeginsRight, InvImplied, PTL DEF BeatSpec


----------------------------------------------------------------------------
(* Nobody is forgotten.                                                    *)

(* A beat that is not refused fits into an empty FIFO, and the proxy       *)
(* thread cannot hold every slot: its answers wake nobody.                 *)
Wakeable ==
    /\ \A b \in Bursts : ~TooLarge(b) => fifo_cost(b) <= max_input_pending_size
    /\ max_pending_bursts > 1 \/ ProxyCmds = {}

(* The slots that wake somebody stay.                                      *)
WakersStay ==
    /\ Queued \subseteq Queued'
    /\ \A s \in Slots : burst_table[s].in_use /\ burst_table[s].input # Null =>
          burst_table'[s].in_use /\ burst_table'[s].input # Null

LEMMA AwaitedStays ==
    ASSUME WakersStay, Awaited
    PROVE  Awaited'
BY DEF WakersStay, Awaited

LEMMA WakesStay ==
    ASSUME BeatIInv, WakesOK, \A j \in Inputs : denied_upstream'[j] => denied_upstream[j],
           wake' = 0 \/ (wake' = wake /\ WakersStay),
           handler'.kind # "fsm" /\ Queued' # {} => fsm_event' # "off",
           ProxyCmds = {} => pst' = pst
    PROVE  WakesOK'
<1>1. ASSUME NEW j \in Inputs, denied_upstream'[j] PROVE j >= wake' \/ Awaited'
  <2>1. CASE wake' = 0
    BY <2>1, InputsNat
  <2>2. CASE wake' = wake /\ WakersStay
    <3>1. j >= wake \/ Awaited
      BY <1>1 DEF WakesOK
    <3> QED
      BY <2>2, <3>1, AwaitedStays
  <2> QED
    BY <2>1, <2>2
<1> QED
  BY <1>1 DEF WakesOK

LEMMA SameWakers ==
    ASSUME IdentKept, Queued \subseteq Queued'
    PROVE  WakersStay
BY DEF IdentKept, WakersStay

(* The steps that leave beats, slots and denials alone.                    *)
LEMMA CalmWakes ==
    ASSUME BeatIInv, WakesOK, UNCHANGED burst_table, UNCHANGED pending, UNCHANGED wake,
           UNCHANGED denied_upstream, UNCHANGED pst,
           handler'.kind # "fsm" /\ Queued # {} => fsm_event' # "off"
    PROVE  WakesOK'
<1>1. Queued' = Queued
  BY QueuedKept
<1>2. WakersStay
  BY <1>1, SameTable, SameWakers
<1> QED
  BY <1>1, <1>2, WakesStay

LEMMA EventsWake ==
    ASSUME BeatIInv, WakesOK,
           \/ CallbackReturns \/ FsmStarts \/ FsmEnds \/ ClockEdge \/ RespEnds \/ RetryEnds \/ ProxyReplied
           \/ (\E y \in below : RespBeat(y)) \/ (\E o \in Outputs, C \in Retries : retry_muxed(o, C))
    PROVE  WakesOK'
<1>1. UNCHANGED burst_table /\ UNCHANGED pending /\ UNCHANGED wake /\ UNCHANGED denied_upstream
  BY DEF CallbackReturns, FsmStarts, FsmEnds, ClockEdge, RespEnds, RetryEnds, ProxyReplied, RespBeat,
         retry_muxed, tvars, ivars
<1>2. UNCHANGED pst \/ (ProxyReplied /\ pst # "idle" /\ pst' = "idle")
  BY DEF CallbackReturns, FsmStarts, FsmEnds, ClockEdge, RespEnds, RetryEnds, ProxyReplied, RespBeat,
         retry_muxed, pvars
<1>3. handler'.kind # "fsm" /\ Queued # {} => fsm_event' # "off"
  <2>1. CASE CallbackReturns \/ ProxyReplied
    BY <2>1 DEF CallbackReturns, ProxyReplied, WakesOK
  <2>2. CASE FsmStarts
    BY <2>2 DEF FsmStarts
  <2>3. CASE FsmEnds
    <3>1. Queued # {} => \E i \in Inputs : pending[i] # <<>>
      <4>1. ASSUME NEW q \in Queued PROVE \E i \in Inputs : pending[i] # <<>>
        <5>1. PICK i \in Inputs : \E m \in DOMAIN pending[i] : q = pending[i][m]
          BY QueuedIs
        <5>2. pending[i] \in Seq(Beats \X Slots)
          BY DEF BeatIInv, TypesOK
        <5> QED
          BY <5>1, <5>2, SeqPlaces
      <4> QED
        BY <4>1
    <3>2. Scheduled # "off"
      BY ScheduledIs DEF BeatIInv
    <3> QED
      BY <2>3, <3>1, <3>2 DEF FsmEnds, Rearmed
  <2>4. CASE ClockEdge
    <3>1. handler.kind # "fsm" /\ handler' = handler
      BY <2>4 DEF ClockEdge, Quiet, Running, Idle
    <3>2. fsm_event # "due" /\ fsm_event' = IF fsm_event = "next" THEN "due" ELSE "off"
      BY <2>4 DEF ClockEdge
    <3>3. fsm_event \in {"off", "next", "due"}
      BY DEF BeatIInv, TypesOK
    <3>4. Queued # {} => fsm_event # "off"
      BY <3>1 DEF WakesOK
    <3> QED
      BY <3>2, <3>3, <3>4
  <2>5. CASE RespEnds \/ RetryEnds
    <3>1. Scheduled # "off"
      BY ScheduledIs DEF BeatIInv
    <3> QED
      BY <2>5, <3>1 DEF RespEnds, RetryEnds
  <2>6. CASE \/ \E y \in below : RespBeat(y)
             \/ \E o \in Outputs, C \in Retries : retry_muxed(o, C)
    <3>1. fsm_event' = fsm_event /\ handler.kind # "fsm"
      BY <2>6 DEF RespBeat, retry_muxed, Quiet, Running
    <3> QED
      BY <3>1 DEF WakesOK
  <2> QED
    BY <2>1, <2>2, <2>3, <2>4, <2>5, <2>6
<1>4. CASE UNCHANGED pst
  BY <1>1, <1>3, <1>4, CalmWakes
<1>5. CASE pst # "idle" /\ pst' = "idle"
  <2>1. Queued' = Queued
    BY <1>1, QueuedKept
  <2>2. WakersStay
    BY <1>1, <2>1, SameTable, SameWakers
  <2>3. ProxyCmds # {}
    BY <1>5 DEF WakesOK
  <2> QED
    BY <1>1, <1>3, <2>1, <2>2, <2>3, WakesStay
<1> QED
  BY <1>2, <1>4, <1>5

LEMMA WakeNextWakes ==
    ASSUME BeatIInv, WakesOK, WakeNext
    PROVE  WakesOK'
<1>1. PICK denied, i : denied = {j \in Inputs : j >= wake /\ denied_upstream[j]} /\ i = Min(denied)
  OBVIOUS
<1>2. /\ UNCHANGED burst_table /\ UNCHANGED pending /\ UNCHANGED <<fsm_event, handler>> /\ UNCHANGED pst
      /\ IF denied = {} THEN wake' = nb_input_port /\ UNCHANGED <<denied_upstream, cb, master>>
         ELSE wake' = i + 1 /\ denied_upstream' = [denied_upstream EXCEPT ![i] = FALSE]
  BY <1>1 DEF WakeNext, tvars, ivars, pvars
<1>3. Queued' = Queued
  BY <1>2, QueuedKept
<1>4. Awaited' <=> Awaited
  BY <1>2, <1>3 DEF Awaited
<1>5. denied \subseteq Nat /\ denied \subseteq Inputs /\ wake \in Nat /\ Inputs \subseteq Nat
  <2>1. denied \subseteq Inputs
    BY <1>1
  <2>2. wake \in 0 .. nb_input_port
    BY DEF BeatIInv, TypesOK
  <2>3. \A j \in Inputs : j \in Nat
    BY ONLY InputsNat
  <2>4. wake \in Nat
    BY ONLY <2>2, RouterBeatAssumption
  <2> QED
    BY <2>1, <2>3, <2>4
<1>6. ASSUME NEW j \in Inputs, denied_upstream'[j] PROVE j >= wake' \/ Awaited
  <2>1. CASE denied = {}
    <3>1. ~(j >= wake)
      BY <1>1, <1>2, <1>6, <2>1
    <3> QED
      BY <1>2, <1>6, <2>1, <3>1 DEF WakesOK
  <2>2. CASE denied # {}
    <3>1. i \in denied /\ \A k \in denied : i <= k
      BY <1>1, <1>5, <2>2, LeastNat
    <3>2. j # i /\ denied_upstream[j]
      BY <1>2, <1>5, <1>6, <2>2, <3>1 DEF BeatIInv, TypesOK
    <3>3. CASE j >= wake
      <4>1. i <= j /\ i \in Nat /\ j \in Nat
        BY <1>1, <1>5, <3>1, <3>2, <3>3
      <4> QED
        BY <1>2, <2>2, <3>2, <4>1
    <3>4. CASE ~(j >= wake)
      BY <3>2, <3>4 DEF WakesOK
    <3> QED
      BY <3>3, <3>4
  <2> QED
    BY <2>1, <2>2
<1> QED
  BY <1>2, <1>3, <1>4, <1>6 DEF WakesOK

(* A denied beat waits for a beat or for a burst to go.                    *)
LEMMA DeniedAwaits ==
    ASSUME BeatIInv, WakesOK, Wakeable, NEW b \in Bursts, ReqDenied(b)
    PROVE  Awaited
<1>1. In[b] \in Inputs /\ ~TooLarge(b) /\ fifo_cost(b) \in Nat /\ fifo_cost(b) <= max_input_pending_size
  BY CostIs, RouterBeatAssumption DEF ReqDenied, Refused, TooLarge, Wakeable
<1>2. CASE Full(b)
  <2>1. PICK i, q, n : i = In[b] /\ q = pending[i] /\ n = pending_bytes[i]
    OBVIOUS
  <2>2. i \in Inputs /\ q \in Seq(Beats \X Slots) /\ n \in Nat /\ Counted(q, n)
    BY <1>1, <2>1 DEF BeatIInv, TypesOK, BytesOK
  <2>3. n # 0
    BY <1>1, <1>2, <2>1, <2>2, RouterBeatAssumption DEF Full
  <2>4. q # <<>>
    BY <2>2, <2>3, CountedEmpty
  <2>5. Head(pending[i]) \in Queued
    BY <2>1, <2>2, <2>4, HeadQueued DEF BeatIInv
  <2> QED
    BY <2>5 DEF Awaited
<1>3. CASE FreeSlots = {}
  <2>1. \A s \in Slots : burst_table[s].in_use
    BY <1>3 DEF FreeSlots
  <2>2. ASSUME NEW s \in Slots, ~UsedBy(s, Proxy) PROVE Awaited
    <3>1. BeatSlotShape(s) /\ burst_table[s].original_burst_id # Proxy
      BY <2>1, <2>2 DEF BeatIInv, SlotsOK, UsedBy
    <3>2. burst_table[s].input # Null
      BY <3>1, Nothing, RouterBeatAssumption DEF BeatSlotShape
    <3> QED
      BY <2>1, <3>2 DEF Awaited
  <2>3. \E s \in Slots : ~UsedBy(s, Proxy)
    <3>1. 0 \in Slots
      BY RouterBeatAssumption DEF Slots
    <3>2. CASE ProxyCmds = {}
      BY <3>1, <3>2 DEF WakesOK, BeatIInv, ProxyOK
    <3>3. CASE max_pending_bursts > 1
      <4>1. 1 \in Slots
        BY <3>3, RouterBeatAssumption DEF Slots
      <4> QED
        BY <3>1, <4>1 DEF BeatIInv, SlotsOK
    <3> QED
      BY <3>2, <3>3 DEF Wakeable
  <2> QED
    BY <2>2, <2>3
<1> QED
  BY <1>2, <1>3 DEF ReqDenied

LEMMA ReqWakes ==
    ASSUME BeatIInv, WakesOK, Wakeable, NEW b \in Bursts, Issues(b), req_muxed(b)
    PROVE  WakesOK'
<1>1. UNCHANGED wake /\ UNCHANGED handler /\ UNCHANGED pst
  BY DEF req_muxed, pvars
<1>2. CASE ReqRefused(b)
  <2>1. UNCHANGED burst_table /\ UNCHANGED pending /\ UNCHANGED denied_upstream /\ UNCHANGED fsm_event
    BY <1>2 DEF ReqRefused, tvars, ivars
  <2> QED
    BY <1>1, <2>1, CalmWakes DEF WakesOK
<1>3. CASE ReqDenied(b)
  <2>1. UNCHANGED burst_table /\ UNCHANGED pending /\ UNCHANGED fsm_event
    BY <1>3 DEF ReqDenied, tvars, ivars
  <2>2. Queued' = Queued
    BY <2>1, QueuedKept
  <2>3. Awaited'
    BY <1>3, <2>1, <2>2, DeniedAwaits DEF Awaited
  <2> QED
    BY <1>1, <2>1, <2>2, <2>3 DEF WakesOK
<1>4. CASE ReqQueued(b)
  <2>1. PICK x, s, i : x = Beat(b) /\ s = SlotFor(b) /\ i = In[b]
    OBVIOUS
  <2>2. PICK e : e = <<x, s>>
    OBVIOUS
  <2>3. TakenBy(s, b)
    BY <1>4, <2>1, SlotTaken
  <2>4. /\ Next_beat(b) /\ pending' = [pending EXCEPT ![i] = Append(@, e)]
        /\ fsm_event' = Scheduled /\ UNCHANGED denied_upstream
    BY <1>4, <2>1, <2>2 DEF ReqQueued, SlotFor
  <2>5. Queued' = Queued \cup {e}
    BY ONLY BeatIInv, b \in Bursts, Issues(b), <2>1, <2>2, <2>3, <2>4, QueuedFifos
  <2>6. Awaited'
    BY <2>5 DEF Awaited
  <2>7. fsm_event' # "off"
    BY <2>4, ScheduledIs DEF BeatIInv
  <2> QED
    BY <1>1, <2>6, <2>7 DEF WakesOK
<1> QED
  BY <1>2, <1>3, <1>4 DEF req_muxed

(* The handlers that forward.                                              *)
LEMMA StillFsm ==
    ASSUME handler \in Handlers, Running("fsm")
    PROVE  /\ Next_input.kind = "fsm"
           /\ \A o \in Outputs, c \in Channels : [Next_input EXCEPT !.used = @ \cup {<<o, c>>}].kind = "fsm"
<1>1. PICK n, u : handler = [kind |-> "fsm", k |-> n, used |-> u]
  BY HandlerKinds DEF Running
<1>2. PICK f : f = Next_input
  OBVIOUS
<1>3. f = [kind |-> "fsm", k |-> n + 1, used |-> u]
  BY <1>1, <1>2 DEF Next_input
<1>4. f.kind = "fsm"
  BY <1>3
<1>5. ASSUME NEW o \in Outputs, NEW c \in Channels
      PROVE  [f EXCEPT !.used = @ \cup {<<o, c>>}].kind = "fsm"
  <2>1. PICK v, g : v = f.used \cup {<<o, c>>} /\ g = [f EXCEPT !.used = v]
    OBVIOUS
  <2>2. g.kind = "fsm"
    BY <1>3, <2>1
  <2> QED
    BY <2>1, <2>2
<1> QED
  BY <1>2, <1>4, <1>5

LEMMA FsmWakes ==
    ASSUME BeatIInv, WakesOK, NEW i \in Inputs, FsmSkips(i) \/ FsmInvalid(i) \/ FsmForwards(i)
    PROVE  WakesOK'
<1>1. Turn(i) /\ Running("fsm") /\ UNCHANGED denied_upstream /\ UNCHANGED pst
  BY DEF FsmSkips, FsmInvalid, FsmForwards, Turn, pvars
<1>2. handler'.kind = "fsm"
  <2>1. handler \in Handlers
    BY DEF BeatIInv, TypesOK
  <2>2. CASE handler' = Next_input
    BY <1>1, <2>1, <2>2, StillFsm
  <2>3. CASE FsmForwards(i) /\ handler' # Next_input
    <3>1. PICK o, c : o = Output(i) /\ c = burst_table[HeadSlot(i)].channel
      OBVIOUS
    <3>2. o \in Outputs /\ c \in Channels /\ handler' = [Next_input EXCEPT !.used = @ \cup {<<o, c>>}]
      <4>1. pending[i] # <<>> /\ Output(i) # Invalid
        BY <2>3 DEF FsmForwards, Visible
      <4>2. o \in Outputs /\ c \in Channels
        BY <3>1, <4>1, OutputIs, HeadSlotShape
      <4> QED
        BY <2>3, <3>1, <4>2 DEF FsmForwards
    <3> QED
      BY <1>1, <2>1, <3>2, StillFsm
  <2> QED
    BY <2>2, <2>3 DEF FsmSkips, FsmInvalid
<1>3. wake' = 0 \/ (wake' = wake /\ WakersStay)
  <2>1. CASE FsmInvalid(i)
    BY <2>1 DEF FsmInvalid
  <2>2. ASSUME pending[i] # <<>>, Output(i) # Invalid, burst_table' = Decoded(i) PROVE IdentKept
    <3>1. ForwardTo(burst_table', i, Output(i))
      BY <2>2, DecodedIs
    <3> QED
      BY <2>2, <3>1, ForwardKeeps
  <2>3. CASE FsmSkips(i)
    <3>1. UNCHANGED pending /\ wake' = wake
      BY <2>3 DEF FsmSkips, ivars
    <3>2. IdentKept
      BY <2>2, <2>3, SameTable DEF FsmSkips, Visible
    <3> QED
      BY <3>1, <3>2, QueuedKept, SameWakers
  <2>4. CASE FsmForwards(i) /\ wake' # 0
    <3>1. /\ burst_table' = Decoded(i) /\ UNCHANGED pending /\ wake' = wake
          /\ pending[i] # <<>> /\ Output(i) # Invalid
      BY <2>4 DEF FsmForwards, ForwardGranted, ForwardDenied, Visible
    <3> QED
      BY <2>2, <3>1, QueuedKept, SameWakers
  <2> QED
    BY <2>1, <2>3, <2>4
<1> QED
  BY <1>1, <1>2, <1>3, WakesStay

LEMMA RetryWakes ==
    ASSUME BeatIInv, WakesOK, RetryChannel
    PROVE  WakesOK'
<1>1. handler.kind = "retry" /\ UNCHANGED denied_upstream /\ UNCHANGED pst /\ UNCHANGED fsm_event
  BY DEF RetryChannel, Running, pvars
<1>2. PICK o, c, i : o = handler.out /\ c = Min(handler.todo) /\ i = stalled_input[o][c]
  OBVIOUS
<1>3. CASE UNCHANGED burst_table /\ UNCHANGED pending /\ UNCHANGED wake
  BY <1>1, <1>3, CalmWakes DEF WakesOK
<1>4. CASE stalled[o][c] /\ i # Null /\ ForwardGranted(i, o, burst_table)
  <2>1. o \in Outputs /\ c \in Channels
    BY <1>2, RetryMoves DEF RetryChannel, BeatIInv, TypesOK
  <2>2. i \in Inputs /\ HeldHead(o, c, i)
    BY <1>2, <1>4, <2>1, StallInput, StallsAre DEF BeatIInv, StallRight
  <2>3. pending[i] # <<>> /\ Pop(i) /\ wake' = 0
    BY <1>4, <2>2 DEF HeldHead, ForwardGranted
  <2>4. Queued' \subseteq Queued
    BY <2>2, <2>3, Popped
  <2>5. handler'.kind # "fsm" /\ Queued' # {} => fsm_event' # "off"
    BY <1>1, <2>4 DEF WakesOK
  <2> QED
    BY <1>1, <2>3, <2>5, WakesStay
<1> QED
  BY <1>2, <1>3, <1>4 DEF RetryChannel, ForwardDenied

LEMMA RespWakes ==
    ASSUME BeatIInv, WakesOK, NEW y \in below, RespLast(y)
    PROVE  WakesOK'
<1>1. PICK s, i, n : s = y[2] /\ i = burst_table[s].input /\ n = LastGone(s)
  OBVIOUS
<1>2. /\ burst_table' = [burst_table EXCEPT ![s] = n] /\ handler.kind # "fsm"
      /\ UNCHANGED pending /\ UNCHANGED denied_upstream /\ UNCHANGED fsm_event /\ UNCHANGED pst
      /\ wake' = 0 \/ (wake' = wake /\ (i = Null \/ ~BurstDone(s)))
  BY <1>1 DEF RespLast, Quiet, Running, ivars
<1>3. Queued' = Queued
  BY <1>2, QueuedKept
<1>4. s \in Slots /\ burst_table \in [Slots -> Entry] /\ burst_table[s] \in Entry
  BY <1>1, BelowTypes DEF BeatIInv, TypesOK
<1>5. ASSUME i = Null \/ ~BurstDone(s) PROVE WakersStay
  <2>1. /\ burst_table'[s] = n
        /\ \A t \in Slots : t # s => burst_table'[t] = burst_table[t]
    BY <1>2, <1>4
  <2>2. i # Null => n.in_use = burst_table[s].in_use /\ n.input = burst_table[s].input
    <3>1. PICK e, l, f : e = burst_table[s] /\ l = Tail(e.pending_master_is_last)
                         /\ f = [e EXCEPT !.pending_master_is_last = l]
      OBVIOUS
    <3>2. f.in_use = e.in_use /\ f.input = e.input
      BY <1>4, <3>1 DEF Entry
    <3>3. i # Null => n = f
      BY <1>1, <1>5, <3>1 DEF LastGone
    <3> QED
      BY <3>1, <3>2, <3>3
  <2> QED
    BY <1>1, <1>3, <2>1, <2>2 DEF WakersStay
<1>6. Queued' # {} => fsm_event' # "off"
  BY <1>2, <1>3 DEF WakesOK
<1> QED
  BY <1>2, <1>5, <1>6, WakesStay

LEMMA ThreadWakes ==
    ASSUME BeatIInv, WakesOK, NEW cmd, NEW hook, dispatch_proxy_req(cmd, hook), ProxyCmds # {},
           handler.kind # "fsm"
    PROVE  WakesOK'
<1>1. /\ UNCHANGED pending /\ UNCHANGED wake /\ UNCHANGED denied_upstream /\ UNCHANGED fsm_event
      /\ UNCHANGED handler
  BY DEF dispatch_proxy_req, ivars
<1>2. \A s \in Slots : burst_table[s].in_use => burst_table'[s] = burst_table[s]
  <2>1. burst_table \in [Slots -> Entry]
    BY DEF BeatIInv, TypesOK
  <2>2. CASE UNCHANGED burst_table
    BY <2>2
  <2>3. CASE ~ProxyBlocked(cmd) /\ burst_table' # burst_table
    <3>1. PICK t \in Slots : t = Min(FreeSlots) /\ ~burst_table[t].in_use
      BY <2>3, FreeSlot DEF ProxyBlocked
    <3>2. \E e : burst_table' = [burst_table EXCEPT ![t] = e]
      <4>1. CASE ProxyGranted(cmd, hook)
        BY <3>1, <4>1 DEF ProxyGranted
      <4>2. CASE ProxyDenied(cmd)
        BY <2>3, <3>1, <4>2 DEF ProxyDenied, tvars
      <4> QED
        BY <2>3, <4>1, <4>2 DEF dispatch_proxy_req, ProxyDone, tvars
    <3> QED
      BY <2>1, <3>1, <3>2
  <2> QED
    BY <2>2, <2>3 DEF dispatch_proxy_req, ProxyDone, ProxyGranted, ProxyDenied, tvars
<1>3. Queued' = Queued
  BY <1>1, QueuedKept
<1>4. WakersStay
  BY <1>2, <1>3 DEF WakersStay
<1>5. Queued' # {} => fsm_event' # "off"
  BY <1>1, <1>3 DEF WakesOK
<1> QED
  BY <1>1, <1>4, <1>5, WakesStay

LEMMA NextWakes ==
    ASSUME Wakeable, BeatIInv, WakesOK, [BeatNext]_BeatVars
    PROVE  WakesOK'
<1>1. ASSUME NEW b \in Bursts, BeatSend(b) \/ BeatResend(b) PROVE WakesOK'
  BY <1>1, ReqWakes DEF BeatSend, BeatResend, Issues
<1>2. ASSUME \/ CallbackReturns \/ FsmStarts \/ FsmEnds \/ ClockEdge \/ RespEnds \/ RetryEnds \/ ProxyReplied
             \/ (\E y \in below : RespBeat(y)) \/ (\E o \in Outputs, C \in Retries : retry_muxed(o, C))
      PROVE  WakesOK'
  BY <1>2, EventsWake
<1>3. ASSUME WakeNext PROVE WakesOK'
  BY <1>3, WakeNextWakes
<1>4. ASSUME NEW i \in Inputs, FsmSkips(i) \/ FsmInvalid(i) \/ FsmForwards(i) PROVE WakesOK'
  BY <1>4, FsmWakes
<1>5. ASSUME NEW y \in below, RespLast(y) PROVE WakesOK'
  BY <1>5, RespWakes
<1>6. ASSUME RetryChannel PROVE WakesOK'
  BY <1>6, RetryWakes
<1>7. ASSUME NEW cmd \in ProxyCmds, handle_proxy_command(cmd) PROVE WakesOK'
  <2>1. dispatch_proxy_req(cmd, proxy_retry_waiter) /\ handler.kind # "fsm"
    BY <1>7 DEF handle_proxy_command, Quiet, Running
  <2> QED
    BY <1>7, <2>1, ThreadWakes
<1>8. ASSUME ProxyRetries PROVE WakesOK'
  <2>1. dispatch_proxy_req(pcmd, Null) /\ handler.kind # "fsm" /\ pst # "idle"
    BY <1>8 DEF ProxyRetries, Quiet, Running
  <2>2. ProxyCmds # {}
    BY <2>1 DEF WakesOK
  <2> QED
    BY <2>1, <2>2, ThreadWakes
<1>9. ASSUME UNCHANGED BeatVars PROVE WakesOK'
  <2>1. /\ UNCHANGED burst_table /\ UNCHANGED pending /\ UNCHANGED wake /\ UNCHANGED denied_upstream
        /\ UNCHANGED pst /\ UNCHANGED handler /\ UNCHANGED fsm_event
    BY <1>9 DEF BeatVars, tvars, ivars, pvars
  <2> QED
    BY <2>1, CalmWakes DEF WakesOK
<1> QED
  BY <1>1, <1>2, <1>3, <1>4, <1>5, <1>6, <1>7, <1>8, <1>9 DEF BeatNext

LEMMA BeginsWoken == BeatInit => WakesOK
<1> SUFFICES ASSUME BeatInit PROVE WakesOK
  OBVIOUS
<1>1. Queued = {}
  <2>1. \A i \in Inputs : DOMAIN pending[i] = {}
    BY DEF BeatInit
  <2>2. ASSUME NEW q \in Queued PROVE FALSE
    BY <2>1, QueuedIs
  <2> QED
    BY <2>2
<1>2. \A i \in Inputs : ~denied_upstream[i]
  BY DEF BeatInit
<1>3. pst = "idle"
  BY DEF BeatInit
<1> QED
  BY <1>1, <1>2, <1>3 DEF WakesOK

LEMMA WokenImplied == BeatIInv /\ WakesOK => Woken
<1> SUFFICES ASSUME BeatIInv, WakesOK, Quiet PROVE
             /\ Queued # {} => fsm_event # "off"
             /\ \A i \in Inputs : denied_upstream[i] =>
                  Queued # {} \/ \E s \in Slots : burst_table[s].in_use /\ burst_table[s].input # Null
             /\ pst = "wait_retry" /\ waiter = "Pending" => proxy_retry_waiter = Proxy
             /\ pst = "wait_reply" /\ waiter = "Pending" => \E y \in below : y[1][1] = Proxy
  BY DEF Woken
<1>1. handler.kind # "fsm" /\ wake = nb_input_port
  BY DEF Quiet, Running
<1>2. \A i \in Inputs : ~(i >= wake)
  BY <1>1, RouterBeatAssumption DEF Inputs
<1> QED
  BY <1>1, <1>2 DEF WakesOK, Awaited, BeatIInv, ProxyOK

(* Whoever waits is remembered: a FIFO with beats has its event scheduled, *)
(* and wake_denied_masters is still to come for every denied master.       *)
THEOREM WokenHolds == ASSUME InvalidAlone, Wakeable PROVE BeatSpec => []Woken
<1>1. BeatInit => BeatIInv /\ WakesOK
  BY BeginsRight, BeginsWoken
<1>2. BeatIInv /\ WakesOK /\ [BeatNext]_BeatVars => (BeatIInv /\ WakesOK)'
  BY NextKeeps, NextWakes
<1> QED
  BY <1>1, <1>2, WokenImplied, PTL DEF BeatSpec
=============================================================================
