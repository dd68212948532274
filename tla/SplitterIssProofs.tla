------------------------- MODULE SplitterIssProofs --------------------------
(***************************************************************************)
(* Proofs about the splitter and about the in-order core.                  *)
(*                                                                         *)
(* Splitter, for any number of outputs and any bursts: the pending count   *)
(* is exact, phases do not overlap, and the splitter implements IoService. *)
(*                                                                         *)
(* IssCore, for any instructions, registers, number of accesses in flight  *)
(* and latencies: the dispatcher, the load/store unit, the scoreboard, the *)
(* task list and the commit queue agree on the accesses in flight, a       *)
(* dependent instruction is not dispatched in the cycle its operand lands, *)
(* a fence is passed only when all accesses have committed, and no step    *)
(* that stops the event of the core leaves work for it behind.  Needed is  *)
(* that a memory that serves split accesses answers them later and does    *)
(* not deny them (SplitServed).                                            *)
(***************************************************************************)
EXTENDS Splitter, IssCore, SequenceTheorems, FiniteSetTheorems, TLAPS

(* Quotient and remainder are what the division leaves.                    *)
LEMMA Quotient ==
    ASSUME NEW n \in Nat \ {0}, NEW q \in Int, NEW r \in 0 .. (n - 1), NEW x, x = (n * q) + r
    PROVE  x \div n = q /\ x % n = r
OBVIOUS

----------------------------------------------------------------------------
(* The inductive invariant.                                                *)

(* Where the bytes begin that are in no chunk yet.                         *)
Ahead == IF pc = "issue" THEN cursor ELSE bytes_planned

Base == Addr[pending_parent] + bytes_planned

(* The chunks in flight are apart, before Ahead and at one place each.     *)
ChunkShape ==
    /\ IsFiniteSet(Outstanding)
    /\ \A i \in Outputs : stuck[i] # None => stuck[i].port = i /\ stuck[i] \notin down
    /\ \A d \in Outstanding : 0 < d.size /\ d.off + d.size <= Ahead
    /\ \A d, e \in Outstanding : d # e => d.off + d.size <= e.off \/ e.off + e.size <= d.off

(* issue_phases: next_output chunks have been cut, up to the cursor, which *)
(* is then on a word of the outputs or at the end of the phase.            *)
IssueShape ==
    pc = "issue" =>
        /\ pending_parent # None
        /\ bytes_planned < Size[pending_parent] /\ bytes_planned <= cursor /\ cursor <= PhaseEnd
        /\ next_output <= nb_outputs
        /\ \A d \in Outstanding : d.port < next_output /\ bytes_planned <= d.off
        /\ \/ next_output = 0 /\ cursor = bytes_planned
           \/ cursor = PhaseEnd
           \/ /\ (Addr[pending_parent] + cursor) % OutputWidth = 0
              /\ Addr[pending_parent] + cursor
                   = (Base - (Base % OutputWidth)) + (next_output * OutputWidth)

BurstShape ==
    /\ pending_parent = None => bytes_planned = 0 /\ Outstanding = {}
    /\ pending_parent # None => /\ bytes_planned <= Size[pending_parent]
                                /\ mst[pending_parent] = "granted"
                                /\ pc \notin {"issue", "finalize"} => Outstanding # {}
    /\ pc = "finalize" => /\ pending_parent # None /\ Outstanding = {}
                          /\ bytes_planned = Size[pending_parent]

CallShape ==
    /\ inside_input_req => pc = "issue"
    /\ ret # "idle" => inside_input_req
    /\ \A r \in Reqs : mst[r] # "spurious"

(* A denied master will get its retry() from finalize_parent.              *)
WakeShape ==
    \A r \in Reqs : mst[r] = "denied" =>
        /\ input_needs_retry
        /\ \/ pc = "in_resp"
           \/ pending_parent # None /\ (inside_input_req => ret = "in_resp")

IInv ==
    /\ TypeOK /\ PendingExact /\ OnePhaseInFlight /\ ChunksAligned /\ ChunkShape
    /\ IssueShape /\ BurstShape /\ CallShape /\ WakeShape
----------------------------------------------------------------------------
(* Arithmetic of the widths.                                               *)

LEMMA DivMod ==
    ASSUME NEW w \in Nat \ {0}, NEW a \in Int
    PROVE  a \div w \in Int /\ a % w \in 0 .. (w - 1) /\ a = (w * (a \div w)) + (a % w)
OBVIOUS

(* What lies before the next boundary lies in the same window.             *)
LEMMA SameWindow ==
    ASSUME NEW w \in Nat \ {0}, NEW a \in Nat, NEW x \in Nat, a <= x, x < a + (w - (a % w))
    PROVE  x \div w = a \div w
<1> DEFINE q == a \div w
           r == a % w
<1>1. q \in Int /\ r \in 0 .. (w - 1) /\ a = (w * q) + r
  BY DivMod
<1>2. x < a + (w - r)
  OBVIOUS
<1> DEFINE t == r + (x - a)
           k == w * q
<1>3. k \in Int
  BY <1>1
<1> HIDE DEF q, r, k
<1>4. t \in 0 .. (w - 1) /\ x = k + t
  BY <1>1, <1>2, <1>3 DEF k
<1> HIDE DEF t
<1>5. x \div w = q
  <2>1. x = (w * q) + t
    BY <1>4 DEF k
  <2> QED
    BY <1>1, <1>4, <2>1, Quotient
<1> QED
  BY <1>5 DEF q

(* The next boundary is a multiple of the width, and so is the one after.  *)
LEMMA Boundary ==
    ASSUME NEW w \in Nat \ {0}, NEW a \in Nat
    PROVE  /\ a % w \in 0 .. (w - 1)
           /\ (a + (w - (a % w))) % w = 0
<1> DEFINE q == a \div w
           r == a % w
<1>1. q \in Int /\ r \in 0 .. (w - 1) /\ a = (w * q) + r
  BY DivMod
<1> HIDE DEF q, r
<1>2. a + (w - r) = (w * (q + 1)) + 0
  BY <1>1
<1>3. (a + (w - r)) % w = 0
  <2> DEFINE x == a + (w - r)
  <2>1. x = (w * (q + 1)) + 0 /\ q + 1 \in Int /\ 0 \in 0 .. (w - 1)
    BY <1>1, <1>2
  <2> HIDE DEF x
  <2>2. x % w = 0
    BY <2>1, Quotient
  <2> QED
    BY <2>2 DEF x
<1> QED
  BY <1>1, <1>3 DEF r

(* A window of n words ends no earlier in its last word.                   *)
LEMMA Finer ==
    ASSUME NEW w \in Nat \ {0}, NEW n \in Nat \ {0}, NEW W \in Nat \ {0}, W = n * w, NEW a \in Nat
    PROVE  a % w <= a % W
<1> DEFINE q == a \div W
           m == a % W
           s == m \div w
           r == m % w
<1>1. q \in Int /\ m \in 0 .. (W - 1) /\ a = (W * q) + m
  <2>1. a \in Int
    OBVIOUS
  <2> QED
    BY <2>1, DivMod, Zenon
<1> HIDE DEF q, m
<1>2. m \in Int
  BY <1>1
<1>3. s \in Int /\ r \in 0 .. (w - 1) /\ m = (w * s) + r
  BY <1>2, DivMod
<1>4. r <= m
  BY <1>1
<1> HIDE DEF s, r
<1>5. a = (w * ((n * q) + s)) + r
  <2>1. W * q = w * (n * q)
    BY <1>1
  <2>2. w * ((n * q) + s) = (w * (n * q)) + (w * s)
    BY <1>1, <1>3
  <2> QED
    BY <1>1, <1>3, <2>1, <2>2
<1>6. (n * q) + s \in Int
  BY <1>1, <1>3
<1> DEFINE k == (n * q) + s
<1> HIDE DEF k
<1>7. a % w = r
  BY <1>3, <1>5, <1>6, Quotient DEF k
<1> QED
  BY <1>4, <1>7 DEF m

(* The constants, and the outputs a window of the input needs.             *)
LEMMA Constants ==
    /\ Addr \in [Reqs -> Nat] /\ Size \in [Reqs -> Nat] /\ None \notin Reqs
    /\ InputWidth \in Nat \ {0} /\ OutputWidth \in Nat \ {0}
BY SplitterAssumption

LEMMA Words == nb_outputs \in Nat \ {0} /\ InputWidth = nb_outputs * OutputWidth
<1>1. InputWidth = (OutputWidth * (InputWidth \div OutputWidth)) + (InputWidth % OutputWidth)
      /\ InputWidth \div OutputWidth \in Int
  BY Constants, DivMod
<1>2. InputWidth % OutputWidth = 0
  BY SplitterAssumption
<1>3. InputWidth = OutputWidth * nb_outputs /\ nb_outputs \in Int
  BY <1>1, <1>2, Constants DEF nb_outputs
<1> QED
  BY <1>3, Constants

USE Constants

----------------------------------------------------------------------------
(* The phase that issue_phases is in.                                      *)

LEMMA PhaseShape ==
    ASSUME TypeOK, pending_parent # None, bytes_planned < Size[pending_parent]
    PROVE  /\ Base \in Nat /\ PhaseEnd \in Nat
           /\ bytes_planned < PhaseEnd /\ PhaseEnd <= Size[pending_parent]
           /\ PhaseEnd <= bytes_planned + (InputWidth - (Base % InputWidth))
<1>1. Base \in Nat /\ bytes_planned \in Nat /\ Size[pending_parent] \in Nat
  BY DEF TypeOK, Base
<1>2. Base % InputWidth \in 0 .. (InputWidth - 1)
  BY <1>1, Boundary
<1>3. PhaseEnd = Smaller(bytes_planned + (InputWidth - (Base % InputWidth)), Size[pending_parent])
  BY DEF PhaseEnd, Base
<1> HIDE DEF Base
<1> QED
  BY <1>1, <1>2, <1>3 DEF Smaller

(* The inner loop of issue_phases never runs out of outputs: it ends at    *)
(* the end of the phase.                                                   *)
LEMMA PhaseCovered ==
    ASSUME TypeOK, IssueShape, pc = "issue", ~MoreChunks
    PROVE  cursor = PhaseEnd
<1>1. pending_parent # None /\ bytes_planned < Size[pending_parent] /\ cursor <= PhaseEnd
  BY DEF IssueShape
<1>2. /\ Base \in Nat /\ PhaseEnd \in Nat /\ cursor \in Nat /\ next_output \in Nat
      /\ bytes_planned \in Nat /\ Addr[pending_parent] \in Nat
      /\ Base = Addr[pending_parent] + bytes_planned
      /\ PhaseEnd <= bytes_planned + (InputWidth - (Base % InputWidth))
  BY <1>1, PhaseShape DEF TypeOK, Base
<1> HIDE DEF Base
<1>3. /\ nb_outputs \in Nat \ {0} /\ InputWidth = nb_outputs * OutputWidth
      /\ Base % OutputWidth <= Base % InputWidth
  BY <1>2, Words, Finer
<1>4. Base % OutputWidth \in Nat /\ Base % InputWidth \in Nat
  <2>1. Base % OutputWidth \in 0 .. (OutputWidth - 1) /\ Base % InputWidth \in 0 .. (InputWidth - 1)
    BY <1>2, Boundary
  <2> QED
    BY <2>1
<1>5. CASE cursor < PhaseEnd
  <2>1. next_output = nb_outputs
    BY <1>2, <1>3, <1>5 DEF MoreChunks, IssueShape
  <2>2. Addr[pending_parent] + cursor = (Base - (Base % OutputWidth)) + InputWidth
    BY <1>2, <1>3, <1>5, <2>1 DEF IssueShape
  <2>3. PhaseEnd <= cursor
    BY <1>2, <1>3, <1>4, <2>2
  <2> QED
    BY <1>2, <1>5, <2>3
<1> QED
  BY <1>1, <1>2, <1>5

(* The chunk that is cut next.                                             *)
LEMMA NextChunkShape ==
    ASSUME IInv, pc = "issue", MoreChunks
    PROVE  /\ pending_parent \in Reqs /\ NextChunk \in Chunks
           /\ NextChunk.parent = pending_parent /\ NextChunk.port = next_output
           /\ NextChunk.off = cursor /\ 0 < NextChunk.size
           /\ cursor + NextChunk.size <= PhaseEnd /\ PhaseEnd <= Size[pending_parent]
           /\ (Addr[pending_parent] + cursor) \div OutputWidth
                = (Addr[pending_parent] + cursor + NextChunk.size - 1) \div OutputWidth
           /\ \/ cursor + NextChunk.size = PhaseEnd
              \/ /\ (Addr[pending_parent] + cursor + NextChunk.size) % OutputWidth = 0
                 /\ Addr[pending_parent] + cursor + NextChunk.size
                      = (Base - (Base % OutputWidth)) + ((next_output + 1) * OutputWidth)
<1> DEFINE p == pending_parent
           a == Addr[p] + cursor
           n == PortSize(a)
           s == Smaller(n, PhaseEnd - cursor)
<1>1. /\ p \in Reqs /\ cursor \in Nat /\ next_output \in Nat /\ bytes_planned \in Nat
      /\ Addr[p] \in Nat /\ Size[p] \in Nat /\ Base = Addr[p] + bytes_planned /\ Base \in Nat
      /\ bytes_planned < Size[p] /\ next_output < nb_outputs /\ cursor < PhaseEnd
      /\ PhaseEnd \in Nat /\ PhaseEnd <= Size[p]
  BY PhaseShape DEF IInv, IssueShape, TypeOK, MoreChunks, Base
<1>2. NextChunk = [parent |-> p, port |-> next_output, off |-> cursor, size |-> s]
  BY DEF NextChunk
<1>3. a \in Nat /\ a % OutputWidth \in 0 .. (OutputWidth - 1) /\ n = OutputWidth - (a % OutputWidth)
      /\ (a + n) % OutputWidth = 0
  <2>1. a \in Nat
    BY <1>1
  <2>2. n = OutputWidth - (a % OutputWidth)
    BY DEF PortSize
  <2> HIDE DEF a, n
  <2> QED
    BY <2>1, <2>2, Boundary
<1> HIDE DEF n
<1>4. n \in Nat /\ s \in Nat /\ 0 < s /\ cursor + s <= PhaseEnd /\ s <= n
      /\ (s = n \/ cursor + s = PhaseEnd)
  BY <1>1, <1>3 DEF Smaller
<1> HIDE DEF s
<1>5. a \div OutputWidth = (a + s - 1) \div OutputWidth
  <2>1. a + s - 1 \in Nat /\ a <= a + s - 1 /\ a + s - 1 < a + (OutputWidth - (a % OutputWidth))
    BY <1>3, <1>4
  <2> HIDE DEF a
  <2> QED
    BY <1>3, <2>1, SameWindow
<1>6. next_output \in Outputs
  <2>1. nb_outputs \in Nat
    BY Words
  <2> QED
    BY <1>1, <2>1 DEF Outputs
<1>7. CASE cursor + s # PhaseEnd
  <2>1. s = n /\ (a + s) % OutputWidth = 0
    BY <1>3, <1>4, <1>7
  <2>2. a + s = (Base - (Base % OutputWidth)) + ((next_output + 1) * OutputWidth)
    <3>1. Base % OutputWidth \in Nat
      BY <1>1, Boundary
    <3>2. CASE next_output = 0 /\ cursor = bytes_planned
      <4>1. a = Base
        BY <1>1, <3>2
      <4> HIDE DEF a, Base
      <4> QED
        BY <1>1, <1>3, <2>1, <3>1, <3>2, <4>1
    <3>3. CASE /\ a % OutputWidth = 0
               /\ a = (Base - (Base % OutputWidth)) + (next_output * OutputWidth)
      <4> HIDE DEF a, Base
      <4> DEFINE k == next_output * OutputWidth
                 f == Base - (Base % OutputWidth)
      <4>3. k \in Int /\ f \in Int /\ a = f + k /\ s = OutputWidth
        BY <1>1, <1>3, <2>1, <3>1, <3>3
      <4> HIDE DEF k, f
      <4>4. a + s = f + (k + OutputWidth)
        BY <4>3
      <4>1. a + s = (Base - (Base % OutputWidth)) + ((next_output * OutputWidth) + OutputWidth)
        BY <4>4 DEF k, f
      <4>2. (next_output * OutputWidth) + OutputWidth = (next_output + 1) * OutputWidth
        BY <1>1
      <4> QED
        BY <4>1, <4>2
    <3> QED
      BY <1>1, <3>2, <3>3 DEF IInv, IssueShape
  <2> QED
    BY <1>1, <1>2, <1>4, <1>5, <1>6, <2>1, <2>2 DEF Chunks
<1>8. CASE cursor + s = PhaseEnd
  BY <1>1, <1>2, <1>4, <1>5, <1>6, <1>8 DEF Chunks
<1> QED
  BY <1>7, <1>8
----------------------------------------------------------------------------
(* The chunks in flight.                                                   *)

LEMMA SplitterInFlight ==
    ASSUME TypeOK
    PROVE  /\ Outstanding \subseteq Chunks
           /\ \A x : x \in Outstanding <=>
                       x \in down \/ \E i \in Outputs : stuck[i] = x /\ x # None
           /\ Ahead \in Nat
<1>1. \A x : x \in Outstanding <=> x \in down \/ \E i \in Outputs : stuck[i] = x /\ x # None
  BY DEF Outstanding, Stuck
<1>2. Outstanding \subseteq Chunks
  BY <1>1 DEF TypeOK
<1> QED
  BY <1>1, <1>2 DEF Ahead, TypeOK

(* Nothing is pending exactly when no chunk is in flight.                  *)
LEMMA NonePending ==
    ASSUME PendingExact, ChunkShape
    PROVE  chunks_pending = 0 <=> Outstanding = {}
BY FS_EmptySet DEF PendingExact, ChunkShape

(* A step that leaves the chunks alone.                                    *)
LEMMA OutKept ==
    ASSUME IInv, TypeOK', UNCHANGED <<stuck, down, chunks_pending>>,
           Outstanding # {} => pending_parent' = pending_parent /\ Ahead <= Ahead'
    PROVE  /\ Outstanding' = Outstanding
           /\ PendingExact' /\ OnePhaseInFlight' /\ ChunksAligned' /\ ChunkShape'
<1>1. Outstanding' = Outstanding
  BY DEF Outstanding, Stuck
<1>2. PendingExact'
  BY <1>1 DEF IInv, PendingExact
<1>3. OnePhaseInFlight' /\ ChunksAligned'
  BY <1>1 DEF IInv, OnePhaseInFlight, ChunksAligned
<1>4. ChunkShape'
  <2>1. /\ IsFiniteSet(Outstanding')
        /\ \A i \in Outputs : stuck'[i] # None => stuck'[i].port = i /\ stuck'[i] \notin down'
        /\ \A d, e \in Outstanding' : d # e => d.off + d.size <= e.off \/ e.off + e.size <= d.off
    BY <1>1 DEF IInv, ChunkShape
  <2>2. \A d \in Outstanding' : 0 < d.size /\ d.off + d.size <= Ahead'
    <3> SUFFICES ASSUME NEW d \in Outstanding PROVE 0 < d.size /\ d.off + d.size <= Ahead'
      BY <1>1
    <3>1. d.off \in Nat /\ d.size \in Nat /\ Ahead \in Nat /\ Ahead <= Ahead'
      BY SplitterInFlight DEF IInv, Chunks
    <3>2. Ahead' \in Nat
      BY DEF TypeOK, Ahead
    <3>3. 0 < d.size /\ d.off + d.size <= Ahead
      BY DEF IInv, ChunkShape
    <3> HIDE DEF Ahead
    <3> QED
      BY <3>1, <3>2, <3>3
  <2> QED
    BY <2>1, <2>2 DEF ChunkShape
<1> QED
  BY <1>1, <1>2, <1>3, <1>4

(* A chunk is answered.                                                    *)
LEMMA OutLess ==
    ASSUME IInv, NEW sub \in Outstanding, Outstanding' = Outstanding \ {sub},
           chunks_pending' = CountDown, pending_parent' = pending_parent, Ahead' = Ahead,
           \A i \in Outputs : stuck'[i] # None => stuck'[i].port = i /\ stuck'[i] \notin down'
    PROVE  /\ PendingExact' /\ OnePhaseInFlight' /\ ChunksAligned' /\ ChunkShape'
           /\ chunks_pending' \in Nat /\ (chunks_pending' = 0 <=> Outstanding' = {})
<1> USE DEF IInv
<1>1. IsFiniteSet(Outstanding) /\ Cardinality(Outstanding) = chunks_pending
  BY DEF ChunkShape, PendingExact
<1>2. /\ IsFiniteSet(Outstanding') /\ Cardinality(Outstanding') = chunks_pending - 1
      /\ Cardinality(Outstanding') \in Nat
  BY <1>1, FS_RemoveElement, FS_CardinalityType
<1>3. PendingExact' /\ chunks_pending' \in Nat
  BY <1>2 DEF PendingExact, CountDown
<1>4. chunks_pending' = 0 <=> Outstanding' = {}
  BY <1>2, FS_EmptySet DEF CountDown
<1>5. OnePhaseInFlight' /\ ChunksAligned'
  BY DEF OnePhaseInFlight, ChunksAligned
<1>6. ChunkShape'
  BY <1>2 DEF ChunkShape
<1> QED
  BY <1>3, <1>4, <1>5, <1>6

(* The next chunk is granted or denied: one more is in flight.             *)
LEMMA OutMore ==
    ASSUME IInv, TypeOK', pc = "issue", MoreChunks,
           UNCHANGED <<pending_parent, pc>>, cursor' = cursor + NextChunk.size,
           chunks_pending' = CountUp,
           \/ down' = down \cup {NextChunk} /\ stuck' = stuck
           \/ stuck' = [stuck EXCEPT ![next_output] = NextChunk] /\ down' = down
    PROVE  /\ NextChunk \notin Outstanding /\ Outstanding' = Outstanding \cup {NextChunk}
           /\ PendingExact' /\ OnePhaseInFlight' /\ ChunksAligned' /\ ChunkShape'
<1> DEFINE c == NextChunk
<1>1. /\ pending_parent \in Reqs /\ c \in Chunks
      /\ c.parent = pending_parent /\ c.port = next_output
      /\ c.off = cursor /\ 0 < c.size /\ cursor + c.size <= PhaseEnd
      /\ (Addr[pending_parent] + cursor) \div OutputWidth
           = (Addr[pending_parent] + cursor + c.size - 1) \div OutputWidth
      /\ next_output \in Outputs /\ c # None
  BY NextChunkShape, NoneAssumption DEF Chunks
<1> HIDE DEF c
<1>2. Outstanding \subseteq Chunks
  BY SplitterInFlight DEF IInv
<1>3. \A d \in Outstanding : /\ d.port < next_output /\ bytes_planned <= d.off
                             /\ 0 < d.size /\ d.off + d.size <= cursor
                             /\ d.parent = pending_parent
  BY DEF IInv, IssueShape, ChunkShape, Ahead, PendingExact
<1>4. c \notin Outstanding /\ \A d \in Outstanding : d.port # next_output
  BY <1>1, <1>2, <1>3 DEF Chunks, Outputs
<1>5. stuck[next_output] = None
  BY <1>1, <1>4, SplitterInFlight DEF IInv, ChunkShape
<1>6. Outstanding' = Outstanding \cup {c}
  <2>1. CASE down' = down \cup {c} /\ stuck' = stuck
    BY <2>1 DEF Outstanding, Stuck
  <2>2. CASE stuck' = [stuck EXCEPT ![next_output] = c] /\ down' = down
    <3>1. /\ stuck'[next_output] = c
          /\ \A i \in Outputs : i # next_output => stuck'[i] = stuck[i]
      BY <1>1, <2>2 DEF IInv, TypeOK
    <3>2. Stuck' = Stuck \cup {c}
      BY <1>1, <1>5, <3>1 DEF Stuck
    <3> QED
      BY <2>2, <3>2 DEF Outstanding
  <2> QED
    BY <2>1, <2>2 DEF c
<1>7. PendingExact'
  <2>1. IsFiniteSet(Outstanding) /\ Cardinality(Outstanding) = chunks_pending
    BY DEF IInv, ChunkShape, PendingExact
  <2>2. Cardinality(Outstanding') = chunks_pending + 1
    BY <1>4, <1>6, <2>1, FS_AddElement
  <2> QED
    BY <1>1, <1>3, <1>6, <2>2 DEF PendingExact, CountUp
<1>8. ChunkShape'
  <2>1. IsFiniteSet(Outstanding')
    BY <1>6, FS_AddElement DEF IInv, ChunkShape
  <2>2. ASSUME NEW i \in Outputs, stuck'[i] # None
        PROVE  stuck'[i].port = i /\ stuck'[i] \notin down'
    <3>1. CASE down' = down \cup {c} /\ stuck' = stuck
      <4>1. stuck[i] \in Outstanding
        BY <2>2, <3>1, SplitterInFlight DEF IInv
      <4> QED
        BY <1>4, <2>2, <3>1, <4>1 DEF IInv, ChunkShape
    <3>2. CASE stuck' = [stuck EXCEPT ![next_output] = c] /\ down' = down
      <4>1. c \notin down
        BY <1>4, SplitterInFlight DEF IInv
      <4> QED
        BY <1>1, <2>2, <3>2, <4>1 DEF IInv, ChunkShape, TypeOK
    <3> QED
      BY <3>1, <3>2 DEF c
  <2>3. Ahead' = cursor + c.size
    BY DEF Ahead, c
  <2>4. cursor \in Nat /\ c.size \in Nat /\ \A d \in Outstanding : d.off \in Nat /\ d.size \in Nat
    BY <1>1, <1>2 DEF Chunks, IInv, TypeOK
  <2>5. \A d \in Outstanding' : 0 < d.size /\ d.off + d.size <= Ahead'
    BY <1>1, <1>3, <1>6, <2>3, <2>4
  <2>6. \A d, e \in Outstanding' : d # e => d.off + d.size <= e.off \/ e.off + e.size <= d.off
    BY <1>1, <1>3, <1>6 DEF IInv, ChunkShape
  <2> QED
    BY <2>1, <2>2, <2>5, <2>6 DEF ChunkShape
<1>9. ChunksAligned'
  BY <1>1, <1>6 DEF IInv, ChunksAligned
<1>10. OnePhaseInFlight'
  <2>1. /\ bytes_planned \in Nat /\ cursor \in Nat /\ Addr[pending_parent] \in Nat
        /\ bytes_planned <= cursor /\ Base = Addr[pending_parent] + bytes_planned
        /\ Base \in Nat /\ PhaseEnd \in Nat /\ cursor < PhaseEnd
        /\ PhaseEnd <= bytes_planned + (InputWidth - (Base % InputWidth))
        /\ Base % InputWidth \in 0 .. (InputWidth - 1)
    <3>1. /\ pending_parent # None /\ bytes_planned < Size[pending_parent]
          /\ bytes_planned <= cursor /\ cursor < PhaseEnd
      BY DEF IInv, IssueShape, MoreChunks
    <3>2. /\ Base \in Nat /\ PhaseEnd \in Nat
          /\ PhaseEnd <= bytes_planned + (InputWidth - (Base % InputWidth))
      BY <3>1, PhaseShape DEF IInv
    <3>3. Base % InputWidth \in 0 .. (InputWidth - 1)
      BY <3>2, Boundary
    <3> QED
      BY <1>1, <3>1, <3>2, <3>3 DEF IInv, TypeOK, Base
  <2>2. ASSUME NEW d \in Outstanding'
        PROVE  (Addr[d.parent] + d.off) \div InputWidth = Base \div InputWidth
    <3>1. d.parent = pending_parent /\ d.off \in Nat /\ bytes_planned <= d.off /\ d.off <= cursor
      BY <1>1, <1>2, <1>3, <1>6, <2>1 DEF Chunks
    <3> DEFINE x == Addr[d.parent] + d.off
    <3> HIDE DEF Base, PhaseEnd
    <3>2. x \in Nat /\ Base <= x /\ x < Base + (InputWidth - (Base % InputWidth))
      BY <2>1, <3>1
    <3> HIDE DEF x
    <3>3. x \div InputWidth = Base \div InputWidth
      BY <2>1, <3>2, SameWindow
    <3> QED
      BY <3>3 DEF x
  <2>3. \A d, e \in Outstanding' : d.port = e.port => d = e
    BY <1>1, <1>4, <1>6 DEF IInv, OnePhaseInFlight
  <2> QED
    BY <2>2, <2>3 DEF OnePhaseInFlight
<1> QED
  BY <1>4, <1>6, <1>7, <1>8, <1>9, <1>10 DEF c
----------------------------------------------------------------------------
(* input_req.                                                              *)

LEMMA DenyKeeps ==
    ASSUME IInv, NEW r \in Reqs, mst[r] \in {"idle", "retrying"},
           pc \in {"idle", "in_resp", "in_retry"}, Deny(r), UNCHANGED <<stuck, down>>
    PROVE  IInv'
<1> USE DEF IInv
<1>1. /\ pending_parent # None /\ input_needs_retry' = TRUE
      /\ mst' = [mst EXCEPT ![r] = "denied"]
      /\ UNCHANGED <<pending_parent, bytes_planned, chunks_pending, resp_status, stuck, down,
                     inside_input_req, next_output, cursor, pc, ret>>
  BY DEF Deny, issueVars
<1>2. TypeOK'
  BY <1>1 DEF TypeOK
<1>3. Ahead' = Ahead /\ Ahead \in Nat
  BY <1>1, SplitterInFlight DEF Ahead
<1> HIDE DEF Ahead
<1>4. Ahead <= Ahead'
  BY <1>3
<1>5. /\ Outstanding' = Outstanding
      /\ PendingExact' /\ OnePhaseInFlight' /\ ChunksAligned' /\ ChunkShape'
  BY <1>1, <1>2, <1>4, OutKept
<1>6. IssueShape' /\ CallShape'
  BY <1>1 DEF IssueShape, CallShape, TypeOK
<1>7. BurstShape'
  <2>1. r # pending_parent
    BY DEF BurstShape
  <2> QED
    BY <1>1, <1>5, <2>1 DEF BurstShape, TypeOK
<1>8. WakeShape'
  BY <1>1 DEF WakeShape, CallShape, TypeOK
<1> QED
  BY <1>2, <1>5, <1>6, <1>7, <1>8

LEMMA DoneEmptyKeeps ==
    ASSUME IInv, NEW r \in Reqs, pc \in {"idle", "in_resp", "in_retry"},
           DoneEmpty(r), UNCHANGED <<stuck, down>>
    PROVE  IInv'
<1> USE DEF IInv
<1>1. /\ pending_parent = None
      /\ resp_status' = [resp_status EXCEPT ![r] = "OK"]
      /\ mst' = [mst EXCEPT ![r] = "idle"]
      /\ UNCHANGED <<pending_parent, bytes_planned, chunks_pending, stuck, down,
                     input_needs_retry, inside_input_req, next_output, cursor, pc, ret>>
  BY DEF DoneEmpty, issueVars
<1>2. TypeOK'
  BY <1>1 DEF TypeOK
<1>3. Outstanding = {}
  BY <1>1 DEF BurstShape
<1>4. /\ Outstanding' = Outstanding
      /\ PendingExact' /\ OnePhaseInFlight' /\ ChunksAligned' /\ ChunkShape'
  BY <1>1, <1>2, <1>3, OutKept
<1>5. IssueShape' /\ CallShape' /\ BurstShape' /\ WakeShape'
  BY <1>1, <1>4 DEF IssueShape, CallShape, BurstShape, WakeShape, TypeOK
<1> QED
  BY <1>2, <1>4, <1>5

LEMMA AcceptKeeps ==
    ASSUME IInv, NEW r \in Reqs, pc \in {"idle", "in_resp", "in_retry"},
           pc = "in_resp" => \A q \in Reqs : mst[q] # "denied",
           Accept(r), UNCHANGED <<stuck, down>>
    PROVE  IInv'
<1> USE DEF IInv
<1>1. /\ pending_parent = None /\ Size[r] # 0
      /\ pending_parent' = r
      /\ bytes_planned' = 0 /\ chunks_pending' = 0
      /\ resp_status' = [resp_status EXCEPT ![r] = "OK"]
      /\ inside_input_req' = TRUE
      /\ next_output' = 0 /\ cursor' = 0
      /\ pc' = "issue" /\ ret' = pc
      /\ mst' = [mst EXCEPT ![r] = "granted"]
      /\ UNCHANGED <<input_needs_retry, stuck, down>>
  BY DEF Accept
<1>2. TypeOK'
  BY <1>1 DEF TypeOK
<1>3. Outstanding = {} /\ chunks_pending' = chunks_pending
  <2>1. Outstanding = {}
    BY <1>1 DEF BurstShape
  <2> QED
    BY <1>1, <2>1, NonePending
<1>4. /\ Outstanding' = Outstanding
      /\ PendingExact' /\ OnePhaseInFlight' /\ ChunksAligned' /\ ChunkShape'
  BY <1>1, <1>2, <1>3, OutKept
<1>5. \A q \in Reqs : mst[q] # "denied"
  BY <1>1 DEF WakeShape
<1>6. CallShape' /\ BurstShape' /\ WakeShape'
  BY <1>1, <1>3, <1>4, <1>5 DEF CallShape, BurstShape, WakeShape, TypeOK
<1>7. IssueShape'
  <2>1. nb_outputs \in Nat /\ Size[r] \in Nat
    BY Words
  <2>2. PhaseEnd' \in Nat
    <3>1. PhaseEnd' = Smaller(0 + (InputWidth - ((Addr[r] + 0) % InputWidth)), Size[r])
      BY <1>1 DEF PhaseEnd
    <3>2. Addr[r] + 0 \in Nat
      OBVIOUS
    <3>3. (Addr[r] + 0) % InputWidth \in 0 .. (InputWidth - 1)
      BY <3>2, Boundary
    <3> QED
      BY <2>1, <3>1, <3>3 DEF Smaller
  <2> HIDE DEF PhaseEnd
  <2>3. 0 <= PhaseEnd' /\ 0 < Size[r] /\ 0 <= nb_outputs
    BY <1>1, <2>1, <2>2
  <2> QED
    BY <1>1, <1>3, <1>4, <2>3 DEF IssueShape, nb_outputs
<1> QED
  BY <1>2, <1>4, <1>6, <1>7

LEMMA MasterSendKeeps ==
    ASSUME IInv, NEW r \in Reqs, MasterSend(r)
    PROVE  IInv'
<1>1. /\ mst[r] \in {"idle", "retrying"} /\ pc \in {"idle", "in_resp", "in_retry"}
      /\ pc = "in_resp" => \A q \in Reqs : mst[q] # "denied"
      /\ Deny(r) \/ DoneEmpty(r) \/ Accept(r)
      /\ UNCHANGED <<stuck, down>>
  BY DEF MasterSend
<1> QED
  BY <1>1, DenyKeeps, DoneEmptyKeeps, AcceptKeeps

----------------------------------------------------------------------------
(* issue_phases.                                                           *)

LEMMA IssueChunkKeeps ==
    ASSUME IInv, IssueChunk
    PROVE  IInv'
<1> USE DEF IInv
<1>1. /\ pc = "issue" /\ MoreChunks
      /\ next_output' = next_output + 1 /\ cursor' = cursor + NextChunk.size
      /\ UNCHANGED <<pending_parent, bytes_planned, input_needs_retry, inside_input_req,
                     pc, ret, mst>>
  BY DEF IssueChunk
<1>2. \/ resp_status' = Latched(NextChunk) /\ UNCHANGED <<chunks_pending, stuck, down>>
      \/ /\ chunks_pending' = CountUp /\ resp_status' = resp_status
         /\ \/ down' = down \cup {NextChunk} /\ stuck' = stuck
            \/ stuck' = [stuck EXCEPT ![next_output] = NextChunk] /\ down' = down
  BY DEF IssueChunk
<1> DEFINE c == NextChunk
<1>3. /\ pending_parent \in Reqs /\ c \in Chunks
      /\ c.parent = pending_parent /\ c.port = next_output
      /\ c.off = cursor /\ 0 < c.size /\ cursor + c.size <= PhaseEnd
      /\ \/ cursor + c.size = PhaseEnd
         \/ /\ (Addr[pending_parent] + cursor + c.size) % OutputWidth = 0
            /\ Addr[pending_parent] + cursor + c.size
                 = (Base - (Base % OutputWidth)) + ((next_output + 1) * OutputWidth)
  BY <1>1, NextChunkShape
<1> HIDE DEF c
<1>4. /\ c.size \in Nat /\ cursor \in Nat /\ next_output \in Nat /\ chunks_pending \in Nat
      /\ next_output \in Outputs /\ bytes_planned \in Nat
  BY <1>3 DEF Chunks, TypeOK
<1>5. TypeOK'
  <2>1. cursor' \in Nat /\ next_output' \in Nat /\ chunks_pending' \in Nat
    BY <1>1, <1>2, <1>4 DEF CountUp, c
  <2>2. resp_status' \in [Reqs -> {"OK", "INVALID"}]
    BY <1>2, <1>3 DEF TypeOK, Latched
  <2>3. down' \subseteq Chunks /\ stuck' \in [Outputs -> Chunks \cup {None}]
    BY <1>2, <1>3, <1>4 DEF TypeOK, c
  <2> QED
    BY <1>1, <2>1, <2>2, <2>3 DEF TypeOK
<1>6. /\ Outstanding' \in {Outstanding, Outstanding \cup {c}}
      /\ PendingExact' /\ OnePhaseInFlight' /\ ChunksAligned' /\ ChunkShape'
  <2>1. CASE UNCHANGED <<chunks_pending, stuck, down>>
    <3>1. Ahead <= Ahead'
      BY <1>1, <1>4 DEF Ahead, c
    <3> HIDE DEF Ahead
    <3> QED
      BY <1>1, <1>5, <2>1, <3>1, OutKept
  <2>2. CASE /\ chunks_pending' = CountUp
             /\ \/ down' = down \cup {NextChunk} /\ stuck' = stuck
                \/ stuck' = [stuck EXCEPT ![next_output] = NextChunk] /\ down' = down
    BY <1>1, <1>5, <2>2, OutMore DEF c
  <2> QED
    BY <1>2, <2>1, <2>2
<1>7. IssueShape'
  <2>1. PhaseEnd' = PhaseEnd /\ Base' = Base
    BY <1>1 DEF PhaseEnd, Base
  <2>2. /\ pending_parent # None /\ bytes_planned < Size[pending_parent]
        /\ bytes_planned <= cursor /\ next_output < nb_outputs
        /\ \A d \in Outstanding : d.port < next_output /\ bytes_planned <= d.off
    BY <1>1 DEF IssueShape, MoreChunks
  <2>3. bytes_planned <= cursor' /\ cursor' <= PhaseEnd /\ next_output' <= nb_outputs
    <3>1. nb_outputs \in Nat /\ cursor' = cursor + c.size
      BY <1>1, Words DEF c
    <3> HIDE DEF PhaseEnd
    <3> QED
      BY <1>1, <1>3, <1>4, <2>2, <3>1
  <2>4. \A d \in Outstanding' : d.port < next_output' /\ bytes_planned <= d.off
    <3>1. Outstanding \subseteq Chunks
      BY SplitterInFlight
    <3>2. \A d \in Outstanding : d.port \in Int
      BY <3>1 DEF Chunks, Outputs
    <3> QED
      BY <1>1, <1>3, <1>4, <1>6, <2>2, <3>2
  <2>5. \/ cursor' = PhaseEnd
        \/ /\ (Addr[pending_parent] + cursor') % OutputWidth = 0
           /\ Addr[pending_parent] + cursor'
                = (Base - (Base % OutputWidth)) + (next_output' * OutputWidth)
    <3>1. Addr[pending_parent] + cursor' = Addr[pending_parent] + cursor + c.size
      BY <1>1, <1>3, <1>4 DEF c
    <3>2. cursor' = cursor + c.size
      BY <1>1 DEF c
    <3> QED
      BY <1>1, <1>3, <3>1, <3>2
  <2> QED
    BY <1>1, <2>1, <2>2, <2>3, <2>4, <2>5 DEF IssueShape, nb_outputs
<1>8. CallShape' /\ WakeShape' /\ BurstShape'
  BY <1>1 DEF CallShape, WakeShape, BurstShape, IssueShape
<1> QED
  BY <1>5, <1>6, <1>7, <1>8
LEMMA EndsLater ==
    ASSUME NEW x \in Nat, NEW m \in Nat, NEW z \in Nat, x < z
    PROVE  x <= Smaller(x + m, z)
BY DEF Smaller

(* A phase starts at bytes_planned with no chunk in flight.                *)
LEMMA PhaseStarts ==
    ASSUME TypeOK', pc' = "issue", pending_parent' # None, bytes_planned' < Size[pending_parent'],
           next_output' = 0, cursor' = bytes_planned', Outstanding' = {}
    PROVE  IssueShape'
<1> DEFINE p == pending_parent'
           b == Addr[p] + bytes_planned'
<1>1. p \in Reqs /\ bytes_planned' \in Nat /\ Size[p] \in Nat /\ b \in Nat
  BY DEF TypeOK
<1>2. b % InputWidth \in 0 .. (InputWidth - 1)
  <2> HIDE DEF b
  <2> QED
    BY <1>1, Boundary
<1>3. PhaseEnd' = Smaller(bytes_planned' + (InputWidth - (b % InputWidth)), Size[p])
  BY DEF PhaseEnd
<1>4. bytes_planned' <= PhaseEnd'
  <2> DEFINE m == InputWidth - (b % InputWidth)
  <2>1. m \in Nat
    BY <1>2
  <2>2. PhaseEnd' = Smaller(bytes_planned' + m, Size[p])
    BY <1>3
  <2>3. bytes_planned' <= Smaller(bytes_planned' + m, Size[p])
    <3> HIDE DEF m
    <3>1. Size[p] \in Nat /\ bytes_planned' \in Nat /\ bytes_planned' < Size[p]
      BY <1>1
    <3> HIDE DEF p
    <3> QED
      BY <2>1, <3>1, EndsLater, Zenon
  <2> QED
    BY <2>2, <2>3, Zenon
<1>5. 0 <= nb_outputs
  BY Words
<1> QED
  BY <1>1, <1>4, <1>5 DEF IssueShape, nb_outputs

(* Where issue_phases leaves its loop.                                     *)
LEMMA PhaseOver ==
    ASSUME IInv, pc = "issue", ~MoreChunks
    PROVE  /\ pending_parent \in Reqs /\ cursor = PhaseEnd /\ Ahead = PhaseEnd /\ PhaseEnd \in Nat
           /\ PhaseEnd <= Size[pending_parent] /\ Size[pending_parent] \in Nat
           /\ ~NextPhaseNow /\ chunks_pending = 0 => PhaseEnd = Size[pending_parent]
           /\ chunks_pending = 0 <=> Outstanding = {}
<1>1. cursor = PhaseEnd /\ Ahead = cursor
  BY PhaseCovered DEF IInv, Ahead
<1>2. pending_parent # None /\ bytes_planned < Size[pending_parent]
  BY DEF IInv, IssueShape
<1>3. PhaseEnd \in Nat /\ PhaseEnd <= Size[pending_parent]
  BY <1>2, PhaseShape DEF IInv
<1>4. pending_parent \in Reqs /\ Size[pending_parent] \in Nat
  BY <1>2 DEF IInv, TypeOK
<1>5. chunks_pending = 0 <=> Outstanding = {}
  BY NonePending DEF IInv
<1>6. ~NextPhaseNow /\ chunks_pending = 0 => PhaseEnd = Size[pending_parent]
  <2>1. ~NextPhaseNow /\ chunks_pending = 0 => ~(PhaseEnd < Size[pending_parent])
    BY DEF NextPhaseNow
  <2> HIDE DEF PhaseEnd
  <2> QED
    BY <1>3, <1>4, <2>1
<1> QED
  BY <1>1, <1>3, <1>4, <1>5, <1>6

LEMMA PhaseIssuedKeeps ==
    ASSUME IInv, PhaseIssued
    PROVE  IInv'
<1> USE DEF IInv
<1>1. /\ pc = "issue" /\ ~MoreChunks /\ PhaseEnd < Size[pending_parent] /\ chunks_pending = 0
      /\ bytes_planned' = PhaseEnd /\ next_output' = 0 /\ cursor' = PhaseEnd
      /\ UNCHANGED <<pending_parent, chunks_pending, resp_status, stuck, input_needs_retry,
                     inside_input_req, pc, ret, mst, down>>
  BY DEF PhaseIssued, NextPhaseNow
<1>2. PhaseEnd \in Nat /\ Outstanding = {} /\ pending_parent # None
      /\ PhaseEnd <= Size[pending_parent]
  BY <1>1, PhaseOver DEF IssueShape
<1> HIDE DEF PhaseEnd
<1>3. TypeOK'
  BY <1>1, <1>2 DEF TypeOK
<1>4. /\ Outstanding' = Outstanding
      /\ PendingExact' /\ OnePhaseInFlight' /\ ChunksAligned' /\ ChunkShape'
  BY <1>1, <1>2, <1>3, OutKept
<1>5. IssueShape'
  BY <1>1, <1>2, <1>3, <1>4, PhaseStarts
<1>6. BurstShape' /\ CallShape' /\ WakeShape'
  BY <1>1, <1>2, <1>4 DEF BurstShape, CallShape, WakeShape
<1> QED
  BY <1>3, <1>4, <1>5, <1>6

(* input_req answers DONE: the burst is over.                              *)
LEMMA InputReturnsKeeps ==
    ASSUME IInv, InputReturns
    PROVE  IInv'
<1> USE DEF IInv
<1>1. /\ pc = "issue" /\ ~MoreChunks /\ ~NextPhaseNow /\ inside_input_req
      /\ inside_input_req' = FALSE /\ next_output' = 0 /\ cursor' = 0
      /\ pc' = ret /\ ret' = "idle"
      /\ UNCHANGED <<resp_status, stuck, input_needs_retry, down>>
  BY DEF InputReturns
<1>2. /\ pending_parent \in Reqs /\ Ahead = PhaseEnd /\ PhaseEnd \in Nat
      /\ PhaseEnd <= Size[pending_parent] /\ (chunks_pending = 0 <=> Outstanding = {})
  BY <1>1, PhaseOver
<1>3. ret \in {"idle", "in_resp", "in_retry"} /\ chunks_pending \in Nat
  BY DEF TypeOK
<1>4. CASE /\ chunks_pending = 0 /\ ClearParent
           /\ mst' = [mst EXCEPT ![pending_parent] = "idle"]
  <2>1. /\ pending_parent' = None /\ bytes_planned' = 0 /\ chunks_pending' = chunks_pending
        /\ Outstanding = {}
    BY <1>2, <1>4 DEF ClearParent
  <2>2. TypeOK'
    BY <1>1, <1>3, <1>4, <2>1 DEF TypeOK
  <2>3. /\ Outstanding' = Outstanding
        /\ PendingExact' /\ OnePhaseInFlight' /\ ChunksAligned' /\ ChunkShape'
    BY <1>1, <2>1, <2>2, OutKept
  <2>4. IssueShape' /\ BurstShape' /\ CallShape'
    BY <1>1, <1>3, <1>4, <2>1, <2>3 DEF IssueShape, BurstShape, CallShape, TypeOK
  <2>5. WakeShape'
    BY <1>1, <1>3, <1>4 DEF WakeShape, TypeOK
  <2> QED
    BY <2>2, <2>3, <2>4, <2>5
<1>5. CASE /\ chunks_pending # 0 /\ bytes_planned' = PhaseEnd
           /\ UNCHANGED <<pending_parent, chunks_pending, mst>>
  <2>1. Ahead' = PhaseEnd
    BY <1>1, <1>3, <1>5 DEF Ahead
  <2> HIDE DEF PhaseEnd, Ahead
  <2>2. TypeOK' /\ Ahead <= Ahead'
    <3>1. Ahead <= Ahead' /\ bytes_planned' \in Nat
      BY <1>2, <1>5, <2>1
    <3>2. pc' \in {"idle", "in_resp", "in_retry"} /\ cursor' \in Nat /\ next_output' \in Nat
      BY <1>1, <1>3
    <3> QED
      BY <1>1, <1>5, <3>1, <3>2 DEF TypeOK
  <2>3. /\ Outstanding' = Outstanding
        /\ PendingExact' /\ OnePhaseInFlight' /\ ChunksAligned' /\ ChunkShape'
    BY <1>1, <1>5, <2>2, OutKept
  <2>4. IssueShape' /\ BurstShape' /\ CallShape'
    BY <1>1, <1>2, <1>3, <1>5, <2>3 DEF IssueShape, BurstShape, CallShape
  <2>5. WakeShape'
    BY <1>1, <1>2, <1>5 DEF WakeShape
  <2> QED
    BY <2>2, <2>3, <2>4, <2>5
<1> QED
  BY <1>4, <1>5 DEF InputReturns

LEMMA ResumeReturnsKeeps ==
    ASSUME IInv, ResumeReturns
    PROVE  IInv'
<1> USE DEF IInv
<1>1. /\ pc = "issue" /\ ~MoreChunks /\ ~NextPhaseNow /\ ~inside_input_req
      /\ bytes_planned' = PhaseEnd /\ next_output' = 0 /\ cursor' = 0
      /\ pc' = IF chunks_pending = 0 THEN "finalize" ELSE "idle"
      /\ UNCHANGED <<pending_parent, chunks_pending, resp_status, stuck, input_needs_retry,
                     inside_input_req, ret, mst, down>>
  BY DEF ResumeReturns, AfterPhase
<1>2. /\ pending_parent \in Reqs /\ Ahead = PhaseEnd /\ PhaseEnd \in Nat
      /\ PhaseEnd <= Size[pending_parent] /\ (chunks_pending = 0 <=> Outstanding = {})
      /\ chunks_pending = 0 => PhaseEnd = Size[pending_parent]
  BY <1>1, PhaseOver
<1>3. Ahead' = PhaseEnd
  BY <1>1 DEF Ahead
<1> HIDE DEF PhaseEnd, Ahead
<1>4. TypeOK' /\ Ahead <= Ahead'
  BY <1>1, <1>2, <1>3 DEF TypeOK
<1>5. /\ Outstanding' = Outstanding
      /\ PendingExact' /\ OnePhaseInFlight' /\ ChunksAligned' /\ ChunkShape'
  BY <1>1, <1>4, OutKept
<1>6. IssueShape' /\ CallShape' /\ WakeShape'
  BY <1>1, <1>2 DEF IssueShape, CallShape, WakeShape
<1>7. BurstShape'
  BY <1>1, <1>2, <1>5 DEF BurstShape
<1> QED
  BY <1>4, <1>5, <1>6, <1>7

----------------------------------------------------------------------------
(* The downstream callbacks.                                               *)

LEMMA CompletedKeeps ==
    ASSUME IInv, pc = "idle", NEW sub \in Outstanding, ChunkCompleted(sub),
           Outstanding' = Outstanding \ {sub},
           down' \subseteq Chunks, stuck' \in [Outputs -> Chunks \cup {None}],
           \A i \in Outputs : stuck'[i] # None => stuck'[i].port = i /\ stuck'[i] \notin down',
           UNCHANGED <<pending_parent, bytes_planned, input_needs_retry, inside_input_req,
                       ret, mst>>
    PROVE  IInv'
<1> USE DEF IInv
<1>1. pending_parent \in Reqs /\ bytes_planned <= Size[pending_parent]
      /\ bytes_planned \in Nat /\ Size[pending_parent] \in Nat
  <2>1. pending_parent # None
    BY DEF BurstShape
  <2> QED
    BY <2>1 DEF BurstShape, TypeOK
<1>2. /\ chunks_pending' = CountDown /\ resp_status' = Latched(sub)
      /\ \/ chunks_pending' # 0 /\ UNCHANGED <<pc, next_output, cursor>>
         \/ /\ chunks_pending' = 0 /\ bytes_planned < Size[pending_parent]
            /\ pc' = "issue" /\ next_output' = 0 /\ cursor' = bytes_planned
         \/ /\ chunks_pending' = 0 /\ bytes_planned = Size[pending_parent]
            /\ pc' = "finalize" /\ UNCHANGED <<next_output, cursor>>
  BY DEF ChunkCompleted, issueVars
<1>3. Ahead' = Ahead
  BY <1>2 DEF Ahead
<1> HIDE DEF Ahead
<1>4. /\ PendingExact' /\ OnePhaseInFlight' /\ ChunksAligned' /\ ChunkShape'
      /\ chunks_pending' \in Nat /\ (chunks_pending' = 0 <=> Outstanding' = {})
  BY <1>2, <1>3, OutLess
<1>5. TypeOK'
  <2>1. resp_status' \in [Reqs -> {"OK", "INVALID"}]
    BY <1>1, <1>2 DEF Latched, TypeOK
  <2>2. next_output' \in Nat /\ cursor' \in Nat /\ pc' \in {"idle", "issue", "finalize"}
    BY <1>1, <1>2 DEF TypeOK
  <2> QED
    BY <1>4, <2>1, <2>2 DEF TypeOK
<1>6. IssueShape'
  <2>1. CASE pc' = "issue"
    BY <1>1, <1>2, <1>4, <1>5, <2>1, PhaseStarts
  <2>2. CASE pc' # "issue"
    BY <2>2 DEF IssueShape
  <2> QED
    BY <2>1, <2>2
<1>7. BurstShape'
  BY <1>1, <1>2, <1>4 DEF BurstShape
<1>8. CallShape' /\ WakeShape'
  BY <1>1, <1>2 DEF CallShape, WakeShape
<1> QED
  BY <1>4, <1>5, <1>6, <1>7, <1>8

LEMMA RespKeeps ==
    ASSUME IInv, NEW sub \in down, output_resp(sub)
    PROVE  /\ sub \in Outstanding /\ Outstanding' = Outstanding \ {sub} /\ IInv'
<1> USE DEF IInv
<1>1. /\ pc = "idle" /\ down' = down \ {sub} /\ ChunkCompleted(sub) /\ stuck' = stuck
      /\ UNCHANGED <<pending_parent, bytes_planned, input_needs_retry, inside_input_req, ret, mst>>
  BY DEF output_resp
<1>2. sub \in Outstanding /\ sub \notin Stuck
  BY DEF Outstanding, Stuck, ChunkShape
<1>3. Outstanding' = Outstanding \ {sub}
  BY <1>1, <1>2 DEF Outstanding, Stuck
<1>4. \A i \in Outputs : stuck'[i] # None => stuck'[i].port = i /\ stuck'[i] \notin down'
  BY <1>1 DEF ChunkShape
<1>5. down' \subseteq Chunks /\ stuck' \in [Outputs -> Chunks \cup {None}]
  BY <1>1 DEF TypeOK
<1>6. IInv'
  <2> HIDE DEF IInv
  <2> QED
    BY <1>1, <1>2, <1>3, <1>4, <1>5, CompletedKeeps
<1> QED
  BY <1>2, <1>3, <1>6
(* The stuck chunk is replayed: answered, granted or denied again.         *)
LEMMA RetryEffect ==
    ASSUME IInv, NEW i \in Outputs, stuck[i] # None, stuck' = [stuck EXCEPT ![i] = None]
    PROVE  /\ stuck[i] \in Outstanding /\ stuck[i] \in Chunks
           /\ Stuck' = Stuck \ {stuck[i]} /\ stuck[i] \notin down
           /\ stuck' \in [Outputs -> Chunks \cup {None}]
           /\ \A j \in Outputs : stuck'[j] # None =>
                 stuck'[j] = stuck[j] /\ stuck'[j].port = j /\ stuck'[j] # stuck[i]
<1> USE DEF IInv
<1>1. stuck[i] \in Outstanding /\ stuck[i] \in Chunks /\ stuck[i] \notin down /\ stuck[i].port = i
  BY SplitterInFlight DEF ChunkShape
<1>2. stuck' \in [Outputs -> Chunks \cup {None}]
  BY DEF TypeOK
<1>3. stuck'[i] = None /\ \A j \in Outputs : j # i => stuck'[j] = stuck[j]
  BY DEF TypeOK
<1>4. \A j \in Outputs : stuck'[j] # None =>
        stuck'[j] = stuck[j] /\ stuck'[j].port = j /\ stuck'[j] # stuck[i]
  BY <1>1, <1>3 DEF ChunkShape
<1>5. Stuck' = Stuck \ {stuck[i]}
  BY <1>1, <1>3, <1>4 DEF Stuck
<1> QED
  BY <1>1, <1>2, <1>4, <1>5

LEMMA RetryKeeps ==
    ASSUME IInv, NEW i \in Outputs, output_retry(i)
    PROVE  IInv'
<1> USE DEF IInv
<1>1. /\ pc = "idle" /\ stuck[i] # None
      /\ UNCHANGED <<pending_parent, bytes_planned, input_needs_retry, inside_input_req, ret, mst>>
  BY DEF output_retry
<1>2. CASE /\ ChunkCompleted(stuck[i]) /\ stuck' = [stuck EXCEPT ![i] = None] /\ down' = down
  <2>1. /\ stuck[i] \in Outstanding /\ Stuck' = Stuck \ {stuck[i]} /\ stuck[i] \notin down
        /\ stuck' \in [Outputs -> Chunks \cup {None}]
        /\ \A j \in Outputs : stuck'[j] # None => stuck'[j] = stuck[j] /\ stuck'[j].port = j
    BY <1>1, <1>2, RetryEffect
  <2>2. Outstanding' = Outstanding \ {stuck[i]} /\ down' \subseteq Chunks
    BY <1>2, <2>1 DEF Outstanding, TypeOK
  <2>3. \A j \in Outputs : stuck'[j] # None => stuck'[j].port = j /\ stuck'[j] \notin down'
    BY <1>2, <2>1 DEF ChunkShape
  <2> HIDE DEF IInv
  <2> QED
    BY <1>1, <1>2, <2>1, <2>2, <2>3, CompletedKeeps
<1>3. CASE /\ down' = down \cup {stuck[i]} /\ stuck' = [stuck EXCEPT ![i] = None]
           /\ UNCHANGED <<chunks_pending, resp_status, pc, issueVars>>
  <2>1. /\ stuck[i] \in Outstanding /\ stuck[i] \in Chunks /\ Stuck' = Stuck \ {stuck[i]}
        /\ stuck' \in [Outputs -> Chunks \cup {None}]
        /\ \A j \in Outputs : stuck'[j] # None =>
              stuck'[j] = stuck[j] /\ stuck'[j].port = j /\ stuck'[j] # stuck[i]
    BY <1>1, <1>3, RetryEffect
  <2>2. Outstanding' = Outstanding
    BY <1>3, <2>1 DEF Outstanding
  <2>3. \A j \in Outputs : stuck'[j] # None => stuck'[j].port = j /\ stuck'[j] \notin down'
    BY <1>3, <2>1 DEF ChunkShape
  <2>4. TypeOK'
    BY <1>1, <1>3, <2>1 DEF TypeOK, issueVars
  <2>5. Ahead' = Ahead
    BY <1>1, <1>3 DEF Ahead
  <2>6. ChunkShape'
    BY <2>2, <2>3, <2>5 DEF ChunkShape
  <2>7. PendingExact' /\ OnePhaseInFlight' /\ ChunksAligned'
    BY <1>1, <1>3, <2>2 DEF PendingExact, OnePhaseInFlight, ChunksAligned
  <2>8. IssueShape' /\ BurstShape' /\ CallShape' /\ WakeShape'
    BY <1>1, <1>3, <2>2 DEF IssueShape, BurstShape, CallShape, WakeShape
  <2> QED
    BY <2>4, <2>6, <2>7, <2>8
<1>4. CASE UNCHANGED <<chunks_pending, resp_status, stuck, down, pc, issueVars>>
  <2>1. TypeOK' /\ Ahead' = Ahead
    BY <1>1, <1>4 DEF TypeOK, issueVars, Ahead
  <2>2. Outstanding' = Outstanding
    BY <1>4 DEF Outstanding, Stuck
  <2>3. PendingExact' /\ OnePhaseInFlight' /\ ChunksAligned' /\ ChunkShape'
    BY <1>1, <1>4, <2>1, <2>2 DEF PendingExact, OnePhaseInFlight, ChunksAligned, ChunkShape
  <2>4. IssueShape' /\ BurstShape' /\ CallShape' /\ WakeShape'
    BY <1>1, <1>4, <2>2 DEF IssueShape, BurstShape, CallShape, WakeShape
  <2> QED
    BY <2>1, <2>3, <2>4
<1> QED
  BY <1>2, <1>3, <1>4 DEF output_retry

LEMMA FinalizeKeeps ==
    ASSUME IInv, Finalize
    PROVE  IInv'
<1> USE DEF IInv
<1>1. /\ pc = "finalize" /\ pending_parent \in Reqs /\ Outstanding = {} /\ chunks_pending = 0
      /\ mst[pending_parent] = "granted"
  <2>1. pc = "finalize" /\ pending_parent # None /\ Outstanding = {}
    BY DEF Finalize, BurstShape
  <2> QED
    BY <2>1, NonePending DEF BurstShape, TypeOK
<1>2. /\ pending_parent' = None /\ bytes_planned' = 0 /\ chunks_pending' = chunks_pending
      /\ mst' = [mst EXCEPT ![pending_parent] = "idle"]
      /\ pc' = "in_resp"
      /\ UNCHANGED <<resp_status, stuck, input_needs_retry, inside_input_req, issueVars, ret, down>>
  BY <1>1 DEF Finalize, ClearParent
<1>3. TypeOK'
  BY <1>1, <1>2 DEF TypeOK, issueVars
<1>4. /\ Outstanding' = Outstanding
      /\ PendingExact' /\ OnePhaseInFlight' /\ ChunksAligned' /\ ChunkShape'
  BY <1>1, <1>2, <1>3, OutKept
<1>5. IssueShape' /\ BurstShape'
  BY <1>1, <1>2, <1>4 DEF IssueShape, BurstShape
<1>6. CallShape' /\ WakeShape'
  BY <1>1, <1>2 DEF CallShape, WakeShape, TypeOK
<1> QED
  BY <1>3, <1>4, <1>5, <1>6

LEMMA ReturnsKeeps ==
    ASSUME IInv, RespReturns \/ RetryReturns
    PROVE  IInv'
<1> USE DEF IInv
<1>1. /\ pc \in {"in_resp", "in_retry"} /\ pc' \in {"idle", "in_retry"}
      /\ mst' \in [Reqs -> {"idle", "denied", "retrying", "granted", "spurious"}]
      /\ input_needs_retry' \in BOOLEAN
      /\ \A r \in Reqs : /\ mst[r] = "granted" => mst'[r] = "granted"
                         /\ mst[r] # "spurious" => mst'[r] # "spurious"
                         /\ mst'[r] = "denied" => mst[r] = "denied"
      /\ UNCHANGED <<pending_parent, bytes_planned, chunks_pending, resp_status, stuck,
                     inside_input_req, next_output, cursor, ret, down>>
  BY DEF RespReturns, RetryReturns, RetryDue, issueVars, TypeOK
<1>2. TypeOK' /\ Ahead' = Ahead
  BY <1>1 DEF TypeOK, Ahead
<1>3. Outstanding' = Outstanding
  BY <1>1 DEF Outstanding, Stuck
<1>4. PendingExact' /\ OnePhaseInFlight' /\ ChunksAligned' /\ ChunkShape'
  BY <1>1, <1>2, <1>3 DEF PendingExact, OnePhaseInFlight, ChunksAligned, ChunkShape
<1>5. IssueShape' /\ CallShape'
  BY <1>1 DEF IssueShape, CallShape
<1>6. BurstShape'
  <2>1. pending_parent # None => pending_parent \in Reqs
    BY DEF TypeOK
  <2> QED
    BY <1>1, <1>3, <2>1 DEF BurstShape
<1>7. WakeShape'
  <2>1. CASE RespReturns
    <3>1. \A r \in Reqs : mst'[r] # "denied"
      BY <1>1, <2>1 DEF RespReturns, RetryDue, WakeShape
    <3> QED
      BY <3>1 DEF WakeShape
  <2>2. CASE RetryReturns
    <3>1. pc = "in_retry" /\ pc' = "idle" /\ UNCHANGED <<input_needs_retry, mst>>
      BY <2>2 DEF RetryReturns
    <3> QED
      BY <1>1, <3>1 DEF WakeShape
  <2> QED
    BY <2>1, <2>2
<1> QED
  BY <1>2, <1>4, <1>5, <1>6, <1>7

(* The state that Init and reset leave.                                    *)
LEMMA CleanShape ==
    ASSUME TypeOK', pending_parent' = None, bytes_planned' = 0, chunks_pending' = 0,
           stuck' = [i \in Outputs |-> None], down' = {},
           pc' = "idle", ret' = "idle", mst' = [r \in Reqs |-> "idle"]
    PROVE  Outstanding' = {} /\ (~inside_input_req' => IInv')
<1>1. Outstanding' = {}
  BY DEF Outstanding, Stuck
<1>2. PendingExact' /\ OnePhaseInFlight' /\ ChunksAligned' /\ ChunkShape'
  BY <1>1, FS_EmptySet DEF PendingExact, OnePhaseInFlight, ChunksAligned, ChunkShape
<1>3. IssueShape' /\ BurstShape' /\ WakeShape'
  BY <1>1 DEF IssueShape, BurstShape, WakeShape
<1>4. ~inside_input_req' => CallShape'
  BY DEF CallShape
<1> QED
  BY <1>1, <1>2, <1>3, <1>4 DEF IInv

LEMMA ResetKeeps ==
    ASSUME IInv, reset
    PROVE  IInv' /\ Outstanding' = {} /\ pending_parent' = None
<1>1. /\ pc = "idle" /\ pc' = "idle" /\ ret' = ret
      /\ pending_parent' = None /\ bytes_planned' = 0 /\ chunks_pending' = 0
      /\ stuck' = [i \in Outputs |-> None] /\ down' = {}
      /\ input_needs_retry' = FALSE /\ inside_input_req' = FALSE
      /\ mst' = [r \in Reqs |-> "idle"]
      /\ UNCHANGED <<resp_status, next_output, cursor>>
  BY DEF reset, ClearParent, issueVars
<1>2. TypeOK'
  BY <1>1 DEF IInv, TypeOK
<1>3. ret = "idle"
  BY <1>1 DEF IInv, CallShape
<1> QED
  BY <1>1, <1>2, <1>3, CleanShape

----------------------------------------------------------------------------
(* The invariant.                                                          *)

LEMMA IInvInit == Init => IInv
<1> SUFFICES ASSUME Init PROVE IInv
  OBVIOUS
<1> USE DEF Init
<1>1. Outstanding = {}
  BY DEF Outstanding, Stuck
<1>2. TypeOK
  BY DEF TypeOK
<1>3. PendingExact /\ OnePhaseInFlight /\ ChunksAligned /\ ChunkShape
  BY <1>1, FS_EmptySet DEF PendingExact, OnePhaseInFlight, ChunksAligned, ChunkShape
<1>4. IssueShape /\ BurstShape /\ CallShape /\ WakeShape
  BY <1>1 DEF IssueShape, BurstShape, CallShape, WakeShape
<1> QED
  BY <1>2, <1>3, <1>4 DEF IInv

LEMMA IInvKept == IInv /\ [Next]_vars => IInv'
<1> SUFFICES ASSUME IInv, [Next]_vars PROVE IInv'
  OBVIOUS
<1>1. ASSUME NEW r \in Reqs, MasterSend(r) PROVE IInv'
  BY <1>1, MasterSendKeeps
<1>2. ASSUME IssueChunk \/ PhaseIssued \/ InputReturns \/ ResumeReturns PROVE IInv'
  BY <1>2, IssueChunkKeeps, PhaseIssuedKeeps, InputReturnsKeeps, ResumeReturnsKeeps
<1>3. ASSUME NEW sub \in down, output_resp(sub) PROVE IInv'
  BY <1>3, RespKeeps
<1>4. ASSUME NEW i \in Outputs, output_retry(i) PROVE IInv'
  BY <1>4, RetryKeeps
<1>5. ASSUME Finalize \/ RespReturns \/ RetryReturns \/ reset PROVE IInv'
  BY <1>5, FinalizeKeeps, ReturnsKeeps, ResetKeeps
<1>6. ASSUME UNCHANGED vars PROVE IInv'
  <2> USE DEF IInv
  <2>1. UNCHANGED <<pending_parent, bytes_planned, chunks_pending, resp_status, stuck,
                    input_needs_retry, inside_input_req, next_output, cursor, pc, ret, mst, down>>
    BY <1>6 DEF vars, issueVars
  <2>2. Outstanding' = Outstanding /\ PhaseEnd' = PhaseEnd /\ Base' = Base /\ Ahead' = Ahead
    BY <2>1 DEF Outstanding, Stuck, PhaseEnd, Base, Ahead
  <2>3. TypeOK'
    BY <2>1 DEF TypeOK
  <2>4. PendingExact' /\ OnePhaseInFlight' /\ ChunksAligned' /\ ChunkShape'
    BY <2>1, <2>2 DEF PendingExact, OnePhaseInFlight, ChunksAligned, ChunkShape
  <2>5. IssueShape' /\ BurstShape' /\ CallShape' /\ WakeShape'
    BY <2>1, <2>2 DEF IssueShape, BurstShape, CallShape, WakeShape
  <2> QED
    BY <2>3, <2>4, <2>5
<1> QED
  BY <1>1, <1>2, <1>3, <1>4, <1>5, <1>6 DEF Next

LEMMA IInvAlways == Spec => []IInv
BY IInvInit, IInvKept, PTL DEF Spec

(* Throughout every burst the pending count is exact, the chunks in flight *)
(* lie in one input window, on outputs of their own and each in one word   *)
(* of its output, and a denied master has its retry() to come.             *)
THEOREM InvHolds == Spec => []Inv
<1>1. IInv => Inv
  <2> SUFFICES ASSUME IInv PROVE Inv
    OBVIOUS
  <2>1. WakeupHeld
    BY DEF IInv, WakeShape, BurstShape, WakeupHeld
  <2> QED
    BY <2>1 DEF IInv, Inv, PhaseExact
<1> QED
  BY <1>1, IInvAlways, PTL
----------------------------------------------------------------------------
(* The splitter implements IoService.                                      *)

todoBar == [r \in Reqs |-> Unserved(r)]

(* The bytes of r not served: those ahead, and those of its chunks.        *)
LEMMA UnservedElement ==
    ASSUME IInv, NEW r \in Reqs, NEW b
    PROVE  b \in Unserved(r) <=>
               \/ pending_parent = r /\ b \in Ahead .. (Size[r] - 1)
               \/ \E d \in Outstanding : d.parent = r /\ b \in Bytes(d)
<1>1. pc = "finalize" /\ pending_parent = r => Ahead .. (Size[r] - 1) = {}
  BY DEF IInv, BurstShape, Ahead
<1> QED
  BY <1>1 DEF Unserved, Ahead

LEMMA UnservedElementNext ==
    ASSUME IInv', NEW r \in Reqs, NEW b
    PROVE  b \in Unserved(r)' <=>
               \/ pending_parent' = r /\ b \in Ahead' .. (Size[r] - 1)
               \/ \E d \in Outstanding' : d.parent = r /\ b \in Bytes(d)
<1>1. pc' = "finalize" /\ pending_parent' = r => Ahead' .. (Size[r] - 1) = {}
  BY DEF IInv, BurstShape, Ahead
<1> QED
  BY <1>1 DEF Unserved, Ahead

(* Nothing changes for the bytes.                                          *)
LEMMA SameBytes ==
    ASSUME IInv, IInv', Outstanding' = Outstanding, pending_parent' = pending_parent,
           Ahead' = Ahead
    PROVE  \A r \in Reqs : Unserved(r)' = Unserved(r)
<1> SUFFICES ASSUME NEW r \in Reqs, NEW b PROVE b \in Unserved(r)' <=> b \in Unserved(r)
  OBVIOUS
<1> HIDE DEF Ahead, Outstanding
<1> QED
  BY UnservedElement, UnservedElementNext

LEMMA NoBytes ==
    ASSUME IInv, NEW r \in Reqs,
           pending_parent # r \/ Ahead = Size[r], Outstanding = {}
    PROVE  Unserved(r) = {}
<1> SUFFICES ASSUME NEW b PROVE b \notin Unserved(r)
  OBVIOUS
<1>1. Ahead = Size[r] => Ahead .. (Size[r] - 1) = {}
  OBVIOUS
<1> QED
  BY <1>1, UnservedElement

LEMMA NoBytesNext ==
    ASSUME IInv', NEW r \in Reqs, pending_parent' # r, Outstanding' = {}
    PROVE  Unserved(r)' = {}
<1> SUFFICES ASSUME NEW b PROVE b \notin Unserved(r)'
  OBVIOUS
<1> QED
  BY UnservedElementNext

LEMMA Stutter ==
    ASSUME \A r \in Reqs : Unserved(r)' = Unserved(r), UNCHANGED <<mst, resp_status>>
    PROVE  UNCHANGED Service!vars
BY DEF Service!vars

(* account_chunk: the bytes of a chunk of the current parent are served.   *)
LEMMA ServeSim ==
    ASSUME IInv, NEW sub \in Chunks, pending_parent \in Reqs, sub.parent = pending_parent,
           0 < sub.size, resp_status' = Latched(sub), UNCHANGED mst,
           Bytes(sub) \subseteq Unserved(pending_parent),
           \A r \in Reqs : Unserved(r)' = IF r = pending_parent THEN Unserved(r) \ Bytes(sub)
                                                               ELSE Unserved(r)
    PROVE  Service!Serving
<1>1. PICK p \in Reqs : p = pending_parent
  OBVIOUS
<1>2. Bytes(sub) # {}
  <2>1. sub.off \in Bytes(sub)
    BY DEF Bytes, Chunks
  <2> QED
    BY <2>1
<1>3. todoBar' = [todoBar EXCEPT ![p] = todoBar[p] \ Bytes(sub)]
  BY <1>1 DEF todoBar
<1>4. resp_status' = IF Bytes(sub) \cap Bad[p] # {}
                       THEN [resp_status EXCEPT ![p] = "INVALID"] ELSE resp_status
  BY <1>1 DEF Latched, ChunkStatus
<1>5. Bytes(sub) \in SUBSET todoBar[p]
  BY <1>1 DEF todoBar
<1>6. mst[p] = "granted"
  BY <1>1 DEF IInv, BurstShape
<1>7. Service!Serve(p, Bytes(sub))
  BY <1>2, <1>3, <1>4, <1>5, <1>6 DEF Service!Serve, todoBar
<1> QED
  BY <1>5, <1>7 DEF Service!Serving, todoBar

LEMMA MasterSim ==
    ASSUME IInv, IInv', NEW r \in Reqs, MasterSend(r)
    PROVE  Service!Serving
<1>1. mst[r] \in {"idle", "retrying"} /\ UNCHANGED <<stuck, down>>
      /\ pc \in {"idle", "in_resp", "in_retry"}
  BY DEF MasterSend
<1>2. Outstanding' = Outstanding
  BY <1>1 DEF Outstanding, Stuck
<1>3. CASE Deny(r) \/ DoneEmpty(r)
  <2>1. Ahead' = Ahead /\ pending_parent' = pending_parent
    BY <1>3 DEF Deny, DoneEmpty, Ahead, issueVars
  <2>2. todoBar' = todoBar
    BY <1>2, <2>1, SameBytes DEF todoBar
  <2>3. Deny(r) => Service!Deny(r)
    BY <1>1, <2>2 DEF Deny, Service!Deny, todoBar
  <2>4. DoneEmpty(r) => Service!DoneEmpty(r)
    BY <1>1, <2>2 DEF DoneEmpty, Service!DoneEmpty, todoBar
  <2> QED
    BY <1>3, <2>3, <2>4 DEF Service!Serving
<1>4. CASE Accept(r)
  <2>1. pending_parent = None /\ pending_parent' = r /\ Ahead' = 0
    BY <1>4 DEF Accept, Ahead
  <2>2. Outstanding = {}
    BY <2>1 DEF IInv, BurstShape
  <2>3. Unserved(r)' = 0 .. (Size[r] - 1)
    <3> SUFFICES ASSUME NEW b PROVE b \in Unserved(r)' <=> b \in 0 .. (Size[r] - 1)
      OBVIOUS
    <3> QED
      BY <1>2, <2>1, <2>2, UnservedElementNext
  <2>4. ASSUME NEW q \in Reqs, q # r PROVE Unserved(q)' = Unserved(q)
    <3>1. Unserved(q) = {}
      BY <2>1, <2>2, NoBytes
    <3>2. Unserved(q)' = {}
      BY <1>2, <2>1, <2>2, <2>4, NoBytesNext
    <3> QED
      BY <3>1, <3>2
  <2>5. todoBar' = [todoBar EXCEPT ![r] = 0 .. (Size[r] - 1)]
    BY <2>3, <2>4 DEF todoBar
  <2>6. Service!Accept(r)
    BY <1>1, <1>4, <2>5 DEF Accept, Service!Accept, todoBar
  <2> QED
    BY <2>6 DEF Service!Serving
<1> QED
  BY <1>3, <1>4 DEF MasterSend

LEMMA IssueChunkSim ==
    ASSUME IInv, IInv', IssueChunk
    PROVE  [Service!Serving]_(Service!vars)
<1> DEFINE c == NextChunk
           p == pending_parent
<1>1. /\ p \in Reqs /\ c \in Chunks /\ c.parent = p /\ c.off = cursor /\ 0 < c.size
      /\ cursor + c.size <= Size[p] /\ pc = "issue" /\ MoreChunks
      /\ cursor \in Nat /\ c.size \in Nat /\ Size[p] \in Nat
  <2>1. pc = "issue" /\ MoreChunks
    BY DEF IssueChunk
  <2>2. /\ p \in Reqs /\ c \in Chunks /\ c.parent = p /\ c.off = cursor /\ 0 < c.size
        /\ cursor + c.size <= PhaseEnd /\ PhaseEnd <= Size[p]
    BY <2>1, NextChunkShape
  <2>3. PhaseEnd \in Nat
    BY <2>1, PhaseShape DEF IInv, IssueShape
  <2>4. cursor \in Nat /\ c.size \in Nat /\ Size[p] \in Nat
    BY <2>2 DEF Chunks, IInv, TypeOK
  <2> HIDE DEF PhaseEnd, c
  <2> QED
    BY <2>1, <2>2, <2>3, <2>4
<1>2. /\ cursor' = cursor + c.size /\ pending_parent' = p /\ UNCHANGED mst
      /\ Ahead = cursor /\ Ahead' = cursor + c.size
  BY DEF IssueChunk, Ahead
<1>3. ASSUME NEW b
      PROVE  /\ b \in Bytes(c) <=> b \in cursor .. (cursor + c.size - 1)
             /\ b \in Ahead .. (Size[p] - 1) <=> b \in Ahead' .. (Size[p] - 1) \/ b \in Bytes(c)
             /\ ~(b \in Ahead' .. (Size[p] - 1) /\ b \in Bytes(c))
  <2>1. b \in Bytes(c) <=> b \in cursor .. (cursor + c.size - 1)
    BY <1>1 DEF Bytes
  <2> HIDE DEF c, Ahead
  <2> QED
    BY <1>1, <1>2, <2>1
<1>4. \A d \in Outstanding : /\ d.parent = p
                             /\ \A b \in Bytes(d) : b \notin Bytes(c)
  <2>1. Outstanding \subseteq Chunks
    BY SplitterInFlight DEF IInv
  <2>2. \A d \in Outstanding : d.parent = p /\ d.off + d.size <= cursor
    BY <1>2 DEF IInv, PendingExact, ChunkShape
  <2> HIDE DEF c
  <2> QED
    BY <1>1, <1>3, <2>1, <2>2 DEF Bytes, Chunks
<1>5. CASE resp_status' = Latched(c) /\ UNCHANGED <<chunks_pending, stuck, down>>
  <2>1. Outstanding' = Outstanding
    BY <1>5 DEF Outstanding, Stuck
  <2>2. ASSUME NEW r \in Reqs, r = p, NEW b
        PROVE  b \in Unserved(r)' <=> b \in Unserved(r) /\ b \notin Bytes(c)
    BY <1>2, <1>3, <1>4, <2>1, <2>2, UnservedElement, UnservedElementNext
  <2>3. \A r \in Reqs : r # p => Unserved(r)' = Unserved(r)
    <3> SUFFICES ASSUME NEW r \in Reqs, r # p, NEW b PROVE b \in Unserved(r)' <=> b \in Unserved(r)
      OBVIOUS
    <3> QED
      BY <1>2, <2>1, UnservedElement, UnservedElementNext
  <2>4. Bytes(c) \subseteq Unserved(p)
    BY <1>1, <1>3, UnservedElement
  <2>5. \A r \in Reqs : Unserved(r)' = IF r = p THEN Unserved(r) \ Bytes(c) ELSE Unserved(r)
    BY <2>2, <2>3
  <2> HIDE DEF c
  <2> QED
    BY <1>1, <1>2, <1>5, <2>4, <2>5, ServeSim
<1>6. CASE /\ chunks_pending' = CountUp /\ resp_status' = resp_status
           /\ \/ down' = down \cup {NextChunk} /\ stuck' = stuck
              \/ stuck' = [stuck EXCEPT ![next_output] = NextChunk] /\ down' = down
  <2>1. Outstanding' = Outstanding \cup {c}
    <3>1. TypeOK' /\ UNCHANGED <<pending_parent, pc>> /\ cursor' = cursor + NextChunk.size
      BY DEF IInv, IssueChunk
    <3> QED
      BY <1>1, <1>6, <3>1, OutMore
  <2>2. ASSUME NEW r \in Reqs, NEW b PROVE b \in Unserved(r)' <=> b \in Unserved(r)
    <3>1. CASE r = p
      BY <1>1, <1>2, <1>3, <2>1, <3>1, UnservedElement, UnservedElementNext
    <3>2. CASE r # p
      BY <1>1, <1>2, <2>1, <3>2, UnservedElement, UnservedElementNext
    <3> QED
      BY <3>1, <3>2
  <2>3. \A r \in Reqs : Unserved(r)' = Unserved(r)
    BY <2>2
  <2> QED
    BY <1>2, <1>6, <2>3, Stutter
<1> QED
  BY <1>5, <1>6 DEF IssueChunk
(* A chunk in flight is answered.                                          *)
LEMMA CompletedSim ==
    ASSUME IInv, IInv', pc = "idle", NEW sub \in Outstanding, ChunkCompleted(sub),
           Outstanding' = Outstanding \ {sub},
           UNCHANGED <<pending_parent, bytes_planned, mst>>
    PROVE  Service!Serving
<1> DEFINE p == pending_parent
<1>1. Outstanding \subseteq Chunks
  BY SplitterInFlight DEF IInv
<1>2. sub \in Chunks /\ sub.parent = p /\ p \in Reqs /\ 0 < sub.size
  BY <1>1 DEF IInv, PendingExact, ChunkShape, Chunks
<1>3. Ahead' = Ahead /\ resp_status' = Latched(sub)
  BY DEF ChunkCompleted, Ahead
<1>4. ASSUME NEW b \in Bytes(sub) PROVE b \notin Ahead .. (Size[p] - 1)
  <2>1. sub.off + sub.size <= Ahead /\ sub.off \in Nat /\ sub.size \in Nat /\ Ahead \in Nat
    BY <1>2, SplitterInFlight DEF IInv, ChunkShape, Chunks
  <2> HIDE DEF Ahead
  <2> QED
    BY <2>1 DEF Bytes
<1>5. ASSUME NEW d \in Outstanding, d # sub, NEW b \in Bytes(sub) PROVE b \notin Bytes(d)
  <2>1. d.off + d.size <= sub.off \/ sub.off + sub.size <= d.off
    BY <1>5 DEF IInv, ChunkShape
  <2>2. /\ d.off \in Nat /\ d.size \in Nat /\ sub.off \in Nat /\ sub.size \in Nat
    BY <1>1 DEF Chunks
  <2> QED
    BY <2>1, <2>2 DEF Bytes
<1> HIDE DEF Ahead
<1>6. ASSUME NEW r \in Reqs, r = p, NEW b
      PROVE  b \in Unserved(r)' <=> b \in Unserved(r) /\ b \notin Bytes(sub)
  BY <1>3, <1>4, <1>5, <1>6, UnservedElement, UnservedElementNext
<1>7. ASSUME NEW r \in Reqs, r # p, NEW b PROVE b \in Unserved(r)' <=> b \in Unserved(r)
  BY <1>2, <1>3, <1>7, UnservedElement, UnservedElementNext
<1>8. \A r \in Reqs : Unserved(r)' = IF r = p THEN Unserved(r) \ Bytes(sub) ELSE Unserved(r)
  BY <1>6, <1>7
<1>9. Bytes(sub) \subseteq Unserved(p)
  BY <1>2, UnservedElement
<1> QED
  BY <1>2, <1>3, <1>8, <1>9, ServeSim

LEMMA RetryOutSim ==
    ASSUME IInv, IInv', NEW i \in Outputs, output_retry(i)
    PROVE  [Service!Serving]_(Service!vars)
<1>1. /\ pc = "idle" /\ stuck[i] # None
      /\ UNCHANGED <<pending_parent, bytes_planned, mst>>
  BY DEF output_retry
<1>2. CASE /\ ChunkCompleted(stuck[i]) /\ stuck' = [stuck EXCEPT ![i] = None] /\ down' = down
  <2>1. stuck[i] \in Outstanding /\ Outstanding' = Outstanding \ {stuck[i]}
    <3>1. stuck[i] \in Outstanding /\ Stuck' = Stuck \ {stuck[i]} /\ stuck[i] \notin down
      BY <1>1, <1>2, RetryEffect
    <3> QED
      BY <1>2, <3>1 DEF Outstanding
  <2> QED
    BY <1>1, <1>2, <2>1, CompletedSim
<1>3. CASE /\ down' = down \cup {stuck[i]} /\ stuck' = [stuck EXCEPT ![i] = None]
           /\ UNCHANGED <<resp_status, pc>>
  <2>1. Outstanding' = Outstanding
    <3>1. stuck[i] \in Outstanding /\ Stuck' = Stuck \ {stuck[i]}
      BY <1>1, <1>3, RetryEffect
    <3> QED
      BY <1>3, <3>1 DEF Outstanding
  <2>2. Ahead' = Ahead
    BY <1>1, <1>3 DEF Ahead
  <2>3. \A r \in Reqs : Unserved(r)' = Unserved(r)
    BY <1>1, <2>1, <2>2, SameBytes
  <2> QED
    BY <1>1, <1>3, <2>3, Stutter
<1>4. CASE UNCHANGED <<resp_status, stuck, down, pc>>
  <2>1. Outstanding' = Outstanding /\ Ahead' = Ahead
    BY <1>1, <1>4 DEF Outstanding, Stuck, Ahead
  <2>2. \A r \in Reqs : Unserved(r)' = Unserved(r)
    BY <1>1, <2>1, SameBytes
  <2> QED
    BY <1>1, <1>4, <2>2, Stutter
<1> QED
  BY <1>2, <1>3, <1>4 DEF output_retry

(* input_req or finalize_parent answers a request that has no byte left.   *)
LEMMA AnswerSim ==
    ASSUME IInv, IInv', pending_parent \in Reqs, Outstanding = {}, Outstanding' = {},
           Ahead = Size[pending_parent], pending_parent' = None,
           mst' = [mst EXCEPT ![pending_parent] = "idle"], UNCHANGED resp_status
    PROVE  Service!Serving
<1>1. PICK p \in Reqs : p = pending_parent
  OBVIOUS
<1>2. mst[p] = "granted"
  BY <1>1 DEF IInv, BurstShape
<1> HIDE DEF Ahead, Outstanding
<1>3. \A r \in Reqs : Unserved(r) = {}
  BY NoBytes
<1>4. \A r \in Reqs : Unserved(r)' = {}
  BY NoBytesNext
<1>5. todoBar' = todoBar /\ todoBar[p] = {}
  BY <1>3, <1>4 DEF todoBar
<1>6. Service!Answer(p)
  BY <1>1, <1>2, <1>5 DEF Service!Answer, todoBar
<1> QED
  BY <1>6 DEF Service!Serving

LEMMA PhaseSim ==
    ASSUME IInv, IInv', PhaseIssued \/ InputReturns \/ ResumeReturns
    PROVE  [Service!Serving]_(Service!vars)
<1>1. pc = "issue" /\ ~MoreChunks /\ UNCHANGED <<stuck, down, resp_status>>
  BY DEF PhaseIssued, InputReturns, ResumeReturns
<1>2. /\ pending_parent \in Reqs /\ Ahead = PhaseEnd
      /\ ~NextPhaseNow /\ chunks_pending = 0 => PhaseEnd = Size[pending_parent]
      /\ chunks_pending = 0 <=> Outstanding = {}
  BY <1>1, PhaseOver
<1>3. Outstanding' = Outstanding
  BY <1>1 DEF Outstanding, Stuck
<1>4. ASSUME Ahead' = PhaseEnd, UNCHANGED <<pending_parent, mst>> PROVE UNCHANGED Service!vars
  BY <1>1, <1>2, <1>3, <1>4, SameBytes, Stutter
<1>5. CASE PhaseIssued
  <2>1. Ahead' = PhaseEnd /\ UNCHANGED <<pending_parent, mst>>
    BY <1>5 DEF PhaseIssued, Ahead
  <2> QED
    BY <1>4, <2>1
<1>6. CASE ResumeReturns
  <2>1. Ahead' = PhaseEnd /\ UNCHANGED <<pending_parent, mst>>
    BY <1>6 DEF ResumeReturns, AfterPhase, Ahead
  <2> QED
    BY <1>4, <2>1
<1>7. CASE InputReturns /\ chunks_pending = 0
  <2>1. /\ pending_parent' = None /\ ~NextPhaseNow
        /\ mst' = [mst EXCEPT ![pending_parent] = "idle"]
    BY <1>7 DEF InputReturns, ClearParent
  <2> QED
    BY <1>1, <1>2, <1>3, <1>7, <2>1, AnswerSim
<1>8. CASE InputReturns /\ chunks_pending # 0
  <2>1. /\ bytes_planned' = PhaseEnd /\ UNCHANGED <<pending_parent, mst>> /\ pc' = ret
        /\ ret \in {"idle", "in_resp", "in_retry"}
    BY <1>8 DEF InputReturns, IInv, TypeOK
  <2>2. Ahead' = PhaseEnd
    BY <2>1 DEF Ahead
  <2> QED
    BY <1>4, <2>1, <2>2
<1> QED
  BY <1>5, <1>6, <1>7, <1>8

LEMMA FinalizeSim ==
    ASSUME IInv, IInv', Finalize
    PROVE  Service!Serving
<1>1. /\ pc = "finalize" /\ pending_parent \in Reqs /\ Outstanding = {}
      /\ Ahead = Size[pending_parent] /\ mst[pending_parent] = "granted"
  <2>1. pc = "finalize" /\ pending_parent # None
    BY DEF Finalize, IInv, BurstShape
  <2> QED
    BY <2>1 DEF IInv, BurstShape, TypeOK, Ahead
<1>2. /\ pending_parent' = None /\ UNCHANGED <<stuck, down, resp_status>>
      /\ mst' = [mst EXCEPT ![pending_parent] = "idle"]
  BY <1>1 DEF Finalize, ClearParent
<1>3. Outstanding' = {}
  BY <1>1, <1>2 DEF Outstanding, Stuck
<1> QED
  BY <1>1, <1>2, <1>3, AnswerSim

LEMMA ReturnsSim ==
    ASSUME IInv, IInv', RespReturns \/ RetryReturns
    PROVE  [Service!Serving]_(Service!vars)
<1>1. /\ UNCHANGED <<pending_parent, bytes_planned, stuck, down, resp_status>>
      /\ pc \notin {"issue", "finalize"} /\ pc' \notin {"issue", "finalize"}
  BY DEF RespReturns, RetryReturns
<1>2. Outstanding' = Outstanding /\ Ahead' = Ahead
  BY <1>1 DEF Outstanding, Stuck, Ahead
<1>3. \A r \in Reqs : Unserved(r)' = Unserved(r)
  BY <1>1, <1>2, SameBytes
<1>4. CASE RespReturns /\ input_needs_retry
  <2>1. mst' = [r \in Reqs |-> IF mst[r] = "denied" THEN "retrying" ELSE mst[r]]
    BY <1>4 DEF RespReturns, RetryDue
  <2>2. todoBar' = todoBar
    BY <1>3 DEF todoBar
  <2>3. Service!Retry
    BY <1>1, <2>1, <2>2 DEF Service!Retry, todoBar
  <2> QED
    BY <2>3 DEF Service!Serving
<1>5. CASE RetryReturns \/ ~input_needs_retry
  <2>1. mst' = mst
    BY <1>5 DEF RespReturns, RetryReturns, RetryDue, IInv, TypeOK
  <2> QED
    BY <1>1, <1>3, <2>1, Stutter
<1> QED
  BY <1>4, <1>5

LEMMA NextSim ==
    ASSUME IInv, IInv', [Next]_vars
    PROVE  \/ Service!Serving \/ UNCHANGED Service!vars
           \/ reset /\ Service!Reset
<1>1. ASSUME NEW r \in Reqs, MasterSend(r) PROVE Service!Serving
  BY <1>1, MasterSim
<1>2. CASE IssueChunk
  BY <1>2, IssueChunkSim
<1>3. CASE PhaseIssued \/ InputReturns \/ ResumeReturns
  BY <1>3, PhaseSim
<1>4. ASSUME NEW sub \in down, output_resp(sub) PROVE Service!Serving
  <2>1. sub \in Outstanding /\ Outstanding' = Outstanding \ {sub}
    BY <1>4, RespKeeps
  <2> QED
    BY <1>4, <2>1, CompletedSim DEF output_resp
<1>5. ASSUME NEW i \in Outputs, output_retry(i) PROVE [Service!Serving]_(Service!vars)
  BY <1>5, RetryOutSim
<1>6. CASE Finalize
  BY <1>6, FinalizeSim
<1>7. CASE RespReturns \/ RetryReturns
  BY <1>7, ReturnsSim
<1>8. CASE reset
  <2>1. Outstanding' = {} /\ pending_parent' = None
    BY <1>8, ResetKeeps
  <2>2. \A r \in Reqs : Unserved(r)' = {}
    BY <2>1, NoBytesNext
  <2>3. Service!Reset
    BY <1>8, <2>2 DEF reset, Service!Reset
  <2> QED
    BY <1>8, <2>3
<1>9. CASE UNCHANGED vars
  <2>1. /\ Outstanding' = Outstanding /\ Ahead' = Ahead
        /\ UNCHANGED <<pending_parent, mst, resp_status>>
    BY <1>9 DEF vars, issueVars, Outstanding, Stuck, Ahead
  <2> QED
    BY <2>1, SameBytes, Stutter
<1> QED
  BY <1>1, <1>2, <1>3, <1>4, <1>5, <1>6, <1>7, <1>8, <1>9 DEF Next

(* What the splitter does is allowed by IoService, whatever the widths and *)
(* the alignment of the bursts: each accepted byte is served once, by one  *)
(* chunk, and each accepted request answered once, after its last byte,    *)
(* with an error exactly when a chunk met one, unless a reset drops it.    *)
THEOREM Refinement == Spec => ServiceSpec
<1>1. Init => Service!Init
  <2> SUFFICES ASSUME Init PROVE Service!Init
    OBVIOUS
  <2>1. IInv /\ Outstanding = {} /\ pending_parent = None
    BY IInvInit DEF Init, Outstanding, Stuck
  <2>2. \A r \in Reqs : Unserved(r) = {}
    BY <2>1, NoBytes
  <2> QED
    BY <2>2 DEF Init, Service!Init
<1>2. IInv /\ IInv' /\ [Next]_vars => [Service!Next]_(Service!vars)
  BY NextSim DEF Service!Next
<1>3. IInv /\ IInv' /\ [Next]_vars => [reset \/ Service!Serving]_(Service!vars)
  BY NextSim
<1> QED
  BY <1>1, <1>2, <1>3, IInvAlways, PTL DEF Spec, ServiceSpec, Service!Spec

----------------------------------------------------------------------------
----------------------------------------------------------------------------
(* IssCore: the in-order core.                                             *)

HIDE Constants

(* A memory that serves split accesses denies no request and answers none  *)
(* in its own cycle; what happens otherwise is in MCIssCoreInline.cfg,     *)
(* MCIssCoreDenied.cfg and MCIssCoreMixed.cfg.                             *)
SplitServed == \A p \in Platforms : p.split => p.answers \cap {0, Denied} = {}

Outs == UNION {i.out : i \in Insns}

(* The elements of a queue that are x: none, or one.                       *)
Absent(q, x) == \A i \in DOMAIN q : q[i] # x
Once(q, x) == \E i \in DOMAIN q : q[i] = x /\ \A j \in DOMAIN q : q[j] = x => j = i

Entry == [st : {"free", "slave", "task", "denied"}, out : SUBSET Outs, second : BOOLEAN,
          timestamp : Nat, left : Int]

Shape ==
    /\ platform \in Platforms /\ current_insn \in Program
    /\ phase \in {"start", "tasks", "issue", "end"}
    /\ first_task \in Seq(Entries \cup {Unblock}) /\ todo \in Seq(Entries \cup {Unblock})
    /\ stall_cycles \in Nat /\ next_retire_cycle \in Nat
    /\ wfi \in BOOLEAN /\ instr_disabled \in BOOLEAN /\ pending_interrupt \in BOOLEAN
    /\ io_req_denied \in BOOLEAN /\ pending_fence \in BOOLEAN /\ owes \in BOOLEAN
    /\ sb_reg_invalid \subseteq Outs /\ landed \subseteq Outs
    /\ unblock_slot \in [mask : SUBSET Outs, due : {0, 1}]
    /\ queue \in Seq(Entries \cup {Ready, Wfi})
    /\ req_entry_first \in Seq(Entries)
    /\ entry \in [Entries -> Entry]

(* An entry: what is left of its access is the second part, and it was not *)
(* denied.                                                                 *)
Parts ==
    \A e \in Entries :
       /\ entry[e].st # "denied"
       /\ entry[e].left = IF entry[e].second THEN 1 ELSE 0
       /\ entry[e].second => entry[e].st # "free" /\ platform.split

(* The scoreboard, and that what two accesses will release is apart.       *)
Masks ==
    /\ ScoreboardExact
    /\ \A e, f \in InFlight : e # f => entry[e].out \cap entry[f].out = {}
    /\ \A e \in InFlight : entry[e].out \cap unblock_slot.mask = {}

(* A register that landed in this cycle waits in the slot for the next, as *)
(* one access retires in a cycle.                                          *)
Landed ==
    landed # {} => /\ next_retire_cycle > 0 /\ unblock_slot.due = 1
                   /\ landed \subseteq unblock_slot.mask

QueueOnce ==
    /\ \A e \in Entries : IF e \in InFlight THEN Once(queue, e) ELSE Absent(queue, e)
    /\ IF wfi THEN Once(queue, Wfi) ELSE Absent(queue, Wfi)

FreeOnce ==
    \A e \in Entries :
       IF e \in InFlight THEN Absent(req_entry_first, e) ELSE Once(req_entry_first, e)

Tasks == first_task \o todo
TasksOnce ==
    /\ \A e \in Entries : IF entry[e].st = "task" THEN Once(Tasks, e) ELSE Absent(Tasks, e)
    /\ Once(Tasks, Unblock) \/ Absent(Tasks, Unblock)
    /\ unblock_slot.mask # {} => Once(Tasks, Unblock)

Phases ==
    /\ phase # "tasks" => todo = <<>>
    /\ ~wfi => ~instr_disabled
    /\ phase = "issue" => ~wfi
    /\ wfi /\ Quiet /\ Tasks = <<>> => instr_disabled

IssIInv == Shape /\ Parts /\ Masks /\ Landed /\ QueueOnce /\ FreeOnce /\ TasksOnce /\ Phases
----------------------------------------------------------------------------
(* How often an element is in a queue.                                     *)

(* The places of a joined queue.                                           *)
LEMMA JoinPlaces ==
    ASSUME NEW S, NEW a \in Seq(S), NEW b \in Seq(S), NEW s, s = a \o b
    PROVE  /\ s \in Seq(S) /\ DOMAIN a = 1 .. Len(a) /\ DOMAIN b = 1 .. Len(b)
           /\ Len(a) \in Nat /\ Len(b) \in Nat /\ DOMAIN s = 1 .. (Len(a) + Len(b))
           /\ \A i \in 1 .. Len(a) : i \in DOMAIN s /\ s[i] = a[i]
           /\ \A i \in 1 .. Len(b) : i + Len(a) \in DOMAIN s /\ s[i + Len(a)] = b[i]
           /\ \A i \in DOMAIN s : \/ i \in 1 .. Len(a)
                               \/ (i - Len(a) \in 1 .. Len(b) /\ s[i] = b[i - Len(a)])
OBVIOUS

LEMMA AbsentJoin ==
    ASSUME NEW S, NEW a \in Seq(S), NEW b \in Seq(S), NEW s, s = a \o b, NEW x
    PROVE  Absent(s, x) <=> Absent(a, x) /\ Absent(b, x)
<1> DEFINE n == Len(a)
           m == Len(b)
<1>1. /\ DOMAIN a = 1 .. n /\ DOMAIN b = 1 .. m /\ n \in Nat /\ m \in Nat
      /\ DOMAIN s = 1 .. (n + m)
      /\ \A i \in 1 .. n : i \in DOMAIN s /\ s[i] = a[i]
      /\ \A i \in 1 .. m : i + n \in DOMAIN s /\ s[i + n] = b[i]
      /\ \A i \in DOMAIN s : i \in 1 .. n \/ (i - n \in 1 .. m /\ s[i] = b[i - n])
  BY ONLY a \in Seq(S), b \in Seq(S), s = a \o b, JoinPlaces
<1> HIDE DEF n, m
<1>2. ASSUME Absent(s, x) PROVE Absent(a, x) /\ Absent(b, x)
  BY ONLY <1>1, <1>2 DEF Absent
<1>3. ASSUME Absent(a, x), Absent(b, x) PROVE Absent(s, x)
  BY ONLY <1>1, <1>3 DEF Absent
<1> QED
  BY <1>2, <1>3

LEMMA OnceJoin ==
    ASSUME NEW S, NEW a \in Seq(S), NEW b \in Seq(S), NEW s, s = a \o b, NEW x
    PROVE  /\ Once(a, x) /\ Absent(b, x) => Once(s, x)
           /\ Absent(a, x) /\ Once(b, x) => Once(s, x)
           /\ Once(s, x) => (Once(a, x) /\ Absent(b, x)) \/ (Absent(a, x) /\ Once(b, x))
<1> DEFINE n == Len(a)
           m == Len(b)
<1>1. /\ DOMAIN a = 1 .. n /\ DOMAIN b = 1 .. m /\ n \in Nat /\ m \in Nat
      /\ DOMAIN s = 1 .. (n + m)
      /\ \A i \in 1 .. n : i \in DOMAIN s /\ s[i] = a[i]
      /\ \A i \in 1 .. m : i + n \in DOMAIN s /\ s[i + n] = b[i]
      /\ \A i \in DOMAIN s : i \in 1 .. n \/ (i - n \in 1 .. m /\ s[i] = b[i - n])
  BY ONLY a \in Seq(S), b \in Seq(S), s = a \o b, JoinPlaces
<1> HIDE DEF n, m
<1>2. ASSUME Once(a, x), Absent(b, x) PROVE Once(s, x)
  <2>1. PICK i \in 1 .. n : a[i] = x /\ \A j \in 1 .. n : a[j] = x => j = i
    BY <1>1, <1>2 DEF Once
  <2>2. i \in DOMAIN s /\ s[i] = x
    BY <1>1, <2>1
  <2>3. ASSUME NEW j \in DOMAIN s, s[j] = x PROVE j = i
    BY <1>1, <1>2, <2>1, <2>3 DEF Absent
  <2> QED
    BY <2>2, <2>3 DEF Once
<1>3. ASSUME Absent(a, x), Once(b, x) PROVE Once(s, x)
  <2>1. PICK i \in 1 .. m : b[i] = x /\ \A j \in 1 .. m : b[j] = x => j = i
    BY <1>1, <1>3 DEF Once
  <2>2. i + n \in DOMAIN s /\ s[i + n] = x
    BY <1>1, <2>1
  <2>3. ASSUME NEW j \in DOMAIN s, s[j] = x PROVE j = i + n
    <3>1. j \notin 1 .. n
      BY <1>1, <1>3, <2>3 DEF Absent
    <3>2. j - n \in 1 .. m /\ b[j - n] = x
      BY <1>1, <2>3, <3>1
    <3>3. j - n = i
      BY <2>1, <3>2
    <3> QED
      BY <1>1, <3>3
  <2> QED
    BY <2>2, <2>3 DEF Once
<1>4. ASSUME Once(s, x) PROVE (Once(a, x) /\ Absent(b, x)) \/ (Absent(a, x) /\ Once(b, x))
  <2>1. PICK i \in DOMAIN s : s[i] = x /\ \A j \in DOMAIN s : s[j] = x => j = i
    BY <1>4 DEF Once
  <2>2. CASE i \in 1 .. n
    <3>1. a[i] = x /\ \A j \in 1 .. n : a[j] = x => j = i
      BY <1>1, <2>1, <2>2
    <3>2. ASSUME NEW j \in 1 .. m, b[j] = x PROVE FALSE
      <4>1. j + n \in DOMAIN s /\ s[j + n] = x
        BY <1>1, <3>2
      <4>2. j + n = i
        BY <2>1, <4>1
      <4> QED
        BY <1>1, <2>2, <4>2
    <3> QED
      BY <1>1, <2>2, <3>1, <3>2 DEF Once, Absent
  <2>3. CASE i \notin 1 .. n
    <3>1. i - n \in 1 .. m /\ b[i - n] = x
      BY <1>1, <2>1, <2>3
    <3>2. ASSUME NEW j \in 1 .. m, b[j] = x PROVE j = i - n
      <4>1. j + n = i
        BY <1>1, <2>1, <3>2
      <4> QED
        BY <1>1, <4>1
    <3>3. ASSUME NEW j \in 1 .. n PROVE a[j] # x
      BY <1>1, <2>1, <2>3
    <3> QED
      BY <1>1, <3>1, <3>2, <3>3 DEF Once, Absent
  <2> QED
    BY <2>2, <2>3
<1> QED
  BY <1>2, <1>3, <1>4

LEMMA NotBoth ==
    ASSUME NEW q, NEW x
    PROVE  ~(Absent(q, x) /\ Once(q, x))
BY DEF Absent, Once

LEMMA OfEmpty ==
    ASSUME NEW x
    PROVE  Absent(<<>>, x)
BY DEF Absent

LEMMA OfOne ==
    ASSUME NEW y, NEW s, s = <<y>>, NEW x
    PROVE  (y # x => Absent(s, x)) /\ (y = x => Once(s, x))
<1>1. DOMAIN s = {1} /\ s[1] = y
  OBVIOUS
<1> QED
  BY <1>1 DEF Absent, Once

(* An element put in front, and one taken away there.                      *)
LEMMA Pushed ==
    ASSUME NEW S, NEW q \in Seq(S), NEW y \in S, NEW s, s = <<y>> \o q, NEW x
    PROVE  /\ s \in Seq(S)
           /\ y # x => (Absent(s, x) <=> Absent(q, x)) /\ (Once(s, x) <=> Once(q, x))
           /\ y = x /\ Absent(q, x) => Once(s, x)
<1>1. PICK o : o = <<y>>
  OBVIOUS
<1>2. o \in Seq(S) /\ s = o \o q /\ (y # x => Absent(o, x)) /\ (y = x => Once(o, x))
  BY <1>1, OfOne
<1>3. s \in Seq(S)
  BY <1>2
<1>4. Absent(s, x) <=> Absent(o, x) /\ Absent(q, x)
  BY ONLY <1>2, AbsentJoin, q \in Seq(S)
<1>5. /\ Once(o, x) /\ Absent(q, x) => Once(s, x)
      /\ Absent(o, x) /\ Once(q, x) => Once(s, x)
      /\ Once(s, x) => (Once(o, x) /\ Absent(q, x)) \/ (Absent(o, x) /\ Once(q, x))
  BY ONLY <1>2, OnceJoin, q \in Seq(S)
<1> QED
  BY <1>2, <1>3, <1>4, <1>5, NotBoth

LEMMA Popped ==
    ASSUME NEW S, NEW q \in Seq(S), q # <<>>, NEW s, s = Tail(q), NEW y, y = Head(q), NEW x
    PROVE  /\ s \in Seq(S) /\ y \in S
           /\ y # x => (Absent(s, x) <=> Absent(q, x)) /\ (Once(s, x) <=> Once(q, x))
           /\ y = x /\ Once(q, x) => Absent(s, x)
           /\ y = x => ~Absent(q, x)
<1>1. s \in Seq(S) /\ y \in S /\ q = <<y>> \o s
  OBVIOUS
<1>2. PICK o : o = <<y>>
  OBVIOUS
<1>3. o \in Seq(S) /\ q = o \o s /\ (y # x => Absent(o, x)) /\ (y = x => Once(o, x))
  BY <1>1, <1>2, OfOne
<1>4. Absent(q, x) <=> Absent(o, x) /\ Absent(s, x)
  BY ONLY <1>1, <1>3, AbsentJoin
<1>5. /\ Once(o, x) /\ Absent(s, x) => Once(q, x)
      /\ Absent(o, x) /\ Once(s, x) => Once(q, x)
      /\ Once(q, x) => (Once(o, x) /\ Absent(s, x)) \/ (Absent(o, x) /\ Once(s, x))
  BY ONLY <1>1, <1>3, OnceJoin
<1> QED
  BY <1>1, <1>3, <1>4, <1>5, NotBoth

LEMMA Appended ==
    ASSUME NEW S, NEW q \in Seq(S), NEW y \in S, NEW s, s = Append(q, y), NEW x
    PROVE  /\ s \in Seq(S)
           /\ y # x => (Absent(s, x) <=> Absent(q, x)) /\ (Once(s, x) <=> Once(q, x))
           /\ y = x /\ Absent(q, x) => Once(s, x)
<1>1. PICK o : o = <<y>>
  OBVIOUS
<1>2. o \in Seq(S) /\ s = q \o o /\ (y # x => Absent(o, x)) /\ (y = x => Once(o, x))
  BY <1>1, OfOne
<1>3. s \in Seq(S)
  BY <1>2
<1>4. Absent(s, x) <=> Absent(q, x) /\ Absent(o, x)
  BY ONLY <1>2, AbsentJoin, q \in Seq(S)
<1>5. /\ Once(q, x) /\ Absent(o, x) => Once(s, x)
      /\ Absent(q, x) /\ Once(o, x) => Once(s, x)
      /\ Once(s, x) => (Once(q, x) /\ Absent(o, x)) \/ (Absent(q, x) /\ Once(o, x))
  BY ONLY <1>2, OnceJoin, q \in Seq(S)
<1> QED
  BY <1>2, <1>3, <1>4, <1>5, NotBoth

----------------------------------------------------------------------------
(* The commit queue.                                                       *)

LEMMA FollowSeq ==
    ASSUME NEW S, Ready \in S, NEW q \in Seq(S), NEW s, s = Follow(q)
    PROVE  s \in Seq(S)
BY DEF Follow

LEMMA FollowKeeps ==
    ASSUME NEW S, Ready \in S, NEW q \in Seq(S), NEW s, s = Follow(q), NEW x, x # Ready
    PROVE  /\ Absent(s, x) <=> Absent(q, x)
           /\ Once(s, x) <=> Once(q, x)
<1>1. CASE s = q
  BY <1>1
<1>2. CASE s = Append(q, Ready)
  <2>1. PICK y \in S : y = Ready
    OBVIOUS
  <2>2. s = Append(q, y) /\ y # x
    BY <1>2, <2>1
  <2> QED
    BY ONLY <2>2, Appended, q \in Seq(S), y \in S
<1> QED
  BY <1>1, <1>2 DEF Follow

LEMMA JoinedSeq ==
    ASSUME NEW S, NEW q \in Seq(S), NEW s, s = Joined(q)
    PROVE  s \in Seq(S)
BY DEF Joined

LEMMA JoinedKeeps ==
    ASSUME NEW S, NEW q \in Seq(S), NEW s, s = Joined(q), NEW x, x # Ready
    PROVE  /\ Absent(s, x) <=> Absent(q, x)
           /\ Once(s, x) <=> Once(q, x)
<1>1. CASE s = q
  BY <1>1
<1>2. CASE q # <<>> /\ Head(q) = Ready /\ s = Tail(q)
  <2>1. PICK y : y = Head(q)
    OBVIOUS
  <2>2. y # x
    BY <1>2, <2>1
  <2> QED
    BY ONLY <1>2, <2>1, <2>2, Popped, q \in Seq(S)
<1> QED
  BY <1>1, <1>2 DEF Joined

(* A queue around one of its elements.                                     *)
Surround(q, k, a, b, y, c, d) ==
    /\ k \in 1 .. Len(q) /\ y = q[k]
    /\ a = SubSeq(q, 1, k - 1) /\ b = SubSeq(q, k + 1, Len(q))
    /\ c = Append(a, y) /\ d = c \o b

LEMMA Around ==
    ASSUME NEW S, NEW q \in Seq(S), NEW k, NEW a, NEW b, NEW y, NEW c, NEW d,
           Surround(q, k, a, b, y, c, d)
    PROVE  a \in Seq(S) /\ b \in Seq(S) /\ y \in S /\ c \in Seq(S) /\ q = d
<1>a. /\ k \in 1 .. Len(q)
      /\ y = q[k]
  BY DEF Surround
<1>b. a = SubSeq(q, 1, k - 1)
  BY DEF Surround
<1>c. b = SubSeq(q, k + 1, Len(q))
  BY DEF Surround
<1>d. c = Append(a, y)
  BY DEF Surround
<1>e. d = c \o b
  BY DEF Surround
<1>1. /\ a \in Seq(S) /\ Len(a) = k - 1 /\ \A i \in 1 .. (k - 1) : a[i] = q[i]
  BY ONLY <1>a, <1>b, q \in Seq(S)
<1>2. /\ b \in Seq(S) /\ Len(b) = Len(q) - k /\ \A i \in 1 .. (Len(q) - k) : b[i] = q[k + i]
  BY ONLY <1>a, <1>c, q \in Seq(S)
<1>3. PICK n \in Nat : n = Len(q)
  BY ONLY q \in Seq(S)
<1>4. y \in S
  BY ONLY q \in Seq(S), <1>a
<1>5. c \in Seq(S)
  <2>1. a \in Seq(S)
    BY ONLY <1>1
  <2> QED
    BY ONLY <1>4, <2>1, <1>d
<1>6. Len(c) = k /\ \A i \in 1 .. k : c[i] = q[i]
  <2>1. a \in Seq(S)
    BY ONLY <1>1
  <2>2. PICK m \in Nat : m = Len(a) /\ m + 1 = k
    BY ONLY <1>1, <1>a
  <2>3. Len(c) = m + 1 /\ c[m + 1] = y
    BY ONLY <1>4, <2>1, <2>2, <1>d
  <2>4. ASSUME NEW i \in 1 .. m PROVE c[i] = a[i]
    BY ONLY <1>4, <2>1, <2>2, <1>d, i \in 1 .. m
  <2>5. ASSUME NEW i \in 1 .. k PROVE c[i] = q[i]
    <3>1. CASE i = k
      BY ONLY <2>2, <2>3, <3>1, <1>a
    <3>2. CASE i # k
      <4>1. i \in 1 .. m /\ i \in 1 .. (k - 1)
        BY ONLY <2>2, <3>2, i \in 1 .. k
      <4> QED
        BY ONLY <1>1, <2>4, <4>1
    <3> QED
      BY ONLY <3>1, <3>2
  <2> QED
    BY ONLY <2>2, <2>3, <2>5
<1>7. d \in Seq(S)
  <2>1. b \in Seq(S)
    BY ONLY <1>2
  <2>2. c \o b \in Seq(S)
    BY ONLY <1>5, <2>1
  <2> QED
    BY ONLY <2>2, <1>e
<1>8. Len(d) = Len(c) + Len(b) /\ \A i \in 1 .. Len(d) :
         d[i] = IF i <= Len(c) THEN c[i] ELSE b[i - Len(c)]
  <2>1. b \in Seq(S)
    BY ONLY <1>2
  <2> QED
    BY ONLY <2>1, <1>5, <1>e
<1>9. Len(d) = n
  <2>1. Len(c) = k /\ Len(b) = n - k /\ Len(d) = Len(c) + Len(b)
    BY ONLY <1>2, <1>3, <1>6, <1>8
  <2> QED
    BY ONLY <2>1, <1>3, <1>a
<1>10. ASSUME NEW i \in 1 .. n PROVE d[i] = q[i]
  <2>1. CASE i <= k
    BY ONLY <1>6, <1>8, <1>9, <2>1, i \in 1 .. n, n \in Nat, <1>a, <1>3
  <2>2. CASE i > k
    <3>1. i - k \in 1 .. (Len(q) - k) /\ k + (i - k) = i
      BY ONLY <2>2, <1>3, i \in 1 .. n, n \in Nat, <1>a
    <3>2. b[i - k] = q[i]
      BY <1>2, <3>1
    <3>3. ~(i <= Len(c))
      BY ONLY <1>6, <2>2, <1>3, i \in 1 .. n, n \in Nat, <1>a
    <3> QED
      BY ONLY <1>6, <1>8, <1>9, <3>2, <3>3, i \in 1 .. n
  <2> QED
    BY ONLY <2>1, <2>2, <1>3, i \in 1 .. n, n \in Nat, <1>a
<1>11. d = q
  <2>1. Len(d) = Len(q) /\ \A i \in 1 .. Len(d) : d[i] = q[i]
    BY ONLY <1>3, <1>9, <1>10
  <2> QED
    BY ONLY <2>1, SeqEqual, <1>7, q \in Seq(S)
<1> QED
  BY ONLY <1>4, <1>1, <1>2, <1>5, <1>7, <1>11

(* insn_terminate of an instruction that is held once takes it out, and no *)
(* other that is held.                                                     *)
LEMMA TerminateKeeps ==
    ASSUME NEW S, Ready \in S, NEW q \in Seq(S), NEW y, y # Ready, Once(q, y),
           NEW s, s = InsnTerminate(q, y), NEW x, x # Ready
    PROVE  /\ s \in Seq(S)
           /\ x = y => Absent(s, x)
           /\ x # y => (Absent(s, x) <=> Absent(q, x)) /\ (Once(s, x) <=> Once(q, x))
<1>1. PICK k \in DOMAIN q : q[k] = y /\ \A j \in DOMAIN q : q[j] = y => j = k
  BY DEF Once
<1>2. PICK a, b : a = SubSeq(q, 1, k - 1) /\ b = SubSeq(q, k + 1, Len(q))
  OBVIOUS
<1>3. s = Follow(a) \o Joined(b)
  <2> DEFINE at == {i \in DOMAIN q : q[i] = y}
  <2>1. at = {k}
    BY <1>1
  <2>2. (CHOOSE i \in at : \A j \in at : j <= i) = k
    BY <2>1
  <2> QED
    BY <1>2, <2>1, <2>2 DEF InsnTerminate
<1>4. k \in 1 .. Len(q) /\ y \in S
  BY <1>1
<1>5. PICK c : c = Append(a, y)
  OBVIOUS
<1>6. PICK d : d = c \o b
  OBVIOUS
<1>7. Surround(q, k, a, b, y, c, d)
  BY ONLY <1>4, <1>1, <1>2, <1>5, <1>6 DEF Surround
<1>8. a \in Seq(S) /\ b \in Seq(S) /\ y \in S /\ c \in Seq(S)
  BY ONLY <1>7, Around, q \in Seq(S)
<1>9. q = d
  BY ONLY <1>7, Around, q \in Seq(S)
<1>10. PICK f \in Seq(S), g \in Seq(S) : f = Follow(a) /\ g = Joined(b)
  <2>1. PICK f, g : f = Follow(a) /\ g = Joined(b)
    OBVIOUS
  <2>2. a \in Seq(S) /\ b \in Seq(S)
    BY <1>8
  <2>3. f \in Seq(S)
    BY ONLY <2>2, <2>1, FollowSeq, Ready \in S
  <2>4. g \in Seq(S)
    BY ONLY <2>2, <2>1, JoinedSeq
  <2> QED
    BY ONLY <2>1, <2>3, <2>4
<1>11. s = f \o g /\ q = c \o b
  BY ONLY <1>3, <1>9, <1>6, <1>10
<1>12. s \in Seq(S)
  BY <1>11
<1>13. /\ Absent(f, x) <=> Absent(a, x)
       /\ Once(f, x) <=> Once(a, x)
  BY ONLY <1>8, <1>10, FollowKeeps, Ready \in S, x # Ready
<1>14. /\ Absent(g, x) <=> Absent(b, x)
       /\ Once(g, x) <=> Once(b, x)
  BY ONLY <1>8, <1>10, JoinedKeeps, x # Ready
<1>15. Absent(s, x) <=> Absent(f, x) /\ Absent(g, x)
  BY ONLY f \in Seq(S), g \in Seq(S), <1>11, AbsentJoin
<1>16. /\ Once(f, x) /\ Absent(g, x) => Once(s, x)
       /\ Absent(f, x) /\ Once(g, x) => Once(s, x)
       /\ Once(s, x) => (Once(f, x) /\ Absent(g, x)) \/ (Absent(f, x) /\ Once(g, x))
  BY ONLY f \in Seq(S), g \in Seq(S), <1>11, OnceJoin
<1>17. Absent(q, x) <=> Absent(c, x) /\ Absent(b, x)
  BY ONLY <1>8, <1>11, AbsentJoin
<1>18. /\ Once(c, x) /\ Absent(b, x) => Once(q, x)
       /\ Absent(c, x) /\ Once(b, x) => Once(q, x)
       /\ Once(q, x) => (Once(c, x) /\ Absent(b, x)) \/ (Absent(c, x) /\ Once(b, x))
  BY ONLY <1>8, <1>11, OnceJoin
<1>19. CASE x # y
  <2>1. c = Append(a, y) /\ a \in Seq(S) /\ y \in S
    BY ONLY <1>8, <1>5
  <2>2. c = Append(a, y)
    BY <2>1
  <2>3. a \in Seq(S)
    BY <2>1
  <2>4. y \in S
    BY <2>1
  <2>5. y # x
    BY <1>19
  <2>6. Absent(c, x) <=> Absent(a, x)
    BY ONLY <2>2, <2>3, <2>4, <2>5, Appended
  <2>7. Once(c, x) <=> Once(a, x)
    BY ONLY <2>2, <2>3, <2>4, <2>5, Appended
  <2> QED
    BY <1>12, <1>13, <1>14, <1>15, <1>16, <1>17, <1>18, <1>19, <2>6, <2>7
<1>20. CASE x = y
  <2>1. Absent(a, y)
    <3>1. \A i \in 1 .. (k - 1) : a[i] = q[i]
      BY <1>1, <1>2
    <3>2. DOMAIN a = 1 .. (k - 1)
      BY <1>1, <1>2
    <3> QED
      BY <1>1, <3>1, <3>2 DEF Absent
  <2>2. Absent(b, y)
    <3>1. \A i \in 1 .. (Len(q) - k) : b[i] = q[k + i]
      BY <1>1, <1>2
    <3>2. DOMAIN b = 1 .. (Len(q) - k)
      BY <1>1, <1>2
    <3>3. ASSUME NEW i \in 1 .. (Len(q) - k) PROVE b[i] # y
      <4>1. k + i \in 1 .. Len(q) /\ k + i # k /\ DOMAIN q = 1 .. Len(q)
        BY <1>4
      <4> QED
        BY <1>1, <3>1, <4>1
    <3> QED
      BY <3>2, <3>3 DEF Absent
  <2> QED
    BY <1>12, <1>13, <1>14, <1>15, <1>20, <2>1, <2>2
<1> QED
  BY <1>19, <1>20

----------------------------------------------------------------------------
(* The parts of the invariant that a step leaves alone.                    *)

Same(s, q, x) == (Absent(s, x) <=> Absent(q, x)) /\ (Once(s, x) <=> Once(q, x))

LEMMA Distinct ==
    ASSUME NEW e \in Entries, Shape
    PROVE  e # Ready /\ e # Wfi /\ e # Unblock
BY DEF Entries, Ready, Wfi, Unblock, Shape

LEMMA PartsFrame ==
    ASSUME Parts, platform' = platform, entry' = entry
    PROVE  Parts'
BY DEF Parts, Entries

LEMMA MasksFrame ==
    ASSUME Masks, platform' = platform, entry' = entry, sb_reg_invalid' = sb_reg_invalid,
           unblock_slot' = unblock_slot
    PROVE  Masks'
BY DEF Masks, Entries, InFlight, ScoreboardExact

LEMMA LandedFrame ==
    ASSUME Landed, landed' = landed, next_retire_cycle' = next_retire_cycle,
           unblock_slot' = unblock_slot
    PROVE  Landed'
BY DEF Landed

LEMMA QueueFrame ==
    ASSUME QueueOnce, platform' = platform, InFlight' = InFlight, wfi' = wfi, Shape,
           \A x : x # Ready => Same(queue', queue, x)
    PROVE  QueueOnce'
<1>1. Entries' = Entries
  BY DEF Entries
<1>2. ASSUME NEW e \in Entries PROVE IF e \in InFlight THEN Once(queue', e) ELSE Absent(queue', e)
  BY <1>2, Distinct DEF QueueOnce, Same
<1>3. IF wfi THEN Once(queue', Wfi) ELSE Absent(queue', Wfi)
  BY DEF QueueOnce, Same, Wfi, Ready
<1> QED
  BY <1>1, <1>2, <1>3 DEF QueueOnce

LEMMA FreeFrame ==
    ASSUME FreeOnce, platform' = platform, InFlight' = InFlight,
           req_entry_first' = req_entry_first
    PROVE  FreeOnce'
BY DEF FreeOnce, Entries

LEMMA TasksFrame ==
    ASSUME TasksOnce, platform' = platform,
           \A e \in Entries : entry'[e].st = "task" <=> entry[e].st = "task",
           unblock_slot'.mask # {} => unblock_slot.mask # {},
           \A x : Same(Tasks', Tasks, x)
    PROVE  TasksOnce'
<1>1. Entries' = Entries
  BY DEF Entries
<1>2. ASSUME NEW e \in Entries
      PROVE  IF entry'[e].st = "task" THEN Once(Tasks', e) ELSE Absent(Tasks', e)
  BY <1>2 DEF TasksOnce, Same
<1>3. /\ Once(Tasks', Unblock) \/ Absent(Tasks', Unblock)
      /\ unblock_slot'.mask # {} => Once(Tasks', Unblock)
  BY DEF TasksOnce, Same
<1> QED
  BY <1>1, <1>2, <1>3 DEF TasksOnce

LEMMA SameItself == \A q, x : Same(q, q, x)
BY DEF Same

(* One entry is changed.                                                   *)
LEMMA OneEntry ==
    ASSUME Shape, platform' = platform, NEW e \in Entries, NEW v \in Entry,
           entry' = [entry EXCEPT ![e] = v]
    PROVE  /\ Entries' = Entries
           /\ entry' \in [Entries -> Entry]
           /\ entry'[e] = v
           /\ \A f \in Entries : f # e => entry'[f] = entry[f]
           /\ v.st = "free" => InFlight' = InFlight \ {e}
           /\ v.st # "free" => InFlight' = InFlight \cup {e}
<1>1. Entries' = Entries
  BY DEF Entries
<1>2. entry \in [Entries -> Entry]
  BY DEF Shape
<1>3. /\ entry' \in [Entries -> Entry]
      /\ entry'[e] = v
      /\ \A f \in Entries : f # e => entry'[f] = entry[f]
  BY <1>2
<1> HIDE DEF Entry
<1>4. v.st = "free" => InFlight' = InFlight \ {e}
  BY <1>1, <1>3 DEF InFlight
<1>5. v.st # "free" => InFlight' = InFlight \cup {e}
  BY <1>1, <1>3 DEF InFlight
<1> QED
  BY <1>1, <1>3, <1>4, <1>5

----------------------------------------------------------------------------
(* What an access becomes when it is sent.                                 *)

USE DEF Granted, Denied

LEMMA AnswersOK ==
    ASSUME Shape, SplitServed, NEW a \in Answers
    PROVE  a \in Nat \cup {Granted, Denied} /\ (platform.split => a # 0 /\ a # Denied)
BY IssCoreAssumption DEF IssCoreAssumption, Shape, SplitServed, Answers

LEMMA EntryFields ==
    ASSUME NEW en \in Entry
    PROVE  /\ en.st \in {"free", "slave", "task", "denied"} /\ en.out \in SUBSET Outs
           /\ en.second \in BOOLEAN /\ en.timestamp \in Nat /\ en.left \in Int
BY DEF Entry

LEMMA ProgramOuts ==
    ASSUME NEW i \in Program
    PROVE  i \in Insns /\ i.out \in SUBSET Outs /\ (i.split => platform.split)
BY DEF Program, Outs

LEMMA FreedEntry ==
    ASSUME NEW en \in Entry, NEW f, f = Freed(en)
    PROVE  /\ f \in Entry /\ f.st = "free" /\ f.out = {}
           /\ f.second = en.second /\ f.left = en.left /\ f.timestamp = 0
BY DEF Freed, FreeEntry, Entry

LEMMA SentEntry ==
    ASSUME NEW en \in Entry, NEW a \in Nat \cup {Granted}, NEW s, s = Sent(en, a)
    PROVE  /\ s \in Entry /\ s.st \in {"free", "slave", "task"}
           /\ s.second = en.second /\ s.left = en.left
           /\ s.st = "free" <=> a = 0
           /\ s.st = "free" => s.out = {}
           /\ s.st # "free" => s.out = en.out
<1>1. CASE a = Granted
  <2>1. s = [en EXCEPT !.st = "slave"]
    BY <1>1 DEF Sent
  <2> QED
    BY <1>1, <2>1 DEF Entry
<1>2. CASE a \in Nat /\ a > 0
  <2>1. s = [en EXCEPT !.st = "task", !.timestamp = a]
    BY <1>2 DEF Sent
  <2>2. s \in Entry
    BY ONLY <1>2, <2>1, en \in Entry DEF Entry
  <2>3. /\ s.st = "task" /\ s.second = en.second
        /\ s.left = en.left /\ s.out = en.out
    BY ONLY <2>1, en \in Entry DEF Entry
  <2> QED
    BY ONLY <1>2, <2>2, <2>3
<1>3. CASE a = 0
  <2>1. s = Freed(en)
    BY <1>3 DEF Sent
  <2> QED
    BY <1>3, <2>1, FreedEntry
<1> QED
  BY <1>1, <1>2, <1>3

(* The second part.                                                        *)
LEMMA SecondSent ==
    ASSUME Shape, Parts, SplitServed, NEW e \in Entries, entry[e].second,
           NEW en \in FireSecond(entry[e])
    PROVE  /\ en \in Entry /\ en.st \in {"slave", "task"} /\ en.out = entry[e].out
           /\ ~en.second /\ en.left = 0
<1>1. entry[e] \in Entry /\ platform.split /\ entry[e].left = 1
  BY DEF Shape, Parts
<1>2. PICK a \in Answers : en = Sent(Rearm(entry[e]), a)
  BY DEF FireSecond
<1>3. a \in Nat \cup {Granted} /\ a # 0
  BY <1>1, AnswersOK
<1>4. PICK r : r = Rearm(entry[e])
  OBVIOUS
<1>5. r \in Entry /\ ~r.second /\ r.left = 0 /\ r.out = entry[e].out
  <2>1. PICK en0 : en0 = entry[e]
    OBVIOUS
  <2>2. en0 \in Entry /\ r = [en0 EXCEPT !.second = FALSE, !.left = 0]
    <3>1. en0.left - 1 = 0
      BY <1>1, <2>1
    <3> QED
      BY <1>1, <1>4, <2>1, <3>1 DEF Rearm
  <2>3. r \in Entry
    <3>1. PICK x : x = [en0 EXCEPT !.second = FALSE]
      OBVIOUS
    <3>2. x \in Entry
      BY ONLY <2>2, <3>1 DEF Entry
    <3>3. r = [x EXCEPT !.left = 0]
      BY ONLY <2>2, <3>1 DEF Entry
    <3> QED
      BY ONLY <3>2, <3>3 DEF Entry
  <2>4. ~r.second /\ r.left = 0 /\ r.out = en0.out
    BY ONLY <2>2 DEF Entry
  <2> QED
    BY <2>1, <2>3, <2>4
<1>6. en = Sent(r, a)
  BY <1>2, <1>4
<1>7. /\ en \in Entry /\ en.st \in {"free", "slave", "task"}
      /\ en.second = r.second /\ en.left = r.left
      /\ en.st = "free" <=> a = 0
      /\ en.st # "free" => en.out = r.out
  BY ONLY <1>3, <1>5, <1>6, SentEntry
<1> QED
  BY <1>3, <1>5, <1>7

(* The first part, or the only one.                                        *)
LEMMA FirstSent ==
    ASSUME Shape, Parts, SplitServed, NEW e \in Entries, entry[e].st = "free",
           NEW i \in Program, NEW en \in DataReqAligned(Prepare(entry[e], i)),
           NEW m, m = Misaligned(en, i)
    PROVE  /\ m \in Entry /\ m.st = en.st /\ m.st \in {"free", "slave", "task"}
           /\ m.st = "free" => m.out = {}
           /\ m.st # "free" => m.out = i.out
           /\ m.left = IF m.second THEN 1 ELSE 0
           /\ m.second => m.st # "free" /\ platform.split
<1>1. entry[e] \in Entry /\ ~entry[e].second /\ entry[e].left = 0
  BY DEF Shape, Parts
<1>2. i.out \in SUBSET Outs /\ (i.split => platform.split) /\ i.split \in BOOLEAN
  BY ProgramOuts, IssCoreAssumption DEF IssCoreAssumption
<1>3. PICK p : p = Prepare(entry[e], i)
  OBVIOUS
<1>4. p \in Entry /\ ~p.second /\ p.out = i.out /\ p.left = IF i.split THEN 1 ELSE 0
  <2>1. PICK en0, out, n :
           en0 = entry[e] /\ out = i.out /\ n = IF i.split THEN 1 ELSE 0
    OBVIOUS
  <2>2. n \in {0, 1}
    BY ONLY <2>1
  <2>3. p = [en0 EXCEPT !.out = out, !.left = n]
    BY ONLY <1>3, <2>1 DEF Prepare
  <2>4. /\ en0 \in Entry /\ ~en0.second /\ out \in SUBSET Outs
        /\ p = [en0 EXCEPT !.out = out, !.left = n]
    BY <1>1, <1>2, <2>1, <2>3
  <2>5. p \in Entry
    <3>1. PICK x : x = [en0 EXCEPT !.out = out]
      OBVIOUS
    <3>2. x \in Entry
      BY ONLY <2>4, <3>1 DEF Entry
    <3>3. p = [x EXCEPT !.left = n] /\ n \in Int
      BY ONLY <2>2, <2>4, <3>1 DEF Entry
    <3> QED
      BY ONLY <3>2, <3>3 DEF Entry
  <2>6. ~p.second /\ p.out = out /\ p.left = n
    BY ONLY <2>4 DEF Entry
  <2> QED
    BY <2>1, <2>5, <2>6
<1>5. PICK a \in Answers \ {Denied} : en = Sent(p, a)
  BY <1>3, <1>4 DEF DataReqAligned
<1>6. a \in Nat \cup {Granted} /\ (platform.split => a # 0)
  BY AnswersOK
<1>7. /\ en \in Entry /\ en.st \in {"free", "slave", "task"}
      /\ en.second = p.second /\ en.left = p.left
      /\ en.st = "free" <=> a = 0
      /\ en.st = "free" => en.out = {}
      /\ en.st # "free" => en.out = p.out
  BY ONLY <1>4, <1>5, <1>6, SentEntry
<1>8. CASE i.split
  <2>1. m = [en EXCEPT !.second = TRUE]
    BY <1>8 DEF Misaligned
  <2>2. m \in Entry /\ m.st = en.st /\ m.out = en.out /\ m.left = en.left /\ m.second
    BY <1>7, <2>1 DEF Entry
  <2> QED
    BY <1>2, <1>4, <1>6, <1>7, <1>8, <2>2
<1>9. CASE ~i.split
  <2>1. m = en
    BY <1>9 DEF Misaligned
  <2> QED
    BY <1>2, <1>4, <1>6, <1>7, <1>9, <2>1
<1> QED
  BY <1>2, <1>8, <1>9

----------------------------------------------------------------------------
(* The free list, the commit queue and the tasks when one element moves.   *)

IsPush(s, y, q) == s = <<y>> \o q
IsPop(s, y, q)  == q # <<>> /\ s = Tail(q) /\ y = Head(q)

LEMMA PushedSame ==
    ASSUME NEW S, NEW y \in S, NEW q \in Seq(S), NEW s, IsPush(s, y, q), NEW x, x # y
    PROVE  Same(s, q, x)
<1>1. y # x /\ s = <<y>> \o q
  BY DEF IsPush
<1>2. Absent(s, x) <=> Absent(q, x)
  BY ONLY <1>1, Pushed, y \in S, q \in Seq(S)
<1>3. Once(s, x) <=> Once(q, x)
  BY ONLY <1>1, Pushed, y \in S, q \in Seq(S)
<1> QED
  BY <1>2, <1>3 DEF Same

LEMMA PushedOnce ==
    ASSUME NEW S, NEW y \in S, NEW q \in Seq(S), NEW s, IsPush(s, y, q), Absent(q, y)
    PROVE  Once(s, y)
<1>1. s = <<y>> \o q
  BY DEF IsPush
<1> QED
  BY <1>1, Pushed

LEMMA PoppedSame ==
    ASSUME NEW S, NEW q \in Seq(S), NEW s, NEW y, IsPop(s, y, q), NEW x, x # y
    PROVE  Same(s, q, x)
<1>1. y # x /\ q # <<>> /\ s = Tail(q) /\ y = Head(q)
  BY DEF IsPop
<1>2. Absent(s, x) <=> Absent(q, x)
  BY ONLY <1>1, Popped, q \in Seq(S)
<1>3. Once(s, x) <=> Once(q, x)
  BY ONLY <1>1, Popped, q \in Seq(S)
<1> QED
  BY <1>2, <1>3 DEF Same

LEMMA PoppedGone ==
    ASSUME NEW S, NEW q \in Seq(S), NEW s, NEW y, IsPop(s, y, q)
    PROVE  ~Absent(q, y) /\ (Once(q, y) => Absent(s, y))
<1>1. q # <<>> /\ s = Tail(q) /\ y = Head(q)
  BY DEF IsPop
<1> QED
  BY <1>1, Popped

LEMMA FreeGiven ==
    ASSUME Shape, FreeOnce, NEW e \in Entries, e \in InFlight,
           Entries' = Entries, InFlight' = InFlight \ {e},
           req_entry_first' = <<e>> \o req_entry_first
    PROVE  FreeOnce' /\ req_entry_first' \in Seq(Entries)
<1>1. PICK q, s : q = req_entry_first /\ s = req_entry_first'
  OBVIOUS
<1>2. q \in Seq(Entries)
  BY <1>1 DEF Shape
<1>3. s = <<e>> \o q
  BY <1>1
<1>a. IsPush(s, e, q)
  BY <1>3 DEF IsPush
<1>4. s \in Seq(Entries)
  BY ONLY <1>2, <1>3, e \in Entries
<1>5. Once(s, e)
  <2>1. Absent(q, e)
    BY <1>1 DEF FreeOnce
  <2> QED
    BY ONLY <1>2, <1>a, <2>1, PushedOnce, e \in Entries
<1>6. ASSUME NEW f \in Entries, f # e PROVE Same(s, q, f)
  BY ONLY <1>2, <1>a, <1>6, PushedSame, e \in Entries
<1>7. ASSUME NEW f \in Entries
      PROVE  IF f \in InFlight' THEN Absent(s, f) ELSE Once(s, f)
  <2>1. IF f \in InFlight THEN Absent(q, f) ELSE Once(q, f)
    BY <1>1 DEF FreeOnce
  <2> QED
    BY ONLY <1>5, <1>6, <2>1, f \in Entries, InFlight' = InFlight \ {e} DEF Same
<1> QED
  BY <1>1, <1>4, <1>7 DEF FreeOnce

LEMMA FreeTaken ==
    ASSUME Shape, FreeOnce, NEW e \in Entries, e \notin InFlight, req_entry_first # <<>>,
           e = Head(req_entry_first), Entries' = Entries, InFlight' = InFlight \cup {e},
           req_entry_first' = Tail(req_entry_first)
    PROVE  FreeOnce' /\ req_entry_first' \in Seq(Entries)
<1>1. PICK q, s : q = req_entry_first /\ s = req_entry_first'
  OBVIOUS
<1>2. q \in Seq(Entries)
  BY <1>1 DEF Shape
<1>3. q # <<>>
  BY <1>1
<1>a. s = Tail(q)
  BY <1>1
<1>b. e = Head(q)
  BY <1>1
<1>c. IsPop(s, e, q)
  BY <1>3, <1>a, <1>b DEF IsPop
<1>4. s \in Seq(Entries)
  BY ONLY <1>2, <1>3, <1>a
<1>5. Absent(s, e)
  <2>1. Once(q, e)
    BY <1>1 DEF FreeOnce
  <2> QED
    BY ONLY <1>2, <1>c, <2>1, PoppedGone
<1>6. ASSUME NEW f \in Entries, f # e PROVE Same(s, q, f)
  BY ONLY <1>2, <1>c, <1>6, PoppedSame
<1>7. ASSUME NEW f \in Entries
      PROVE  IF f \in InFlight' THEN Absent(s, f) ELSE Once(s, f)
  <2>1. IF f \in InFlight THEN Absent(q, f) ELSE Once(q, f)
    BY <1>1 DEF FreeOnce
  <2> QED
    BY ONLY <1>5, <1>6, <2>1, f \in Entries, InFlight' = InFlight \cup {e} DEF Same
<1> QED
  BY <1>1, <1>4, <1>7 DEF FreeOnce

Slots == Entries \cup {Ready, Wfi}

LEMMA QueueTerminate ==
    ASSUME Shape, NEW y \in Slots, y # Ready, Once(queue, y), queue' = InsnTerminate(queue, y)
    PROVE  /\ queue' \in Seq(Slots)
           /\ Absent(queue', y)
           /\ \A x : x # Ready /\ x # y => Same(queue', queue, x)
<1>1. queue \in Seq(Slots) /\ Ready \in Slots
  BY DEF Shape, Slots
<1>2. PICK s : s = queue'
  OBVIOUS
<1>3. s = InsnTerminate(queue, y)
  BY <1>2
<1>4. ASSUME NEW x, x # Ready
      PROVE  /\ s \in Seq(Slots)
             /\ x = y => Absent(s, x)
             /\ x # y => Absent(s, x) <=> Absent(queue, x)
             /\ x # y => Once(s, x) <=> Once(queue, x)
  BY ONLY <1>1, <1>3, <1>4, TerminateKeeps, y # Ready, Once(queue, y)
<1> QED
  BY <1>2, <1>4 DEF Same

LEMMA QueueLeaves ==
    ASSUME Shape, QueueOnce, NEW e \in Entries, e \in InFlight, Entries' = Entries,
           InFlight' = InFlight \ {e}, wfi' = wfi, queue' = InsnTerminate(queue, e)
    PROVE  QueueOnce' /\ queue' \in Seq(Slots)
<1>1. e # Ready /\ e # Wfi /\ Wfi # Ready
  BY Distinct DEF Wfi, Ready
<1>2. Once(queue, e) /\ e \in Slots
  BY DEF QueueOnce, Slots
<1>3. /\ queue' \in Seq(Slots)
      /\ Absent(queue', e)
      /\ \A x : x # Ready /\ x # e => Same(queue', queue, x)
  BY <1>1, <1>2, QueueTerminate
<1>4. ASSUME NEW f \in Entries
      PROVE  IF f \in InFlight' THEN Once(queue', f) ELSE Absent(queue', f)
  BY <1>3, Distinct DEF QueueOnce, Same
<1>5. IF wfi' THEN Once(queue', Wfi) ELSE Absent(queue', Wfi)
  BY <1>1, <1>3 DEF QueueOnce, Same
<1> QED
  BY <1>3, <1>4, <1>5 DEF QueueOnce

LEMMA QueueAppend ==
    ASSUME Shape, NEW y \in Slots, Absent(queue, y), queue' = Append(queue, y)
    PROVE  /\ queue' \in Seq(Slots)
           /\ Once(queue', y)
           /\ \A x : x # y => Same(queue', queue, x)
<1>1. queue \in Seq(Slots)
  BY DEF Shape, Slots
<1>2. queue' \in Seq(Slots)
  BY <1>1
<1>3. Once(queue', y)
  BY ONLY <1>1, Appended, y \in Slots, queue' = Append(queue, y), Absent(queue, y)
<1>4. ASSUME NEW x, x # y PROVE Same(queue', queue, x)
  <2>1. y # x
    BY <1>4
  <2>2. Absent(queue', x) <=> Absent(queue, x)
    BY ONLY <1>1, <2>1, Appended, y \in Slots, queue' = Append(queue, y)
  <2>3. Once(queue', x) <=> Once(queue, x)
    BY ONLY <1>1, <2>1, Appended, y \in Slots, queue' = Append(queue, y)
  <2> QED
    BY <2>2, <2>3 DEF Same
<1> QED
  BY <1>2, <1>3, <1>4

LEMMA QueueJoins ==
    ASSUME Shape, QueueOnce, NEW e \in Entries, e \notin InFlight, Entries' = Entries,
           InFlight' = InFlight \cup {e}, wfi' = wfi, queue' = Append(queue, e)
    PROVE  QueueOnce' /\ queue' \in Seq(Slots)
<1>1. e # Ready /\ e # Wfi
  BY Distinct
<1>2. Absent(queue, e) /\ e \in Slots
  BY DEF QueueOnce, Slots
<1>3. /\ queue' \in Seq(Slots)
      /\ Once(queue', e)
      /\ \A x : x # e => Same(queue', queue, x)
  BY <1>2, QueueAppend
<1>4. ASSUME NEW f \in Entries
      PROVE  IF f \in InFlight' THEN Once(queue', f) ELSE Absent(queue', f)
  BY <1>3 DEF QueueOnce, Same
<1>5. IF wfi' THEN Once(queue', Wfi) ELSE Absent(queue', Wfi)
  BY <1>1, <1>3 DEF QueueOnce, Same
<1> QED
  BY <1>3, <1>4, <1>5 DEF QueueOnce

(* An instruction that is over at once.                                    *)
LEMMA QueueFollows ==
    ASSUME Shape, queue' = Follow(queue)
    PROVE  queue' \in Seq(Slots) /\ \A x : x # Ready => Same(queue', queue, x)
<1>1. queue \in Seq(Slots) /\ Ready \in Slots
  BY DEF Shape, Slots
<1>2. queue' \in Seq(Slots)
  BY ONLY <1>1, FollowSeq, queue' = Follow(queue)
<1>3. ASSUME NEW x, x # Ready PROVE Same(queue', queue, x)
  BY ONLY <1>1, <1>3, FollowKeeps, queue' = Follow(queue) DEF Same
<1> QED
  BY <1>2, <1>3

Items == Entries \cup {Unblock}

LEMMA TasksPushed ==
    ASSUME NEW S, NEW x \in S, NEW a \in Seq(S), NEW b \in Seq(S), NEW f, f = <<x>> \o a,
           NEW r, r = a \o b, NEW s, s = f \o b
    PROVE  s = <<x>> \o r /\ r \in Seq(S)
<1>1. <<x>> \in Seq(S)
  BY ONLY x \in S
<1>2. PICK o \in Seq(S) : o = <<x>>
  BY ONLY <1>1
<1>3. (o \o a) \o b = o \o (a \o b)
  BY ONLY <1>2, ConcatAssociative, a \in Seq(S), b \in Seq(S)
<1>4. r \in Seq(S)
  BY ONLY a \in Seq(S), b \in Seq(S), r = a \o b
<1> QED
  BY ONLY <1>2, <1>3, <1>4, f = <<x>> \o a, r = a \o b, s = f \o b

LEMMA Pending ==
    ASSUME NEW q
    PROVE  unblock_task_pending(q) <=> ~Absent(q, Unblock)
BY DEF unblock_task_pending, Absent, Range

(* The task at the head of todo is taken away: rest is what is left.       *)
LEMMA Taken ==
    ASSUME Shape, todo # <<>>, NEW t, t = Tail(todo), NEW y, y = Head(todo), Once(Tasks, y),
           NEW rest, rest = first_task \o t
    PROVE  /\ t \in Seq(Items) /\ rest \in Seq(Items)
           /\ Absent(rest, y)
           /\ \A x : x # y => Same(rest, Tasks, x)
<1>1. first_task \in Seq(Items) /\ todo \in Seq(Items)
  BY DEF Shape, Items
<1>2. t \in Seq(Items)
  BY ONLY <1>1, t = Tail(todo), todo # <<>>
<1>3. rest \in Seq(Items)
  BY ONLY <1>1, <1>2, rest = first_task \o t
<1>4. PICK whole : whole = first_task \o todo
  OBVIOUS
<1>5. whole = Tasks
  BY <1>4 DEF Tasks
<1>6. ASSUME NEW x
      PROVE  /\ Absent(whole, x) <=> Absent(first_task, x) /\ Absent(todo, x)
             /\ Absent(rest, x) <=> Absent(first_task, x) /\ Absent(t, x)
  <2>1. Absent(whole, x) <=> Absent(first_task, x) /\ Absent(todo, x)
    BY ONLY <1>1, <1>4, AbsentJoin
  <2>2. Absent(rest, x) <=> Absent(first_task, x) /\ Absent(t, x)
    BY ONLY <1>1, <1>2, AbsentJoin, rest = first_task \o t
  <2> QED
    BY <2>1, <2>2
<1>7. ASSUME NEW x
      PROVE  /\ Once(first_task, x) /\ Absent(todo, x) => Once(whole, x)
             /\ Absent(first_task, x) /\ Once(todo, x) => Once(whole, x)
             /\ Once(whole, x) => \/ Once(first_task, x) /\ Absent(todo, x)
                                  \/ Absent(first_task, x) /\ Once(todo, x)
  BY ONLY <1>1, <1>4, OnceJoin
<1>8. ASSUME NEW x
      PROVE  /\ Once(first_task, x) /\ Absent(t, x) => Once(rest, x)
             /\ Absent(first_task, x) /\ Once(t, x) => Once(rest, x)
             /\ Once(rest, x) => \/ Once(first_task, x) /\ Absent(t, x)
                                 \/ Absent(first_task, x) /\ Once(t, x)
  BY ONLY <1>1, <1>2, OnceJoin, rest = first_task \o t
<1>a. todo \in Seq(Items) /\ IsPop(t, y, todo)
  BY <1>1 DEF IsPop
<1>9. Absent(rest, y)
  <2>1. ~Absent(todo, y)
    BY ONLY <1>a, PoppedGone
  <2>2. Absent(first_task, y) /\ Once(todo, y)
    BY <1>5, <1>7, <2>1
  <2>3. Absent(t, y)
    BY ONLY <1>a, <2>2, PoppedGone
  <2> QED
    BY <1>6, <2>2, <2>3
<1>10. ASSUME NEW x, x # y PROVE Same(rest, Tasks, x)
  <2>1. Same(t, todo, x)
    BY ONLY <1>a, <1>10, PoppedSame
  <2>2. /\ Absent(whole, x) <=> Absent(first_task, x) /\ Absent(todo, x)
        /\ Absent(rest, x) <=> Absent(first_task, x) /\ Absent(t, x)
    BY <1>6
  <2> QED
    BY ONLY <1>5, <1>7, <1>8, <2>1, <2>2 DEF Same
<1> QED
  BY <1>2, <1>3, <1>9, <1>10

----------------------------------------------------------------------------
(* The end of an access, or of its first part.                             *)

(* What an access of I will write.                                         *)
LEMMA AllOutsIs ==
    ASSUME NEW h, NEW I, NEW x
    PROVE  x \in AllOuts(h, I) <=> \E f \in I : x \in h[f].out
BY DEF AllOuts

LEMMA OutsSame ==
    ASSUME NEW g, NEW h, NEW I, \A f \in I : g[f].out = h[f].out
    PROVE  AllOuts(g, I) = AllOuts(h, I)
<1>1. ASSUME NEW x PROVE x \in AllOuts(g, I) <=> x \in AllOuts(h, I)
  <2>1. x \in AllOuts(g, I) <=> \E f \in I : x \in g[f].out
    BY ONLY AllOutsIs
  <2>2. x \in AllOuts(h, I) <=> \E f \in I : x \in h[f].out
    BY ONLY AllOutsIs
  <2> QED
    BY <2>1, <2>2
<1> QED
  BY <1>1

(* w is I without e, and g is what h is for its elements.                  *)
Without(g, w, h, I, e) == e \in I /\ w = I \ {e} /\ \A f \in w : g[f].out = h[f].out

LEMMA OutsWithout ==
    ASSUME NEW I, NEW e, NEW g, NEW h, NEW w, Without(g, w, h, I, e), NEW out, out = h[e].out
    PROVE  AllOuts(h, I) = AllOuts(g, w) \cup out
<1>1. e \in I /\ w = I \ {e} /\ \A f \in w : g[f].out = h[f].out
  BY DEF Without
<1>2. ASSUME NEW x
      PROVE  x \in AllOuts(g, w) \/ x \in out <=> x \in AllOuts(h, I)
  <2>1. x \in AllOuts(g, w) <=> \E f \in w : x \in g[f].out
    BY ONLY AllOutsIs
  <2>2. x \in AllOuts(h, I) <=> \E f \in I : x \in h[f].out
    BY ONLY AllOutsIs
  <2>3. ASSUME NEW f \in I, x \in h[f].out PROVE x \in out \/ \E d \in w : x \in g[d].out
    <3>1. CASE f = e
      BY <2>3, <3>1
    <3>2. CASE f # e
      <4>1. f \in w /\ g[f].out = h[f].out
        BY <1>1, <3>2
      <4> QED
        BY <2>3, <4>1
    <3> QED
      BY <3>1, <3>2
  <2>4. ASSUME NEW f \in w, x \in g[f].out PROVE \E d \in I : x \in h[d].out
    BY <1>1, <2>4
  <2> QED
    BY <1>1, <2>1, <2>2, <2>3, <2>4
<1> QED
  BY <1>2

LEMMA Scoreboard ==
    /\ ScoreboardExact <=> sb_reg_invalid = AllOuts(entry, InFlight) \cup unblock_slot.mask
    /\ ScoreboardExact' <=> sb_reg_invalid' = AllOuts(entry', InFlight') \cup unblock_slot'.mask
<1>1. ScoreboardExact <=> sb_reg_invalid = AllOuts(entry, InFlight) \cup unblock_slot.mask
  BY DEF ScoreboardExact
<1>2. ScoreboardExact' <=> sb_reg_invalid' = AllOuts(entry', InFlight') \cup unblock_slot'.mask
  BY DEF ScoreboardExact
<1> QED
  BY <1>1, <1>2

LEMMA Apart ==
    ASSUME Masks
    PROVE  /\ AllOuts(entry, InFlight) \cap unblock_slot.mask = {}
           /\ sb_reg_invalid = AllOuts(entry, InFlight) \cup unblock_slot.mask
<1>1. ScoreboardExact /\ \A f \in InFlight : entry[f].out \cap unblock_slot.mask = {}
  BY DEF Masks
<1>2. ASSUME NEW x \in AllOuts(entry, InFlight) PROVE x \notin unblock_slot.mask
  <2>1. PICK f \in InFlight : x \in entry[f].out
    BY <1>2, AllOutsIs
  <2> QED
    BY <1>1, <2>1
<1>3. sb_reg_invalid = AllOuts(entry, InFlight) \cup unblock_slot.mask
  BY ONLY <1>1, Scoreboard
<1> QED
  BY <1>2, <1>3

LEMMA MasksSame ==
    ASSUME Masks, InFlight' = InFlight, \A f \in InFlight : entry'[f].out = entry[f].out,
           sb_reg_invalid' = sb_reg_invalid, unblock_slot'.mask = unblock_slot.mask
    PROVE  Masks'
<1>1. AllOuts(entry', InFlight') = AllOuts(entry, InFlight)
  <2>1. PICK g : g = entry'
    OBVIOUS
  <2>2. \A f \in InFlight : g[f].out = entry[f].out
    BY <2>1
  <2>3. AllOuts(g, InFlight) = AllOuts(entry, InFlight)
    BY ONLY <2>2, OutsSame
  <2> QED
    BY <2>1, <2>3
<1>2. ScoreboardExact'
  <2>1. sb_reg_invalid = AllOuts(entry, InFlight) \cup unblock_slot.mask
    BY Apart
  <2>2. sb_reg_invalid' = AllOuts(entry', InFlight') \cup unblock_slot'.mask
    BY <1>1, <2>1
  <2> QED
    BY ONLY <2>2, Scoreboard
<1>3. \A f, g \in InFlight' : f # g => entry'[f].out \cap entry'[g].out = {}
  BY DEF Masks
<1>4. \A f \in InFlight' : entry'[f].out \cap unblock_slot'.mask = {}
  BY DEF Masks
<1> QED
  BY <1>2, <1>3, <1>4 DEF Masks

Kept == Parts' /\ Masks' /\ Landed' /\ QueueOnce' /\ FreeOnce' /\ TasksOnce'

LandShape ==
    /\ first_task' \in Seq(Items) /\ (first_task' = <<>> => first_task = <<>>)
    /\ next_retire_cycle' \in Nat
    /\ io_req_denied' \in BOOLEAN /\ pending_fence' \in BOOLEAN /\ owes' \in BOOLEAN
    /\ sb_reg_invalid' \subseteq Outs /\ landed' \subseteq Outs
    /\ unblock_slot' \in [mask : SUBSET Outs, due : {0, 1}]
    /\ queue' \in Seq(Slots)
    /\ req_entry_first' \in Seq(Entries)
    /\ entry' \in [Entries -> Entry]

LEMMA ShapeParts ==
    ASSUME Shape
    PROVE  /\ first_task \in Seq(Items) /\ todo \in Seq(Items)
           /\ next_retire_cycle \in Nat
           /\ io_req_denied \in BOOLEAN /\ pending_fence \in BOOLEAN /\ owes \in BOOLEAN
           /\ sb_reg_invalid \subseteq Outs /\ landed \subseteq Outs
           /\ unblock_slot \in [mask : SUBSET Outs, due : {0, 1}]
           /\ queue \in Seq(Slots)
           /\ req_entry_first \in Seq(Entries)
           /\ entry \in [Entries -> Entry]
BY DEF Shape, Items, Slots

(* The tasks once rest, the tasks without e, has got task y in front or    *)
(* nothing.                                                                *)
LEMMA TasksBecome ==
    ASSUME Shape, NEW t \in Seq(Items), todo' = t, NEW rest, rest = first_task \o t,
           NEW y \in Items, first_task' = <<y>> \o first_task
    PROVE  /\ first_task' \in Seq(Items) /\ first_task' # <<>>
           /\ Absent(rest, y) => Once(Tasks', y)
           /\ \A x : x # y => Same(Tasks', rest, x)
<1>1. first_task \in Seq(Items)
  BY ShapeParts
<1>2. PICK f : f = first_task'
  OBVIOUS
<1>3. f = <<y>> \o first_task
  BY <1>2
<1>4. f \in Seq(Items) /\ f # <<>>
  BY ONLY <1>1, <1>3, y \in Items
<1>5. PICK s : s = f \o t
  OBVIOUS
<1>6. s = <<y>> \o rest /\ rest \in Seq(Items)
  BY ONLY <1>1, <1>3, <1>5, TasksPushed, y \in Items, t \in Seq(Items), rest = first_task \o t
<1>a. IsPush(s, y, rest) /\ rest \in Seq(Items)
  BY ONLY <1>6 DEF IsPush
<1>7. Tasks' = s
  BY <1>2, <1>5 DEF Tasks
<1>8. ASSUME Absent(rest, y) PROVE Once(s, y)
  BY ONLY <1>a, <1>8, PushedOnce, y \in Items
<1>9. ASSUME NEW x, x # y PROVE Same(s, rest, x)
  BY ONLY <1>a, <1>9, PushedSame, y \in Items
<1> QED
  BY <1>2, <1>4, <1>7, <1>8, <1>9

(* The second part of a split access is sent.                              *)
LEMMA SecondKeeps ==
    ASSUME IssIInv, SplitServed, NEW e \in Entries, e \in InFlight, platform' = platform, wfi' = wfi,
           NEW t \in Seq(Items), todo' = t, NEW rest, rest = first_task \o t, Absent(rest, e),
           \A x : x # e => Same(rest, Tasks, x), entry[e].second, SecondPart(e)
    PROVE  Kept /\ LandShape
<1>1. Shape /\ Parts /\ Masks /\ Landed /\ QueueOnce /\ FreeOnce /\ TasksOnce
  BY DEF IssIInv
<1>2. PICK en \in FireSecond(entry[e]) :
         /\ entry' = [entry EXCEPT ![e] = en]
         /\ req_entry_first' = FreeIf(en.st = "free", e, req_entry_first)
         /\ first_task' = EnqueueIf(en.st = "task", e, first_task)
         /\ owes' = (owes \/ en.st = "denied")
  BY DEF SecondPart
<1>3. /\ en \in Entry /\ en.st \in {"slave", "task"} /\ en.out = entry[e].out
      /\ ~en.second /\ en.left = 0
  BY <1>1, <1>2, SecondSent
<1>4. /\ sb_reg_invalid' = sb_reg_invalid /\ unblock_slot' = unblock_slot
      /\ queue' = queue /\ landed' = landed
      /\ io_req_denied' = io_req_denied /\ pending_fence' = pending_fence
      /\ next_retire_cycle' = next_retire_cycle
  BY DEF SecondPart, svars
<1>5. req_entry_first' = req_entry_first
  BY <1>2, <1>3 DEF FreeIf
<1>6. /\ Entries' = Entries
      /\ entry' \in [Entries -> Entry]
      /\ entry'[e] = en
      /\ \A f \in Entries : f # e => entry'[f] = entry[f]
      /\ en.st # "free" => InFlight' = InFlight \cup {e}
  BY ONLY <1>1, <1>2, <1>3, OneEntry, platform' = platform, e \in Entries
<1>7. InFlight' = InFlight
  BY <1>3, <1>6
<1>8. Parts'
  BY <1>1, <1>3, <1>6 DEF Parts
<1>9. Masks'
  <2>1. \A f \in InFlight : entry'[f].out = entry[f].out
    BY <1>3, <1>6 DEF InFlight
  <2> QED
    BY <1>1, <1>4, <1>7, <2>1, MasksSame
<1>10. Landed'
  BY <1>1, <1>4, LandedFrame
<1>11. QueueOnce'
  BY <1>1, <1>4, <1>7, QueueFrame, SameItself
<1>12. FreeOnce'
  BY <1>1, <1>5, <1>7, FreeFrame
<1>13. /\ first_task' \in Seq(Items) /\ (first_task' = <<>> => first_task = <<>>)
       /\ IF en.st = "task" THEN Once(Tasks', e) ELSE Absent(Tasks', e)
       /\ \A x : x # e => Same(Tasks', rest, x)
  <2>1. CASE en.st = "task"
    <3>1. first_task' = <<e>> \o first_task /\ e \in Items
      BY <1>2, <2>1 DEF EnqueueIf, Items
    <3> QED
      BY <1>1, <2>1, <3>1, TasksBecome
  <2>2. CASE en.st # "task"
    <3>1. first_task' = first_task
      BY <1>2, <2>2 DEF EnqueueIf
    <3>2. Tasks' = rest
      BY <3>1 DEF Tasks
    <3> QED
      BY <1>1, <2>2, <3>1, <3>2, SameItself, ShapeParts
  <2> QED
    BY <2>1, <2>2
<1>14. TasksOnce'
  <2>1. ASSUME NEW f \in Entries
        PROVE  IF entry'[f].st = "task" THEN Once(Tasks', f) ELSE Absent(Tasks', f)
    BY <1>1, <1>6, <1>13 DEF TasksOnce, Same
  <2>2. Unblock # e
    BY <1>1, Distinct
  <2>3. /\ Once(Tasks', Unblock) \/ Absent(Tasks', Unblock)
        /\ unblock_slot'.mask # {} => Once(Tasks', Unblock)
    BY <1>1, <1>4, <1>13, <2>2 DEF TasksOnce, Same
  <2> QED
    BY <1>6, <2>1, <2>3 DEF TasksOnce
<1>15. LandShape
  BY <1>1, <1>2, <1>4, <1>5, <1>6, <1>13, ShapeParts DEF LandShape
<1> QED
  BY <1>8, <1>9, <1>10, <1>11, <1>12, <1>14, <1>15 DEF Kept

(* Another access retires in this cycle.                                   *)
LEMMA DeferKeeps ==
    ASSUME IssIInv, NEW e \in Entries, e \in InFlight, platform' = platform, wfi' = wfi,
           NEW t \in Seq(Items), todo' = t, NEW rest, rest = first_task \o t, Absent(rest, e),
           \A x : x # e => Same(rest, Tasks, x), Defer(e)
    PROVE  Kept /\ LandShape
<1>1. Shape /\ Parts /\ Masks /\ Landed /\ QueueOnce /\ FreeOnce /\ TasksOnce
  BY DEF IssIInv
<1>2. entry[e] \in Entry /\ entry[e].st # "free" /\ next_retire_cycle \in Nat
  BY <1>1 DEF Shape, InFlight
<1>3. PICK en : en = [entry[e] EXCEPT !.st = "task", !.timestamp = next_retire_cycle]
  OBVIOUS
<1>4. /\ en \in Entry /\ en.st = "task" /\ en.out = entry[e].out
      /\ en.second = entry[e].second /\ en.left = entry[e].left
  BY <1>2, <1>3 DEF Entry
<1>a. entry' = [entry EXCEPT ![e] = en]
  BY <1>1, <1>3 DEF Defer, Shape
<1>5. /\ sb_reg_invalid' = sb_reg_invalid /\ unblock_slot' = unblock_slot
      /\ queue' = queue /\ landed' = landed
      /\ io_req_denied' = io_req_denied /\ pending_fence' = pending_fence
      /\ owes' = owes /\ req_entry_first' = req_entry_first
  BY DEF Defer, svars
<1>6. next_retire_cycle' = next_retire_cycle + 1 /\ first_task' = <<e>> \o first_task
  BY DEF Defer
<1>7. /\ Entries' = Entries
      /\ entry' \in [Entries -> Entry]
      /\ entry'[e] = en
      /\ \A f \in Entries : f # e => entry'[f] = entry[f]
      /\ en.st # "free" => InFlight' = InFlight \cup {e}
  BY ONLY <1>1, <1>a, <1>4, OneEntry, platform' = platform, e \in Entries
<1>8. InFlight' = InFlight
  BY <1>4, <1>7
<1>9. Parts'
  BY <1>2, <1>1, <1>4, <1>7 DEF Parts
<1>10. Masks'
  <2>1. \A f \in InFlight : entry'[f].out = entry[f].out
    BY <1>4, <1>7 DEF InFlight
  <2> QED
    BY <1>1, <1>5, <1>8, <2>1, MasksSame
<1>11. Landed'
  BY <1>2, <1>1, <1>5, <1>6 DEF Landed
<1>12. QueueOnce'
  BY <1>1, <1>5, <1>8, QueueFrame, SameItself
<1>13. FreeOnce'
  BY <1>1, <1>5, <1>8, FreeFrame
<1>14. /\ first_task' \in Seq(Items) /\ first_task' # <<>>
       /\ Once(Tasks', e)
       /\ \A x : x # e => Same(Tasks', rest, x)
  <2>1. e \in Items
    BY DEF Items
  <2> QED
    BY <1>1, <1>6, <2>1, TasksBecome
<1>15. TasksOnce'
  <2>1. ASSUME NEW f \in Entries
        PROVE  IF entry'[f].st = "task" THEN Once(Tasks', f) ELSE Absent(Tasks', f)
    BY <1>1, <1>4, <1>7, <1>14 DEF TasksOnce, Same
  <2>2. Unblock # e
    BY <1>1, Distinct
  <2>3. /\ Once(Tasks', Unblock) \/ Absent(Tasks', Unblock)
        /\ unblock_slot'.mask # {} => Once(Tasks', Unblock)
    BY <1>1, <1>5, <1>14, <2>2 DEF TasksOnce, Same
  <2> QED
    BY <1>7, <2>1, <2>3 DEF TasksOnce
<1>16. LandShape
  BY <1>2, <1>1, <1>5, <1>6, <1>7, <1>14, ShapeParts DEF LandShape
<1> QED
  BY <1>9, <1>10, <1>11, <1>12, <1>13, <1>15, <1>16 DEF Kept

(* The access retires.                                                     *)
LEMMA RetireKeeps ==
    ASSUME IssIInv, NEW e \in Entries, e \in InFlight, platform' = platform, wfi' = wfi,
           NEW t \in Seq(Items), todo' = t, NEW rest, rest = first_task \o t, Absent(rest, e),
           \A x : x # e => Same(rest, Tasks, x), ~entry[e].second, MayRetire, Retire(e, rest)
    PROVE  Kept /\ LandShape
<1>1. Shape /\ Parts /\ Masks /\ Landed /\ QueueOnce /\ FreeOnce /\ TasksOnce
  BY DEF IssIInv
<1>2. entry[e] \in Entry /\ entry[e].left = 0
  BY <1>1 DEF Shape, Parts
<1>3. PICK en, out : en = Freed(entry[e]) /\ out = entry[e].out
  OBVIOUS
<1>4. /\ en \in Entry /\ en.st = "free" /\ en.out = {}
      /\ ~en.second /\ en.left = 0 /\ out \in SUBSET Outs
  BY <1>2, <1>3, FreedEntry, EntryFields
<1>a. entry' = [entry EXCEPT ![e] = en]
  BY <1>1, <1>3 DEF Retire, Shape
<1>5. /\ io_req_denied' = io_req_denied /\ pending_fence' = pending_fence
      /\ owes' = owes /\ next_retire_cycle' = 1
      /\ req_entry_first' = <<e>> \o req_entry_first
      /\ queue' = InsnTerminate(queue, e)
      /\ landed' = landed \cup out
      /\ ScheduleScoreboardRelease(out, rest)
  BY <1>3 DEF Retire
<1>6. landed = {}
  BY <1>1 DEF MayRetire, Landed
<1>7. /\ Entries' = Entries
      /\ entry' \in [Entries -> Entry]
      /\ entry'[e] = en
      /\ \A f \in Entries : f # e => entry'[f] = entry[f]
      /\ en.st = "free" => InFlight' = InFlight \ {e}
  BY ONLY <1>1, <1>a, <1>4, OneEntry, platform' = platform, e \in Entries
<1>8. InFlight' = InFlight \ {e}
  BY <1>4, <1>7
<1>9. Parts'
  BY <1>1, <1>4, <1>7 DEF Parts
<1>10. ASSUME out = {}
       PROVE  /\ Masks' /\ Landed' /\ TasksOnce'
              /\ first_task' \in Seq(Items) /\ (first_task' = <<>> => first_task = <<>>)
              /\ sb_reg_invalid' \subseteq Outs /\ landed' \subseteq Outs
              /\ unblock_slot' \in [mask : SUBSET Outs, due : {0, 1}]
  <2>1. /\ sb_reg_invalid' = sb_reg_invalid /\ unblock_slot' = unblock_slot
        /\ first_task' = first_task
    BY <1>5, <1>10 DEF ScheduleScoreboardRelease
  <2>2. Tasks' = rest
    BY <2>1 DEF Tasks
  <2>3. Masks'
    <3>1. \A f \in InFlight' : entry'[f].out = entry[f].out /\ f \in InFlight
      BY <1>7, <1>8 DEF InFlight
    <3>2. AllOuts(entry', InFlight') \cup out = AllOuts(entry, InFlight)
      <4>1. PICK g, w : g = entry' /\ w = InFlight'
        OBVIOUS
      <4>2. w = InFlight \ {e} /\ \A f \in w : g[f].out = entry[f].out
        BY <1>8, <3>1, <4>1
      <4>3. Without(g, w, entry, InFlight, e)
        BY ONLY <4>2, e \in InFlight DEF Without
      <4>4. out = entry[e].out
        BY <1>3
      <4>5. AllOuts(entry, InFlight) = AllOuts(g, w) \cup out
        BY ONLY <4>3, <4>4, OutsWithout
      <4> QED
        BY ONLY <4>1, <4>5
    <3>3. ScoreboardExact'
      <4>1. sb_reg_invalid = AllOuts(entry, InFlight) \cup unblock_slot.mask
        BY <1>1, Apart
      <4>2. sb_reg_invalid' = AllOuts(entry', InFlight') \cup unblock_slot'.mask
        BY ONLY <1>10, <2>1, <3>2, <4>1
      <4> QED
        BY ONLY <4>2, Scoreboard
    <3>4. \A f, g \in InFlight' : f # g => entry'[f].out \cap entry'[g].out = {}
      BY <1>1, <3>1 DEF Masks
    <3>5. \A f \in InFlight' : entry'[f].out \cap unblock_slot'.mask = {}
      BY <1>1, <2>1, <3>1 DEF Masks
    <3> QED
      BY <3>3, <3>4, <3>5 DEF Masks
  <2>4. Landed'
    BY <1>5, <1>6, <1>10 DEF Landed
  <2>5. TasksOnce'
    <3>1. ASSUME NEW f \in Entries
          PROVE  IF entry'[f].st = "task" THEN Once(Tasks', f) ELSE Absent(Tasks', f)
      BY <1>1, <1>4, <1>7, <2>2 DEF TasksOnce, Same
    <3>2. Unblock # e
      BY <1>1, Distinct
    <3>3. /\ Once(Tasks', Unblock) \/ Absent(Tasks', Unblock)
          /\ unblock_slot'.mask # {} => Once(Tasks', Unblock)
      BY <1>1, <2>1, <2>2, <3>2 DEF TasksOnce, Same
    <3> QED
      BY <1>7, <3>1, <3>3 DEF TasksOnce
  <2>6. /\ first_task' \in Seq(Items) /\ (first_task' = <<>> => first_task = <<>>)
        /\ sb_reg_invalid' \subseteq Outs /\ landed' \subseteq Outs
        /\ unblock_slot' \in [mask : SUBSET Outs, due : {0, 1}]
    BY <1>1, <1>5, <1>6, <1>10, <2>1, ShapeParts
  <2> QED
    BY <2>3, <2>4, <2>5, <2>6
<1>11. ASSUME out # {}
       PROVE  /\ Masks' /\ Landed' /\ TasksOnce'
              /\ first_task' \in Seq(Items) /\ (first_task' = <<>> => first_task = <<>>)
              /\ sb_reg_invalid' \subseteq Outs /\ landed' \subseteq Outs
              /\ unblock_slot' \in [mask : SUBSET Outs, due : {0, 1}]
  <2>1. /\ sb_reg_invalid' = sb_reg_invalid \ unblock_slot.mask
        /\ unblock_slot' = Slot(out, 1)
        /\ first_task' = EnqueueIf(~unblock_task_pending(rest), Unblock, first_task)
    BY <1>5, <1>11 DEF ScheduleScoreboardRelease
  <2>2. unblock_slot'.mask = out /\ unblock_slot'.due = 1
    BY <2>1 DEF Slot
  <2>3. Masks'
    <3>1. \A f \in InFlight' : entry'[f].out = entry[f].out /\ f \in InFlight /\ f # e
      BY <1>7, <1>8 DEF InFlight
    <3>2. AllOuts(entry', InFlight') \cup out = AllOuts(entry, InFlight)
      <4>1. PICK g, w : g = entry' /\ w = InFlight'
        OBVIOUS
      <4>2. w = InFlight \ {e} /\ \A f \in w : g[f].out = entry[f].out
        BY <1>8, <3>1, <4>1
      <4>3. Without(g, w, entry, InFlight, e)
        BY ONLY <4>2, e \in InFlight DEF Without
      <4>4. out = entry[e].out
        BY <1>3
      <4>5. AllOuts(entry, InFlight) = AllOuts(g, w) \cup out
        BY ONLY <4>3, <4>4, OutsWithout
      <4> QED
        BY ONLY <4>1, <4>5
    <3>3. ScoreboardExact'
      <4>1. /\ AllOuts(entry, InFlight) \cap unblock_slot.mask = {}
            /\ sb_reg_invalid = AllOuts(entry, InFlight) \cup unblock_slot.mask
        BY <1>1, Apart
      <4>2. sb_reg_invalid' = AllOuts(entry, InFlight)
        BY ONLY <2>1, <4>1
      <4>3. sb_reg_invalid' = AllOuts(entry', InFlight') \cup unblock_slot'.mask
        BY ONLY <2>2, <3>2, <4>2
      <4> QED
        BY ONLY <4>3, Scoreboard
    <3>4. \A f, g \in InFlight' : f # g => entry'[f].out \cap entry'[g].out = {}
      BY <1>1, <3>1 DEF Masks
    <3>5. \A f \in InFlight' : entry'[f].out \cap unblock_slot'.mask = {}
      BY <1>1, <1>3, <2>2, <3>1 DEF Masks
    <3> QED
      BY <3>3, <3>4, <3>5 DEF Masks
  <2>4. Landed'
    BY <1>5, <1>6, <2>2 DEF Landed
  <2>5. /\ first_task' \in Seq(Items) /\ (first_task' = <<>> => first_task = <<>>)
        /\ Once(Tasks', Unblock)
        /\ \A x : x # Unblock => Same(Tasks', rest, x)
    <3>1. CASE Absent(rest, Unblock)
      <4>1. first_task' = <<Unblock>> \o first_task /\ Unblock \in Items
        BY <2>1, <3>1, Pending DEF EnqueueIf, Items
      <4> QED
        BY <1>1, <3>1, <4>1, TasksBecome
    <3>2. CASE ~Absent(rest, Unblock)
      <4>1. first_task' = first_task
        BY <2>1, <3>2, Pending DEF EnqueueIf
      <4>2. Tasks' = rest
        BY <4>1 DEF Tasks
      <4>3. Unblock # e
        BY <1>1, Distinct
      <4>4. Once(rest, Unblock)
        BY <1>1, <3>2, <4>3 DEF TasksOnce, Same
      <4> QED
        BY <1>1, <4>1, <4>2, <4>4, SameItself, ShapeParts
    <3> QED
      BY <3>1, <3>2
  <2>6. TasksOnce'
    <3>1. ASSUME NEW f \in Entries
          PROVE  IF entry'[f].st = "task" THEN Once(Tasks', f) ELSE Absent(Tasks', f)
      <4>1. f # Unblock
        BY <1>1, Distinct
      <4>2. Same(Tasks', rest, f)
        BY <2>5, <4>1
      <4> QED
        BY <1>1, <1>4, <1>7, <4>2 DEF TasksOnce, Same
    <3> QED
      BY <1>7, <2>5, <3>1 DEF TasksOnce
  <2>7. /\ sb_reg_invalid' \subseteq Outs /\ landed' \subseteq Outs
        /\ unblock_slot' \in [mask : SUBSET Outs, due : {0, 1}]
    BY <1>1, <1>4, <1>5, <1>6, <2>1, ShapeParts DEF Slot
  <2> QED
    BY <2>3, <2>4, <2>5, <2>6, <2>7
<1>12. QueueOnce' /\ queue' \in Seq(Slots)
  BY <1>1, <1>5, <1>7, <1>8, QueueLeaves
<1>13. FreeOnce' /\ req_entry_first' \in Seq(Entries)
  BY <1>1, <1>5, <1>7, <1>8, FreeGiven
<1>14. Masks' /\ Landed' /\ TasksOnce'
  BY <1>10, <1>11
<1>15. LandShape
  BY <1>1, <1>5, <1>7, <1>10, <1>11, <1>12, <1>13, ShapeParts DEF LandShape
<1> QED
  BY <1>9, <1>12, <1>13, <1>14, <1>15 DEF Kept

LEMMA LandKeeps ==
    ASSUME IssIInv, SplitServed, NEW e \in Entries, e \in InFlight, platform' = platform, wfi' = wfi,
           NEW t \in Seq(Items), todo' = t, NEW rest, rest = first_task \o t, Absent(rest, e),
           \A x : x # e => Same(rest, Tasks, x), Land(e, rest)
    PROVE  Kept /\ LandShape
<1>1. CASE entry[e].second /\ SecondPart(e)
  BY <1>1, SecondKeeps
<1>2. CASE Defer(e)
  BY <1>2, DeferKeeps
<1>3. CASE ~entry[e].second /\ MayRetire /\ Retire(e, rest)
  BY <1>3, RetireKeeps
<1> QED
  BY <1>1, <1>2, <1>3 DEF Land

(* What the steps of an access leave alone.                                *)
LEMMA ShapeAgain ==
    ASSUME Shape, LandShape, platform' = platform, current_insn' = current_insn, phase' = phase,
           stall_cycles' = stall_cycles, wfi' = wfi, instr_disabled' = instr_disabled,
           pending_interrupt' = pending_interrupt, todo' \in Seq(Items)
    PROVE  Shape'
<1>1. Entries' = Entries /\ Program' = Program
  BY DEF Entries, Program
<1>2. /\ platform' \in Platforms /\ current_insn' \in Program
      /\ phase' \in {"start", "tasks", "issue", "end"}
      /\ stall_cycles' \in Nat
      /\ wfi' \in BOOLEAN /\ instr_disabled' \in BOOLEAN /\ pending_interrupt' \in BOOLEAN
  BY DEF Shape
<1> QED
  BY <1>1, <1>2 DEF Shape, LandShape, Items, Slots

LEMMA TaskHandleKeeps ==
    ASSUME IssIInv, SplitServed, NEW e \in Entries, TaskHandle(e)
    PROVE  IssIInv'
<1>1. Shape /\ Parts /\ Masks /\ Landed /\ QueueOnce /\ FreeOnce /\ TasksOnce /\ Phases
  BY DEF IssIInv
<1>2. /\ phase = "tasks" /\ todo # <<>> /\ Head(todo) = e /\ todo' = Tail(todo)
      /\ platform' = platform /\ current_insn' = current_insn /\ phase' = phase
      /\ stall_cycles' = stall_cycles /\ wfi' = wfi /\ instr_disabled' = instr_disabled
      /\ pending_interrupt' = pending_interrupt
  BY DEF TaskHandle
<1>3. PICK t, rest : t = todo' /\ rest = first_task \o t
  OBVIOUS
<1>4. ~Absent(Tasks, e)
  <2>1. first_task \in Seq(Items) /\ todo \in Seq(Items)
    BY <1>1, ShapeParts
  <2>2. PICK tail, whole : tail = Tail(todo) /\ whole = first_task \o todo
    OBVIOUS
  <2>3. todo # <<>> /\ e = Head(todo)
    BY <1>2
  <2>4. ~Absent(todo, e)
    BY ONLY <2>1, <2>2, <2>3, Popped
  <2>5. Absent(whole, e) => Absent(todo, e)
    BY ONLY <2>1, <2>2, AbsentJoin
  <2> QED
    BY <2>2, <2>4, <2>5 DEF Tasks
<1>5. entry[e].st = "task" /\ Once(Tasks, e)
  BY <1>1, <1>4 DEF TasksOnce
<1>6. e \in InFlight
  BY <1>5 DEF InFlight
<1>7. /\ t \in Seq(Items) /\ rest \in Seq(Items) /\ Absent(rest, e)
      /\ \A x : x # e => Same(rest, Tasks, x)
  <2>1. t = Tail(todo) /\ e = Head(todo) /\ todo # <<>> /\ rest = first_task \o t
    BY <1>2, <1>3
  <2> QED
    BY ONLY <1>1, <1>5, <2>1, Taken
<1>8. Kept /\ LandShape
  <2>1. CASE entry[e].timestamp > 0 /\ first_task' = <<e>> \o first_task /\ UNCHANGED <<svars, lvars>>
    <3>1. /\ sb_reg_invalid' = sb_reg_invalid /\ unblock_slot' = unblock_slot
          /\ queue' = queue /\ landed' = landed
          /\ req_entry_first' = req_entry_first /\ entry' = entry
          /\ io_req_denied' = io_req_denied /\ pending_fence' = pending_fence
          /\ next_retire_cycle' = next_retire_cycle /\ owes' = owes
      BY <2>1 DEF svars, lvars
    <3>2. InFlight' = InFlight
      BY <1>2, <3>1 DEF InFlight, Entries
    <3>3. /\ first_task' \in Seq(Items) /\ first_task' # <<>> /\ Once(Tasks', e)
          /\ \A x : x # e => Same(Tasks', rest, x)
      <4>1. e \in Items
        BY DEF Items
      <4> QED
        BY <1>1, <1>3, <1>7, <2>1, <4>1, TasksBecome
    <3>4. TasksOnce'
      <4>1. \A x : Same(Tasks', Tasks, x)
        <5>1. Same(Tasks', Tasks, e)
          BY <1>5, <3>3, NotBoth DEF Same
        <5> QED
          BY <1>7, <3>3, <5>1 DEF Same
      <4> QED
        BY <1>1, <1>2, <3>1, <4>1, TasksFrame
    <3>5. Parts' /\ Masks' /\ Landed' /\ FreeOnce'
      BY <1>1, <1>2, <3>1, <3>2, PartsFrame, MasksFrame, LandedFrame, FreeFrame
    <3>6. QueueOnce'
      BY <1>1, <1>2, <3>1, <3>2, QueueFrame, SameItself
    <3>7. LandShape
      BY <1>1, <3>1, <3>3, ShapeParts DEF LandShape
    <3> QED
      BY <3>4, <3>5, <3>6, <3>7 DEF Kept
  <2>2. CASE Land(e, first_task \o Tail(todo))
    <3>1. Land(e, rest)
      BY <1>2, <1>3, <2>2
    <3> QED
      BY <1>2, <1>3, <1>6, <1>7, <3>1, LandKeeps
  <2> QED
    BY <2>1, <2>2 DEF TaskHandle
<1>9. Shape'
  BY <1>1, <1>2, <1>3, <1>7, <1>8, ShapeAgain
<1>10. Phases'
  BY <1>1, <1>2 DEF Phases, Quiet
<1> QED
  BY <1>8, <1>9, <1>10 DEF IssIInv, Kept

LEMMA DataResponseKeeps ==
    ASSUME IssIInv, SplitServed, NEW e \in Entries, DataResponse(e)
    PROVE  IssIInv'
<1>1. Shape /\ Parts /\ Masks /\ Landed /\ QueueOnce /\ FreeOnce /\ TasksOnce /\ Phases
  BY DEF IssIInv
<1>2. /\ Quiet /\ entry[e].st = "slave" /\ Land(e, first_task) /\ todo' = todo
      /\ platform' = platform /\ current_insn' = current_insn /\ phase' = phase
      /\ stall_cycles' = stall_cycles /\ wfi' = wfi /\ instr_disabled' = instr_disabled
      /\ pending_interrupt' = pending_interrupt
  BY DEF DataResponse
<1>3. e \in InFlight /\ Absent(Tasks, e)
  BY <1>1, <1>2 DEF InFlight, TasksOnce
<1>4. todo = <<>>
  BY <1>1, <1>2 DEF Quiet, Phases
<1>5. PICK t : t = todo
  OBVIOUS
<1>6. t \in Seq(Items) /\ first_task \in Seq(Items)
  BY <1>1, <1>5, ShapeParts
<1>7. first_task \o t = first_task
  BY <1>4, <1>5, <1>6
<1>8. Tasks = first_task
  BY <1>5, <1>7 DEF Tasks
<1>9. Absent(first_task, e) /\ \A x : x # e => Same(first_task, Tasks, x)
  BY <1>3, <1>8, SameItself
<1>10. Kept /\ LandShape
  <2>1. first_task = first_task \o t /\ todo' = t
    BY <1>2, <1>5, <1>7
  <2>2. PICK rest : rest = first_task
    OBVIOUS
  <2>3. rest = first_task \o t /\ Absent(rest, e) /\ Land(e, rest)
    BY <1>2, <1>9, <2>1, <2>2
  <2>4. \A x : x # e => Same(rest, Tasks, x)
    BY <1>9, <2>2
  <2> QED
    BY <1>2, <1>3, <1>6, <2>1, <2>3, <2>4, LandKeeps
<1>11. Shape'
  BY <1>1, <1>2, <1>5, <1>6, <1>10, ShapeAgain
<1>12. Phases'
  <2>1. todo' = <<>>
    BY <1>2, <1>4
  <2>2. ASSUME Tasks' = <<>> PROVE Tasks = <<>>
    <3>1. first_task' \in Seq(Items)
      BY <1>10 DEF LandShape
    <3>2. first_task' \o <<>> = first_task'
      BY <3>1
    <3>3. first_task' = <<>>
      BY <2>1, <2>2, <3>2 DEF Tasks
    <3> QED
      BY <1>8, <1>10, <3>3 DEF LandShape
  <2>3. Quiet' = Quiet
    BY <1>2 DEF Quiet
  <2> QED
    BY <1>1, <1>2, <2>1, <2>2, <2>3 DEF Phases
<1> QED
  BY <1>10, <1>11, <1>12 DEF IssIInv, Kept

----------------------------------------------------------------------------
(* The steps that end no access.                                           *)

(* Entries, scoreboard and free list are left alone.                       *)
Still ==
    /\ platform' = platform /\ entry' = entry /\ req_entry_first' = req_entry_first
    /\ sb_reg_invalid' = sb_reg_invalid /\ unblock_slot' = unblock_slot
    /\ landed' = landed /\ next_retire_cycle' = next_retire_cycle

LEMMA StillKeeps ==
    ASSUME IssIInv, Still
    PROVE  /\ Parts' /\ Masks' /\ Landed' /\ FreeOnce'
           /\ InFlight' = InFlight /\ Entries' = Entries /\ Program' = Program
           /\ Tasks' = Tasks => TasksOnce'
           /\ wfi' = wfi /\ queue' = queue => QueueOnce'
           /\ wfi' = wfi /\ queue' = Follow(queue) => QueueOnce' /\ queue' \in Seq(Slots)
<1>1. Shape /\ Parts /\ Masks /\ Landed /\ QueueOnce /\ FreeOnce /\ TasksOnce
  BY DEF IssIInv
<1>2. /\ platform' = platform /\ entry' = entry /\ req_entry_first' = req_entry_first
      /\ sb_reg_invalid' = sb_reg_invalid /\ unblock_slot' = unblock_slot
      /\ landed' = landed /\ next_retire_cycle' = next_retire_cycle
  BY DEF Still
<1>3. InFlight' = InFlight /\ Entries' = Entries /\ Program' = Program
  BY <1>2 DEF InFlight, Entries, Program
<1>4. Parts' /\ Masks' /\ Landed' /\ FreeOnce'
  BY <1>1, <1>2, <1>3, PartsFrame, MasksFrame, LandedFrame, FreeFrame
<1>5. ASSUME Tasks' = Tasks PROVE TasksOnce'
  <2>1. \A x : Same(Tasks', Tasks, x)
    BY <1>5, SameItself
  <2> QED
    BY <1>1, <1>2, <2>1, TasksFrame
<1>6. ASSUME wfi' = wfi, queue' = queue PROVE QueueOnce'
  <2>1. \A x : x # Ready => Same(queue', queue, x)
    BY <1>6, SameItself
  <2> QED
    BY <1>1, <1>2, <1>3, <1>6, <2>1, QueueFrame
<1>7. ASSUME wfi' = wfi, queue' = Follow(queue) PROVE QueueOnce' /\ queue' \in Seq(Slots)
  <2>1. queue' \in Seq(Slots) /\ \A x : x # Ready => Same(queue', queue, x)
    BY <1>1, <1>7, QueueFollows
  <2> QED
    BY <1>1, <1>2, <1>3, <1>7, <2>1, QueueFrame
<1> QED
  BY <1>3, <1>4, <1>5, <1>6, <1>7

LEMMA InitHolds == ASSUME IssInit PROVE IssIInv
<1>1. platform \in Platforms /\ platform.nb \in Nat \ {0}
  BY IssCoreAssumption DEF IssInit, IssCoreAssumption
<1>2. \A e \in Entries : entry[e] = FreeEntry
  BY DEF IssInit
<1>3. InFlight = {}
  BY <1>2 DEF InFlight, FreeEntry
<1>4. Parts
  BY <1>2 DEF Parts, FreeEntry
<1>5. Masks
  BY <1>3 DEF Masks, ScoreboardExact, AllOuts, IssInit, NoSlot, Slot
<1>6. Landed
  BY DEF Landed, IssInit
<1>7. QueueOnce
  BY <1>3, OfEmpty DEF QueueOnce, IssInit
<1>8. FreeOnce
  <2>1. ASSUME NEW e \in Entries PROVE Once(req_entry_first, e)
    <3>1. req_entry_first = [i \in Entries |-> platform.nb + 1 - i]
      BY DEF IssInit
    <3>2. PICK k : k = platform.nb + 1 - e
      OBVIOUS
    <3>3. k \in Entries /\ platform.nb + 1 - k = e
      BY <1>1, <3>2 DEF Entries
    <3>4. \A j \in Entries : platform.nb + 1 - j = e => j = k
      BY <1>1, <3>2 DEF Entries
    <3> QED
      BY <3>1, <3>3, <3>4 DEF Once
  <2> QED
    BY <1>3, <2>1 DEF FreeOnce
<1>9. TasksOnce
  <2>1. Tasks = <<>>
    BY DEF Tasks, IssInit
  <2> QED
    BY <1>2, <2>1, OfEmpty DEF TasksOnce, FreeEntry, IssInit, NoSlot, Slot
<1>10. Phases
  BY DEF Phases, IssInit
<1>11. Shape
  <2>1. req_entry_first \in Seq(Entries)
    <3>1. req_entry_first \in [1 .. platform.nb -> Entries]
      BY <1>1 DEF IssInit, Entries
    <3> QED
      BY <1>1, <3>1
  <2>2. entry \in [Entries -> Entry]
    BY DEF IssInit, FreeEntry, Entry
  <2>3. unblock_slot \in [mask : SUBSET Outs, due : {0, 1}]
    BY DEF IssInit, NoSlot, Slot
  <2>4. /\ first_task \in Seq(Items) /\ todo \in Seq(Items) /\ queue \in Seq(Slots)
    BY DEF IssInit
  <2>5. /\ phase \in {"start", "tasks", "issue", "end"}
        /\ stall_cycles \in Nat /\ next_retire_cycle \in Nat
        /\ wfi \in BOOLEAN /\ instr_disabled \in BOOLEAN /\ pending_interrupt \in BOOLEAN
        /\ io_req_denied \in BOOLEAN /\ pending_fence \in BOOLEAN /\ owes \in BOOLEAN
        /\ sb_reg_invalid \subseteq Outs /\ landed \subseteq Outs /\ current_insn \in Program
    BY DEF IssInit
  <2> QED
    BY <1>1, <2>1, <2>2, <2>3, <2>4, <2>5 DEF Shape, Items, Slots
<1> QED
  BY <1>4, <1>5, <1>6, <1>7, <1>8, <1>9, <1>10, <1>11 DEF IssIInv

LEMMA BeginKeeps == ASSUME IssIInv, Begin PROVE IssIInv'
<1>1. Shape /\ Phases
  BY DEF IssIInv
<1>2. Still /\ wfi' = wfi /\ queue' = queue
  BY DEF Begin, Still, svars, lvars
<1>3. todo = <<>> /\ first_task \in Seq(Items)
  BY <1>1, ShapeParts DEF Begin, Phases
<1>4. Tasks = first_task
  BY <1>3 DEF Tasks
<1>5. /\ Tasks' = Tasks /\ first_task' \in Seq(Items) /\ todo' \in Seq(Items)
      /\ stall_cycles' \in Nat /\ phase' \in {"end", "issue", "tasks"}
      /\ phase' # "tasks" => todo' = <<>>
  <2>1. CASE stall_cycles > 0 /\ stall_cycles' = stall_cycles - 1 /\ phase' = "end"
             /\ UNCHANGED <<current_insn, first_task, todo>>
    <3>1. stall_cycles \in Nat
      BY <1>1 DEF Shape
    <3> QED
      BY <1>1, <1>3, <2>1, <3>1, ShapeParts DEF Tasks
  <2>2. CASE /\ phase' = IF first_task = <<>> THEN "issue" ELSE "tasks"
             /\ todo' = first_task /\ first_task' = <<>>
             /\ UNCHANGED stall_cycles
    <3>1. Tasks' = first_task
      BY <1>3, <2>2 DEF Tasks
    <3>2. stall_cycles' \in Nat
      BY <1>1, <2>2 DEF Shape
    <3>3. <<>> \in Seq(Items)
      OBVIOUS
    <3> QED
      BY <1>3, <1>4, <2>2, <3>1, <3>2, <3>3
  <2> QED
    BY <2>1, <2>2 DEF Begin
<1>6. /\ Parts' /\ Masks' /\ Landed' /\ FreeOnce' /\ TasksOnce' /\ QueueOnce'
      /\ Entries' = Entries /\ Program' = Program
  BY <1>2, <1>5, StillKeeps
<1>7. Phases'
  <2>1. phase = "start" /\ ~instr_disabled /\ instr_disabled' = instr_disabled
    BY DEF Begin
  <2>2. wfi => Tasks # <<>>
    BY <1>1, <2>1 DEF Phases, Quiet
  <2>3. phase' = "issue" => Tasks = <<>>
    <3>1. phase' = "issue" => first_task = <<>>
      BY DEF Begin
    <3> QED
      BY <1>4, <3>1
  <2> QED
    BY <1>2, <1>5, <2>1, <2>2, <2>3 DEF Phases, Quiet
<1>8. Shape'
  <2>1. /\ pending_interrupt' = pending_interrupt
        /\ instr_disabled' = instr_disabled /\ io_req_denied' = io_req_denied
        /\ pending_fence' = pending_fence /\ owes' = owes
    BY DEF Begin, lvars
  <2>2. current_insn' \in Program
    BY <1>1 DEF Begin, Redirected, Shape
  <2> QED
    BY <1>1, <1>2, <1>5, <1>6, <2>1, <2>2 DEF Shape, Still, Items
<1> QED
  BY <1>6, <1>7, <1>8 DEF IssIInv

LEMMA TaskUnblockKeeps == ASSUME IssIInv, TaskUnblock PROVE IssIInv'
<1>1. Shape /\ Parts /\ Masks /\ Landed /\ QueueOnce /\ FreeOnce /\ TasksOnce /\ Phases
  BY DEF IssIInv
<1>2. /\ phase = "tasks" /\ todo # <<>> /\ Head(todo) = Unblock /\ todo' = Tail(todo)
      /\ platform' = platform /\ entry' = entry /\ req_entry_first' = req_entry_first
      /\ landed' = landed /\ next_retire_cycle' = next_retire_cycle
      /\ queue' = queue /\ wfi' = wfi /\ phase' = phase /\ instr_disabled' = instr_disabled
  BY DEF TaskUnblock, lvars
<1>3. InFlight' = InFlight /\ Entries' = Entries /\ Program' = Program
  BY <1>2 DEF InFlight, Entries, Program
<1>4. Parts' /\ FreeOnce'
  BY <1>1, <1>2, <1>3, PartsFrame, FreeFrame
<1>5. QueueOnce'
  <2>1. \A x : x # Ready => Same(queue', queue, x)
    BY <1>2, SameItself
  <2> QED
    BY <1>1, <1>2, <1>3, <2>1, QueueFrame
<1>6. PICK t, rest : t = todo' /\ rest = first_task \o t
  OBVIOUS
<1>7. Once(Tasks, Unblock)
  <2>1. first_task \in Seq(Items) /\ todo \in Seq(Items)
    BY <1>1, ShapeParts
  <2>2. PICK tail, whole, y : tail = Tail(todo) /\ whole = first_task \o todo /\ y = Unblock
    OBVIOUS
  <2>3. todo # <<>> /\ y = Head(todo)
    BY <1>2, <2>2
  <2>4. ~Absent(todo, y)
    BY ONLY <2>1, <2>2, <2>3, Popped
  <2>5. Absent(whole, y) => Absent(todo, y)
    BY ONLY <2>1, <2>2, AbsentJoin
  <2> QED
    BY <1>1, <2>2, <2>4, <2>5 DEF Tasks, TasksOnce
<1>8. /\ t \in Seq(Items) /\ rest \in Seq(Items) /\ Absent(rest, Unblock)
      /\ \A x : x # Unblock => Same(rest, Tasks, x)
  <2>1. PICK y : y = Unblock
    OBVIOUS
  <2>2. t = Tail(todo) /\ y = Head(todo) /\ todo # <<>> /\ rest = first_task \o t /\ Once(Tasks, y)
    BY <1>2, <1>6, <1>7, <2>1
  <2>3. /\ t \in Seq(Items) /\ rest \in Seq(Items) /\ Absent(rest, y)
        /\ \A x : x # y => Same(rest, Tasks, x)
    BY ONLY <1>1, <2>2, Taken
  <2> QED
    BY <2>1, <2>3
<1>9. /\ \A x : x # Unblock => Same(Tasks', Tasks, x)
      /\ first_task' \in Seq(Items)
      /\ unblock_slot.due # 0 => Once(Tasks', Unblock)
      /\ unblock_slot.due = 0 => Absent(Tasks', Unblock)
  <2>1. CASE unblock_slot.due = 0
    <3>1. first_task' = first_task
      BY <2>1 DEF TaskUnblock, EnqueueIf
    <3>2. Tasks' = rest
      BY <1>6, <3>1 DEF Tasks
    <3> QED
      BY <1>1, <1>8, <2>1, <3>1, <3>2, ShapeParts
  <2>2. CASE unblock_slot.due # 0
    <3>1. first_task' = <<Unblock>> \o first_task /\ Unblock \in Items
      BY <2>2 DEF TaskUnblock, EnqueueIf, Items
    <3>2. /\ first_task' \in Seq(Items) /\ Once(Tasks', Unblock)
          /\ \A x : x # Unblock => Same(Tasks', rest, x)
      BY <1>1, <1>6, <1>8, <3>1, TasksBecome
    <3> QED
      BY <1>8, <2>2, <3>2 DEF Same
  <2> QED
    BY <2>1, <2>2
<1>10. Masks' /\ Landed' /\ TasksOnce' /\ sb_reg_invalid' \subseteq Outs
       /\ unblock_slot' \in [mask : SUBSET Outs, due : {0, 1}]
  <2>1. \A e \in Entries : e # Unblock
    BY <1>1, Distinct
  <2>2. \A e \in Entries : IF entry'[e].st = "task" THEN Once(Tasks', e) ELSE Absent(Tasks', e)
    BY <1>1, <1>2, <1>9, <2>1 DEF TasksOnce, Same
  <2>3. CASE unblock_slot.due # 0
    <3>1. sb_reg_invalid' = sb_reg_invalid /\ unblock_slot' = unblock_slot
      BY <2>3 DEF TaskUnblock
    <3>2. Masks' /\ Landed'
      BY <1>1, <1>2, <3>1, MasksFrame, LandedFrame
    <3>3. TasksOnce'
      BY <1>3, <1>9, <2>3, <2>2 DEF TasksOnce
    <3> QED
      BY <1>1, <3>1, <3>2, <3>3, ShapeParts
  <2>4. CASE unblock_slot.due = 0
    <3>1. sb_reg_invalid' = sb_reg_invalid \ unblock_slot.mask /\ unblock_slot' = NoSlot
      BY <2>4 DEF TaskUnblock
    <3>2. unblock_slot'.mask = {} /\ unblock_slot' \in [mask : SUBSET Outs, due : {0, 1}]
      BY <3>1 DEF NoSlot, Slot
    <3>3. Landed'
      BY <1>1, <1>2, <2>4 DEF Landed
    <3>4. TasksOnce'
      BY <1>3, <1>9, <2>4, <2>2, <3>2 DEF TasksOnce
    <3>5. Masks'
      <4>1. /\ AllOuts(entry, InFlight) \cap unblock_slot.mask = {}
            /\ sb_reg_invalid = AllOuts(entry, InFlight) \cup unblock_slot.mask
        BY <1>1, Apart
      <4>2. sb_reg_invalid' = AllOuts(entry, InFlight)
        BY ONLY <3>1, <4>1
      <4>3. sb_reg_invalid' = AllOuts(entry', InFlight') \cup unblock_slot'.mask
        BY ONLY <1>2, <1>3, <3>2, <4>2
      <4>6. ScoreboardExact'
        BY ONLY <4>3, Scoreboard
      <4>7. \A f, g \in InFlight' : f # g => entry'[f].out \cap entry'[g].out = {}
        BY <1>1, <1>2, <1>3 DEF Masks
      <4> QED
        BY <3>2, <4>6, <4>7 DEF Masks
    <3> QED
      BY <1>1, <3>1, <3>2, <3>3, <3>4, <3>5, ShapeParts
  <2> QED
    BY <2>3, <2>4
<1>11. Phases'
  BY <1>1, <1>2 DEF Phases, Quiet
<1>12. Shape'
  <2>1. /\ current_insn' = current_insn /\ pending_interrupt' = pending_interrupt
        /\ stall_cycles' = stall_cycles /\ io_req_denied' = io_req_denied
        /\ pending_fence' = pending_fence /\ owes' = owes
    BY DEF TaskUnblock, lvars
  <2>2. todo' \in Seq(Items)
    BY <1>6, <1>8
  <2> QED
    BY <1>1, <1>2, <1>3, <1>9, <1>10, <2>1, <2>2 DEF Shape, Items
<1> QED
  BY <1>4, <1>5, <1>10, <1>11, <1>12 DEF IssIInv

LEMMA TasksDoneKeeps == ASSUME IssIInv, TasksDone PROVE IssIInv'
<1>1. Shape /\ Phases
  BY DEF IssIInv
<1>2. Still /\ wfi' = wfi /\ queue' = queue
  BY DEF TasksDone, Still, svars, lvars
<1>3. todo = <<>> /\ todo' = todo /\ first_task' = first_task /\ first_task \in Seq(Items)
  BY <1>1, ShapeParts DEF TasksDone
<1>4. Tasks = first_task /\ Tasks' = Tasks
  BY <1>3 DEF Tasks
<1>5. /\ Parts' /\ Masks' /\ Landed' /\ FreeOnce' /\ TasksOnce' /\ QueueOnce'
      /\ Entries' = Entries /\ Program' = Program
  BY <1>2, <1>4, StillKeeps
<1>6. Phases'
  <2>1. /\ phase' = IF wfi THEN "end" ELSE "issue"
        /\ instr_disabled' = (wfi /\ (instr_disabled \/ first_task = <<>>))
    BY DEF TasksDone, RetainCheck
  <2> QED
    BY <1>2, <1>3, <1>4, <2>1 DEF Phases, Quiet
<1>7. Shape'
  <2>1. /\ current_insn' = current_insn /\ pending_interrupt' = pending_interrupt
        /\ stall_cycles' = stall_cycles /\ io_req_denied' = io_req_denied
        /\ pending_fence' = pending_fence /\ owes' = owes
    BY DEF TasksDone, lvars
  <2>2. phase' \in {"end", "issue"} /\ instr_disabled' \in BOOLEAN
    BY <1>1 DEF TasksDone
  <2> QED
    BY <1>1, <1>2, <1>3, <1>5, <2>1, <2>2 DEF Shape, Still, Items
<1> QED
  BY <1>5, <1>6, <1>7 DEF IssIInv

(* An instruction that sends nothing: the phase becomes "end".             *)
LEMMA IssuedPhases ==
    ASSUME IssIInv, phase = "issue", phase' = "end", todo' = todo, ~wfi', ~instr_disabled'
    PROVE  Phases'
BY DEF IssIInv, Phases, Quiet

LEMMA CompleteShape ==
    ASSUME Shape, Program' = Program, NEW i \in Program, Complete(i)
    PROVE  current_insn' \in Program' /\ stall_cycles' \in Nat
<1>1. i.stall \in Nat /\ stall_cycles \in Nat
  BY ProgramOuts, IssCoreAssumption DEF IssCoreAssumption, Shape
<1> QED
  BY <1>1 DEF Complete

LEMMA StallShape ==
    ASSUME Shape, Program' = Program, Stall
    PROVE  current_insn' \in Program' /\ stall_cycles' \in Nat
BY DEF Shape, Stall

(* What the instructions that send no access have in common.               *)
LEMMA IssuedShape ==
    ASSUME Shape, Still, Entries' = Entries, Program' = Program, current_insn' \in Program',
           stall_cycles' \in Nat, phase' = "end", first_task' = first_task, todo' = todo,
           pending_interrupt' = pending_interrupt, wfi' \in BOOLEAN, instr_disabled' \in BOOLEAN,
           io_req_denied' \in BOOLEAN, pending_fence' \in BOOLEAN, owes' \in BOOLEAN,
           queue' \in Seq(Slots)
    PROVE  Shape'
BY DEF Shape, Still, Slots

LEMMA IssueStalledKeeps == ASSUME IssIInv, NEW i \in Program, IssueStalled(i) PROVE IssIInv'
<1>1. Shape /\ Phases
  BY DEF IssIInv
<1>2. /\ Still /\ wfi' = wfi /\ queue' = queue /\ first_task' = first_task /\ todo' = todo
      /\ phase = "issue" /\ phase' = "end" /\ instr_disabled' = instr_disabled
      /\ pending_interrupt' = pending_interrupt /\ Stall
      /\ io_req_denied' = io_req_denied /\ pending_fence' = pending_fence /\ owes' = owes
  BY DEF IssueStalled, Issuing, Still, svars, lvars
<1>3. Tasks' = Tasks
  BY <1>2 DEF Tasks
<1>4. /\ Parts' /\ Masks' /\ Landed' /\ FreeOnce' /\ TasksOnce' /\ QueueOnce'
      /\ Entries' = Entries /\ Program' = Program
  BY <1>2, <1>3, StillKeeps
<1>5. Phases'
  BY <1>1, <1>2, IssuedPhases DEF Phases
<1>6. Shape'
  <2>1. current_insn' \in Program' /\ stall_cycles' \in Nat
    BY <1>1, <1>2, <1>4, StallShape
  <2>2. /\ wfi' \in BOOLEAN /\ instr_disabled' \in BOOLEAN /\ io_req_denied' \in BOOLEAN
        /\ pending_fence' \in BOOLEAN /\ owes' \in BOOLEAN /\ queue' \in Seq(Slots)
    BY <1>1, <1>2 DEF Shape, Slots
  <2> QED
    BY <1>1, <1>2, <1>4, <2>1, <2>2, IssuedShape
<1> QED
  BY <1>4, <1>5, <1>6 DEF IssIInv

LEMMA IssueDeniedKeeps == ASSUME IssIInv, NEW i \in Program, IssueDenied(i) PROVE IssIInv'
<1>1. Shape /\ Phases
  BY DEF IssIInv
<1>2. /\ Still /\ wfi' = wfi /\ queue' = queue /\ first_task' = first_task /\ todo' = todo
      /\ phase = "issue" /\ phase' = "end" /\ instr_disabled' = instr_disabled
      /\ pending_interrupt' = pending_interrupt /\ Stall
      /\ io_req_denied' = TRUE /\ pending_fence' = pending_fence /\ owes' = TRUE
  BY DEF IssueDenied, Issuing, Still, svars
<1>3. Tasks' = Tasks
  BY <1>2 DEF Tasks
<1>4. /\ Parts' /\ Masks' /\ Landed' /\ FreeOnce' /\ TasksOnce' /\ QueueOnce'
      /\ Entries' = Entries /\ Program' = Program
  BY <1>2, <1>3, StillKeeps
<1>5. Phases'
  BY <1>1, <1>2, IssuedPhases DEF Phases
<1>6. Shape'
  <2>1. current_insn' \in Program' /\ stall_cycles' \in Nat
    BY <1>1, <1>2, <1>4, StallShape
  <2>2. /\ wfi' \in BOOLEAN /\ instr_disabled' \in BOOLEAN /\ io_req_denied' \in BOOLEAN
        /\ pending_fence' \in BOOLEAN /\ owes' \in BOOLEAN /\ queue' \in Seq(Slots)
    BY <1>1, <1>2 DEF Shape, Slots
  <2> QED
    BY <1>1, <1>2, <1>4, <2>1, <2>2, IssuedShape
<1> QED
  BY <1>4, <1>5, <1>6 DEF IssIInv

LEMMA IssueAluKeeps == ASSUME IssIInv, NEW i \in Program, IssueAlu(i) PROVE IssIInv'
<1>1. Shape /\ Phases
  BY DEF IssIInv
<1>2. /\ Still /\ wfi' = wfi /\ queue' = Follow(queue) /\ first_task' = first_task /\ todo' = todo
      /\ phase = "issue" /\ phase' = "end" /\ instr_disabled' = instr_disabled
      /\ pending_interrupt' = pending_interrupt /\ Complete(i)
      /\ io_req_denied' = io_req_denied /\ pending_fence' = pending_fence /\ owes' = owes
  BY DEF IssueAlu, Issuing, Still, lvars
<1>3. Tasks' = Tasks
  BY <1>2 DEF Tasks
<1>4. /\ Parts' /\ Masks' /\ Landed' /\ FreeOnce' /\ TasksOnce' /\ QueueOnce'
      /\ Entries' = Entries /\ Program' = Program /\ queue' \in Seq(Slots)
  BY <1>2, <1>3, StillKeeps
<1>5. Phases'
  BY <1>1, <1>2, IssuedPhases DEF Phases
<1>6. Shape'
  <2>1. current_insn' \in Program' /\ stall_cycles' \in Nat
    BY <1>1, <1>2, <1>4, CompleteShape
  <2>2. /\ wfi' \in BOOLEAN /\ instr_disabled' \in BOOLEAN /\ io_req_denied' \in BOOLEAN
        /\ pending_fence' \in BOOLEAN /\ owes' \in BOOLEAN
    BY <1>1, <1>2 DEF Shape
  <2> QED
    BY <1>1, <1>2, <1>4, <2>1, <2>2, IssuedShape
<1> QED
  BY <1>4, <1>5, <1>6 DEF IssIInv

LEMMA IssueFenceKeeps == ASSUME IssIInv, NEW i \in Program, IssueFence(i) PROVE IssIInv'
<1>1. Shape /\ Phases
  BY DEF IssIInv
<1>2. /\ Still /\ wfi' = wfi /\ first_task' = first_task /\ todo' = todo
      /\ phase = "issue" /\ phase' = "end" /\ instr_disabled' = instr_disabled
      /\ pending_interrupt' = pending_interrupt /\ (Complete(i) \/ Stall)
      /\ io_req_denied' = io_req_denied /\ pending_fence' \in BOOLEAN /\ owes' = owes
      /\ queue' = queue \/ queue' = Follow(queue)
  BY DEF IssueFence, Issuing, Still
<1>3. Tasks' = Tasks
  BY <1>2 DEF Tasks
<1>4. /\ Parts' /\ Masks' /\ Landed' /\ FreeOnce' /\ TasksOnce'
      /\ Entries' = Entries /\ Program' = Program
  BY <1>2, <1>3, StillKeeps
<1>5. QueueOnce' /\ queue' \in Seq(Slots)
  <2>1. CASE queue' = queue
    BY <1>1, <1>2, <2>1, StillKeeps, ShapeParts
  <2>2. CASE queue' = Follow(queue)
    BY <1>2, <2>2, StillKeeps
  <2> QED
    BY <1>2, <2>1, <2>2
<1>6. Phases'
  BY <1>1, <1>2, IssuedPhases DEF Phases
<1>7. Shape'
  <2>1. current_insn' \in Program' /\ stall_cycles' \in Nat
    BY <1>1, <1>2, <1>4, CompleteShape, StallShape
  <2>2. /\ wfi' \in BOOLEAN /\ instr_disabled' \in BOOLEAN /\ io_req_denied' \in BOOLEAN
        /\ pending_fence' \in BOOLEAN /\ owes' \in BOOLEAN
    BY <1>1, <1>2 DEF Shape
  <2> QED
    BY <1>1, <1>2, <1>4, <1>5, <2>1, <2>2, IssuedShape
<1> QED
  BY <1>4, <1>6, <1>7, <1>5 DEF IssIInv

LEMMA IssueWfiKeeps == ASSUME IssIInv, NEW i \in Program, IssueWfi(i) PROVE IssIInv'
<1>1. Shape /\ Phases /\ QueueOnce
  BY DEF IssIInv
<1>2. /\ Still /\ first_task' = first_task /\ todo' = todo
      /\ phase = "issue" /\ phase' = "end"
      /\ pending_interrupt' = pending_interrupt /\ Complete(i)
      /\ io_req_denied' = io_req_denied /\ pending_fence' = pending_fence /\ owes' = owes
      /\ wfi' = ~pending_interrupt
      /\ instr_disabled' = (wfi' /\ (instr_disabled \/ first_task = <<>>))
      /\ queue' = IF wfi' THEN Append(queue, Wfi) ELSE Follow(queue)
  BY DEF IssueWfi, Issuing, Still, lvars, RetainCheck, InsnHold
<1>3. Tasks' = Tasks
  BY <1>2 DEF Tasks
<1>4. /\ Parts' /\ Masks' /\ Landed' /\ FreeOnce' /\ TasksOnce'
      /\ Entries' = Entries /\ Program' = Program /\ InFlight' = InFlight
  BY <1>2, <1>3, StillKeeps
<1>5. ~wfi /\ todo = <<>> /\ wfi \in BOOLEAN /\ wfi' \in BOOLEAN
  BY <1>1, <1>2 DEF Phases, Shape
<1>6. QueueOnce' /\ queue' \in Seq(Slots)
  <2>1. CASE wfi'
    <3>1. queue' = Append(queue, Wfi) /\ Absent(queue, Wfi) /\ Wfi \in Slots
      BY <1>1, <1>2, <1>5, <2>1 DEF QueueOnce, Slots
    <3>2. /\ queue' \in Seq(Slots) /\ Once(queue', Wfi)
          /\ \A x : x # Wfi => Same(queue', queue, x)
      BY <1>1, <3>1, QueueAppend
    <3>3. \A e \in Entries : IF e \in InFlight' THEN Once(queue', e) ELSE Absent(queue', e)
      BY <1>1, <1>4, <3>2, Distinct DEF QueueOnce, Same
    <3> QED
      BY <1>4, <2>1, <3>2, <3>3 DEF QueueOnce
  <2>2. CASE ~wfi'
    <3>1. wfi' = wfi /\ queue' = Follow(queue)
      BY <1>2, <1>5, <2>2
    <3> QED
      BY <1>2, <3>1, StillKeeps
  <2> QED
    BY <2>1, <2>2
<1>7. Phases'
  <2>1. first_task \in Seq(Items)
    BY <1>1, ShapeParts
  <2>2. Tasks = first_task
    BY <1>5, <2>1 DEF Tasks
  <2> QED
    BY <1>2, <1>3, <1>5, <2>2 DEF Phases, Quiet
<1>8. Shape'
  <2>1. current_insn' \in Program' /\ stall_cycles' \in Nat
    BY <1>1, <1>2, <1>4, CompleteShape
  <2>2. /\ wfi' \in BOOLEAN /\ instr_disabled' \in BOOLEAN /\ io_req_denied' \in BOOLEAN
        /\ pending_fence' \in BOOLEAN /\ owes' \in BOOLEAN
    BY <1>1, <1>2, <1>5 DEF Shape
  <2> QED
    BY <1>1, <1>2, <1>4, <1>6, <2>1, <2>2, IssuedShape
<1> QED
  BY <1>4, <1>7, <1>8, <1>6 DEF IssIInv

(* An access that is sent and accepted.                                    *)
LEMMA IssueAccessKeeps ==
    ASSUME IssIInv, SplitServed, NEW i \in Program, NEW e \in Entries, IssueAccess(i, e)
    PROVE  IssIInv'
<1>1. Shape /\ Parts /\ Masks /\ Landed /\ QueueOnce /\ FreeOnce /\ TasksOnce /\ Phases
  BY DEF IssIInv
<1>2. /\ phase = "issue" /\ phase' = "end" /\ Complete(i) /\ ~Blocked(i)
      /\ req_entry_first # <<>> /\ e = Head(req_entry_first)
      /\ platform' = platform /\ pending_interrupt' = pending_interrupt /\ todo' = todo
      /\ wfi' = wfi /\ instr_disabled' = instr_disabled /\ unblock_slot' = unblock_slot
      /\ landed' = landed /\ io_req_denied' = io_req_denied /\ pending_fence' = pending_fence
      /\ next_retire_cycle' = next_retire_cycle
  BY DEF IssueAccess, Issuing
<1>3. PICK en \in DataReqAligned(Prepare(entry[e], i)) :
         /\ entry' = [entry EXCEPT ![e] = Misaligned(en, i)]
         /\ req_entry_first' = FreeIf(en.st = "free", e, Tail(req_entry_first))
         /\ first_task' = EnqueueIf(en.st = "task", e, first_task)
         /\ owes' = (owes \/ en.st = "denied")
         /\ queue' = IF en.st = "free" THEN Follow(queue) ELSE InsnHold(queue, e)
         /\ sb_reg_invalid' = IF en.st = "free" THEN sb_reg_invalid ELSE sb_reg_invalid \cup i.out
  BY DEF IssueAccess
<1>4. e \notin InFlight /\ entry[e].st = "free"
  <2>1. req_entry_first \in Seq(Entries)
    BY <1>1, ShapeParts
  <2>2. PICK tail : tail = Tail(req_entry_first)
    OBVIOUS
  <2>3. req_entry_first # <<>> /\ e = Head(req_entry_first)
    BY <1>2
  <2>4. ~Absent(req_entry_first, e)
    BY ONLY <2>1, <2>2, <2>3, Popped
  <2> QED
    BY <1>1, <2>4 DEF FreeOnce, InFlight
<1>5. PICK m : m = Misaligned(en, i)
  OBVIOUS
<1>6. /\ m \in Entry /\ m.st = en.st /\ m.st \in {"free", "slave", "task"}
      /\ m.st = "free" => m.out = {}
      /\ m.st # "free" => m.out = i.out
      /\ m.left = IF m.second THEN 1 ELSE 0
      /\ m.second => m.st # "free" /\ platform.split
  BY ONLY <1>1, <1>3, <1>4, <1>5, SplitServed, FirstSent, e \in Entries, i \in Program
<1>a. entry' = [entry EXCEPT ![e] = m]
  BY <1>3, <1>5
<1>7. /\ Entries' = Entries
      /\ entry' \in [Entries -> Entry]
      /\ entry'[e] = m
      /\ \A f \in Entries : f # e => entry'[f] = entry[f]
      /\ m.st = "free" => InFlight' = InFlight \ {e}
      /\ m.st # "free" => InFlight' = InFlight \cup {e}
  BY ONLY <1>1, <1>2, <1>a, <1>6, OneEntry, e \in Entries
<1>b. Program' = Program
  BY <1>2 DEF Program
<1>8. Parts'
  BY <1>1, <1>2, <1>6, <1>7 DEF Parts
<1>9. Landed'
  BY <1>1, <1>2, LandedFrame
<1>10. i.out \in SUBSET Outs /\ i.out \cap sb_reg_invalid = {}
  BY <1>2, ProgramOuts DEF Blocked, Regs
<1>11. ASSUME m.st = "free"
       PROVE  /\ Masks' /\ QueueOnce' /\ FreeOnce' /\ TasksOnce'
              /\ queue' \in Seq(Slots) /\ req_entry_first' \in Seq(Entries)
              /\ first_task' \in Seq(Items) /\ sb_reg_invalid' \subseteq Outs
  <2>1. InFlight' = InFlight
    BY <1>4, <1>7, <1>11
  <2>2. sb_reg_invalid' = sb_reg_invalid /\ queue' = Follow(queue) /\ first_task' = first_task
    BY <1>3, <1>6, <1>11 DEF EnqueueIf
  <2>3. req_entry_first' = req_entry_first
    <3>1. req_entry_first' = <<e>> \o Tail(req_entry_first)
      BY <1>3, <1>6, <1>11 DEF FreeIf
    <3>2. req_entry_first \in Seq(Entries)
      BY <1>1, ShapeParts
    <3> QED
      BY ONLY <1>2, <3>1, <3>2
  <2>4. Masks'
    <3>1. \A f \in InFlight : entry'[f].out = entry[f].out
      BY <1>4, <1>7 DEF InFlight
    <3> QED
      BY <1>1, <1>2, <2>1, <2>2, <3>1, MasksSame
  <2>5. QueueOnce' /\ queue' \in Seq(Slots)
    <3>1. queue' \in Seq(Slots) /\ \A x : x # Ready => Same(queue', queue, x)
      BY <1>1, <2>2, QueueFollows
    <3> QED
      BY <1>1, <1>2, <2>1, <3>1, QueueFrame
  <2>6. FreeOnce' /\ req_entry_first' \in Seq(Entries)
    BY <1>1, <1>2, <2>1, <2>3, FreeFrame, ShapeParts
  <2>7. Tasks' = Tasks
    BY <1>2, <2>2 DEF Tasks
  <2>8. TasksOnce'
    <3>1. \A x : Same(Tasks', Tasks, x)
      BY <2>7, SameItself
    <3>2. \A f \in Entries : entry'[f].st = "task" <=> entry[f].st = "task"
      BY <1>4, <1>7, <1>11
    <3> QED
      BY <1>1, <1>2, <3>1, <3>2, TasksFrame
  <2>9. first_task' \in Seq(Items) /\ sb_reg_invalid' \subseteq Outs
    BY <1>1, <2>2, ShapeParts
  <2> QED
    BY <2>4, <2>5, <2>6, <2>8, <2>9
<1>12. ASSUME m.st # "free"
       PROVE  /\ Masks' /\ QueueOnce' /\ FreeOnce' /\ TasksOnce'
              /\ queue' \in Seq(Slots) /\ req_entry_first' \in Seq(Entries)
              /\ first_task' \in Seq(Items) /\ sb_reg_invalid' \subseteq Outs
  <2>1. InFlight' = InFlight \cup {e}
    BY <1>7, <1>12
  <2>2. sb_reg_invalid' = sb_reg_invalid \cup i.out /\ queue' = Append(queue, e)
    BY <1>3, <1>6, <1>12 DEF InsnHold
  <2>3. req_entry_first' = Tail(req_entry_first)
    BY <1>3, <1>6, <1>12 DEF FreeIf
  <2>4. Masks'
    <3>1. \A f \in InFlight : entry'[f].out = entry[f].out /\ f # e
      BY <1>4, <1>7 DEF InFlight
    <3>2. entry'[e].out = i.out
      BY <1>6, <1>7, <1>12
    <3>4. sb_reg_invalid = AllOuts(entry, InFlight) \cup unblock_slot.mask
      BY <1>1, Apart
    <3>5. AllOuts(entry', InFlight') = AllOuts(entry, InFlight) \cup i.out
      <4>1. PICK g, w : g = entry' /\ w = InFlight'
        OBVIOUS
      <4>2. e \in w /\ InFlight = w \ {e} /\ \A f \in InFlight : entry[f].out = g[f].out
        BY <1>4, <2>1, <3>1, <4>1
      <4>3. Without(entry, InFlight, g, w, e)
        BY ONLY <4>2 DEF Without
      <4>4. PICK out : out = i.out
        OBVIOUS
      <4>5. out = g[e].out
        BY ONLY <3>2, <4>1, <4>4
      <4>6. AllOuts(g, w) = AllOuts(entry, InFlight) \cup out
        BY ONLY <4>3, <4>5, OutsWithout
      <4> QED
        BY ONLY <4>1, <4>4, <4>6
    <3>6. ScoreboardExact'
      <4>1. /\ unblock_slot' = unblock_slot /\ sb_reg_invalid' = sb_reg_invalid \cup i.out
        BY <1>2, <2>2
      <4>2. sb_reg_invalid' = AllOuts(entry', InFlight') \cup unblock_slot'.mask
        BY ONLY <3>4, <3>5, <4>1
      <4> QED
        BY ONLY <4>2, Scoreboard
    <3>7. \A f \in InFlight : entry[f].out \subseteq sb_reg_invalid
      BY <3>4, AllOutsIs
    <3>8. \A f, g \in InFlight' : f # g => entry'[f].out \cap entry'[g].out = {}
      BY <1>1, <1>10, <2>1, <3>1, <3>2, <3>7 DEF Masks
    <3>9. \A f \in InFlight' : entry'[f].out \cap unblock_slot'.mask = {}
      BY <1>1, <1>2, <1>10, <2>1, <3>1, <3>2, <3>4 DEF Masks
    <3> QED
      BY <3>6, <3>8, <3>9 DEF Masks
  <2>5. QueueOnce' /\ queue' \in Seq(Slots)
    BY <1>1, <1>2, <1>4, <1>7, <2>1, <2>2, QueueJoins
  <2>6. FreeOnce' /\ req_entry_first' \in Seq(Entries)
    BY <1>1, <1>2, <1>4, <1>7, <2>1, <2>3, FreeTaken
  <2>7. /\ first_task' \in Seq(Items)
        /\ IF m.st = "task" THEN Once(Tasks', e) ELSE Absent(Tasks', e)
        /\ \A x : x # e => Same(Tasks', Tasks, x)
    <3>0. Absent(Tasks, e)
      BY <1>1, <1>4 DEF TasksOnce
    <3>1. PICK t, rest : t = todo /\ rest = first_task \o t
      OBVIOUS
    <3>2. t \in Seq(Items) /\ todo' = t /\ rest = Tasks
      BY <1>1, <1>2, <3>1, ShapeParts DEF Tasks
    <3>3. CASE m.st = "task"
      <4>1. first_task' = <<e>> \o first_task /\ e \in Items
        BY <1>3, <1>6, <3>3 DEF EnqueueIf, Items
      <4>2. /\ first_task' \in Seq(Items)
            /\ Absent(rest, e) => Once(Tasks', e)
            /\ \A x : x # e => Same(Tasks', rest, x)
        BY <1>1, <3>1, <3>2, <4>1, TasksBecome
      <4> QED
        BY <3>0, <3>2, <3>3, <4>2
    <3>4. CASE m.st # "task"
      <4>1. first_task' = first_task
        BY <1>3, <1>6, <3>4 DEF EnqueueIf
      <4>2. Tasks' = Tasks
        BY <1>2, <4>1 DEF Tasks
      <4> QED
        BY <1>1, <3>0, <3>4, <4>1, <4>2, SameItself, ShapeParts
    <3> QED
      BY <3>3, <3>4
  <2>8. TasksOnce'
    <3>1. ASSUME NEW f \in Entries
          PROVE  IF entry'[f].st = "task" THEN Once(Tasks', f) ELSE Absent(Tasks', f)
      BY <1>1, <1>7, <2>7 DEF TasksOnce, Same
    <3>2. Unblock # e
      BY <1>1, Distinct
    <3>3. /\ Once(Tasks', Unblock) \/ Absent(Tasks', Unblock)
          /\ unblock_slot'.mask # {} => Once(Tasks', Unblock)
      BY <1>1, <1>2, <2>7, <3>2 DEF TasksOnce, Same
    <3> QED
      BY <1>7, <3>1, <3>3 DEF TasksOnce
  <2>9. sb_reg_invalid' \subseteq Outs
    BY <1>1, <1>10, <2>2 DEF Shape
  <2> QED
    BY <2>4, <2>5, <2>6, <2>7, <2>8, <2>9
<1>13. /\ Masks' /\ QueueOnce' /\ FreeOnce' /\ TasksOnce'
       /\ queue' \in Seq(Slots) /\ req_entry_first' \in Seq(Entries)
       /\ first_task' \in Seq(Items) /\ sb_reg_invalid' \subseteq Outs
  BY <1>11, <1>12
<1>14. Phases'
  <2>1. ~wfi' /\ ~instr_disabled'
    BY <1>1, <1>2 DEF Phases
  <2> QED
    BY <1>2, <2>1, IssuedPhases
<1>15. Shape'
  <2>1. current_insn' \in Program' /\ stall_cycles' \in Nat
    BY <1>1, <1>2, <1>b, CompleteShape
  <2>2. owes' \in BOOLEAN
    BY <1>3
  <2> QED
    BY <1>1, <1>2, <1>7, <1>b, <1>13, <2>1, <2>2 DEF Shape, Items, Slots
<1> QED
  BY <1>8, <1>9, <1>13, <1>14, <1>15 DEF IssIInv

----------------------------------------------------------------------------
(* Callbacks, the interrupt lines and the clock.                           *)

LEMMA DataRetryKeeps == ASSUME IssIInv, DataRetry PROVE IssIInv'
<1>1. Shape /\ Phases
  BY DEF IssIInv
<1>2. /\ Still /\ wfi' = wfi /\ queue' = queue /\ first_task' = first_task /\ todo' = todo
      /\ phase' = phase /\ instr_disabled' = instr_disabled /\ stall_cycles' = stall_cycles
      /\ current_insn' = current_insn /\ pending_interrupt' = pending_interrupt
      /\ io_req_denied' = FALSE /\ pending_fence' = pending_fence /\ owes' = FALSE
  BY DEF DataRetry, Still, evars, svars
<1>3. Tasks' = Tasks
  BY <1>2 DEF Tasks
<1>4. /\ Parts' /\ Masks' /\ Landed' /\ FreeOnce' /\ TasksOnce' /\ QueueOnce'
      /\ Entries' = Entries /\ Program' = Program
  BY <1>2, <1>3, StillKeeps
<1>5. Phases'
  BY <1>1, <1>2, <1>3 DEF Phases, Quiet
<1>6. Shape'
  BY <1>1, <1>2, <1>4 DEF Shape, Still
<1> QED
  BY <1>4, <1>5, <1>6 DEF IssIInv

LEMMA CheckInterruptsKeeps == ASSUME IssIInv, CheckInterrupts PROVE IssIInv'
<1>1. Shape /\ Phases /\ QueueOnce
  BY DEF IssIInv
<1>2. /\ Still /\ first_task' = first_task /\ todo' = todo /\ Quiet
      /\ phase' = phase /\ stall_cycles' = stall_cycles
      /\ current_insn' = current_insn /\ pending_interrupt' = ~pending_interrupt
      /\ io_req_denied' = io_req_denied /\ pending_fence' = pending_fence /\ owes' = owes
      /\ wfi' = (wfi /\ ~pending_interrupt')
      /\ instr_disabled' = (instr_disabled /\ wfi')
      /\ queue' = IF wfi /\ ~wfi' THEN InsnTerminate(queue, Wfi) ELSE queue
  BY DEF CheckInterrupts, Still, lvars
<1>3. Tasks' = Tasks
  BY <1>2 DEF Tasks
<1>4. /\ Parts' /\ Masks' /\ Landed' /\ FreeOnce' /\ TasksOnce'
      /\ Entries' = Entries /\ Program' = Program /\ InFlight' = InFlight
  BY <1>2, <1>3, StillKeeps
<1>5. Phases'
  BY <1>1, <1>2, <1>3 DEF Phases, Quiet
<1>6. QueueOnce' /\ queue' \in Seq(Slots)
  <2>1. CASE wfi /\ ~wfi'
    <3>1. queue' = InsnTerminate(queue, Wfi) /\ Once(queue, Wfi) /\ Wfi \in Slots /\ Wfi # Ready
      BY <1>1, <1>2, <2>1 DEF QueueOnce, Slots, Wfi, Ready
    <3>2. /\ queue' \in Seq(Slots) /\ Absent(queue', Wfi)
          /\ \A x : x # Ready /\ x # Wfi => Same(queue', queue, x)
      BY <1>1, <3>1, QueueTerminate
    <3>3. \A e \in Entries : IF e \in InFlight' THEN Once(queue', e) ELSE Absent(queue', e)
      BY <1>1, <1>4, <3>2, Distinct DEF QueueOnce, Same
    <3> QED
      BY <1>4, <2>1, <3>2, <3>3 DEF QueueOnce
  <2>2. CASE ~(wfi /\ ~wfi')
    <3>1. wfi' = wfi /\ queue' = queue
      BY <1>1, <1>2, <2>2 DEF Shape
    <3> QED
      BY <1>1, <1>2, <3>1, StillKeeps, ShapeParts
  <2> QED
    BY <2>1, <2>2
<1>7. Shape'
  <2>1. wfi' \in BOOLEAN /\ instr_disabled' \in BOOLEAN /\ pending_interrupt' \in BOOLEAN
    BY <1>1, <1>2 DEF Shape
  <2> QED
    BY <1>1, <1>2, <1>4, <1>6, <2>1 DEF Shape, Still, Slots
<1> QED
  BY <1>4, <1>5, <1>6, <1>7 DEF IssIInv

LEMMA TickKeeps == ASSUME IssIInv, Tick PROVE IssIInv'
<1>1. Shape /\ Parts /\ Masks /\ Landed /\ QueueOnce /\ FreeOnce /\ TasksOnce /\ Phases
  BY DEF IssIInv
<1>2. /\ phase \in {"start", "end"} /\ phase' = "start" /\ landed' = {}
      /\ entry' = [e \in Entries |-> [entry[e] EXCEPT !.timestamp = Sooner(@)]]
      /\ next_retire_cycle' = Sooner(next_retire_cycle)
      /\ unblock_slot' = [unblock_slot EXCEPT !.due = Sooner(@)]
      /\ platform' = platform /\ current_insn' = current_insn
      /\ pending_interrupt' = pending_interrupt /\ first_task' = first_task /\ todo' = todo
      /\ stall_cycles' = stall_cycles /\ wfi' = wfi /\ instr_disabled' = instr_disabled
      /\ sb_reg_invalid' = sb_reg_invalid /\ queue' = queue
      /\ req_entry_first' = req_entry_first /\ io_req_denied' = io_req_denied
      /\ pending_fence' = pending_fence /\ owes' = owes
  BY DEF Tick
<1>3. Entries' = Entries /\ Program' = Program
  BY <1>2 DEF Entries, Program
<1>4. ASSUME NEW e \in Entries
      PROVE  /\ entry'[e] \in Entry /\ entry'[e].st = entry[e].st /\ entry'[e].out = entry[e].out
             /\ entry'[e].second = entry[e].second /\ entry'[e].left = entry[e].left
  <2>1. entry[e] \in Entry /\ entry'[e] = [entry[e] EXCEPT !.timestamp = Sooner(@)]
    BY <1>1, <1>2 DEF Shape
  <2>2. Sooner(entry[e].timestamp) \in Nat
    BY <2>1 DEF Sooner, Entry
  <2> QED
    BY <2>1, <2>2 DEF Entry
<1>5. entry' \in [Entries -> Entry]
  BY <1>2, <1>4
<1>6. InFlight' = InFlight
  BY <1>3, <1>4 DEF InFlight
<1>7. unblock_slot'.mask = unblock_slot.mask /\ unblock_slot' \in [mask : SUBSET Outs, due : {0, 1}]
  <2>1. unblock_slot \in [mask : SUBSET Outs, due : {0, 1}]
    BY <1>1 DEF Shape
  <2>2. Sooner(unblock_slot.due) \in {0, 1}
    BY <2>1 DEF Sooner
  <2> QED
    BY <1>2, <2>1, <2>2
<1>8. Parts'
  BY <1>1, <1>2, <1>3, <1>4 DEF Parts
<1>9. Masks'
  <2>1. \A f \in InFlight : entry'[f].out = entry[f].out
    BY <1>4 DEF InFlight
  <2> QED
    BY <1>1, <1>2, <1>6, <1>7, <2>1, MasksSame
<1>10. Landed'
  BY <1>2 DEF Landed
<1>11. QueueOnce'
  BY <1>1, <1>2, <1>6, QueueFrame, SameItself
<1>12. FreeOnce'
  BY <1>1, <1>2, <1>6, FreeFrame
<1>13. TasksOnce'
  <2>1. Tasks' = Tasks
    BY <1>2 DEF Tasks
  <2>2. \A x : Same(Tasks', Tasks, x)
    BY <2>1, SameItself
  <2>3. \A e \in Entries : entry'[e].st = "task" <=> entry[e].st = "task"
    BY <1>4
  <2> QED
    BY <1>1, <1>2, <1>7, <2>2, <2>3, TasksFrame
<1>14. Phases'
  <2>1. Tasks' = Tasks
    BY <1>2 DEF Tasks
  <2> QED
    BY <1>1, <1>2, <2>1 DEF Phases, Quiet
<1>15. Shape'
  <2>1. next_retire_cycle' \in Nat
    BY <1>1, <1>2 DEF Shape, Sooner
  <2> QED
    BY <1>1, <1>2, <1>3, <1>5, <1>7, <2>1 DEF Shape
<1> QED
  BY <1>8, <1>9, <1>10, <1>11, <1>12, <1>13, <1>14, <1>15 DEF IssIInv

LEMMA StutterKeeps == ASSUME IssIInv, UNCHANGED IssVars PROVE IssIInv'
<1>1. Shape /\ Phases
  BY DEF IssIInv
<1>2. /\ Still /\ wfi' = wfi /\ queue' = queue /\ first_task' = first_task /\ todo' = todo
      /\ phase' = phase /\ instr_disabled' = instr_disabled /\ stall_cycles' = stall_cycles
      /\ current_insn' = current_insn /\ pending_interrupt' = pending_interrupt
      /\ io_req_denied' = io_req_denied /\ pending_fence' = pending_fence /\ owes' = owes
  BY DEF IssVars, Still, evars, svars, lvars
<1>3. Tasks' = Tasks
  BY <1>2 DEF Tasks
<1>4. /\ Parts' /\ Masks' /\ Landed' /\ FreeOnce' /\ TasksOnce' /\ QueueOnce'
      /\ Entries' = Entries /\ Program' = Program
  BY <1>2, <1>3, StillKeeps
<1>5. Phases'
  BY <1>1, <1>2, <1>3 DEF Phases, Quiet
<1>6. Shape'
  BY <1>1, <1>2, <1>4 DEF Shape, Still
<1> QED
  BY <1>4, <1>5, <1>6 DEF IssIInv

LEMMA NextKeeps == ASSUME IssIInv, SplitServed, [IssNext]_IssVars PROVE IssIInv'
<1>1. CASE InstrEvent
  <2>1. CASE Begin
    BY <2>1, BeginKeeps
  <2>2. CASE TaskUnblock
    BY <2>2, TaskUnblockKeeps
  <2>3. CASE \E e \in Entries : TaskHandle(e)
    BY <2>3, TaskHandleKeeps
  <2>4. CASE TasksDone
    BY <2>4, TasksDoneKeeps
  <2>5. CASE Issue
    <3>1. PICK i \in Program :
             \/ IssueStalled(i) \/ IssueDenied(i) \/ IssueAlu(i) \/ IssueFence(i) \/ IssueWfi(i)
             \/ \E e \in Entries : IssueAccess(i, e)
      BY <2>5 DEF Issue
    <3> QED
      BY <3>1, IssueStalledKeeps, IssueDeniedKeeps, IssueAccessKeeps, IssueAluKeeps,
         IssueFenceKeeps, IssueWfiKeeps
  <2> QED
    BY <1>1, <2>1, <2>2, <2>3, <2>4, <2>5 DEF InstrEvent
<1>2. CASE \E e \in Entries : DataResponse(e)
  BY <1>2, DataResponseKeeps
<1>3. CASE DataRetry
  BY <1>3, DataRetryKeeps
<1>4. CASE CheckInterrupts
  BY <1>4, CheckInterruptsKeeps
<1>5. CASE Tick
  BY <1>5, TickKeeps
<1>6. CASE UNCHANGED IssVars
  BY <1>6, StutterKeeps
<1> QED
  BY <1>1, <1>2, <1>3, <1>4, <1>5, <1>6 DEF IssNext

----------------------------------------------------------------------------
(* What IssCore promises follows from the invariant.                       *)

LEMMA CountOnce ==
    ASSUME NEW q, NEW x, NEW at, at = {i \in DOMAIN q : q[i] = x}
    PROVE  (Once(q, x) => Cardinality(at) = 1) /\ (Absent(q, x) => at = {} /\ Cardinality(at) = 0)
<1>1. ASSUME Once(q, x) PROVE Cardinality(at) = 1
  <2>1. PICK i : at = {i}
    BY <1>1 DEF Once
  <2> QED
    BY <2>1, FS_Singleton
<1>2. ASSUME Absent(q, x) PROVE at = {}
  BY <1>2 DEF Absent
<1> QED
  BY <1>1, <1>2, FS_EmptySet

(* The entries that are not free are those that are not in the list.       *)
LEMMA InFlightCount ==
    ASSUME Shape, FreeOnce
    PROVE  IsFiniteSet(InFlight) /\ Cardinality(InFlight) = nb_pending_accesses
<1>1. platform.nb \in Nat /\ Len(req_entry_first) \in Nat
  <2>1. platform \in Platforms /\ req_entry_first \in Seq(Entries)
    BY DEF Shape
  <2>2. platform.nb \in Nat
    BY <2>1, IssCoreAssumption DEF IssCoreAssumption
  <2>3. Len(req_entry_first) \in Nat
    BY ONLY <2>1
  <2> QED
    BY <2>2, <2>3
<1>2. PICK n \in Nat, k \in Nat : n = platform.nb /\ k = Len(req_entry_first)
  BY ONLY <1>1
<1>3. PICK all, idle, busy : all = Entries /\ idle = Entries \ InFlight /\ busy = InFlight
  OBVIOUS
<1>4. all = 1 .. n
  BY <1>2, <1>3 DEF Entries
<1>5. IsFiniteSet(all) /\ Cardinality(all) = n
  <2>1. 1 \in Int /\ n \in Int
    OBVIOUS
  <2>2. /\ IsFiniteSet(1 .. n)
        /\ Cardinality(1 .. n) = IF 1 > n THEN 0 ELSE n - 1 + 1
    BY ONLY <2>1, FS_Interval
  <2> QED
    BY ONLY <1>4, <2>2, n \in Nat
<1>6. busy \in SUBSET all /\ idle \in SUBSET all /\ busy \cup idle = all /\ busy \cap idle = {}
  BY <1>3 DEF InFlight
<1>7. PICK doms, f : doms = 1 .. k /\ f = req_entry_first
  OBVIOUS
<1>8. f \in Bijection(doms, idle)
  <2>1. f \in [doms -> all]
    BY <1>2, <1>3, <1>7 DEF Shape
  <2>2. ASSUME NEW i \in doms PROVE f[i] \in idle
    <3>1. f[i] \in Entries /\ ~Absent(f, f[i])
      BY <1>3, <2>1 DEF Absent
    <3> QED
      BY <1>3, <1>7, <3>1 DEF FreeOnce
  <2>3. ASSUME NEW e \in idle PROVE Once(f, e)
    BY <1>3, <1>7 DEF FreeOnce
  <2>4. f \in [doms -> idle]
    BY <2>1, <2>2
  <2>5. \A a, b \in doms : f[a] = f[b] => a = b
    BY <2>1, <2>2, <2>3 DEF Once
  <2>6. \A e \in idle : \E a \in doms : f[a] = e
    BY <2>1, <2>3 DEF Once
  <2>7. f \in Injection(doms, idle)
    BY ONLY <2>4, <2>5 DEF Injection, IsInjective
  <2>8. f \in Surjection(doms, idle)
    BY ONLY <2>4, <2>6 DEF Surjection
  <2> QED
    BY ONLY <2>7, <2>8 DEF Bijection
<1>9. Cardinality(idle) = k
  <2>1. /\ IsFiniteSet(doms)
        /\ Cardinality(doms) = IF 1 > k THEN 0 ELSE k - 1 + 1
    <3>1. 1 \in Int /\ k \in Int
      OBVIOUS
    <3>2. /\ IsFiniteSet(1 .. k)
          /\ Cardinality(1 .. k) = IF 1 > k THEN 0 ELSE k - 1 + 1
      BY ONLY <3>1, FS_Interval
    <3> QED
      BY ONLY <1>7, <3>2
  <2>2. ExistsBijection(doms, idle)
    BY <1>8 DEF ExistsBijection
  <2>3. Cardinality(idle) = Cardinality(doms)
    BY ONLY <2>1, <2>2, FS_Bijection
  <2> QED
    BY ONLY <2>1, <2>3, k \in Nat
<1>10. IsFiniteSet(busy) /\ IsFiniteSet(idle)
  BY ONLY <1>5, <1>6, FS_Subset
<1>11. Cardinality(busy) \in Nat
  BY ONLY <1>10, FS_CardinalityType
<1>12. Cardinality(busy \cup idle) = Cardinality(busy) + Cardinality(idle) - Cardinality(busy \cap idle)
  BY ONLY <1>10, FS_Union
<1>13. Cardinality(busy \cap idle) = 0
  BY ONLY <1>6, FS_EmptySet
<1>14. Cardinality(busy) = n - k
  <2>1. Cardinality(all) = Cardinality(busy) + Cardinality(idle) - Cardinality(busy \cap idle)
    BY ONLY <1>6, <1>12
  <2> QED
    BY ONLY <1>5, <1>9, <1>11, <1>13, <2>1, n \in Nat, k \in Nat
<1> QED
  BY <1>2, <1>3, <1>10, <1>14 DEF nb_pending_accesses

LEMMA InvImplied == ASSUME IssIInv PROVE IssInv
<1>1. Shape /\ Parts /\ Masks /\ Landed /\ QueueOnce /\ FreeOnce /\ TasksOnce /\ Phases
  BY DEF IssIInv
<1>2. IssTypeOK
  <2>1. /\ platform \in Platforms /\ current_insn \in Program
        /\ phase \in {"start", "tasks", "issue", "end"}
        /\ stall_cycles \in Nat /\ next_retire_cycle \in Nat
        /\ {wfi, instr_disabled, pending_interrupt, io_req_denied, pending_fence, owes}
             \subseteq BOOLEAN
    BY <1>1 DEF Shape
  <2>2. Range(first_task) \cup Range(todo) \subseteq Entries \cup {Unblock}
    BY <1>1 DEF Shape, Range
  <2>3. Range(queue) \subseteq Entries \cup {Ready, Wfi} /\ Range(req_entry_first) \subseteq Entries
    BY <1>1 DEF Shape, Range
  <2>4. UNION {sb_reg_invalid, unblock_slot.mask, landed} \subseteq UNION {i.out : i \in Insns}
        /\ unblock_slot.due \in {0, 1}
    <3>1. /\ sb_reg_invalid \subseteq Outs /\ unblock_slot.mask \subseteq Outs
          /\ landed \subseteq Outs /\ unblock_slot.due \in {0, 1}
      BY <1>1 DEF Shape
    <3> QED
      BY <3>1 DEF Outs
  <2>5. \A e \in Entries :
           /\ entry[e].st \in {"free", "slave", "task", "denied"}
           /\ entry[e].timestamp \in Nat /\ entry[e].second \in BOOLEAN
    BY <1>1, EntryFields DEF Shape
  <2> QED
    BY <2>1, <2>2, <2>3, <2>4, <2>5 DEF IssTypeOK
<1>3. ScoreboardExact
  BY <1>1 DEF Masks
<1>4. HeldExact
  <2>1. ASSUME NEW e \in Entries PROVE Cardinality(Held(e)) = IF e \in InFlight THEN 1 ELSE 0
    <3>1. IF e \in InFlight THEN Once(queue, e) ELSE Absent(queue, e)
      BY <1>1 DEF QueueOnce
    <3> QED
      BY <3>1, CountOnce DEF Held
  <2>2. Cardinality(Held(Wfi)) = IF wfi THEN 1 ELSE 0
    <3>1. IF wfi THEN Once(queue, Wfi) ELSE Absent(queue, Wfi)
      BY <1>1 DEF QueueOnce
    <3> QED
      BY <3>1, CountOnce DEF Held
  <2> QED
    BY <2>1, <2>2 DEF HeldExact
<1>5. TasksArmed
  <2> DEFINE Count(t) == Cardinality({i \in DOMAIN Tasks : Tasks[i] = t})
  <2>1. ASSUME NEW t PROVE (Once(Tasks, t) => Count(t) = 1) /\ (Absent(Tasks, t) => Count(t) = 0)
    BY CountOnce
  <2> HIDE DEF Count
  <2>2. \A e \in Entries : Count(e) = IF entry[e].st = "task" THEN 1 ELSE 0
    BY <1>1, <2>1 DEF TasksOnce
  <2>3. unblock_slot.mask # {} => Count(Unblock) = 1
    BY <1>1, <2>1 DEF TasksOnce
  <2>4. /\ ~wfi => ~instr_disabled
        /\ wfi /\ Quiet /\ Tasks = <<>> => instr_disabled
    BY <1>1 DEF Phases
  <2>5. Cardinality(InFlight) = nb_pending_accesses
    BY <1>1, InFlightCount
  <2> QED
    BY <2>2, <2>3, <2>4, <2>5 DEF TasksArmed, Tasks, Count
<1>6. BothBeats
  <2>1. ASSUME NEW e \in Entries, entry[e].st = "free" PROVE entry[e].left = 0 /\ ~entry[e].second
    BY <1>1, <2>1 DEF Parts
  <2> QED
    BY <2>1 DEF BothBeats
<1> QED
  BY <1>2, <1>3, <1>4, <1>5, <1>6 DEF IssInv

(* An instruction leaves the core in the issue of that instruction only.   *)
LEMMA Leaves ==
    ASSUME [IssNext]_IssVars, phase = "issue", current_insn' # current_insn
    PROVE  ~Blocked(current_insn) /\ (current_insn.op = "fence" => FencePassed)
<1>1. ~UNCHANGED IssVars
  BY DEF IssVars
<1>2. ~Begin /\ ~TaskUnblock /\ ~TasksDone /\ ~DataRetry /\ ~CheckInterrupts /\ ~Tick
  BY DEF Begin, TaskUnblock, TasksDone, DataRetry, CheckInterrupts, Tick
<1>3. \A e \in Entries : ~TaskHandle(e) /\ ~DataResponse(e)
  BY DEF TaskHandle, DataResponse
<1>4. Issue
  BY <1>1, <1>2, <1>3 DEF IssNext, InstrEvent
<1>5. PICK i \in Program :
         \/ IssueStalled(i) \/ IssueDenied(i) \/ IssueAlu(i) \/ IssueFence(i) \/ IssueWfi(i)
         \/ \E e \in Entries : IssueAccess(i, e)
  BY <1>4 DEF Issue
<1>6. ~IssueStalled(i) /\ ~IssueDenied(i)
  BY DEF IssueStalled, IssueDenied, Stall
<1>7. CASE IssueAlu(i)
  BY <1>7 DEF IssueAlu, Issuing
<1>8. CASE IssueFence(i)
  <2>1. i = current_insn /\ ~Blocked(i) /\ (~FencePassed => Stall)
    BY <1>8 DEF IssueFence, Issuing
  <2> QED
    BY <2>1 DEF Stall
<1>9. CASE IssueWfi(i)
  BY <1>9 DEF IssueWfi, Issuing
<1>10. CASE \E e \in Entries : IssueAccess(i, e)
  BY <1>10 DEF IssueAccess, Issuing, IsAccess
<1> QED
  BY <1>5, <1>6, <1>7, <1>8, <1>9, <1>10

----------------------------------------------------------------------------
LEMMA IInvHolds == ASSUME SplitServed PROVE IssSpec => []IssIInv
<1>1. IssInit => IssIInv
  BY InitHolds
<1>2. IssIInv /\ [IssNext]_IssVars => IssIInv'
  BY NextKeeps
<1> QED
  BY <1>1, <1>2, PTL DEF IssSpec

(* The dispatcher, the load/store unit, the scoreboard, the task list and  *)
(* the commit queue agree on the accesses in flight, for any program, any  *)
(* number of request entries and any memory that, when it serves split     *)
(* accesses, neither denies nor answers in the same call.                  *)
THEOREM IssInvHolds == ASSUME SplitServed PROVE IssSpec => []IssInv
<1>1. IssIInv => IssInv
  BY InvImplied
<1> QED
  BY <1>1, IInvHolds, PTL

(* The classic load-use stall of riscv.py:71: no instruction is dispatched *)
(* in the cycle in which a register that it needs lands.                   *)
THEOREM LoadUseHolds == ASSUME SplitServed PROVE IssSpec => LoadUse
<1> DEFINE Act == phase = "issue" /\ current_insn' # current_insn
                    => Regs(current_insn) \cap landed = {}
<1>1. IssIInv /\ [IssNext]_IssVars => [Act]_IssVars
  <2> SUFFICES ASSUME IssIInv, [IssNext]_IssVars, phase = "issue", current_insn' # current_insn
               PROVE  Regs(current_insn) \cap landed = {}
    OBVIOUS
  <2>1. Regs(current_insn) \cap sb_reg_invalid = {}
    BY Leaves DEF Blocked
  <2>2. landed \subseteq unblock_slot.mask
    BY DEF IssIInv, Landed
  <2>3. unblock_slot.mask \subseteq sb_reg_invalid
    <3>1. sb_reg_invalid = AllOuts(entry, InFlight) \cup unblock_slot.mask
      BY Apart DEF IssIInv
    <3> QED
      BY ONLY <3>1
  <2> QED
    BY <2>1, <2>2, <2>3
<1> QED
  BY <1>1, IInvHolds, PTL DEF IssSpec, LoadUse

(* fence() passes when the count of accesses is zero, and then the commit  *)
(* queue holds none.                                                       *)
THEOREM FenceOrderedHolds == ASSUME SplitServed PROVE IssSpec => FenceOrdered
<1> DEFINE Act == phase = "issue" /\ current_insn.op = "fence" /\ current_insn' # current_insn
                    => \A e \in Entries : Held(e) = {}
<1>1. IssIInv /\ [IssNext]_IssVars => [Act]_IssVars
  <2> SUFFICES ASSUME IssIInv, [IssNext]_IssVars, phase = "issue", current_insn.op = "fence",
                      current_insn' # current_insn, NEW e \in Entries
               PROVE  Held(e) = {}
    OBVIOUS
  <2>1. nb_pending_accesses = 0
    BY Leaves DEF FencePassed
  <2>2. IsFiniteSet(InFlight) /\ Cardinality(InFlight) = 0
    BY <2>1, InFlightCount DEF IssIInv
  <2>3. InFlight = {}
    BY <2>2, FS_EmptySet
  <2>4. Absent(queue, e)
    BY <2>3 DEF IssIInv, QueueOnce
  <2> QED
    BY <2>4, CountOnce DEF Held
<1> QED
  BY <1>1, IInvHolds, PTL DEF IssSpec, FenceOrdered

LEMMA PlatformKept == ASSUME [IssNext]_IssVars PROVE platform' = platform
<1>1. CASE Issue
  <2>1. PICK i \in Program :
           \/ IssueStalled(i) \/ IssueDenied(i) \/ IssueAlu(i) \/ IssueFence(i) \/ IssueWfi(i)
           \/ \E e \in Entries : IssueAccess(i, e)
    BY <1>1 DEF Issue
  <2> QED
    BY <2>1 DEF IssueStalled, IssueDenied, IssueAlu, IssueFence, IssueWfi, IssueAccess
<1>2. CASE \E e \in Entries : TaskHandle(e) \/ DataResponse(e)
  BY <1>2 DEF TaskHandle, DataResponse
<1>3. CASE Begin \/ TaskUnblock \/ TasksDone \/ DataRetry \/ CheckInterrupts \/ Tick
  BY <1>3 DEF Begin, TaskUnblock, TasksDone, DataRetry, CheckInterrupts, Tick
<1>4. CASE UNCHANGED IssVars
  BY <1>4 DEF IssVars
<1> QED
  BY <1>1, <1>2, <1>3, <1>4 DEF IssNext, InstrEvent

(* The event is disabled by retain_check only, and with an empty list.     *)
LEMMA Disabled ==
    ASSUME IssIInv, [IssNext]_IssVars, instr_disabled', ~instr_disabled
    PROVE  first_task' = <<>> /\ todo' = <<>>
<1>1. ~UNCHANGED IssVars
  BY DEF IssVars, evars
<1>2. ~Begin /\ ~TaskUnblock /\ ~DataRetry /\ ~Tick
  BY DEF Begin, TaskUnblock, DataRetry, Tick, evars
<1>3. ~CheckInterrupts
  BY DEF CheckInterrupts
<1>4. \A e \in Entries : ~TaskHandle(e) /\ ~DataResponse(e)
  BY DEF TaskHandle, DataResponse
<1>5. TasksDone \/ Issue
  BY <1>1, <1>2, <1>3, <1>4 DEF IssNext, InstrEvent
<1>6. CASE TasksDone
  BY <1>6 DEF TasksDone, RetainCheck
<1>7. CASE Issue
  <2>1. PICK i \in Program :
           \/ IssueStalled(i) \/ IssueDenied(i) \/ IssueAlu(i) \/ IssueFence(i) \/ IssueWfi(i)
           \/ \E e \in Entries : IssueAccess(i, e)
    BY <1>7 DEF Issue
  <2>2. ~IssueStalled(i) /\ ~IssueDenied(i) /\ ~IssueAlu(i) /\ ~IssueFence(i)
    BY DEF IssueStalled, IssueDenied, IssueAlu, IssueFence
  <2>3. \A e \in Entries : ~IssueAccess(i, e)
    BY DEF IssueAccess
  <2>4. IssueWfi(i)
    BY <2>1, <2>2, <2>3
  <2>5. todo = <<>>
    BY <2>4 DEF IssueWfi, Issuing, IssIInv, Phases
  <2> QED
    BY <2>4, <2>5 DEF IssueWfi, RetainCheck
<1> QED
  BY <1>5, <1>6, <1>7

(* The core stops its event in wfi only when no access in flight and no    *)
(* register needs it (retain_check): what is left is up to the slave.      *)
THEOREM SleepsIdleHolds == ASSUME SplitServed PROVE IssSpec => SleepsIdle
<1>1. ASSUME IssIInv, [IssNext]_IssVars, instr_disabled', ~instr_disabled
      PROVE  /\ \A e \in Entries : entry'[e].st # "task"
             /\ unblock_slot'.mask = {}
  <2>1. first_task' = <<>> /\ todo' = <<>>
    BY <1>1, Disabled
  <2>2. Tasks' = <<>>
    BY <2>1 DEF Tasks
  <2>3. \A t : ~Once(Tasks', t)
    BY <2>2 DEF Once
  <2>4. TasksOnce'
    BY <1>1, NextKeeps DEF IssIInv
  <2>5. Entries' = Entries
    BY <1>1, PlatformKept DEF Entries
  <2>6. /\ \A e \in Entries : entry'[e].st = "task" => Once(Tasks', e)
        /\ unblock_slot'.mask # {} => Once(Tasks', Unblock)
    BY <2>4, <2>5 DEF TasksOnce, Once
  <2> QED
    BY <2>3, <2>6
<1>2. IssIInv /\ [IssNext]_IssVars =>
        [instr_disabled' /\ ~instr_disabled =>
            /\ \A e \in Entries : entry'[e].st # "task"
            /\ unblock_slot'.mask = {}]_IssVars
  BY <1>1
<1> QED
  BY <1>2, IInvHolds, PTL DEF IssSpec, SleepsIdle
=============================================================================
