------------------------- MODULE BeatAdapterProofs -------------------------
(***************************************************************************)
(* Proofs about the beat adapter, for any requests, beat width, chunks and *)
(* latencies: however the answers of the slave interleave, each master is  *)
(* sent its bytes in order, once each, in the number of beats it expects,  *)
(* the event is enqueued in time for the next beat, and the adapter        *)
(* implements IoService.                                                   *)
(***************************************************************************)
EXTENDS BeatAdapter, TLAPS

USE BeatAdapterAssumption

----------------------------------------------------------------------------
(* Arithmetic.                                                             *)

LEMMA MaxOfTwo ==
    ASSUME NEW a \in Int, NEW b \in Int
    PROVE  Max({a, b}) = IF a >= b THEN a ELSE b
<1> DEFINE m == IF a >= b THEN a ELSE b
<1>1. m \in {a, b} /\ \A y \in {a, b} : m >= y
  OBVIOUS
<1>2. \A x \in {a, b} : (\A y \in {a, b} : x >= y) => x = m
  OBVIOUS
<1> QED
  BY <1>1, <1>2 DEF Max

LEMMA MinOfTwo ==
    ASSUME NEW a \in Int, NEW b \in Int
    PROVE  Min({a, b}) = IF a <= b THEN a ELSE b
<1> DEFINE m == IF a <= b THEN a ELSE b
<1>1. m \in {a, b} /\ \A y \in {a, b} : m <= y
  OBVIOUS
<1>2. \A x \in {a, b} : (\A y \in {a, b} : x <= y) => x = m
  OBVIOUS
<1> QED
  BY <1>1, <1>2 DEF Min

(* Quotient and remainder.                                                 *)
LEMMA Quotient ==
    ASSUME NEW n \in Nat \ {0}, NEW x \in Nat
    PROVE  /\ x \div n \in Nat
           /\ n * (x \div n) <= x /\ x < n * (x \div n) + n
OBVIOUS

LEMMA QuotientIs ==
    ASSUME NEW n \in Nat \ {0}, NEW q \in Int, NEW r \in 0 .. (n - 1), NEW x, x = (n * q) + r
    PROVE  x \div n = q
OBVIOUS

(* Products of a positive number are ordered as the factors.               *)
LEMMA ProductOrder ==
    ASSUME NEW n \in Nat \ {0}, NEW a \in Int, NEW b \in Int
    PROVE  /\ a <= b => n * a <= n * b
           /\ n * a < n * b => a < b
           /\ n * (a + 1) = n * a + n
           /\ n * (a - 1) = n * a - n
           /\ n * (a + b) = n * a + n * b
OBVIOUS

(* The number of beats of n bytes.                                         *)
LEMMA CeilBounds ==
    ASSUME NEW x \in Nat \ {0}
    PROVE  /\ Ceil(x) \in Nat \ {0}
           /\ beat_width * (Ceil(x) - 1) < x /\ x <= beat_width * Ceil(x)
<1> DEFINE n == Ceil(x)
<1>1. /\ n \in Nat /\ beat_width * n <= x + beat_width - 1
      /\ x + beat_width - 1 < beat_width * n + beat_width
  BY Quotient DEF Ceil
<1> HIDE DEF n
<1>2. beat_width * (n - 1) = beat_width * n - beat_width
  BY <1>1, ProductOrder
<1>3. n # 0
  BY <1>1
<1> QED
  BY <1>1, <1>2, <1>3 DEF n

LEMMA CeilIs ==
    ASSUME NEW k \in Nat
    PROVE  /\ Ceil(beat_width * k) = k
           /\ \A s \in 1 .. beat_width : Ceil(beat_width * k + s) = k + 1
<1>1. beat_width * k \in Nat
  OBVIOUS
<1>2. beat_width * (k + 1) = beat_width * k + beat_width
  BY ProductOrder
<1>3. Ceil(beat_width * k) = k
  BY <1>1, QuotientIs DEF Ceil
<1>4. ASSUME NEW s \in 1 .. beat_width
      PROVE  Ceil(beat_width * k + s) = k + 1
  <2>1. s - 1 \in 0 .. (beat_width - 1) /\ k + 1 \in Int
    OBVIOUS
  <2>2. (beat_width * k + s) + beat_width - 1 = beat_width * (k + 1) + (s - 1)
    BY <1>1, <1>2
  <2> QED
    BY <2>1, <2>2, QuotientIs DEF Ceil
<1> QED
  BY <1>3, <1>4

LEMMA CeilMonotone ==
    ASSUME NEW x \in Nat \ {0}, NEW y \in Nat \ {0}, x <= y
    PROVE  Ceil(x) <= Ceil(y)
<1>1. beat_width * (Ceil(x) - 1) < beat_width * Ceil(y)
  BY CeilBounds
<1>2. Ceil(x) - 1 < Ceil(y)
  BY <1>1, CeilBounds, ProductOrder
<1> QED
  BY <1>2, CeilBounds
----------------------------------------------------------------------------
(* The beats of a chunk.                                                   *)

Beat == [req : Reqs, offset : Nat, size : 1 .. beat_width, ready : Int,
         is_first : BOOLEAN, is_last : BOOLEAN]

End(b) == b.offset + b.size

Step(n, latency) == IF n > 1 THEN Max({1, latency \div n}) ELSE 1
First(n, latency) == Max({1, latency - (n - 1) * Step(n, latency)})

(* Spread over the latency when it is long enough, and else one a cycle.   *)
LEMMA Spacing ==
    ASSUME NEW n \in Nat \ {0}, NEW latency \in Nat
    PROVE  /\ Step(n, latency) \in Nat \ {0} /\ First(n, latency) \in Nat \ {0}
           /\ \A i \in 1 .. n :
                /\ First(n, latency) + (i - 1) * Step(n, latency) \in Nat \ {0}
                /\ \/ First(n, latency) + (i - 1) * Step(n, latency) <= latency
                   \/ First(n, latency) + (i - 1) * Step(n, latency) <= n
<1> DEFINE d == latency \div n
           step == Step(n, latency)
           first == First(n, latency)
<1>1. d \in Nat /\ n * d <= latency
  BY Quotient
<1>2. step \in Nat \ {0} /\ (step = 1 \/ (n > 1 /\ step = d))
  BY <1>1, MaxOfTwo DEF Step
<1>3. (n - 1) * step \in Nat
  BY <1>2
<1>4. first = IF 1 >= latency - (n - 1) * step THEN 1 ELSE latency - (n - 1) * step
  BY <1>3, MaxOfTwo DEF First
<1> HIDE DEF d, step, first
<1>5. first \in Nat \ {0}
  BY <1>3, <1>4
<1>6. first + (n - 1) * step <= latency \/ first + (n - 1) * step <= n
  <2>1. CASE step = 1
    BY <1>4, <2>1
  <2>2. CASE step = d
    <3>1. (n - 1) * step = n * d - d
      BY <1>1, <2>2
    <3> QED
      BY <1>1, <1>2, <1>3, <1>4, <2>2, <3>1
  <2> QED
    BY <1>2, <2>1, <2>2
<1>7. ASSUME NEW i \in 1 .. n
      PROVE  (i - 1) * step \in Nat /\ (i - 1) * step <= (n - 1) * step
  <2>1. step * (i - 1) <= step * (n - 1)
    BY <1>2, ProductOrder
  <2>2. step * (i - 1) = (i - 1) * step /\ step * (n - 1) = (n - 1) * step /\ (i - 1) * step \in Nat
    BY <1>2
  <2> QED
    BY <2>1, <2>2
<1>8. \A i \in 1 .. n : /\ first + (i - 1) * step \in Nat \ {0}
                        /\ first + (i - 1) * step <= latency \/ first + (i - 1) * step <= n
  BY <1>3, <1>5, <1>6, <1>7
<1> QED
  BY <1>2, <1>5, <1>8 DEF step, first

(* The place and the size of the i-th beat.                                *)
LEMMA BeatPlace ==
    ASSUME NEW size \in Nat \ {0}, NEW i \in 1 .. Ceil(size)
    PROVE  /\ (i - 1) * beat_width \in Nat /\ (i - 1) * beat_width < size
           /\ (i - 1) * beat_width = beat_width * (i - 1)
           /\ Min({size - (i - 1) * beat_width, beat_width}) \in 1 .. beat_width
           /\ (i - 1) * beat_width + Min({size - (i - 1) * beat_width, beat_width}) =
                IF i = Ceil(size) THEN size ELSE i * beat_width
           /\ i < Ceil(size) => i * beat_width < size
<1> DEFINE n == Ceil(size)
           cursor == (i - 1) * beat_width
<1>1. n \in Nat \ {0} /\ beat_width * (n - 1) < size /\ size <= beat_width * n
  BY CeilBounds
<1> HIDE DEF n
<1>2. cursor \in Nat /\ cursor = beat_width * (i - 1) /\ cursor = beat_width * i - beat_width
  BY <1>1 DEF n
<1>3. beat_width * (i - 1) <= beat_width * (n - 1)
  BY <1>1, ProductOrder DEF n
<1>4. i < n => beat_width * i <= beat_width * (n - 1)
  BY <1>1, ProductOrder DEF n
<1>5. beat_width * (n - 1) = beat_width * n - beat_width
  BY <1>1, ProductOrder
<1>6. i * beat_width = beat_width * i /\ beat_width * i \in Int /\ beat_width * n \in Int
  BY <1>1 DEF n
<1> HIDE DEF cursor
<1>7. Min({size - cursor, beat_width}) = IF size - cursor <= beat_width THEN size - cursor
                                         ELSE beat_width
  BY <1>2, MinOfTwo
<1>8. cursor < size
  BY <1>1, <1>2, <1>3
<1>9. i = n => size - cursor <= beat_width
  BY <1>1, <1>2
<1>10. i < n => beat_width * i < size
  BY <1>1, <1>4, <1>6
<1>11. i < n => beat_width < size - cursor
  <2>1. \A a, b, c \in Int : c = a - b /\ a < size => b < size - c
    OBVIOUS
  <2> QED
    BY <1>2, <1>6, <1>10, <2>1
<1>12. i \in 1 .. n
  BY DEF n
<1>13. Min({size - cursor, beat_width}) \in 1 .. beat_width
  BY <1>2, <1>7, <1>8
<1>14. cursor + Min({size - cursor, beat_width}) = IF i = n THEN size ELSE i * beat_width
  BY <1>1, <1>2, <1>6, <1>7, <1>9, <1>11, <1>12
<1> QED
  BY <1>2, <1>6, <1>8, <1>10, <1>13, <1>14 DEF n, cursor

(* Where beat i of n begins and ends in a chunk of size bytes, and when it *)
(* is ready.                                                               *)
Gap(i)             == (i - 1) * beat_width
Rim(i, n, size)    == IF i = n THEN size ELSE i * beat_width
Due(i, n, latency) == First(n, latency) + (i - 1) * Step(n, latency)

(* A beat of r with the marks of its bytes.                                *)
BeatOf(b, r) ==
    b.req = r /\ b.is_first = (b.offset = 0) /\ b.is_last = (End(b) = Size[r])

(* Each beat of a chunk of size bytes from byte routed of r on.            *)
LEMMA CutBeat ==
    ASSUME NEW r \in Reqs, NEW routed \in Nat, NEW size \in Nat \ {0}, NEW latency \in Nat,
           NEW n, n = Ceil(size), NEW c, c = Cut(r, routed, size, latency), NEW i \in 1 .. n
    PROVE  /\ c[i] \in Beat /\ BeatOf(c[i], r)
           /\ c[i].offset = routed + Gap(i)
           /\ End(c[i]) = routed + Rim(i, n, size)
           /\ c[i].ready = Due(i, n, latency)
<1> DEFINE cursor == (i - 1) * beat_width
           beat   == Min({size - cursor, beat_width})
           ready  == First(n, latency) + (i - 1) * Step(n, latency)
<1>1. n \in Nat \ {0}
  BY CeilBounds
<1>2. c[i] = [req |-> r, offset |-> routed + cursor, size |-> beat, ready |-> ready,
              is_first |-> (routed + cursor = 0), is_last |-> (routed + cursor + beat = Size[r])]
  BY DEF Cut, First, Step, IsLast
<1>3. /\ cursor \in Nat /\ beat \in 1 .. beat_width
      /\ cursor + beat = IF i = n THEN size ELSE i * beat_width
  BY BeatPlace
<1>4. ready \in Int
  BY <1>1, Spacing
<1> HIDE DEF cursor, beat, ready
<1>5. c[i] \in Beat
  BY <1>2, <1>3, <1>4 DEF Beat
<1>6. /\ c[i].req = r /\ c[i].offset = routed + cursor /\ c[i].ready = ready
      /\ c[i].size = beat
  BY <1>2
<1>7. c[i].is_first = (c[i].offset = 0)
  <2>1. c[i].is_first = (routed + cursor = 0)
    BY <1>2
  <2> QED
    BY <1>6, <2>1
<1>8. End(c[i]) = routed + cursor + beat
  BY <1>6, <1>3 DEF End
<1>9. c[i].is_last = (End(c[i]) = Size[r])
  <2>1. c[i].is_last = (routed + cursor + beat = Size[r])
    BY <1>2
  <2> QED
    BY <1>8, <2>1
<1>10. routed + cursor + beat = routed + (cursor + beat)
  BY <1>3
<1>11. BeatOf(c[i], r)
  BY <1>6, <1>7, <1>9 DEF BeatOf
<1> QED
  BY <1>3, <1>5, <1>6, <1>8, <1>10, <1>11 DEF cursor, ready, Gap, Rim, Due

LEMMA CutSeq ==
    ASSUME NEW r \in Reqs, NEW routed \in Nat, NEW size \in Nat \ {0}, NEW latency \in Nat,
           NEW n, n = Ceil(size), NEW c, c = Cut(r, routed, size, latency)
    PROVE  c \in [1 .. n -> Beat] /\ n \in Nat \ {0}
<1>1. n \in Nat \ {0}
  BY CeilBounds
<1>2. c = [i \in 1 .. n |-> c[i]]
  BY DEF Cut
<1>3. ASSUME NEW i \in 1 .. n PROVE c[i] \in Beat
  BY ONLY r \in Reqs, routed \in Nat, size \in Nat \ {0}, latency \in Nat, n = Ceil(size),
          c = Cut(r, routed, size, latency), i \in 1 .. n, CutBeat
<1> QED
  BY <1>1, <1>2, <1>3

(* Two of its beats.                                                       *)
LEMMA CutOrder ==
    ASSUME NEW r \in Reqs, NEW routed \in Nat, NEW size \in Nat \ {0}, NEW latency \in Nat,
           NEW n, n = Ceil(size), NEW c, c = Cut(r, routed, size, latency),
           NEW i \in 1 .. n, NEW j \in 1 .. n, i < j
    PROVE  End(c[i]) <= c[j].offset
<1>1. beat_width * i <= beat_width * (j - 1)
  BY ProductOrder
<1>2. n \in Nat \ {0}
  BY CutSeq
<1>3. End(c[i]) = routed + i * beat_width
  <2>1. i # n
    BY <1>2
  <2>2. End(c[i]) = routed + Rim(i, n, size)
    BY ONLY r \in Reqs, routed \in Nat, size \in Nat \ {0}, latency \in Nat, n = Ceil(size),
            c = Cut(r, routed, size, latency), i \in 1 .. n, CutBeat
  <2> QED
    BY ONLY <2>1, <2>2 DEF Rim
<1>4. c[j].offset = routed + (j - 1) * beat_width
  <2>1. c[j].offset = routed + Gap(j)
    BY ONLY r \in Reqs, routed \in Nat, size \in Nat \ {0}, latency \in Nat, n = Ceil(size),
            c = Cut(r, routed, size, latency), j \in 1 .. n, CutBeat
  <2> QED
    BY ONLY <2>1 DEF Gap
<1>5. i * beat_width = beat_width * i /\ (j - 1) * beat_width = beat_width * (j - 1)
  OBVIOUS
<1>6. i * beat_width \in Int /\ (j - 1) * beat_width \in Int
  OBVIOUS
<1> QED
  BY <1>1, <1>3, <1>4, <1>5, <1>6

(* Each byte of the chunk is in a beat.                                    *)
LEMMA CutCovers ==
    ASSUME NEW r \in Reqs, NEW routed \in Nat, NEW size \in Nat \ {0}, NEW latency \in Nat,
           NEW n, n = Ceil(size), NEW c, c = Cut(r, routed, size, latency),
           NEW b \in routed .. (routed + size - 1)
    PROVE  \E i \in 1 .. n : c[i].offset <= b /\ b < End(c[i])
<1> DEFINE d == b - routed
           k == d \div beat_width
<1>1. n \in Nat \ {0} /\ size <= beat_width * n
  BY CeilBounds
<1>2. d \in Nat /\ d < size /\ b = routed + d
  OBVIOUS
<1>3. k \in Nat /\ beat_width * k <= d /\ d < beat_width * k + beat_width
  BY <1>2, Quotient
<1> HIDE DEF d, k
<1>4. beat_width * k \in Nat /\ beat_width * n \in Nat
  BY <1>1, <1>3
<1>5. beat_width * k < beat_width * n
  BY <1>1, <1>2, <1>3, <1>4
<1>6. k < n
  BY <1>1, <1>3, <1>5, ProductOrder
<1>7. PICK i \in 1 .. n : i = k + 1
  BY <1>1, <1>3, <1>6
<1>8. (i - 1) * beat_width = beat_width * k /\ i * beat_width = beat_width * k + beat_width
  BY <1>3, <1>7
<1>9. /\ c[i].offset = routed + (i - 1) * beat_width
      /\ End(c[i]) = routed + (IF i = n THEN size ELSE i * beat_width)
  <2>1. c[i].offset = routed + Gap(i) /\ End(c[i]) = routed + Rim(i, n, size)
    BY ONLY r \in Reqs, routed \in Nat, size \in Nat \ {0}, latency \in Nat, n = Ceil(size),
            c = Cut(r, routed, size, latency), i \in 1 .. n, CutBeat
  <2> QED
    BY ONLY <2>1 DEF Gap, Rim
<1>10. c[i].offset <= b /\ b < End(c[i])
  BY <1>2, <1>3, <1>4, <1>8, <1>9
<1> QED
  BY <1>10

(* Of the whole chunk: the beats are in order and cover it, each begins a  *)
(* beat, and the first is ready in the next cycle at the earliest.         *)
LEMMA CutQueue ==
    ASSUME NEW r \in Reqs, NEW routed \in Nat, NEW size \in Nat \ {0}, NEW latency \in Nat,
           NEW n, n = Ceil(size), NEW c, c = Cut(r, routed, size, latency)
    PROVE  /\ c \in Seq(Beat) /\ c # <<>> /\ Head(c) = c[1] /\ DOMAIN c = 1 .. n
           /\ c[1].ready \in Nat \ {0}
<1>1. c \in [1 .. n -> Beat] /\ n \in Nat \ {0}
  BY CutSeq
<1>2. c \in Seq(Beat) /\ c # <<>> /\ Head(c) = c[1] /\ DOMAIN c = 1 .. n
  BY <1>1
<1>3. c[1].ready \in Nat \ {0}
  <2>1. 1 \in 1 .. n
    BY <1>1
  <2>2. c[1].ready = First(n, latency) + (1 - 1) * Step(n, latency)
    <3>1. c[1].ready = Due(1, n, latency)
      BY ONLY <2>1, r \in Reqs, routed \in Nat, size \in Nat \ {0}, latency \in Nat, n = Ceil(size),
              c = Cut(r, routed, size, latency), CutBeat
    <3> QED
      BY ONLY <3>1 DEF Due
  <2>3. First(n, latency) + (1 - 1) * Step(n, latency) \in Nat \ {0}
    BY <1>1, <2>1, Spacing
  <2> QED
    BY <2>2, <2>3
<1> QED
  BY <1>2, <1>3

LEMMA CutEach ==
    ASSUME NEW r \in Reqs, NEW routed \in Nat, NEW size \in Nat \ {0}, NEW latency \in Nat,
           NEW n, n = Ceil(size), NEW c, c = Cut(r, routed, size, latency), NEW i \in 1 .. n
    PROVE  /\ routed <= c[i].offset /\ End(c[i]) <= routed + size
           /\ c[i].ready <= latency \/ c[i].ready <= n
<1>1. n \in Nat \ {0}
  BY CutSeq
<1>2. /\ c[i].offset = routed + (i - 1) * beat_width
      /\ End(c[i]) = routed + (IF i = n THEN size ELSE i * beat_width)
      /\ c[i].ready = First(n, latency) + (i - 1) * Step(n, latency)
  <2>1. /\ c[i].offset = routed + Gap(i) /\ End(c[i]) = routed + Rim(i, n, size)
        /\ c[i].ready = Due(i, n, latency)
    BY ONLY r \in Reqs, routed \in Nat, size \in Nat \ {0}, latency \in Nat, n = Ceil(size),
            c = Cut(r, routed, size, latency), i \in 1 .. n, CutBeat
  <2> QED
    BY ONLY <2>1 DEF Gap, Rim, Due
<1>3. /\ (i - 1) * beat_width \in Nat /\ (i - 1) * beat_width = beat_width * (i - 1)
      /\ i < n => i * beat_width < size
  BY BeatPlace
<1>4. i * beat_width \in Int /\ i * beat_width = (i - 1) * beat_width + beat_width
  BY <1>1
<1>5. i < n \/ i = n
  BY <1>1
<1>6. routed <= c[i].offset /\ End(c[i]) <= routed + size
  BY <1>2, <1>3, <1>4, <1>5
<1>7. c[i].ready <= latency \/ c[i].ready <= n
  <2>1. \/ First(n, latency) + (i - 1) * Step(n, latency) <= latency
        \/ First(n, latency) + (i - 1) * Step(n, latency) <= n
    BY <1>1, Spacing
  <2> QED
    BY <1>2, <2>1
<1> QED
  BY <1>6, <1>7
----------------------------------------------------------------------------
(* The beats of a request in a queue.                                      *)

(* Those of r in q are in order and cover the bytes from .. to - 1.        *)
Chain(q, r, from, to) ==
    /\ \A i \in DOMAIN q : q[i].req = r => from <= q[i].offset /\ End(q[i]) <= to
    /\ \A i, j \in DOMAIN q : q[i].req = r /\ q[j].req = r /\ i < j => End(q[i]) <= q[j].offset
    /\ \A b \in from .. (to - 1) :
         \E i \in DOMAIN q : q[i].req = r /\ q[i].offset <= b /\ b < End(q[i])

Without(q, r) == \A i \in DOMAIN q : q[i].req # r

LEMMA BeatTypes ==
    ASSUME NEW b \in Beat
    PROVE  /\ b.req \in Reqs /\ b.offset \in Nat /\ b.size \in 1 .. beat_width /\ b.ready \in Int
           /\ b.size \in Nat \ {0} /\ End(b) \in Nat /\ End(b) = b.offset + b.size
           /\ b.offset < End(b) /\ b.is_first \in BOOLEAN /\ b.is_last \in BOOLEAN
BY DEF Beat, End

LEMMA QueueIndex ==
    ASSUME NEW q \in Seq(Beat)
    PROVE  /\ DOMAIN q = 1 .. Len(q) /\ Len(q) \in Nat
           /\ \A i \in DOMAIN q : q[i] \in Beat
           /\ q # <<>> => Len(q) > 0 /\ 1 \in DOMAIN q /\ Head(q) = q[1] /\ Head(q) \in Beat
OBVIOUS

LEMMA TailIndex ==
    ASSUME NEW q \in Seq(Beat), q # <<>>, NEW t, t = Tail(q)
    PROVE  /\ t \in Seq(Beat) /\ DOMAIN t = 1 .. (Len(q) - 1)
           /\ \A i \in DOMAIN t : i + 1 \in DOMAIN q /\ t[i] = q[i + 1]
           /\ \A i \in DOMAIN q : i # 1 => i - 1 \in DOMAIN t /\ q[i] = t[i - 1]
OBVIOUS

LEMMA JoinIndex ==
    ASSUME NEW q \in Seq(Beat), NEW c \in Seq(Beat), NEW s, s = q \o c
    PROVE  /\ s \in Seq(Beat) /\ DOMAIN s = 1 .. (Len(q) + Len(c))
           /\ \A i \in DOMAIN q : i \in DOMAIN s /\ s[i] = q[i]
           /\ \A i \in DOMAIN c : Len(q) + i \in DOMAIN s /\ s[Len(q) + i] = c[i]
           /\ \A i \in DOMAIN s : \/ i \in DOMAIN q
                                  \/ i - Len(q) \in DOMAIN c /\ s[i] = c[i - Len(q)] /\ i > Len(q)
           /\ q # <<>> => s # <<>> /\ Head(s) = Head(q)
           /\ q = <<>> => s = c
BY SMTT(40)

(* The first beat of r starts the chain, and the rest goes on after it.    *)
LEMMA ChainHead ==
    ASSUME NEW q \in Seq(Beat), q # <<>>, NEW r, Head(q).req = r,
           NEW from \in Int, NEW to \in Int, Chain(q, r, from, to)
    PROVE  /\ Head(q).offset = from /\ End(Head(q)) <= to
           /\ Chain(Tail(q), r, End(Head(q)), to)
<1>1. /\ DOMAIN q = 1 .. Len(q) /\ \A i \in DOMAIN q : q[i] \in Beat
      /\ 1 \in DOMAIN q /\ Head(q) = q[1] /\ Len(q) \in Nat
  BY QueueIndex
<1>2. from <= q[1].offset /\ End(q[1]) <= to /\ q[1].offset < End(q[1]) /\ End(q[1]) \in Nat
      /\ q[1].offset \in Nat
  BY <1>1, BeatTypes DEF Chain
<1>3. PICK i \in DOMAIN q : q[i].req = r /\ q[i].offset <= from /\ from < End(q[i])
  <2>1. from \in from .. (to - 1)
    BY <1>2
  <2> QED
    BY <2>1 DEF Chain
<1>4. i = 1
  <2>1. i # 1 => End(q[1]) <= q[i].offset
    BY <1>1, <1>3 DEF Chain
  <2>2. q[i].offset \in Nat
    BY <1>1, BeatTypes
  <2> QED
    BY <1>2, <1>3, <2>1, <2>2
<1>5. q[1].offset = from
  BY <1>2, <1>3, <1>4
<1> DEFINE t == Tail(q)
<1>6. /\ t \in Seq(Beat) /\ DOMAIN t = 1 .. (Len(q) - 1)
      /\ \A k \in DOMAIN t : k + 1 \in DOMAIN q /\ t[k] = q[k + 1]
      /\ \A k \in DOMAIN q : k # 1 => k - 1 \in DOMAIN t /\ q[k] = t[k - 1]
  BY TailIndex
<1> HIDE DEF t
<1>7. \A k \in DOMAIN t : t[k].req = r => End(q[1]) <= t[k].offset /\ End(t[k]) <= to
  <2> SUFFICES ASSUME NEW k \in DOMAIN t, t[k].req = r
               PROVE  End(q[1]) <= t[k].offset /\ End(t[k]) <= to
    OBVIOUS
  <2>1. k + 1 \in DOMAIN q /\ t[k] = q[k + 1] /\ 1 < k + 1
    BY <1>6
  <2> QED
    BY <1>1, <2>1 DEF Chain
<1>8. \A k, l \in DOMAIN t : t[k].req = r /\ t[l].req = r /\ k < l => End(t[k]) <= t[l].offset
  <2> SUFFICES ASSUME NEW k \in DOMAIN t, NEW l \in DOMAIN t, t[k].req = r, t[l].req = r, k < l
               PROVE  End(t[k]) <= t[l].offset
    OBVIOUS
  <2>1. /\ k + 1 \in DOMAIN q /\ t[k] = q[k + 1]
        /\ l + 1 \in DOMAIN q /\ t[l] = q[l + 1] /\ k + 1 < l + 1
    BY <1>6
  <2> QED
    BY <2>1 DEF Chain
<1>9. ASSUME NEW b \in End(q[1]) .. (to - 1)
      PROVE  \E k \in DOMAIN t : t[k].req = r /\ t[k].offset <= b /\ b < End(t[k])
  <2>1. b \in from .. (to - 1)
    BY <1>2
  <2>2. PICK k \in DOMAIN q : q[k].req = r /\ q[k].offset <= b /\ b < End(q[k])
    BY <2>1 DEF Chain
  <2>3. k # 1
    BY <1>2, <2>2
  <2> QED
    BY <1>6, <2>2, <2>3
<1>10. Chain(t, r, End(q[1]), to)
  BY <1>7, <1>8, <1>9 DEF Chain
<1> QED
  BY <1>1, <1>2, <1>5, <1>10 DEF t

(* The beats of another request are passed over.                           *)
LEMMA ChainSkip ==
    ASSUME NEW q \in Seq(Beat), q # <<>>, NEW r, Head(q).req # r,
           NEW from \in Int, NEW to \in Int, Chain(q, r, from, to)
    PROVE  Chain(Tail(q), r, from, to)
<1>1. /\ DOMAIN q = 1 .. Len(q) /\ 1 \in DOMAIN q /\ Head(q) = q[1]
  BY QueueIndex
<1> DEFINE t == Tail(q)
<1>2. /\ t \in Seq(Beat) /\ DOMAIN t = 1 .. (Len(q) - 1) /\ Len(q) \in Nat
      /\ \A k \in DOMAIN t : k + 1 \in DOMAIN q /\ t[k] = q[k + 1]
      /\ \A k \in DOMAIN q : k # 1 => k - 1 \in DOMAIN t /\ q[k] = t[k - 1]
  BY TailIndex
<1> HIDE DEF t
<1>3. \A k \in DOMAIN t : t[k].req = r => from <= t[k].offset /\ End(t[k]) <= to
  BY <1>2 DEF Chain
<1>4. \A k, l \in DOMAIN t : t[k].req = r /\ t[l].req = r /\ k < l => End(t[k]) <= t[l].offset
  <2> SUFFICES ASSUME NEW k \in DOMAIN t, NEW l \in DOMAIN t, t[k].req = r, t[l].req = r, k < l
               PROVE  End(t[k]) <= t[l].offset
    OBVIOUS
  <2>1. /\ k + 1 \in DOMAIN q /\ t[k] = q[k + 1]
        /\ l + 1 \in DOMAIN q /\ t[l] = q[l + 1] /\ k + 1 < l + 1
    BY <1>2
  <2> QED
    BY <2>1 DEF Chain
<1>5. ASSUME NEW b \in from .. (to - 1)
      PROVE  \E k \in DOMAIN t : t[k].req = r /\ t[k].offset <= b /\ b < End(t[k])
  <2>1. PICK k \in DOMAIN q : q[k].req = r /\ q[k].offset <= b /\ b < End(q[k])
    BY DEF Chain
  <2>2. k # 1
    BY <1>1, <2>1
  <2> QED
    BY <1>2, <2>1, <2>2
<1> QED
  BY <1>3, <1>4, <1>5 DEF Chain, t
(* A chain and its continuation.                                           *)
LEMMA ChainJoin ==
    ASSUME NEW q \in Seq(Beat), NEW c \in Seq(Beat), NEW r, NEW s, s = q \o c,
           NEW from \in Int, NEW mid \in Int, NEW to \in Int, from <= mid, mid <= to,
           Chain(q, r, from, mid), Chain(c, r, mid, to)
    PROVE  Chain(s, r, from, to)
<1>1. /\ DOMAIN q = 1 .. Len(q) /\ DOMAIN c = 1 .. Len(c) /\ Len(q) \in Nat /\ Len(c) \in Nat
      /\ \A i \in DOMAIN q : q[i] \in Beat
      /\ \A i \in DOMAIN c : c[i] \in Beat
  BY QueueIndex
<1>2. /\ DOMAIN s = 1 .. (Len(q) + Len(c))
      /\ \A i \in DOMAIN q : i \in DOMAIN s /\ s[i] = q[i]
      /\ \A i \in DOMAIN c : Len(q) + i \in DOMAIN s /\ s[Len(q) + i] = c[i]
      /\ \A i \in DOMAIN s : \/ i \in DOMAIN q
                             \/ i - Len(q) \in DOMAIN c /\ s[i] = c[i - Len(q)] /\ i > Len(q)
  BY JoinIndex
<1>3. ASSUME NEW i \in DOMAIN q, q[i].req = r
      PROVE  /\ from <= q[i].offset /\ End(q[i]) <= mid
             /\ q[i].offset \in Nat /\ End(q[i]) \in Nat
  BY <1>1, <1>3, BeatTypes DEF Chain
<1>4. ASSUME NEW i \in DOMAIN c, c[i].req = r
      PROVE  /\ mid <= c[i].offset /\ End(c[i]) <= to
             /\ c[i].offset \in Nat /\ End(c[i]) \in Nat
  BY <1>1, <1>4, BeatTypes DEF Chain
<1>5. ASSUME NEW i \in DOMAIN s, s[i].req = r
      PROVE  from <= s[i].offset /\ End(s[i]) <= to
  <2>1. CASE i \in DOMAIN q
    BY <1>2, <1>3, <1>5, <2>1
  <2>2. CASE i - Len(q) \in DOMAIN c /\ s[i] = c[i - Len(q)]
    BY <1>4, <1>5, <2>2
  <2> QED
    BY <1>2, <2>1, <2>2
<1>6. ASSUME NEW i \in DOMAIN s, NEW j \in DOMAIN s, s[i].req = r, s[j].req = r, i < j
      PROVE  End(s[i]) <= s[j].offset
  <2>1. CASE j \in DOMAIN q
    <3>1. i \in DOMAIN q
      BY <1>1, <1>2, <1>6, <2>1
    <3> QED
      BY <1>2, <1>6, <2>1, <3>1 DEF Chain
  <2>2. CASE j - Len(q) \in DOMAIN c /\ s[j] = c[j - Len(q)] /\ i \in DOMAIN q
    <3>1. End(q[i]) <= mid /\ End(q[i]) \in Nat /\ s[i] = q[i]
      BY <1>2, <1>3, <1>6, <2>2
    <3>2. mid <= c[j - Len(q)].offset /\ c[j - Len(q)].offset \in Nat
      BY <1>4, <1>6, <2>2
    <3> QED
      BY <2>2, <3>1, <3>2
  <2>3. CASE /\ j - Len(q) \in DOMAIN c /\ s[j] = c[j - Len(q)]
             /\ i - Len(q) \in DOMAIN c /\ s[i] = c[i - Len(q)]
    <3>1. PICK k \in DOMAIN c, l \in DOMAIN c : k = i - Len(q) /\ l = j - Len(q)
      BY <2>3
    <3>2. k < l /\ s[i] = c[k] /\ s[j] = c[l]
      BY <1>1, <1>2, <1>6, <2>3, <3>1
    <3> QED
      BY <1>6, <3>2 DEF Chain
  <2> QED
    BY <1>2, <2>1, <2>2, <2>3
<1>7. ASSUME NEW b \in from .. (to - 1)
      PROVE  \E i \in DOMAIN s : s[i].req = r /\ s[i].offset <= b /\ b < End(s[i])
  <2>1. CASE b \in from .. (mid - 1)
    <3>1. PICK i \in DOMAIN q : q[i].req = r /\ q[i].offset <= b /\ b < End(q[i])
      BY <2>1 DEF Chain
    <3> QED
      BY <1>2, <3>1
  <2>2. CASE b \in mid .. (to - 1)
    <3>1. PICK i \in DOMAIN c : c[i].req = r /\ c[i].offset <= b /\ b < End(c[i])
      BY <2>2 DEF Chain
    <3> QED
      BY <1>2, <3>1
  <2> QED
    BY <2>1, <2>2
<1> QED
  BY <1>5, <1>6, <1>7 DEF Chain

(* No beats cover no bytes.                                                *)
LEMMA ChainNone ==
    ASSUME NEW q, NEW r, Without(q, r), NEW n \in Int
    PROVE  Chain(q, r, n, n)
BY DEF Chain, Without

(* The bytes a chain covers: none are left when no beat of r is.           *)
LEMMA ChainEnds ==
    ASSUME NEW q \in Seq(Beat), NEW r, NEW from \in Int, NEW to \in Int, from <= to,
           Chain(q, r, from, to)
    PROVE  Without(q, r) <=> from = to
<1>1. ASSUME Without(q, r)
      PROVE  from = to
  <2>1. ASSUME from < to
        PROVE  FALSE
    <3>1. from \in from .. (to - 1)
      BY <2>1
    <3>2. \E i \in DOMAIN q : q[i].req = r
      BY <3>1 DEF Chain
    <3> QED
      BY <1>1, <3>2 DEF Without
  <2> QED
    BY <2>1
<1>2. ASSUME from = to, NEW i \in DOMAIN q, q[i].req = r
      PROVE  FALSE
  <2>1. q[i].offset \in Nat /\ End(q[i]) \in Nat /\ q[i].offset < End(q[i])
    BY QueueIndex, BeatTypes
  <2>2. from <= q[i].offset /\ End(q[i]) <= to
    BY <1>2 DEF Chain
  <2> QED
    BY <1>2, <2>1, <2>2
<1> QED
  BY <1>1, <1>2 DEF Without

(* Only the ready cycles of the beats differ.                              *)
LEMMA ChainSame ==
    ASSUME NEW q, NEW p, DOMAIN p = DOMAIN q, NEW r, NEW from, NEW to,
           \A i \in DOMAIN q : /\ p[i].req = q[i].req /\ p[i].offset = q[i].offset
                               /\ p[i].size = q[i].size,
           Chain(q, r, from, to)
    PROVE  Chain(p, r, from, to)
BY DEF Chain, End

(* How the properties say it.                                              *)
LEMMA ChainBytes ==
    ASSUME NEW r \in Reqs, pending \in Seq(Beat), NEW from \in Nat, NEW to \in Nat,
           Chain(pending, r, from, to)
    PROVE  UNION {BytesAt(i) : i \in Places(r)} = from .. (to - 1)
<1>1. ASSUME NEW i \in Places(r), NEW b \in BytesAt(i)
      PROVE  b \in from .. (to - 1)
  <2>1. i \in DOMAIN pending /\ pending[i].req = r /\ pending[i] \in Beat
    BY QueueIndex DEF Places
  <2>2. from <= pending[i].offset /\ End(pending[i]) <= to
    BY <2>1 DEF Chain
  <2>3. /\ pending[i].offset \in Nat /\ pending[i].size \in Nat
        /\ End(pending[i]) = pending[i].offset + pending[i].size
    BY <2>1, BeatTypes
  <2>4. b \in Int /\ pending[i].offset <= b /\ b <= pending[i].offset + pending[i].size - 1
    BY <2>3 DEF BytesAt
  <2> QED
    BY <2>2, <2>3, <2>4
<1>2. ASSUME NEW b \in from .. (to - 1)
      PROVE  \E i \in Places(r) : b \in BytesAt(i)
  <2>1. PICK i \in DOMAIN pending : /\ pending[i].req = r /\ pending[i].offset <= b
                                    /\ b < End(pending[i])
    BY DEF Chain
  <2>2. /\ pending[i].offset \in Nat /\ pending[i].size \in Nat
        /\ End(pending[i]) = pending[i].offset + pending[i].size
    BY QueueIndex, BeatTypes
  <2> QED
    BY <2>1, <2>2 DEF Places, BytesAt
<1> QED
  BY <1>1, <1>2
----------------------------------------------------------------------------
(* The inductive invariant.                                                *)

States == {"idle", "denied", "retrying", "granted"}

TypesOK ==
    /\ in_flight \in [Reqs -> Int] /\ pending \in Seq(Beat)
    /\ fsm \in Int /\ fsm >= -1
    /\ handler \in {"idle", "loop", "emit", "resp"}
    /\ IF handler = "emit" THEN ev \in Beat ELSE ev = NoBeat
    /\ st \in [Reqs -> States]
    /\ got \in [Reqs -> Nat] /\ beats \in [Reqs -> Nat] /\ below \in [Reqs -> Nat]
    /\ owes \in BOOLEAN

Emitting(r) == handler = "emit" /\ ev.req = r

(* The bytes of r: sent, in the queue and owed by the slave.               *)
Stream(r) ==
    /\ in_flight[r] = IF below[r] > 0 THEN Size[r] - below[r] ELSE -1
    /\ got[r] <= Size[r] /\ below[r] <= Size[r]
    /\ st[r] = "granted" =>
         /\ got[r] + below[r] <= Size[r]
         /\ Chain(pending, r, got[r], Size[r] - below[r])
         /\ got[r] = Size[r] => Emitting(r)
    /\ st[r] # "granted" => Without(pending, r) /\ below[r] = 0
    /\ Emitting(r) => st[r] = "granted" /\ ev.is_last = (got[r] = Size[r])

Mark(b) == b.is_first = (b.offset = 0) /\ b.is_last = (End(b) = Size[b.req])
Marked == \A i \in DOMAIN pending : Mark(pending[i])

(* Where the slave cuts its answers at the beats.                          *)
Whole == \A c \in Chunks : c % beat_width = 0
Even(x) == \E k \in Nat : x = beat_width * k

Counted ==
    /\ \A i \in DOMAIN pending : Even(pending[i].offset)
    /\ \A r \in Reqs : /\ below[r] > 0 => Even(Size[r] - below[r])
                       /\ Ceil(got[r]) = IF Emitting(r) THEN beats[r] + 1 ELSE beats[r]

(* A time that a latency or a request of one beat a cycle explains.        *)
Within(x) == x <= 1 \/ \E c \in Latencies \cup {Ceil(Size[r]) : r \in Reqs} : x <= c

Timed ==
    /\ Within(fsm) /\ \A i \in DOMAIN pending : Within(pending[i].ready)
    /\ pending = <<>> => fsm <= 1
    /\ pending # <<>> => IF handler = "idle" THEN 0 <= fsm /\ fsm <= Head(pending).ready
                         ELSE fsm <= HeadDelay(pending)

IInv == TypesOK /\ (\A r \in Reqs : Stream(r)) /\ Marked /\ (Whole => Counted) /\ Timed

LEMMA WithinSooner ==
    ASSUME NEW x \in Int, Within(x)
    PROVE  Within(x - 1)
<1>1. CASE x <= 1
  BY <1>1 DEF Within
<1>2. ASSUME NEW c \in Latencies \cup {Ceil(Size[r]) : r \in Reqs}, x <= c PROVE Within(x - 1)
  <2>1. c \in Int
    BY CeilBounds
  <2>2. x - 1 <= c
    BY <1>2, <2>1
  <2> QED
    BY <2>2 DEF Within
<1> QED
  BY <1>1, <1>2 DEF Within

LEMMA SizeNat == \A r \in Reqs : Size[r] \in Nat \ {0} /\ Ceil(Size[r]) \in Nat \ {0}
BY CeilBounds

LEMMA CeilZero == Ceil(0) = 0
<1>1. beat_width * 0 = 0
  OBVIOUS
<1> QED
  BY <1>1, CeilIs

LEMMA Delay ==
    ASSUME NEW q \in Seq(Beat), q # <<>>
    PROVE  /\ Head(q).ready \in Int
           /\ HeadDelay(q) = IF Head(q).ready >= 1 THEN Head(q).ready ELSE 1
           /\ HeadDelay(q) \in Nat \ {0}
<1>1. Head(q).ready \in Int
  BY QueueIndex, BeatTypes
<1> QED
  BY <1>1, MaxOfTwo DEF HeadDelay

LEMMA EmptySeqOf == \A S : <<>> \in Seq(S)
OBVIOUS

LEMMA InitIInv == Init => IInv
<1> SUFFICES ASSUME Init PROVE IInv
  OBVIOUS
<1>1. TypesOK
  <2>1. pending \in Seq(Beat)
    BY EmptySeqOf DEF Init
  <2>2. fsm \in Int /\ fsm >= -1
    BY DEF Init
  <2>3. owes \in BOOLEAN
    BY DEF Init
  <2>4. in_flight \in [Reqs -> Int] /\ st \in [Reqs -> States]
    BY DEF Init, States
  <2>5. got \in [Reqs -> Nat] /\ beats \in [Reqs -> Nat] /\ below \in [Reqs -> Nat]
    BY DEF Init
  <2>6. handler = "idle" /\ ev = NoBeat
    BY DEF Init
  <2> QED
    BY <2>1, <2>2, <2>3, <2>4, <2>5, <2>6 DEF TypesOK
<1>2. ASSUME NEW r \in Reqs PROVE Stream(r)
  BY SizeNat DEF Init, Stream, Without, Emitting
<1>3. Marked /\ (Whole => Counted)
  <2>1. Marked
    BY DEF Init, Marked
  <2>2. \A i \in DOMAIN pending : Even(pending[i].offset)
    BY DEF Init
  <2>3. ASSUME NEW r \in Reqs
        PROVE  /\ below[r] > 0 => Even(Size[r] - below[r])
               /\ Ceil(got[r]) = IF Emitting(r) THEN beats[r] + 1 ELSE beats[r]
    <3>1. below[r] = 0 /\ got[r] = 0 /\ beats[r] = 0 /\ ~Emitting(r)
      BY DEF Init, Emitting
    <3> QED
      BY <3>1, CeilZero
  <2> QED
    BY <2>1, <2>2, <2>3 DEF Counted
<1>4. Timed
  BY DEF Init, Timed, Within
<1> QED
  BY <1>1, <1>2, <1>3, <1>4 DEF IInv

LEMMA NotABeat == NoBeat \notin Beat
<1>1. \A b \in Beat : DOMAIN b = {"req", "offset", "size", "ready", "is_first", "is_last"}
  BY DEF Beat
<1>2. DOMAIN NoBeat = {"req"}
  BY DEF NoBeat
<1> QED
  BY <1>1, <1>2

LEMMA InvFromIInv == IInv => Inv
<1> SUFFICES ASSUME IInv PROVE Inv
  OBVIOUS
<1> USE DEF IInv
<1>1. \A r \in Reqs : Size[r] \in Nat \ {0}
  BY SizeNat
<1>2. TypeOK
  <2>1. \A r \in Reqs : /\ in_flight[r] \in -1 .. (Size[r] - 1)
                        /\ st[r] \in {"idle", "denied", "retrying", "granted"}
                        /\ got[r] \in 0 .. Size[r] /\ below[r] \in 0 .. Size[r]
    BY <1>1 DEF TypesOK, Stream, States
  <2>2. \A i \in DOMAIN pending : pending[i].req \in Reqs /\ pending[i].size \in 1 .. beat_width
    BY QueueIndex, BeatTypes DEF TypesOK
  <2>3. /\ fsm >= -1 /\ owes \in BOOLEAN /\ handler \in {"idle", "loop", "emit", "resp"}
        /\ handler = "emit" <=> ev # NoBeat
    BY NotABeat DEF TypesOK
  <2>4. fsm > 1 => \E c \in Latencies \cup {Ceil(Size[r]) : r \in Reqs} : fsm <= c
    BY DEF Timed, Within, TypesOK
  <2> QED
    BY <2>1, <2>2, <2>3, <2>4 DEF TypeOK
<1>3. StreamOrder
  <2> SUFFICES ASSUME NEW r \in Reqs
               PROVE  /\ in_flight[r] = IF below[r] > 0 THEN Size[r] - below[r] ELSE -1
                      /\ st[r] = "granted" =>
                           /\ \A i \in Places(r) :
                                /\ pending[i].is_first <=> 0 \in BytesAt(i)
                                /\ pending[i].is_last <=> Size[r] - 1 \in BytesAt(i)
                           /\ \A i, j \in Places(r) :
                                i < j => pending[i].offset + pending[i].size <= pending[j].offset
                           /\ UNION {BytesAt(i) : i \in Places(r)} =
                                got[r] .. (Size[r] - below[r] - 1)
                           /\ got[r] + below[r] <= Size[r]
                           /\ Places(r) # {} \/ below[r] > 0 \/ (Emitting(r) /\ ev.is_last)
                      /\ Whole /\ ~Emitting(r) => beats[r] = Ceil(got[r])
                      /\ st[r] # "granted" => Places(r) = {} /\ below[r] = 0
    BY DEF StreamOrder, Emitting, Whole
  <2>1. Stream(r) /\ got[r] \in Nat /\ below[r] \in Nat /\ Size[r] \in Nat /\ pending \in Seq(Beat)
    BY <1>1 DEF TypesOK
  <2>2. ASSUME st[r] = "granted", NEW i \in Places(r)
        PROVE  /\ pending[i].is_first <=> 0 \in BytesAt(i)
               /\ pending[i].is_last <=> Size[r] - 1 \in BytesAt(i)
    <3>1. i \in DOMAIN pending /\ pending[i] \in Beat /\ pending[i].req = r
      BY <2>1, QueueIndex DEF Places
    <3>2. /\ pending[i].offset \in Nat /\ pending[i].size \in Nat \ {0}
          /\ End(pending[i]) = pending[i].offset + pending[i].size
      BY <3>1, BeatTypes
    <3>3. End(pending[i]) <= Size[r]
      <4>1. End(pending[i]) <= Size[r] - below[r]
        BY <2>1, <2>2, <3>1 DEF Stream, Chain
      <4> QED
        BY <2>1, <3>2, <4>1
    <3>4. (pending[i].offset = 0) <=> 0 \in BytesAt(i)
      BY <3>2 DEF BytesAt
    <3>5. (End(pending[i]) = Size[r]) <=> Size[r] - 1 \in BytesAt(i)
      <4>1. PICK o \in Nat, z \in Nat \ {0} : o = pending[i].offset /\ z = pending[i].size
        BY <3>2
      <4>2. BytesAt(i) = o .. (o + z - 1) /\ End(pending[i]) = o + z
        BY <3>2, <4>1 DEF BytesAt
      <4>3. Size[r] - 1 \in o .. (o + z - 1) <=> o + z = Size[r]
        BY <2>1, <3>3, <4>2
      <4> QED
        BY ONLY <4>2, <4>3
    <3>6. Mark(pending[i])
      BY <3>1 DEF Marked
    <3>7. /\ pending[i].is_first = (pending[i].offset = 0)
          /\ pending[i].is_last = (End(pending[i]) = Size[r])
      BY <3>1, <3>6 DEF Mark
    <3> QED
      BY ONLY <3>4, <3>5, <3>7
  <2>3. ASSUME st[r] = "granted", NEW i \in Places(r), NEW j \in Places(r), i < j
        PROVE  pending[i].offset + pending[i].size <= pending[j].offset
    BY <2>1, <2>3 DEF Stream, Chain, Places, End
  <2>4. st[r] = "granted" =>
          UNION {BytesAt(i) : i \in Places(r)} = got[r] .. (Size[r] - below[r] - 1)
    <3>1. SUFFICES ASSUME st[r] = "granted"
                   PROVE  UNION {BytesAt(i) : i \in Places(r)} = got[r] .. (Size[r] - below[r] - 1)
      OBVIOUS
    <3>2. PICK to \in Nat : to = Size[r] - below[r]
      BY <2>1 DEF Stream
    <3>3. Chain(pending, r, got[r], to)
      BY <2>1, <3>1, <3>2 DEF Stream
    <3>4. UNION {BytesAt(i) : i \in Places(r)} = got[r] .. (to - 1)
      BY <2>1, <3>3, ChainBytes
    <3> QED
      BY <3>2, <3>4
  <2>5. Without(pending, r) <=> Places(r) = {}
    BY DEF Without, Places
  <2>6. st[r] = "granted" =>
          Places(r) # {} \/ below[r] > 0 \/ (Emitting(r) /\ ev.is_last)
    <3>1. SUFFICES ASSUME st[r] = "granted", Places(r) = {}, ~(below[r] > 0)
                   PROVE  Emitting(r) /\ ev.is_last
      OBVIOUS
    <3>2. below[r] = 0 /\ Chain(pending, r, got[r], Size[r]) /\ got[r] <= Size[r]
      BY <2>1, <3>1 DEF Stream
    <3>3. got[r] = Size[r]
      BY <2>1, <2>5, <3>1, <3>2, ChainEnds
    <3> QED
      BY <2>1, <3>1, <3>3 DEF Stream
  <2>7. Whole /\ ~Emitting(r) => beats[r] = Ceil(got[r])
    BY DEF Counted
  <2> QED
    BY <2>1, <2>2, <2>3, <2>4, <2>5, <2>6, <2>7 DEF Stream
<1>4. Armed
  <2>1. pending # <<>> => Head(pending).ready \in Int
    BY Delay DEF TypesOK
  <2> QED
    BY <2>1 DEF Armed, Timed, TypesOK
<1> QED
  BY <1>2, <1>3, <1>4 DEF Inv----------------------------------------------------------------------------
(* What schedule_chunk adds to the queue.                                  *)

LEMMA ChainApart ==
    ASSUME NEW q \in Seq(Beat), NEW c \in Seq(Beat), NEW x, NEW s, s = q \o c, Without(c, x),
           NEW from \in Int, NEW to \in Int, from <= to, Chain(q, x, from, to)
    PROVE  Chain(s, x, from, to)
<1>1. Chain(c, x, to, to) /\ to <= to
  BY ChainNone
<1> QED
  BY ONLY <1>1, ChainJoin, from \in Int, to \in Int, from <= to, Chain(q, x, from, to), s = q \o c,
          q \in Seq(Beat), c \in Seq(Beat)

LEMMA WithoutApart ==
    ASSUME NEW q \in Seq(Beat), NEW c \in Seq(Beat), NEW x, NEW s, s = q \o c, Without(c, x),
           Without(q, x)
    PROVE  Without(s, x)
<1>1. ASSUME NEW i \in DOMAIN s PROVE s[i].req # x
  <2>1. \/ i \in DOMAIN q /\ s[i] = q[i]
        \/ i - Len(q) \in DOMAIN c /\ s[i] = c[i - Len(q)]
    BY JoinIndex
  <2> QED
    BY <2>1 DEF Without
<1> QED
  BY <1>1 DEF Without

LEMMA CutChain ==
    ASSUME NEW r \in Reqs, NEW routed \in Nat, NEW size \in Nat \ {0}, NEW latency \in Nat,
           NEW c, c = Cut(r, routed, size, latency)
    PROVE  /\ c \in Seq(Beat) /\ c # <<>> /\ Head(c).ready \in Nat \ {0}
           /\ Chain(c, r, routed, routed + size)
           /\ \A x : x # r => Without(c, x)
           /\ \A i \in DOMAIN c : Mark(c[i])
<1>1. PICK n : n = Ceil(size)
  OBVIOUS
<1>2. /\ c \in Seq(Beat) /\ c # <<>> /\ Head(c) = c[1] /\ DOMAIN c = 1 .. n
      /\ c[1].ready \in Nat \ {0}
  <2>1. c \in Seq(Beat)
    BY ONLY <1>1, CutQueue, r \in Reqs, routed \in Nat, size \in Nat \ {0}, latency \in Nat,
            c = Cut(r, routed, size, latency)
  <2>2. c # <<>>
    BY ONLY <1>1, CutQueue, r \in Reqs, routed \in Nat, size \in Nat \ {0}, latency \in Nat,
            c = Cut(r, routed, size, latency)
  <2>3. Head(c) = c[1]
    BY ONLY <1>1, CutQueue, r \in Reqs, routed \in Nat, size \in Nat \ {0}, latency \in Nat,
            c = Cut(r, routed, size, latency)
  <2>4. DOMAIN c = 1 .. n
    BY ONLY <1>1, CutQueue, r \in Reqs, routed \in Nat, size \in Nat \ {0}, latency \in Nat,
            c = Cut(r, routed, size, latency)
  <2>5. c[1].ready \in Nat \ {0}
    BY ONLY <1>1, CutQueue, r \in Reqs, routed \in Nat, size \in Nat \ {0}, latency \in Nat,
            c = Cut(r, routed, size, latency)
  <2> QED
    BY <2>1, <2>2, <2>3, <2>4, <2>5
<1>3. ASSUME NEW i \in 1 .. n
      PROVE  /\ c[i].req = r /\ routed <= c[i].offset /\ End(c[i]) <= routed + size
             /\ c[i].is_first = (c[i].offset = 0)
             /\ c[i].is_last = (End(c[i]) = Size[r])
  <2>1. BeatOf(c[i], r)
    BY ONLY <1>1, i \in 1 .. n, r \in Reqs, routed \in Nat, size \in Nat \ {0}, latency \in Nat,
            c = Cut(r, routed, size, latency), CutBeat
  <2>2. routed <= c[i].offset /\ End(c[i]) <= routed + size
    BY <1>1, CutEach
  <2> QED
    BY <2>1, <2>2 DEF BeatOf
<1>4. \A i, j \in 1 .. n : i < j => End(c[i]) <= c[j].offset
  BY <1>1, CutOrder
<1>5. ASSUME NEW b \in routed .. (routed + size - 1)
      PROVE  \E i \in 1 .. n : c[i].offset <= b /\ b < End(c[i])
  BY ONLY <1>1, r \in Reqs, routed \in Nat, size \in Nat \ {0}, latency \in Nat,
          c = Cut(r, routed, size, latency), b \in routed .. (routed + size - 1), CutCovers
<1>6. Chain(c, r, routed, routed + size)
  <2>1. \A i \in DOMAIN c : c[i].req = r => routed <= c[i].offset /\ End(c[i]) <= routed + size
    BY <1>2, <1>3
  <2>2. \A b \in routed .. (routed + size - 1) :
          \E i \in DOMAIN c : c[i].req = r /\ c[i].offset <= b /\ b < End(c[i])
    BY <1>2, <1>3, <1>5
  <2>3. \A i, j \in DOMAIN c : c[i].req = r /\ c[j].req = r /\ i < j => End(c[i]) <= c[j].offset
    BY <1>2, <1>4
  <2> QED
    BY <2>1, <2>2, <2>3 DEF Chain
<1>7. \A x : x # r => Without(c, x)
  BY <1>2, <1>3 DEF Without
<1>8. ASSUME NEW i \in DOMAIN c PROVE Mark(c[i])
  <2>1. i \in 1 .. n
    BY <1>2
  <2>2. c[i].req = r
    BY <1>3, <2>1
  <2>3. c[i].is_first = (c[i].offset = 0)
    BY <1>3, <2>1
  <2>4. c[i].is_last = (End(c[i]) = Size[c[i].req])
    BY <1>3, <2>1, <2>2
  <2> QED
    BY <2>3, <2>4 DEF Mark
<1> QED
  BY <1>2, <1>6, <1>7, <1>8

LEMMA CutWithin ==
    ASSUME NEW r \in Reqs, NEW routed \in Nat, NEW size \in Nat \ {0}, NEW latency \in Latencies,
           size <= Size[r], NEW c, c = Cut(r, routed, size, latency), NEW i \in DOMAIN c
    PROVE  Within(c[i].ready)
<1>1. PICK n : n = Ceil(size)
  OBVIOUS
<1>2. i \in 1 .. n /\ c[i] \in Beat
  <2>1. latency \in Nat
    OBVIOUS
  <2>2. c \in Seq(Beat) /\ DOMAIN c = 1 .. n
    BY <1>1, <2>1, CutQueue
  <2> QED
    BY <2>2, QueueIndex
<1>3. c[i].ready <= latency \/ c[i].ready <= n
  <2>1. latency \in Nat
    OBVIOUS
  <2> QED
    BY <1>1, <1>2, <2>1, CutEach
<1>4. n \in Nat /\ n <= Ceil(Size[r]) /\ Ceil(Size[r]) \in Nat
  BY <1>1, SizeNat, CeilBounds, CeilMonotone
<1>5. c[i].ready \in Int
  BY <1>2, BeatTypes
<1>6. CASE c[i].ready <= latency
  BY <1>6 DEF Within
<1>7. CASE c[i].ready <= n
  <2>1. c[i].ready <= Ceil(Size[r])
    BY <1>4, <1>5, <1>7
  <2> QED
    BY <2>1 DEF Within
<1> QED
  BY <1>3, <1>6, <1>7

LEMMA CutEven ==
    ASSUME NEW r \in Reqs, NEW routed \in Nat, NEW size \in Nat \ {0}, NEW latency \in Nat,
           Even(routed), NEW c, c = Cut(r, routed, size, latency), NEW i \in DOMAIN c
    PROVE  Even(c[i].offset)
<1>1. PICK n : n = Ceil(size)
  OBVIOUS
<1>2. DOMAIN c = 1 .. n
  BY ONLY <1>1, CutQueue, r \in Reqs, routed \in Nat, size \in Nat \ {0}, latency \in Nat,
          c = Cut(r, routed, size, latency), SMTT(40)
<1>3. i \in 1 .. n
  BY <1>2
<1>4. c[i].offset = routed + (i - 1) * beat_width
  <2>1. c[i].offset = routed + Gap(i)
    BY ONLY <1>1, <1>3, r \in Reqs, routed \in Nat, size \in Nat \ {0}, latency \in Nat,
            c = Cut(r, routed, size, latency), CutBeat
  <2> QED
    BY ONLY <2>1 DEF Gap
<1>5. PICK m \in Nat : routed = beat_width * m
  BY DEF Even
<1>6. n \in Nat /\ m + (i - 1) \in Nat
  BY <1>1, <1>3, CeilBounds
<1>7. c[i].offset = beat_width * (m + (i - 1))
  BY <1>3, <1>4, <1>5, <1>6, ProductOrder
<1> QED
  BY <1>6, <1>7 DEF Even

(* schedule_chunk keeps the marks and the times, and arms the event.       *)
LEMMA ScheduleKeeps ==
    ASSUME NEW r \in Reqs, NEW routed \in Nat, NEW size \in Nat \ {0}, NEW latency \in Latencies,
           routed + size <= Size[r], TypesOK, Marked, Timed,
           handler \in {"idle", "resp"}, handler' = handler,
           schedule_chunk(r, routed, size, latency),
           NEW c, c = Cut(r, routed, size, latency)
    PROVE  /\ pending' = pending \o c /\ pending' \in Seq(Beat)
           /\ fsm' \in Int /\ fsm' >= -1 /\ Marked' /\ Timed'
<1>1. /\ pending \in Seq(Beat) /\ fsm \in Int /\ fsm >= -1
      /\ Size[r] \in Nat /\ latency \in Nat
  BY SizeNat DEF TypesOK
<1>2. PICK s : s = pending \o c
  OBVIOUS
<1>3. pending' = s /\ fsm' = reschedule_fsm(s)
  BY <1>2 DEF schedule_chunk
<1>4. /\ c \in Seq(Beat) /\ c # <<>> /\ Head(c).ready \in Nat \ {0}
      /\ \A i \in DOMAIN c : Mark(c[i])
  BY <1>1, CutChain
<1>5. \A i \in DOMAIN c : Within(c[i].ready)
  BY <1>1, CutWithin
<1>6. /\ s \in Seq(Beat) /\ s # <<>>
      /\ pending # <<>> => Head(s) = Head(pending)
      /\ pending = <<>> => Head(s) = Head(c)
      /\ \A i \in DOMAIN s : \/ i \in DOMAIN pending /\ s[i] = pending[i]
                             \/ i - Len(pending) \in DOMAIN c /\ s[i] = c[i - Len(pending)]
  <2>1. pending \in Seq(Beat) /\ c \in Seq(Beat) /\ s = pending \o c /\ c # <<>>
    BY <1>1, <1>2, <1>4
  <2> QED
    BY ONLY <2>1, JoinIndex
<1>7. \A i \in DOMAIN s : Mark(s[i])
  BY <1>4, <1>6 DEF Marked
<1>8. \A i \in DOMAIN s : Within(s[i].ready)
  BY <1>5, <1>6 DEF Timed
<1>9. /\ Head(s).ready \in Int
      /\ HeadDelay(s) = IF Head(s).ready >= 1 THEN Head(s).ready ELSE 1
      /\ HeadDelay(s) \in Nat \ {0}
  BY <1>6, Delay
<1>10. 1 \in DOMAIN s /\ Head(s) = s[1]
  BY <1>6, QueueIndex
<1>11. Within(HeadDelay(s))
  <2>1. Within(Head(s).ready)
    BY <1>8, <1>10
  <2> QED
    BY <1>9, <2>1 DEF Within
<1>12. fsm' = IF fsm # -1 THEN fsm ELSE HeadDelay(s)
  BY <1>3, <1>6 DEF reschedule_fsm
<1>13. fsm' \in Int /\ fsm' >= -1 /\ Within(fsm')
  BY <1>1, <1>9, <1>11, <1>12 DEF Timed
<1>14. IF handler = "idle" THEN 0 <= fsm' /\ fsm' <= Head(s).ready ELSE fsm' <= HeadDelay(s)
  <2>1. CASE pending = <<>>
    <3>1. fsm <= 1 /\ Head(s).ready \in Nat \ {0} /\ HeadDelay(s) = Head(s).ready
      BY <1>4, <1>6, <1>9, <2>1 DEF Timed
    <3> QED
      BY <1>1, <1>12, <3>1
  <2>2. CASE pending # <<>> /\ handler = "idle"
    <3>1. 0 <= fsm /\ fsm <= Head(s).ready
      BY <1>6, <2>2 DEF Timed
    <3> QED
      BY <1>1, <1>12, <2>2, <3>1
  <2>3. CASE pending # <<>> /\ handler = "resp"
    <3>1. HeadDelay(pending) = HeadDelay(s)
      BY <1>6, <2>3 DEF HeadDelay
    <3>2. fsm <= HeadDelay(s)
      BY <2>3, <3>1 DEF Timed
    <3> QED
      BY <1>1, <1>9, <1>12, <2>3, <3>2
  <2> QED
    BY <2>1, <2>2, <2>3
<1>15. Marked'
  BY <1>3, <1>7 DEF Marked
<1>16. Timed'
  BY <1>3, <1>6, <1>8, <1>13, <1>14 DEF Timed
<1> QED
  BY <1>2, <1>3, <1>6, <1>13, <1>15, <1>16----------------------------------------------------------------------------
(* Every step keeps the inductive invariant.  What a request keeps when the*)
(* step is about another one.                                              *)

LEMMA StreamSame ==
    ASSUME NEW x \in Reqs, Stream(x), pending' = pending, in_flight'[x] = in_flight[x],
           st'[x] = st[x], got'[x] = got[x], below'[x] = below[x], ~Emitting(x), ~Emitting(x)'
    PROVE  Stream(x)'
BY DEF Stream

LEMMA StreamApart ==
    ASSUME NEW x \in Reqs, Stream(x), NEW c \in Seq(Beat), pending \in Seq(Beat),
           pending' = pending \o c, Without(c, x), got[x] \in Nat, below[x] \in Nat,
           in_flight'[x] = in_flight[x],
           st'[x] = st[x], got'[x] = got[x], below'[x] = below[x], ~Emitting(x), ~Emitting(x)'
    PROVE  Stream(x)'
<1>1. Size[x] \in Nat
  BY SizeNat
<1>2. PICK s : s = pending \o c
  OBVIOUS
<1>3. st[x] # "granted" => Without(s, x)
  BY <1>2, WithoutApart DEF Stream
<1>4. st[x] = "granted" => Chain(s, x, got[x], Size[x] - below[x])
  <2>1. SUFFICES ASSUME st[x] = "granted" PROVE Chain(s, x, got[x], Size[x] - below[x])
    OBVIOUS
  <2>2. PICK from, to : from = got[x] /\ to = Size[x] - below[x]
    OBVIOUS
  <2>3. from \in Int /\ to \in Int /\ from <= to /\ Chain(pending, x, from, to)
    BY <1>1, <2>1, <2>2 DEF Stream
  <2>4. Chain(s, x, from, to)
    BY <1>2, <2>3, ChainApart
  <2> QED
    BY <2>2, <2>4
<1> QED
  BY <1>2, <1>3, <1>4 DEF Stream

LEMMA CountedSame ==
    ASSUME NEW x \in Reqs, Counted, below'[x] = below[x], got'[x] = got[x], beats'[x] = beats[x],
           Emitting(x)' = Emitting(x)
    PROVE  (/\ below[x] > 0 => Even(Size[x] - below[x])
            /\ Ceil(got[x]) = IF Emitting(x) THEN beats[x] + 1 ELSE beats[x])'
BY DEF Counted, Ceil

LEMMA EvenZero == Even(0)
<1>1. 0 = beat_width * 0
  OBVIOUS
<1> QED
  BY <1>1 DEF Even

(* The beats of a chunk that starts at a beat.                             *)
LEMMA ScheduleEven ==
    ASSUME NEW r \in Reqs, NEW routed \in Nat, NEW size \in Nat \ {0}, NEW latency \in Nat,
           Even(routed), NEW c, c = Cut(r, routed, size, latency), pending \in Seq(Beat),
           c \in Seq(Beat), pending' = pending \o c, Counted, NEW i \in DOMAIN pending'
    PROVE  Even(pending'[i].offset)
<1>1. PICK s : s = pending \o c
  OBVIOUS
<1>2. \/ i \in DOMAIN pending /\ s[i] = pending[i]
      \/ i - Len(pending) \in DOMAIN c /\ s[i] = c[i - Len(pending)]
  <2>1. i \in DOMAIN s
    BY <1>1
  <2> QED
    BY <1>1, <2>1, JoinIndex
<1>3. CASE i \in DOMAIN pending /\ s[i] = pending[i]
  BY <1>1, <1>3 DEF Counted
<1>4. CASE i - Len(pending) \in DOMAIN c /\ s[i] = c[i - Len(pending)]
  <2>1. PICK k \in DOMAIN c : k = i - Len(pending)
    BY <1>4
  <2>2. Even(c[k].offset)
    BY CutEven
  <2> QED
    BY <1>1, <1>4, <2>1, <2>2
<1> QED
  BY <1>2, <1>3, <1>4

LEMMA DoneKeeps ==
    ASSUME IInv, NEW r \in Reqs, NEW latency \in Latencies, RequestDone(r, latency),
           handler \in {"idle", "resp"}, st[r] \in {"idle", "retrying"},
           got' = [got EXCEPT ![r] = 0], beats' = [beats EXCEPT ![r] = 0],
           handler' = handler, ev' = ev
    PROVE  IInv'
<1>1. PICK c : c = Cut(r, 0, Size[r], latency)
  OBVIOUS
<1>2. /\ TypesOK /\ Marked /\ Timed /\ pending \in Seq(Beat) /\ latency \in Nat
      /\ Size[r] \in Nat \ {0} /\ 0 + Size[r] = Size[r] /\ Size[r] <= Size[r]
  BY SizeNat DEF IInv, TypesOK
<1>3. /\ schedule_chunk(r, 0, Size[r], latency)
      /\ st' = [st EXCEPT ![r] = "granted"] /\ below' = below /\ owes' = owes
  BY DEF RequestDone
<1>4. in_flight' = [in_flight EXCEPT ![r] = -1]
  BY <1>2, <1>3 DEF schedule_chunk, Routed
<1>5. /\ pending' = pending \o c /\ pending' \in Seq(Beat)
      /\ fsm' \in Int /\ fsm' >= -1 /\ Marked' /\ Timed'
  <2>1. PICK z \in Nat \ {0} : z = Size[r]
    BY <1>2
  <2>2. c = Cut(r, 0, z, latency) /\ schedule_chunk(r, 0, z, latency) /\ 0 + z <= Size[r]
    BY <1>1, <1>2, <1>3, <2>1
  <2> QED
    BY <1>2, <2>2, ScheduleKeeps
<1>6. /\ c \in Seq(Beat) /\ Chain(c, r, 0, 0 + Size[r])
      /\ \A x : x # r => Without(c, x)
  <2>1. PICK z \in Nat \ {0}, lat \in Nat : z = Size[r] /\ lat = latency
    BY <1>2
  <2>2. c = Cut(r, 0, z, lat) /\ 0 \in Nat
    BY <1>1, <2>1
  <2>3. c \in Seq(Beat)
    BY ONLY r \in Reqs, z \in Nat \ {0}, lat \in Nat, <2>2, CutChain
  <2>4. Chain(c, r, 0, 0 + z)
    BY ONLY r \in Reqs, z \in Nat \ {0}, lat \in Nat, <2>2, CutChain
  <2>5. \A x : x # r => Without(c, x)
    BY ONLY r \in Reqs, z \in Nat \ {0}, lat \in Nat, <2>2, CutChain
  <2> QED
    BY <2>1, <2>3, <2>4, <2>5
<1>7. TypesOK'
  BY <1>2, <1>3, <1>4, <1>5 DEF TypesOK, States
<1>8. \A x \in Reqs : ~Emitting(x) /\ ~Emitting(x)'
  BY DEF Emitting
<1>9. ASSUME NEW x \in Reqs PROVE Stream(x)'
  <2>1. CASE x # r
    <3>1. /\ Stream(x) /\ Without(c, x) /\ got[x] \in Nat /\ below[x] \in Nat
          /\ in_flight'[x] = in_flight[x] /\ st'[x] = st[x] /\ got'[x] = got[x]
          /\ below'[x] = below[x]
      BY <1>2, <1>3, <1>4, <1>6, <2>1 DEF IInv, TypesOK
    <3> QED
      BY <1>2, <1>5, <1>6, <1>8, <3>1, StreamApart
  <2>2. CASE x = r
    <3>1. Without(pending, r) /\ below[r] = 0
      BY DEF IInv, Stream
    <3>2. /\ in_flight'[r] = -1 /\ st'[r] = "granted" /\ got'[r] = 0 /\ below'[r] = 0
      BY <1>2, <1>3, <1>4, <3>1 DEF TypesOK
    <3>3. Chain(pending, r, 0, 0)
      BY <3>1, ChainNone
    <3>4. PICK s : s = pending \o c
      OBVIOUS
    <3>5. PICK z : z = Size[r]
      OBVIOUS
    <3>6. z \in Int /\ 0 <= 0 /\ 0 <= z /\ Chain(c, r, 0, z)
      BY <1>2, <1>6, <3>5
    <3>7. Chain(s, r, 0, z)
      BY ONLY <1>2, <1>6, <3>3, <3>4, <3>6, ChainJoin, 0 \in Int
    <3>8. Chain(pending', r, got'[r], Size[r] - below'[r])
      BY <1>2, <1>5, <3>2, <3>4, <3>5, <3>7
    <3> QED
      BY <1>2, <1>8, <2>2, <3>2, <3>8 DEF Stream
  <2> QED
    BY <2>1, <2>2
<1>10. ASSUME Whole PROVE Counted'
  <2>1. Counted
    BY <1>10 DEF IInv
  <2>2. \A i \in DOMAIN pending' : Even(pending'[i].offset)
    BY <1>1, <1>2, <1>5, <1>6, <2>1, EvenZero, ScheduleEven
  <2>3. ASSUME NEW x \in Reqs
        PROVE  (/\ below[x] > 0 => Even(Size[x] - below[x])
                /\ Ceil(got[x]) = IF Emitting(x) THEN beats[x] + 1 ELSE beats[x])'
    <3>1. CASE x # r
      <4>1. got'[x] = got[x] /\ below'[x] = below[x] /\ beats'[x] = beats[x]
        BY <1>2, <1>3, <3>1 DEF TypesOK
      <4>2. Emitting(x)' = Emitting(x)
        BY DEF Emitting
      <4> QED
        BY <2>1, <4>1, <4>2, CountedSame
    <3>2. CASE x = r
      <4>1. got'[r] = 0 /\ below'[r] = 0 /\ beats'[r] = 0
        BY <1>2, <1>3 DEF TypesOK, IInv, Stream
      <4> QED
        BY <1>8, <3>2, <4>1, CeilZero DEF Ceil
    <3> QED
      BY <3>1, <3>2
  <2> QED
    BY <2>2, <2>3 DEF Counted
<1> QED
  BY <1>5, <1>7, <1>9, <1>10 DEF IInv
LEMMA GrantedKeeps ==
    ASSUME IInv, NEW r \in Reqs, RequestGranted(r),
           handler \in {"idle", "resp"}, st[r] \in {"idle", "retrying"},
           got' = [got EXCEPT ![r] = 0], beats' = [beats EXCEPT ![r] = 0],
           handler' = handler, ev' = ev
    PROVE  IInv'
<1>1. TypesOK /\ Marked /\ Timed /\ pending \in Seq(Beat) /\ Size[r] \in Nat \ {0}
  BY SizeNat DEF IInv, TypesOK
<1>2. /\ in_flight' = [in_flight EXCEPT ![r] = 0] /\ below' = [below EXCEPT ![r] = Size[r]]
      /\ st' = [st EXCEPT ![r] = "granted"] /\ pending' = pending /\ fsm' = fsm /\ owes' = owes
  BY DEF RequestGranted
<1>3. TypesOK'
  BY <1>1, <1>2 DEF TypesOK, States
<1>4. \A x \in Reqs : ~Emitting(x) /\ ~Emitting(x)'
  BY DEF Emitting
<1>5. ASSUME NEW x \in Reqs PROVE Stream(x)'
  <2>1. CASE x # r
    <3>1. /\ Stream(x) /\ in_flight'[x] = in_flight[x] /\ st'[x] = st[x] /\ got'[x] = got[x]
          /\ below'[x] = below[x]
      BY <1>1, <1>2, <2>1 DEF IInv, TypesOK
    <3> QED
      BY <1>2, <1>4, <3>1, StreamSame
  <2>2. CASE x = r
    <3>1. /\ in_flight'[r] = 0 /\ st'[r] = "granted" /\ got'[r] = 0 /\ below'[r] = Size[r]
          /\ Size[r] - Size[r] = 0
      BY <1>1, <1>2 DEF TypesOK
    <3>2. Chain(pending, r, 0, 0)
      BY ChainNone DEF IInv, Stream
    <3>3. Chain(pending', r, got'[r], Size[r] - below'[r])
      BY <1>2, <3>1, <3>2
    <3> QED
      BY <1>1, <1>4, <2>2, <3>1, <3>3 DEF Stream
  <2> QED
    BY <2>1, <2>2
<1>6. ASSUME Whole PROVE Counted'
  <2>1. Counted
    BY <1>6 DEF IInv
  <2>2. \A i \in DOMAIN pending' : Even(pending'[i].offset)
    BY <1>2, <2>1 DEF Counted
  <2>3. ASSUME NEW x \in Reqs
        PROVE  (/\ below[x] > 0 => Even(Size[x] - below[x])
                /\ Ceil(got[x]) = IF Emitting(x) THEN beats[x] + 1 ELSE beats[x])'
    <3>1. CASE x # r
      <4>1. got'[x] = got[x] /\ below'[x] = below[x] /\ beats'[x] = beats[x]
        BY <1>1, <1>2, <3>1 DEF TypesOK
      <4>2. Emitting(x)' = Emitting(x)
        BY DEF Emitting
      <4> QED
        BY <2>1, <4>1, <4>2, CountedSame
    <3>2. CASE x = r
      <4>1. got'[r] = 0 /\ Size[r] - below'[r] = 0 /\ beats'[r] = 0
        BY <1>1, <1>2 DEF TypesOK
      <4> QED
        BY <1>4, <3>2, <4>1, CeilZero, EvenZero DEF Ceil
    <3> QED
      BY <3>1, <3>2
  <2> QED
    BY <2>2, <2>3 DEF Counted
<1>7. Marked' /\ Timed'
  BY <1>1, <1>2 DEF Marked, Mark, Timed, Within, HeadDelay
<1> QED
  BY <1>3, <1>5, <1>6, <1>7 DEF IInv

LEMMA DeniedKeeps ==
    ASSUME IInv, NEW r \in Reqs, RequestDenied(r),
           handler \in {"idle", "resp"}, st[r] \in {"idle", "retrying"},
           got' = [got EXCEPT ![r] = 0], beats' = [beats EXCEPT ![r] = 0],
           handler' = handler, ev' = ev
    PROVE  IInv'
<1>1. TypesOK /\ Marked /\ Timed /\ pending \in Seq(Beat) /\ Size[r] \in Nat \ {0}
  BY SizeNat DEF IInv, TypesOK
<1>2. /\ in_flight' = [in_flight EXCEPT ![r] = -1] /\ below' = below
      /\ st' = [st EXCEPT ![r] = "denied"] /\ pending' = pending /\ fsm' = fsm
  BY DEF RequestDenied
<1>3. TypesOK'
  <2>1. owes' \in BOOLEAN
    BY DEF RequestDenied
  <2> QED
    BY <1>1, <1>2, <2>1 DEF TypesOK, States
<1>4. \A x \in Reqs : ~Emitting(x) /\ ~Emitting(x)'
  BY DEF Emitting
<1>5. ASSUME NEW x \in Reqs PROVE Stream(x)'
  <2>1. CASE x # r
    <3>1. /\ Stream(x) /\ in_flight'[x] = in_flight[x] /\ st'[x] = st[x] /\ got'[x] = got[x]
          /\ below'[x] = below[x]
      BY <1>1, <1>2, <2>1 DEF IInv, TypesOK
    <3> QED
      BY <1>2, <1>4, <3>1, StreamSame
  <2>2. CASE x = r
    <3>1. Without(pending, r) /\ below[r] = 0
      BY DEF IInv, Stream
    <3>2. in_flight'[r] = -1 /\ st'[r] = "denied" /\ got'[r] = 0 /\ below'[r] = 0
      BY <1>1, <1>2, <3>1 DEF TypesOK
    <3> QED
      BY <1>1, <1>2, <1>4, <2>2, <3>1, <3>2 DEF Stream
  <2> QED
    BY <2>1, <2>2
<1>6. ASSUME Whole PROVE Counted'
  <2>1. Counted
    BY <1>6 DEF IInv
  <2>2. \A i \in DOMAIN pending' : Even(pending'[i].offset)
    BY <1>2, <2>1 DEF Counted
  <2>3. ASSUME NEW x \in Reqs
        PROVE  (/\ below[x] > 0 => Even(Size[x] - below[x])
                /\ Ceil(got[x]) = IF Emitting(x) THEN beats[x] + 1 ELSE beats[x])'
    <3>1. CASE x # r
      <4>1. got'[x] = got[x] /\ below'[x] = below[x] /\ beats'[x] = beats[x]
        BY <1>1, <1>2, <3>1 DEF TypesOK
      <4>2. Emitting(x)' = Emitting(x)
        BY DEF Emitting
      <4> QED
        BY <2>1, <4>1, <4>2, CountedSame
    <3>2. CASE x = r
      <4>1. got'[r] = 0 /\ below'[r] = 0 /\ beats'[r] = 0
        BY <1>1, <1>2 DEF TypesOK, IInv, Stream
      <4> QED
        BY <1>4, <3>2, <4>1, CeilZero DEF Ceil
    <3> QED
      BY <3>1, <3>2
  <2> QED
    BY <2>2, <2>3 DEF Counted
<1>7. Marked' /\ Timed'
  BY <1>1, <1>2 DEF Marked, Mark, Timed, Within, HeadDelay
<1> QED
  BY <1>3, <1>5, <1>6, <1>7 DEF IInv

LEMMA req_handlerKeeps ==
    ASSUME IInv, NEW r \in Reqs, req_handler(r)
    PROVE  IInv'
<1>1. /\ handler \in {"idle", "resp"} /\ st[r] \in {"idle", "retrying"}
      /\ got' = [got EXCEPT ![r] = 0] /\ beats' = [beats EXCEPT ![r] = 0]
      /\ handler' = handler /\ ev' = ev
  BY DEF req_handler
<1>2. ASSUME NEW latency \in Latencies, RequestDone(r, latency) PROVE IInv'
  BY <1>1, <1>2, DoneKeeps
<1>3. CASE RequestGranted(r)
  BY <1>1, <1>3, GrantedKeeps
<1>4. CASE RequestDenied(r)
  BY <1>1, <1>4, DeniedKeeps
<1> QED
  BY <1>2, <1>3, <1>4 DEF req_handler

(* A chunk of whole beats ends at a beat.                                  *)
LEMMA EvenSum ==
    ASSUME NEW x \in Nat, Even(x), NEW z \in Nat, z % beat_width = 0
    PROVE  Even(x + z)
<1>1. PICK k \in Nat : x = beat_width * k
  BY DEF Even
<1>2. PICK m \in Nat : z = beat_width * m
  <2>1. z \div beat_width \in Nat /\ z = beat_width * (z \div beat_width)
    OBVIOUS
  <2> QED
    BY <2>1
<1>3. x + z = beat_width * (k + m) /\ k + m \in Nat
  BY <1>1, <1>2, ProductOrder
<1> QED
  BY <1>3 DEF Even
LEMMA resp_handlerKeeps ==
    ASSUME IInv, NEW r \in Reqs, NEW size \in {below[r]} \cup Chunks, NEW latency \in Latencies,
           resp_handler(r, size, latency)
    PROVE  IInv'
<1>1. /\ TypesOK /\ Marked /\ Timed /\ Stream(r) /\ pending \in Seq(Beat) /\ latency \in Nat
      /\ Size[r] \in Nat \ {0} /\ below[r] \in Nat /\ got[r] \in Nat
  BY SizeNat DEF IInv, TypesOK
<1>2. /\ handler \in {"idle", "resp"} /\ below[r] > 0 /\ size <= below[r]
      /\ below' = [below EXCEPT ![r] = @ - size]
      /\ handler' = handler /\ ev' = ev /\ st' = st /\ got' = got /\ beats' = beats /\ owes' = owes
  BY DEF resp_handler
<1>3. size \in Nat \ {0}
  <2>1. CASE size = below[r]
    BY <1>1, <1>2, <2>1
  <2>2. CASE size \in Chunks
    BY <2>2
  <2> QED
    BY <2>1, <2>2
<1>4. PICK routed : routed = Size[r] - below[r]
  OBVIOUS
<1>5. in_flight[r] = routed /\ routed \in Nat /\ st[r] = "granted"
  BY <1>1, <1>2, <1>4 DEF Stream
<1>6. schedule_chunk(r, routed, size, latency)
  BY <1>5 DEF resp_handler
<1>7. PICK c : c = Cut(r, routed, size, latency)
  OBVIOUS
<1>8. routed + size <= Size[r] /\ below[r] - size \in Nat
  BY <1>1, <1>2, <1>3, <1>4, <1>5
<1>9. in_flight' = [in_flight EXCEPT ![r] = IF below[r] - size > 0 THEN routed + size ELSE -1]
  <2>1. (routed + size >= Size[r]) <=> ~(below[r] - size > 0)
    BY <1>1, <1>3, <1>4, <1>8
  <2> QED
    BY <1>6, <2>1 DEF schedule_chunk, Routed
<1>10. /\ pending' = pending \o c /\ pending' \in Seq(Beat)
       /\ fsm' \in Int /\ fsm' >= -1 /\ Marked' /\ Timed'
  <2>1. r \in Reqs /\ routed \in Nat /\ size \in Nat \ {0} /\ latency \in Latencies
    BY <1>3, <1>5
  <2>2. TypesOK /\ Marked /\ Timed /\ handler \in {"idle", "resp"} /\ handler' = handler
    BY <1>1, <1>2
  <2> QED
    BY ONLY <1>6, <1>7, <1>8, <2>1, <2>2, ScheduleKeeps
<1>11. c \in Seq(Beat)
  BY <1>1, <1>3, <1>5, <1>7, CutChain
<1>12. Chain(c, r, routed, routed + size)
  BY <1>1, <1>3, <1>5, <1>7, CutChain
<1>13. \A x : x # r => Without(c, x)
  BY <1>1, <1>3, <1>5, <1>7, CutChain
<1>14. TypesOK'
  <2>1. in_flight' \in [Reqs -> Int]
    BY <1>1, <1>3, <1>5, <1>9 DEF TypesOK
  <2>2. below' \in [Reqs -> Nat]
    BY <1>1, <1>2, <1>8 DEF TypesOK
  <2> QED
    BY <1>1, <1>2, <1>10, <2>1, <2>2 DEF TypesOK
<1>15. \A x \in Reqs : ~Emitting(x) /\ ~Emitting(x)'
  BY <1>2 DEF Emitting
<1>16. ASSUME NEW x \in Reqs PROVE Stream(x)'
  <2>1. CASE x # r
    <3>1. /\ Stream(x) /\ Without(c, x) /\ got[x] \in Nat /\ below[x] \in Nat
          /\ in_flight'[x] = in_flight[x] /\ st'[x] = st[x] /\ got'[x] = got[x]
          /\ below'[x] = below[x]
      BY <1>1, <1>2, <1>9, <1>13, <2>1 DEF IInv, TypesOK
    <3> QED
      BY <1>1, <1>10, <1>11, <1>15, <3>1, StreamApart
  <2>2. CASE x = r
    <3>1. /\ in_flight'[r] = IF below[r] - size > 0 THEN routed + size ELSE -1
          /\ st'[r] = "granted" /\ got'[r] = got[r] /\ below'[r] = below[r] - size
      BY <1>1, <1>2, <1>5, <1>9 DEF TypesOK
    <3>2. got[r] <= routed /\ Chain(pending, r, got[r], routed) /\ got[r] # Size[r]
      BY <1>1, <1>4, <1>5, <1>15 DEF Stream
    <3>3. PICK s, from, to : s = pending \o c /\ from = got[r] /\ to = routed + size
      OBVIOUS
    <3>4. /\ from \in Int /\ to \in Int /\ routed \in Int /\ from <= routed /\ routed <= to
          /\ Chain(pending, r, from, routed) /\ Chain(c, r, routed, to)
      BY <1>1, <1>3, <1>5, <1>12, <3>2, <3>3
    <3>5. Chain(s, r, from, to)
      BY ONLY <1>1, <1>11, <3>3, <3>4, ChainJoin
    <3>6. Size[r] - below'[r] = routed + size
      BY <1>1, <1>3, <1>4, <3>1
    <3>7. Chain(pending', r, got'[r], Size[r] - below'[r])
      BY <1>10, <3>1, <3>3, <3>5, <3>6
    <3>8. below'[r] \in Nat /\ below'[r] <= Size[r] /\ got'[r] + below'[r] <= Size[r]
      <4>1. below'[r] \in Nat
        BY <1>1, <1>3, <1>4, <1>5, <1>8, <3>1, <3>2
      <4>2. Size[r] \in Nat /\ routed \in Nat /\ size \in Nat /\ got'[r] \in Nat /\ got'[r] <= routed
        BY <1>1, <1>3, <1>4, <1>5, <1>8, <3>1, <3>2
      <4> QED
        BY ONLY <4>1, <4>2, <3>6
    <3>9. in_flight'[r] = IF below'[r] > 0 THEN Size[r] - below'[r] ELSE -1
      BY <3>1, <3>6
    <3>10. got'[r] <= Size[r]
      BY <1>1, <3>1 DEF Stream
    <3> QED
      BY <1>15, <2>2, <3>1, <3>2, <3>7, <3>8, <3>9, <3>10 DEF Stream
  <2> QED
    BY <2>1, <2>2
<1>17. ASSUME Whole PROVE Counted'
  <2>1. Counted
    BY <1>17 DEF IInv
  <2>2. Even(routed)
    BY <1>2, <1>4, <2>1 DEF Counted
  <2>3. \A i \in DOMAIN pending' : Even(pending'[i].offset)
    BY <1>1, <1>3, <1>5, <1>7, <1>10, <1>11, <2>1, <2>2, ScheduleEven
  <2>4. ASSUME NEW x \in Reqs
        PROVE  (/\ below[x] > 0 => Even(Size[x] - below[x])
                /\ Ceil(got[x]) = IF Emitting(x) THEN beats[x] + 1 ELSE beats[x])'
    <3>1. CASE x # r
      <4>1. got'[x] = got[x] /\ below'[x] = below[x] /\ beats'[x] = beats[x]
        BY <1>1, <1>2, <3>1 DEF TypesOK
      <4>2. Emitting(x)' = Emitting(x)
        BY <1>2 DEF Emitting
      <4> QED
        BY <2>1, <4>1, <4>2, CountedSame
    <3>2. CASE x = r
      <4>1. below'[r] = below[r] - size
        BY <1>1, <1>2 DEF TypesOK
      <4>2. Size[r] - below'[r] = routed + size
        BY <1>1, <1>3, <1>4, <4>1
      <4>3. below'[r] > 0 => Even(Size[r] - below'[r])
        <5>1. CASE size = below[r]
          BY <1>1, <4>1, <5>1
        <5>2. CASE size \in Chunks
          <6>1. size % beat_width = 0 /\ size \in Nat
            BY <1>3, <1>17, <5>2 DEF Whole
          <6> QED
            BY <1>5, <2>2, <4>2, <6>1, EvenSum
        <5> QED
          BY <5>1, <5>2
      <4>4. Ceil(got[r]) = beats[r]
        BY <1>15, <2>1 DEF Counted
      <4> QED
        BY <1>2, <1>15, <3>2, <4>3, <4>4 DEF Ceil
    <3> QED
      BY <3>1, <3>2
  <2> QED
    BY <2>3, <2>4 DEF Counted
<1> QED
  BY <1>10, <1>14, <1>16, <1>17 DEF IInv

(* The steps that leave the queue, the bytes and the marks alone.          *)
LEMMA FrameKeeps ==
    ASSUME IInv, TypesOK', Timed', pending' = pending, in_flight' = in_flight, got' = got,
           beats' = beats, below' = below,
           \A x \in Reqs : st'[x] = st[x] \/ (st[x] # "granted" /\ st'[x] # "granted"),
           \A x \in Reqs : ~Emitting(x) /\ ~Emitting(x)'
    PROVE  IInv'
<1>1. ASSUME NEW x \in Reqs PROVE Stream(x)'
  BY DEF Stream, IInv
<1>2. ASSUME Whole PROVE Counted'
  <2>1. Counted
    BY <1>2 DEF IInv
  <2>2. \A i \in DOMAIN pending' : Even(pending'[i].offset)
    BY <2>1 DEF Counted
  <2>3. ASSUME NEW x \in Reqs
        PROVE  (/\ below[x] > 0 => Even(Size[x] - below[x])
                /\ Ceil(got[x]) = IF Emitting(x) THEN beats[x] + 1 ELSE beats[x])'
    <3>1. Ceil(got[x]) = beats[x] /\ (below[x] > 0 => Even(Size[x] - below[x]))
      BY <2>1 DEF Counted
    <3> QED
      BY <3>1 DEF Ceil
  <2> QED
    BY <2>2, <2>3 DEF Counted
<1>3. Marked'
  BY DEF Marked, Mark, IInv
<1> QED
  BY <1>1, <1>2, <1>3 DEF IInv

LEMMA retry_handlerKeeps ==
    ASSUME IInv, retry_handler
    PROVE  IInv'
<1>1. /\ handler = "idle" /\ st' = [r \in Reqs |-> IF st[r] = "denied" THEN "retrying" ELSE st[r]]
      /\ pending' = pending /\ in_flight' = in_flight /\ got' = got /\ beats' = beats
      /\ below' = below /\ fsm' = fsm /\ handler' = handler /\ ev' = ev
  BY DEF retry_handler
<1>2. TypesOK /\ Timed
  BY DEF IInv
<1>3. owes' \in BOOLEAN
  BY DEF retry_handler
<1>4. TypesOK'
  BY <1>1, <1>2, <1>3 DEF TypesOK, States
<1>5. Timed'
  BY <1>1, <1>2 DEF Timed, Within, HeadDelay
<1>6. \A x \in Reqs : ~Emitting(x) /\ ~Emitting(x)'
  BY <1>1 DEF Emitting
<1>7. \A x \in Reqs : st'[x] = st[x] \/ (st[x] # "granted" /\ st'[x] # "granted")
  BY <1>1
<1> QED
  BY <1>1, <1>4, <1>5, <1>6, <1>7, FrameKeeps

LEMMA fsm_handlerKeeps ==
    ASSUME IInv, fsm_handler
    PROVE  IInv'
<1>1. /\ handler = "idle" /\ handler' = "loop" /\ fsm' = -1 /\ st' = st
      /\ pending' = pending /\ in_flight' = in_flight /\ got' = got /\ beats' = beats
      /\ below' = below /\ ev' = ev /\ owes' = owes
  BY DEF fsm_handler
<1>2. TypesOK /\ Timed
  BY DEF IInv
<1>3. TypesOK'
  BY <1>1, <1>2 DEF TypesOK
<1>4. pending # <<>> => HeadDelay(pending) \in Nat
  BY <1>2, Delay DEF TypesOK
<1>5. Timed'
  <2>1. Within(fsm')
    BY <1>1 DEF Within
  <2>2. \A i \in DOMAIN pending' : Within(pending'[i].ready)
    BY <1>1, <1>2 DEF Timed
  <2>3. pending' # <<>> => fsm' <= HeadDelay(pending')
    BY <1>1, <1>4
  <2> QED
    BY <1>1, <2>1, <2>2, <2>3 DEF Timed
<1>6. \A x \in Reqs : ~Emitting(x) /\ ~Emitting(x)'
  BY <1>1 DEF Emitting
<1> QED
  BY <1>1, <1>3, <1>5, <1>6, FrameKeeps

LEMMA RespReturnsKeeps ==
    ASSUME IInv, RespReturns
    PROVE  IInv'
<1>1. /\ handler = "resp" /\ handler' = "loop" /\ fsm' = fsm /\ st' = st
      /\ pending' = pending /\ in_flight' = in_flight /\ got' = got /\ beats' = beats
      /\ below' = below /\ ev' = ev /\ owes' = owes
  BY DEF RespReturns
<1>2. TypesOK /\ Timed
  BY DEF IInv
<1>3. TypesOK'
  BY <1>1, <1>2 DEF TypesOK
<1>4. Timed'
  BY <1>1, <1>2 DEF Timed, Within, HeadDelay
<1>5. \A x \in Reqs : ~Emitting(x) /\ ~Emitting(x)'
  BY <1>1 DEF Emitting
<1> QED
  BY <1>1, <1>3, <1>4, <1>5, FrameKeeps

LEMMA HandlerReturnsKeeps ==
    ASSUME IInv, HandlerReturns
    PROVE  IInv'
<1>1. /\ handler = "loop" /\ handler' = "idle" /\ fsm' \in Rearmed(pending) /\ st' = st
      /\ pending # <<>> => Head(pending).ready > 0
      /\ pending' = pending /\ in_flight' = in_flight /\ got' = got /\ beats' = beats
      /\ below' = below /\ ev' = ev /\ owes' = owes
  BY DEF HandlerReturns
<1>2. TypesOK /\ Timed /\ pending \in Seq(Beat) /\ fsm \in Int /\ fsm >= -1
  BY DEF IInv, TypesOK
<1>3. CASE pending = <<>>
  <2>1. fsm' = fsm
    BY <1>1, <1>3 DEF Rearmed
  <2>2. TypesOK'
    BY <1>1, <1>2, <2>1 DEF TypesOK
  <2>3. Timed'
    BY <1>1, <1>2, <1>3, <2>1 DEF Timed, Within
  <2>4. \A x \in Reqs : ~Emitting(x) /\ ~Emitting(x)'
    BY <1>1 DEF Emitting
  <2> QED
    BY <1>1, <2>2, <2>3, <2>4, FrameKeeps
<1>4. CASE pending # <<>>
  <2>1. Head(pending).ready \in Int /\ HeadDelay(pending) = Head(pending).ready
    BY <1>1, <1>2, <1>4, Delay
  <2>2. fsm <= Head(pending).ready
    BY <1>1, <1>2, <1>4, <2>1 DEF Timed
  <2>3. fsm' = Head(pending).ready \/ (fsm' = fsm /\ fsm # -1)
    BY <1>1, <1>4, <2>1 DEF Rearmed
  <2>4. fsm' \in Int /\ 0 <= fsm' /\ fsm' <= Head(pending).ready
    BY <1>1, <1>2, <1>4, <2>1, <2>2, <2>3
  <2>5. TypesOK'
    BY <1>1, <1>2, <2>4 DEF TypesOK
  <2>6. Within(fsm')
    <3>1. Within(fsm) /\ Within(Head(pending).ready)
      BY <1>2, <1>4, QueueIndex DEF Timed
    <3> QED
      BY <2>3, <3>1
  <2>7. \A i \in DOMAIN pending' : Within(pending'[i].ready)
    BY <1>1, <1>2 DEF Timed
  <2>8. Timed'
    BY <1>1, <1>4, <2>4, <2>6, <2>7 DEF Timed
  <2>9. \A x \in Reqs : ~Emitting(x) /\ ~Emitting(x)'
    BY <1>1 DEF Emitting
  <2> QED
    BY <1>1, <2>5, <2>8, <2>9, FrameKeeps
<1> QED
  BY <1>3, <1>4
LEMMA PopBeatKeeps ==
    ASSUME IInv, PopBeat
    PROVE  IInv'
<1>1. TypesOK /\ Marked /\ Timed /\ pending \in Seq(Beat) /\ fsm \in Int /\ fsm >= -1
  BY DEF IInv, TypesOK
<1>2. /\ handler = "loop" /\ pending # <<>> /\ Head(pending).ready <= 0
      /\ handler' = "emit" /\ ev' = Head(pending) /\ pending' = Tail(pending)
      /\ in_flight' = in_flight /\ fsm' = fsm /\ st' = st /\ beats' = beats /\ below' = below
      /\ owes' = owes
  BY DEF PopBeat
<1>3. PICK b : b = Head(pending)
  OBVIOUS
<1>4. /\ b \in Beat /\ b.req \in Reqs /\ b.offset \in Nat /\ b.size \in Nat \ {0} /\ b.ready \in Int
      /\ b.size \in 1 .. beat_width /\ End(b) = b.offset + b.size /\ End(b) \in Nat
  BY <1>1, <1>2, <1>3, QueueIndex, BeatTypes
<1>5. PICK r \in Reqs : r = b.req
  BY <1>4
<1>6. got' = [got EXCEPT ![r] = @ + b.size]
  BY <1>2, <1>3, <1>5 DEF PopBeat
<1>7. 1 \in DOMAIN pending /\ pending[1] = b
  BY <1>1, <1>2, <1>3, QueueIndex
<1>8. PICK t : t = Tail(pending)
  OBVIOUS
<1>9. /\ t \in Seq(Beat) /\ \A i \in DOMAIN t : i + 1 \in DOMAIN pending /\ t[i] = pending[i + 1]
  BY <1>1, <1>2, <1>8, TailIndex
<1>10. /\ Size[r] \in Nat \ {0} /\ got[r] \in Nat /\ below[r] \in Nat /\ Stream(r)
  BY <1>1, SizeNat DEF TypesOK, IInv
<1>11. st[r] = "granted"
  <2>1. ~Without(pending, r)
    BY <1>5, <1>7 DEF Without
  <2> QED
    BY <1>10, <2>1 DEF Stream
<1>12. PICK to : to = Size[r] - below[r]
  OBVIOUS
<1>13. to \in Int /\ Chain(pending, r, got[r], to) /\ got[r] \in Int /\ Head(pending).req = r
  BY <1>3, <1>5, <1>10, <1>11, <1>12 DEF Stream
<1>14. /\ Head(pending).offset = got[r] /\ End(Head(pending)) <= to
       /\ Chain(Tail(pending), r, End(Head(pending)), to)
  BY <1>1, <1>2, <1>13, ChainHead
<1>15. b.offset = got[r] /\ End(b) <= to /\ Chain(t, r, End(b), to)
  BY <1>3, <1>8, <1>14
<1>16. got'[r] = End(b) /\ \A x \in Reqs : x # r => got'[x] = got[x]
  BY <1>1, <1>4, <1>6, <1>15 DEF TypesOK
<1>17. TypesOK'
  <2>1. got' \in [Reqs -> Nat]
    <3>1. got[r] + b.size \in Nat
      BY <1>4, <1>10
    <3> QED
      BY <1>1, <1>6, <3>1 DEF TypesOK
  <2>2. pending' \in Seq(Beat) /\ ev' \in Beat
    BY <1>2, <1>3, <1>4, <1>8, <1>9
  <2> QED
    BY <1>1, <1>2, <2>1, <2>2 DEF TypesOK
<1>18. \A x \in Reqs : ~Emitting(x) /\ (Emitting(x)' <=> x = r)
  BY <1>2, <1>3, <1>5 DEF Emitting
<1>19. ev'.is_last = (End(b) = Size[r])
  <2>1. Mark(b)
    BY <1>1, <1>7 DEF Marked
  <2> QED
    BY <1>2, <1>3, <1>5, <2>1 DEF Mark
<1>20. ASSUME NEW x \in Reqs PROVE Stream(x)'
  <2>1. CASE x # r
    <3>1. /\ Stream(x) /\ in_flight'[x] = in_flight[x] /\ st'[x] = st[x] /\ got'[x] = got[x]
          /\ below'[x] = below[x] /\ ~Emitting(x) /\ ~Emitting(x)'
          /\ Size[x] \in Nat /\ got[x] \in Nat /\ below[x] \in Nat
      BY <1>1, <1>2, <1>16, <1>18, <2>1, SizeNat DEF IInv, TypesOK
    <3>2. Head(pending).req # x
      BY <1>3, <1>5, <2>1
    <3>3. Without(pending, x) => Without(t, x)
      BY <1>9 DEF Without
    <3>4. st[x] = "granted" => Chain(t, x, got[x], Size[x] - below[x])
      <4>1. SUFFICES ASSUME st[x] = "granted" PROVE Chain(t, x, got[x], Size[x] - below[x])
        OBVIOUS
      <4>2. PICK f, e : f = got[x] /\ e = Size[x] - below[x]
        OBVIOUS
      <4>3. f \in Int /\ e \in Int /\ Chain(pending, x, f, e)
        BY <3>1, <4>1, <4>2 DEF Stream
      <4>4. Chain(Tail(pending), x, f, e)
        BY <1>1, <1>2, <3>2, <4>3, ChainSkip
      <4> QED
        BY <1>8, <4>2, <4>4
    <3> QED
      BY <1>2, <1>8, <3>1, <3>3, <3>4 DEF Stream
  <2>2. CASE x = r
    <3>1. /\ in_flight'[r] = in_flight[r] /\ st'[r] = "granted" /\ below'[r] = below[r]
          /\ got'[r] = End(b) /\ Emitting(r)'
      BY <1>2, <1>11, <1>16, <1>18
    <3>2. Chain(pending', r, got'[r], Size[r] - below'[r])
      BY <1>2, <1>8, <1>12, <1>15, <3>1
    <3>3. got'[r] <= Size[r] /\ got'[r] + below'[r] <= Size[r]
      BY <1>4, <1>10, <1>12, <1>15, <3>1
    <3>4. ev'.is_last = (got'[r] = Size[r])
      BY <1>19, <3>1
    <3> QED
      BY <1>10, <2>2, <3>1, <3>2, <3>3, <3>4 DEF Stream
  <2> QED
    BY <2>1, <2>2
<1>21. ASSUME Whole PROVE Counted'
  <2>1. Counted
    BY <1>21 DEF IInv
  <2>2. \A i \in DOMAIN pending' : Even(pending'[i].offset)
    BY <1>2, <1>8, <1>9, <2>1 DEF Counted
  <2>3. ASSUME NEW x \in Reqs
        PROVE  (/\ below[x] > 0 => Even(Size[x] - below[x])
                /\ Ceil(got[x]) = IF Emitting(x) THEN beats[x] + 1 ELSE beats[x])'
    <3>1. CASE x # r
      <4>1. got'[x] = got[x] /\ below'[x] = below[x] /\ beats'[x] = beats[x]
        BY <1>2, <1>16, <3>1
      <4>2. ~Emitting(x) /\ ~Emitting(x)'
        BY <1>18, <3>1
      <4>3. Ceil(got[x]) = beats[x] /\ (below[x] > 0 => Even(Size[x] - below[x]))
        BY <2>1, <4>2 DEF Counted
      <4> QED
        BY <4>1, <4>2, <4>3 DEF Ceil
    <3>2. CASE x = r
      <4>1. Ceil(got[r]) = beats[r] /\ (below[r] > 0 => Even(Size[r] - below[r]))
        BY <1>18, <2>1 DEF Counted
      <4>2. PICK k \in Nat : got[r] = beat_width * k
        <5>1. Even(b.offset)
          BY <1>7, <2>1 DEF Counted
        <5> QED
          BY <1>15, <5>1 DEF Even
      <4>3. Ceil(beat_width * k) = k /\ Ceil(beat_width * k + b.size) = k + 1
        BY <1>4, CeilIs
      <4>4. got'[r] = beat_width * k + b.size
        BY <1>4, <1>15, <1>16, <4>2
      <4>5. Ceil(got'[r]) = beats[r] + 1
        BY <4>1, <4>2, <4>3, <4>4
      <4>6. beats'[r] = beats[r] /\ below'[r] = below[r] /\ Emitting(r)'
        BY <1>2, <1>18
      <4> QED
        BY <3>2, <4>1, <4>5, <4>6 DEF Ceil
    <3> QED
      BY <3>1, <3>2
  <2> QED
    BY <2>2, <2>3 DEF Counted
<1>22. Marked'
  BY <1>1, <1>2, <1>8, <1>9 DEF Marked
<1>23. Timed'
  <2>1. Within(fsm') /\ \A i \in DOMAIN pending' : Within(pending'[i].ready)
    BY <1>1, <1>2, <1>8, <1>9 DEF Timed
  <2>2. fsm <= 1
    <3>1. HeadDelay(pending) = 1
      BY <1>1, <1>2, <1>3, <1>4, Delay
    <3> QED
      BY <1>1, <1>2, <3>1 DEF Timed
  <2>3. t # <<>> => HeadDelay(t) \in Nat \ {0}
    BY <1>9, Delay
  <2>4. pending' # <<>> => fsm' <= HeadDelay(pending')
    BY <1>1, <1>2, <1>8, <2>2, <2>3
  <2> QED
    BY <1>2, <2>1, <2>2, <2>4 DEF Timed
<1> QED
  BY <1>17, <1>20, <1>21, <1>22, <1>23 DEF IInv

LEMMA emit_beatKeeps ==
    ASSUME IInv, emit_beat
    PROVE  IInv'
<1>1. TypesOK /\ Marked /\ Timed /\ pending \in Seq(Beat)
  BY DEF IInv, TypesOK
<1>2. /\ handler = "emit" /\ handler' = "resp" /\ ev' = NoBeat
      /\ beats' = [beats EXCEPT ![ev.req] = @ + 1]
      /\ st' = IF ev.is_last THEN [st EXCEPT ![ev.req] = "idle"] ELSE st
      /\ pending' = pending /\ in_flight' = in_flight /\ fsm' = fsm /\ got' = got
      /\ below' = below /\ owes' = owes
  BY DEF emit_beat
<1>3. ev \in Beat /\ ev.req \in Reqs
  BY <1>1, <1>2, BeatTypes DEF TypesOK
<1>4. PICK r \in Reqs : r = ev.req
  BY <1>3
<1>5. /\ Emitting(r) /\ \A x \in Reqs : x # r => ~Emitting(x)
  BY <1>2, <1>4 DEF Emitting
<1>6. \A x \in Reqs : ~Emitting(x)'
  BY <1>2 DEF Emitting
<1>7. /\ Size[r] \in Nat \ {0} /\ got[r] \in Nat /\ below[r] \in Nat /\ Stream(r)
  BY <1>1, SizeNat DEF TypesOK, IInv
<1>8. st[r] = "granted" /\ (ev.is_last <=> got[r] = Size[r])
  BY <1>5, <1>7 DEF Stream
<1>9. st' = IF got[r] = Size[r] THEN [st EXCEPT ![r] = "idle"] ELSE st
  BY <1>2, <1>4, <1>8
<1>10. beats' = [beats EXCEPT ![r] = @ + 1]
  BY <1>2, <1>4
<1>11. TypesOK'
  <2>1. st' \in [Reqs -> States]
    BY <1>1, <1>9 DEF TypesOK, States
  <2>2. beats' \in [Reqs -> Nat]
    BY <1>1, <1>10 DEF TypesOK
  <2> QED
    BY <1>1, <1>2, <2>1, <2>2 DEF TypesOK
<1>12. ASSUME NEW x \in Reqs PROVE Stream(x)'
  <2>1. CASE x # r
    <3>1. Stream(x) /\ st'[x] = st[x] /\ ~Emitting(x) /\ ~Emitting(x)'
      BY <1>1, <1>5, <1>6, <1>9, <2>1 DEF IInv, TypesOK
    <3> QED
      BY <1>2, <3>1, StreamSame
  <2>2. CASE x = r /\ got[r] # Size[r]
    <3>1. st'[r] = st[r]
      BY <1>9, <2>2
    <3> QED
      BY <1>2, <1>6, <1>7, <2>2, <3>1 DEF Stream
  <2>3. CASE x = r /\ got[r] = Size[r]
    <3>1. st'[r] = "idle"
      BY <1>1, <1>9, <2>3 DEF TypesOK
    <3>2. below[r] = 0 /\ Chain(pending, r, got[r], Size[r] - below[r])
      BY <1>7, <1>8, <2>3 DEF Stream
    <3>3. PICK f \in Int : f = got[r]
      BY <1>7
    <3>4. Size[r] - below[r] = f /\ f <= f /\ Chain(pending, r, f, f)
      BY <1>7, <2>3, <3>2, <3>3
    <3>5. Without(pending, r)
      BY <1>1, <3>4, ChainEnds
    <3> QED
      BY <1>2, <1>6, <1>7, <2>3, <3>1, <3>2, <3>5 DEF Stream
  <2> QED
    BY <2>1, <2>2, <2>3
<1>13. ASSUME Whole PROVE Counted'
  <2>1. Counted
    BY <1>13 DEF IInv
  <2>2. \A i \in DOMAIN pending' : Even(pending'[i].offset)
    BY <1>2, <2>1 DEF Counted
  <2>3. ASSUME NEW x \in Reqs
        PROVE  (/\ below[x] > 0 => Even(Size[x] - below[x])
                /\ Ceil(got[x]) = IF Emitting(x) THEN beats[x] + 1 ELSE beats[x])'
    <3>1. below[x] > 0 => Even(Size[x] - below[x])
      BY <2>1 DEF Counted
    <3>2. Ceil(got[x]) = beats'[x]
      BY <1>1, <1>5, <1>10, <2>1 DEF Counted, TypesOK
    <3> QED
      BY <1>2, <1>6, <3>1, <3>2 DEF Ceil
  <2> QED
    BY <2>2, <2>3 DEF Counted
<1>14. Marked'
  BY <1>1, <1>2 DEF Marked
<1>15. Timed'
  BY <1>1, <1>2 DEF Timed, Within, HeadDelay
<1> QED
  BY <1>11, <1>12, <1>13, <1>14, <1>15 DEF IInv
(* A cycle: every beat, and the event, comes one cycle closer.             *)
LEMMA TickKeeps ==
    ASSUME IInv, Tick
    PROVE  IInv'
<1>1. TypesOK /\ Marked /\ Timed /\ pending \in Seq(Beat) /\ fsm \in Int
  BY DEF IInv, TypesOK
<1>2. /\ handler = "idle" /\ fsm > 0 /\ fsm' = fsm - 1
      /\ in_flight' = in_flight /\ handler' = handler /\ ev' = ev /\ st' = st /\ got' = got
      /\ beats' = beats /\ below' = below /\ owes' = owes
  BY DEF Tick
<1>3. PICK p : p = [i \in DOMAIN pending |-> [pending[i] EXCEPT !.ready = @ - 1]]
  OBVIOUS
<1>4. pending' = p
  BY <1>3 DEF Tick
<1>5. DOMAIN pending = 1 .. Len(pending) /\ Len(pending) \in Nat
  BY <1>1, QueueIndex
<1>6. ASSUME NEW i \in DOMAIN pending
      PROVE  /\ p[i] \in Beat /\ p[i].req = pending[i].req /\ p[i].offset = pending[i].offset
             /\ p[i].size = pending[i].size /\ p[i].ready = pending[i].ready - 1
             /\ p[i].is_first = pending[i].is_first /\ p[i].is_last = pending[i].is_last
             /\ pending[i].ready \in Int
  <2>1. pending[i] \in Beat
    BY <1>1, QueueIndex
  <2>2. p[i] = [pending[i] EXCEPT !.ready = @ - 1]
    BY <1>3
  <2> QED
    BY <2>1, <2>2 DEF Beat
<1>7. DOMAIN p = DOMAIN pending /\ p \in Seq(Beat)
  <2>1. p \in [1 .. Len(pending) -> Beat]
    BY <1>3, <1>5, <1>6
  <2> QED
    BY <1>5, <2>1
<1>8. TypesOK'
  BY <1>1, <1>2, <1>4, <1>7 DEF TypesOK
<1>9. \A x \in Reqs : ~Emitting(x) /\ ~Emitting(x)'
  BY <1>2 DEF Emitting
<1>10. ASSUME NEW x \in Reqs PROVE Stream(x)'
  <2>1. Stream(x)
    BY DEF IInv
  <2>2. Without(pending, x) => Without(p, x)
    BY <1>6, <1>7 DEF Without
  <2>3. st[x] = "granted" => Chain(p, x, got[x], Size[x] - below[x])
    <3>1. SUFFICES ASSUME st[x] = "granted" PROVE Chain(p, x, got[x], Size[x] - below[x])
      OBVIOUS
    <3>2. PICK f, e : f = got[x] /\ e = Size[x] - below[x]
      OBVIOUS
    <3>3. Chain(pending, x, f, e)
      BY <2>1, <3>1, <3>2 DEF Stream
    <3>4. \A i \in DOMAIN pending : /\ p[i].req = pending[i].req /\ p[i].offset = pending[i].offset
                                    /\ p[i].size = pending[i].size
      BY <1>6
    <3>5. DOMAIN p = DOMAIN pending
      BY <1>7
    <3>6. Chain(p, x, f, e)
      BY ONLY <3>3, <3>4, <3>5, ChainSame
    <3> QED
      BY <3>2, <3>6
  <2> QED
    BY <1>2, <1>4, <1>9, <2>1, <2>2, <2>3 DEF Stream
<1>11. ASSUME Whole PROVE Counted'
  <2>1. Counted
    BY <1>11 DEF IInv
  <2>2. \A i \in DOMAIN pending' : Even(pending'[i].offset)
    BY <1>4, <1>6, <1>7, <2>1 DEF Counted
  <2>3. ASSUME NEW x \in Reqs
        PROVE  (/\ below[x] > 0 => Even(Size[x] - below[x])
                /\ Ceil(got[x]) = IF Emitting(x) THEN beats[x] + 1 ELSE beats[x])'
    <3>1. Ceil(got[x]) = beats[x] /\ (below[x] > 0 => Even(Size[x] - below[x]))
      BY <1>9, <2>1 DEF Counted
    <3> QED
      BY <1>2, <1>9, <3>1 DEF Ceil
  <2> QED
    BY <2>2, <2>3 DEF Counted
<1>12. Marked'
  <2>1. ASSUME NEW i \in DOMAIN p PROVE Mark(p[i])
    <3>1. Mark(pending[i]) /\ End(p[i]) = End(pending[i])
      BY <1>1, <1>6, <1>7 DEF Marked, End
    <3> QED
      BY <1>6, <1>7, <3>1 DEF Mark
  <2> QED
    BY <1>4, <2>1 DEF Marked
<1>13. Timed'
  <2>1. Within(fsm')
    BY <1>1, <1>2 DEF Timed, Within
  <2>2. ASSUME NEW i \in DOMAIN pending' PROVE Within(pending'[i].ready)
    <3>1. Within(pending[i].ready) /\ i \in DOMAIN pending
      BY <1>1, <1>4, <1>7 DEF Timed
    <3>2. pending'[i].ready = pending[i].ready - 1 /\ pending[i].ready \in Int
      BY <1>4, <1>6, <3>1
    <3> QED
      BY <3>1, <3>2, WithinSooner
  <2>3. pending' = <<>> => fsm' <= 1
    <3>1. p = <<>> => pending = <<>>
      BY <1>1, <1>7
    <3> QED
      BY <1>1, <1>2, <1>4, <3>1 DEF Timed
  <2>4. pending' # <<>> => 0 <= fsm' /\ fsm' <= Head(pending').ready
    <3>1. SUFFICES ASSUME p # <<>> PROVE 0 <= fsm' /\ fsm' <= Head(p).ready
      BY <1>4
    <3>2. pending # <<>> /\ 1 \in DOMAIN p /\ Head(p) = p[1] /\ Head(pending) = pending[1]
      BY <1>1, <1>7, <3>1, QueueIndex
    <3>3. Head(p).ready = Head(pending).ready - 1 /\ Head(pending).ready \in Int
      BY <1>6, <1>7, <3>2
    <3>4. fsm <= Head(pending).ready
      BY <1>1, <1>2, <3>2 DEF Timed
    <3> QED
      BY <1>1, <1>2, <3>3, <3>4
  <2> QED
    BY <1>2, <2>1, <2>2, <2>3, <2>4 DEF Timed
<1> QED
  BY <1>8, <1>10, <1>11, <1>12, <1>13 DEF IInv

LEMMA resetKeeps ==
    ASSUME IInv, reset
    PROVE  IInv'
<1>1. /\ pending' = <<>> /\ in_flight' = [r \in Reqs |-> -1] /\ fsm' = -1
      /\ st' = [r \in Reqs |-> "idle"] /\ below' = [r \in Reqs |-> 0]
      /\ got' = [r \in Reqs |-> 0] /\ beats' = [r \in Reqs |-> 0]
      /\ handler = "idle" /\ handler' = handler /\ ev' = ev
  BY DEF reset
<1>2. owes' \in BOOLEAN
  BY DEF reset
<1>3. TypesOK'
  <2>1. pending' \in Seq(Beat)
    BY <1>1, EmptySeqOf
  <2>2. in_flight' \in [Reqs -> Int] /\ st' \in [Reqs -> States]
    BY <1>1 DEF States
  <2>3. got' \in [Reqs -> Nat] /\ beats' \in [Reqs -> Nat] /\ below' \in [Reqs -> Nat]
    BY <1>1
  <2>4. handler' = "idle" /\ ev' = NoBeat
    BY <1>1 DEF IInv, TypesOK
  <2> QED
    BY <1>1, <1>2, <2>1, <2>2, <2>3, <2>4 DEF TypesOK
<1>4. ASSUME NEW r \in Reqs PROVE Stream(r)'
  BY <1>1, SizeNat DEF Stream, Without, Emitting
<1>5. Marked'
  BY <1>1 DEF Marked
<1>6. Counted'
  <2>1. ASSUME NEW r \in Reqs
        PROVE  (/\ below[r] > 0 => Even(Size[r] - below[r])
                /\ Ceil(got[r]) = IF Emitting(r) THEN beats[r] + 1 ELSE beats[r])'
    <3>1. below'[r] = 0 /\ got'[r] = 0 /\ beats'[r] = 0 /\ ~Emitting(r)'
      BY <1>1 DEF Emitting
    <3> QED
      BY <3>1, CeilZero DEF Ceil
  <2>2. \A i \in DOMAIN pending' : Even(pending'[i].offset)
    BY <1>1
  <2> QED
    BY <2>1, <2>2 DEF Counted
<1>7. Timed'
  BY <1>1 DEF Timed, Within
<1> QED
  BY <1>3, <1>4, <1>5, <1>6, <1>7 DEF IInv

LEMMA StutterKeeps ==
    ASSUME IInv, UNCHANGED vars
    PROVE  IInv'
BY DEF vars, IInv, TypesOK, Stream, Marked, Mark, Counted, Ceil, Timed, Within, HeadDelay, Emitting

LEMMA NextKeeps ==
    ASSUME IInv, [Next]_vars
    PROVE  IInv'
<1>1. ASSUME NEW r \in Reqs, req_handler(r) PROVE IInv'
  BY <1>1, req_handlerKeeps
<1>2. ASSUME NEW r \in Reqs, SlaveAnswers(r) PROVE IInv'
  BY <1>2, resp_handlerKeeps DEF SlaveAnswers
<1>3. CASE retry_handler
  BY <1>3, retry_handlerKeeps
<1>4. CASE Handler
  BY <1>4, fsm_handlerKeeps, PopBeatKeeps, emit_beatKeeps, RespReturnsKeeps, HandlerReturnsKeeps
     DEF Handler
<1>5. CASE Tick
  BY <1>5, TickKeeps
<1>6. CASE reset
  BY <1>6, resetKeeps
<1>7. CASE UNCHANGED vars
  BY <1>7, StutterKeeps
<1> QED
  BY <1>1, <1>2, <1>3, <1>4, <1>5, <1>6, <1>7 DEF Next

(* However a slave answers and however the answers of several requests     *)
(* interleave, the master is sent the bytes of a request in order, each of *)
(* them once and none before the slave gave it, with the marks on the first*)
(* and the last beat and, for a slave that cuts at the beats, in exactly   *)
(* Ceil(Size) of them; the event is there for the head of the queue, no    *)
(* later than it is ready.                                                 *)
THEOREM InvHolds == Spec => []Inv
<1>1. Init => IInv
  BY InitIInv
<1>2. IInv /\ [Next]_vars => IInv'
  BY NextKeeps
<1>3. IInv => Inv
  BY InvFromIInv
<1> QED
  BY <1>1, <1>2, <1>3, PTL DEF Spec----------------------------------------------------------------------------
(* The refinement: a beat is served when it leaves the queue.              *)

LEMMA TodoIs ==
    ASSUME NEW r \in Reqs
    PROVE  /\ todo[r] = IF st[r] = "granted" THEN got[r] .. (Size[r] - 1) ELSE {}
           /\ todo'[r] = IF st'[r] = "granted" THEN got'[r] .. (Size[r] - 1) ELSE {}
BY DEF todo

LEMMA TodoFunction ==
    /\ todo = [r \in Reqs |-> todo[r]] /\ todo' = [r \in Reqs |-> todo'[r]]
    /\ DOMAIN todo = Reqs /\ DOMAIN todo' = Reqs
BY DEF todo

LEMMA TodoSame ==
    ASSUME \A r \in Reqs : todo'[r] = todo[r]
    PROVE  todo' = todo
<1>1. [r \in Reqs |-> todo'[r]] = [r \in Reqs |-> todo[r]]
  OBVIOUS
<1> QED
  BY ONLY <1>1, TodoFunction

LEMMA TodoChanges ==
    ASSUME NEW r \in Reqs, NEW S, todo'[r] = S, \A x \in Reqs : x # r => todo'[x] = todo[x]
    PROVE  todo' = [todo EXCEPT ![r] = S]
<1>1. [todo EXCEPT ![r] = S] = [x \in Reqs |-> IF x = r THEN S ELSE todo[x]]
  BY TodoFunction
<1>2. [x \in Reqs |-> todo'[x]] = [x \in Reqs |-> IF x = r THEN S ELSE todo[x]]
  OBVIOUS
<1> QED
  BY ONLY <1>1, <1>2, TodoFunction

LEMMA QuietSim ==
    ASSUME st' = st, got' = got
    PROVE  UNCHANGED IO!vars
<1>1. todo' = todo
  BY DEF todo
<1> QED
  BY <1>1 DEF IO!vars

LEMMA RequestSim ==
    ASSUME IInv, NEW r \in Reqs, req_handler(r)
    PROVE  IO!Serving
<1>1. st[r] \in {"idle", "retrying"} /\ got' = [got EXCEPT ![r] = 0] /\ TypesOK
  BY DEF req_handler, IInv
<1>2. CASE st' = [st EXCEPT ![r] = "granted"]
  <2>1. /\ st'[r] = "granted" /\ got'[r] = 0
        /\ \A x \in Reqs : x # r => st'[x] = st[x] /\ got'[x] = got[x]
    BY <1>1, <1>2 DEF TypesOK
  <2>2. todo'[r] = 0 .. (Size[r] - 1) /\ \A x \in Reqs : x # r => todo'[x] = todo[x]
    BY <2>1, TodoIs
  <2>3. todo' = [todo EXCEPT ![r] = 0 .. (Size[r] - 1)]
    BY <2>2, TodoChanges
  <2>4. IO!Accept(r)
    BY <1>1, <1>2, <2>3 DEF IO!Accept
  <2> QED
    BY <2>4 DEF IO!Serving
<1>3. CASE st' = [st EXCEPT ![r] = "denied"]
  <2>1. /\ st'[r] = "denied" /\ \A x \in Reqs : x # r => st'[x] = st[x] /\ got'[x] = got[x]
    BY <1>1, <1>3 DEF TypesOK
  <2>2. \A x \in Reqs : todo'[x] = todo[x]
    BY <1>1, <2>1, TodoIs
  <2>3. todo' = todo
    BY <2>2, TodoSame
  <2>4. IO!Deny(r)
    BY <1>1, <1>3, <2>3 DEF IO!Deny
  <2> QED
    BY <2>4 DEF IO!Serving
<1> QED
  BY <1>2, <1>3 DEF req_handler, RequestDone, RequestGranted, RequestDenied

LEMMA PopBeatSim ==
    ASSUME IInv, PopBeat
    PROVE  IO!Serving
<1>1. TypesOK /\ pending \in Seq(Beat) /\ pending # <<>> /\ st' = st
  BY DEF PopBeat, IInv, TypesOK
<1>2. PICK b : b = Head(pending)
  OBVIOUS
<1>3. /\ b \in Beat /\ b.req \in Reqs /\ b.offset \in Nat /\ b.size \in Nat \ {0}
      /\ End(b) = b.offset + b.size
  BY <1>1, <1>2, QueueIndex, BeatTypes
<1>4. PICK r \in Reqs : r = b.req
  BY <1>3
<1>5. got' = [got EXCEPT ![r] = @ + b.size]
  BY <1>2, <1>4 DEF PopBeat
<1>6. Size[r] \in Nat /\ got[r] \in Nat /\ below[r] \in Nat /\ Stream(r)
  BY <1>1, SizeNat DEF IInv, TypesOK
<1>7. st[r] = "granted"
  <2>1. 1 \in DOMAIN pending /\ pending[1].req = r
    BY <1>1, <1>2, <1>4, QueueIndex
  <2> QED
    BY <1>6, <2>1 DEF Stream, Without
<1>8. got[r] + b.size <= Size[r]
  <2>1. PICK to : to = Size[r] - below[r]
    OBVIOUS
  <2>2. to \in Int /\ got[r] \in Int /\ Chain(pending, r, got[r], to) /\ Head(pending).req = r
    BY <1>2, <1>4, <1>6, <1>7, <2>1 DEF Stream
  <2>3. Head(pending).offset = got[r] /\ End(Head(pending)) <= to
    BY <1>1, <2>2, ChainHead
  <2> QED
    BY <1>2, <1>3, <1>6, <2>1, <2>3
<1>9. PICK S : S = got[r] .. (got[r] + b.size - 1)
  OBVIOUS
<1>10. /\ got'[r] = got[r] + b.size /\ st'[r] = "granted"
       /\ \A x \in Reqs : x # r => st'[x] = st[x] /\ got'[x] = got[x]
  BY <1>1, <1>5, <1>7 DEF TypesOK
<1>11. todo[r] = got[r] .. (Size[r] - 1) /\ todo'[r] = (got[r] + b.size) .. (Size[r] - 1)
  BY <1>7, <1>10, TodoIs
<1>12. S # {} /\ S \subseteq todo[r] /\ todo'[r] = todo[r] \ S
  <2>1. got[r] \in S
    BY <1>3, <1>6, <1>9
  <2>2. S \subseteq todo[r]
    BY <1>3, <1>6, <1>8, <1>9, <1>11
  <2>3. todo'[r] = todo[r] \ S
    BY <1>3, <1>6, <1>8, <1>9, <1>11
  <2> QED
    BY <2>1, <2>2, <2>3
<1>13. \A x \in Reqs : x # r => todo'[x] = todo[x]
  BY <1>10, TodoIs
<1>14. todo' = [todo EXCEPT ![r] = todo[r] \ S]
  BY <1>12, <1>13, TodoChanges
<1>15. IO!Serve(r, S)
  BY <1>1, <1>7, <1>12, <1>14 DEF IO!Serve
<1> QED
  BY <1>12, <1>15 DEF IO!Serving

LEMMA EmitSim ==
    ASSUME IInv, emit_beat
    PROVE  IO!Serving \/ UNCHANGED IO!vars
<1>1. /\ handler = "emit" /\ got' = got /\ TypesOK
      /\ st' = IF ev.is_last THEN [st EXCEPT ![ev.req] = "idle"] ELSE st
  BY DEF emit_beat, IInv
<1>2. PICK r \in Reqs : r = ev.req
  BY <1>1, BeatTypes DEF TypesOK
<1>3. Stream(r) /\ Emitting(r) /\ got[r] \in Nat /\ Size[r] \in Nat
  BY <1>1, <1>2, SizeNat DEF IInv, Emitting, TypesOK
<1>4. CASE ~ev.is_last
  BY <1>1, <1>4, QuietSim
<1>5. CASE ev.is_last
  <2>1. st[r] = "granted" /\ got[r] = Size[r]
    BY <1>3, <1>5 DEF Stream
  <2>2. todo[r] = {}
    BY <1>3, <2>1, TodoIs
  <2>3. st' = [st EXCEPT ![r] = "idle"]
    BY <1>1, <1>2, <1>5
  <2>4. st'[r] = "idle" /\ \A x \in Reqs : x # r => st'[x] = st[x]
    BY <1>1, <2>3 DEF TypesOK
  <2>5. \A x \in Reqs : todo'[x] = todo[x]
    BY <1>1, <2>2, <2>4, TodoIs
  <2>6. todo' = todo
    BY <2>5, TodoSame
  <2>7. IO!Answer(r)
    BY <2>1, <2>2, <2>3, <2>6 DEF IO!Answer
  <2> QED
    BY <2>7 DEF IO!Serving
<1> QED
  BY <1>4, <1>5

LEMMA RetrySim ==
    ASSUME IInv, retry_handler
    PROVE  IO!Serving
<1>1. st' = [r \in Reqs |-> IF st[r] = "denied" THEN "retrying" ELSE st[r]] /\ got' = got
  BY DEF retry_handler
<1>2. \A x \in Reqs : todo'[x] = todo[x]
  BY <1>1, TodoIs
<1>3. todo' = todo
  BY <1>2, TodoSame
<1>4. IO!Retry
  BY <1>1, <1>3 DEF IO!Retry
<1> QED
  BY <1>4 DEF IO!Serving

LEMMA ResetSim ==
    ASSUME reset
    PROVE  IO!Reset
<1>1. st' = [r \in Reqs |-> "idle"]
  BY DEF reset
<1>2. todo' = [r \in Reqs |-> {}]
  BY <1>1 DEF todo
<1> QED
  BY <1>1, <1>2 DEF IO!Reset

LEMMA NextSim ==
    ASSUME IInv, [Next]_vars
    PROVE  IO!Serving \/ UNCHANGED IO!vars \/ (reset /\ IO!Reset)
<1>1. ASSUME NEW r \in Reqs, req_handler(r) PROVE IO!Serving
  BY <1>1, RequestSim
<1>2. ASSUME NEW r \in Reqs, SlaveAnswers(r) PROVE UNCHANGED IO!vars
  <2>1. st' = st /\ got' = got
    BY <1>2 DEF SlaveAnswers, resp_handler
  <2> QED
    BY <2>1, QuietSim
<1>3. CASE retry_handler
  BY <1>3, RetrySim
<1>4. CASE PopBeat
  BY <1>4, PopBeatSim
<1>5. CASE emit_beat
  BY <1>5, EmitSim
<1>6. CASE fsm_handler \/ RespReturns \/ HandlerReturns \/ Tick \/ UNCHANGED vars
  <2>1. st' = st /\ got' = got
    BY <1>6 DEF fsm_handler, RespReturns, HandlerReturns, Tick, vars
  <2> QED
    BY <2>1, QuietSim
<1>7. CASE reset
  BY <1>7, ResetSim
<1> QED
  BY <1>1, <1>2, <1>3, <1>4, <1>5, <1>6, <1>7 DEF Next, Handler

(* For every cut of the answers, every beat width and every latency, the   *)
(* adapter serves its master as IoService promises: every byte once, and   *)
(* one end of the request, with its last beat; only reset drops one.       *)
THEOREM Refinement == Spec => ServiceSpec
<1>1. Init => IO!Init
  <2> SUFFICES ASSUME Init PROVE IO!Init
    OBVIOUS
  <2>1. st = [r \in Reqs |-> "idle"]
    BY DEF Init
  <2>2. todo = [r \in Reqs |-> {}]
    BY <2>1 DEF todo
  <2> QED
    BY <2>1, <2>2 DEF IO!Init
<1>2. IInv /\ [Next]_vars => [IO!Next]_(IO!vars)
  BY NextSim DEF IO!Next
<1>3. IInv /\ [Next]_vars => [reset \/ IO!Serving]_(IO!vars)
  BY NextSim
<1>4. Init => IInv
  BY InitIInv
<1>5. IInv /\ [Next]_vars => IInv'
  BY NextKeeps
<1> QED
  BY <1>1, <1>2, <1>3, <1>4, <1>5, PTL DEF Spec, ServiceSpec, IO!Spec
=============================================================================
