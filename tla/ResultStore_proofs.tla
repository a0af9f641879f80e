-------------------------- MODULE ResultStore_proofs --------------------------
(***************************************************************************)
(* The result store, for any ids, texts, indices and limits: the place and *)
(* the order of its finals, what its counters say, and that it implements  *)
(* FinalLog.                                                               *)
(***************************************************************************)
EXTENDS ResultLedger, ResultSink, FiniteSetTheorems, SequenceTheorems, TLAPS

StoreTypes ==
    /\ transcript \in Seq(Segment)
    /\ pending \subseteq Segment /\ IsFiniteSet(pending)
    /\ completed \in [Ids -> Nat \cup {Open, Unindexed}]
    /\ unindexed \subseteq [id : Ids, text : Seq(Chars)]
    /\ nextSegment \in Nat

\* An id has one final without an index: when that is taken, none is left.
UnindexedOnce == \A u, v \in unindexed : u.id = v.id => u = v

StoreInv == StoreTypes /\ UnindexedOnce /\ FinalsInPlace
-----------------------------------------------------------------------------
\* A set of natural numbers has a least one.
LEMMA LeastNumber ==
    ASSUME NEW T \in SUBSET Nat, T # {} PROVE \E k \in T : \A j \in T : k <= j
<1> DEFINE R == OpToRel(<, Nat)
<1>1. \A i, j \in Nat : i < j => <<i, j>> \in R
  BY DEF OpToRel
<1>2. IsWellFoundedOn(R, Nat)
  BY NatLessThanWellFounded
<1> HIDE DEF R
<1>3. PICK k \in T : \A j \in T : ~(<<j, k>> \in R)
  BY <1>2, WFMin
<1>4. ASSUME NEW j \in T PROVE k <= j
  <2>1. j \in Nat /\ k \in Nat /\ ~(j < k)
    BY <1>1, <1>3
  <2> QED
    BY <2>1
<1> QED
  BY <1>3, <1>4

\* There is a gap: more indices are tried than there are segments.
LEMMA GapFound ==
    ASSUME NEW S, IsFiniteSet(S), NEW from \in Nat
    PROVE  /\ FirstGap(S, from) \in Nat /\ FirstGap(S, from) >= from
           /\ ~\E s \in S : s.index = FirstGap(S, from)
           /\ \A k \in from..(FirstGap(S, from) - 1) : \E s \in S : s.index = k
<1> DEFINE tried == from..(from + Cardinality(S))
           free == {k \in tried : ~\E s \in S : s.index = k}
<1>1. Cardinality(S) \in Nat
  BY FS_CardinalityType
<1>2. free # {}
  <2> SUFFICES ASSUME free = {} PROVE FALSE
    OBVIOUS
  <2> DEFINE f == [k \in tried |-> CHOOSE s \in S : s.index = k]
  <2>1. \A k \in tried : f[k] \in S /\ f[k].index = k
    OBVIOUS
  <2>2. f \in [tried -> S] /\ \A j, k \in tried : f[j] = f[k] => j = k
    BY <2>1
  <2> HIDE DEF f
  <2>3. f \in Injection(tried, S)
    BY <2>2 DEF Injection, IsInjective
  <2>4. Cardinality(tried) <= Cardinality(S)
    BY <2>3, FS_Injection
  <2>5. Cardinality(tried) = Cardinality(S) + 1
    BY <1>1, FS_Interval
  <2> QED
    BY <1>1, <2>4, <2>5
<1>3. free \subseteq Nat
  BY <1>1
<1>4. PICK gap \in free : \A k \in free : gap <= k
  BY <1>2, <1>3, LeastNumber
<1>5. \A k \in from..(gap - 1) : \E s \in S : s.index = k
  <2> TAKE k \in from..(gap - 1)
  <2>1. k \in tried /\ ~(gap <= k)
    BY <1>1, <1>4
  <2> QED
    BY <1>4, <2>1
<1>6. /\ gap \in tried
      /\ \A k \in from..(gap - 1) : \E s \in S : s.index = k
      /\ ~\E s \in S : s.index = gap
  BY <1>4, <1>5
<1>7. /\ FirstGap(S, from) \in tried /\ ~\E s \in S : s.index = FirstGap(S, from)
      /\ \A k \in from..(FirstGap(S, from) - 1) : \E s \in S : s.index = k
  BY ONLY <1>6 DEF FirstGap
<1> QED
  BY <1>1, <1>7

\* There is an order: each segment has its rank by its index.
LEMMA OrderFound ==
    ASSUME NEW S, IsFiniteSet(S), \A s \in S : s.index \in Nat,
           \A r, s \in S : r.index = s.index => r = s
    PROVE  /\ Cardinality(S) \in Nat /\ InOrder(S) \in [1..Cardinality(S) -> S]
           /\ \A j, k \in 1..Cardinality(S) : j < k => InOrder(S)[j].index < InOrder(S)[k].index
           /\ \A s \in S : \E k \in 1..Cardinality(S) : InOrder(S)[k] = s
<1> DEFINE n == Cardinality(S)
           upTo(s) == {r \in S : r.index <= s.index}
           rank == [s \in S |-> Cardinality(upTo(s))]
<1>1. n \in Nat
  BY FS_CardinalityType
<1>2. \A s \in S : IsFiniteSet(upTo(s)) /\ rank[s] \in 1..n
  <2> TAKE s \in S
  <2>1. upTo(s) \in SUBSET S /\ s \in upTo(s)
    OBVIOUS
  <2>2. IsFiniteSet(upTo(s)) /\ Cardinality(upTo(s)) <= n
    BY <2>1, FS_Subset
  <2>3. Cardinality(upTo(s)) \in Nat /\ Cardinality(upTo(s)) # 0
    BY <2>1, <2>2, FS_CardinalityType, FS_EmptySet
  <2> QED
    BY <1>1, <2>2, <2>3
<1>3. ASSUME NEW r \in S, NEW s \in S, r.index < s.index PROVE rank[r] < rank[s]
  <2>1. upTo(r) \in SUBSET upTo(s) /\ s \in upTo(s) /\ s \notin upTo(r)
    BY <1>3
  <2>2. Cardinality(upTo(r)) <= Cardinality(upTo(s)) /\ Cardinality(upTo(r)) # Cardinality(upTo(s))
    BY <1>2, <2>1, FS_Subset
  <2>3. Cardinality(upTo(r)) \in Nat /\ Cardinality(upTo(s)) \in Nat
    BY <1>2, FS_CardinalityType
  <2> QED
    BY <2>2, <2>3
<1>4. rank \in [S -> 1..n]
  BY <1>2
<1> HIDE DEF rank, n
<1>5. ASSUME NEW r \in S, NEW s \in S, rank[r] = rank[s] PROVE r = s
  <2>1. r.index \in Nat /\ s.index \in Nat /\ rank[r] \in Nat
    BY <1>1, <1>4
  <2>2. ~(r.index < s.index) /\ ~(s.index < r.index)
    BY <1>3, <1>5, <2>1
  <2> QED
    BY <2>1, <2>2
<1>6. rank \in Injection(S, 1..n)
  BY <1>4, <1>5 DEF Injection, IsInjective
<1>7. \A k \in 1..n : \E s \in S : rank[s] = k
  <2>1. IsFiniteSet(1..n) /\ Cardinality(1..n) = n
    BY <1>1, FS_Interval
  <2>2. rank \in Surjection(S, 1..n)
    BY <1>6, <2>1, FS_Injection DEF n
  <2> QED
    BY <2>2 DEF Surjection
<1> DEFINE q == [k \in 1..n |-> CHOOSE s \in S : rank[s] = k]
<1>8. q \in [1..n -> S] /\ \A k \in 1..n : rank[q[k]] = k
  BY <1>7
<1> HIDE DEF q
<1>9. ASSUME NEW j \in 1..n, NEW k \in 1..n, j < k PROVE q[j].index < q[k].index
  <2>1. q[j] \in S /\ q[k] \in S /\ q[j].index \in Nat /\ q[k].index \in Nat
    BY <1>8
  <2>2. q[j].index # q[k].index
    <3> SUFFICES ASSUME q[j].index = q[k].index PROVE FALSE
      OBVIOUS
    <3>1. q[j] = q[k]
      BY <2>1
    <3> QED
      BY <1>1, <1>8, <1>9, <3>1
  <2>3. ~(q[k].index < q[j].index)
    <3> SUFFICES ASSUME q[k].index < q[j].index PROVE FALSE
      OBVIOUS
    <3>1. rank[q[k]] < rank[q[j]]
      BY <1>3, <2>1
    <3> QED
      BY <1>1, <1>8, <1>9, <3>1
  <2> QED
    BY <2>1, <2>2, <2>3
<1>10. \E p \in [1..n -> S] : \A j, k \in 1..n : j < k => p[j].index < p[k].index
  BY <1>8, <1>9
<1>11. /\ InOrder(S) \in [1..n -> S]
       /\ \A j, k \in 1..n : j < k => InOrder(S)[j].index < InOrder(S)[k].index
  BY ONLY <1>10 DEF InOrder, n
<1> DEFINE o == InOrder(S)
<1>12. /\ o \in [1..n -> S] /\ \A k \in 1..n : o[k].index \in Nat
       /\ \A j, k \in 1..n : j < k => o[j].index < o[k].index
  BY <1>11
<1> HIDE DEF o
<1>13. o \in Injection(1..n, S)
  <2>1. ASSUME NEW j \in 1..n, NEW k \in 1..n, o[j] = o[k] PROVE j = k
    <3>1. ~(j < k) /\ ~(k < j)
      BY <1>12, <2>1
    <3> QED
      BY <1>1, <3>1
  <2> QED
    BY <1>12, <2>1 DEF Injection, IsInjective
<1>14. o \in Surjection(1..n, S)
  <2>1. IsFiniteSet(1..n) /\ Cardinality(1..n) = Cardinality(S)
    BY <1>1, FS_Interval DEF n
  <2> QED
    BY <1>13, <2>1, FS_Injection
<1>15. \A s \in S : \E k \in 1..n : o[k] = s
  BY <1>14 DEF Surjection
<1> QED
  BY <1>1, <1>11, <1>15 DEF n, o

-----------------------------------------------------------------------------
\* Segments beyond those of the transcript, put behind it in their order, leave it
\* in order.
LEMMA TranscriptExtended ==
    ASSUME StoreInv, outcome = "none", NEW w \in SUBSET Segment, IsFiniteSet(w),
           \A s \in w : s.index >= nextSegment /\ ~Blank(s.text),
           \A r, s \in w : r.index = s.index => r = s,
           transcript' = transcript \o InOrder(w)
    PROVE  /\ transcript' \in Seq(Segment) /\ TranscriptOrdered'
           /\ TranscriptSet' = TranscriptSet \cup w
<1> DEFINE n == Len(transcript)
           m == Cardinality(w)
           q == InOrder(w)
<1>1. /\ transcript \in Seq(Segment) /\ n \in Nat /\ DOMAIN transcript = 1..n /\ nextSegment \in Nat
      /\ \A s \in Segment : s.index \in Nat
  BY DEF StoreInv, StoreTypes, Segment
<1>2. /\ m \in Nat /\ q \in [1..m -> w]
      /\ \A j, k \in 1..m : j < k => q[j].index < q[k].index
      /\ \A s \in w : \E k \in 1..m : q[k] = s
  BY <1>1, OrderFound
<1> HIDE DEF q, m
<1>3. q \in Seq(Segment) /\ Len(q) = m
  BY <1>2
<1>4. transcript' = transcript \o q
  BY DEF q
<1> HIDE DEF n
<1>5. /\ transcript' \in Seq(Segment) /\ DOMAIN transcript' = 1..(n + m)
      /\ \A k \in 1..(n + m) : transcript'[k] = IF k <= n THEN transcript[k] ELSE q[k - n]
  BY <1>1, <1>3, <1>4, ConcatProperties DEF n
<1>6. ASSUME NEW k \in 1..(n + m)
      PROVE  \/ k \in 1..n /\ transcript'[k] = transcript[k]
             \/ k > n /\ k - n \in 1..m /\ transcript'[k] = q[k - n] /\ q[k - n] \in w
  <2>1. n \in Nat /\ m \in Nat
    BY ONLY <1>1, <1>2
  <2>2. (k <= n /\ k \in 1..n) \/ (k > n /\ k - n \in 1..m /\ ~(k <= n))
    BY ONLY <2>1, k \in 1..(n + m)
  <2>3. transcript'[k] = IF k <= n THEN transcript[k] ELSE q[k - n]
    BY ONLY <1>5, k \in 1..(n + m)
  <2>4. k - n \in 1..m => q[k - n] \in w
    BY ONLY <1>2
  <2> QED
    BY ONLY <2>2, <2>3, <2>4
<1>7. TranscriptSet' \subseteq TranscriptSet \cup w
  <2> SUFFICES ASSUME NEW r \in TranscriptSet' PROVE r \in TranscriptSet \cup w
    OBVIOUS
  <2>1. PICK k \in 1..(n + m) : r = transcript'[k]
    BY <1>5 DEF TranscriptSet
  <2>2. \A j \in 1..n : transcript[j] \in TranscriptSet
    BY <1>1 DEF TranscriptSet
  <2>3. (k \in 1..n /\ transcript'[k] = transcript[k]) \/ transcript'[k] \in w
    BY <1>6
  <2> QED
    BY <2>1, <2>2, <2>3
<1>8. \A k \in 1..n : transcript[k] \in Segment /\ transcript[k].index < nextSegment
  <2>1. \A k \in 1..n : transcript[k] \in TranscriptSet /\ transcript[k] \in Segment
    BY <1>1 DEF TranscriptSet
  <2>2. \A s \in TranscriptSet : s.index < nextSegment
    BY DEF StoreInv, FinalsInPlace, FinalsHome
  <2> QED
    BY <2>1, <2>2
<1>9. ASSUME NEW j \in 1..(n + m), NEW k \in 1..(n + m), j < k
      PROVE  transcript'[j].index < transcript'[k].index
  <2>1. CASE k \in 1..n
    <3>1. j \in 1..n /\ transcript'[j] = transcript[j] /\ transcript'[k] = transcript[k]
      BY <1>1, <1>2, <1>5, <1>9, <2>1
    <3> QED
      BY <1>1, <1>9, <2>1, <3>1 DEF StoreInv, FinalsInPlace, TranscriptOrdered
  <2>2. CASE j \in 1..n /\ k > n
    <3>1. transcript'[j] = transcript[j] /\ transcript'[k] \in w
      BY <1>1, <1>2, <1>5, <1>6, <2>2
    <3>2. transcript[j].index \in Nat /\ transcript'[k].index \in Nat
      BY <1>1, <1>8, <2>2, <3>1
    <3>3. transcript[j].index < nextSegment /\ transcript'[k].index >= nextSegment /\ nextSegment \in Nat
      BY <1>1, <1>8, <2>2, <3>1
    <3> QED
      BY ONLY <3>1, <3>2, <3>3
  <2>3. CASE j > n
    <3>1. k > n /\ j - n < k - n /\ j \notin 1..n /\ k \notin 1..n
      BY <1>1, <1>2, <1>9, <2>3
    <3>2. /\ j - n \in 1..m /\ transcript'[j] = q[j - n]
          /\ k - n \in 1..m /\ transcript'[k] = q[k - n]
      BY ONLY <1>6, <3>1, j \in 1..(n + m), k \in 1..(n + m)
    <3> QED
      BY <1>2, <3>1, <3>2
  <2> QED
    BY <1>1, <1>6, <2>1, <2>2, <2>3
<1>10. TranscriptOrdered'
  <2>1. \A s \in TranscriptSet' : ~Blank(s.text)
    BY <1>7 DEF StoreInv, FinalsInPlace, TranscriptOrdered
  <2> QED
    BY <1>5, <1>9, <2>1 DEF TranscriptOrdered
<1>11. TranscriptSet \cup w \subseteq TranscriptSet'
  <2> SUFFICES ASSUME NEW r \in TranscriptSet \cup w PROVE r \in TranscriptSet'
    OBVIOUS
  <2>1. CASE r \in TranscriptSet
    <3>1. PICK k \in 1..n : r = transcript[k]
      BY <1>1, <2>1 DEF TranscriptSet
    <3>2. k \in 1..(n + m) /\ transcript'[k] = r
      BY <1>1, <1>2, <1>5, <3>1
    <3> QED
      BY <1>5, <3>2 DEF TranscriptSet
  <2>2. CASE r \in w
    <3>1. PICK k \in 1..m : q[k] = r
      BY <1>2, <2>2
    <3>2. /\ n + k \in 1..(n + m) /\ ~(n + k <= n) /\ (n + k) - n = k
      BY <1>1, <1>2
    <3>3. transcript'[n + k] = r
      BY <1>5, <3>1, <3>2
    <3> QED
      BY <1>5, <3>2, <3>3 DEF TranscriptSet
  <2> QED
    BY <2>1, <2>2
<1> QED
  BY <1>5, <1>7, <1>10, <1>11

\* A final that takes an index nobody has used, and all that it lets through, get to
\* where they belong.
LEMMA DrainKeeps ==
    ASSUME StoreInv, outcome = "none", outcome' = outcome,
           NEW s \in Segment, completed[s.id] \notin Nat, ~IndexReused(s.index),
           completed' = [completed EXCEPT ![s.id] = s.index],
           NEW bytes, NEW removed, Drain(Put(pending, s), bytes, removed)
    PROVE  /\ transcript' \in Seq(Segment) /\ pending' \subseteq Segment /\ IsFiniteSet(pending')
           /\ nextSegment' \in Nat /\ FinalsHome' /\ TranscriptOrdered'
<1> DEFINE segs == Put(pending, s)
           gap == FirstGap(segs, nextSegment)
           drained == Below(segs, gap)
<1>1. /\ pending \subseteq Segment /\ IsFiniteSet(pending) /\ nextSegment \in Nat
      /\ completed \in [Ids -> Nat \cup {Open, Unindexed}] /\ transcript \in Seq(Segment)
      /\ \A r \in Segment : r.index \in Nat /\ r.id \in Ids
  BY DEF StoreInv, StoreTypes, Segment
<1>2. segs = pending \cup {s} /\ segs \subseteq Segment /\ IsFiniteSet(segs)
  <2>1. segs = pending \cup {s}
    BY DEF Put, IndexReused
  <2> QED
    BY <1>1, <2>1, FS_AddElement
<1>3. \A r \in TranscriptSet \cup pending :
        r \in Segment /\ completed[r.id] = r.index /\ completed'[r.id] = r.index
  <2> TAKE r \in TranscriptSet \cup pending
  <2>1. r \in Segment /\ completed[r.id] = r.index
    BY <1>1 DEF StoreInv, FinalsInPlace, FinalsHome, TranscriptSet
  <2>2. r.index \in Nat /\ r.id \in Ids /\ r.id # s.id
    BY <1>1, <2>1
  <2> QED
    BY <1>1, <2>1, <2>2
<1>4. completed'[s.id] = s.index /\ s.index \in Nat
  BY <1>1
<1>5. \A r \in segs : r.index \in Nat /\ r.index >= nextSegment
  BY <1>1, <1>2, <1>4 DEF StoreInv, FinalsInPlace, FinalsHome, IndexReused
<1>6. \A r, t \in segs : r.index = t.index => r = t
  BY <1>2 DEF StoreInv, FinalsInPlace, FinalsHome, IndexReused
<1>7. gap \in Nat /\ gap >= nextSegment /\ ~\E r \in segs : r.index = gap
  BY <1>1, <1>2, GapFound
<1>8. /\ pending' = segs \ drained /\ nextSegment' = gap
      /\ transcript' = transcript \o InOrder(WithText(drained))
  BY DEF Drain
<1>9. drained = {r \in segs : r.index < gap} /\ WithText(drained) = {r \in drained : ~Blank(r.text)}
  BY DEF Below, WithText
<1> HIDE DEF segs, gap, drained
<1>10. /\ WithText(drained) \in SUBSET segs /\ IsFiniteSet(WithText(drained))
       /\ \A r \in WithText(drained) : ~Blank(r.text) /\ r.index < gap
  <2>1. WithText(drained) \in SUBSET segs
    BY <1>9
  <2> QED
    BY <1>2, <1>9, <2>1, FS_Subset
<1>11. /\ transcript' \in Seq(Segment) /\ TranscriptOrdered'
       /\ TranscriptSet' \subseteq TranscriptSet \cup WithText(drained)
  <2> DEFINE w == WithText(drained)
  <2>1. /\ w \in SUBSET Segment /\ IsFiniteSet(w) /\ transcript' = transcript \o InOrder(w)
        /\ \A r \in w : r.index >= nextSegment /\ ~Blank(r.text)
        /\ \A r, t \in w : r.index = t.index => r = t
    BY <1>2, <1>5, <1>6, <1>8, <1>10
  <2> HIDE DEF w
  <2>2. transcript' \in Seq(Segment) /\ TranscriptOrdered' /\ TranscriptSet' \subseteq TranscriptSet \cup w
    BY <2>1, TranscriptExtended
  <2> QED
    BY <2>2 DEF w
<1>12. pending' \subseteq segs /\ IsFiniteSet(pending') /\ \A r \in pending' : r.index > gap
  <2>1. pending' \in SUBSET segs
    BY <1>8
  <2>2. \A r \in pending' : r.index \in Nat /\ r.index # gap /\ ~(r.index < gap)
    BY <1>5, <1>7, <1>8, <1>9
  <2> QED
    BY <1>2, <1>7, <2>1, <2>2, FS_Subset
<1>13. \A r \in TranscriptSet : r.index \in Nat /\ r.index < nextSegment
  BY <1>1, <1>3 DEF StoreInv, FinalsInPlace, FinalsHome
<1>14. \A r \in TranscriptSet \cup segs : r \in Segment /\ completed'[r.id] = r.index
  BY <1>2, <1>3, <1>4
<1>15. \A r, t \in TranscriptSet \cup segs : r.index = t.index => r = t
  <2> TAKE r, t \in TranscriptSet \cup segs
  <2>1. CASE r \in TranscriptSet /\ t \in TranscriptSet
    BY <2>1 DEF StoreInv, FinalsInPlace, FinalsHome
  <2>2. CASE r \in segs /\ t \in segs
    BY <1>6, <2>2
  <2>3. CASE r \in TranscriptSet /\ t \in segs
    BY <1>1, <1>5, <1>13, <2>3
  <2>4. CASE r \in segs /\ t \in TranscriptSet
    BY <1>1, <1>5, <1>13, <2>4
  <2> QED
    BY <2>1, <2>2, <2>3, <2>4
<1>16. TranscriptSet' \cup pending' \subseteq TranscriptSet \cup segs
  BY <1>10, <1>11, <1>12
<1>17. \A r \in TranscriptSet' : r.index < nextSegment'
  <2> TAKE r \in TranscriptSet'
  <2>1. CASE r \in TranscriptSet
    BY <1>1, <1>7, <1>8, <1>13, <2>1
  <2>2. CASE r \in WithText(drained)
    BY <1>8, <1>10, <2>2
  <2> QED
    BY <1>11, <2>1, <2>2
<1>18. ASSUME NEW id \in Ids, completed'[id] \in Nat, ~\E r \in pending' : r.id = id
       PROVE  completed'[id] < nextSegment'
  <2>1. CASE \E r \in segs : r.id = id
    <3>1. PICK r \in segs : r.id = id
      BY <2>1
    <3>2. r \in drained
      BY <1>8, <1>18, <3>1
    <3> QED
      BY <1>8, <1>9, <1>14, <3>1, <3>2
  <2>2. CASE ~\E r \in segs : r.id = id
    <3>1. id # s.id /\ ~\E r \in pending : r.id = id
      BY <1>2, <2>2
    <3>2. completed'[id] = completed[id]
      BY <1>1, <3>1
    <3>3. completed[id] < nextSegment
      BY <1>18, <3>1, <3>2 DEF StoreInv, FinalsInPlace, FinalsHome
    <3> QED
      BY <1>1, <1>7, <1>8, <1>18, <3>2, <3>3
  <2> QED
    BY <2>1, <2>2
<1>19. FinalsHome'
  <2>1. \A r \in TranscriptSet' \cup pending' : completed'[r.id] = r.index
    BY <1>14, <1>16
  <2>2. \A r, t \in TranscriptSet' \cup pending' : (r.id = t.id \/ r.index = t.index) => r = t
    BY <1>15, <1>16, <2>1
  <2>3. \A r \in pending' : r.index > nextSegment'
    BY <1>8, <1>12
  <2> QED
    BY <1>17, <1>18, <2>1, <2>2, <2>3 DEF FinalsHome
<1> QED
  BY <1>2, <1>7, <1>8, <1>11, <1>12, <1>19

-----------------------------------------------------------------------------
\* A call that is refused, or only about ids and partials, moves no final.
LEMMA FinalsUntouched ==
    ASSUME StoreInv, UNCHANGED <<transcript, pending, completed, unindexed, nextSegment, outcome>>
    PROVE  StoreInv'
<1>1. StoreTypes' /\ UnindexedOnce'
  BY DEF StoreInv, StoreTypes, UnindexedOnce
<1>2. TranscriptSet' = TranscriptSet
  BY DEF TranscriptSet
<1>3. UnindexedHome' /\ FinalsHome' /\ TranscriptOrdered'
  BY <1>2 DEF StoreInv, FinalsInPlace, UnindexedHome, FinalsHome, TranscriptOrdered
<1> QED
  BY <1>1, <1>3 DEF StoreInv, FinalsInPlace

\* A final without an index gets one.
LEMMA PlaceStep ==
    ASSUME StoreInv, outcome = "none", NEW i \in Nat, NEW id \in Ids,
           completed[id] = Unindexed, PlaceUnindexed(i, id)
    PROVE  StoreInv'
<1>1. CASE Fail("protocol") \/ Fail("resource")
  BY <1>1, FinalsUntouched DEF Fail, texts
<1>2. ASSUME ~IndexReused(i), NEW u \in unindexed, u.id = id, TakeUnindexed(u),
             completed' = [completed EXCEPT ![id] = i],
             Drain(Put(pending, [id |-> id, index |-> i, text |-> u.text]), retained, HasPartial(id)),
             UNCHANGED <<ids, outcome>>
      PROVE  StoreInv'
  <2> DEFINE s == [id |-> id, index |-> i, text |-> u.text]
  <2>1. /\ completed \in [Ids -> Nat \cup {Open, Unindexed}] /\ i \in Nat /\ u.text \in Seq(Chars)
        /\ unindexed \subseteq [id : Ids, text : Seq(Chars)]
    BY InputsAssumption DEF StoreInv, StoreTypes
  <2>2. s \in Segment /\ s.id = id /\ s.index = i
    BY <2>1 DEF Segment
  <2>3. completed[id] \notin Nat
    BY MarksAssumption
  <2>4. Drain(Put(pending, s), retained, HasPartial(id))
    BY <1>2
  <2> HIDE DEF s
  <2>5. /\ transcript' \in Seq(Segment) /\ pending' \subseteq Segment /\ IsFiniteSet(pending')
        /\ nextSegment' \in Nat /\ FinalsHome' /\ TranscriptOrdered'
    BY <1>2, <2>2, <2>3, <2>4, DrainKeeps
  <2>6. unindexed' = unindexed \ {u} /\ completed' \in [Ids -> Nat \cup {Open, Unindexed}]
    BY <1>2, <2>1 DEF TakeUnindexed
  <2>7. UnindexedOnce'
    BY <2>6 DEF StoreInv, UnindexedOnce
  <2>8. UnindexedHome'
    <3> SUFFICES ASSUME NEW j \in Ids
                 PROVE  completed'[j] = Unindexed <=> \E v \in unindexed' : v.id = j
      BY DEF UnindexedHome
    <3>1. CASE j = id
      <4>1. completed'[j] = i /\ i # Unindexed
        BY <1>2, <2>1, <3>1, MarksAssumption
      <4>2. ~\E v \in unindexed' : v.id = j
        BY <1>2, <2>6, <3>1 DEF StoreInv, UnindexedOnce
      <4> QED
        BY <4>1, <4>2
    <3>2. CASE j # id
      <4>1. completed'[j] = completed[j]
        BY <1>2, <2>1, <3>2
      <4>2. completed[j] = Unindexed <=> \E v \in unindexed : v.id = j
        BY DEF StoreInv, FinalsInPlace, UnindexedHome
      <4> QED
        BY <1>2, <2>6, <3>2, <4>1, <4>2
    <3> QED
      BY <3>1, <3>2
  <2> QED
    BY <2>1, <2>5, <2>6, <2>7, <2>8 DEF StoreInv, StoreTypes, FinalsInPlace
<1> QED
  BY <1>1, <1>2 DEF PlaceUnindexed

\* A final of an id that has none.
LEMMA CommitNewStep ==
    ASSUME StoreInv, outcome = "none", NEW i \in Nat, NEW id \in Ids, NEW text \in Seq(Chars),
           completed[id] = Open, CommitNew(i, id, text)
    PROVE  StoreInv'
<1>1. CASE Fail("protocol") \/ Fail("resource")
  BY <1>1, FinalsUntouched DEF Fail, texts
<1>2. ASSUME ~IndexReused(i), completed' = [completed EXCEPT ![id] = i],
             Drain(Put(pending, [id |-> id, index |-> i, text |-> text]),
                   RetainedWith(id, Len(text)), HasPartial(id)),
             UNCHANGED <<unindexed, outcome>>
      PROVE  StoreInv'
  <2> DEFINE s == [id |-> id, index |-> i, text |-> text]
  <2>1. completed \in [Ids -> Nat \cup {Open, Unindexed}] /\ i \in Nat /\ text \in Seq(Chars)
    BY InputsAssumption DEF StoreInv, StoreTypes
  <2>2. s \in Segment /\ s.id = id /\ s.index = i
    BY <2>1 DEF Segment
  <2>3. completed[id] \notin Nat
    BY MarksAssumption
  <2>4. Drain(Put(pending, s), RetainedWith(id, Len(text)), HasPartial(id))
    BY <1>2
  <2> HIDE DEF s
  <2>5. /\ transcript' \in Seq(Segment) /\ pending' \subseteq Segment /\ IsFiniteSet(pending')
        /\ nextSegment' \in Nat /\ FinalsHome' /\ TranscriptOrdered'
    BY <1>2, <2>2, <2>3, <2>4, DrainKeeps
  <2>6. completed' \in [Ids -> Nat \cup {Open, Unindexed}]
    BY <1>2, <2>1
  <2>7. \A j \in Ids : completed'[j] = Unindexed <=> completed[j] = Unindexed
    BY <1>2, <2>1, MarksAssumption
  <2>8. UnindexedHome' /\ UnindexedOnce'
    BY <1>2, <2>7 DEF StoreInv, FinalsInPlace, UnindexedHome, UnindexedOnce
  <2> QED
    BY <1>2, <2>5, <2>6, <2>8 DEF StoreInv, StoreTypes, FinalsInPlace
<1> QED
  BY <1>1, <1>2 DEF CommitNew

\* A final that has no index yet waits among those.
LEMMA UnindexedStep ==
    ASSUME StoreInv, NEW id \in Ids, NEW text \in Seq(Chars), CompleteUnindexed(id, text)
    PROVE  StoreInv'
<1>1. CASE NoOp \/ Fail("resource")
  BY <1>1, FinalsUntouched DEF NoOp, Fail, texts
<1>2. ASSUME completed[id] = Open, completed' = [completed EXCEPT ![id] = Unindexed],
             unindexed' = unindexed \cup {[id |-> id, text |-> text]},
             UNCHANGED <<transcript, pending, nextSegment, outcome>>
      PROVE  StoreInv'
  <2> DEFINE new == [id |-> id, text |-> text]
  <2>1. /\ completed \in [Ids -> Nat \cup {Open, Unindexed}] /\ new \in [id : Ids, text : Seq(Chars)]
        /\ new.id = id /\ transcript \in Seq(Segment) /\ pending \subseteq Segment
        /\ \A s \in Segment : s.index \in Nat
    BY InputsAssumption DEF StoreInv, StoreTypes, Segment
  <2>2. unindexed' = unindexed \cup {new}
    BY <1>2
  <2> HIDE DEF new
  <2>3. outcome = "none"
    BY DEF CompleteUnindexed
  <2>4. completed[id] # Unindexed /\ ~\E u \in unindexed : u.id = id
    BY <1>2, <2>3, MarksAssumption DEF StoreInv, FinalsInPlace, UnindexedHome
  <2>5. UnindexedOnce'
    BY <2>1, <2>2, <2>4 DEF StoreInv, UnindexedOnce
  <2>6. UnindexedHome'
    <3> SUFFICES ASSUME NEW j \in Ids
                 PROVE  completed'[j] = Unindexed <=> \E v \in unindexed' : v.id = j
      BY DEF UnindexedHome
    <3>1. completed'[j] = (IF j = id THEN Unindexed ELSE completed[j])
      BY <1>2, <2>1
    <3>2. completed[j] = Unindexed <=> \E v \in unindexed : v.id = j
      BY <2>3 DEF StoreInv, FinalsInPlace, UnindexedHome
    <3> QED
      BY <2>1, <2>2, <3>1, <3>2
  <2>7. StoreTypes'
    BY <1>2, <2>1, <2>2 DEF StoreInv, StoreTypes
  <2>8. TranscriptSet' = TranscriptSet /\ TranscriptSet \subseteq Segment
    BY <1>2, <2>1 DEF TranscriptSet
  <2>9. TranscriptOrdered'
    BY <1>2, <2>8 DEF StoreInv, FinalsInPlace, TranscriptOrdered
  <2>10. \A j \in Ids : completed'[j] \in Nat => completed'[j] = completed[j]
    BY <1>2, <2>1, MarksAssumption
  <2>11. \A j \in Ids : completed[j] \in Nat => completed'[j] = completed[j]
    BY <1>2, <2>1, MarksAssumption
  <2>12. \A s \in TranscriptSet \cup pending : completed'[s.id] = s.index
    <3> TAKE s \in TranscriptSet \cup pending
    <3>1. s \in Segment /\ completed[s.id] = s.index
      BY <2>1, <2>8 DEF StoreInv, FinalsInPlace, FinalsHome
    <3>2. s.id \in Ids /\ s.index \in Nat
      BY <3>1 DEF Segment
    <3> QED
      BY <2>11, <3>1, <3>2
  <2>13. FinalsHome'
    BY <1>2, <2>3, <2>8, <2>10, <2>12 DEF StoreInv, FinalsInPlace, FinalsHome
  <2> QED
    BY <2>5, <2>6, <2>7, <2>9, <2>13 DEF StoreInv, FinalsInPlace
<1> QED
  BY <1>1, <1>2 DEF CompleteUnindexed

\* The end puts the pending finals behind the transcript.
LEMMA SettleStep ==
    ASSUME StoreInv, outcome = "none", NEW result, result # "none", Settle(result) PROVE StoreInv'
<1> DEFINE w == WithText(pending)
<1>1. /\ pending \subseteq Segment /\ IsFiniteSet(pending) /\ nextSegment \in Nat
      /\ \A s \in Segment : s.index \in Nat
  BY DEF StoreInv, StoreTypes, Segment
<1>2. w \in SUBSET pending /\ \A s \in w : ~Blank(s.text)
  BY DEF WithText
<1>3. transcript' = transcript \o InOrder(w)
  BY DEF Settle
<1> HIDE DEF w
<1>4. IsFiniteSet(w) /\ w \in SUBSET Segment
  BY <1>1, <1>2, FS_Subset
<1>5. \A s \in w : s.index >= nextSegment
  BY <1>1, <1>2 DEF StoreInv, FinalsInPlace, FinalsHome
<1>6. \A r, s \in w : r.index = s.index => r = s
  BY <1>2 DEF StoreInv, FinalsInPlace, FinalsHome
<1>7. /\ transcript' \in Seq(Segment) /\ TranscriptOrdered'
      /\ TranscriptSet' \subseteq TranscriptSet \cup w
  BY <1>2, <1>3, <1>4, <1>5, <1>6, TranscriptExtended
<1>8. /\ pending' = {} /\ unindexed' = {} /\ outcome' # "none"
      /\ completed' = completed /\ nextSegment' = nextSegment
  BY DEF Settle
<1>9. StoreTypes' /\ UnindexedOnce' /\ UnindexedHome'
  BY <1>7, <1>8, FS_EmptySet DEF StoreInv, StoreTypes, UnindexedOnce, UnindexedHome
<1>10. TranscriptSet' \cup pending' \subseteq TranscriptSet \cup pending
  BY <1>2, <1>7, <1>8
<1>11. FinalsHome'
  BY <1>8, <1>10 DEF StoreInv, FinalsInPlace, FinalsHome
<1> QED
  BY <1>7, <1>9, <1>11 DEF StoreInv, FinalsInPlace

\* A new store has no finals.
LEMMA InitStore == Init => StoreInv
<1> SUFFICES ASSUME Init PROVE StoreInv
  OBVIOUS
<1>1. TranscriptSet = {} /\ transcript = <<>> /\ <<>> \in Seq(Segment) /\ IsFiniteSet({})
  BY EmptySeq, FS_EmptySet DEF Init, TranscriptSet
<1>2. StoreTypes /\ UnindexedOnce
  BY <1>1 DEF Init, StoreTypes, UnindexedOnce
<1>3. UnindexedHome /\ FinalsHome /\ TranscriptOrdered
  BY <1>1, MarksAssumption DEF Init, UnindexedHome, FinalsHome, TranscriptOrdered
<1> QED
  BY <1>2, <1>3 DEF StoreInv, FinalsInPlace

\* What a driver may call: any index and any text.
AnyCall ==
    \/ \E id \in Ids : RegisterId(id)
    \/ \E id \in Ids, t \in Seq(Chars) :
         SetPartial(id, t) \/ AppendDelta(id, t) \/ CompleteUnindexed(id, t)
    \/ \E id \in Ids, i \in Nat : IndexUnindexed(i, id)
    \/ \E id \in Ids, i \in Nat, t \in Seq(Chars) : Commit(i, id, t)
    \/ Complete
    \/ FailSession

\* The calls of the model are among them.
LEMMA CallsAreAny == Next => AnyCall
BY InputsAssumption DEF Next, AnyCall

\* Partials and ids move no final.
LEMMA PartialsStep ==
    ASSUME NEW id \in Ids,
           RegisterId(id) \/ (\E t \in Seq(Chars) : SetPartial(id, t)) \/ \E d \in Seq(Chars) : AppendDelta(id, d)
    PROVE  UNCHANGED <<transcript, pending, completed, unindexed, nextSegment, outcome>>
BY DEF RegisterId, SetPartial, AppendDelta, ReplacePartial, NoOp, Fail, texts

\* Every call keeps it, the ones that do nothing too.
LEMMA StoreStep == StoreInv /\ [AnyCall]_storeVars => StoreInv'
<1> SUFFICES ASSUME StoreInv, [AnyCall]_storeVars PROVE StoreInv'
  OBVIOUS
<1>1. CASE UNCHANGED storeVars
  BY <1>1, FinalsUntouched DEF storeVars, texts
<1>2. ASSUME NEW id \in Ids,
             RegisterId(id) \/ (\E t \in Seq(Chars) : SetPartial(id, t)) \/ \E d \in Seq(Chars) : AppendDelta(id, d)
      PROVE  StoreInv'
  BY <1>2, PartialsStep, FinalsUntouched
<1>3. ASSUME NEW id \in Ids, NEW t \in Seq(Chars), CompleteUnindexed(id, t) PROVE StoreInv'
  BY <1>3, UnindexedStep
<1>4. ASSUME NEW id \in Ids, NEW i \in Nat, IndexUnindexed(i, id) PROVE StoreInv'
  <2>1. CASE NoOp \/ Fail("protocol")
    BY <2>1, FinalsUntouched DEF NoOp, Fail, texts
  <2>2. CASE completed[id] = Unindexed /\ PlaceUnindexed(i, id)
    BY <1>4, <2>2, PlaceStep DEF IndexUnindexed
  <2> QED
    BY <1>4, <2>1, <2>2 DEF IndexUnindexed
<1>5. ASSUME NEW id \in Ids, NEW i \in Nat, NEW t \in Seq(Chars), Commit(i, id, t) PROVE StoreInv'
  <2>1. CASE NoOp \/ Fail("protocol")
    BY <2>1, FinalsUntouched DEF NoOp, Fail, texts
  <2>2. CASE completed[id] = Unindexed /\ PlaceUnindexed(i, id)
    BY <1>5, <2>2, PlaceStep DEF Commit
  <2>3. CASE completed[id] = Open /\ CommitNew(i, id, t)
    BY <1>5, <2>3, CommitNewStep DEF Commit
  <2> QED
    BY <1>5, <2>1, <2>2, <2>3 DEF Commit
<1>6. CASE Complete \/ FailSession
  <2>1. outcome = "none" /\ (Settle("ok") \/ Settle("error"))
    BY <1>6 DEF Complete, FailSession
  <2> QED
    BY <2>1, SettleStep
<1> QED
  BY <1>1, <1>2, <1>3, <1>4, <1>5, <1>6 DEF AnyCall

\* The inductive invariant of the result store.
THEOREM StoreInvariantHolds == Spec => []StoreInv
<1>1. StoreInv /\ [Next]_storeVars => StoreInv'
  BY StoreStep, CallsAreAny
<1> QED
  BY <1>1, InitStore, PTL DEF Spec

\* For any ids, texts, indices and limits: a final without an index is kept under its
\* id; one with an index is in one place only, confirmed before the first missing index
\* or pending behind it; and the transcript is in the order of the indices, the end
\* included.
THEOREM FinalsAreInPlace == Spec => []FinalsInPlace
<1>1. StoreInv => FinalsInPlace
  BY DEF StoreInv
<1> QED
  BY <1>1, StoreInvariantHolds, PTL

-----------------------------------------------------------------------------
\* There is only one first gap.
LEMMA FirstGapIs ==
    ASSUME NEW S, IsFiniteSet(S), NEW from \in Nat, NEW n \in Nat, n >= from,
           \A k \in from..(n - 1) : \E s \in S : s.index = k,
           ~\E s \in S : s.index = n
    PROVE  FirstGap(S, from) = n
<1> DEFINE g == FirstGap(S, from)
<1>1. /\ g \in Nat /\ g >= from /\ ~\E s \in S : s.index = g
      /\ \A k \in from..(g - 1) : \E s \in S : s.index = k
  BY GapFound
<1> HIDE DEF g
<1>2. ~(g < n)
  BY <1>1
<1>3. ~(n < g)
  BY <1>1
<1> QED
  BY <1>1, <1>2, <1>3 DEF g

\* There is only one order.
LEMMA OrderIs ==
    ASSUME NEW S, IsFiniteSet(S), \A s \in S : s.index \in Nat,
           \A r, s \in S : r.index = s.index => r = s,
           NEW q \in [1..Cardinality(S) -> S],
           \A j, k \in 1..Cardinality(S) : j < k => q[j].index < q[k].index,
           \A s \in S : \E k \in 1..Cardinality(S) : q[k] = s
    PROVE  InOrder(S) = q
<1> DEFINE n == Cardinality(S)
           p == InOrder(S)
           Bad == {k \in 1..n : p[k] # q[k]}
<1>1. /\ n \in Nat /\ p \in [1..n -> S]
      /\ \A j, k \in 1..n : j < k => p[j].index < p[k].index
      /\ \A s \in S : \E k \in 1..n : p[k] = s
  BY OrderFound
<1>2. /\ q \in [1..n -> S] /\ \A j, k \in 1..n : j < k => q[j].index < q[k].index
      /\ \A s \in S : \E k \in 1..n : q[k] = s
  OBVIOUS
<1> HIDE DEF n, p
<1>3. SUFFICES ASSUME Bad # {} PROVE FALSE
  <2>1. \A k \in 1..n : p[k] = q[k]
    BY <1>3
  <2>2. p = [k \in 1..n |-> p[k]] /\ q = [k \in 1..n |-> q[k]]
    BY <1>1, <1>2
  <2>3. p = q
    BY <2>1, <2>2
  <2> QED
    BY <2>3 DEF p
<1>4. Bad \in SUBSET Nat
  BY <1>1
<1>5. PICK m \in Bad : \A j \in Bad : m <= j
  BY <1>3, <1>4, LeastNumber
<1>6. m \in 1..n /\ m \in Nat /\ p[m] # q[m] /\ \A j \in 1..n : j < m => p[j] = q[j]
  BY <1>1, <1>4, <1>5
<1>7. p[m] \in S /\ q[m] \in S /\ p[m].index \in Nat /\ q[m].index \in Nat
  BY <1>1, <1>2, <1>6
<1>8. q[m].index < p[m].index
  <2>1. PICK j \in 1..n : q[j] = p[m]
    BY <1>2, <1>7
  <2>2. ~(j < m)
    <3> SUFFICES ASSUME j < m PROVE FALSE
      OBVIOUS
    <3>1. p[j] = p[m] /\ p[j].index < p[m].index
      BY <1>1, <1>6, <2>1
    <3> QED
      BY <1>7, <3>1
  <2>3. m < j
    BY <1>1, <1>6, <2>1, <2>2
  <2> QED
    BY <1>2, <1>6, <2>1, <2>3
<1>9. p[m].index < q[m].index
  <2>1. PICK j \in 1..n : p[j] = q[m]
    BY <1>1, <1>7
  <2>2. ~(j < m)
    <3> SUFFICES ASSUME j < m PROVE FALSE
      OBVIOUS
    <3>1. q[j] = q[m] /\ q[j].index < q[m].index
      BY <1>2, <1>6, <2>1
    <3> QED
      BY <1>7, <3>1
  <2>3. m < j
    BY <1>1, <1>6, <2>1, <2>2
  <2> QED
    BY <1>1, <1>6, <2>1, <2>3
<1> QED
  BY <1>7, <1>8, <1>9

\* Segments before and segments after: their orders come one after the other.
LEMMA OrderJoins ==
    ASSUME NEW S \in SUBSET Segment, IsFiniteSet(S), NEW R \in SUBSET Segment, IsFiniteSet(R),
           \A r, s \in S : r.index = s.index => r = s,
           \A r, s \in R : r.index = s.index => r = s,
           \A s \in S, r \in R : s.index < r.index
    PROVE  InOrder(S \cup R) = InOrder(S) \o InOrder(R)
<1> DEFINE n == Cardinality(S)
           m == Cardinality(R)
           p == InOrder(S)
           q == InOrder(R)
           o == p \o q
           T == S \cup R
<1>0. \A s \in Segment : s.index \in Nat
  BY DEF Segment
<1>1. /\ n \in Nat /\ p \in [1..n -> S]
      /\ \A j, k \in 1..n : j < k => p[j].index < p[k].index
      /\ \A s \in S : \E k \in 1..n : p[k] = s
  BY <1>0, OrderFound
<1>2. /\ m \in Nat /\ q \in [1..m -> R]
      /\ \A j, k \in 1..m : j < k => q[j].index < q[k].index
      /\ \A s \in R : \E k \in 1..m : q[k] = s
  BY <1>0, OrderFound
<1>3. S \cap R = {}
  BY <1>0
<1>4. IsFiniteSet(T) /\ Cardinality(T) = n + m
  <2>1. Cardinality(S \cap R) = 0
    BY <1>3, FS_EmptySet
  <2>2. IsFiniteSet(T) /\ Cardinality(T) = n + m - Cardinality(S \cap R)
    BY FS_Union
  <2> QED
    BY <1>1, <1>2, <2>1, <2>2
<1> HIDE DEF n, m, p, q
<1>5. p \in Seq(Segment) /\ Len(p) = n /\ q \in Seq(Segment) /\ Len(q) = m
  BY <1>1, <1>2
<1>6. /\ o \in Seq(Segment) /\ Len(o) = n + m
      /\ \A k \in 1..(n + m) : o[k] = IF k <= n THEN p[k] ELSE q[k - n]
  <2>1. /\ p \o q \in Seq(Segment) /\ Len(p \o q) = Len(p) + Len(q)
        /\ \A k \in 1..(Len(p) + Len(q)) : (p \o q)[k] = IF k <= Len(p) THEN p[k] ELSE q[k - Len(p)]
    BY ONLY <1>5, ConcatProperties
  <2> QED
    BY <1>5, <2>1
<1> HIDE DEF o
<1>7. ASSUME NEW k \in 1..(n + m)
      PROVE  \/ k \in 1..n /\ o[k] = p[k] /\ p[k] \in S
             \/ k > n /\ k - n \in 1..m /\ o[k] = q[k - n] /\ q[k - n] \in R
  <2>1. n \in Nat /\ m \in Nat
    BY ONLY <1>1, <1>2
  <2>2. (k <= n /\ k \in 1..n) \/ (k > n /\ k - n \in 1..m /\ ~(k <= n))
    BY ONLY <2>1, k \in 1..(n + m)
  <2>3. o[k] = IF k <= n THEN p[k] ELSE q[k - n]
    BY ONLY <1>6, k \in 1..(n + m)
  <2>4. (k - n \in 1..m => q[k - n] \in R) /\ (k \in 1..n => p[k] \in S)
    BY ONLY <1>1, <1>2
  <2> QED
    BY ONLY <2>2, <2>3, <2>4
<1>8. o \in [1..(n + m) -> T]
  <2>1. \A k \in 1..(n + m) : o[k] \in T
    BY <1>7
  <2>2. o \in [1..(n + m) -> Segment]
    BY <1>6
  <2> QED
    BY <2>1, <2>2
<1>9. ASSUME NEW j \in 1..(n + m), NEW k \in 1..(n + m), j < k PROVE o[j].index < o[k].index
  <2>1. CASE k \in 1..n
    <3>1. j \in 1..n /\ ~(j > n) /\ ~(k > n)
      BY <1>1, <1>2, <1>9, <2>1
    <3>2. o[j] = p[j] /\ o[k] = p[k]
      BY <1>7, <2>1, <3>1
    <3> QED
      BY <1>1, <1>9, <2>1, <3>1, <3>2
  <2>2. CASE j \in 1..n /\ k > n
    <3>1. ~(j > n) /\ k \notin 1..n
      BY <1>1, <2>2
    <3>2. o[j] \in S /\ o[k] \in R
      BY <1>7, <2>2, <3>1
    <3> QED
      BY <3>2
  <2>3. CASE j > n
    <3>1. k > n /\ j - n < k - n /\ j \notin 1..n /\ k \notin 1..n
      BY <1>1, <1>2, <1>9, <2>3
    <3>2. /\ j - n \in 1..m /\ o[j] = q[j - n]
          /\ k - n \in 1..m /\ o[k] = q[k - n]
      BY ONLY <1>7, <3>1, j \in 1..(n + m), k \in 1..(n + m)
    <3> QED
      BY <1>2, <3>1, <3>2
  <2> QED
    BY <1>1, <1>7, <2>1, <2>2, <2>3
<1>10. \A s \in T : \E k \in 1..(n + m) : o[k] = s
  <2> TAKE s \in T
  <2>1. CASE s \in S
    <3>1. PICK k \in 1..n : p[k] = s
      BY <1>1, <2>1
    <3>2. k \in 1..(n + m) /\ k <= n
      BY <1>1, <1>2
    <3> QED
      BY <1>6, <3>1, <3>2
  <2>2. CASE s \in R
    <3>1. PICK k \in 1..m : q[k] = s
      BY <1>2, <2>2
    <3>2. n + k \in 1..(n + m) /\ ~(n + k <= n) /\ (n + k) - n = k
      BY <1>1, <1>2
    <3>3. o[n + k] = s
      BY <1>6, <3>1, <3>2
    <3> QED
      BY <3>2, <3>3
  <2> QED
    BY <2>1, <2>2
<1>11. \A r, s \in T : r.index = s.index => r = s
  <2> TAKE r, s \in T
  <2>1. r.index \in Nat /\ s.index \in Nat
    BY <1>0
  <2> QED
    BY <2>1
<1>12. InOrder(T) = o
  <2>1. \A s \in T : s.index \in Nat
    BY <1>0
  <2> HIDE DEF T
  <2>2. IsFiniteSet(T) /\ o \in [1..Cardinality(T) -> T]
    BY <1>4, <1>8
  <2>3. /\ \A j, k \in 1..Cardinality(T) : j < k => o[j].index < o[k].index
        /\ \A s \in T : \E k \in 1..Cardinality(T) : o[k] = s
    BY <1>4, <1>9, <1>10
  <2> QED
    BY ONLY <1>11, <2>1, <2>2, <2>3, OrderIs
<1> QED
  BY <1>12 DEF o, p, q

-----------------------------------------------------------------------------
\* g[T] is the sum of the weights w of a subset T of S.  The recursion is that of
\* MapThenSumSet; there is such a g, and it adds as it should.
OneOf(T) == CHOOSE x \in T : TRUE
SumsUp(g, w, P) == g = [T \in P |-> IF T = {} THEN 0 ELSE w[OneOf(T)] + g[T \ {OneOf(T)}]]
Total(w, S) == (CHOOSE g : SumsUp(g, w, SUBSET S))[S]

\* One element less.
LEMMA SmallerSet ==
    ASSUME NEW T, IsFiniteSet(T), NEW x \in T
    PROVE  /\ IsFiniteSet(T \ {x}) /\ Cardinality(T) \in Nat
           /\ Cardinality(T \ {x}) \in Nat /\ Cardinality(T \ {x}) = Cardinality(T) - 1
<1>1. IsFiniteSet(T \ {x}) /\ Cardinality(T \ {x}) = Cardinality(T) - 1
  BY FS_RemoveElement
<1> QED
  BY <1>1, FS_CardinalityType

\* The element the recursion takes first is one of the set.
LEMMA OneOfIsIn == ASSUME NEW T, T # {} PROVE OneOf(T) \in T
  BY DEF OneOf

\* There is such a function, by induction on the size of its sets.
LEMMA SumExists ==
    ASSUME NEW S, IsFiniteSet(S), NEW w PROVE \E g : SumsUp(g, w, SUBSET S)
<1> DEFINE P(n) == {T \in SUBSET S : Cardinality(T) <= n}
           Bad == {n \in Nat : ~\E g : SumsUp(g, w, P(n))}
<1>0. \A T \in SUBSET S : IsFiniteSet(T) /\ Cardinality(T) \in Nat /\ Cardinality(T) <= Cardinality(S)
  BY FS_Subset, FS_CardinalityType
<1>1. SUFFICES Bad = {}
  <2>1. P(Cardinality(S)) = SUBSET S /\ Cardinality(S) \in Nat
    BY <1>0
  <2> QED
    BY <1>1, <2>1
<1>2. SUFFICES ASSUME Bad # {} PROVE FALSE
  OBVIOUS
<1>3. PICK m \in Bad : \A j \in Bad : m <= j
  BY <1>2, LeastNumber
<1>4. PICK g : m > 0 => SumsUp(g, w, P(m - 1))
  <2>1. m \in Nat /\ (m > 0 => m - 1 \in Nat /\ ~(m <= m - 1))
    BY <1>3
  <2>2. m > 0 => m - 1 \notin Bad
    BY <1>3, <2>1
  <2> QED
    BY <2>1, <2>2
<1> DEFINE h == [T \in P(m) |-> IF T = {} THEN 0 ELSE w[OneOf(T)] + g[T \ {OneOf(T)}]]
<1>5. ASSUME NEW T \in P(m), T # {} PROVE g[T \ {OneOf(T)}] = h[T \ {OneOf(T)}]
  <2> DEFINE U == T \ {OneOf(T)}
  <2>1. OneOf(T) \in T
    BY <1>5, OneOfIsIn
  <2>2. U \in SUBSET S /\ Cardinality(U) = Cardinality(T) - 1 /\ Cardinality(U) \in Nat /\ Cardinality(T) <= m
    BY <1>0, <2>1, SmallerSet
  <2>3. m > 0 /\ U \in P(m - 1) /\ U \in P(m) /\ m \in Nat
    BY <1>0, <1>3, <2>2
  <2> HIDE DEF U
  <2>4. g[U] = IF U = {} THEN 0 ELSE w[OneOf(U)] + g[U \ {OneOf(U)}]
    BY <1>4, <2>3 DEF SumsUp
  <2> QED
    BY <2>3, <2>4 DEF U
<1>6. h = [T \in P(m) |-> IF T = {} THEN 0 ELSE w[OneOf(T)] + h[T \ {OneOf(T)}]]
  <2>1. \A T \in P(m) : (IF T = {} THEN 0 ELSE w[OneOf(T)] + g[T \ {OneOf(T)}])
                         = IF T = {} THEN 0 ELSE w[OneOf(T)] + h[T \ {OneOf(T)}]
    BY <1>5
  <2> QED
    BY <2>1
<1> HIDE DEF h
<1>7. SumsUp(h, w, P(m))
  BY <1>6 DEF SumsUp
<1> QED
  BY <1>3, <1>7

\* Where two sums have the same weights, they are the same.
LEMMA SumsAgree ==
    ASSUME NEW S, IsFiniteSet(S), NEW R, IsFiniteSet(R), NEW w, NEW v, NEW g, NEW h,
           SumsUp(g, w, SUBSET S), SumsUp(h, v, SUBSET R),
           NEW T, T \subseteq S, T \subseteq R, \A x \in T : w[x] = v[x]
    PROVE  g[T] = h[T]
<1> DEFINE Bad == {n \in Nat : \E U \in SUBSET T : Cardinality(U) = n /\ g[U] # h[U]}
<1>0. \A U \in SUBSET T : IsFiniteSet(U) /\ Cardinality(U) \in Nat /\ U \in SUBSET S /\ U \in SUBSET R
  BY FS_Subset, FS_CardinalityType
<1>1. SUFFICES ASSUME Bad # {} PROVE FALSE
  BY <1>0
<1>2. PICK m \in Bad : \A j \in Bad : m <= j
  BY <1>1, LeastNumber
<1>3. PICK U \in SUBSET T : Cardinality(U) = m /\ g[U] # h[U]
  BY <1>2
<1>4. U \in SUBSET S /\ U \in SUBSET R
  BY <1>0
<1>5. /\ g[U] = IF U = {} THEN 0 ELSE w[OneOf(U)] + g[U \ {OneOf(U)}]
      /\ h[U] = IF U = {} THEN 0 ELSE v[OneOf(U)] + h[U \ {OneOf(U)}]
  BY <1>4 DEF SumsUp
<1>6. U # {} /\ OneOf(U) \in U /\ OneOf(U) \in T
  BY <1>3, <1>5, OneOfIsIn
<1>7. g[U \ {OneOf(U)}] # h[U \ {OneOf(U)}]
  BY <1>3, <1>5, <1>6
<1>8. Cardinality(U \ {OneOf(U)}) \in Nat /\ Cardinality(U \ {OneOf(U)}) = m - 1 /\ m \in Nat
  BY <1>0, <1>3, <1>6, SmallerSet
<1>9. m - 1 \in Bad
  BY <1>3, <1>7, <1>8
<1> QED
  BY <1>2, <1>8, <1>9

\* A sum over the subsets of S has the totals of all of them.
LEMMA TotalSums ==
    ASSUME NEW S, IsFiniteSet(S), NEW w
    PROVE  \E g : SumsUp(g, w, SUBSET S) /\ \A T \in SUBSET S : g[T] = Total(w, T)
<1>1. PICK g : SumsUp(g, w, SUBSET S)
  BY SumExists
<1>2. ASSUME NEW T \in SUBSET S PROVE g[T] = Total(w, T)
  <2>1. IsFiniteSet(T)
    BY FS_Subset
  <2> DEFINE h == CHOOSE h : SumsUp(h, w, SUBSET T)
  <2>2. SumsUp(h, w, SUBSET T)
    BY <2>1, SumExists
  <2> HIDE DEF h
  <2>3. g[T] = h[T]
    BY <1>1, <2>1, <2>2, SumsAgree
  <2> QED
    BY <2>3 DEF Total, h
<1> QED
  BY <1>1, <1>2

\* So the total has the recursion of MapThenSumSet.
LEMMA TotalRecursion ==
    ASSUME NEW S, IsFiniteSet(S), S # {}, NEW w
    PROVE  Total(w, S) = w[OneOf(S)] + Total(w, S \ {OneOf(S)})
<1>1. PICK g : SumsUp(g, w, SUBSET S) /\ \A T \in SUBSET S : g[T] = Total(w, T)
  BY TotalSums
<1>2. g[S] = w[OneOf(S)] + g[S \ {OneOf(S)}]
  BY <1>1 DEF SumsUp
<1>3. S \in SUBSET S /\ S \ {OneOf(S)} \in SUBSET S
  OBVIOUS
<1> QED
  BY <1>1, <1>2, <1>3

\* Nothing weighs nothing.
LEMMA TotalOfNothing == ASSUME NEW w PROVE Total(w, {}) = 0
<1>1. PICK g : SumsUp(g, w, SUBSET {}) /\ \A T \in SUBSET {} : g[T] = Total(w, T)
  BY TotalSums, FS_EmptySet
<1>2. g[{}] = Total(w, {})
  BY <1>1
<1>3. g[{}] = 0
  BY <1>1 DEF SumsUp
<1> QED
  BY <1>2, <1>3

\* The element the recursion takes first does not matter.
LEMMA TotalTakes ==
    ASSUME NEW S, IsFiniteSet(S), NEW w, \A x \in S : w[x] \in Nat
    PROVE  /\ Total(w, S) \in Nat
           /\ \A x \in S : Total(w, S) = w[x] + Total(w, S \ {x})
<1> DEFINE Fits(T) == Total(w, T) \in Nat /\ \A x \in T : Total(w, T) = w[x] + Total(w, T \ {x})
           Bad == {n \in Nat : \E T \in SUBSET S : Cardinality(T) = n /\ ~Fits(T)}
<1>0. \A T \in SUBSET S : IsFiniteSet(T) /\ Cardinality(T) \in Nat
  BY FS_Subset, FS_CardinalityType
<1>1. SUFFICES ASSUME Bad # {} PROVE FALSE
  <2>1. \A T \in SUBSET S : Fits(T)
    BY <1>0, <1>1
  <2>2. Fits(S)
    BY <2>1
  <2> QED
    BY <2>2
<1>2. PICK m \in Bad : \A j \in Bad : m <= j
  BY <1>1, LeastNumber
<1>3. PICK T \in SUBSET S : Cardinality(T) = m /\ ~Fits(T)
  BY <1>2
<1>4. ASSUME NEW x \in T PROVE Fits(T \ {x})
  <2>1. Cardinality(T \ {x}) \in Nat /\ Cardinality(T \ {x}) = m - 1 /\ m \in Nat
    BY <1>0, <1>3, SmallerSet
  <2>2. m - 1 \notin Bad
    BY <1>2, <2>1
  <2> QED
    BY <2>1, <2>2
<1> DEFINE y == OneOf(T)
<1>5. T # {}
  <2> SUFFICES ASSUME T = {} PROVE FALSE
    OBVIOUS
  <2>1. Total(w, T) = 0
    BY TotalOfNothing
  <2> QED
    BY <1>3, <2>1
<1>6. y \in T /\ Total(w, T) = w[y] + Total(w, T \ {y})
  <2>1. IsFiniteSet(T)
    BY <1>0
  <2> QED
    BY <1>5, <2>1, OneOfIsIn, TotalRecursion
<1> HIDE DEF y
<1>7. ASSUME NEW x \in T, x # y PROVE Total(w, T) = w[x] + Total(w, T \ {x})
  <2>1. Fits(T \ {x}) /\ Fits(T \ {y}) /\ y \in T \ {x} /\ x \in T \ {y}
    BY <1>4, <1>6, <1>7
  <2>2. /\ Total(w, T \ {x}) = w[y] + Total(w, (T \ {x}) \ {y})
        /\ Total(w, T \ {y}) = w[x] + Total(w, (T \ {y}) \ {x})
    BY <2>1
  <2>3. (T \ {x}) \ {y} = (T \ {y}) \ {x}
    OBVIOUS
  <2>4. Fits((T \ {x}) \ {y})
    <3>1. (T \ {x}) \ {y} \in SUBSET S /\ T \ {x} \in SUBSET S
      OBVIOUS
    <3>2. Cardinality(T \ {x}) = m - 1 /\ m \in Nat
      BY <1>0, <1>3, SmallerSet
    <3>3. /\ Cardinality((T \ {x}) \ {y}) = Cardinality(T \ {x}) - 1
          /\ Cardinality((T \ {x}) \ {y}) \in Nat
      BY <1>0, <2>1, <3>1, SmallerSet
    <3>4. m - 2 \in Nat /\ ~(m <= m - 2) /\ Cardinality((T \ {x}) \ {y}) = m - 2
      BY <3>2, <3>3
    <3>5. m - 2 \notin Bad
      BY <1>2, <3>4
    <3> QED
      BY <3>1, <3>4, <3>5
  <2>5. w[x] \in Nat /\ w[y] \in Nat /\ Total(w, (T \ {x}) \ {y}) \in Nat
    BY <1>6, <2>4
  <2> DEFINE rest == Total(w, (T \ {x}) \ {y})
  <2>6. /\ Total(w, T \ {x}) = w[y] + rest /\ Total(w, T) = w[y] + (w[x] + rest)
        /\ rest \in Nat
    BY <1>6, <2>2, <2>3, <2>5
  <2> HIDE DEF rest
  <2> QED
    BY <2>5, <2>6
<1>8. Fits(T)
  <2>1. Total(w, T \ {y}) \in Nat /\ w[y] \in Nat
    BY <1>4, <1>6
  <2> QED
    BY <1>6, <1>7, <2>1
<1> QED
  BY <1>3, <1>8

\* The total depends on the weights of the members only.
LEMMA TotalsAgree ==
    ASSUME NEW S, IsFiniteSet(S), NEW w, NEW v, \A x \in S : w[x] = v[x]
    PROVE  Total(w, S) = Total(v, S)
<1>1. PICK g : SumsUp(g, w, SUBSET S) /\ \A T \in SUBSET S : g[T] = Total(w, T)
  BY TotalSums
<1>2. PICK h : SumsUp(h, v, SUBSET S) /\ \A T \in SUBSET S : h[T] = Total(v, T)
  BY TotalSums
<1>3. g[S] = h[S]
  BY <1>1, <1>2, SumsAgree
<1> QED
  BY <1>1, <1>2, <1>3

\* The total of two sets that share nothing.
LEMMA TotalSplits ==
    ASSUME NEW S, IsFiniteSet(S), NEW w, \A x \in S : w[x] \in Nat, NEW R \in SUBSET S
    PROVE  Total(w, S) = Total(w, R) + Total(w, S \ R)
<1> DEFINE rest(T) == T \cup (S \ R)
           Fits(T) == Total(w, rest(T)) = Total(w, T) + Total(w, S \ R)
           Bad == {n \in Nat : \E T \in SUBSET R : Cardinality(T) = n /\ ~Fits(T)}
<1>0. \A T \in SUBSET S : IsFiniteSet(T) /\ Cardinality(T) \in Nat /\ Total(w, T) \in Nat
  <2> TAKE T \in SUBSET S
  <2>1. IsFiniteSet(T) /\ Cardinality(T) \in Nat /\ \A x \in T : w[x] \in Nat
    BY FS_Subset, FS_CardinalityType
  <2> QED
    BY <2>1, TotalTakes
<1>1. SUFFICES ASSUME Bad # {} PROVE FALSE
  <2>1. \A T \in SUBSET R : Fits(T)
    BY <1>0, <1>1
  <2>2. Fits(R) /\ rest(R) = S
    BY <2>1
  <2> QED
    BY <2>2
<1>2. PICK m \in Bad : \A j \in Bad : m <= j
  BY <1>1, LeastNumber
<1>3. PICK T \in SUBSET R : Cardinality(T) = m /\ ~Fits(T)
  BY <1>2
<1>4. T # {}
  <2> SUFFICES ASSUME T = {} PROVE FALSE
    OBVIOUS
  <2>1. rest(T) = S \ R /\ Total(w, T) = 0 /\ Total(w, S \ R) \in Nat
    BY <1>0, TotalOfNothing
  <2> QED
    BY <1>3, <2>1
<1>5. PICK x \in T : TRUE
  BY <1>4
<1>6. Fits(T \ {x})
  <2>1. /\ Cardinality(T \ {x}) \in Nat /\ Cardinality(T \ {x}) = Cardinality(T) - 1
        /\ Cardinality(T) \in Nat
    BY <1>0, <1>3, SmallerSet
  <2>2. m - 1 \in Nat /\ ~(m <= m - 1) /\ Cardinality(T \ {x}) = m - 1
    BY <1>3, <2>1
  <2>3. m - 1 \notin Bad
    BY <1>2, <2>2
  <2> QED
    BY <2>2, <2>3
<1>7. /\ Total(w, rest(T)) = w[x] + Total(w, rest(T) \ {x})
      /\ Total(w, T) = w[x] + Total(w, T \ {x})
  <2>1. IsFiniteSet(rest(T)) /\ IsFiniteSet(T) /\ x \in rest(T) /\ \A y \in rest(T) : w[y] \in Nat
    BY <1>0, <1>5
  <2> QED
    BY <1>5, <2>1, TotalTakes
<1>8. rest(T) \ {x} = rest(T \ {x})
  BY <1>5
<1> DEFINE a == Total(w, T \ {x})
           b == Total(w, S \ R)
<1>9. Total(w, rest(T)) = w[x] + (a + b) /\ Total(w, T) = w[x] + a
  BY <1>6, <1>7, <1>8
<1>10. a \in Nat /\ b \in Nat /\ w[x] \in Nat
  BY <1>0, <1>5
<1> HIDE DEF a
<1>11. Total(w, rest(T)) = Total(w, T) + b
  <2> HIDE DEF b
  <2> QED
    BY <1>9, <1>10
<1> QED
  BY <1>3, <1>11

-----------------------------------------------------------------------------
Lengths(S) == [s \in S |-> Len(s.text)]
LengthsIn(p) == [id \in Ids |-> Len(p[id].text)]

\* The three sums of the store are totals.
LEMMA TextTotal ==
    ASSUME NEW S, IsFiniteSet(S) PROVE TextBytes(S) = Total(Lengths(S), S)
<1>1. PICK g : SumsUp(g, Lengths(S), SUBSET S) /\ \A T \in SUBSET S : g[T] = Total(Lengths(S), T)
  BY TotalSums
<1>2. g = [T \in SUBSET S |-> IF T = {} THEN 0
                              ELSE LET x == CHOOSE x \in T : TRUE IN Len(x.text) + g[T \ {x}]]
  <2>1. \A T \in SUBSET S : T # {} => OneOf(T) \in S
    BY OneOfIsIn
  <2> QED
    BY <1>1, <2>1 DEF SumsUp, OneOf, Lengths
<1>3. \E h : /\ h = [T \in SUBSET S |-> IF T = {} THEN 0
                              ELSE LET x == CHOOSE x \in T : TRUE IN Len(x.text) + h[T \ {x}]]
             /\ TextBytes(S) = h[S]
  <2>1. \E h : h = [T \in SUBSET S |-> IF T = {} THEN 0
                              ELSE LET x == CHOOSE x \in T : TRUE IN Len(x.text) + h[T \ {x}]]
    BY <1>2
  <2> QED
    BY <2>1 DEF TextBytes, MapThenSumSet, MapThenFoldSet
<1>4. PICK h : /\ h = [T \in SUBSET S |-> IF T = {} THEN 0
                              ELSE LET x == CHOOSE x \in T : TRUE IN Len(x.text) + h[T \ {x}]]
               /\ TextBytes(S) = h[S]
  BY <1>3
<1>5. SumsUp(h, Lengths(S), SUBSET S)
  <2>1. \A T \in SUBSET S : T # {} => OneOf(T) \in S
    BY OneOfIsIn
  <2> QED
    BY <1>4, <2>1 DEF SumsUp, OneOf, Lengths
<1>6. h[S] = g[S]
  BY <1>1, <1>5, SumsAgree
<1> QED
  BY <1>1, <1>4, <1>6

\* The bytes of the partials p.
LEMMA PartialTotal ==
    ASSUME NEW p, IsFiniteSet(Ids)
    PROVE  MapThenSumSet(LAMBDA id : Len(p[id].text), Ids) = Total(LengthsIn(p), Ids)
<1>1. PICK g : SumsUp(g, LengthsIn(p), SUBSET Ids) /\ \A T \in SUBSET Ids : g[T] = Total(LengthsIn(p), T)
  BY TotalSums
<1>2. g = [T \in SUBSET Ids |-> IF T = {} THEN 0
                              ELSE LET x == CHOOSE x \in T : TRUE IN Len(p[x].text) + g[T \ {x}]]
  <2>1. \A T \in SUBSET Ids : T # {} => OneOf(T) \in Ids
    BY OneOfIsIn
  <2> QED
    BY <1>1, <2>1 DEF SumsUp, OneOf, LengthsIn
<1>3. \E h : /\ h = [T \in SUBSET Ids |-> IF T = {} THEN 0
                              ELSE LET x == CHOOSE x \in T : TRUE IN Len(p[x].text) + h[T \ {x}]]
             /\ MapThenSumSet(LAMBDA id : Len(p[id].text), Ids) = h[Ids]
  <2>1. \E h : h = [T \in SUBSET Ids |-> IF T = {} THEN 0
                              ELSE LET x == CHOOSE x \in T : TRUE IN Len(p[x].text) + h[T \ {x}]]
    BY <1>2
  <2> QED
    BY <2>1 DEF MapThenSumSet, MapThenFoldSet
<1>4. PICK h : /\ h = [T \in SUBSET Ids |-> IF T = {} THEN 0
                              ELSE LET x == CHOOSE x \in T : TRUE IN Len(p[x].text) + h[T \ {x}]]
               /\ MapThenSumSet(LAMBDA id : Len(p[id].text), Ids) = h[Ids]
  BY <1>3
<1>5. SumsUp(h, LengthsIn(p), SUBSET Ids)
  <2>1. \A T \in SUBSET Ids : T # {} => OneOf(T) \in Ids
    BY OneOfIsIn
  <2> QED
    BY <1>4, <2>1 DEF SumsUp, OneOf, LengthsIn
<1>6. h[Ids] = g[Ids]
  BY <1>1, <1>5, SumsAgree
<1> QED
  BY <1>1, <1>4, <1>6

\* The bytes of some ids.
LEMMA IdTotal ==
    ASSUME NEW S, IsFiniteSet(S)
    PROVE  MapThenSumSet(LAMBDA id : IdLen[id], S) = Total(IdLen, S)
<1>1. PICK g : SumsUp(g, IdLen, SUBSET S) /\ \A T \in SUBSET S : g[T] = Total(IdLen, T)
  BY TotalSums
<1>2. g = [T \in SUBSET S |-> IF T = {} THEN 0
                              ELSE LET x == CHOOSE x \in T : TRUE IN IdLen[x] + g[T \ {x}]]
  BY <1>1 DEF SumsUp, OneOf
<1>3. \E h : /\ h = [T \in SUBSET S |-> IF T = {} THEN 0
                              ELSE LET x == CHOOSE x \in T : TRUE IN IdLen[x] + h[T \ {x}]]
             /\ MapThenSumSet(LAMBDA id : IdLen[id], S) = h[S]
  <2>1. \E h : h = [T \in SUBSET S |-> IF T = {} THEN 0
                              ELSE LET x == CHOOSE x \in T : TRUE IN IdLen[x] + h[T \ {x}]]
    BY <1>2
  <2> QED
    BY <2>1 DEF MapThenSumSet, MapThenFoldSet
<1>4. PICK h : /\ h = [T \in SUBSET S |-> IF T = {} THEN 0
                              ELSE LET x == CHOOSE x \in T : TRUE IN IdLen[x] + h[T \ {x}]]
               /\ MapThenSumSet(LAMBDA id : IdLen[id], S) = h[S]
  BY <1>3
<1>5. SumsUp(h, IdLen, SUBSET S)
  BY <1>4 DEF SumsUp, OneOf
<1>6. h[S] = g[S]
  BY <1>1, <1>5, SumsAgree
<1> QED
  BY <1>1, <1>4, <1>6

-----------------------------------------------------------------------------
\* The bytes of the texts of some finals.
Floating == [id : Ids, text : Seq(Chars)]
Finals == Segment \cup Floating

\* A part of some finals and the rest of them weigh what all of them do.
LEMMA TextBytesSplit ==
    ASSUME NEW S \in SUBSET Finals, IsFiniteSet(S), NEW R \in SUBSET S
    PROVE  /\ TextBytes(R) \in Nat /\ TextBytes(S \ R) \in Nat
           /\ TextBytes(S) = TextBytes(R) + TextBytes(S \ R)
<1>1. \A x \in S : Lengths(S)[x] \in Nat
  <2> TAKE x \in S
  <2>1. x.text \in Seq(Chars)
    BY DEF Finals, Segment, Floating
  <2> QED
    BY <2>1, LenProperties DEF Lengths
<1>2. IsFiniteSet(R) /\ IsFiniteSet(S \ R)
  BY FS_Subset
<1>3. Total(Lengths(R), R) = Total(Lengths(S), R)
  BY <1>2, TotalsAgree DEF Lengths
<1>4. Total(Lengths(S \ R), S \ R) = Total(Lengths(S), S \ R)
  BY <1>2, TotalsAgree DEF Lengths
<1>5. Total(Lengths(S), R) \in Nat /\ Total(Lengths(S), S \ R) \in Nat
  BY <1>1, <1>2, TotalTakes
<1>6. Total(Lengths(S), S) = Total(Lengths(S), R) + Total(Lengths(S), S \ R)
  BY <1>1, TotalSplits
<1> QED
  BY <1>2, <1>3, <1>4, <1>5, <1>6, TextTotal

\* One final.
LEMMA TextBytesOne ==
    ASSUME NEW x \in Finals PROVE TextBytes({x}) = Len(x.text) /\ TextBytes({x}) \in Nat
<1>1. x.text \in Seq(Chars)
  BY DEF Finals, Segment, Floating
<1>2. Len(x.text) \in Nat
  BY <1>1, LenProperties
<1>3. IsFiniteSet({x}) /\ IsFiniteSet({})
  BY FS_Singleton, FS_EmptySet
<1>4. /\ Lengths({x})[x] = Len(x.text)
      /\ \A y \in {x} : Lengths({x})[y] \in Nat
  BY <1>2 DEF Lengths
<1>5. Total(Lengths({x}), {x}) = Len(x.text) + Total(Lengths({x}), {x} \ {x})
  BY <1>3, <1>4, TotalTakes
<1>6. {x} \ {x} = {}
  OBVIOUS
<1>7. Total(Lengths({x}), {x} \ {x}) = 0
  BY <1>6, TotalOfNothing
<1> QED
  BY <1>2, <1>3, <1>5, <1>7, TextTotal

\* No finals.
LEMMA TextBytesOfNothing == TextBytes({}) = 0
  BY TextTotal, TotalOfNothing, FS_EmptySet

\* Finals of two sets that share none.
LEMMA TextBytesJoin ==
    ASSUME NEW S \in SUBSET Finals, IsFiniteSet(S), NEW R \in SUBSET Finals, IsFiniteSet(R),
           S \cap R = {}
    PROVE  /\ TextBytes(S) \in Nat /\ TextBytes(R) \in Nat
           /\ TextBytes(S \cup R) = TextBytes(S) + TextBytes(R)
<1>1. S \cup R \in SUBSET Finals /\ IsFiniteSet(S \cup R) /\ S \in SUBSET (S \cup R)
  BY FS_Union
<1>2. (S \cup R) \ S = R
  OBVIOUS
<1> QED
  BY <1>1, <1>2, TextBytesSplit

\* One partial replaced by another.
LEMMA PartialReplaced ==
    ASSUME NEW V, NEW p \in [Ids -> V], IsFiniteSet(Ids), \A id \in Ids : Len(p[id].text) \in Nat,
           NEW id \in Ids, NEW r, Len(r.text) \in Nat,
           NEW q, q = [p EXCEPT ![id] = r]
    PROVE  /\ Total(LengthsIn(p), Ids) \in Nat /\ Total(LengthsIn(q), Ids) \in Nat
           /\ Total(LengthsIn(p), Ids) >= Len(p[id].text)
           /\ Total(LengthsIn(q), Ids) = Total(LengthsIn(p), Ids) - Len(p[id].text) + Len(r.text)
<1> DEFINE rest == Ids \ {id}
<1>1. /\ \A j \in Ids : LengthsIn(p)[j] \in Nat /\ LengthsIn(q)[j] \in Nat
      /\ LengthsIn(p)[id] = Len(p[id].text) /\ LengthsIn(q)[id] = Len(r.text)
      /\ \A j \in rest : LengthsIn(p)[j] = LengthsIn(q)[j]
  BY DEF LengthsIn
<1>2. IsFiniteSet(rest) /\ \A j \in rest : LengthsIn(p)[j] \in Nat
  BY <1>1, FS_Subset
<1>3. /\ Total(LengthsIn(p), Ids) \in Nat
      /\ Total(LengthsIn(p), Ids) = Len(p[id].text) + Total(LengthsIn(p), rest)
  <2>1. \A j \in Ids : LengthsIn(p)[j] \in Nat
    BY <1>1
  <2>2. /\ Total(LengthsIn(p), Ids) \in Nat
        /\ \A j \in Ids :
             Total(LengthsIn(p), Ids) = LengthsIn(p)[j] + Total(LengthsIn(p), Ids \ {j})
    BY <2>1, TotalTakes
  <2> QED
    BY <1>1, <2>2
<1>4. /\ Total(LengthsIn(q), Ids) \in Nat
      /\ Total(LengthsIn(q), Ids) = Len(r.text) + Total(LengthsIn(q), rest)
  <2>1. \A j \in Ids : LengthsIn(q)[j] \in Nat
    BY <1>1
  <2>2. /\ Total(LengthsIn(q), Ids) \in Nat
        /\ \A j \in Ids :
             Total(LengthsIn(q), Ids) = LengthsIn(q)[j] + Total(LengthsIn(q), Ids \ {j})
    BY <2>1, TotalTakes
  <2> QED
    BY <1>1, <2>2
<1>5. Total(LengthsIn(p), rest) = Total(LengthsIn(q), rest)
  BY <1>1, <1>2, TotalsAgree
<1>6. Total(LengthsIn(p), rest) \in Nat
  BY <1>2, TotalTakes
<1> DEFINE a == Total(LengthsIn(p), Ids)
           b == Total(LengthsIn(q), Ids)
           c == Total(LengthsIn(p), rest)
<1>7. a \in Nat /\ b \in Nat /\ c \in Nat /\ a = Len(p[id].text) + c /\ b = Len(r.text) + c
  BY <1>3, <1>4, <1>5, <1>6
<1> HIDE DEF a, b, c, rest
<1>8. a >= Len(p[id].text) /\ b = a - Len(p[id].text) + Len(r.text)
  BY <1>7
<1> QED
  BY <1>7, <1>8 DEF a, b

\* Empty partials weigh nothing.
LEMMA NoPartialsWeighNothing ==
    ASSUME NEW p, IsFiniteSet(Ids), \A id \in Ids : p[id].text = <<>>
    PROVE  Total(LengthsIn(p), Ids) = 0
<1> DEFINE Bad == {n \in Nat : \E T \in SUBSET Ids : Cardinality(T) = n /\ Total(LengthsIn(p), T) # 0}
<1>0. \A T \in SUBSET Ids : IsFiniteSet(T) /\ Cardinality(T) \in Nat
  BY FS_Subset, FS_CardinalityType
<1>1. SUFFICES ASSUME Bad # {} PROVE FALSE
  BY <1>0
<1>2. PICK m \in Bad : \A j \in Bad : m <= j
  BY <1>1, LeastNumber
<1>3. PICK T \in SUBSET Ids : Cardinality(T) = m /\ Total(LengthsIn(p), T) # 0
  BY <1>2
<1>4. T # {}
  BY <1>3, TotalOfNothing
<1>5. OneOf(T) \in T /\ LengthsIn(p)[OneOf(T)] = 0
  BY <1>4, OneOfIsIn DEF LengthsIn
<1>6. Total(LengthsIn(p), T) = 0 + Total(LengthsIn(p), T \ {OneOf(T)})
  BY <1>0, <1>4, <1>5, TotalRecursion
<1>7. Cardinality(T \ {OneOf(T)}) \in Nat /\ Cardinality(T \ {OneOf(T)}) = m - 1 /\ m \in Nat
  BY <1>0, <1>3, <1>5, SmallerSet
<1>8. m - 1 \notin Bad /\ m - 1 \in Nat
  BY <1>2, <1>7
<1>9. Total(LengthsIn(p), T \ {OneOf(T)}) = 0
  BY <1>7, <1>8
<1> QED
  BY <1>3, <1>6, <1>9

-----------------------------------------------------------------------------
\* One more id.
LEMMA IdBytesAdd ==
    ASSUME NEW S \in SUBSET Ids, NEW id \in Ids
    PROVE  /\ Total(IdLen, S) \in Nat
           /\ id \notin S => Total(IdLen, S \cup {id}) = Total(IdLen, S) + IdLen[id]
<1>1. IdLen \in [Ids -> Nat] /\ IsFiniteSet(Ids)
  BY LimitsAssumption, InputsAssumption
<1>2. \A T \in SUBSET Ids : /\ IsFiniteSet(T) /\ \A x \in T : IdLen[x] \in Nat
  BY <1>1, FS_Subset
<1>3. \A T \in SUBSET Ids : /\ Total(IdLen, T) \in Nat
                            /\ \A x \in T : Total(IdLen, T) = IdLen[x] + Total(IdLen, T \ {x})
  BY <1>2, TotalTakes
<1>4. ASSUME id \notin S PROVE Total(IdLen, S \cup {id}) = Total(IdLen, S) + IdLen[id]
  <2> DEFINE T == S \cup {id}
  <2>1. T \in SUBSET Ids /\ id \in T /\ T \ {id} = S
    BY <1>4
  <2> HIDE DEF T
  <2>2. Total(IdLen, T) = IdLen[id] + Total(IdLen, S)
    BY <1>3, <2>1
  <2>3. IdLen[id] \in Nat /\ Total(IdLen, S) \in Nat
    BY <1>1, <1>3
  <2> QED
    BY <2>2, <2>3 DEF T
<1> QED
  BY <1>3, <1>4

Partial == [revision : 0..MaxRevision, text : Seq(Chars)]

\* The rest of what the store keeps.
BudgetTypes ==
    /\ partials \in [Ids -> Partial]
    /\ registered \in SUBSET Ids /\ outstanding \in SUBSET Ids
    /\ retained \in Nat /\ idBytes \in Nat
    /\ outcome \in {"none", "ok", "error"}
    /\ reply \in Reply
    /\ IsFiniteSet(unindexed)

TextBudget ==
    /\ retained = TextBytes(TranscriptSet) + TextBytes(pending)
                    + TextBytes(unindexed) + PartialBytes
    /\ retained <= MaxTextBytes

IdBudget == idBytes = Total(IdLen, registered) /\ idBytes <= MaxTotalIdBytes

\* A partial that is absent hides no text.
NoHiddenText == \A id \in Ids : ~HasPartial(id) => partials[id].text = <<>>

BudgetInv == BudgetTypes /\ TextBudget /\ IdBudget /\ IdsAccounted /\ NoHiddenText

\* The finals the store holds, and what they weigh.
LEMMA HeldFinals ==
    ASSUME StoreInv, IsFiniteSet(unindexed)
    PROVE  /\ TranscriptSet \in SUBSET Finals /\ IsFiniteSet(TranscriptSet)
           /\ pending \in SUBSET Finals /\ IsFiniteSet(pending)
           /\ unindexed \in SUBSET Finals
           /\ TextBytes(TranscriptSet) \in Nat /\ TextBytes(pending) \in Nat
           /\ TextBytes(unindexed) \in Nat
<1>1. TranscriptSet \in SUBSET Finals /\ pending \in SUBSET Finals /\ unindexed \in SUBSET Finals
  BY DEF StoreInv, StoreTypes, TranscriptSet, Finals, Floating
<1>2. IsFiniteSet(TranscriptSet)
  <2>1. transcript \in Seq(Segment)
    BY DEF StoreInv, StoreTypes
  <2>2. Len(transcript) \in Nat /\ DOMAIN transcript = 1..Len(transcript)
    BY <2>1, LenProperties
  <2>3. IsFiniteSet(DOMAIN transcript)
    BY <2>2, FS_Interval
  <2>4. transcript \in Surjection(DOMAIN transcript, TranscriptSet)
    BY <2>1 DEF Surjection, TranscriptSet
  <2> QED
    BY <2>3, <2>4, FS_Surjection
<1>3. IsFiniteSet(pending) /\ IsFiniteSet(unindexed)
  BY DEF StoreInv, StoreTypes
<1>4. \A S \in SUBSET Finals : IsFiniteSet(S) => TextBytes(S) \in Nat
  <2> TAKE S \in SUBSET Finals
  <2> HAVE IsFiniteSet(S)
  <2>1. S \in SUBSET S
    OBVIOUS
  <2> QED
    BY <2>1, TextBytesSplit
<1> QED
  BY <1>1, <1>2, <1>3, <1>4

\* The bytes of the partials, before a step and after it.
LEMMA PartialBytesAre ==
    /\ PartialBytes = Total(LengthsIn(partials), Ids)
    /\ PartialBytes' = Total(LengthsIn(partials'), Ids)
<1>1. IsFiniteSet(Ids)
  BY InputsAssumption
<1>2. PartialBytes = Total(LengthsIn(partials), Ids)
  BY <1>1, PartialTotal DEF PartialBytes
<1>3. PartialBytes' = Total(LengthsIn(partials'), Ids)
  <2>1. PartialBytes' = MapThenSumSet(LAMBDA id : Len(partials'[id].text), Ids)
    BY DEF PartialBytes, MapThenSumSet, MapThenFoldSet
  <2> QED
    BY <1>1, <2>1, PartialTotal
<1> QED
  BY <1>2, <1>3

\* They are a number, and so is the length of each.
LEMMA PartialsWeigh ==
    ASSUME BudgetTypes
    PROVE  /\ PartialBytes = Total(LengthsIn(partials), Ids) /\ PartialBytes \in Nat
           /\ \A id \in Ids : Len(partials[id].text) \in Nat
<1>1. IsFiniteSet(Ids)
  BY InputsAssumption
<1>2. \A id \in Ids : Len(partials[id].text) \in Nat
  <2> TAKE id \in Ids
  <2>1. partials[id].text \in Seq(Chars)
    BY DEF BudgetTypes, Partial
  <2> QED
    BY <2>1, LenProperties
<1>3. PartialBytes = Total(LengthsIn(partials), Ids)
  BY PartialBytesAre
<1>4. \A id \in Ids : LengthsIn(partials)[id] \in Nat
  BY <1>2 DEF LengthsIn
<1>5. Total(LengthsIn(partials), Ids) \in Nat
  BY <1>1, <1>4, TotalTakes
<1> QED
  BY <1>2, <1>3, <1>5

\* What the finals weigh after one more has come and some have been let through.
LEMMA DrainWeighs ==
    ASSUME StoreInv, IsFiniteSet(unindexed), outcome = "none",
           NEW s \in Segment, ~IndexReused(s.index),
           NEW bytes \in Nat, NEW removed \in BOOLEAN, Drain(Put(pending, s), bytes, removed),
           NEW others \in Nat,
           bytes = TextBytes(TranscriptSet) + TextBytes(pending) + Len(s.text) + others
    PROVE  /\ retained' = TextBytes(TranscriptSet') + TextBytes(pending') + others
           /\ retained' \in Nat /\ retained' <= bytes
           /\ TextBytes(TranscriptSet') \in Nat /\ TextBytes(pending') \in Nat
           /\ reply' \in Reply
<1> DEFINE segs == Put(pending, s)
           gap == FirstGap(segs, nextSegment)
           drained == Below(segs, gap)
           w == WithText(drained)
<1>1. /\ pending \subseteq Segment /\ IsFiniteSet(pending) /\ nextSegment \in Nat
      /\ \A r \in Segment : r.index \in Nat
  BY DEF StoreInv, StoreTypes, Segment
<1>2. segs = pending \cup {s} /\ segs \subseteq Segment /\ IsFiniteSet(segs) /\ s \notin pending
  <2>1. segs = pending \cup {s} /\ s \notin pending
    BY DEF Put, IndexReused
  <2> QED
    BY <1>1, <2>1, FS_AddElement
<1>3. /\ pending' = segs \ drained /\ transcript' = transcript \o InOrder(w)
      /\ retained' = bytes - TextBytes(drained \ w)
      /\ Return("none", InOrder(w), removed, TRUE)
  BY DEF Drain
<1>4. drained \in SUBSET segs /\ w \in SUBSET drained /\ \A r \in w : ~Blank(r.text)
  BY DEF Below, WithText
<1> HIDE DEF segs, gap, drained, w
<1>5. IsFiniteSet(drained) /\ IsFiniteSet(w)
  BY <1>2, <1>4, FS_Subset
<1>6. \A r \in w : r \in Segment /\ r.index \in Nat /\ r.index >= nextSegment
  BY <1>1, <1>2, <1>4 DEF StoreInv, FinalsInPlace, FinalsHome, IndexReused
<1>7. \A r, t \in w : r.index = t.index => r = t
  BY <1>1, <1>2, <1>4 DEF StoreInv, FinalsInPlace, FinalsHome, IndexReused
<1>8. TranscriptSet' = TranscriptSet \cup w
  BY <1>3, <1>4, <1>5, <1>6, <1>7, TranscriptExtended
<1>9. TranscriptSet \cap w = {}
  BY <1>1, <1>6 DEF StoreInv, FinalsInPlace, FinalsHome
<1>10. /\ TranscriptSet \in SUBSET Finals /\ IsFiniteSet(TranscriptSet)
       /\ pending \in SUBSET Finals /\ TextBytes(pending) \in Nat /\ TextBytes(TranscriptSet) \in Nat
  BY HeldFinals
<1>11. s \in Finals /\ w \in SUBSET Finals /\ drained \in SUBSET Finals /\ segs \in SUBSET Finals
  BY <1>2, <1>4 DEF Finals
<1>12. TextBytes(TranscriptSet') = TextBytes(TranscriptSet) + TextBytes(w) /\ TextBytes(w) \in Nat
  BY <1>5, <1>8, <1>9, <1>10, <1>11, TextBytesJoin
<1>13. TextBytes(segs) = TextBytes(pending) + Len(s.text) /\ Len(s.text) \in Nat
  <2>1. {s} \in SUBSET Finals /\ IsFiniteSet({s}) /\ pending \cap {s} = {}
    BY <1>2, <1>11, FS_Singleton
  <2>2. TextBytes(pending \cup {s}) = TextBytes(pending) + TextBytes({s})
    BY <1>1, <1>10, <2>1, TextBytesJoin
  <2> QED
    BY <1>2, <1>11, <2>2, TextBytesOne
<1>14. /\ TextBytes(segs) = TextBytes(drained) + TextBytes(segs \ drained)
       /\ TextBytes(segs \ drained) \in Nat
  BY <1>2, <1>4, <1>11, TextBytesSplit
<1>15. /\ TextBytes(drained) = TextBytes(w) + TextBytes(drained \ w)
       /\ TextBytes(drained \ w) \in Nat
  BY <1>4, <1>5, <1>11, TextBytesSplit
<1> DEFINE a == TextBytes(TranscriptSet)
           b == TextBytes(pending)
           l == Len(s.text)
           c == TextBytes(w)
           d == TextBytes(drained \ w)
           e == TextBytes(segs \ drained)
<1>16. /\ a \in Nat /\ b \in Nat /\ l \in Nat /\ c \in Nat /\ d \in Nat /\ e \in Nat
       /\ b + l = (c + d) + e /\ bytes = a + b + l + others /\ retained' = bytes - d
       /\ TextBytes(TranscriptSet') = a + c /\ TextBytes(pending') = e
  BY <1>3, <1>10, <1>12, <1>13, <1>14, <1>15
<1> HIDE DEF a, b, l, c, d, e
<1>17. /\ retained' = (a + c) + e + others /\ retained' \in Nat /\ retained' <= bytes
       /\ a + c \in Nat
  BY ONLY <1>16, bytes \in Nat, others \in Nat
<1>18. reply' \in Reply
  <2>1. InOrder(w) \in [1..Cardinality(w) -> w] /\ Cardinality(w) \in Nat
    BY <1>5, <1>6, <1>7, OrderFound
  <2>2. InOrder(w) \in Seq(Segment)
    BY <1>6, <2>1
  <2> QED
    BY <1>3, <2>2 DEF Return, Reply
<1> QED
  BY <1>16, <1>17, <1>18

-----------------------------------------------------------------------------
\* A call that changes none of it.
LEMMA BudgetUntouched ==
    ASSUME BudgetInv, reply' \in Reply, UNCHANGED <<texts, ids, outcome>> PROVE BudgetInv'
<1>1. /\ UNCHANGED <<transcript, pending, completed, partials, unindexed, nextSegment, retained>>
      /\ UNCHANGED <<registered, outstanding, idBytes, outcome>>
  BY DEF texts, ids
<1>2. BudgetTypes'
  BY <1>1 DEF BudgetInv, BudgetTypes
<1>3. TranscriptSet' = TranscriptSet /\ PartialBytes' = PartialBytes
  BY <1>1, PartialBytesAre DEF TranscriptSet
<1>4. TextBudget' /\ IdBudget'
  BY <1>1, <1>3 DEF BudgetInv, TextBudget, IdBudget
<1>5. IdsAccounted' /\ NoHiddenText'
  BY <1>1 DEF BudgetInv, IdsAccounted, HasPartial, NoHiddenText
<1> QED
  BY <1>2, <1>4, <1>5 DEF BudgetInv

\* A refused call, and one that has nothing to do.
LEMMA RefusedCalls ==
    ASSUME BudgetInv, NoOp \/ Fail("protocol") \/ Fail("resource") PROVE BudgetInv'
<1>1. <<>> \in Seq(Segment)
  BY EmptySeq
<1>2. UNCHANGED <<texts, ids, outcome>>
  BY DEF NoOp, Fail
<1>3. reply' \in Reply
  <2>1. CASE NoOp
    BY <1>1, <2>1 DEF NoOp, Return, Reply
  <2>2. CASE Fail("protocol")
    BY <1>1, <2>2 DEF Fail, Return, Reply
  <2>3. CASE Fail("resource")
    BY <1>1, <2>3 DEF Fail, Return, Reply
  <2> QED
    BY <2>1, <2>2, <2>3
<1> QED
  BY <1>2, <1>3, BudgetUntouched

\* An id that fits is registered.
LEMMA IdRegistered ==
    ASSUME BudgetInv, NEW id \in Ids, NEW out \in BOOLEAN, IdFits(id, out),
           registered' = registered \cup {id},
           idBytes' = idBytes + (IF id \in registered THEN 0 ELSE IdLen[id])
    PROVE  IdBudget' /\ idBytes' \in Nat /\ registered' \in SUBSET Ids
<1>1. /\ registered \in SUBSET Ids /\ idBytes \in Nat /\ idBytes = Total(IdLen, registered)
      /\ idBytes <= MaxTotalIdBytes /\ IdLen[id] \in Nat
  BY LimitsAssumption DEF BudgetInv, BudgetTypes, IdBudget
<1>2. CASE id \in registered
  <2>1. registered' = registered /\ idBytes' = idBytes
    BY <1>1, <1>2
  <2> QED
    BY <1>1, <2>1 DEF IdBudget
<1>3. CASE id \notin registered
  <2>1. idBytes' = idBytes + IdLen[id] /\ idBytes + IdLen[id] <= MaxTotalIdBytes
    BY <1>3 DEF IdFits
  <2>2. Total(IdLen, registered \cup {id}) = Total(IdLen, registered) + IdLen[id]
    BY <1>1, <1>3, IdBytesAdd
  <2> QED
    BY <1>1, <2>1, <2>2 DEF IdBudget
<1> QED
  BY <1>2, <1>3

\* An open id is registered and has a place among those outstanding.
LEMMA IdOutstanding ==
    ASSUME BudgetInv, outcome = "none", NEW id \in Ids, completed[id] = Open, IdFits(id, TRUE),
           RegisterNewId(id, TRUE), UNCHANGED <<completed, outcome>>,
           \A j \in Ids : j # id => partials'[j] = partials[j]
    PROVE  /\ IdsAccounted' /\ outstanding' \in SUBSET Ids /\ IdBudget'
           /\ idBytes' \in Nat /\ registered' \in SUBSET Ids
<1>1. /\ registered \in SUBSET Ids /\ outstanding \in SUBSET Ids /\ IsFiniteSet(outstanding)
      /\ MaxOutstanding \in Nat /\ Cardinality(outstanding) \in Nat
      /\ Cardinality(outstanding) <= MaxOutstanding
  <2>1. outstanding \in SUBSET Ids /\ IsFiniteSet(Ids)
    BY InputsAssumption DEF BudgetInv, BudgetTypes
  <2>2. IsFiniteSet(outstanding)
    BY <2>1, FS_Subset
  <2> QED
    BY <2>1, <2>2, FS_CardinalityType, LimitsAssumption DEF BudgetInv, BudgetTypes, IdsAccounted
<1>2. /\ registered = outstanding \cup {j \in Ids : completed[j] # Open}
      /\ \A j \in outstanding : completed[j] = Open
      /\ \A j \in Ids : HasPartial(j) => j \in outstanding
  BY DEF BudgetInv, IdsAccounted
<1>3. id \in outstanding' /\ outstanding' = outstanding \cup {id} /\ registered' = registered \cup {id}
  BY <1>2 DEF RegisterNewId
<1>4. Cardinality(outstanding') <= MaxOutstanding
  <2>1. CASE id \in outstanding
    BY <1>1, <1>3, <2>1
  <2>2. CASE id \notin outstanding
    <3>1. Cardinality(outstanding) < MaxOutstanding
      BY <1>2, <2>2 DEF IdFits
    <3>2. Cardinality(outstanding \cup {id}) = Cardinality(outstanding) + 1
      BY <1>1, <2>2, FS_AddElement
    <3> QED
      BY <1>1, <1>3, <3>1, <3>2
  <2> QED
    BY <2>1, <2>2
<1>5. registered' = outstanding' \cup {j \in Ids : completed'[j] # Open}
  BY <1>2, <1>3
<1>6. /\ \A j \in outstanding' : completed'[j] = Open
      /\ \A j \in Ids : HasPartial(j)' => j \in outstanding'
  BY <1>2, <1>3 DEF HasPartial
<1>7. IdsAccounted'
  BY <1>4, <1>5, <1>6 DEF IdsAccounted
<1>8. IdBudget' /\ idBytes' \in Nat /\ registered' \in SUBSET Ids
  BY IdRegistered DEF RegisterNewId
<1> QED
  BY <1>1, <1>3, <1>7, <1>8

\* An open id completes and gives its place back.
LEMMA IdCompleted ==
    ASSUME BudgetInv, outcome = "none", NEW id \in Ids, completed[id] = Open, IdFits(id, FALSE),
           RegisterCompleted(id), outcome' = outcome,
           NEW mark \in Nat \cup {Unindexed}, completed \in [Ids -> Nat \cup {Open, Unindexed}],
           completed' = [completed EXCEPT ![id] = mark],
           partials' = [partials EXCEPT ![id] = NoPartial]
    PROVE  /\ IdsAccounted' /\ outstanding' \in SUBSET Ids /\ IdBudget'
           /\ idBytes' \in Nat /\ registered' \in SUBSET Ids
<1>1. /\ registered \in SUBSET Ids /\ outstanding \in SUBSET Ids /\ IsFiniteSet(outstanding)
      /\ MaxOutstanding \in Nat /\ Cardinality(outstanding) \in Nat
      /\ Cardinality(outstanding) <= MaxOutstanding
  <2>1. outstanding \in SUBSET Ids /\ IsFiniteSet(Ids)
    BY InputsAssumption DEF BudgetInv, BudgetTypes
  <2>2. IsFiniteSet(outstanding)
    BY <2>1, FS_Subset
  <2> QED
    BY <2>1, <2>2, FS_CardinalityType, LimitsAssumption DEF BudgetInv, BudgetTypes, IdsAccounted
<1>2. /\ registered = outstanding \cup {j \in Ids : completed[j] # Open}
      /\ \A j \in outstanding : completed[j] = Open
      /\ \A j \in Ids : HasPartial(j) => j \in outstanding
  BY DEF BudgetInv, IdsAccounted
<1>3. outstanding' = outstanding \ {id} /\ registered' = registered \cup {id}
  BY DEF RegisterCompleted
<1>4. Cardinality(outstanding') <= MaxOutstanding
  <2>1. outstanding' \in SUBSET outstanding
    BY <1>3
  <2>2. IsFiniteSet(outstanding') /\ Cardinality(outstanding') <= Cardinality(outstanding)
    BY <1>1, <2>1, FS_Subset
  <2>3. Cardinality(outstanding') \in Nat
    BY <2>2, FS_CardinalityType
  <2> QED
    BY <1>1, <2>2, <2>3
<1>5. completed'[id] # Open /\ \A j \in Ids : j # id => completed'[j] = completed[j]
  BY MarksAssumption
<1>6. partials'[id].revision = 0 /\ \A j \in Ids : j # id => partials'[j] = partials[j]
  BY DEF BudgetInv, BudgetTypes, NoPartial
<1>7. registered' = outstanding' \cup {j \in Ids : completed'[j] # Open}
  BY <1>1, <1>2, <1>3, <1>5
<1>8. /\ \A j \in outstanding' : completed'[j] = Open
      /\ \A j \in Ids : HasPartial(j)' => j \in outstanding'
  BY <1>1, <1>2, <1>3, <1>5, <1>6 DEF HasPartial
<1>9. IdsAccounted'
  BY <1>4, <1>7, <1>8 DEF IdsAccounted
<1>10. IdBudget' /\ idBytes' \in Nat /\ registered' \in SUBSET Ids
  BY IdRegistered DEF RegisterCompleted
<1> QED
  BY <1>1, <1>3, <1>9, <1>10

-----------------------------------------------------------------------------
\* An id is registered ahead of its texts.
LEMMA RegisterIdBudget ==
    ASSUME BudgetInv, NEW id \in Ids, RegisterId(id), completed \in [Ids -> Nat \cup {Open, Unindexed}]
    PROVE  BudgetInv'
<1>1. CASE Fail("resource")
  BY <1>1, RefusedCalls
<1>2. ASSUME outcome = "none", IdFits(id, TRUE), RegisterNewId(id, TRUE),
             Return("none", <<>>, FALSE, FALSE), UNCHANGED <<texts, outcome>>
      PROVE  BudgetInv'
  <2>1. /\ UNCHANGED <<transcript, pending, completed, partials, unindexed, nextSegment, retained>>
        /\ outcome' = outcome
    BY <1>2 DEF texts
  <2>2. reply' \in Reply
    BY <1>2, EmptySeq DEF Return, Reply
  <2>3. TranscriptSet' = TranscriptSet /\ PartialBytes' = PartialBytes
    BY <2>1, PartialBytesAre DEF TranscriptSet
  <2>4. TextBudget'
    BY <2>1, <2>3 DEF BudgetInv, TextBudget
  <2>5. IdsAccounted' /\ outstanding' \in SUBSET Ids /\ IdBudget' /\ idBytes' \in Nat /\ registered' \in SUBSET Ids
    <3>1. CASE completed[id] = Open
      BY <1>2, <2>1, <3>1, IdOutstanding
    <3>2. CASE completed[id] # Open
      <4>1. id \in registered
        BY <1>2, <3>2 DEF BudgetInv, IdsAccounted
      <4>2. registered \in SUBSET Ids /\ outstanding \in SUBSET Ids /\ idBytes \in Nat
        BY DEF BudgetInv, BudgetTypes
      <4>3. registered' = registered /\ outstanding' = outstanding /\ idBytes' = idBytes
        BY <1>2, <4>1, <4>2 DEF RegisterNewId
      <4>4. IdsAccounted'
        BY <2>1, <4>3 DEF BudgetInv, IdsAccounted, HasPartial
      <4> QED
        BY <4>2, <4>3, <4>4 DEF BudgetInv, IdBudget
    <3> QED
      BY <3>1, <3>2
  <2> QED
    BY <2>1, <2>2, <2>4, <2>5 DEF BudgetInv, BudgetTypes, NoHiddenText, HasPartial
<1> QED
  BY <1>1, <1>2 DEF RegisterId

\* A partial takes the place of the one before it.
LEMMA ReplacePartialBudget ==
    ASSUME StoreInv, BudgetInv, NEW id \in Ids, outcome = "none", completed[id] = Open,
           NEW text \in Seq(Chars), ReplacePartial(id, text)
    PROVE  BudgetInv'
<1>1. CASE Fail("resource")
  BY <1>1, RefusedCalls
<1>2. ASSUME TextFits(id, Len(text)), IdFits(id, TRUE), NextRevision(id) <= MaxRevision,
             RegisterNewId(id, TRUE), retained' = RetainedWith(id, Len(text)),
             partials' = [partials EXCEPT ![id] = [revision |-> NextRevision(id), text |-> text]],
             Return("none", <<>>, FALSE, TRUE),
             UNCHANGED <<transcript, pending, completed, unindexed, nextSegment, outcome>>
      PROVE  BudgetInv'
  <2> DEFINE new == [revision |-> NextRevision(id), text |-> text]
  <2>1. /\ partials \in [Ids -> Partial] /\ retained \in Nat /\ IsFiniteSet(unindexed)
        /\ IsFiniteSet(Ids) /\ MaxRevision \in Nat /\ MaxTextBytes \in Nat
    BY LimitsAssumption, InputsAssumption DEF BudgetInv, BudgetTypes
  <2>2. new \in Partial /\ new.text = text /\ Len(text) \in Nat
    <3>1. partials[id].revision \in 0..MaxRevision
      BY <2>1 DEF Partial
    <3>2. NextRevision(id) \in 0..MaxRevision
      BY <1>2, <2>1, <3>1 DEF NextRevision
    <3> QED
      BY <3>2, LenProperties DEF Partial
  <2>3. partials' = [partials EXCEPT ![id] = new]
    BY <1>2
  <2> HIDE DEF new
  <2>4. reply' \in Reply
    BY <1>2, EmptySeq DEF Return, Reply
  <2>5. \A j \in Ids : Len(partials[j].text) \in Nat
    BY PartialsWeigh DEF BudgetInv
  <2>6. /\ PartialBytes \in Nat /\ PartialBytes' \in Nat
        /\ PartialBytes >= Len(partials[id].text)
        /\ PartialBytes' = PartialBytes - Len(partials[id].text) + Len(text)
    <3> DEFINE q == partials'
    <3>1. q = [partials EXCEPT ![id] = new] /\ Len(new.text) \in Nat
      BY <2>2, <2>3
    <3>2. /\ PartialBytes = Total(LengthsIn(partials), Ids)
          /\ PartialBytes' = Total(LengthsIn(q), Ids)
      BY PartialBytesAre
    <3> HIDE DEF q
    <3>3. /\ Total(LengthsIn(partials), Ids) \in Nat /\ Total(LengthsIn(q), Ids) \in Nat
          /\ Total(LengthsIn(partials), Ids) >= Len(partials[id].text)
          /\ Total(LengthsIn(q), Ids)
               = Total(LengthsIn(partials), Ids) - Len(partials[id].text) + Len(new.text)
      BY <2>1, <2>5, <3>1, PartialReplaced
    <3> QED
      BY <2>2, <3>2, <3>3
  <2>7. TranscriptSet' = TranscriptSet
    BY <1>2 DEF TranscriptSet
  <2>8. TextBytes(TranscriptSet) \in Nat /\ TextBytes(pending) \in Nat /\ TextBytes(unindexed) \in Nat
    BY <2>1, HeldFinals
  <2>9. /\ retained = TextBytes(TranscriptSet) + TextBytes(pending) + TextBytes(unindexed) + PartialBytes
        /\ retained' = retained - Len(partials[id].text) + Len(text) /\ retained' <= MaxTextBytes
    BY <1>2 DEF BudgetInv, TextBudget, RetainedWith, TextFits
  <2> DEFINE a == TextBytes(TranscriptSet)
             b == TextBytes(pending)
             c == TextBytes(unindexed)
             l == Len(partials[id].text)
             m == Len(text)
             p == PartialBytes
  <2>10. /\ a \in Nat /\ b \in Nat /\ c \in Nat /\ l \in Nat /\ m \in Nat /\ p \in Nat
         /\ p >= l /\ retained = a + b + c + p /\ retained' = retained - l + m
         /\ PartialBytes' = p - l + m
    BY <2>2, <2>5, <2>6, <2>8, <2>9
  <2> HIDE DEF a, b, c, l, m, p
  <2>11. retained' = a + b + c + (p - l + m) /\ retained' \in Nat
    BY ONLY <2>10
  <2>12. retained' = a + b + c + PartialBytes' /\ retained' \in Nat
    BY <2>10, <2>11
  <2>13. TextBudget'
    BY <1>2, <2>7, <2>9, <2>12 DEF TextBudget, a, b, c
  <2>14. /\ IdsAccounted' /\ outstanding' \in SUBSET Ids /\ IdBudget'
         /\ idBytes' \in Nat /\ registered' \in SUBSET Ids
    <3>1. \A j \in Ids : j # id => partials'[j] = partials[j]
      BY <2>1, <2>3
    <3> QED
      BY <1>2, <3>1, IdOutstanding
  <2>15. partials' \in [Ids -> Partial]
    BY <2>1, <2>2, <2>3
  <2>16. NoHiddenText'
    <3>1. NextRevision(id) > 0
      BY <2>1 DEF Partial, NextRevision
    <3>2. partials'[id].revision = NextRevision(id) /\ \A j \in Ids : j # id => partials'[j] = partials[j]
      BY <2>1, <2>3 DEF new
    <3> QED
      BY <3>1, <3>2 DEF BudgetInv, NoHiddenText, HasPartial
  <2>17. BudgetTypes'
    BY <1>2, <2>1, <2>4, <2>12, <2>14, <2>15 DEF BudgetInv, BudgetTypes
  <2> QED
    BY <2>13, <2>14, <2>16, <2>17 DEF BudgetInv
<1> QED
  BY <1>1, <1>2 DEF ReplacePartial

\* What is left of the partials when an id completes.
LEMMA PartialDropped ==
    ASSUME BudgetInv, NEW id \in Ids, partials' = [partials EXCEPT ![id] = NoPartial]
    PROVE  /\ PartialBytes \in Nat /\ PartialBytes' \in Nat /\ Len(partials[id].text) \in Nat
           /\ PartialBytes' = PartialBytes - Len(partials[id].text)
           /\ PartialBytes >= Len(partials[id].text)
           /\ partials' \in [Ids -> Partial] /\ NoHiddenText'
           /\ ~HasPartial(id) => Len(partials[id].text) = 0
<1>1. /\ partials \in [Ids -> Partial] /\ IsFiniteSet(Ids) /\ MaxRevision \in Nat
  BY LimitsAssumption, InputsAssumption DEF BudgetInv, BudgetTypes
<1>2. NoPartial \in Partial /\ Len(NoPartial.text) = 0
  BY <1>1, EmptySeq DEF NoPartial, Partial
<1>3. \A j \in Ids : Len(partials[j].text) \in Nat
  BY PartialsWeigh DEF BudgetInv
<1> DEFINE q == partials'
<1>4. q = [partials EXCEPT ![id] = NoPartial]
  OBVIOUS
<1>5. PartialBytes = Total(LengthsIn(partials), Ids) /\ PartialBytes' = Total(LengthsIn(q), Ids)
  BY PartialBytesAre
<1> HIDE DEF q
<1>6. Len(NoPartial.text) \in Nat
  BY <1>2
<1>7. /\ Total(LengthsIn(partials), Ids) \in Nat /\ Total(LengthsIn(q), Ids) \in Nat
      /\ Total(LengthsIn(partials), Ids) >= Len(partials[id].text)
      /\ Total(LengthsIn(q), Ids)
           = Total(LengthsIn(partials), Ids) - Len(partials[id].text) + Len(NoPartial.text)
  BY <1>1, <1>3, <1>4, <1>6, PartialReplaced
<1> DEFINE a == Total(LengthsIn(partials), Ids)
           b == Total(LengthsIn(q), Ids)
           l == Len(partials[id].text)
<1>8. a \in Nat /\ b \in Nat /\ l \in Nat /\ a >= l /\ b = a - l + 0
  BY <1>2, <1>3, <1>7
<1> HIDE DEF a, b, l
<1>9. b = a - l
  BY <1>8
<1>10. q \in [Ids -> Partial]
  BY <1>1, <1>2, <1>4
<1>11. NoHiddenText'
  <2>1. q[id].text = <<>> /\ \A j \in Ids : j # id => q[j] = partials[j]
    BY <1>1, <1>4 DEF NoPartial
  <2> QED
    BY <2>1 DEF BudgetInv, NoHiddenText, HasPartial, q
<1>12. ~HasPartial(id) => Len(partials[id].text) = 0
  BY DEF BudgetInv, NoHiddenText
<1> QED
  BY <1>5, <1>8, <1>9, <1>10, <1>11, <1>12 DEF a, b, l, q

\* A final without an index gets one: its text changes place and no count changes,
\* but for what is blank and leaves.
LEMMA PlaceBudget ==
    ASSUME StoreInv, BudgetInv, outcome = "none", NEW i \in Nat, NEW id \in Ids,
           completed[id] = Unindexed, PlaceUnindexed(i, id)
    PROVE  BudgetInv'
<1>1. CASE Fail("protocol") \/ Fail("resource")
  BY <1>1, RefusedCalls
<1>2. ASSUME ~IndexReused(i), NEW u \in unindexed, u.id = id, TakeUnindexed(u),
             completed' = [completed EXCEPT ![id] = i],
             partials' = [partials EXCEPT ![id] = NoPartial],
             Drain(Put(pending, [id |-> id, index |-> i, text |-> u.text]), retained, HasPartial(id)),
             UNCHANGED <<ids, outcome>>
      PROVE  BudgetInv'
  <2> DEFINE s == [id |-> id, index |-> i, text |-> u.text]
  <2>1. /\ i \in Nat /\ u \in Floating /\ u.text \in Seq(Chars) /\ IsFiniteSet(unindexed)
        /\ completed \in [Ids -> Nat \cup {Open, Unindexed}] /\ retained \in Nat
        /\ u \in Finals
    BY InputsAssumption DEF StoreInv, StoreTypes, BudgetInv, BudgetTypes, Floating, Finals
  <2>2. s \in Segment /\ s.index = i /\ s.text = u.text
    BY <2>1 DEF Segment
  <2>3. Drain(Put(pending, s), retained, HasPartial(id))
    BY <1>2
  <2> HIDE DEF s
  <2>4. UNCHANGED <<registered, outstanding, idBytes, outcome>> /\ unindexed' = unindexed \ {u}
    BY <1>2 DEF ids, TakeUnindexed
  \* An id that is completed has no partial: it is not outstanding.
  <2>5. ~HasPartial(id)
    <3>1. completed[id] # Open
      BY <1>2, MarksAssumption
    <3> QED
      BY <3>1 DEF BudgetInv, IdsAccounted
  <2>6. /\ TextBytes(TranscriptSet) \in Nat /\ TextBytes(pending) \in Nat
        /\ TextBytes(unindexed) \in Nat /\ unindexed \in SUBSET Finals
    BY <2>1, HeldFinals
  <2>7. /\ TextBytes(unindexed) = Len(u.text) + TextBytes(unindexed')
        /\ TextBytes(unindexed') \in Nat /\ Len(u.text) \in Nat
    <3>1. {u} \in SUBSET unindexed
      OBVIOUS
    <3>2. /\ TextBytes(unindexed) = TextBytes({u}) + TextBytes(unindexed \ {u})
          /\ TextBytes(unindexed \ {u}) \in Nat
      BY <2>1, <2>6, <3>1, TextBytesSplit
    <3> QED
      BY <2>1, <2>4, <3>2, TextBytesOne
  <2>8. /\ PartialBytes \in Nat /\ PartialBytes' \in Nat /\ PartialBytes' = PartialBytes
        /\ partials' \in [Ids -> Partial] /\ NoHiddenText'
    <3>1. /\ PartialBytes \in Nat /\ PartialBytes' = PartialBytes - 0
          /\ partials' \in [Ids -> Partial] /\ NoHiddenText'
      BY <1>2, <2>5, PartialDropped
    <3> QED
      BY <3>1
  <2> DEFINE others == TextBytes(unindexed') + PartialBytes'
             bytes == retained
  <2>9. others \in Nat /\ bytes \in Nat /\ HasPartial(id) \in BOOLEAN
    BY <2>1, <2>7, <2>8 DEF HasPartial
  <2>10. bytes = TextBytes(TranscriptSet) + TextBytes(pending) + Len(s.text) + others /\ bytes <= MaxTextBytes
    <3> DEFINE a == TextBytes(TranscriptSet)
               b == TextBytes(pending)
               l == Len(u.text)
               c == TextBytes(unindexed')
    <3>1. retained = a + b + (l + c) + PartialBytes' /\ retained <= MaxTextBytes
      BY <2>7, <2>8 DEF BudgetInv, TextBudget
    <3>2. a \in Nat /\ b \in Nat /\ l \in Nat /\ c \in Nat /\ PartialBytes' \in Nat
      BY <2>6, <2>7, <2>8
    <3> HIDE DEF a, b, l, c
    <3>3. retained = a + b + l + (c + PartialBytes')
      BY ONLY <3>1, <3>2
    <3> QED
      BY <2>2, <3>1, <3>3 DEF a, b, l, c
  <2> HIDE DEF others, bytes
  <2>11. /\ retained' = TextBytes(TranscriptSet') + TextBytes(pending') + others
         /\ retained' \in Nat /\ retained' <= bytes
         /\ TextBytes(TranscriptSet') \in Nat /\ TextBytes(pending') \in Nat
         /\ reply' \in Reply
    <3>1. Drain(Put(pending, s), bytes, HasPartial(id))
      BY <2>3 DEF bytes
    <3> QED
      BY <1>2, <2>1, <2>2, <2>9, <2>10, <3>1, DrainWeighs
  <2>12. TextBudget'
    <3> DEFINE a == TextBytes(TranscriptSet')
               b == TextBytes(pending')
               c == TextBytes(unindexed')
    <3>1. /\ a \in Nat /\ b \in Nat /\ c \in Nat /\ PartialBytes' \in Nat
          /\ retained' = a + b + (c + PartialBytes')
      BY <2>7, <2>8, <2>11 DEF others
    <3>2. retained' <= MaxTextBytes
      BY <2>9, <2>10, <2>11, LimitsAssumption
    <3> HIDE DEF a, b, c
    <3>3. retained' = a + b + c + PartialBytes'
      BY ONLY <3>1
    <3> QED
      BY <3>2, <3>3 DEF TextBudget, a, b, c
  <2>13. IdsAccounted'
    <3>1. completed'[id] # Open /\ \A j \in Ids : j # id => completed'[j] = completed[j]
      BY <1>2, <2>1, MarksAssumption
    <3>2. completed[id] # Open
      BY MarksAssumption
    <3>3. partials'[id].revision = 0 /\ \A j \in Ids : j # id => partials'[j] = partials[j]
      BY <1>2 DEF BudgetInv, BudgetTypes, NoPartial
    <3>4. {j \in Ids : completed'[j] # Open} = {j \in Ids : completed[j] # Open}
      BY <3>1, <3>2
    <3>5. \A j \in outstanding : completed'[j] = Open
      BY <1>2, <2>1, <3>1, <3>2 DEF BudgetInv, BudgetTypes, IdsAccounted
    <3>6. \A j \in Ids : HasPartial(j)' => HasPartial(j)
      BY <3>3 DEF HasPartial
    <3> QED
      BY <2>4, <3>4, <3>5, <3>6 DEF BudgetInv, IdsAccounted
  <2>14. IsFiniteSet(unindexed')
    BY <2>1, <2>4, FS_Subset
  <2>15. BudgetTypes' /\ IdBudget'
    BY <2>4, <2>8, <2>11, <2>14 DEF BudgetInv, BudgetTypes, IdBudget
  <2> QED
    BY <2>8, <2>12, <2>13, <2>15 DEF BudgetInv
<1> QED
  BY <1>1, <1>2 DEF PlaceUnindexed

-----------------------------------------------------------------------------
\* A final comes, and the partial of its id goes.
LEMMA CommitNewBudget ==
    ASSUME StoreInv, BudgetInv, outcome = "none", NEW i \in Nat, NEW id \in Ids,
           NEW text \in Seq(Chars), completed[id] = Open, CommitNew(i, id, text)
    PROVE  BudgetInv'
<1>1. CASE Fail("protocol") \/ Fail("resource")
  BY <1>1, RefusedCalls
<1>2. ASSUME ~IndexReused(i), TextFits(id, Len(text)), IdFits(id, FALSE), RegisterCompleted(id),
             completed' = [completed EXCEPT ![id] = i],
             partials' = [partials EXCEPT ![id] = NoPartial],
             Drain(Put(pending, [id |-> id, index |-> i, text |-> text]),
                   RetainedWith(id, Len(text)), HasPartial(id)),
             UNCHANGED <<unindexed, outcome>>
      PROVE  BudgetInv'
  <2> DEFINE s == [id |-> id, index |-> i, text |-> text]
             bytes == RetainedWith(id, Len(text))
             others == TextBytes(unindexed) + PartialBytes'
  <2>1. /\ i \in Nat /\ text \in Seq(Chars) /\ Len(text) \in Nat /\ IsFiniteSet(unindexed)
        /\ completed \in [Ids -> Nat \cup {Open, Unindexed}] /\ retained \in Nat
    BY InputsAssumption, LenProperties DEF StoreInv, StoreTypes, BudgetInv, BudgetTypes
  <2>2. s \in Segment /\ s.index = i /\ s.text = text
    BY <2>1 DEF Segment
  <2>3. Drain(Put(pending, s), bytes, HasPartial(id)) /\ HasPartial(id) \in BOOLEAN
    BY <1>2 DEF HasPartial
  <2> HIDE DEF s
  <2>4. /\ TextBytes(TranscriptSet) \in Nat /\ TextBytes(pending) \in Nat /\ TextBytes(unindexed) \in Nat
    BY <2>1, HeldFinals
  <2>5. /\ PartialBytes \in Nat /\ PartialBytes' \in Nat /\ Len(partials[id].text) \in Nat
        /\ PartialBytes' = PartialBytes - Len(partials[id].text)
        /\ partials' \in [Ids -> Partial] /\ NoHiddenText'
    BY <1>2, PartialDropped
  <2>6. /\ bytes = TextBytes(TranscriptSet) + TextBytes(pending) + Len(s.text) + others
        /\ bytes \in Nat /\ others \in Nat /\ bytes <= MaxTextBytes
    <3> DEFINE a == TextBytes(TranscriptSet)
               b == TextBytes(pending)
               c == TextBytes(unindexed)
               l == Len(partials[id].text)
               m == Len(text)
               p == PartialBytes
               r == PartialBytes'
    <3>1. /\ retained = a + b + c + p /\ bytes = retained - l + m /\ r = p - l
          /\ others = c + r /\ bytes <= MaxTextBytes /\ Len(s.text) = m
      BY <1>2, <2>2, <2>5 DEF BudgetInv, TextBudget, RetainedWith, TextFits
    <3>2. a \in Nat /\ b \in Nat /\ c \in Nat /\ l \in Nat /\ m \in Nat /\ p \in Nat /\ r \in Nat
      BY <2>1, <2>4, <2>5
    <3> HIDE DEF a, b, c, l, m, p, r
    <3> HIDE DEF bytes, others
    <3>3. bytes = a + b + m + others /\ bytes \in Nat /\ others \in Nat
      BY ONLY <3>1, <3>2
    <3> QED
      BY <3>1, <3>3 DEF a, b, m
  <2> HIDE DEF others, bytes
  <2>7. /\ retained' = TextBytes(TranscriptSet') + TextBytes(pending') + others
        /\ retained' \in Nat /\ retained' <= bytes
        /\ TextBytes(TranscriptSet') \in Nat /\ TextBytes(pending') \in Nat
        /\ reply' \in Reply
    BY <1>2, <2>1, <2>2, <2>3, <2>6, DrainWeighs
  <2>8. TextBudget'
    <3> DEFINE a == TextBytes(TranscriptSet')
               b == TextBytes(pending')
               c == TextBytes(unindexed')
    <3>1. /\ a \in Nat /\ b \in Nat /\ c \in Nat /\ PartialBytes' \in Nat
          /\ retained' = a + b + (c + PartialBytes')
      BY <1>2, <2>4, <2>5, <2>7 DEF others
    <3>2. retained' <= MaxTextBytes
      <4>1. MaxTextBytes \in Nat
        BY ONLY LimitsAssumption
      <4>2. retained' \in Nat /\ bytes \in Nat /\ retained' <= bytes /\ bytes <= MaxTextBytes
        BY ONLY <2>6, <2>7
      <4> QED
        BY ONLY <4>1, <4>2
    <3> HIDE DEF a, b, c
    <3>3. retained' = a + b + c + PartialBytes'
      BY ONLY <3>1
    <3> QED
      BY <3>2, <3>3 DEF TextBudget, a, b, c
  <2>9. /\ IdsAccounted' /\ outstanding' \in SUBSET Ids /\ IdBudget'
        /\ idBytes' \in Nat /\ registered' \in SUBSET Ids
    BY <1>2, <2>1, IdCompleted
  <2>10. BudgetTypes'
    BY <1>2, <2>1, <2>5, <2>7, <2>9 DEF BudgetInv, BudgetTypes
  <2> QED
    BY <2>5, <2>8, <2>9, <2>10 DEF BudgetInv
<1> QED
  BY <1>1, <1>2 DEF CommitNew

\* A final comes without an index, and the partial of its id goes.
LEMMA UnindexedBudget ==
    ASSUME StoreInv, BudgetInv, NEW id \in Ids, NEW text \in Seq(Chars), CompleteUnindexed(id, text)
    PROVE  BudgetInv'
<1>1. CASE NoOp \/ Fail("resource")
  BY <1>1, RefusedCalls
<1>2. ASSUME outcome = "none", completed[id] = Open, TextFits(id, Len(text)), IdFits(id, FALSE),
             RegisterCompleted(id), completed' = [completed EXCEPT ![id] = Unindexed],
             partials' = [partials EXCEPT ![id] = NoPartial],
             unindexed' = unindexed \cup {[id |-> id, text |-> text]},
             retained' = RetainedWith(id, Len(text)),
             Return("none", <<>>, HasPartial(id), TRUE),
             UNCHANGED <<transcript, pending, nextSegment, outcome>>
      PROVE  BudgetInv'
  <2> DEFINE new == [id |-> id, text |-> text]
  <2>1. /\ text \in Seq(Chars) /\ Len(text) \in Nat /\ IsFiniteSet(unindexed)
        /\ completed \in [Ids -> Nat \cup {Open, Unindexed}] /\ retained \in Nat
    BY InputsAssumption, LenProperties DEF StoreInv, StoreTypes, BudgetInv, BudgetTypes
  <2>2. new \in Finals /\ new.text = text /\ new.id = id
    BY <2>1 DEF Finals, Floating
  <2>3. unindexed' = unindexed \cup {new}
    BY <1>2
  <2> HIDE DEF new
  <2>4. new \notin unindexed
    BY <1>2, <2>2, MarksAssumption DEF StoreInv, FinalsInPlace, UnindexedHome
  <2>5. /\ TextBytes(TranscriptSet) \in Nat /\ TextBytes(pending) \in Nat
        /\ TextBytes(unindexed) \in Nat /\ unindexed \in SUBSET Finals
    BY <2>1, HeldFinals
  <2>6. TextBytes(unindexed') = TextBytes(unindexed) + Len(text)
    <3>1. {new} \in SUBSET Finals /\ IsFiniteSet({new}) /\ unindexed \cap {new} = {}
      BY <2>2, <2>4, FS_Singleton
    <3>2. TextBytes(unindexed \cup {new}) = TextBytes(unindexed) + TextBytes({new})
      BY <2>1, <2>5, <3>1, TextBytesJoin
    <3> QED
      BY <2>2, <2>3, <3>2, TextBytesOne
  <2>7. /\ PartialBytes \in Nat /\ PartialBytes' \in Nat /\ Len(partials[id].text) \in Nat
        /\ PartialBytes' = PartialBytes - Len(partials[id].text)
        /\ partials' \in [Ids -> Partial] /\ NoHiddenText'
    BY <1>2, PartialDropped
  <2>8. TranscriptSet' = TranscriptSet
    BY <1>2 DEF TranscriptSet
  <2>9. TextBudget' /\ retained' \in Nat
    <3> DEFINE a == TextBytes(TranscriptSet)
               b == TextBytes(pending)
               c == TextBytes(unindexed)
               l == Len(partials[id].text)
               m == Len(text)
               p == PartialBytes
               r == PartialBytes'
    <3>1. /\ retained = a + b + c + p /\ retained' = retained - l + m /\ r = p - l
          /\ retained' <= MaxTextBytes
      BY <1>2, <2>7 DEF BudgetInv, TextBudget, RetainedWith, TextFits
    <3>2. a \in Nat /\ b \in Nat /\ c \in Nat /\ l \in Nat /\ m \in Nat /\ p \in Nat /\ r \in Nat
      BY <2>1, <2>5, <2>7
    <3> HIDE DEF a, b, c, l, m, p, r
    <3>3. retained' = a + b + (c + m) + r /\ retained' \in Nat
      BY ONLY <3>1, <3>2
    <3>4. TextBytes(unindexed') = c + m /\ TextBytes(TranscriptSet') = a /\ TextBytes(pending') = b
      BY <1>2, <2>6, <2>8 DEF a, b, c, m
    <3> QED
      BY <3>1, <3>3, <3>4 DEF TextBudget, r
  <2>10. /\ IdsAccounted' /\ outstanding' \in SUBSET Ids /\ IdBudget'
         /\ idBytes' \in Nat /\ registered' \in SUBSET Ids
    BY <1>2, <2>1, IdCompleted
  <2>11. reply' \in Reply
    BY <1>2, EmptySeq DEF Return, Reply, HasPartial
  <2>12. IsFiniteSet(unindexed')
    BY <2>1, <2>3, FS_AddElement
  <2>13. BudgetTypes'
    BY <1>2, <2>7, <2>9, <2>10, <2>11, <2>12 DEF BudgetInv, BudgetTypes
  <2> QED
    BY <2>7, <2>9, <2>10, <2>13 DEF BudgetInv
<1> QED
  BY <1>1, <1>2 DEF CompleteUnindexed

\* The end counts off what it drops.
LEMMA SettleBudget ==
    ASSUME StoreInv, BudgetInv, outcome = "none", NEW result \in {"ok", "error"}, Settle(result)
    PROVE  BudgetInv'
<1> DEFINE w == WithText(pending)
<1>1. /\ pending \subseteq Segment /\ IsFiniteSet(pending) /\ nextSegment \in Nat
      /\ IsFiniteSet(unindexed) /\ \A s \in Segment : s.index \in Nat
  BY DEF StoreInv, StoreTypes, BudgetInv, BudgetTypes, Segment
<1>2. w \in SUBSET pending /\ \A s \in w : ~Blank(s.text)
  BY DEF WithText
<1>3. /\ transcript' = transcript \o InOrder(w)
      /\ retained' = retained - TextBytes(pending \ w) - PartialBytes - TextBytes(unindexed)
      /\ pending' = {} /\ unindexed' = {} /\ outstanding' = {}
      /\ partials' = [id \in Ids |-> NoPartial] /\ outcome' = result
      /\ UNCHANGED <<completed, nextSegment, registered, idBytes>>
      /\ Return("none", <<>>, FALSE, FALSE)
  BY DEF Settle
<1> HIDE DEF w
<1>4. IsFiniteSet(w) /\ w \in SUBSET Segment
  BY <1>1, <1>2, FS_Subset
<1>5. \A s \in w : s.index >= nextSegment
  BY <1>1, <1>2 DEF StoreInv, FinalsInPlace, FinalsHome
<1>6. \A r, s \in w : r.index = s.index => r = s
  BY <1>2 DEF StoreInv, FinalsInPlace, FinalsHome
<1>7. TranscriptSet' = TranscriptSet \cup w
  BY <1>2, <1>3, <1>4, <1>5, <1>6, TranscriptExtended
<1>8. TranscriptSet \cap w = {}
  BY <1>1, <1>4, <1>5 DEF StoreInv, FinalsInPlace, FinalsHome, StoreTypes, TranscriptSet
<1>9. /\ TranscriptSet \in SUBSET Finals /\ IsFiniteSet(TranscriptSet)
      /\ pending \in SUBSET Finals /\ TextBytes(TranscriptSet) \in Nat
      /\ TextBytes(unindexed) \in Nat
  BY <1>1, HeldFinals
<1>10. TextBytes(TranscriptSet') = TextBytes(TranscriptSet) + TextBytes(w) /\ TextBytes(w) \in Nat
  <2>1. w \in SUBSET Finals
    BY <1>4 DEF Finals
  <2> QED
    BY <1>4, <1>7, <1>8, <1>9, <2>1, TextBytesJoin
<1>11. TextBytes(pending) = TextBytes(w) + TextBytes(pending \ w) /\ TextBytes(pending \ w) \in Nat
  BY <1>1, <1>2, <1>9, TextBytesSplit
<1>12. PartialBytes \in Nat
  BY PartialsWeigh DEF BudgetInv
<1>13. PartialBytes' = 0
  <2>1. IsFiniteSet(Ids) /\ \A id \in Ids : partials'[id].text = <<>>
    BY <1>3, InputsAssumption DEF NoPartial
  <2>2. Total(LengthsIn(partials'), Ids) = 0
    BY <2>1, NoPartialsWeighNothing
  <2> QED
    BY <2>2, PartialBytesAre
<1>14. TextBudget' /\ retained' \in Nat
  <2> DEFINE a == TextBytes(TranscriptSet)
             b == TextBytes(w)
             c == TextBytes(unindexed)
             d == TextBytes(pending \ w)
             p == PartialBytes
  <2>1. /\ retained = a + (b + d) + c + p /\ retained' = retained - d - p - c
        /\ retained <= MaxTextBytes
    BY <1>3, <1>11 DEF BudgetInv, TextBudget
  <2>2. a \in Nat /\ b \in Nat /\ c \in Nat /\ d \in Nat /\ p \in Nat /\ MaxTextBytes \in Nat
    BY <1>9, <1>10, <1>11, <1>12, LimitsAssumption
  <2> HIDE DEF a, b, c, d, p
  <2>3. retained' = a + b /\ retained' \in Nat /\ retained' <= MaxTextBytes
    BY ONLY <2>1, <2>2
  <2>4. TextBytes(TranscriptSet') = a + b /\ TextBytes(pending') = 0 /\ TextBytes(unindexed') = 0
    BY <1>3, <1>10, TextBytesOfNothing DEF a, b
  <2> QED
    BY <1>13, <2>2, <2>3, <2>4 DEF TextBudget
<1>15. /\ partials' \in [Ids -> Partial] /\ NoHiddenText' /\ \A id \in Ids : ~HasPartial(id)'
  <2>1. NoPartial \in Partial
    BY EmptySeq, LimitsAssumption DEF NoPartial, Partial
  <2> QED
    BY <1>3, <2>1 DEF NoHiddenText, HasPartial, NoPartial
<1>16. IdsAccounted'
  <2>1. Cardinality({}) = 0 /\ MaxOutstanding \in Nat
    BY FS_EmptySet, LimitsAssumption
  <2> QED
    BY <1>3, <1>15, <2>1 DEF IdsAccounted
<1>17. reply' \in Reply
  BY <1>3, EmptySeq DEF Return, Reply
<1>18. BudgetTypes' /\ IdBudget'
  BY <1>3, <1>14, <1>15, <1>17, FS_EmptySet DEF BudgetInv, BudgetTypes, IdBudget
<1> QED
  BY <1>14, <1>15, <1>16, <1>18 DEF BudgetInv

\* A new store holds nothing.
LEMMA InitBudget == Init => BudgetInv
<1> SUFFICES ASSUME Init PROVE BudgetInv
  OBVIOUS
<1>1. NoPartial \in Partial
  BY EmptySeq, LimitsAssumption DEF NoPartial, Partial
<1>2. TranscriptSet = {} /\ TextBytes({}) = 0
  BY TextBytesOfNothing DEF Init, TranscriptSet
<1>3. PartialBytes = 0
  <2>1. IsFiniteSet(Ids) /\ \A id \in Ids : partials[id].text = <<>>
    BY InputsAssumption DEF Init, NoPartial
  <2> QED
    BY <2>1, NoPartialsWeighNothing, PartialBytesAre
<1>4. TextBudget
  BY <1>2, <1>3, LimitsAssumption DEF Init, TextBudget
<1>5. IdBudget
  BY TotalOfNothing, LimitsAssumption DEF Init, IdBudget
<1>6. IdsAccounted /\ NoHiddenText
  <2>1. Cardinality({}) = 0 /\ MaxOutstanding \in Nat
    BY FS_EmptySet, LimitsAssumption
  <2> QED
    BY <2>1 DEF Init, IdsAccounted, NoHiddenText, HasPartial, NoPartial
<1>7. BudgetTypes
  BY <1>1, EmptySeq, FS_EmptySet DEF Init, BudgetTypes, Reply
<1> QED
  BY <1>4, <1>5, <1>6, <1>7 DEF BudgetInv

\* No step leaves anything uncounted.
LEMMA BudgetStep == StoreInv /\ BudgetInv /\ [AnyCall]_storeVars => BudgetInv'
<1> SUFFICES ASSUME StoreInv, BudgetInv, [AnyCall]_storeVars PROVE BudgetInv'
  OBVIOUS
<1>0. completed \in [Ids -> Nat \cup {Open, Unindexed}]
  BY DEF StoreInv, StoreTypes
<1>1. CASE UNCHANGED storeVars
  <2>1. reply' \in Reply /\ UNCHANGED <<texts, ids, outcome>>
    BY <1>1 DEF storeVars, BudgetInv, BudgetTypes
  <2> QED
    BY <2>1, BudgetUntouched
<1>2. ASSUME NEW id \in Ids, RegisterId(id) PROVE BudgetInv'
  BY <1>0, <1>2, RegisterIdBudget
<1>3. ASSUME NEW id \in Ids, NEW t \in Seq(Chars), SetPartial(id, t) PROVE BudgetInv'
  <2>1. t \in Seq(Chars) /\ outcome = "none"
    BY <1>3, InputsAssumption DEF SetPartial
  <2> QED
    BY <1>3, <2>1, RefusedCalls, ReplacePartialBudget DEF SetPartial
<1>4. ASSUME NEW id \in Ids, NEW t \in Seq(Chars), CompleteUnindexed(id, t) PROVE BudgetInv'
  BY <1>4, UnindexedBudget
<1>5. ASSUME NEW id \in Ids, NEW d \in Seq(Chars), AppendDelta(id, d) PROVE BudgetInv'
  <2>1. d \in Seq(Chars) /\ partials[id].text \in Seq(Chars) /\ outcome = "none"
    BY <1>5, InputsAssumption DEF AppendDelta, BudgetInv, BudgetTypes, Partial
  <2>2. partials[id].text \o d \in Seq(Chars)
    BY <2>1, ConcatProperties
  <2> QED
    BY <1>5, <2>1, <2>2, RefusedCalls, ReplacePartialBudget DEF AppendDelta
<1>6. ASSUME NEW id \in Ids, NEW i \in Nat, IndexUnindexed(i, id) PROVE BudgetInv'
  BY <1>6, RefusedCalls, PlaceBudget DEF IndexUnindexed
<1>7. ASSUME NEW id \in Ids, NEW i \in Nat, NEW t \in Seq(Chars), Commit(i, id, t) PROVE BudgetInv'
  BY <1>7, RefusedCalls, PlaceBudget, CommitNewBudget DEF Commit
<1>8. CASE Complete \/ FailSession
  <2>1. outcome = "none" /\ (Settle("ok") \/ Settle("error"))
    BY <1>8 DEF Complete, FailSession
  <2> QED
    BY <2>1, SettleBudget
<1> QED
  BY <1>1, <1>2, <1>3, <1>4, <1>5, <1>6, <1>7, <1>8 DEF AnyCall

\* What the runs check follows.
LEMMA BudgetMeaning == StoreInv /\ BudgetInv => BudgetsAccounted
<1> SUFFICES ASSUME StoreInv, BudgetInv PROVE BudgetsAccounted
  OBVIOUS
<1>1. TypeOK
  BY DEF StoreInv, StoreTypes, BudgetInv, BudgetTypes, Partial, TypeOK
<1>2. BytesAccounted
  <2>1. IsFiniteSet(registered)
    BY InputsAssumption, FS_Subset DEF BudgetInv, BudgetTypes
  <2>2. idBytes = MapThenSumSet(LAMBDA id : IdLen[id], registered)
    BY <2>1, IdTotal DEF BudgetInv, IdBudget
  <2> QED
    BY <2>2 DEF BudgetInv, TextBudget, IdBudget, BytesAccounted
<1> QED
  BY <1>1, <1>2 DEF BudgetInv, BudgetsAccounted

\* For any ids, texts, indices and limits: retained_text_bytes is what the transcript, the
\* pending and unindexed finals and the partials weigh together, and total_id_bytes what
\* the registered ids do; neither passes its limit, and none of the code's saturating
\* subtractions saturates; every known id is outstanding or completed, never both, and
\* those outstanding keep their limit.
THEOREM BudgetsAreAccounted == Spec => []BudgetsAccounted
<1>1. Init => BudgetInv
  BY InitBudget
<1>2. StoreInv /\ StoreInv' /\ BudgetInv /\ [Next]_storeVars => BudgetInv'
  BY BudgetStep, CallsAreAny
<1>3. Spec => []BudgetInv
  BY <1>1, <1>2, StoreInvariantHolds, PTL DEF Spec
<1> QED
  BY <1>3, StoreInvariantHolds, BudgetMeaning, PTL

-----------------------------------------------------------------------------
\* The ledger agrees with what the store remembers, and while the session runs the
\* transcript and the pending finals are its two parts.
LedgerInv ==
    /\ ledger \in SUBSET Segment /\ IsFiniteSet(ledger)
    /\ \A s \in ledger : completed[s.id] = s.index
    /\ \A r, s \in ledger : r.index = s.index => r = s
    /\ outcome = "none" =>
         /\ \A id \in Ids : completed[id] \in Nat => \E s \in ledger : s.id = id
         /\ pending = {s \in ledger : s.index >= nextSegment}
         /\ \A k \in 0..(nextSegment - 1) : \E s \in ledger : s.index = k
         /\ transcript = InOrder(WithText(Below(ledger, nextSegment)))

\* Log speaks of the same gaps and orders.
LEMMA SameWords ==
    ASSUME NEW S, NEW n
    PROVE  /\ Log!InOrder(S) = InOrder(S) /\ Log!WithText(S) = WithText(S)
           /\ Log!Below(S, n) = Below(S, n) /\ Log!FirstGap(S, n) = FirstGap(S, n)
<1>1. Log!Cardinality(S) = Cardinality(S)
  BY DEF Log!Cardinality, Cardinality, Log!IsFiniteSet, IsFiniteSet
<1>2. Log!InOrder(S) = InOrder(S)
  BY <1>1 DEF Log!InOrder, InOrder
<1>3. Log!WithText(S) = WithText(S)
  BY DEF Log!WithText, WithText, Log!Blank, Blank
<1>4. Log!Below(S, n) = Below(S, n)
  BY DEF Log!Below, Below
<1>5. Log!FirstGap(S, n) = FirstGap(S, n)
  BY <1>1 DEF Log!FirstGap, FirstGap
<1> QED
  BY <1>2, <1>3, <1>4, <1>5

\* While the session runs, the first index missing from the ledger is the next one.
LEMMA LedgerGap ==
    ASSUME StoreInv, LedgerInv, outcome = "none"
    PROVE  FirstGap(ledger, 0) = nextSegment
<1>1. nextSegment \in Nat /\ IsFiniteSet(ledger)
  BY DEF StoreInv, StoreTypes, LedgerInv
<1>2. ~\E s \in ledger : s.index = nextSegment
  <2>1. \A s \in ledger : s.index \in Nat /\ (s.index >= nextSegment => s.index > nextSegment)
    BY <1>1 DEF LedgerInv, Segment, StoreInv, FinalsInPlace, FinalsHome
  <2> QED
    BY <1>1, <2>1
<1> QED
  BY <1>1, <1>2, FirstGapIs DEF LedgerInv

\* A call that leaves the finals alone.
LEMMA LedgerUntouched ==
    ASSUME LedgerInv, UNCHANGED <<transcript, pending, completed, nextSegment, outcome, ledger>>
    PROVE  LedgerInv'
BY DEF LedgerInv

\* A final that takes an index.
LEMMA FinalEnters ==
    ASSUME StoreInv, LedgerInv, outcome = "none", outcome' = outcome,
           NEW s \in Segment, completed[s.id] \notin Nat, ~IndexReused(s.index),
           completed' = [completed EXCEPT ![s.id] = s.index],
           NEW bytes, NEW removed, Drain(Put(pending, s), bytes, removed),
           ledger' = ledger \cup {s}
    PROVE  /\ LedgerInv'
           /\ ~\E r \in ledger : r.index = s.index
           /\ ~\E r \in ledger : r.id = s.id
           /\ transcript' = InOrder(WithText(Below(ledger', FirstGap(ledger', 0))))
<1> DEFINE segs == Put(pending, s)
           gap == FirstGap(segs, nextSegment)
           drained == Below(segs, gap)
<1>1. /\ pending \subseteq Segment /\ IsFiniteSet(pending) /\ nextSegment \in Nat
      /\ completed \in [Ids -> Nat \cup {Open, Unindexed}]
      /\ \A r \in Segment : r.index \in Nat /\ r.id \in Ids
  BY DEF StoreInv, StoreTypes, Segment
<1>2. segs = pending \cup {s} /\ segs \subseteq Segment /\ IsFiniteSet(segs)
  <2>1. segs = pending \cup {s}
    BY DEF Put, IndexReused
  <2> QED
    BY <1>1, <2>1, FS_AddElement
<1>3. /\ ledger \in SUBSET Segment /\ IsFiniteSet(ledger)
      /\ \A r \in ledger : completed[r.id] = r.index
      /\ \A r, t \in ledger : r.index = t.index => r = t
      /\ \A id \in Ids : completed[id] \in Nat => \E r \in ledger : r.id = id
      /\ pending = {r \in ledger : r.index >= nextSegment}
      /\ \A k \in 0..(nextSegment - 1) : \E r \in ledger : r.index = k
      /\ transcript = InOrder(WithText(Below(ledger, nextSegment)))
  BY DEF LedgerInv
<1>4. /\ pending' = segs \ drained /\ nextSegment' = gap
      /\ transcript' = transcript \o InOrder(WithText(drained))
  BY DEF Drain
<1>5. /\ gap \in Nat /\ gap >= nextSegment /\ ~\E r \in segs : r.index = gap
      /\ \A k \in nextSegment..(gap - 1) : \E r \in segs : r.index = k
  BY <1>1, <1>2, GapFound
<1>6. drained = {r \in segs : r.index < gap}
  BY DEF Below
<1> HIDE DEF segs, gap, drained
<1>7. s.index \in Nat /\ s.index >= nextSegment /\ ~\E r \in pending : r.index = s.index
  BY <1>1 DEF IndexReused
<1>8. ~\E r \in ledger : r.index = s.index
  BY <1>3, <1>7
<1>9. ~\E r \in ledger : r.id = s.id
  BY <1>1, <1>3
<1>10. /\ ledger' \in SUBSET Segment /\ IsFiniteSet(ledger')
       /\ \A r \in ledger' : completed'[r.id] = r.index
       /\ \A r, t \in ledger' : r.index = t.index => r = t
  <2>1. ledger' \in SUBSET Segment /\ IsFiniteSet(ledger')
    BY <1>3, FS_AddElement
  <2>2. \A r \in ledger' : completed'[r.id] = r.index
    <3> TAKE r \in ledger'
    <3>1. CASE r = s
      BY <1>1, <3>1
    <3>2. CASE r \in ledger
      <4>1. r.id \in Ids /\ r.id # s.id /\ completed[r.id] = r.index
        BY <1>1, <1>3, <1>9, <3>2
      <4> QED
        BY <1>1, <4>1
    <3> QED
      BY <3>1, <3>2
  <2>3. \A r, t \in ledger' : r.index = t.index => r = t
    BY <1>3, <1>8
  <2> QED
    BY <2>1, <2>2, <2>3
<1>11. \A id \in Ids : completed'[id] \in Nat => \E r \in ledger' : r.id = id
  BY <1>1, <1>3
<1>12. \A r \in ledger' : r.index \in Nat /\ (r \in segs <=> r.index >= nextSegment)
  BY <1>1, <1>2, <1>3, <1>7, <1>10
<1>13. segs \subseteq ledger'
  BY <1>2, <1>3
<1>14. pending' = {r \in ledger' : r.index >= nextSegment'}
  <2>1. \A r \in ledger' : r \in segs \ drained <=> r.index >= gap
    <3> TAKE r \in ledger'
    <3>1. r.index \in Nat /\ (r \in segs <=> r.index >= nextSegment)
      BY <1>12
    <3>2. r.index >= gap => r.index >= nextSegment
      BY <1>1, <1>5, <3>1
    <3>3. r.index >= gap <=> ~(r.index < gap)
      BY <1>5, <3>1
    <3> QED
      BY <1>6, <3>1, <3>2, <3>3
  <2> QED
    BY <1>4, <1>13, <2>1
<1>15. \A k \in 0..(nextSegment' - 1) : \E r \in ledger' : r.index = k
  <2> TAKE k \in 0..(nextSegment' - 1)
  <2>1. k \in 0..(nextSegment - 1) \/ k \in nextSegment..(gap - 1)
    BY <1>1, <1>4, <1>5
  <2>2. CASE k \in 0..(nextSegment - 1)
    BY <1>3, <2>2
  <2>3. CASE k \in nextSegment..(gap - 1)
    <3>1. PICK r \in segs : r.index = k
      BY ONLY <1>5, <2>3
    <3> QED
      BY <1>13, <3>1
  <2> QED
    BY <2>1, <2>2, <2>3
<1>16. ~\E r \in ledger' : r.index = gap
  <2> SUFFICES ASSUME NEW r \in ledger', r.index = gap PROVE FALSE
    OBVIOUS
  <2>1. r \in segs
    BY <1>5, <1>12
  <2> QED
    BY <1>5, <2>1
<1>17. FirstGap(ledger', 0) = gap
  <2> DEFINE L == ledger'
  <2>1. /\ IsFiniteSet(L) /\ ~\E r \in L : r.index = gap
        /\ \A k \in 0..(gap - 1) : \E r \in L : r.index = k
    BY <1>4, <1>10, <1>15, <1>16
  <2> HIDE DEF L
  <2>2. FirstGap(L, 0) = gap
    BY <1>5, <2>1, FirstGapIs
  <2> QED
    BY <2>2 DEF L, FirstGap
<1>18. transcript' = InOrder(WithText(Below(ledger', gap)))
  <2> DEFINE before == WithText(Below(ledger, nextSegment))
             after == WithText(drained)
  <2>1. /\ before = {r \in ledger : r.index < nextSegment /\ ~Blank(r.text)}
        /\ after = {r \in segs : r.index < gap /\ ~Blank(r.text)}
    BY <1>6 DEF WithText, Below
  <2>2. before \cup after = WithText(Below(ledger', gap))
    <3>1. \A r \in ledger' : (r.index < gap <=> ((r \in ledger /\ r.index < nextSegment) \/ (r \in segs /\ r.index < gap)))
      BY <1>1, <1>5, <1>7, <1>12
    <3>2. \A r \in before \cup after : r \in ledger'
      BY <1>13, <2>1
    <3> QED
      BY <2>1, <3>1, <3>2 DEF WithText, Below
  <2>3. before \in SUBSET Segment /\ IsFiniteSet(before) /\ after \in SUBSET Segment /\ IsFiniteSet(after)
    <3>1. before \in SUBSET ledger /\ after \in SUBSET segs
      BY <2>1
    <3> QED
      BY <1>2, <1>3, <3>1, FS_Subset
  <2>4. /\ \A r, t \in before : r.index = t.index => r = t
        /\ \A r, t \in after : r.index = t.index => r = t
    BY <1>10, <1>13, <2>1
  <2>5. \A r \in before, t \in after : r.index < t.index
    BY <1>1, <1>2, <1>3, <1>7, <2>1
  <2>6. transcript' = InOrder(before) \o InOrder(after)
    BY <1>3, <1>4
  <2> HIDE DEF before, after
  <2>7. InOrder(before \cup after) = InOrder(before) \o InOrder(after)
    BY ONLY <2>3, <2>4, <2>5, OrderJoins
  <2> QED
    BY <2>2, <2>6, <2>7
<1>19. LedgerInv'
  BY <1>4, <1>10, <1>11, <1>14, <1>15, <1>18 DEF LedgerInv
<1> QED
  BY <1>8, <1>9, <1>17, <1>18, <1>19

-----------------------------------------------------------------------------
LogStep == [Log!LogNext]_(Log!logVars)

\* A call that leaves the finals alone is a stutter of the log.
LEMMA LogStutters ==
    ASSUME LedgerInv,
           UNCHANGED <<transcript, pending, completed, unindexed, nextSegment, outcome, ledger>>
    PROVE  LedgerInv' /\ LogStep
<1>1. LedgerInv'
  BY LedgerUntouched
<1>2. UNCHANGED Log!logVars
  BY DEF Log!logVars
<1> QED
  BY <1>1, <1>2 DEF LogStep

\* A refused call adds nothing to the ledger.
LEMMA RefusedEnters ==
    ASSUME LedgerInv, NoOp \/ Fail("protocol") \/ Fail("resource"),
           NEW i, NEW id, NEW t, Enters(i, id, t)
    PROVE  LedgerInv' /\ LogStep
<1>1. UNCHANGED <<transcript, pending, completed, unindexed, nextSegment, outcome>>
  BY DEF NoOp, Fail, texts
<1>2. ledger' = ledger
  BY <1>1 DEF Enters
<1> QED
  BY <1>1, <1>2, LogStutters

\* A final that enters the store and the ledger, as the log sees it.
LEMMA EnterStep ==
    ASSUME StoreInv, LedgerInv, outcome = "none", outcome' = outcome,
           NEW s \in Segment, completed[s.id] \notin Nat, ~IndexReused(s.index),
           completed' = [completed EXCEPT ![s.id] = s.index],
           NEW bytes, NEW removed, Drain(Put(pending, s), bytes, removed),
           ledger' = ledger \cup {s}
    PROVE  LedgerInv' /\ Log!Enter(s) /\ ~\E r \in ledger : r.id = s.id
<1>1. /\ LedgerInv'
      /\ ~\E r \in ledger : r.index = s.index
      /\ ~\E r \in ledger : r.id = s.id
      /\ transcript' = InOrder(WithText(Below(ledger', FirstGap(ledger', 0))))
  BY FinalEnters
<1> DEFINE L == ledger'
<1>2. Log!Gapless(L) = Below(L, FirstGap(L, 0))
  <2>1. Log!FirstGap(L, 0) = FirstGap(L, 0)
    BY SameWords
  <2>2. \A n : Log!Below(L, n) = Below(L, n)
    BY SameWords
  <2> QED
    BY <2>1, <2>2 DEF Log!Gapless
<1>3. Log!InOrder(Log!WithText(Below(L, FirstGap(L, 0)))) = InOrder(WithText(Below(L, FirstGap(L, 0))))
  <2>1. \A S : Log!WithText(S) = WithText(S) /\ Log!InOrder(S) = InOrder(S)
    BY SameWords
  <2> QED
    BY <2>1
<1>4. transcript' = Log!InOrder(Log!WithText(Log!Gapless(L)))
  BY <1>1, <1>2, <1>3
<1>5. Log!Enter(s)
  BY <1>1, <1>4 DEF Log!Enter
<1> QED
  BY <1>1, <1>5

\* A final without an index gets one.
LEMMA PlaceEnters ==
    ASSUME StoreInv, LedgerInv, outcome = "none", NEW i \in Indexes, NEW id \in Ids, NEW t,
           completed[id] = Unindexed, PlaceUnindexed(i, id), Enters(i, id, t)
    PROVE  LedgerInv' /\ LogStep
<1>1. CASE Fail("protocol") \/ Fail("resource")
  BY <1>1, RefusedEnters
<1>2. ASSUME ~IndexReused(i), NEW u \in unindexed, u.id = id, TakeUnindexed(u),
             completed' = [completed EXCEPT ![id] = i],
             Drain(Put(pending, [id |-> id, index |-> i, text |-> u.text]), retained, HasPartial(id)),
             UNCHANGED <<ids, outcome>>
      PROVE  LedgerInv' /\ LogStep
  <2> DEFINE s == [id |-> id, index |-> i, text |-> u.text]
  <2>1. /\ completed \in [Ids -> Nat \cup {Open, Unindexed}] /\ i \in Nat /\ u.text \in Seq(Chars)
    BY InputsAssumption DEF StoreInv, StoreTypes
  <2>2. s \in Segment /\ s.id = id /\ s.index = i
    BY <2>1 DEF Segment
  <2>3. completed[id] \notin Nat /\ completed'[id] = i /\ i # Unindexed
    BY <1>2, <2>1, MarksAssumption
  <2>4. (CHOOSE v \in unindexed : v.id = id) = u
    BY <1>2 DEF StoreInv, UnindexedOnce
  <2>5. ledger' = ledger \cup {s}
    BY <2>3, <2>4 DEF Enters
  <2>6. Drain(Put(pending, s), retained, HasPartial(id))
    BY <1>2
  <2>7. s = [id |-> u.id, index |-> i, text |-> u.text]
    BY <1>2
  <2> HIDE DEF s
  <2>8. LedgerInv' /\ Log!Enter(s)
    BY <1>2, <2>2, <2>3, <2>5, <2>6, EnterStep
  <2>9. Log!Place
    BY <1>2, <2>7, <2>8 DEF Log!Place, TakeUnindexed
  <2> QED
    BY <2>8, <2>9 DEF LogStep, Log!LogNext
<1> QED
  BY <1>1, <1>2 DEF PlaceUnindexed

\* A final of an id that has none.
LEMMA CommitEnters ==
    ASSUME StoreInv, LedgerInv, outcome = "none", NEW i \in Indexes, NEW id \in Ids,
           NEW text \in Texts, completed[id] = Open, CommitNew(i, id, text), Enters(i, id, text)
    PROVE  LedgerInv' /\ LogStep
<1>1. CASE Fail("protocol") \/ Fail("resource")
  BY <1>1, RefusedEnters
<1>2. ASSUME ~IndexReused(i), completed' = [completed EXCEPT ![id] = i],
             Drain(Put(pending, [id |-> id, index |-> i, text |-> text]),
                   RetainedWith(id, Len(text)), HasPartial(id)),
             UNCHANGED <<unindexed, outcome>>
      PROVE  LedgerInv' /\ LogStep
  <2> DEFINE s == [id |-> id, index |-> i, text |-> text]
  <2>1. completed \in [Ids -> Nat \cup {Open, Unindexed}] /\ i \in Nat /\ text \in Seq(Chars)
    BY InputsAssumption DEF StoreInv, StoreTypes
  <2>2. s \in Segment /\ s.id = id /\ s.index = i
    BY <2>1 DEF Segment
  <2>3. completed[id] \notin Nat /\ completed[id] # Unindexed /\ completed'[id] = i /\ i # Open
    BY <1>2, <2>1, MarksAssumption
  <2>4. ledger' = ledger \cup {s}
    BY <2>3 DEF Enters
  <2>5. Drain(Put(pending, s), RetainedWith(id, Len(text)), HasPartial(id))
    BY <1>2
  <2>6. s = [id |-> id, index |-> i, text |-> text]
    OBVIOUS
  <2> HIDE DEF s
  <2>7. LedgerInv' /\ Log!Enter(s) /\ ~\E r \in ledger : r.id = s.id
    BY <1>2, <2>2, <2>3, <2>4, <2>5, EnterStep
  <2>8. ~Log!Known(id)
    BY <2>2, <2>3, <2>7 DEF Log!Known, StoreInv, FinalsInPlace, UnindexedHome
  <2>9. Log!Accept
    BY <1>2, <2>6, <2>7, <2>8 DEF Log!Accept
  <2> QED
    BY <2>7, <2>9 DEF LogStep, Log!LogNext
<1> QED
  BY <1>1, <1>2 DEF CommitNew

\* A final that has no index yet.
LEMMA UnindexedFloats ==
    ASSUME StoreInv, LedgerInv, NEW id \in Ids, NEW text \in Texts, CompleteUnindexed(id, text),
           ledger' = ledger
    PROVE  LedgerInv' /\ LogStep
<1>1. CASE NoOp \/ Fail("resource")
  <2>1. UNCHANGED <<transcript, pending, completed, unindexed, nextSegment, outcome>>
    BY <1>1 DEF NoOp, Fail, texts
  <2> QED
    BY <2>1, LogStutters
<1>2. ASSUME outcome = "none", completed[id] = Open, completed' = [completed EXCEPT ![id] = Unindexed],
             unindexed' = unindexed \cup {[id |-> id, text |-> text]},
             UNCHANGED <<transcript, pending, nextSegment, outcome>>
      PROVE  LedgerInv' /\ LogStep
  <2>1. completed \in [Ids -> Nat \cup {Open, Unindexed}]
    BY DEF StoreInv, StoreTypes
  <2>2. \A s \in ledger : s.id \in Ids /\ s.index \in Nat /\ completed[s.id] = s.index
    BY DEF LedgerInv, Segment
  <2>3. ~\E s \in ledger : s.id = id
    BY <1>2, <2>2, MarksAssumption
  <2>4. \A s \in ledger : completed'[s.id] = s.index
    BY <1>2, <2>1, <2>2, <2>3
  <2>5. \A j \in Ids : completed'[j] \in Nat => completed[j] \in Nat
    BY <1>2, <2>1, MarksAssumption
  <2>6. LedgerInv'
    BY <1>2, <2>4, <2>5 DEF LedgerInv
  <2>7. ~Log!Known(id)
    BY <1>2, <2>3, MarksAssumption DEF Log!Known, StoreInv, FinalsInPlace, UnindexedHome
  <2>8. Log!Float
    BY <1>2, <2>7 DEF Log!Float
  <2> QED
    BY <1>2, <2>6, <2>8 DEF LogStep, Log!LogNext
<1> QED
  BY <1>1, <1>2 DEF CompleteUnindexed

\* The end.
LEMMA SettleCloses ==
    ASSUME StoreInv, LedgerInv, outcome = "none", NEW result \in {"ok", "error"}, Settle(result),
           result = "ok" => unindexed = {} /\ pending = {}, ledger' = ledger
    PROVE  LedgerInv' /\ LogStep
<1>1. /\ ledger \in SUBSET Segment /\ IsFiniteSet(ledger)
      /\ \A r, t \in ledger : r.index = t.index => r = t
      /\ pending = {s \in ledger : s.index >= nextSegment}
      /\ transcript = InOrder(WithText(Below(ledger, nextSegment)))
      /\ nextSegment \in Nat /\ \A s \in Segment : s.index \in Nat
  BY DEF LedgerInv, StoreInv, StoreTypes, Segment
<1>2. /\ transcript' = transcript \o InOrder(WithText(pending)) /\ outcome' = result
      /\ pending' = {} /\ unindexed' = {} /\ completed' = completed /\ nextSegment' = nextSegment
  BY DEF Settle
<1>3. LedgerInv'
  BY <1>2 DEF LedgerInv
<1>4. transcript' = InOrder(WithText(ledger))
  <2> DEFINE before == WithText(Below(ledger, nextSegment))
             after == WithText(pending)
  <2>1. /\ before = {r \in ledger : r.index < nextSegment /\ ~Blank(r.text)}
        /\ after = {r \in ledger : r.index >= nextSegment /\ ~Blank(r.text)}
    BY <1>1 DEF WithText, Below
  <2>2. before \cup after = WithText(ledger)
    <3>1. \A r \in ledger : r.index < nextSegment \/ r.index >= nextSegment
      BY <1>1
    <3> QED
      BY <2>1, <3>1 DEF WithText
  <2>3. before \in SUBSET Segment /\ IsFiniteSet(before) /\ after \in SUBSET Segment /\ IsFiniteSet(after)
    <3>1. before \in SUBSET ledger /\ after \in SUBSET ledger
      BY <2>1
    <3> QED
      BY <1>1, <3>1, FS_Subset
  <2>4. /\ \A r, t \in before : r.index = t.index => r = t
        /\ \A r, t \in after : r.index = t.index => r = t
    BY <1>1, <2>1
  <2>5. \A r \in before, t \in after : r.index < t.index
    BY <1>1, <2>1
  <2>6. transcript' = InOrder(before) \o InOrder(after)
    BY <1>1, <1>2
  <2> HIDE DEF before, after
  <2>7. InOrder(before \cup after) = InOrder(before) \o InOrder(after)
    BY ONLY <2>3, <2>4, <2>5, OrderJoins
  <2> QED
    BY <2>2, <2>6, <2>7
<1>5. transcript' = Log!InOrder(Log!WithText(ledger))
  <2>1. \A S : Log!WithText(S) = WithText(S) /\ Log!InOrder(S) = InOrder(S)
    BY SameWords
  <2> QED
    BY <1>4, <2>1
<1>6. result = "ok" => unindexed = {} /\ Log!Gapless(ledger) = ledger
  <2> SUFFICES ASSUME result = "ok" PROVE unindexed = {} /\ Log!Gapless(ledger) = ledger
    OBVIOUS
  <2>1. unindexed = {} /\ pending = {}
    OBVIOUS
  <2>2. \A s \in ledger : s.index < nextSegment
    BY <1>1, <2>1
  <2>3. Below(ledger, FirstGap(ledger, 0)) = ledger
    BY <2>2, LedgerGap DEF Below
  <2>4. Log!FirstGap(ledger, 0) = FirstGap(ledger, 0)
    BY SameWords
  <2>5. \A n : Log!Below(ledger, n) = Below(ledger, n)
    BY SameWords
  <2> QED
    BY <2>1, <2>3, <2>4, <2>5 DEF Log!Gapless
<1>7. Log!Close(result)
  BY <1>2, <1>5, <1>6 DEF Log!Close
<1> QED
  BY <1>3, <1>7 DEF LogStep, Log!LogNext

\* Every step keeps the ledger true and is a step of the log or a stutter.
LEMMA LedgerStep == StoreInv /\ LedgerInv /\ [LedgerNext]_ledgerVars => LedgerInv' /\ LogStep
<1> SUFFICES ASSUME StoreInv, LedgerInv, [LedgerNext]_ledgerVars PROVE LedgerInv' /\ LogStep
  OBVIOUS
<1>1. CASE UNCHANGED ledgerVars
  <2>1. UNCHANGED <<transcript, pending, completed, unindexed, nextSegment, outcome, ledger>>
    BY <1>1 DEF ledgerVars, storeVars, texts
  <2> QED
    BY <2>1, LogStutters
<1>2. ASSUME NEW id \in Ids,
             RegisterId(id) \/ (\E t \in Texts : SetPartial(id, t)) \/ \E d \in Deltas : AppendDelta(id, d),
             UNCHANGED ledger
      PROVE  LedgerInv' /\ LogStep
  <2>1. UNCHANGED <<transcript, pending, completed, unindexed, nextSegment, outcome>>
    BY <1>2, PartialsStep, InputsAssumption
  <2> QED
    BY <1>2, <2>1, LogStutters
<1>3. ASSUME NEW id \in Ids, NEW t \in Texts, CompleteUnindexed(id, t), UNCHANGED ledger
      PROVE  LedgerInv' /\ LogStep
  BY <1>3, UnindexedFloats
<1>4. ASSUME Complete \/ FailSession, UNCHANGED ledger PROVE LedgerInv' /\ LogStep
  <2>1. CASE Complete
    <3>1. CASE unindexed = {} /\ pending = {}
      <4>1. outcome = "none" /\ Settle("ok")
        BY <2>1, <3>1 DEF Complete
      <4> QED
        BY <1>4, <3>1, <4>1, SettleCloses
    <3>2. CASE ~(unindexed = {} /\ pending = {})
      <4>1. outcome = "none" /\ Settle("error")
        BY <2>1, <3>2 DEF Complete
      <4> QED
        BY <1>4, <4>1, SettleCloses
    <3> QED
      BY <3>1, <3>2
  <2>2. CASE FailSession
    <3>1. outcome = "none" /\ Settle("error")
      BY <2>2 DEF FailSession
    <3> QED
      BY <1>4, <3>1, SettleCloses
  <2> QED
    BY <1>4, <2>1, <2>2
<1>5. ASSUME NEW id \in Ids, NEW i \in Indexes, IndexUnindexed(i, id), Enters(i, id, <<>>)
      PROVE  LedgerInv' /\ LogStep
  BY <1>5, RefusedEnters, PlaceEnters DEF IndexUnindexed
<1>6. ASSUME NEW id \in Ids, NEW i \in Indexes, NEW t \in Texts, Commit(i, id, t), Enters(i, id, t)
      PROVE  LedgerInv' /\ LogStep
  BY <1>6, RefusedEnters, PlaceEnters, CommitEnters DEF Commit
<1> QED
  BY <1>1, <1>2, <1>3, <1>4, <1>5, <1>6 DEF LedgerNext

\* For any ids, texts, indices and limits, the store implements FinalLog: every final is
\* accepted once per id and once per index and never lost or altered; while the session
\* runs the transcript is the finals with text before the first missing index, in order;
\* the end adds the rest; and only a log with no gap and no final without an index ends
\* well.
THEOREM FinalLogIsImplemented == LedgerSpec => ImplementsFinalLog
<1>1. LedgerSpec => Spec
  <2>1. LedgerInit => Init
    BY DEF LedgerInit
  <2>2. [LedgerNext]_ledgerVars => [Next]_storeVars
    BY DEF LedgerNext, ledgerVars, Next
  <2> QED
    BY <2>1, <2>2, PTL DEF LedgerSpec, Spec
<1>2. LedgerInit => LedgerInv /\ Log!LogInit
  <2> SUFFICES ASSUME LedgerInit PROVE LedgerInv /\ Log!LogInit
    OBVIOUS
  <2>1. /\ ledger = {} /\ transcript = <<>> /\ pending = {} /\ unindexed = {} /\ nextSegment = 0
        /\ outcome = "none" /\ completed = [id \in Ids |-> Open]
    BY DEF LedgerInit, Init
  <2>2. InOrder({}) = <<>>
    <3>1. Cardinality({}) = 0 /\ IsFiniteSet({})
      BY FS_EmptySet
    <3>2. InOrder({}) \in [1..Cardinality({}) -> {}]
      BY <3>1, OrderFound
    <3> QED
      BY <3>1, <3>2
  <2>3. WithText(Below(ledger, nextSegment)) = {}
    BY <2>1 DEF WithText, Below
  <2>4. transcript = InOrder(WithText(Below(ledger, nextSegment)))
    BY <2>1, <2>2, <2>3
  <2>5. \A id \in Ids : completed[id] \notin Nat
    BY <2>1, MarksAssumption
  <2>6. LedgerInv
    BY <2>1, <2>4, <2>5, FS_EmptySet DEF LedgerInv
  <2> QED
    BY <2>1, <2>6 DEF Log!LogInit
<1>3. StoreInv /\ LedgerInv /\ [LedgerNext]_ledgerVars => LedgerInv' /\ [Log!LogNext]_(Log!logVars)
  BY LedgerStep DEF LogStep
<1> QED
  BY <1>1, <1>2, <1>3, StoreInvariantHolds, PTL DEF LedgerSpec, ImplementsFinalLog, Log!LogSpec

-----------------------------------------------------------------------------
\* The sink in front of the store.
SinkCalls ==
    [op : {"register", "partial", "delta", "index", "commit", "final", "store commit", "store final"},
     id : Ids, index : Nat, text : Seq(Chars)]
SinkTypes == calls \in Seq(SinkCalls) /\ refused \in BOOLEAN

\* Only the call that is being made has passed its preflight.
OneInHand == \A j \in 2..Len(calls) : calls[j].op \notin {"store commit", "store final"}

SinkInv == SinkTypes /\ OneInHand /\ PreflightHolds

\* The first of a sequence and the rest of it.
LEMMA TailIs ==
    ASSUME NEW S, NEW q \in Seq(S), q # <<>>
    PROVE  /\ Len(q) \in Nat /\ Len(q) >= 1 /\ Head(q) = q[1] /\ q[1] \in S
           /\ Tail(q) \in Seq(S) /\ Len(Tail(q)) = Len(q) - 1
           /\ \A j \in 1..(Len(q) - 1) : Tail(q)[j] = q[j + 1]
<1>1. Len(q) \in Nat /\ Len(q) >= 1
  BY EmptySeq
<1>2. Tail(q) \in Seq(S) /\ Len(Tail(q)) = Len(q) - 1 /\ \A j \in 1..Len(Tail(q)) : Tail(q)[j] = q[j + 1]
  BY HeadTailProperties
<1>3. 1 \in 1..Len(q)
  BY <1>1
<1>4. q[1] \in S
  BY <1>3, ElementOfSeq
<1>5. Head(q) = q[1]
  OBVIOUS
<1> QED
  BY ONLY <1>1, <1>2, <1>4, <1>5

\* A sequence with one more at its end.
LEMMA AppendIs ==
    ASSUME NEW S, NEW q \in Seq(S), NEW e \in S
    PROVE  /\ Append(q, e) \in Seq(S) /\ Append(q, e) # <<>>
           /\ Len(q) \in Nat /\ Len(Append(q, e)) = Len(q) + 1
           /\ Append(q, e)[Len(q) + 1] = e /\ \A j \in 1..Len(q) : Append(q, e)[j] = q[j]
<1>1. Len(q) \in Nat
  BY LenProperties
<1> QED
  BY <1>1, AppendProperties

\* A sequence with another first element.
LEMMA HeadReplaced ==
    ASSUME NEW S, NEW q \in Seq(S), q # <<>>, NEW e \in S, NEW p, p = <<e>> \o Tail(q)
    PROVE  /\ p \in Seq(S) /\ p # <<>> /\ Len(p) = Len(q) /\ p[1] = e /\ Head(p) = e
           /\ \A j \in 2..Len(q) : p[j] = q[j]
<1> DEFINE t == Tail(q)
           s == <<e>>
<1>1. /\ Len(q) \in Nat /\ Len(q) >= 1 /\ t \in Seq(S) /\ Len(t) = Len(q) - 1
      /\ \A j \in 1..(Len(q) - 1) : t[j] = q[j + 1]
  BY TailIs
<1>2. s \in Seq(S) /\ Len(s) = 1 /\ s[1] = e
  OBVIOUS
<1>3. p = s \o t
  OBVIOUS
<1> HIDE DEF s, t
<1>4. /\ p \in Seq(S) /\ Len(p) = 1 + Len(t)
      /\ \A i \in 1..(1 + Len(t)) : p[i] = IF i <= 1 THEN s[i] ELSE t[i - 1]
  BY <1>1, <1>2, <1>3, ConcatProperties
<1>5. Len(p) = Len(q) /\ p[1] = e
  BY ONLY <1>1, <1>2, <1>4
<1>6. p # <<>>
  <2>1. Len(p) # 0
    BY ONLY <1>1, <1>5
  <2> QED
    BY <2>1, EmptySeq
<1>7. Head(p) = p[1]
  BY <1>4, <1>6, TailIs
<1>8. ASSUME NEW j \in 2..Len(q) PROVE p[j] = q[j]
  <2>1. j \in 1..(1 + Len(t)) /\ ~(j <= 1) /\ j - 1 \in 1..(Len(q) - 1) /\ (j - 1) + 1 = j
    BY ONLY <1>1, j \in 2..Len(q)
  <2>2. p[j] = t[j - 1]
    BY ONLY <1>4, <2>1
  <2>3. t[j - 1] = q[(j - 1) + 1]
    BY ONLY <1>1, <2>1
  <2> QED
    BY ONLY <2>1, <2>2, <2>3
<1> QED
  BY <1>4, <1>5, <1>6, <1>7, <1>8

\* A call that returns makes way for the next.
LEMMA CallReturns ==
    ASSUME SinkTypes, OneInHand, calls # <<>>, NEW p, p = Tail(calls) \/ p = <<>>
    PROVE  /\ p \in Seq(SinkCalls) /\ \A j \in 1..Len(p) : p[j].op \notin {"store commit", "store final"}
<1>1. CASE p = <<>>
  BY <1>1, EmptySeq
<1>2. CASE p = Tail(calls)
  <2>1. /\ p \in Seq(SinkCalls) /\ Len(p) = Len(calls) - 1 /\ Len(calls) \in Nat
        /\ \A j \in 1..(Len(calls) - 1) : p[j] = calls[j + 1]
    BY <1>2, TailIs DEF SinkTypes
  <2>2. ASSUME NEW j \in 1..Len(p) PROVE p[j].op \notin {"store commit", "store final"}
    <3>1. j + 1 \in 2..Len(calls) /\ j \in 1..(Len(calls) - 1)
      BY <2>1
    <3> QED
      BY <2>1, <3>1 DEF OneInHand
  <2> QED
    BY <2>1, <2>2
<1> QED
  BY <1>1, <1>2

\* Calls of which none has passed its preflight.
LEMMA NoneInHand ==
    ASSUME calls' \in Seq(SinkCalls), refused' \in BOOLEAN,
           \A j \in 1..Len(calls') : calls'[j].op \notin {"store commit", "store final"}
    PROVE  SinkInv'
<1> DEFINE p == calls'
<1>1. /\ p \in Seq(SinkCalls) /\ refused' \in BOOLEAN
      /\ \A j \in 1..Len(p) : p[j].op \notin {"store commit", "store final"}
  OBVIOUS
<1>2. OneInHand' = \A j \in 2..Len(p) : p[j].op \notin {"store commit", "store final"}
  BY DEF OneInHand
<1>3. SinkTypes' = (p \in Seq(SinkCalls) /\ refused' \in BOOLEAN)
  BY DEF SinkTypes
<1>4. (p # <<>> => Head(p).op # "store commit" /\ Head(p).op # "store final") => PreflightHolds'
  BY DEF PreflightHolds
<1> HIDE DEF p
<1>5. Len(p) \in Nat
  BY <1>1, LenProperties
<1>6. ASSUME NEW j \in 2..Len(p) PROVE p[j].op \notin {"store commit", "store final"}
  <2>1. j \in 1..Len(p)
    BY ONLY <1>5, j \in 2..Len(p)
  <2> QED
    BY ONLY <1>1, <2>1
<1>7. ASSUME p # <<>> PROVE Head(p).op # "store commit" /\ Head(p).op # "store final"
  <2>1. Head(p) = p[1] /\ Len(p) >= 1
    BY <1>1, <1>7, TailIs
  <2>2. 1 \in 1..Len(p)
    BY ONLY <1>5, <2>1
  <2>3. p[1].op \notin {"store commit", "store final"}
    BY ONLY <1>1, <2>2
  <2> QED
    BY ONLY <2>1, <2>3
<1> QED
  BY <1>1, <1>2, <1>3, <1>4, <1>6, <1>7 DEF SinkInv

\* What the calls do to the finals and the partials, as their caller sees it.
LEMMA CallsDo ==
    ASSUME StoreInv, NEW id \in Ids, NEW i \in Nat, NEW text
    PROVE  /\ RegisterId(id) => UNCHANGED <<completed, partials, outcome>> /\ outcome = "none"
           /\ SetPartial(id, text) \/ AppendDelta(id, text) =>
                /\ UNCHANGED <<completed, outcome>> /\ outcome = "none"
                /\ \A j \in Ids : j # id => partials'[j] = partials[j]
           /\ IndexUnindexed(i, id) \/ Commit(i, id, text) =>
                /\ UNCHANGED outcome /\ outcome = "none"
                /\ completed' = completed \/ completed' = [completed EXCEPT ![id] = i]
                /\ partials' = partials \/ partials' = [partials EXCEPT ![id] = NoPartial]
                /\ reply'.error = "none" => completed'[id] = i
           /\ CompleteUnindexed(id, text) =>
                /\ UNCHANGED outcome /\ outcome = "none"
                /\ completed' = completed \/ completed' = [completed EXCEPT ![id] = Unindexed]
                /\ partials' = partials \/ partials' = [partials EXCEPT ![id] = NoPartial]
                /\ reply'.error = "none" /\ completed[id] = Open => completed'[id] = Unindexed
<1>1. completed \in [Ids -> Nat \cup {Open, Unindexed}]
  BY DEF StoreInv, StoreTypes
<1>2. NoOp => UNCHANGED <<completed, partials, outcome>>
  BY DEF NoOp, texts
<1>3. \A e : Fail(e) => UNCHANGED <<completed, partials, outcome>> /\ reply'.error = e
  BY DEF Fail, texts, Return
<1>4. RegisterId(id) => UNCHANGED <<completed, partials, outcome>> /\ outcome = "none"
  BY <1>3 DEF RegisterId, texts
<1>5. ASSUME NEW t, ReplacePartial(id, t)
      PROVE  UNCHANGED <<completed, outcome>> /\ \A j \in Ids : j # id => partials'[j] = partials[j]
  <2>1. CASE Fail("resource")
    BY <1>3, <2>1
  <2>2. CASE /\ partials' = [partials EXCEPT ![id] = [revision |-> NextRevision(id), text |-> t]]
             /\ UNCHANGED <<completed, outcome>>
    BY <2>2
  <2> QED
    BY <1>5, <2>1, <2>2 DEF ReplacePartial
<1>6. ASSUME SetPartial(id, text) \/ AppendDelta(id, text)
      PROVE  /\ UNCHANGED <<completed, outcome>> /\ outcome = "none"
             /\ \A j \in Ids : j # id => partials'[j] = partials[j]
  <2>1. outcome = "none" /\ (NoOp \/ Fail("resource") \/ \E t : ReplacePartial(id, t))
    BY <1>6 DEF SetPartial, AppendDelta
  <2> QED
    BY <1>2, <1>3, <1>5, <2>1
<1>7. ASSUME PlaceUnindexed(i, id)
      PROVE  \/ Fail("protocol") \/ Fail("resource")
             \/ /\ completed' = [completed EXCEPT ![id] = i] /\ partials' = [partials EXCEPT ![id] = NoPartial]
                /\ outcome' = outcome
  BY <1>7 DEF PlaceUnindexed
<1>8. ASSUME CommitNew(i, id, text)
      PROVE  \/ Fail("protocol") \/ Fail("resource")
             \/ /\ completed' = [completed EXCEPT ![id] = i] /\ partials' = [partials EXCEPT ![id] = NoPartial]
                /\ outcome' = outcome
  BY <1>8 DEF CommitNew
<1>9. ASSUME IndexUnindexed(i, id) \/ Commit(i, id, text)
      PROVE  /\ UNCHANGED outcome /\ outcome = "none"
             /\ completed' = completed \/ completed' = [completed EXCEPT ![id] = i]
             /\ partials' = partials \/ partials' = [partials EXCEPT ![id] = NoPartial]
             /\ reply'.error = "none" => completed'[id] = i
  <2>1. /\ outcome = "none"
        /\ \/ completed[id] = i /\ NoOp
           \/ Fail("protocol") \/ Fail("resource")
           \/ /\ completed' = [completed EXCEPT ![id] = i] /\ partials' = [partials EXCEPT ![id] = NoPartial]
              /\ outcome' = outcome
    BY <1>7, <1>8, <1>9 DEF IndexUnindexed, Commit
  <2>2. CASE completed[id] = i /\ NoOp
    BY <1>2, <2>1, <2>2
  <2>3. CASE Fail("protocol") \/ Fail("resource")
    BY <1>3, <2>1, <2>3
  <2>4. CASE /\ completed' = [completed EXCEPT ![id] = i] /\ partials' = [partials EXCEPT ![id] = NoPartial]
             /\ outcome' = outcome
    BY <1>1, <2>1, <2>4
  <2> QED
    BY ONLY <2>1, <2>2, <2>3, <2>4
<1>10. ASSUME CompleteUnindexed(id, text)
       PROVE  /\ UNCHANGED outcome /\ outcome = "none"
              /\ completed' = completed \/ completed' = [completed EXCEPT ![id] = Unindexed]
              /\ partials' = partials \/ partials' = [partials EXCEPT ![id] = NoPartial]
              /\ reply'.error = "none" /\ completed[id] = Open => completed'[id] = Unindexed
  <2>1. /\ outcome = "none"
        /\ \/ completed[id] # Open /\ NoOp
           \/ Fail("resource")
           \/ /\ completed' = [completed EXCEPT ![id] = Unindexed]
              /\ partials' = [partials EXCEPT ![id] = NoPartial] /\ outcome' = outcome
    BY <1>10 DEF CompleteUnindexed
  <2>2. CASE completed[id] # Open /\ NoOp
    BY <1>2, <2>1, <2>2
  <2>3. CASE Fail("resource")
    BY <1>3, <2>1, <2>3
  <2>4. CASE /\ completed' = [completed EXCEPT ![id] = Unindexed]
             /\ partials' = [partials EXCEPT ![id] = NoPartial] /\ outcome' = outcome
    BY <1>1, <2>1, <2>4
  <2> QED
    BY ONLY <2>1, <2>2, <2>3, <2>4
<1> QED
  BY <1>4, <1>6, <1>9, <1>10

\* At first no call is under way.
LEMMA SinkStarts == SinkInit => SinkInv
<1> SUFFICES ASSUME SinkInit PROVE SinkInv
  OBVIOUS
<1>1. calls \in Seq(SinkCalls) /\ calls = <<>> /\ Len(calls) = 0 /\ refused \in BOOLEAN
  BY EmptySeq DEF SinkInit
<1>2. SinkTypes
  BY <1>1 DEF SinkTypes
<1>3. OneInHand
  <2>1. \A j \in 2..Len(calls) : FALSE
    BY <1>1
  <2> QED
    BY <2>1 DEF OneInHand
<1>4. PreflightHolds
  BY <1>1 DEF PreflightHolds
<1> QED
  BY <1>2, <1>3, <1>4 DEF SinkInv

\* The sink's steps are calls of the store, and nothing happens to the store between
\* a preflight and its call.
LEMMA SinkKeeps ==
    ASSUME StoreInv, SinkInv, SinkStep
    PROVE  SinkInv' /\ [AnyCall]_storeVars /\ outcome' = outcome
<1> DEFINE call == Head(calls)
<1>1. calls # <<>> /\ calls \in Seq(SinkCalls) /\ refused \in BOOLEAN
  BY DEF SinkStep, SinkInv, SinkTypes
<1>2. call \in SinkCalls
  BY <1>1, TailIs
<1>3. call.id \in Ids /\ call.index \in Nat /\ call.text \in Seq(Chars)
  BY <1>2 DEF SinkCalls
<1>4. CASE CallTooLate
  <2>1. /\ outcome # "none" /\ UNCHANGED storeVars /\ refused' \in BOOLEAN
        /\ calls' = Tail(calls) \/ calls' = <<>>
    BY <1>1, <1>4 DEF CallTooLate
  <2>2. /\ calls' \in Seq(SinkCalls)
        /\ \A j \in 1..Len(calls') : calls'[j].op \notin {"store commit", "store final"}
    BY <1>1, <2>1, CallReturns DEF SinkInv
  <2> QED
    BY <2>1, <2>2, NoneInHand DEF storeVars
<1>5. CASE StoreCall
  <2>1. Returned
    BY <1>5 DEF StoreCall
  <2>2. (calls' = Tail(calls) \/ calls' = <<>>) /\ refused' \in BOOLEAN
    BY <2>1 DEF Returned
  <2>3. /\ calls' \in Seq(SinkCalls)
        /\ \A j \in 1..Len(calls') : calls'[j].op \notin {"store commit", "store final"}
    BY <1>1, <2>2, CallReturns DEF SinkInv
  <2>4. \/ RegisterId(call.id) \/ SetPartial(call.id, call.text) \/ AppendDelta(call.id, call.text)
        \/ IndexUnindexed(call.index, call.id) \/ Commit(call.index, call.id, call.text)
        \/ CompleteUnindexed(call.id, call.text)
    BY <1>5 DEF StoreCall
  <2> HIDE DEF call
  <2>5. AnyCall
    BY <1>3, <2>4 DEF AnyCall
  <2>6. outcome' = outcome
    BY <1>3, <2>4, CallsDo
  <2> QED
    BY <2>2, <2>3, <2>5, <2>6, NoneInHand
<1>6. CASE Preflight
  <2>1. UNCHANGED storeVars /\ outcome = "none"
    BY <1>6 DEF Preflight
  <2>2. UNCHANGED <<completed, pending, nextSegment, unindexed, registered, outstanding, idBytes, outcome>>
    BY <2>1 DEF storeVars, texts, ids
  <2>3. CASE (calls' = Tail(calls) \/ calls' = <<>>) /\ refused' \in BOOLEAN
    <3>1. /\ calls' \in Seq(SinkCalls)
          /\ \A j \in 1..Len(calls') : calls'[j].op \notin {"store commit", "store final"}
      BY <1>1, <2>3, CallReturns DEF SinkInv
    <3> QED
      BY <2>1, <2>2, <2>3, <3>1, NoneInHand
  <2> DEFINE verdict == IF call.op = "commit" THEN PreflightCommit(call.index, call.id)
                                              ELSE PreflightUnindexed(call.id)
             op == IF call.op = "commit" THEN "store commit" ELSE "store final"
             stored(text) == [call EXCEPT !.op = op, !.text = text]
  <2>4. ASSUME NEW text \in Seq(Chars), calls' = <<stored(text)>> \o Tail(calls), UNCHANGED refused,
               verdict = "process" \/ (verdict = "index" /\ text = <<>>)
        PROVE  SinkInv'
    <3> DEFINE new == stored(text)
    <3>1. /\ new \in SinkCalls /\ new.op = op /\ new.id = call.id /\ new.index = call.index
          /\ new.text = text /\ call.op \in {"commit", "final"}
      BY <1>2, <1>6 DEF SinkCalls, Preflight
    <3>2. calls' = <<new>> \o Tail(calls)
      BY <2>4
    <3> HIDE DEF new
    <3> DEFINE p == calls'
    <3>a. calls \in Seq(SinkCalls) /\ calls # <<>> /\ new \in SinkCalls /\ p = <<new>> \o Tail(calls)
      BY <1>1, <3>1, <3>2
    <3> HIDE DEF p
    <3>b. /\ p \in Seq(SinkCalls) /\ p # <<>> /\ Len(p) = Len(calls) /\ Head(p) = new
          /\ \A j \in 2..Len(calls) : p[j] = calls[j]
      BY ONLY <3>a, HeadReplaced
    <3>c. \A j \in 2..Len(p) : p[j].op \notin {"store commit", "store final"}
      BY <3>b DEF SinkInv, OneInHand
    <3>3. calls' \in Seq(SinkCalls) /\ calls' # <<>> /\ Head(calls') = new
      BY <3>b DEF p
    <3>4. OneInHand' /\ SinkTypes'
      BY <1>1, <2>4, <3>3, <3>c DEF OneInHand, SinkTypes, p
    <3>5. ASSUME new.op = "store commit"
          PROVE  \/ completed[new.id] = Unindexed /\ new.text = <<>>
                 \/ completed[new.id] = Open /\ ~IndexReused(new.index) /\ ~PendingFull(new.index)
      <4>1. call.op = "commit" /\ verdict = PreflightCommit(call.index, call.id)
        BY <3>1, <3>5
      <4>2. completed[call.id] \in Nat \cup {Open, Unindexed}
        BY <1>3 DEF StoreInv, StoreTypes
      <4> HIDE DEF verdict
      <4> QED
        BY <1>3, <2>4, <3>1, <4>1, <4>2, MarksAssumption DEF PreflightCommit
    <3>6. ASSUME new.op = "store final"
          PROVE  completed[new.id] = Open /\ ~UnindexedFull /\ IdFits(new.id, FALSE)
      <4>1. call.op = "final" /\ verdict = PreflightUnindexed(call.id)
        BY <3>1, <3>6
      <4> HIDE DEF verdict
      <4> QED
        BY <2>4, <3>1, <4>1 DEF PreflightUnindexed
    <3>7. PreflightHolds'
      BY <2>2, <3>3, <3>5, <3>6
         DEF PreflightHolds, IndexReused, PendingFull, UnindexedFull, IdFits
    <3> QED
      BY <3>4, <3>7 DEF SinkInv
  <2>5. \/ (calls' = Tail(calls) \/ calls' = <<>>) /\ refused' \in BOOLEAN
        \/ verdict = "index" /\ calls' = <<stored(<<>>)>> \o Tail(calls) /\ UNCHANGED refused
        \/ /\ verdict = "process" /\ UNCHANGED refused
           /\ \E text \in Processed(call.text) : calls' = <<stored(text)>> \o Tail(calls)
    BY <1>1, <1>6 DEF Preflight
  <2>6. Processed(call.text) \subseteq Seq(Chars) /\ <<>> \in Seq(Chars)
    BY <1>3, InputsAssumption, EmptySeq DEF Processed
  <2> HIDE DEF verdict, stored
  <2> QED
    BY <2>1, <2>2, <2>3, <2>4, <2>5, <2>6 DEF stored
<1> QED
  BY <1>4, <1>5, <1>6 DEF SinkStep

\* Nothing the sink looks at changes, or the session is over.
LEMMA SinkUntouched ==
    ASSUME SinkInv, UNCHANGED <<calls, refused>>, (UNCHANGED storeVars) \/ outcome' # "none" PROVE SinkInv'
<1>1. SinkTypes' /\ OneInHand'
  BY DEF SinkInv, SinkTypes, OneInHand
<1>2. CASE outcome' # "none"
  BY <1>1, <1>2 DEF SinkInv, PreflightHolds
<1>3. CASE UNCHANGED storeVars
  <2>1. UNCHANGED <<completed, pending, nextSegment, unindexed, registered, outstanding, idBytes, outcome>>
    BY <1>3 DEF storeVars, texts, ids
  <2>2. PreflightHolds'
    BY <2>1 DEF SinkInv, PreflightHolds, IndexReused, PendingFull, UnindexedFull, IdFits
  <2> QED
    BY <1>1, <2>2 DEF SinkInv
<1> QED
  BY <1>2, <1>3

-----------------------------------------------------------------------------
\* What Retain leaves of a sequence.
\* f is what is kept of the beginnings of q: the recursion of Retain.
Keeps(f, q, D, n) ==
    f = [k \in 0..n |-> IF k = 0 THEN <<>>
                         ELSE IF q[k] \in D THEN f[k - 1] ELSE Append(f[k - 1], q[k])]

\* There is such a function for every beginning of a sequence.
LEMMA KeepsExists == ASSUME NEW q, NEW D, NEW n \in Nat PROVE \E f : Keeps(f, q, D, n)
<1> DEFINE Bad == {k \in Nat : ~\E f : Keeps(f, q, D, k)}
<1>1. SUFFICES ASSUME Bad # {} PROVE FALSE
  OBVIOUS
<1>2. PICK m \in Bad : \A j \in Bad : m <= j
  BY <1>1, LeastNumber
<1>3. m # 0
  <2>1. Keeps([k \in 0..0 |-> <<>>], q, D, 0)
    BY DEF Keeps
  <2> QED
    BY <1>2, <2>1
<1>4. m \in Nat /\ m - 1 \in Nat /\ ~(m <= m - 1)
  BY <1>2, <1>3
<1>5. PICK g : Keeps(g, q, D, m - 1)
  BY <1>2, <1>4
<1> DEFINE f == [k \in 0..m |-> IF k = 0 THEN <<>>
                         ELSE IF q[k] \in D THEN g[k - 1] ELSE Append(g[k - 1], q[k])]
<1>6. ASSUME NEW k \in 0..(m - 1) PROVE g[k] = f[k]
  <2>1. k \in 0..m
    BY <1>4
  <2> QED
    BY <1>5, <2>1 DEF Keeps
<1>7. f = [k \in 0..m |-> IF k = 0 THEN <<>>
                         ELSE IF q[k] \in D THEN f[k - 1] ELSE Append(f[k - 1], q[k])]
  <2>1. \A k \in 0..m : k # 0 => g[k - 1] = f[k - 1]
    <3> TAKE k \in 0..m
    <3> HAVE k # 0
    <3>1. k - 1 \in 0..(m - 1)
      BY <1>4
    <3> HIDE DEF f
    <3> QED
      BY <1>6, <3>1
  <2> QED
    BY <2>1
<1> HIDE DEF f
<1>8. Keeps(f, q, D, m)
  BY <1>7 DEF Keeps
<1> QED
  BY <1>2, <1>8

\* What is kept of a beginning depends on that beginning only.
LEMMA KeepsAgree ==
    ASSUME NEW q, NEW p, NEW D, NEW n \in Nat, NEW m \in Nat, NEW f, NEW g, m <= n,
           Keeps(f, q, D, n), Keeps(g, p, D, m), \A k \in 1..m : p[k] = q[k]
    PROVE  \A k \in 0..m : f[k] = g[k]
<1> DEFINE Bad == {k \in 0..m : f[k] # g[k]}
<1>1. SUFFICES ASSUME Bad # {} PROVE FALSE
  OBVIOUS
<1>2. PICK b \in Bad : \A j \in Bad : b <= j
  <2>1. Bad \in SUBSET Nat
    OBVIOUS
  <2> QED
    BY <1>1, <2>1, LeastNumber
<1>3. b # 0
  BY <1>2 DEF Keeps
<1>4. b \in 1..m /\ b \in 0..n /\ b \in 0..m /\ b - 1 \in 0..m /\ ~(b <= b - 1)
  BY <1>2, <1>3
<1>5. f[b - 1] = g[b - 1]
  BY <1>2, <1>4
<1>6. /\ f[b] = IF q[b] \in D THEN f[b - 1] ELSE Append(f[b - 1], q[b])
      /\ g[b] = IF p[b] \in D THEN g[b - 1] ELSE Append(g[b - 1], p[b])
  BY <1>3, <1>4 DEF Keeps
<1> QED
  BY <1>2, <1>4, <1>5, <1>6

\* Retain is the end of that recursion.
LEMMA RetainIs ==
    ASSUME NEW q, Len(q) \in Nat, NEW D, NEW f, Keeps(f, q, D, Len(q))
    PROVE  Retain(q, D) = f[Len(q)]
<1> DEFINE g == CHOOSE g : Keeps(g, q, D, Len(q))
<1>1. Keeps(g, q, D, Len(q))
  OBVIOUS
<1> HIDE DEF g
<1>2. \A k \in 0..Len(q) : f[k] = g[k]
  BY <1>1, KeepsAgree
<1> QED
  BY <1>2 DEF Retain, Keeps, g

\* Nothing is kept of an empty sequence.
LEMMA RetainNothing == ASSUME NEW D PROVE Retain(<<>>, D) = <<>>
<1>1. PICK f : Keeps(f, <<>>, D, 0)
  BY KeepsExists
<1>2. Len(<<>>) = 0 /\ f[0] = <<>>
  BY <1>1 DEF Keeps
<1> QED
  BY <1>1, <1>2, RetainIs

\* Retain looks at one element at a time.
LEMMA RetainOneMore ==
    ASSUME NEW S, NEW q \in Seq(S), NEW u \in S, NEW D
    PROVE  Retain(Append(q, u), D) = IF u \in D THEN Retain(q, D) ELSE Append(Retain(q, D), u)
<1> DEFINE p == Append(q, u)
           n == Len(q)
<1>1. /\ p \in Seq(S) /\ n \in Nat /\ Len(p) = n + 1 /\ \A k \in 1..n : p[k] = q[k]
      /\ p[n + 1] = u
  OBVIOUS
<1> HIDE DEF p
<1>a. n + 1 \in Nat /\ n \in Nat /\ n <= n + 1 /\ \A k \in 1..n : q[k] = p[k]
  BY <1>1
<1>2. PICK f : Keeps(f, p, D, n + 1)
  BY ONLY <1>a, KeepsExists
<1>3. PICK g : Keeps(g, q, D, n)
  BY <1>1, KeepsExists
<1>4. f[n] = g[n]
  <2>1. \A k \in 0..n : f[k] = g[k]
    <3> DEFINE m == n + 1
    <3>1. m \in Nat /\ n \in Nat /\ n <= m /\ Keeps(f, p, D, m) /\ Keeps(g, q, D, n)
         /\ \A k \in 1..n : q[k] = p[k]
      BY <1>a, <1>2, <1>3
    <3> HIDE DEF m, n
    <3> QED
      BY ONLY <3>1, KeepsAgree
  <2> QED
    BY <1>1, <2>1
<1>5. Retain(p, D) = f[n + 1] /\ Retain(q, D) = g[n]
  <2>1. Retain(p, D) = f[Len(p)]
    BY <1>1, <1>2, RetainIs
  <2> QED
    BY <1>1, <1>3, <2>1, RetainIs
<1>6. f[n + 1] = IF p[n + 1] \in D THEN f[n] ELSE Append(f[n], p[n + 1])
  <2>1. n + 1 \in 0..(n + 1) /\ n + 1 # 0 /\ (n + 1) - 1 = n
    BY <1>1
  <2> QED
    BY <1>2, <2>1 DEF Keeps
<1> QED
  BY <1>1, <1>4, <1>5, <1>6 DEF p

===============================================================================
