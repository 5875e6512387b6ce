------------------------- MODULE AvailabilityProofs -------------------------
(***************************************************************************)
(* Proofs about Intervals and Availability: the interval algebra covers    *)
(* what it promises, a day's offers are exact, what is offered can be      *)
(* booked, and the next slots are the earliest.                            *)
(***************************************************************************)
EXTENDS MCAvailability, FiniteSetTheorems, WellFoundedInduction, TLAPS

-----------------------------------------------------------------------------
\* Finite sets and loops.

\* A finite set that is not empty has a member of least key.
LEMMA LeastKey ==
  ASSUME NEW T, IsFiniteSet(T), T # {}, NEW key, \A x \in T : key[x] \in Int
  PROVE  \E m \in T : \A x \in T : key[m] <= key[x]
<1> DEFINE HasLeast(S) == \E m \in S : \A x \in S : key[m] <= key[x]
           Bad == {n \in Nat : \E S \in SUBSET T :
                     S # {} /\ Cardinality(S) = n /\ ~HasLeast(S)}
<1>1. Bad = {}
  <2> SUFFICES ASSUME Bad # {} PROVE FALSE
    OBVIOUS
  <2> DEFINE R == {ss \in Nat \X Nat : ss[1] < ss[2]}
  <2>1. IsWellFoundedOn(R, Nat)
    BY NatLessThanWellFounded, Zenon DEF OpToRel
  <2>2. PICK n \in Bad : \A m \in Bad : ~(<<m, n>> \in R)
    BY <2>1, WFMin
  <2>3. PICK S \in SUBSET T : S # {} /\ Cardinality(S) = n /\ ~HasLeast(S)
    BY <2>2
  <2>4. PICK e \in S : TRUE
    BY <2>3
  <2> DEFINE U == S \ {e}
  <2>5. IsFiniteSet(S)
    BY FS_Subset
  <2>6. IsFiniteSet(U) /\ Cardinality(U) = n - 1 /\ n \in Nat /\ Cardinality(U) \in Nat
    BY <2>3, <2>5, FS_RemoveElement, FS_CardinalityType
  <2>7. U # {}
    <3>1. U = {} => S = {e}
      BY <2>4
    <3>2. S = {e} => HasLeast(S)
      OBVIOUS
    <3> QED BY <3>1, <3>2, <2>3
  <2>8. n - 1 \notin Bad
    <3>1. <<n - 1, n>> \in R
      BY <2>6
    <3> QED BY <3>1, <2>2
  <2>9. HasLeast(U)
    <3>1. U \in SUBSET T
      OBVIOUS
    <3> QED BY <3>1, <2>6, <2>7, <2>8
  <2>10. PICK m \in U : \A x \in U : key[m] <= key[x]
    BY <2>9
  <2>11. HasLeast(S)
    <3>1. key[e] \in Int /\ \A x \in S : key[x] \in Int
      OBVIOUS
    <3>2. CASE key[m] <= key[e]
      <4>1. \A x \in S : key[m] <= key[x]
        BY <3>2, <2>10
      <4> QED BY <4>1
    <3>3. CASE ~(key[m] <= key[e])
      <4>1. \A x \in S : key[e] <= key[x]
        BY <3>1, <3>3, <2>10, <2>4
      <4> QED BY <4>1
    <3> QED BY <3>2, <3>3
  <2> QED BY <2>3, <2>11
<1>2. Cardinality(T) \in Nat
  BY FS_CardinalityType
<1> QED BY <1>1, <1>2

\* A round leads from the states that may come before it to those that may
\* come after it; the states of a loop of n such rounds.
Leads(round, G, n) == \A k \in 1..n : \A st \in G[k - 1] : round[st] \in G[k]

Runs(f, n, G, round, start) ==
  /\ f[0] = start
  /\ \A k \in 1..n : f[k] = round[f[k - 1]]
  /\ \A k \in 0..n : f[k] \in G[k]

\* A loop of n rounds exists if every round leads from the states that may
\* come before it, G[k - 1], to those that may come after it, G[k].
LEMMA LoopExists ==
  ASSUME NEW n \in Nat, NEW V, NEW G \in [0..n -> SUBSET V], NEW round, NEW start \in G[0],
         Leads(round, G, n)
  PROVE  \E f \in [0..n -> V] : Runs(f, n, G, round, start)
<1> USE DEF Leads
<1> DEFINE RunsTo(f, m) == /\ f = [k \in 0..m |-> IF k = 0 THEN start ELSE round[f[k - 1]]]
                         /\ \A k \in 0..m : f[k] \in G[k]
           Bad == {m \in 0..n : ~\E f : RunsTo(f, m)}
<1>1. Bad = {}
  <2> SUFFICES ASSUME Bad # {} PROVE FALSE
    OBVIOUS
  <2> DEFINE R == {ss \in Nat \X Nat : ss[1] < ss[2]}
  <2>1. IsWellFoundedOn(R, Nat)
    BY NatLessThanWellFounded, Zenon DEF OpToRel
  <2>2. PICK m \in Bad : \A l \in Bad : ~(<<l, m>> \in R)
    <3>1. Bad \subseteq Nat
      OBVIOUS
    <3> QED BY <3>1, <2>1, WFMin
  <2>3. CASE m = 0
    <3> DEFINE f == [k \in 0..0 |-> start]
    <3>1. f = [k \in 0..0 |-> IF k = 0 THEN start ELSE round[f[k - 1]]]
      <4>1. \A k \in 0..0 : k = 0
        OBVIOUS
      <4> QED BY <4>1
    <3>2. \A k \in 0..0 : f[k] \in G[k]
      OBVIOUS
    <3>3. RunsTo(f, 0)
      BY <3>1, <3>2
    <3> HIDE DEF f, RunsTo
    <3> QED BY <3>3, <2>2, <2>3
  <2>4. CASE m # 0
    <3>1. m - 1 \in 0..n /\ m \in 1..n /\ m \in Nat /\ m - 1 \in Nat /\ m - 1 \in 0..m - 1
      BY <2>4
    <3>2. m - 1 \notin Bad
      <4>1. <<m - 1, m>> \in R
        BY <3>1
      <4> QED BY <4>1, <2>2
    <3> HIDE DEF RunsTo
    <3>3. PICK f : RunsTo(f, m - 1)
      BY <3>1, <3>2
    <3> USE DEF RunsTo
    <3> DEFINE g == [k \in 0..m |-> IF k < m THEN f[k] ELSE round[f[m - 1]]]
    <3>4. \A k \in 0..m : k < m => k \in 0..m - 1 /\ g[k] = f[k]
      BY <3>1
    <3>5. g[m] = round[f[m - 1]] /\ g[0] = start /\ f[m - 1] \in G[m - 1]
      BY <3>1, <3>3
    <3>6. \A k \in 0..m : k # 0 => k - 1 \in 0..m /\ k - 1 < m
      BY <3>1
    <3>7. \A k \in 0..m : g[k] = IF k = 0 THEN start ELSE round[g[k - 1]]
      <4> SUFFICES ASSUME NEW k \in 0..m PROVE g[k] = IF k = 0 THEN start ELSE round[g[k - 1]]
        OBVIOUS
      <4> HIDE DEF g
      <4>1. CASE k = 0
        BY <4>1, <3>5
      <4>2. CASE k # 0 /\ k < m
        <5>1. k \in 0..m - 1 /\ g[k] = f[k] /\ g[k - 1] = f[k - 1]
          BY <4>2, <3>4, <3>6
        <5>2. f[k] = round[f[k - 1]]
          BY <4>2, <5>1, <3>3
        <5> QED BY <5>1, <5>2, <4>2
      <4>3. CASE k = m
        <5>1. g[k - 1] = f[m - 1]
          BY <4>3, <3>4, <3>6, <2>4
        <5> QED BY <5>1, <4>3, <3>5, <2>4
      <4> QED BY <4>1, <4>2, <4>3
    <3>8. \A k \in 0..m : g[k] \in G[k]
      <4> SUFFICES ASSUME NEW k \in 0..m PROVE g[k] \in G[k]
        OBVIOUS
      <4> HIDE DEF g
      <4>1. CASE k < m
        BY <4>1, <3>3, <3>4
      <4>2. CASE k = m
        BY <4>2, <3>1, <3>5
      <4> QED BY <4>1, <4>2
    <3>9. g = [k \in 0..m |-> IF k = 0 THEN start ELSE round[g[k - 1]]]
      BY <3>7
    <3>10. RunsTo(g, m)
      BY <3>8, <3>9
    <3> HIDE DEF g, RunsTo
    <3> QED BY <3>10, <2>2
  <2> QED BY <2>3, <2>4
<1>2. PICK f : RunsTo(f, n)
  BY <1>1
<1>3. \A k \in 0..n : f[k] = IF k = 0 THEN start ELSE round[f[k - 1]]
  BY <1>2
<1>4. f[0] = start /\ \A k \in 1..n : f[k] = round[f[k - 1]]
  BY <1>3
<1>5. \A k \in 0..n : f[k] \in G[k] /\ f[k] \in V
  BY <1>2
<1>6. f \in [0..n -> V]
  BY <1>2, <1>5
<1> QED BY <1>4, <1>5, <1>6 DEF Runs

\* And every loop of such rounds stays in them.
LEMMA LoopKeeps ==
  ASSUME NEW n \in Nat, NEW G, NEW f, f[0] \in G[0],
         \A k \in 1..n : f[k - 1] \in G[k - 1] => f[k] \in G[k]
  PROVE  \A k \in 0..n : f[k] \in G[k]
<1> DEFINE Bad == {k \in 0..n : f[k] \notin G[k]}
<1> SUFFICES ASSUME Bad # {} PROVE FALSE
  OBVIOUS
<1> DEFINE R == {ss \in Nat \X Nat : ss[1] < ss[2]}
<1>1. IsWellFoundedOn(R, Nat)
  BY NatLessThanWellFounded, Zenon DEF OpToRel
<1>2. PICK k \in Bad : \A l \in Bad : ~(<<l, k>> \in R)
  <2>1. Bad \subseteq Nat
    OBVIOUS
  <2> QED BY <2>1, <1>1, WFMin
<1>3. k # 0
  BY <1>2
<1>4. k \in 1..n /\ k - 1 \in 0..n /\ <<k - 1, k>> \in R
  BY <1>3
<1>5. k - 1 \notin Bad
  BY <1>2, <1>4
<1> QED BY <1>2, <1>4, <1>5
-----------------------------------------------------------------------------
\* Intervals: points, and normal sets.

\* The sets the algebra works on.
IntervalSets == {s \in SUBSET Interval : IsFiniteSet(s)}

\* The points of an interval, by its ends.
LEMMA PointsOf ==
  ASSUME NEW i \in Interval, NEW p
  PROVE  /\ p \in Points(i) <=> p \in Int /\ i.start <= p /\ p < i.end
         /\ i.start \in Int /\ i.end \in Int
         /\ isNonEmpty(i) <=> i.start < i.end
<1>1. i.start \in Int /\ i.end \in Int
  BY DEF Interval
<1> QED BY <1>1 DEF Points, isNonEmpty

\* The points a set of intervals covers, by their ends.
LEMMA CoveredBy ==
  ASSUME NEW s \in SUBSET Interval, NEW p
  PROVE  p \in Covered(s) <=> p \in Int /\ \E i \in s : i.start <= p /\ p < i.end
<1>1. p \in Covered(s) <=> \E i \in s : p \in Points(i)
  BY DEF Covered
<1>2. \A i \in s : p \in Points(i) <=> p \in Int /\ i.start <= p /\ p < i.end
  BY PointsOf
<1> QED BY <1>1, <1>2

\* A loop over a list that is not empty has an interval to visit.
LEMMA FirstOne ==
  ASSUME NEW s \in IntervalSets, s # {}
  PROVE  First(s) \in s /\ First(s) \in Interval /\ \A j \in s : First(s).start <= j.start
<1> DEFINE key == [i \in s |-> i.start]
<1>1. \A i \in s : key[i] \in Int /\ key[i] = i.start
  BY DEF IntervalSets, Interval
<1>2. IsFiniteSet(s) /\ s \subseteq Interval
  BY DEF IntervalSets
<1> HIDE DEF key
<1>3. \E i \in s : \A j \in s : key[i] <= key[j]
  BY <1>1, <1>2, LeastKey
<1>4. \E i \in s : \A j \in s : i.start <= j.start
  BY <1>1, <1>3
<1> QED BY <1>2, <1>4 DEF First

\* And a list that is not empty has a last interval.
LEMMA LastOne ==
  ASSUME NEW s \in IntervalSets, s # {}
  PROVE  Last(s) \in s /\ Last(s) \in Interval /\ \A j \in s : j.start <= Last(s).start
<1> DEFINE key == [i \in s |-> 0 - i.start]
<1>1. \A i \in s : i.start \in Int /\ key[i] \in Int /\ key[i] = 0 - i.start
  BY DEF IntervalSets, Interval
<1>2. IsFiniteSet(s) /\ s \subseteq Interval
  BY DEF IntervalSets
<1> HIDE DEF key
<1>3. PICK i \in s : \A j \in s : key[i] <= key[j]
  BY <1>1, <1>2, LeastKey
<1>4. \A j \in s : j.start <= i.start
  BY <1>1, <1>3
<1> QED BY <1>2, <1>4 DEF Last

\* Between intervals that neither touch nor overlap there is always a point
\* that none covers: what is covered throughout lies in one of them.
LEMMA InOneInterval ==
  ASSUME NEW s \in SUBSET Interval, Normal(s), NEW f \in Interval, isNonEmpty(f),
         Points(f) \subseteq Covered(s)
  PROVE  \E i \in s : contains(i, f)
<1>1. f.start \in Int /\ f.end \in Int /\ f.start < f.end
  BY PointsOf
<1>2. f.start \in Points(f)
  BY <1>1, PointsOf
<1>3. PICK i \in s : i.start <= f.start /\ f.start < i.end
  BY <1>2, CoveredBy
<1>4. i.start \in Int /\ i.end \in Int
  BY PointsOf
<1>5. f.end <= i.end
  <2> SUFFICES ASSUME ~(f.end <= i.end) PROVE FALSE
    OBVIOUS
  <2>1. i.end \in Points(f)
    BY <1>1, <1>3, <1>4, PointsOf
  <2>2. PICK j \in s : j.start <= i.end /\ i.end < j.end
    BY <2>1, CoveredBy
  <2>3. j.start \in Int /\ j.end \in Int
    BY PointsOf
  <2>4. i = j \/ i.end < j.start \/ j.end < i.start
    BY DEF Normal
  <2>5. i.start < i.end
    BY PointsOf DEF Normal
  <2> QED BY <2>2, <2>3, <2>4, <2>5, <1>4
<1> QED BY <1>3, <1>5 DEF contains

\* fitsIn asks whether every point of an interval is free.
LEMMA FitsIsCovered ==
  ASSUME NEW s \in SUBSET Interval, Normal(s), NEW f \in Interval, isNonEmpty(f)
  PROVE  fitsIn(s, f) <=> Points(f) \subseteq Covered(s)
<1>1. ASSUME NEW i \in s, contains(i, f) PROVE Points(f) \subseteq Covered(s)
  <2> SUFFICES ASSUME NEW p \in Points(f) PROVE p \in Covered(s)
    OBVIOUS
  <2>1. p \in Int /\ f.start <= p /\ p < f.end
    BY PointsOf
  <2>2. i.start \in Int /\ i.end \in Int /\ f.start \in Int /\ f.end \in Int
    BY PointsOf
  <2>3. i.start <= p /\ p < i.end
    BY <1>1, <2>1, <2>2 DEF contains
  <2> QED BY <2>1, <2>3, CoveredBy
<1>2. Points(f) \subseteq Covered(s) => \E i \in s : contains(i, f)
  BY InOneInterval
<1> QED BY <1>1, <1>2 DEF fitsIn

\* NonEmpty of a candidate pushes it or nothing.
LEMMA PushedIf ==
  ASSUME NEW i \in Interval
  PROVE  NonEmpty({i}) = IF i.start < i.end THEN {i} ELSE {}
BY PointsOf DEF NonEmpty
-----------------------------------------------------------------------------
\* merge.

\* Absorbing an interval that starts no earlier than those before it covers its
\* points too and leaves the list normal.
LEMMA AbsorbStep ==
  ASSUME NEW out \in IntervalSets, Normal(out), NEW cur \in Interval, isNonEmpty(cur),
         \A o \in out : o.start <= cur.start
  PROVE  /\ absorb(out, cur) \in IntervalSets
         /\ Normal(absorb(out, cur))
         /\ \A p : p \in Covered(absorb(out, cur)) <=> p \in Covered(out) \/ p \in Points(cur)
         /\ \A o \in absorb(out, cur) : o.start <= cur.start
<1> DEFINE last == Last(out)
           joined == [start |-> last.start, end |-> greater(last.end, cur.end)]
<1>1. out \in SUBSET Interval /\ IsFiniteSet(out)
  BY DEF IntervalSets
<1>2. cur.start \in Int /\ cur.end \in Int /\ cur.start < cur.end
  BY PointsOf
<1>3. \A o \in out : o.start \in Int /\ o.end \in Int /\ o.start < o.end /\ o \in Interval
  BY <1>1, PointsOf DEF Normal
<1>4. CASE out # {} /\ cur.start <= last.end
  <2>1. last \in out /\ \A o \in out : o.start <= last.start
    BY <1>4, LastOne
  <2> HIDE DEF last
  <2>2. /\ joined \in Interval /\ joined.start = last.start
        /\ joined.end \in Int /\ joined.start < joined.end
        /\ last.end <= joined.end /\ cur.end <= joined.end
        /\ joined.end = last.end \/ joined.end = cur.end
    BY <2>1, <1>2, <1>3 DEF greater, Interval
  <2>3. absorb(out, cur) = (out \ {last}) \cup {joined}
    BY <1>4 DEF absorb, last
  <2> HIDE DEF joined
  <2>4. absorb(out, cur) \in IntervalSets
    <3>1. IsFiniteSet(out \ {last})
      BY <1>1, FS_RemoveElement
    <3>2. IsFiniteSet((out \ {last}) \cup {joined})
      BY <3>1, FS_AddElement
    <3> QED BY <3>2, <2>2, <2>3, <1>1 DEF IntervalSets
  <2>5. \A o \in out \ {last} : o.end < last.start
    <3> SUFFICES ASSUME NEW o \in out \ {last} PROVE o.end < last.start
      OBVIOUS
    <3>1. o = last \/ o.end < last.start \/ last.end < o.start
      BY <2>1 DEF Normal
    <3>2. o.start <= last.start
      BY <2>1
    <3> QED BY <3>1, <3>2, <2>1, <1>3
  <2>6. Normal(absorb(out, cur))
    <3>1. \A i \in absorb(out, cur) : isNonEmpty(i)
      BY <2>2, <2>3, <1>3, PointsOf
    <3>2. \A i, j \in out : i = j \/ i.end < j.start \/ j.end < i.start
      BY DEF Normal
    <3> QED BY <2>2, <2>3, <2>5, <3>1, <3>2 DEF Normal
  <2>7. \A p : p \in Points(joined) <=> p \in Points(last) \/ p \in Points(cur)
    <3> SUFFICES ASSUME NEW p
                 PROVE  p \in Points(joined) <=> p \in Points(last) \/ p \in Points(cur)
      OBVIOUS
    <3>1. p \in Points(joined) <=> p \in Int /\ joined.start <= p /\ p < joined.end
      BY <2>2, PointsOf
    <3>2. p \in Points(last) <=> p \in Int /\ last.start <= p /\ p < last.end
      BY <2>1, <1>3, PointsOf
    <3>3. p \in Points(cur) <=> p \in Int /\ cur.start <= p /\ p < cur.end
      BY PointsOf
    <3>4. last.start <= cur.start
      BY <2>1
    <3> QED BY <3>1, <3>2, <3>3, <3>4, <2>1, <2>2, <1>2, <1>3, <1>4
  <2>8. \A p : p \in Covered(absorb(out, cur)) <=>
                 p \in Points(joined) \/ \E o \in out \ {last} : p \in Points(o)
    BY <2>3 DEF Covered
  <2>9. \A p : p \in Covered(out) <=>
                 p \in Points(last) \/ \E o \in out \ {last} : p \in Points(o)
    BY <2>1 DEF Covered
  <2>10. \A o \in absorb(out, cur) : o.start <= cur.start
    BY <2>1, <2>2, <2>3
  <2> QED BY <2>4, <2>6, <2>7, <2>8, <2>9, <2>10
<1>5. CASE ~(out # {} /\ cur.start <= last.end)
  <2>1. absorb(out, cur) = out \cup {cur}
    BY <1>5 DEF absorb
  <2>2. absorb(out, cur) \in IntervalSets
    BY <2>1, <1>1, FS_AddElement DEF IntervalSets
  <2>3. \A o \in out : o.end < cur.start
    <3> SUFFICES ASSUME NEW o \in out PROVE o.end < cur.start
      OBVIOUS
    <3>1. last \in out /\ \A i \in out : i.start <= last.start
      BY LastOne
    <3> HIDE DEF last
    <3>2. last.end < cur.start
      BY <1>5, <3>1, <1>2, <1>3
    <3>3. o = last \/ o.end < last.start \/ last.end < o.start
      BY <3>1 DEF Normal
    <3> QED BY <3>1, <3>2, <3>3, <1>2, <1>3
  <2>4. Normal(absorb(out, cur))
    <3>1. \A i, j \in out : i = j \/ i.end < j.start \/ j.end < i.start
      BY DEF Normal
    <3> QED BY <2>1, <2>3, <3>1 DEF Normal
  <2>5. \A p : p \in Covered(absorb(out, cur)) <=> p \in Covered(out) \/ p \in Points(cur)
    BY <2>1 DEF Covered
  <2>6. \A o \in absorb(out, cur) : o.start <= cur.start
    BY <2>1, <1>2
  <2> QED BY <2>2, <2>4, <2>5, <2>6
<1> QED BY <1>4, <1>5

\* What holds after k rounds of merge's loop over s: what has been visited is
\* covered, and nothing covered starts after what is left.
MergeStates(s, k) ==
  {st \in [rest: SUBSET s, out: IntervalSets] :
     /\ Cardinality(st.rest) <= Cardinality(s) - k
     /\ \A p : p \in Covered(st.out) <=> p \in Covered(s \ st.rest)
     /\ Normal(st.out)
     /\ \A o \in st.out, r \in st.rest : o.start <= r.start}

\* One round of merge's loop.
LEMMA MergeRoundKeeps ==
  ASSUME NEW s \in IntervalSets, \A i \in s : isNonEmpty(i), NEW k \in 1..Cardinality(s),
         NEW st \in MergeStates(s, k - 1)
  PROVE  mergeRound(st) \in MergeStates(s, k)
<1>1. IsFiniteSet(s) /\ s \in SUBSET Interval /\ Cardinality(s) \in Nat /\ k \in Nat
  BY FS_CardinalityType DEF IntervalSets
<1>2. /\ st \in [rest: SUBSET s, out: IntervalSets]
      /\ Cardinality(st.rest) <= Cardinality(s) - (k - 1)
      /\ \A p : p \in Covered(st.out) <=> p \in Covered(s \ st.rest)
      /\ Normal(st.out)
      /\ \A o \in st.out, r \in st.rest : o.start <= r.start
  BY DEF MergeStates
<1>3. IsFiniteSet(st.rest) /\ Cardinality(st.rest) \in Nat /\ st.rest \in IntervalSets
  BY <1>1, <1>2, FS_Subset, FS_CardinalityType DEF IntervalSets
<1>4. CASE st.rest = {}
  <2>1. mergeRound(st) = st
    BY <1>4 DEF mergeRound
  <2>2. Cardinality(st.rest) = 0
    BY <1>4, FS_EmptySet
  <2> QED BY <2>1, <2>2, <1>1, <1>2 DEF MergeStates
<1>5. CASE st.rest # {}
  <2> DEFINE cur == First(st.rest)
             new == [rest |-> st.rest \ {cur}, out |-> absorb(st.out, cur)]
  <2>1. cur \in st.rest /\ cur \in Interval /\ \A r \in st.rest : cur.start <= r.start
    BY <1>3, <1>5, FirstOne
  <2>2. mergeRound(st) = new
    BY <1>5 DEF mergeRound
  <2> HIDE DEF cur
  <2>3. isNonEmpty(cur) /\ st.out \in IntervalSets
    BY <2>1, <1>2
  <2>4. /\ absorb(st.out, cur) \in IntervalSets
        /\ Normal(absorb(st.out, cur))
        /\ \A p : p \in Covered(absorb(st.out, cur)) <=> p \in Covered(st.out) \/ p \in Points(cur)
        /\ \A o \in absorb(st.out, cur) : o.start <= cur.start
    BY <2>1, <2>3, <1>2, AbsorbStep
  <2>5. Cardinality(new.rest) <= Cardinality(s) - k
    <3>1. Cardinality(new.rest) = Cardinality(st.rest) - 1
      BY <2>1, <1>3, FS_RemoveElement
    <3> QED BY <3>1, <1>1, <1>2, <1>3
  <2>6. \A p : p \in Covered(new.out) <=> p \in Covered(s \ new.rest)
    <3>1. s \ new.rest = (s \ st.rest) \cup {cur}
      BY <2>1, <1>2
    <3>2. \A p : p \in Covered(s \ new.rest) <=> p \in Covered(s \ st.rest) \/ p \in Points(cur)
      BY <3>1 DEF Covered
    <3> QED BY <3>2, <2>4, <1>2
  <2>7. \A o \in new.out, r \in new.rest : o.start <= r.start
    <3> SUFFICES ASSUME NEW o \in new.out, NEW r \in new.rest PROVE o.start <= r.start
      OBVIOUS
    <3>1. o.start <= cur.start /\ cur.start <= r.start
      BY <2>1, <2>4
    <3>2. o \in Interval /\ r \in Interval
      BY <2>4, <1>1, <1>2 DEF IntervalSets
    <3> QED BY <3>1, <3>2, <2>1 DEF Interval
  <2>8. new \in [rest: SUBSET s, out: IntervalSets]
    BY <2>4, <1>2
  <2>9. Normal(new.out)
    BY <2>4
  <2> HIDE DEF new
  <2> QED BY <2>2, <2>5, <2>6, <2>7, <2>8, <2>9 DEF MergeStates
<1> QED BY <1>4, <1>5

\* The loop, as the recursion defines it.
LEMMA MergeLoopKeeps ==
  ASSUME NEW s \in IntervalSets, \A i \in s : isNonEmpty(i)
  PROVE  mergeLoop(s)[Cardinality(s)] \in MergeStates(s, Cardinality(s))
<1> DEFINE n == Cardinality(s)
           start == [rest |-> s, out |-> {}]
           G == [k \in 0..n |-> MergeStates(s, k)]
           U == UNION {MergeStates(s, k) : k \in 0..n}
           round == [st \in U |-> mergeRound(st)]
           F(f) == [k \in 0..n |-> IF k = 0 THEN start ELSE mergeRound(f[k - 1])]
<1>1. n \in Nat
  BY FS_CardinalityType DEF IntervalSets
<1>2. start \in MergeStates(s, 0)
  <2>1. {} \in IntervalSets
    BY FS_EmptySet DEF IntervalSets
  <2>2. \A p : p \in Covered(start.out) <=> p \in Covered(s \ start.rest)
    BY DEF Covered
  <2>3. Normal(start.out)
    BY DEF Normal
  <2> QED BY <2>1, <2>2, <2>3, <1>1 DEF MergeStates
<1>3. \A k \in 1..n : \A st \in G[k - 1] : st \in U /\ mergeRound(st) \in G[k]
  <2> SUFFICES ASSUME NEW k \in 1..n, NEW st \in G[k - 1]
               PROVE  st \in U /\ mergeRound(st) \in G[k]
    OBVIOUS
  <2>1. k - 1 \in 0..n /\ k \in 0..n
    BY <1>1
  <2> QED BY <2>1, MergeRoundKeeps
<1>4. G[0] = MergeStates(s, 0) /\ G[n] = MergeStates(s, n)
  BY <1>1
<1>14. G \in [0..n -> SUBSET U]
  OBVIOUS
<1> HIDE DEF G, U, start
<1>5. \A k \in 1..n : \A st \in G[k - 1] : round[st] = mergeRound(st) /\ round[st] \in G[k]
  BY <1>3
<1> HIDE DEF round, n
<1>6. PICK f \in [0..n -> U] : Runs(f, n, G, round, start)
  <2>1. start \in G[0] /\ Leads(round, G, n)
    BY <1>2, <1>4, <1>5 DEF Leads
  <2> QED BY <1>1, <1>14, <2>1, LoopExists
<1>7. f = F(f)
  <2>1. \A k \in 0..n : k # 0 => k \in 1..n /\ k - 1 \in 0..n
    BY <1>1
  <2>2. \A k \in 0..n : k # 0 => f[k] = mergeRound(f[k - 1])
    BY <2>1, <1>5, <1>6 DEF Runs
  <2>3. \A k \in 0..n : f[k] = IF k = 0 THEN start ELSE mergeRound(f[k - 1])
    BY <2>2, <1>6 DEF Runs
  <2> QED BY <2>3, <1>6
<1>8. mergeLoop(s) = CHOOSE g : g = F(g)
  BY DEF mergeLoop, start, n
<1> HIDE DEF F
<1>9. mergeLoop(s) = F(mergeLoop(s))
  BY <1>7, <1>8
<1>10. \A k \in 0..n : mergeLoop(s)[k] =
                         IF k = 0 THEN start ELSE mergeRound(mergeLoop(s)[k - 1])
  BY <1>9 DEF F
<1>11. mergeLoop(s)[0] \in G[0]
  BY <1>1, <1>2, <1>4, <1>10
<1>12. \A k \in 1..n : mergeLoop(s)[k - 1] \in G[k - 1] => mergeLoop(s)[k] \in G[k]
  <2>1. \A k \in 1..n : k \in 0..n /\ k # 0
    BY <1>1
  <2> QED BY <2>1, <1>3, <1>10
<1>13. \A k \in 0..n : mergeLoop(s)[k] \in G[k]
  BY <1>1, <1>11, <1>12, LoopKeeps
<1> QED BY <1>1, <1>4, <1>13 DEF n

\* merge covers exactly the points of its intervals and returns a normal list.
LEMMA MergeIsExact ==
  ASSUME NEW s \in IntervalSets
  PROVE  /\ merge(s) \in IntervalSets
         /\ Normal(merge(s))
         /\ Covered(merge(s)) = Covered(s)
<1> DEFINE sorted == NonEmpty(s)
           st == mergeLoop(sorted)[Cardinality(sorted)]
<1>1. sorted \in IntervalSets /\ \A i \in sorted : isNonEmpty(i)
  BY FS_Subset DEF IntervalSets, NonEmpty
<1>2. \A p : p \in Covered(sorted) <=> p \in Covered(s)
  <2>1. \A i \in s : \A p : p \in Points(i) => isNonEmpty(i)
    <3> SUFFICES ASSUME NEW i \in s, NEW p \in Points(i) PROVE isNonEmpty(i)
      OBVIOUS
    <3>1. i \in Interval
      BY DEF IntervalSets
    <3>2. p \in Int /\ i.start <= p /\ p < i.end /\ i.start \in Int /\ i.end \in Int
      BY <3>1, PointsOf
    <3> QED BY <3>1, <3>2, PointsOf
  <2> QED BY <2>1 DEF Covered, NonEmpty
<1> HIDE DEF sorted
<1>3. st \in MergeStates(sorted, Cardinality(sorted))
  BY <1>1, MergeLoopKeeps
<1>4. merge(s) = st.out
  BY DEF merge, sorted
<1> HIDE DEF st
<1>5. /\ st.rest \subseteq sorted /\ st.out \in IntervalSets
      /\ Cardinality(st.rest) <= Cardinality(sorted) - Cardinality(sorted)
      /\ \A p : p \in Covered(st.out) <=> p \in Covered(sorted \ st.rest)
      /\ Normal(st.out)
  BY <1>3 DEF MergeStates
<1>6. st.rest = {}
  <2>1. IsFiniteSet(sorted) /\ IsFiniteSet(st.rest)
    BY <1>1, <1>5, FS_Subset DEF IntervalSets
  <2>2. Cardinality(sorted) \in Nat /\ Cardinality(st.rest) \in Nat
    BY <2>1, FS_CardinalityType
  <2>3. Cardinality(st.rest) = 0
    BY <2>2, <1>5
  <2> QED BY <2>1, <2>3, FS_EmptySet
<1>7. sorted \ st.rest = sorted
  BY <1>6
<1> QED BY <1>2, <1>4, <1>5, <1>7
-----------------------------------------------------------------------------
\* intersect.

\* What two intervals have in common.
LEMMA CommonPoints ==
  ASSUME NEW x \in Interval, NEW y \in Interval
  PROVE  /\ common(x, y) \in Interval
         /\ \A p : p \in Points(common(x, y)) <=> p \in Points(x) /\ p \in Points(y)
         /\ isNonEmpty(common(x, y)) <=>
              x.start < x.end /\ y.start < y.end /\ x.start < y.end /\ y.start < x.end
         /\ x.start <= common(x, y).start /\ common(x, y).end <= x.end
         /\ y.start <= common(x, y).start /\ common(x, y).end <= y.end
<1> DEFINE c == common(x, y)
<1>1. x.start \in Int /\ x.end \in Int /\ y.start \in Int /\ y.end \in Int
  BY PointsOf
<1>2. /\ c.start = (IF x.start > y.start THEN x.start ELSE y.start)
      /\ c.end = (IF x.end < y.end THEN x.end ELSE y.end)
      /\ c = [start |-> c.start, end |-> c.end]
  BY DEF common, greater, lesser
<1> HIDE DEF c
<1>3. c \in Interval
  <2>1. c.start \in Int /\ c.end \in Int
    BY <1>1, <1>2
  <2> QED BY <2>1, <1>2 DEF Interval
<1>4. ASSUME NEW p PROVE p \in Points(c) <=> p \in Points(x) /\ p \in Points(y)
  <2>1. p \in Points(c) <=> p \in Int /\ c.start <= p /\ p < c.end
    BY <1>3, PointsOf
  <2>2. p \in Points(x) <=> p \in Int /\ x.start <= p /\ p < x.end
    BY PointsOf
  <2>3. p \in Points(y) <=> p \in Int /\ y.start <= p /\ p < y.end
    BY PointsOf
  <2> QED BY <2>1, <2>2, <2>3, <1>1, <1>2
<1>5. isNonEmpty(c) <=> c.start < c.end
  BY <1>3, PointsOf
<1>6. c.start < c.end <=>
        x.start < x.end /\ y.start < y.end /\ x.start < y.end /\ y.start < x.end
  BY <1>1, <1>2
<1>7. x.start <= c.start /\ c.end <= x.end /\ y.start <= c.start /\ c.end <= y.end
  BY <1>1, <1>2
<1> QED BY <1>3, <1>4, <1>5, <1>6, <1>7 DEF c

\* What the intervals of A and B that are not both left have in common.
Met(A, B, a, b) ==
  {i \in Interval :
     isNonEmpty(i) /\ \E x \in A, y \in B : (x \notin a \/ y \notin b) /\ i = common(x, y)}

\* The members of Met, without the bound that makes it a set.
LEMMA MetMembers ==
  ASSUME NEW A \in SUBSET Interval, NEW B \in SUBSET Interval, NEW a, NEW b, NEW i
  PROVE  i \in Met(A, B, a, b) <=>
           isNonEmpty(i) /\ \E x \in A, y \in B : (x \notin a \/ y \notin b) /\ i = common(x, y)
<1>1. \A x \in A, y \in B : common(x, y) \in Interval
  BY CommonPoints
<1> QED BY <1>1 DEF Met

\* Two intervals that are not both left have met.
LEMMA MetOne ==
  ASSUME NEW A \in SUBSET Interval, NEW B \in SUBSET Interval, NEW a, NEW b,
         NEW x \in A, NEW y \in B, x \notin a \/ y \notin b, isNonEmpty(common(x, y))
  PROVE  common(x, y) \in Met(A, B, a, b)
BY MetMembers

\* What holds after k rounds of intersect's loop over A and B: all that could
\* meet one of the intervals done with has been pushed.
MeetStates(A, B, k) ==
  {st \in [a: SUBSET A, b: SUBSET B, out: SUBSET Interval] :
     /\ \/ st.a = {} \/ st.b = {}
        \/ Cardinality(st.a) + Cardinality(st.b) <= Cardinality(A) + Cardinality(B) - k
     /\ IsFiniteSet(st.out)
     /\ st.out = Met(A, B, st.a, st.b)}

\* What is left of A, and the interval a loop visits next.
Foremost(x, a, A) == a \subseteq A /\ x \in a /\ \A j \in a : x.start <= j.start

\* To be done with x or y, one more of A's or B's, is to push what they have in
\* common.
Pushes(A, B, a, b, new, x, y) ==
  \A i : i \in new <=> i \in Met(A, B, a, b) \/ i \in NonEmpty({common(x, y)})

\* The interval that ends first meets nothing that is left but the one it is
\* compared with.
LEMMA DoneWith ==
  ASSUME NEW A \in IntervalSets, Normal(A), NEW B \in IntervalSets, Normal(B),
         NEW a, NEW b, NEW x, NEW y, Foremost(x, a, A), Foremost(y, b, B)
  PROVE  /\ x.end < y.end => Pushes(A, B, a, b, Met(A, B, a \ {x}, b), x, y)
         /\ ~(x.end < y.end) => Pushes(A, B, a, b, Met(A, B, a, b \ {y}), x, y)
<1> USE DEF Foremost
<1>1. A \in SUBSET Interval /\ B \in SUBSET Interval
  BY DEF IntervalSets
<1>2. \A i \in A \cup B : i.start \in Int /\ i.end \in Int /\ i.start < i.end /\ i \in Interval
  BY <1>1, PointsOf DEF Normal
<1>3. \A j \in a : j = x \/ x.end < j.start
  <2> SUFFICES ASSUME NEW j \in a, j # x PROVE x.end < j.start
    OBVIOUS
  <2>1. x = j \/ x.end < j.start \/ j.end < x.start
    BY DEF Normal
  <2>2. x.start <= j.start
    OBVIOUS
  <2> QED BY <2>1, <2>2, <1>2
<1>4. \A j \in b : j = y \/ y.end < j.start
  <2> SUFFICES ASSUME NEW j \in b, j # y PROVE y.end < j.start
    OBVIOUS
  <2>1. y = j \/ y.end < j.start \/ j.end < y.start
    BY DEF Normal
  <2>2. y.start <= j.start
    OBVIOUS
  <2> QED BY <2>1, <2>2, <1>2
<1>5. ASSUME x.end < y.end, NEW j \in b, j # y PROVE ~isNonEmpty(common(x, j))
  <2>1. y.end < j.start
    BY <1>4, <1>5
  <2>2. ~(j.start < x.end)
    BY <2>1, <1>2, <1>5
  <2> QED BY <2>2, <1>2, CommonPoints
<1>6. ASSUME ~(x.end < y.end), NEW j \in a, j # x PROVE ~isNonEmpty(common(j, y))
  <2>1. x.end < j.start
    BY <1>3, <1>6
  <2>2. ~(j.start < y.end)
    BY <2>1, <1>2, <1>6
  <2> QED BY <2>2, <1>2, CommonPoints
<1>7. \A i : i \in NonEmpty({common(x, y)}) <=> i = common(x, y) /\ isNonEmpty(i)
  BY DEF NonEmpty
<1>8. \A c, d, i : i \in Met(A, B, c, d) <=>
        isNonEmpty(i) /\ \E u \in A, v \in B : (u \notin c \/ v \notin d) /\ i = common(u, v)
  BY <1>1, MetMembers
<1>9. ASSUME x.end < y.end
      PROVE  Pushes(A, B, a, b, Met(A, B, a \ {x}, b), x, y)
  <2>1. ASSUME NEW i, i \in Met(A, B, a \ {x}, b)
        PROVE  i \in Met(A, B, a, b) \/ i \in NonEmpty({common(x, y)})
    <3>1. isNonEmpty(i)
      BY <2>1, <1>8
    <3>2. PICK u \in A, v \in B : (u \notin a \ {x} \/ v \notin b) /\ i = common(u, v)
      BY <2>1, <1>8
    <3>3. CASE u \notin a \/ v \notin b
      BY <3>1, <3>2, <3>3, <1>8
    <3>4. CASE u = x /\ v \in b
      <4>1. v = y
        BY <3>1, <3>2, <3>4, <1>5, <1>9
      <4> QED BY <4>1, <3>1, <3>2, <3>4, <1>7
    <3> QED BY <3>2, <3>3, <3>4
  <2>2. ASSUME NEW i, i \in Met(A, B, a, b) PROVE i \in Met(A, B, a \ {x}, b)
    <3>1. isNonEmpty(i)
      BY <2>2, <1>8
    <3>2. PICK u \in A, v \in B : (u \notin a \/ v \notin b) /\ i = common(u, v)
      BY <2>2, <1>8
    <3>3. u \notin a \ {x} \/ v \notin b
      BY <3>2
    <3> QED BY <3>1, <3>2, <3>3, <1>1, MetOne
  <2>3. ASSUME NEW i, i \in NonEmpty({common(x, y)}) PROVE i \in Met(A, B, a \ {x}, b)
    <3>1. i = common(x, y) /\ isNonEmpty(common(x, y))
      BY <2>3, <1>7
    <3>2. x \in A /\ y \in B /\ (x \notin a \ {x} \/ y \notin b)
      OBVIOUS
    <3> QED BY <3>1, <3>2, <1>1, MetOne
  <2> QED BY <2>1, <2>2, <2>3 DEF Pushes
<1>10. ASSUME ~(x.end < y.end)
       PROVE  Pushes(A, B, a, b, Met(A, B, a, b \ {y}), x, y)
  <2>1. ASSUME NEW i, i \in Met(A, B, a, b \ {y})
        PROVE  i \in Met(A, B, a, b) \/ i \in NonEmpty({common(x, y)})
    <3>1. isNonEmpty(i)
      BY <2>1, <1>8
    <3>2. PICK u \in A, v \in B : (u \notin a \/ v \notin b \ {y}) /\ i = common(u, v)
      BY <2>1, <1>8
    <3>3. CASE u \notin a \/ v \notin b
      BY <3>1, <3>2, <3>3, <1>8
    <3>4. CASE u \in a /\ v = y
      <4>1. u = x
        BY <3>1, <3>2, <3>4, <1>6, <1>10
      <4> QED BY <4>1, <3>1, <3>2, <3>4, <1>7
    <3> QED BY <3>2, <3>3, <3>4
  <2>2. ASSUME NEW i, i \in Met(A, B, a, b) PROVE i \in Met(A, B, a, b \ {y})
    <3>1. isNonEmpty(i)
      BY <2>2, <1>8
    <3>2. PICK u \in A, v \in B : (u \notin a \/ v \notin b) /\ i = common(u, v)
      BY <2>2, <1>8
    <3>3. u \notin a \/ v \notin b \ {y}
      BY <3>2
    <3> QED BY <3>1, <3>2, <3>3, <1>1, MetOne
  <2>3. ASSUME NEW i, i \in NonEmpty({common(x, y)}) PROVE i \in Met(A, B, a, b \ {y})
    <3>1. i = common(x, y) /\ isNonEmpty(common(x, y))
      BY <2>3, <1>7
    <3>2. x \in A /\ y \in B /\ (x \notin a \/ y \notin b \ {y})
      OBVIOUS
    <3> QED BY <3>1, <3>2, <1>1, MetOne
  <2> QED BY <2>1, <2>2, <2>3 DEF Pushes
<1> QED BY <1>9, <1>10

\* One round of intersect's loop.
LEMMA MeetRoundKeeps ==
  ASSUME NEW A \in IntervalSets, Normal(A), NEW B \in IntervalSets, Normal(B),
         NEW k \in 1..Cardinality(A) + Cardinality(B), NEW st \in MeetStates(A, B, k - 1)
  PROVE  meetRound(st) \in MeetStates(A, B, k)
<1>1. /\ IsFiniteSet(A) /\ IsFiniteSet(B) /\ A \in SUBSET Interval /\ B \in SUBSET Interval
      /\ Cardinality(A) \in Nat /\ Cardinality(B) \in Nat
  BY FS_CardinalityType DEF IntervalSets
<1>2. k \in Nat
  BY <1>1
<1>3. /\ st \in [a: SUBSET A, b: SUBSET B, out: SUBSET Interval]
      /\ \/ st.a = {} \/ st.b = {}
         \/ Cardinality(st.a) + Cardinality(st.b) <= Cardinality(A) + Cardinality(B) - (k - 1)
      /\ IsFiniteSet(st.out)
      /\ st.out = Met(A, B, st.a, st.b)
  BY DEF MeetStates
<1>4. /\ IsFiniteSet(st.a) /\ IsFiniteSet(st.b) /\ st.a \in IntervalSets /\ st.b \in IntervalSets
      /\ Cardinality(st.a) \in Nat /\ Cardinality(st.b) \in Nat
  <2>1. IsFiniteSet(st.a) /\ IsFiniteSet(st.b)
    BY <1>1, <1>3, FS_Subset
  <2> QED BY <2>1, <1>1, <1>3, FS_CardinalityType DEF IntervalSets
<1>5. CASE st.a = {} \/ st.b = {}
  <2>1. meetRound(st) = st
    BY <1>5 DEF meetRound
  <2> QED BY <2>1, <1>3, <1>5 DEF MeetStates
<1>6. CASE st.a # {} /\ st.b # {}
  <2> DEFINE x == First(st.a)
             y == First(st.b)
             new == meetRound(st)
  <2>1. x \in st.a /\ \A j \in st.a : x.start <= j.start
    BY <1>4, <1>6, FirstOne
  <2>2. y \in st.b /\ \A j \in st.b : y.start <= j.start
    BY <1>4, <1>6, FirstOne
  <2>3. new = [a   |-> IF x.end < y.end THEN st.a \ {x} ELSE st.a,
               b   |-> IF x.end < y.end THEN st.b ELSE st.b \ {y},
               out |-> st.out \cup NonEmpty({common(x, y)})]
    BY <1>6 DEF meetRound
  <2> HIDE DEF x, y, new
  <2>4. /\ new.a = (IF x.end < y.end THEN st.a \ {x} ELSE st.a)
        /\ new.b = (IF x.end < y.end THEN st.b ELSE st.b \ {y})
        /\ new.out = st.out \cup NonEmpty({common(x, y)})
        /\ new = [a |-> new.a, b |-> new.b, out |-> new.out]
    BY <2>3
  <2>5. x \in Interval /\ y \in Interval
    BY <2>1, <2>2, <1>1, <1>3
  <2>6. new.out \subseteq Interval /\ IsFiniteSet(new.out)
    <3>1. NonEmpty({common(x, y)}) \in SUBSET {common(x, y)}
      BY DEF NonEmpty
    <3>2. IsFiniteSet(NonEmpty({common(x, y)}))
      BY <3>1, FS_Singleton, FS_Subset
    <3>3. common(x, y) \in Interval
      BY <2>5, CommonPoints
    <3>4. IsFiniteSet(st.out \cup NonEmpty({common(x, y)}))
      BY <3>2, <1>3, FS_Union
    <3>5. NonEmpty({common(x, y)}) \subseteq Interval /\ st.out \subseteq Interval
      BY <3>1, <3>3, <1>3
    <3> QED BY <3>4, <3>5, <2>4
  <2>7. new.out = Met(A, B, new.a, new.b)
    <3>1. st.a \in SUBSET A /\ st.b \in SUBSET B
      BY <1>3
    <3>2. /\ x.end < y.end =>
               Pushes(A, B, st.a, st.b, Met(A, B, st.a \ {x}, st.b), x, y)
          /\ ~(x.end < y.end) =>
               Pushes(A, B, st.a, st.b, Met(A, B, st.a, st.b \ {y}), x, y)
      <4>1. Foremost(x, st.a, A) /\ Foremost(y, st.b, B)
        BY <2>1, <2>2, <3>1 DEF Foremost
      <4> QED BY <4>1, DoneWith
    <3>3. CASE x.end < y.end
      BY <3>2, <3>3, <2>4, <1>3 DEF Pushes
    <3>4. CASE ~(x.end < y.end)
      BY <3>2, <3>4, <2>4, <1>3 DEF Pushes
    <3> QED BY <3>3, <3>4
  <2>8. Cardinality(new.a) + Cardinality(new.b) <= Cardinality(A) + Cardinality(B) - k
    <3>1. Cardinality(st.a) + Cardinality(st.b) <= Cardinality(A) + Cardinality(B) - (k - 1)
      BY <1>3, <1>6
    <3>2. Cardinality(st.a \ {x}) = Cardinality(st.a) - 1
      BY <2>1, <1>4, FS_RemoveElement
    <3>3. Cardinality(st.b \ {y}) = Cardinality(st.b) - 1
      BY <2>2, <1>4, FS_RemoveElement
    <3>4. CASE x.end < y.end
      <4>1. Cardinality(new.a) = Cardinality(st.a) - 1 /\ Cardinality(new.b) = Cardinality(st.b)
        BY <3>2, <3>4, <2>4
      <4> QED BY <4>1, <3>1, <1>1, <1>2, <1>4
    <3>5. CASE ~(x.end < y.end)
      <4>1. Cardinality(new.a) = Cardinality(st.a) /\ Cardinality(new.b) = Cardinality(st.b) - 1
        BY <3>3, <3>5, <2>4
      <4> QED BY <4>1, <3>1, <1>1, <1>2, <1>4
    <3> QED BY <3>4, <3>5
  <2>9. new \in [a: SUBSET A, b: SUBSET B, out: SUBSET Interval]
    <3>1. new.a \subseteq A /\ new.b \subseteq B
      BY <2>4, <1>3
    <3> QED BY <3>1, <2>4, <2>6
  <2>10. new \in MeetStates(A, B, k)
    BY <2>6, <2>7, <2>8, <2>9 DEF MeetStates
  <2> QED BY <2>10 DEF new
<1> QED BY <1>5, <1>6

\* The loop, as the recursion defines it.
LEMMA MeetLoopKeeps ==
  ASSUME NEW A \in IntervalSets, Normal(A), NEW B \in IntervalSets, Normal(B)
  PROVE  meetLoop(A, B)[Cardinality(A) + Cardinality(B)]
           \in MeetStates(A, B, Cardinality(A) + Cardinality(B))
<1> DEFINE n == Cardinality(A) + Cardinality(B)
           start == [a |-> A, b |-> B, out |-> {}]
           G == [k \in 0..n |-> MeetStates(A, B, k)]
           U == UNION {MeetStates(A, B, k) : k \in 0..n}
           round == [st \in U |-> meetRound(st)]
           F(f) == [k \in 0..n |-> IF k = 0 THEN start ELSE meetRound(f[k - 1])]
<1>1. n \in Nat /\ Cardinality(A) \in Nat /\ Cardinality(B) \in Nat
  BY FS_CardinalityType DEF IntervalSets
<1>2. start \in MeetStates(A, B, 0)
  <2>1. IsFiniteSet(start.out)
    BY FS_EmptySet
  <2>2. start.out = Met(A, B, start.a, start.b)
    BY DEF Met
  <2>3. start \in [a: SUBSET A, b: SUBSET B, out: SUBSET Interval]
    OBVIOUS
  <2>4. Cardinality(start.a) + Cardinality(start.b) <= Cardinality(A) + Cardinality(B) - 0
    BY <1>1
  <2> HIDE DEF start
  <2> QED BY <2>1, <2>2, <2>3, <2>4 DEF MeetStates
<1>3. \A k \in 1..n : \A st \in G[k - 1] : st \in U /\ meetRound(st) \in G[k]
  <2> SUFFICES ASSUME NEW k \in 1..n, NEW st \in G[k - 1]
               PROVE  st \in U /\ meetRound(st) \in G[k]
    OBVIOUS
  <2>1. k - 1 \in 0..n /\ k \in 0..n
    BY <1>1
  <2> QED BY <2>1, MeetRoundKeeps
<1>4. G[0] = MeetStates(A, B, 0) /\ G[n] = MeetStates(A, B, n)
  BY <1>1
<1>5. G \in [0..n -> SUBSET U]
  OBVIOUS
<1> HIDE DEF G, U, start
<1>6. \A k \in 1..n : \A st \in G[k - 1] : round[st] = meetRound(st) /\ round[st] \in G[k]
  BY <1>3
<1> HIDE DEF round, n
<1>7. PICK f \in [0..n -> U] : Runs(f, n, G, round, start)
  <2>1. start \in G[0] /\ Leads(round, G, n)
    BY <1>2, <1>4, <1>6 DEF Leads
  <2> QED BY <1>1, <1>5, <2>1, LoopExists
<1>8. f = F(f)
  <2>1. \A k \in 0..n : k # 0 => k \in 1..n /\ k - 1 \in 0..n
    BY <1>1
  <2>2. \A k \in 0..n : k # 0 => f[k] = meetRound(f[k - 1])
    BY <2>1, <1>6, <1>7 DEF Runs
  <2>3. \A k \in 0..n : f[k] = IF k = 0 THEN start ELSE meetRound(f[k - 1])
    BY <2>2, <1>7 DEF Runs
  <2> QED BY <2>3, <1>7
<1>9. meetLoop(A, B) = CHOOSE g : g = F(g)
  BY DEF meetLoop, start, n
<1> HIDE DEF F
<1>10. meetLoop(A, B) = F(meetLoop(A, B))
  BY <1>8, <1>9
<1>11. \A k \in 0..n : meetLoop(A, B)[k] =
                         IF k = 0 THEN start ELSE meetRound(meetLoop(A, B)[k - 1])
  BY <1>10 DEF F
<1>12. meetLoop(A, B)[0] \in G[0]
  BY <1>1, <1>2, <1>4, <1>11
<1>13. \A k \in 1..n : meetLoop(A, B)[k - 1] \in G[k - 1] => meetLoop(A, B)[k] \in G[k]
  <2>1. \A k \in 1..n : k \in 0..n /\ k # 0
    BY <1>1
  <2> QED BY <2>1, <1>3, <1>11
<1>14. \A k \in 0..n : meetLoop(A, B)[k] \in G[k]
  BY <1>1, <1>12, <1>13, LoopKeeps
<1> QED BY <1>1, <1>4, <1>14 DEF n

\* intersect covers exactly the points common to both and returns a normal
\* list.
LEMMA IntersectIsExact ==
  ASSUME NEW a \in IntervalSets, NEW b \in IntervalSets
  PROVE  /\ intersect(a, b) \in IntervalSets
         /\ Normal(intersect(a, b))
         /\ Covered(intersect(a, b)) = Covered(a) \cap Covered(b)
<1> DEFINE A == merge(a)
           B == merge(b)
           st == meetLoop(A, B)[Cardinality(A) + Cardinality(B)]
<1>1. /\ A \in IntervalSets /\ Normal(A) /\ Covered(A) = Covered(a)
      /\ B \in IntervalSets /\ Normal(B) /\ Covered(B) = Covered(b)
  BY MergeIsExact
<1>2. intersect(a, b) = st.out
  BY DEF intersect
<1> HIDE DEF A, B
<1>3. st \in MeetStates(A, B, Cardinality(A) + Cardinality(B))
  BY <1>1, MeetLoopKeeps
<1> HIDE DEF st
<1>4. /\ st.a \subseteq A /\ st.b \subseteq B /\ st.out \subseteq Interval
      /\ \/ st.a = {} \/ st.b = {}
         \/ Cardinality(st.a) + Cardinality(st.b)
              <= Cardinality(A) + Cardinality(B) - (Cardinality(A) + Cardinality(B))
      /\ IsFiniteSet(st.out)
      /\ st.out = Met(A, B, st.a, st.b)
  BY <1>3 DEF MeetStates
<1>5. st.a = {} \/ st.b = {}
  <2>1. IsFiniteSet(A) /\ IsFiniteSet(B)
    BY <1>1 DEF IntervalSets
  <2>2. IsFiniteSet(st.a) /\ IsFiniteSet(st.b)
    BY <2>1, <1>4, FS_Subset
  <2>3. /\ Cardinality(A) \in Nat /\ Cardinality(B) \in Nat
        /\ Cardinality(st.a) \in Nat /\ Cardinality(st.b) \in Nat
    BY <2>1, <2>2, FS_CardinalityType
  <2>4. st.a = {} \/ st.b = {} \/ Cardinality(st.a) = 0
    BY <2>3, <1>4
  <2> QED BY <2>2, <2>4, FS_EmptySet
<1>6. A \in SUBSET Interval /\ B \in SUBSET Interval
  BY <1>1 DEF IntervalSets
<1>7. \A i : i \in st.out <=> isNonEmpty(i) /\ \E x \in A, y \in B : i = common(x, y)
  <2>1. \A x \in A, y \in B : x \notin st.a \/ y \notin st.b
    BY <1>5
  <2> QED BY <2>1, <1>4, <1>6, MetMembers
<1>8. Normal(st.out)
  <2>1. ASSUME NEW i \in st.out, NEW j \in st.out
        PROVE  i = j \/ i.end < j.start \/ j.end < i.start
    <3>1. PICK x \in A, y \in B : i = common(x, y)
      BY <1>7
    <3>2. PICK u \in A, v \in B : j = common(u, v)
      BY <1>7
    <3>3. /\ x.start <= i.start /\ i.end <= x.end /\ y.start <= i.start /\ i.end <= y.end
          /\ u.start <= j.start /\ j.end <= u.end /\ v.start <= j.start /\ j.end <= v.end
      BY <3>1, <3>2, <1>6, CommonPoints
    <3>4. /\ i.start \in Int /\ i.end \in Int /\ j.start \in Int /\ j.end \in Int
          /\ x.start \in Int /\ x.end \in Int /\ y.start \in Int /\ y.end \in Int
          /\ u.start \in Int /\ u.end \in Int /\ v.start \in Int /\ v.end \in Int
      BY <1>4, <1>6, PointsOf
    <3>5. x = u \/ x.end < u.start \/ u.end < x.start
      BY <1>1 DEF Normal
    <3>6. y = v \/ y.end < v.start \/ v.end < y.start
      BY <1>1 DEF Normal
    <3>7. x = u /\ y = v => i = j
      BY <3>1, <3>2
    <3>8. CASE x = u /\ y = v
      BY <3>7, <3>8
    <3>9. CASE x.end < u.start \/ y.end < v.start
      BY <3>3, <3>4, <3>9
    <3>10. CASE u.end < x.start \/ v.end < y.start
      BY <3>3, <3>4, <3>10
    <3> QED BY <3>5, <3>6, <3>8, <3>9, <3>10
  <2> QED BY <2>1, <1>7 DEF Normal
<1>9. ASSUME NEW p PROVE p \in Covered(st.out) <=> p \in Covered(A) /\ p \in Covered(B)
  <2>1. ASSUME p \in Covered(st.out) PROVE p \in Covered(A) /\ p \in Covered(B)
    <3>1. PICK i \in st.out : p \in Points(i)
      BY <2>1 DEF Covered
    <3>2. PICK x \in A, y \in B : i = common(x, y)
      BY <1>7
    <3>3. p \in Points(x) /\ p \in Points(y)
      BY <3>1, <3>2, <1>6, CommonPoints
    <3> QED BY <3>3 DEF Covered
  <2>2. ASSUME p \in Covered(A), p \in Covered(B) PROVE p \in Covered(st.out)
    <3>1. PICK x \in A : p \in Points(x)
      BY <2>2 DEF Covered
    <3>2. PICK y \in B : p \in Points(y)
      BY <2>2 DEF Covered
    <3>3. p \in Points(common(x, y)) /\ common(x, y) \in Interval
      BY <3>1, <3>2, <1>6, CommonPoints
    <3>4. isNonEmpty(common(x, y))
      <4> DEFINE c == common(x, y)
      <4>1. p \in Points(c) /\ c \in Interval
        BY <3>3
      <4> HIDE DEF c
      <4>2. p \in Int /\ c.start <= p /\ p < c.end /\ c.start \in Int /\ c.end \in Int
        BY <4>1, PointsOf
      <4>3. isNonEmpty(c)
        BY <4>1, <4>2, PointsOf
      <4> QED BY <4>3 DEF c
    <3>5. common(x, y) \in st.out
      BY <3>4, <1>7
    <3> QED BY <3>3, <3>5 DEF Covered
  <2> QED BY <2>1, <2>2
<1>10. Covered(st.out) = Covered(A) \cap Covered(B)
  BY <1>9
<1> QED BY <1>1, <1>2, <1>4, <1>8, <1>10 DEF IntervalSets
-----------------------------------------------------------------------------
\* subtract.

\* What holds after k rounds of the inner loop over b: out is what lies before
\* the cursor and M does not cover, and what has been visited is behind the
\* cursor or beyond b.
CarveStates(b, M, k) ==
  {st \in [rest: SUBSET M, cursor: Int, out: IntervalSets] :
     /\ st.rest = {} \/ Cardinality(st.rest) <= Cardinality(M) - k
     /\ b.start <= st.cursor
     /\ Normal(st.out)
     /\ \A o \in st.out : b.start <= o.start /\ o.end < st.cursor /\ o.end <= b.end
     /\ \A p : p \in Covered(st.out) <=> p \in Points(b) /\ p < st.cursor /\ p \notin Covered(M)
     /\ \A m \in M \ st.rest : m.end <= st.cursor \/ b.end <= m.start}

\* A list behind an interval, and what pushing the interval makes of it.
Behind(out, i) == \A o \in out : o.end < i.start

Pushed(out, i, new) ==
  /\ new \in IntervalSets
  /\ Normal(new)
  /\ \A o \in new : o \in out \/ (o = i /\ i.start < i.end)
  /\ \A p : p \in Covered(new) <=> p \in Covered(out) \/ p \in Points(i)

\* Pushing an interval behind which the list lies keeps the list normal.
LEMMA PushStep ==
  ASSUME NEW out \in IntervalSets, Normal(out), NEW i \in Interval, Behind(out, i)
  PROVE  Pushed(out, i, out \cup NonEmpty({i}))
<1> USE DEF Behind, Pushed
<1>1. NonEmpty({i}) = IF i.start < i.end THEN {i} ELSE {}
  BY PushedIf
<1>2. out \in SUBSET Interval /\ IsFiniteSet(out) /\ i.start \in Int /\ i.end \in Int
  BY PointsOf DEF IntervalSets
<1>3. CASE i.start < i.end
  <2>1. NonEmpty({i}) = {i} /\ isNonEmpty(i)
    BY <1>1, <1>3, PointsOf
  <2>2. IsFiniteSet(out \cup {i}) /\ out \cup {i} \in SUBSET Interval
    BY <1>2, FS_AddElement
  <2>3. Normal(out \cup {i})
    <3>1. \A u, v \in out : u = v \/ u.end < v.start \/ v.end < u.start
      BY DEF Normal
    <3> QED BY <2>1, <3>1 DEF Normal
  <2>4. \A p : p \in Covered(out \cup {i}) <=> p \in Covered(out) \/ p \in Points(i)
    BY DEF Covered
  <2> QED BY <2>1, <2>2, <2>3, <2>4, <1>3 DEF IntervalSets
<1>4. CASE ~(i.start < i.end)
  <2>1. out \cup NonEmpty({i}) = out
    BY <1>1, <1>4
  <2>2. \A p : p \notin Points(i)
    BY <1>2, <1>4, PointsOf
  <2> QED BY <2>1, <2>2
<1> QED BY <1>3, <1>4

\* One round of subtract's inner loop.
LEMMA CarveRoundKeeps ==
  ASSUME NEW b \in Interval, NEW M \in IntervalSets, Normal(M), NEW k \in 1..Cardinality(M),
         NEW st \in CarveStates(b, M, k - 1)
  PROVE  carve(b, st) \in CarveStates(b, M, k)
<1>1. IsFiniteSet(M) /\ M \in SUBSET Interval /\ Cardinality(M) \in Nat /\ k \in Nat
  BY FS_CardinalityType DEF IntervalSets
<1>2. /\ st \in [rest: SUBSET M, cursor: Int, out: IntervalSets]
      /\ st.rest = {} \/ Cardinality(st.rest) <= Cardinality(M) - (k - 1)
      /\ b.start <= st.cursor
      /\ Normal(st.out)
      /\ \A o \in st.out : b.start <= o.start /\ o.end < st.cursor /\ o.end <= b.end
      /\ \A p : p \in Covered(st.out) <=> p \in Points(b) /\ p < st.cursor /\ p \notin Covered(M)
      /\ \A m \in M \ st.rest : m.end <= st.cursor \/ b.end <= m.start
  BY DEF CarveStates
<1>3. IsFiniteSet(st.rest) /\ Cardinality(st.rest) \in Nat /\ st.rest \in IntervalSets
  BY <1>1, <1>2, FS_Subset, FS_CardinalityType DEF IntervalSets
<1>4. b.start \in Int /\ b.end \in Int /\ st.cursor \in Int
  BY <1>2, PointsOf
<1>5. \A m \in M : m.start \in Int /\ m.end \in Int /\ m.start < m.end
  BY <1>1, PointsOf DEF Normal
<1>6. CASE st.rest = {}
  <2>1. carve(b, st) = st
    BY <1>6 DEF carve
  <2> QED BY <2>1, <1>2, <1>6 DEF CarveStates
<1>7. CASE st.rest # {}
  <2> DEFINE m == First(st.rest)
             new == carve(b, st)
             cursor == greater(st.cursor, m.end)
  <2>1. m \in st.rest /\ m \in M /\ \A j \in st.rest : m.start <= j.start
    BY <1>2, <1>3, <1>7, FirstOne
  <2>2. new = IF m.end <= st.cursor THEN [st EXCEPT !.rest = @ \ {m}]
              ELSE IF m.start >= b.end THEN [st EXCEPT !.rest = {}]
              ELSE [rest   |-> IF cursor >= b.end THEN {} ELSE st.rest \ {m},
                    cursor |-> cursor,
                    out    |-> st.out \cup NonEmpty({[start |-> st.cursor, end |-> m.start]})]
    BY <1>7 DEF carve
  <2> HIDE DEF m, new, cursor
  <2>3. Cardinality(st.rest \ {m}) <= Cardinality(M) - k
    <3>1. Cardinality(st.rest \ {m}) = Cardinality(st.rest) - 1
      BY <2>1, <1>3, FS_RemoveElement
    <3> QED BY <3>1, <1>1, <1>2, <1>3, <1>7
  <2>4. m.start \in Int /\ m.end \in Int /\ m.start < m.end
    BY <2>1, <1>5
  <2>5. CASE m.end <= st.cursor
    <3>1. new.rest = st.rest \ {m} /\ new.cursor = st.cursor /\ new.out = st.out
          /\ new \in [rest: SUBSET M, cursor: Int, out: IntervalSets]
      BY <2>2, <2>5, <1>2
    <3>2. \A n \in M \ new.rest : n.end <= new.cursor \/ b.end <= n.start
      BY <3>1, <2>5, <1>2
    <3>3. new \in CarveStates(b, M, k)
      BY <3>1, <3>2, <2>3, <1>2 DEF CarveStates
    <3> QED BY <3>3 DEF new
  <2>6. CASE ~(m.end <= st.cursor) /\ m.start >= b.end
    <3>1. new.rest = {} /\ new.cursor = st.cursor /\ new.out = st.out
          /\ new \in [rest: SUBSET M, cursor: Int, out: IntervalSets]
      BY <2>2, <2>6, <1>2
    <3>2. \A n \in M \ new.rest : n.end <= new.cursor \/ b.end <= n.start
      <4>1. \A n \in st.rest : n.start \in Int /\ m.start <= n.start
        BY <2>1, <1>2, <1>5
      <4>2. \A n \in st.rest : b.end <= n.start
        BY <4>1, <2>4, <2>6, <1>4
      <4> QED BY <4>2, <3>1, <1>2
    <3>3. new \in CarveStates(b, M, k)
      BY <3>1, <3>2, <1>2 DEF CarveStates
    <3> QED BY <3>3 DEF new
  <2>7. CASE ~(m.end <= st.cursor) /\ ~(m.start >= b.end)
    <3> DEFINE i == [start |-> st.cursor, end |-> m.start]
    <3>1. cursor = m.end
      BY <2>4, <2>7, <1>4 DEF cursor, greater
    <3>2. i \in Interval /\ i.start = st.cursor /\ i.end = m.start
      BY <2>4, <1>4 DEF Interval
    <3>3. /\ new.rest = (IF cursor >= b.end THEN {} ELSE st.rest \ {m})
          /\ new.cursor = cursor
          /\ new.out = st.out \cup NonEmpty({i})
          /\ new = [rest |-> new.rest, cursor |-> new.cursor, out |-> new.out]
      BY <2>2, <2>7
    <3> HIDE DEF i
    <3>4. /\ new.out \in IntervalSets
          /\ Normal(new.out)
          /\ \A o \in new.out : o \in st.out \/ (o = i /\ i.start < i.end)
          /\ \A p : p \in Covered(new.out) <=> p \in Covered(st.out) \/ p \in Points(i)
      <4>1. st.out \in IntervalSets /\ Normal(st.out) /\ Behind(st.out, i)
        BY <3>2, <1>2 DEF Behind
      <4>2. Pushed(st.out, i, new.out)
        BY <4>1, <3>2, <3>3, PushStep
      <4> QED BY <4>2 DEF Pushed
    <3>5. \A o \in new.out : b.start <= o.start /\ o.end < new.cursor /\ o.end <= b.end
      <4>1. \A o \in st.out : o.end \in Int
        BY <1>2, PointsOf DEF IntervalSets
      <4>2. \A o \in st.out : b.start <= o.start /\ o.end < new.cursor /\ o.end <= b.end
        BY <4>1, <3>1, <3>3, <2>4, <2>7, <1>2, <1>4
      <4>3. b.start <= i.start /\ i.end < new.cursor /\ i.end <= b.end
        BY <3>1, <3>2, <3>3, <2>4, <2>7, <1>2, <1>4
      <4> QED BY <4>2, <4>3, <3>4
    <3>6. \A n \in M \ new.rest : n.end <= new.cursor \/ b.end <= n.start
      <4> SUFFICES ASSUME NEW n \in M \ new.rest PROVE n.end <= new.cursor \/ b.end <= n.start
        OBVIOUS
      <4>1. n.start \in Int /\ n.end \in Int
        BY <1>5
      <4>2. CASE n \notin st.rest
        BY <4>1, <4>2, <3>1, <3>3, <2>4, <2>7, <1>2, <1>4
      <4>3. CASE n = m
        BY <4>1, <4>3, <3>1, <3>3
      <4>4. CASE n \in st.rest /\ n # m
        <5>1. m.start <= n.start
          BY <4>4, <2>1
        <5>2. m = n \/ m.end < n.start \/ n.end < m.start
          BY <2>1 DEF Normal
        <5>3. m.end < n.start
          BY <5>1, <5>2, <4>1, <4>4, <2>4, <1>5
        <5>4. cursor >= b.end
          BY <4>4, <3>3
        <5> QED BY <5>3, <5>4, <4>1, <3>1, <2>4, <1>4
      <4> QED BY <4>2, <4>3, <4>4
    <3>7. \A p : p \in Covered(new.out) <=>
                   p \in Points(b) /\ p < new.cursor /\ p \notin Covered(M)
      <4> SUFFICES ASSUME NEW p
                   PROVE  p \in Covered(new.out) <=>
                            p \in Points(b) /\ p < new.cursor /\ p \notin Covered(M)
        OBVIOUS
      <4>1. p \in Points(i) <=> p \in Int /\ st.cursor <= p /\ p < m.start
        BY <3>2, PointsOf
      <4>2. p \in Points(b) <=> p \in Int /\ b.start <= p /\ p < b.end
        BY PointsOf
      <4>3. p \in Covered(M) <=> p \in Int /\ \E n \in M : n.start <= p /\ p < n.end
        BY <1>1, CoveredBy
      <4>4. p \in Points(i) => p \in Points(b) /\ p < new.cursor /\ p \notin Covered(M)
        <5> SUFFICES ASSUME p \in Points(i)
                     PROVE  p \in Points(b) /\ p < new.cursor /\ p \notin Covered(M)
          OBVIOUS
        <5>1. p \in Int /\ b.start <= p /\ p < b.end /\ p < m.end
          BY <4>1, <2>4, <2>7, <1>2, <1>4
        <5>2. ASSUME NEW n \in M PROVE ~(n.start <= p /\ p < n.end)
          <6>1. n.start \in Int /\ n.end \in Int
            BY <1>5
          <6>2. CASE n \in st.rest
            <7>1. m.start <= n.start
              BY <6>2, <2>1
            <7> QED BY <7>1, <6>1, <4>1, <2>4, <1>4
          <6>3. CASE n \notin st.rest
            <7>1. n.end <= st.cursor \/ b.end <= n.start
              BY <6>3, <1>2
            <7> QED BY <7>1, <6>1, <5>1, <4>1, <1>4
          <6> QED BY <6>2, <6>3
        <5> QED BY <5>1, <5>2, <4>2, <4>3, <3>1, <3>3
      <4>5. p \in Covered(st.out) => p \in Points(b) /\ p < new.cursor /\ p \notin Covered(M)
        BY <4>2, <3>1, <3>3, <2>4, <2>7, <1>2, <1>4
      <4>6. ASSUME p \in Points(b), p < new.cursor, p \notin Covered(M), ~(p < st.cursor)
            PROVE  p \in Points(i)
        <5>1. ~(m.start <= p /\ p < m.end) /\ p \in Int
          BY <4>2, <4>3, <4>6, <2>1
        <5> QED BY <5>1, <4>1, <4>6, <3>1, <3>3, <2>4, <1>4
      <4> QED BY <4>4, <4>5, <4>6, <3>4, <1>2
    <3>8. b.start <= new.cursor /\ new.cursor \in Int
      BY <3>1, <3>3, <2>4, <2>7, <1>2, <1>4
    <3>9. new.rest \subseteq M /\ (new.rest = {} \/ Cardinality(new.rest) <= Cardinality(M) - k)
      BY <3>3, <2>3, <1>2
    <3>10. new \in [rest: SUBSET M, cursor: Int, out: IntervalSets]
      BY <3>3, <3>4, <3>8, <3>9
    <3>11. new \in CarveStates(b, M, k)
      BY <3>4, <3>5, <3>6, <3>7, <3>8, <3>9, <3>10 DEF CarveStates
    <3> QED BY <3>11 DEF new
  <2> QED BY <2>5, <2>6, <2>7
<1> QED BY <1>6, <1>7

\* The loop, as the recursion defines it.
LEMMA CarveLoopKeeps ==
  ASSUME NEW b \in Interval, NEW M \in IntervalSets, Normal(M)
  PROVE  carveLoop(b, M)[Cardinality(M)] \in CarveStates(b, M, Cardinality(M))
<1> DEFINE n == Cardinality(M)
           start == [rest |-> M, cursor |-> b.start, out |-> {}]
           G == [k \in 0..n |-> CarveStates(b, M, k)]
           U == UNION {CarveStates(b, M, k) : k \in 0..n}
           round == [st \in U |-> carve(b, st)]
           F(f) == [k \in 0..n |-> IF k = 0 THEN start ELSE carve(b, f[k - 1])]
<1>1. n \in Nat
  BY FS_CardinalityType DEF IntervalSets
<1>2. start \in CarveStates(b, M, 0)
  <2>1. {} \in IntervalSets
    BY FS_EmptySet DEF IntervalSets
  <2>2. b.start \in Int
    BY PointsOf
  <2>3. \A p : p \in Covered(start.out) <=>
                 p \in Points(b) /\ p < start.cursor /\ p \notin Covered(M)
    <3>1. \A p : p \in Points(b) => p \in Int /\ ~(p < b.start)
      BY <2>2, PointsOf
    <3> QED BY <3>1 DEF Covered
  <2>4. Normal(start.out)
    BY DEF Normal
  <2>5. start \in [rest: SUBSET M, cursor: Int, out: IntervalSets]
    BY <2>1, <2>2
  <2>6. /\ Cardinality(start.rest) <= Cardinality(M) - 0
        /\ b.start <= start.cursor
        /\ start.out = {}
        /\ M \ start.rest = {}
    BY <1>1, <2>2
  <2> HIDE DEF start
  <2> QED BY <2>3, <2>4, <2>5, <2>6 DEF CarveStates
<1>3. \A k \in 1..n : \A st \in G[k - 1] : st \in U /\ carve(b, st) \in G[k]
  <2> SUFFICES ASSUME NEW k \in 1..n, NEW st \in G[k - 1]
               PROVE  st \in U /\ carve(b, st) \in G[k]
    OBVIOUS
  <2>1. k - 1 \in 0..n /\ k \in 0..n
    BY <1>1
  <2> QED BY <2>1, CarveRoundKeeps
<1>4. G[0] = CarveStates(b, M, 0) /\ G[n] = CarveStates(b, M, n)
  BY <1>1
<1>5. G \in [0..n -> SUBSET U]
  OBVIOUS
<1> HIDE DEF G, U, start
<1>6. \A k \in 1..n : \A st \in G[k - 1] : round[st] = carve(b, st) /\ round[st] \in G[k]
  BY <1>3
<1> HIDE DEF round, n
<1>7. PICK f \in [0..n -> U] : Runs(f, n, G, round, start)
  <2>1. start \in G[0] /\ Leads(round, G, n)
    BY <1>2, <1>4, <1>6 DEF Leads
  <2> QED BY <1>1, <1>5, <2>1, LoopExists
<1>8. f = F(f)
  <2>1. \A k \in 0..n : k # 0 => k \in 1..n /\ k - 1 \in 0..n
    BY <1>1
  <2>2. \A k \in 0..n : k # 0 => f[k] = carve(b, f[k - 1])
    BY <2>1, <1>6, <1>7 DEF Runs
  <2>3. \A k \in 0..n : f[k] = IF k = 0 THEN start ELSE carve(b, f[k - 1])
    BY <2>2, <1>7 DEF Runs
  <2> QED BY <2>3, <1>7
<1>9. carveLoop(b, M) = CHOOSE g : g = F(g)
  BY DEF carveLoop, start, n
<1> HIDE DEF F
<1>10. carveLoop(b, M) = F(carveLoop(b, M))
  BY <1>8, <1>9
<1>11. \A k \in 0..n : carveLoop(b, M)[k] =
                         IF k = 0 THEN start ELSE carve(b, carveLoop(b, M)[k - 1])
  BY <1>10 DEF F
<1>12. carveLoop(b, M)[0] \in G[0]
  BY <1>1, <1>2, <1>4, <1>11
<1>13. \A k \in 1..n : carveLoop(b, M)[k - 1] \in G[k - 1] => carveLoop(b, M)[k] \in G[k]
  <2>1. \A k \in 1..n : k \in 0..n /\ k # 0
    BY <1>1
  <2> QED BY <2>1, <1>3, <1>11
<1>14. \A k \in 0..n : carveLoop(b, M)[k] \in G[k]
  BY <1>1, <1>12, <1>13, LoopKeeps
<1> QED BY <1>1, <1>4, <1>14 DEF n

\* The outer loop's body covers exactly what of b a normal list leaves.
LEMMA CutIsExact ==
  ASSUME NEW b \in Interval, NEW M \in IntervalSets, Normal(M)
  PROVE  /\ cut(b, M) \in SUBSET Interval
         /\ Normal(cut(b, M))
         /\ \A o \in cut(b, M) : b.start <= o.start /\ o.end <= b.end
         /\ \A p : p \in Covered(cut(b, M)) <=> p \in Points(b) /\ p \notin Covered(M)
<1> DEFINE st == carveLoop(b, M)[Cardinality(M)]
           i == [start |-> st.cursor, end |-> b.end]
<1>1. cut(b, M) = st.out \cup NonEmpty({i})
  BY DEF cut
<1>2. st \in CarveStates(b, M, Cardinality(M))
  BY CarveLoopKeeps
<1> HIDE DEF st
<1>3. /\ st.rest \subseteq M /\ st.cursor \in Int /\ st.out \in IntervalSets
      /\ st.rest = {} \/ Cardinality(st.rest) <= Cardinality(M) - Cardinality(M)
      /\ b.start <= st.cursor
      /\ Normal(st.out)
      /\ \A o \in st.out : b.start <= o.start /\ o.end < st.cursor /\ o.end <= b.end
      /\ \A p : p \in Covered(st.out) <=> p \in Points(b) /\ p < st.cursor /\ p \notin Covered(M)
      /\ \A m \in M \ st.rest : m.end <= st.cursor \/ b.end <= m.start
  BY <1>2 DEF CarveStates
<1>4. st.rest = {}
  <2>1. IsFiniteSet(M) /\ IsFiniteSet(st.rest)
    BY <1>3, FS_Subset DEF IntervalSets
  <2>2. Cardinality(M) \in Nat /\ Cardinality(st.rest) \in Nat
    BY <2>1, FS_CardinalityType
  <2>3. st.rest = {} \/ Cardinality(st.rest) = 0
    BY <2>2, <1>3
  <2> QED BY <2>1, <2>3, FS_EmptySet
<1>5. b.start \in Int /\ b.end \in Int
  BY PointsOf
<1>6. i \in Interval /\ i.start = st.cursor /\ i.end = b.end
  BY <1>3, <1>5 DEF Interval
<1> HIDE DEF i
<1>7. /\ cut(b, M) \in IntervalSets
      /\ Normal(cut(b, M))
      /\ \A o \in cut(b, M) : o \in st.out \/ (o = i /\ i.start < i.end)
      /\ \A p : p \in Covered(cut(b, M)) <=> p \in Covered(st.out) \/ p \in Points(i)
  <2>1. Behind(st.out, i)
    BY <1>3, <1>6 DEF Behind
  <2>2. Pushed(st.out, i, cut(b, M))
    BY <2>1, <1>1, <1>3, <1>6, PushStep
  <2> QED BY <2>2 DEF Pushed
<1>8. \A o \in cut(b, M) : b.start <= o.start /\ o.end <= b.end
  BY <1>3, <1>5, <1>6, <1>7
<1>9. ASSUME NEW p
      PROVE  p \in Covered(cut(b, M)) <=> p \in Points(b) /\ p \notin Covered(M)
  <2>1. p \in Points(i) <=> p \in Int /\ st.cursor <= p /\ p < b.end
    BY <1>6, PointsOf
  <2>2. p \in Points(b) <=> p \in Int /\ b.start <= p /\ p < b.end
    BY PointsOf
  <2>3. p \in Points(i) => p \notin Covered(M)
    <3> SUFFICES ASSUME p \in Points(i), p \in Covered(M) PROVE FALSE
      OBVIOUS
    <3>1. M \in SUBSET Interval
      BY DEF IntervalSets
    <3>2. PICK m \in M : m.start <= p /\ p < m.end
      BY <3>1, CoveredBy
    <3>3. m.start \in Int /\ m.end \in Int /\ (m.end <= st.cursor \/ b.end <= m.start)
      BY <3>1, <1>3, <1>4, PointsOf
    <3> QED BY <3>2, <3>3, <2>1, <1>3, <1>5
  <2>4. p \in Points(i) => p \in Points(b)
    BY <2>1, <2>2, <1>3, <1>5
  <2>5. p \in Points(b) /\ ~(p < st.cursor) => p \in Points(i)
    BY <2>1, <2>2, <1>3, <1>5
  <2> QED BY <2>3, <2>4, <2>5, <1>3, <1>7
<1>10. cut(b, M) \in SUBSET Interval
  BY <1>7 DEF IntervalSets
<1> QED BY <1>7, <1>8, <1>9, <1>10

\* subtract covers exactly the points of its base that minus does not and
\* returns a normal list.
LEMMA SubtractIsExact ==
  ASSUME NEW base \in IntervalSets, NEW minus \in IntervalSets
  PROVE  /\ subtract(base, minus) \in SUBSET Interval
         /\ Normal(subtract(base, minus))
         /\ Covered(subtract(base, minus)) = Covered(base) \ Covered(minus)
<1> DEFINE B == merge(base)
           M == merge(minus)
           rest == subtract(base, minus)
<1>1. /\ B \in IntervalSets /\ Normal(B) /\ Covered(B) = Covered(base)
      /\ M \in IntervalSets /\ Normal(M) /\ Covered(M) = Covered(minus)
  BY MergeIsExact
<1>2. rest = UNION {cut(b, M) : b \in B}
  BY DEF subtract
<1> HIDE DEF B, M, rest
<1>3. \A b \in B : b \in Interval
  BY <1>1 DEF IntervalSets
<1>4. \A b \in B :
        /\ cut(b, M) \in SUBSET Interval
        /\ Normal(cut(b, M))
        /\ \A o \in cut(b, M) : b.start <= o.start /\ o.end <= b.end
        /\ \A p : p \in Covered(cut(b, M)) <=> p \in Points(b) /\ p \notin Covered(M)
  BY <1>1, <1>3, CutIsExact
<1>5. rest \in SUBSET Interval
  BY <1>2, <1>4
<1>6. Normal(rest)
  <2>1. ASSUME NEW i \in rest PROVE isNonEmpty(i)
    <3>1. PICK b \in B : i \in cut(b, M)
      BY <1>2
    <3> QED BY <3>1, <1>4 DEF Normal
  <2>2. ASSUME NEW i \in rest, NEW j \in rest
        PROVE  i = j \/ i.end < j.start \/ j.end < i.start
    <3>1. PICK b \in B : i \in cut(b, M)
      BY <1>2
    <3>2. PICK c \in B : j \in cut(c, M)
      BY <1>2
    <3>3. CASE b = c
      BY <3>1, <3>2, <3>3, <1>4 DEF Normal
    <3>4. CASE b # c
      <4>1. b.start <= i.start /\ i.end <= b.end /\ c.start <= j.start /\ j.end <= c.end
        BY <3>1, <3>2, <1>4
      <4>2. /\ i.start \in Int /\ i.end \in Int /\ j.start \in Int /\ j.end \in Int
            /\ b.start \in Int /\ b.end \in Int /\ c.start \in Int /\ c.end \in Int
        BY <1>3, <1>5, PointsOf
      <4>3. b.end < c.start \/ c.end < b.start
        BY <3>4, <1>1 DEF Normal
      <4> QED BY <4>1, <4>2, <4>3
    <3> QED BY <3>3, <3>4
  <2> QED BY <2>1, <2>2 DEF Normal
<1>7. \A p : p \in Covered(rest) <=> \E b \in B : p \in Covered(cut(b, M))
  BY <1>2 DEF Covered
<1>8. \A p : p \in Covered(B) <=> \E b \in B : p \in Points(b)
  BY DEF Covered
<1>9. \A p : p \in Covered(rest) <=> p \in Covered(B) /\ p \notin Covered(M)
  <2>1. \A b \in B : \A p : p \in Covered(cut(b, M)) <=> p \in Points(b) /\ p \notin Covered(M)
    BY <1>4
  <2> QED BY <2>1, <1>7, <1>8
<1> QED BY <1>1, <1>5, <1>6, <1>9 DEF rest
-----------------------------------------------------------------------------
\* The algebra on the lists of the check.

ListsOK == left \in IntervalSets /\ right \in IntervalSets

\* merge, intersect and subtract cover exactly the union, the common points and
\* the remaining points of arbitrary lists of intervals and leave none empty or
\* touching, for every bound on the lists.
THEOREM AlgebraAlwaysExact == MCSpec => []AlgebraIsExact
<1>1. MCInit => ListsOK
  BY FS_EmptySet DEF MCInit, ListsInit, ListsOK, IntervalSets
<1>2. ListIntervals \subseteq Interval
  <2>1. \A p \in 0..MaxPoint : p \in Int
    OBVIOUS
  <2> QED BY <2>1 DEF ListIntervals, Interval
<1>3. ListsOK /\ [MCNext]_<<availVars, Lists>> => ListsOK'
  <2> SUFFICES ASSUME ListsOK, [MCNext]_<<availVars, Lists>> PROVE ListsOK'
    OBVIOUS
  <2>1. CASE UNCHANGED Lists
    BY <2>1 DEF ListsOK, Lists
  <2>2. CASE GrowLeft
    <3>1. PICK i \in ListIntervals : left' = left \cup {i}
      BY <2>2 DEF GrowLeft
    <3>2. IsFiniteSet(left \cup {i}) /\ left \cup {i} \in SUBSET Interval
      BY <1>2, FS_AddElement DEF ListsOK, IntervalSets
    <3> QED BY <3>1, <3>2, <2>2 DEF GrowLeft, ListsOK, IntervalSets
  <2>3. CASE GrowRight
    <3>1. PICK i \in ListIntervals : right' = right \cup {i}
      BY <2>3 DEF GrowRight
    <3>2. IsFiniteSet(right \cup {i}) /\ right \cup {i} \in SUBSET Interval
      BY <1>2, FS_AddElement DEF ListsOK, IntervalSets
    <3> QED BY <3>1, <3>2, <2>3 DEF GrowRight, ListsOK, IntervalSets
  <2>4. UNCHANGED Lists \/ GrowLeft \/ GrowRight
    BY DEF MCNext, Lists
  <2> QED BY <2>1, <2>2, <2>3, <2>4
<1>4. ListsOK => AlgebraIsExact
  BY MergeIsExact, IntersectIsExact, SubtractIsExact DEF ListsOK, AlgebraIsExact
<1> QED BY <1>1, <1>3, <1>4, PTL DEF MCSpec
-----------------------------------------------------------------------------
\* The tables.

\* An assigned staff member takes some time for the service.
LEMMA DurationType ==
  ASSUME AvailTypeOK, NEW m \in Member, \E a \in assigned : a.staff = m
  PROVE  effectiveDuration(m) \in Nat \ {0}
<1>1. (CHOOSE a \in assigned : a.staff = m) \in assigned
  OBVIOUS
<1>2. customDuration(m) \in Lengths \cup {None}
  BY <1>1 DEF customDuration, AvailTypeOK
<1> QED BY <1>2, AvailabilityAssumption DEF effectiveDuration

\* The tables start with their types.
LEMMA AvailInitTypes == AvailInit => AvailTypeOK
<1> SUFFICES ASSUME AvailInit PROVE AvailTypeOK
  OBVIOUS
<1>1. shifts \in [Member -> Shifts]
  <2>1. (CHOOSE s \in Shifts : \E a \in s : a.isActive) \in Shifts
    BY AvailabilityAssumption
  <2> QED BY <2>1 DEF AvailInit
<1>2. /\ assigned \subseteq [staff: Member, custom: Lengths \cup {None}]
      /\ \A a, b \in assigned : a.staff = b.staff => a = b
  BY DEF AvailInit
<1> QED BY <1>1, <1>2, FS_EmptySet DEF AvailInit, AvailTypeOK

\* One step of the tables, by the action that takes it.
LEMMA AvailStepTypes ==
  ASSUME AvailTypeOK, [AvailNext]_availVars
  PROVE  AvailTypeOK'
<1> USE DEF AvailTypeOK
<1>1. CASE ReplaceHours
  BY <1>1 DEF ReplaceHours
<1>2. ASSUME NEW m \in Edited, ReplaceShifts(m) PROVE AvailTypeOK'
  <2>1. shifts' \in [Member -> Shifts]
    BY <1>2 DEF ReplaceShifts
  <2> QED BY <2>1, <1>2 DEF ReplaceShifts
<1>3. ASSUME NEW m \in Edited, Reassign(m) PROVE AvailTypeOK'
  <2>1. m \in Member
    BY AvailabilityAssumption
  <2>2. PICK rows \in {{}} \cup {{[staff |-> m, custom |-> c]} : c \in Lengths} :
           assigned' = {a \in assigned : a.staff # m} \cup rows
    BY <1>3 DEF Reassign
  <2>3. assigned' \subseteq [staff: Member, custom: Lengths \cup {None}]
    BY <2>1, <2>2
  <2>4. \A a, b \in rows : a = b
    OBVIOUS
  <2>5. \A a, b \in assigned' : a.staff = b.staff => a = b
    <3> SUFFICES ASSUME NEW a \in assigned', NEW b \in assigned', a.staff = b.staff
                 PROVE  a = b
      OBVIOUS
    <3>1. \A r \in rows : r.staff = m
      OBVIOUS
    <3>2. CASE a.staff = m
      <4>1. a \in rows /\ b \in rows
        BY <3>2, <2>2
      <4> QED BY <4>1, <2>4
    <3>3. CASE a.staff # m
      <4>1. a \in assigned /\ b \in assigned
        BY <3>1, <3>3, <2>2
      <4> QED BY <4>1
    <3> QED BY <3>2, <3>3
  <2> QED BY <2>3, <2>5, <1>3 DEF Reassign
<1>4. ASSUME NEW m \in Edited, SetActive(m) PROVE AvailTypeOK'
  <2>1. m \in Member
    BY AvailabilityAssumption
  <2> QED BY <2>1, <1>4 DEF SetActive
<1>5. ASSUME NEW m \in Member, NEW t \in Starts, Book(m, t) PROVE AvailTypeOK'
  <2>1. effectiveDuration(m) \in Nat \ {0}
    BY <1>5, DurationType DEF Book, Bookable
  <2>2. t \in Int
    BY AvailabilityAssumption
  <2> DEFINE new == Appointment(m, t)
  <2>3. /\ new \in [staff: Member, start: Int, end: Int, state: {"active", "completed", "deleted"}]
        /\ new.start < new.end
    BY <2>1, <2>2 DEF Appointment
  <2>4. booked' = booked \cup {new}
    BY <1>5 DEF Book
  <2> HIDE DEF new
  <2>5. IsFiniteSet(booked')
    BY <2>4, FS_AddElement
  <2>6. UNCHANGED <<hours, shifts, assigned, inactive, blocked, holidays, clock>>
    BY <1>5 DEF Book
  <2> QED BY <2>3, <2>4, <2>5, <2>6
<1>6. ASSUME NEW b \in Blocks, SetBlock(b) PROVE AvailTypeOK'
  BY <1>6 DEF SetBlock
<1>7. ASSUME NEW h \in Holidays, SetHoliday(h) PROVE AvailTypeOK'
  BY <1>7 DEF SetHoliday
<1>8. ASSUME NEW a \in booked, Settle(a) PROVE AvailTypeOK'
  <2> DEFINE Row == [staff: Member, start: Int, end: Int,
                     state: {"active", "completed", "deleted"}]
  <2>1. a \in Row /\ a.start < a.end
    OBVIOUS
  <2>2. UNCHANGED <<hours, shifts, assigned, inactive, blocked, holidays, clock>>
    BY <1>8 DEF Settle
  <2>3. IsFiniteSet(booked \ {a})
    BY FS_RemoveElement
  <2>4. CASE booked' = booked \ {a}
    BY <2>2, <2>3, <2>4
  <2>5. CASE \E s \in {"completed", "deleted"} :
               booked' = (booked \ {a}) \cup {[a EXCEPT !.state = s]}
    <3>1. PICK s \in {"completed", "deleted"} :
             booked' = (booked \ {a}) \cup {[a EXCEPT !.state = s]}
      BY <2>5
    <3> DEFINE new == [a EXCEPT !.state = s]
    <3>2. new \in Row /\ new.start < new.end
      BY <2>1
    <3>3. booked' = (booked \ {a}) \cup {new}
      BY <3>1
    <3> HIDE DEF new
    <3>4. IsFiniteSet(booked')
      BY <3>3, <2>3, FS_AddElement
    <3> QED BY <2>2, <3>2, <3>3, <3>4
  <2> QED BY <1>8, <2>4, <2>5 DEF Settle
<1>9. CASE Pass
  BY <1>9 DEF Pass
<1>10. CASE UNCHANGED availVars
  BY <1>10 DEF availVars
<1> QED BY <1>1, <1>2, <1>3, <1>4, <1>5, <1>6, <1>7, <1>8, <1>9, <1>10 DEF AvailNext

\* The tables keep their types, appointments take time and no staff is assigned
\* to the service twice.
THEOREM AvailTypes == AvailSpec => []AvailTypeOK
BY AvailInitTypes, AvailStepTypes, PTL DEF AvailSpec
-----------------------------------------------------------------------------
\* A day's windows, busy times and free times.

\* A function has finitely many values on a finite set.
LEMMA ImageFinite ==
  ASSUME NEW S, IsFiniteSet(S), NEW f
  PROVE  IsFiniteSet({f[x] : x \in S})
<1> DEFINE T == {f[x] : x \in S}
           g == [x \in S |-> f[x]]
<1>1. g \in Surjection(S, T)
  BY DEF Surjection
<1> HIDE DEF T, g
<1>2. IsFiniteSet(T)
  BY <1>1, FS_Surjection
<1> QED BY <1>2 DEF T

\* A wall-clock time that exists is an instant.
LEMMA UtcType ==
  ASSUME NEW d \in Date, NEW w \in WallClock, Utc[d][w] # None
  PROVE  Utc[d][w] \in Int
<1>1. Utc \in [Date -> [WallClock -> Int \cup {None}]]
  BY AvailabilityAssumption
<1> QED BY <1>1

\* Every time of a date comes before every time of a later one.
LEMMA UtcOrder ==
  ASSUME NEW d \in Date, NEW e \in Date, d < e, NEW v \in WallClock, NEW w \in WallClock,
         Utc[d][v] # None, Utc[e][w] # None
  PROVE  Utc[d][v] < Utc[e][w]
BY AvailabilityAssumption

\* Rows with wall-clock times, and the times a row has on a date.
TypedRows(rows) == IsFiniteSet(rows) /\ \A w \in rows : w.start \in WallClock /\ w.end \in WallClock

\* windowToUtcInterval returns nothing or the interval between two instants.
LEMMA TimesOf ==
  ASSUME NEW d \in Date, NEW w, w.start \in WallClock, w.end \in WallClock
  PROVE  \/ windowToUtcInterval(d, w) = None
         \/ /\ windowToUtcInterval(d, w) \in Interval
            /\ windowToUtcInterval(d, w).start = Utc[d][w.start]
            /\ windowToUtcInterval(d, w).end = Utc[d][w.end]
            /\ Utc[d][w.start] # None /\ Utc[d][w.end] # None
            /\ isNonEmpty(windowToUtcInterval(d, w))
<1> DEFINE i == [start |-> Utc[d][w.start], end |-> Utc[d][w.end]]
<1>1. Utc[d][w.start] \in Int \cup {None} /\ Utc[d][w.end] \in Int \cup {None}
  BY AvailabilityAssumption
<1>2. \/ windowToUtcInterval(d, w) = None
      \/ /\ windowToUtcInterval(d, w) = i
         /\ Utc[d][w.start] # None /\ Utc[d][w.end] # None
         /\ ~(Utc[d][w.end] <= Utc[d][w.start])
  BY DEF windowToUtcInterval, localHHMMToUtcMs
<1>3. i.start = Utc[d][w.start] /\ i.end = Utc[d][w.end]
  OBVIOUS
<1>4. Utc[d][w.start] # None /\ Utc[d][w.end] # None => i \in Interval
  BY <1>1 DEF Interval
<1> HIDE DEF i
<1> QED BY <1>1, <1>2, <1>3, <1>4 DEF isNonEmpty

\* The windows of a date are a finite set of intervals.
LEMMA WindowsOnType ==
  ASSUME NEW d \in Date, NEW rows, TypedRows(rows)
  PROVE  WindowsOn(d, rows) \in IntervalSets
<1> DEFINE f == [w \in rows |-> windowToUtcInterval(d, w)]
           all == {f[w] : w \in rows}
<1>1. IsFiniteSet(all)
  BY ImageFinite DEF TypedRows
<1>2. WindowsOn(d, rows) = all \ {None}
  BY DEF WindowsOn
<1>3. IsFiniteSet(WindowsOn(d, rows))
  BY <1>1, <1>2, FS_Subset
<1>4. \A w \in rows : windowToUtcInterval(d, w) = None \/ windowToUtcInterval(d, w) \in Interval
  BY TimesOf DEF TypedRows
<1>5. WindowsOn(d, rows) \subseteq Interval
  BY <1>4 DEF WindowsOn
<1> QED BY <1>3, <1>5 DEF IntervalSets

OpenRows(d) == {w \in hours : w.isOpen /\ w.day = WeekdayOf[d]}
ShiftRows(d, m) == {a \in shifts[m] : a.isActive /\ a.day = WeekdayOf[d]}

\* The rows of the tables have wall-clock times.
LEMMA RowsAreTyped ==
  ASSUME AvailTypeOK, NEW d \in Date
  PROVE  TypedRows(OpenRows(d)) /\ \A m \in Member : TypedRows(ShiftRows(d, m))
<1>1. ASSUME NEW rows \in Weeks \cup Shifts \cup {{}}, NEW some \in SUBSET rows
      PROVE  TypedRows(some)
  <2>1. IsFiniteSet(rows) /\ \A w \in rows : w.start \in WallClock /\ w.end \in WallClock
    BY AvailabilityAssumption, FS_EmptySet
  <2> QED BY <2>1, FS_Subset DEF TypedRows
<1>2. hours \in Weeks \cup {{}} /\ \A m \in Member : shifts[m] \in Shifts
  BY DEF AvailTypeOK
<1>3. OpenRows(d) \in SUBSET hours /\ \A m \in Member : ShiftRows(d, m) \in SUBSET shifts[m]
  BY DEF OpenRows, ShiftRows
<1> QED BY <1>1, <1>2, <1>3

\* The business windows of a date are normal and cover its open points.
LEMMA OpeningHours ==
  ASSUME AvailTypeOK, NEW d \in Date
  PROVE  /\ businessWindows(d) \in IntervalSets
         /\ Normal(businessWindows(d))
         /\ Covered(businessWindows(d)) = OpenPoints(d)
<1>1. WindowsOn(d, OpenRows(d)) \in IntervalSets
  BY RowsAreTyped, WindowsOnType
<1>2. businessWindows(d) = merge(WindowsOn(d, OpenRows(d)))
  BY DEF businessWindows, OpenRows, weekdayOfDate
<1>3. OpenPoints(d) = Covered(WindowsOn(d, OpenRows(d)))
  BY DEF OpenPoints, OpenRows
<1> QED BY <1>1, <1>2, <1>3, MergeIsExact

\* The working times of a staff member are the open points of the shifts.
LEMMA WorkingHours ==
  ASSUME AvailTypeOK, NEW d \in Date, NEW m \in Member
  PROVE  /\ work(d, m) \in IntervalSets
         /\ Covered(work(d, m)) = OpenPoints(d) \cap Covered(WindowsOn(d, ShiftRows(d, m)))
<1>1. WindowsOn(d, ShiftRows(d, m)) \in IntervalSets
  BY RowsAreTyped, WindowsOnType
<1>2. work(d, m) = intersect(businessWindows(d), WindowsOn(d, ShiftRows(d, m)))
  BY DEF work, ShiftRows, weekdayOfDate
<1>3. businessWindows(d) \in IntervalSets /\ Covered(businessWindows(d)) = OpenPoints(d)
  BY OpeningHours
<1> QED BY <1>1, <1>2, <1>3, IntersectIsExact

\* The opening span reaches over every open point.
LEMMA OpeningSpan ==
  ASSUME AvailTypeOK, NEW d \in Date, NEW p \in OpenPoints(d)
  PROVE  /\ p \in Int
         /\ First(businessWindows(d)).start <= p /\ p < Last(businessWindows(d)).end
         /\ First(businessWindows(d)).start \in Int /\ Last(businessWindows(d)).end \in Int
<1> DEFINE B == businessWindows(d)
           f == First(B)
           l == Last(B)
<1>1. B \in IntervalSets /\ Normal(B) /\ Covered(B) = OpenPoints(d)
  BY OpeningHours
<1> HIDE DEF B
<1>2. B \in SUBSET Interval
  BY <1>1 DEF IntervalSets
<1>3. PICK i \in B : p \in Int /\ i.start <= p /\ p < i.end
  BY <1>1, <1>2, CoveredBy
<1>4. f \in B /\ f.start <= i.start
  BY <1>1, FirstOne
<1>5. l \in B /\ i.start <= l.start
  BY <1>1, LastOne
<1> HIDE DEF f, l
<1>6. /\ f.start \in Int /\ f.end \in Int /\ l.start \in Int /\ l.end \in Int
      /\ i.start \in Int /\ i.end \in Int
  BY <1>2, <1>4, <1>5, PointsOf
<1>7. i = l \/ i.end < l.start \/ l.end < i.start
  BY <1>1, <1>5 DEF Normal
<1>8. l.start < l.end /\ i.start < i.end
  BY <1>1, <1>2, <1>5, PointsOf DEF Normal
<1>9. f.start <= p /\ p < l.end
  BY <1>3, <1>4, <1>5, <1>6, <1>7, <1>8
<1> QED BY <1>3, <1>6, <1>9 DEF f, l, B

\* The blocks and the appointments a staff's day is looked up with.
DayBlocks(d, m) == {x \in blocked : x.staff \in {None, m} /\ Reaches(d, x)}
DayAppointments(d, m) == {x \in LoadedAppointments : x.staff = m /\ Reaches(d, x)}

\* busy covers the day's blocks and appointments with their buffers.
LEMMA BusyHours ==
  ASSUME AvailTypeOK, NEW d \in Date, NEW m \in Member
  PROVE  /\ busy(d, m) \in IntervalSets
         /\ \A p : p \in Covered(busy(d, m)) <=>
              \/ \E b \in DayBlocks(d, m) : p \in Points(b)
              \/ \E a \in DayAppointments(d, m) : p \in Points(Padded(a))
<1> DEFINE blocks == {Span(b) : b \in DayBlocks(d, m)}
           appts == {Padded(a) : a \in DayAppointments(d, m)}
           f == [b \in DayBlocks(d, m) |-> Span(b)]
           g == [a \in DayAppointments(d, m) |-> Padded(a)]
<1>1. busy(d, m) = merge(blocks \cup appts)
  BY DEF busy, DayBlocks, DayAppointments
<1>2. DayBlocks(d, m) \in SUBSET Blocks /\ DayAppointments(d, m) \in SUBSET booked
  BY DEF AvailTypeOK, DayBlocks, DayAppointments, LoadedAppointments
<1>3. IsFiniteSet(DayBlocks(d, m)) /\ IsFiniteSet(DayAppointments(d, m))
  <2>1. IsFiniteSet(Blocks) /\ IsFiniteSet(booked)
    BY AvailabilityAssumption DEF AvailTypeOK
  <2> QED BY <2>1, <1>2, FS_Subset
<1>4. IsFiniteSet(blocks) /\ IsFiniteSet(appts)
  <2>1. IsFiniteSet({f[b] : b \in DayBlocks(d, m)}) /\ IsFiniteSet({g[a] : a \in DayAppointments(d, m)})
    BY <1>3, ImageFinite
  <2>2. {f[b] : b \in DayBlocks(d, m)} = blocks /\ {g[a] : a \in DayAppointments(d, m)} = appts
    OBVIOUS
  <2> QED BY <2>1, <2>2
<1>5. \A b \in DayBlocks(d, m) : Span(b) \in Interval /\ Points(Span(b)) = Points(b)
  <2> SUFFICES ASSUME NEW b \in DayBlocks(d, m)
               PROVE  Span(b) \in Interval /\ Points(Span(b)) = Points(b)
    OBVIOUS
  <2>1. b.start \in Int /\ b.end \in Int
    BY <1>2, AvailabilityAssumption
  <2> QED BY <2>1 DEF Span, Interval, Points
<1>6. \A a \in DayAppointments(d, m) : Padded(a) \in Interval
  <2> SUFFICES ASSUME NEW a \in DayAppointments(d, m) PROVE Padded(a) \in Interval
    OBVIOUS
  <2>1. a.start \in Int /\ a.end \in Int
    BY <1>2 DEF AvailTypeOK
  <2>2. Catalogue.bufferBefore \in Int /\ Catalogue.bufferAfter \in Int
    BY AvailabilityAssumption
  <2> QED BY <2>1, <2>2 DEF Padded, Interval
<1>7. blocks \cup appts \in IntervalSets
  <2>1. IsFiniteSet(blocks \cup appts)
    BY <1>4, FS_Union
  <2>2. blocks \cup appts \subseteq Interval
    BY <1>5, <1>6
  <2> QED BY <2>1, <2>2 DEF IntervalSets
<1>8. \A p : p \in Covered(blocks \cup appts) <=>
               \/ \E b \in DayBlocks(d, m) : p \in Points(b)
               \/ \E a \in DayAppointments(d, m) : p \in Points(Padded(a))
  <2>1. \A p : p \in Covered(blocks \cup appts) <=>
                 \/ \E b \in DayBlocks(d, m) : p \in Points(Span(b))
                 \/ \E a \in DayAppointments(d, m) : p \in Points(Padded(a))
    BY DEF Covered
  <2> QED BY <2>1, <1>5
<1> HIDE DEF blocks, appts
<1>9. busy(d, m) \in IntervalSets /\ Covered(busy(d, m)) = Covered(blocks \cup appts)
  BY <1>1, <1>7, MergeIsExact
<1> QED BY <1>8, <1>9

\* A block outside the opening span takes none of the open time.
LEMMA FreeHours ==
  ASSUME AvailTypeOK, NEW d \in Date, NEW m \in Member
  PROVE  /\ free(d, m) \in SUBSET Interval
         /\ Normal(free(d, m))
         /\ Covered(free(d, m)) = FreePoints(d, m)
<1> DEFINE Worked == OpenPoints(d) \cap Covered(WindowsOn(d, ShiftRows(d, m)))
<1>1. work(d, m) \in IntervalSets /\ Covered(work(d, m)) = Worked
  BY WorkingHours
<1>2. /\ busy(d, m) \in IntervalSets
      /\ \A p : p \in Covered(busy(d, m)) <=>
              \/ \E b \in DayBlocks(d, m) : p \in Points(b)
              \/ \E a \in DayAppointments(d, m) : p \in Points(Padded(a))
  BY BusyHours
<1>3. /\ free(d, m) \in SUBSET Interval
      /\ Normal(free(d, m))
      /\ Covered(free(d, m)) = Worked \ Covered(busy(d, m))
  BY <1>1, <1>2, SubtractIsExact DEF free
<1>4. \A p : p \in FreePoints(d, m) <=>
               /\ p \in Worked
               /\ ~\E b \in {x \in blocked : x.staff \in {None, m}} : p \in Points(b)
               /\ ~\E a \in DayAppointments(d, m) : p \in Points(Padded(a))
  <2> DEFINE Blocked == UNION {Points(b) : b \in {x \in blocked : x.staff \in {None, m}}}
             Taken == UNION {Points(Padded(a)) : a \in DayAppointments(d, m)}
  <2>1. FreePoints(d, m) = Worked \ (Blocked \cup Taken)
    BY DEF FreePoints, ShiftRows, DayAppointments
  <2>2. \A p : p \in Blocked <=> \E b \in {x \in blocked : x.staff \in {None, m}} : p \in Points(b)
    OBVIOUS
  <2>3. \A p : p \in Taken <=> \E a \in DayAppointments(d, m) : p \in Points(Padded(a))
    OBVIOUS
  <2> HIDE DEF Worked, Blocked, Taken
  <2> QED BY <2>1, <2>2, <2>3
<1>5. ASSUME NEW p \in Worked, NEW b \in {x \in blocked : x.staff \in {None, m}}, p \in Points(b)
      PROVE  b \in DayBlocks(d, m)
  <2> DEFINE f == First(businessWindows(d)).start
             l == Last(businessWindows(d)).end
  <2>1. p \in OpenPoints(d)
    OBVIOUS
  <2>2. p \in Int /\ f <= p /\ p < l /\ f \in Int /\ l \in Int
    BY <2>1, OpeningSpan
  <2>3. b.start \in Int /\ b.end \in Int
    BY AvailabilityAssumption DEF AvailTypeOK
  <2>4. b.start <= p /\ p < b.end
    BY <1>5, <2>3 DEF Points
  <2> HIDE DEF f, l
  <2>5. b.end > f /\ b.start < l
    BY <2>2, <2>3, <2>4
  <2> QED BY <2>5 DEF DayBlocks, Reaches, f, l
<1> HIDE DEF Worked
<1>6. \A p : p \in FreePoints(d, m) <=> p \in Worked /\ p \notin Covered(busy(d, m))
  <2>1. DayBlocks(d, m) \subseteq {x \in blocked : x.staff \in {None, m}}
    BY DEF DayBlocks
  <2> QED BY <2>1, <1>2, <1>4, <1>5
<1> QED BY <1>3, <1>6
-----------------------------------------------------------------------------
\* The offers of a day.

\* The business window around an open point.
LEMMA WindowAround ==
  ASSUME AvailTypeOK, NEW d \in Date, NEW bw \in businessWindows(d), NEW s,
         bw.start <= s, s < bw.end, s \in Int
  PROVE  /\ bw \in Interval /\ bw.start \in Int /\ bw.end \in Int
         /\ s \in OpenPoints(d)
         /\ OpeningOf(d, s) = bw.start
<1> DEFINE B == businessWindows(d)
           Open == OpenPoints(d)
           back == {u \in Open : u <= s /\ u..s \subseteq Open}
<1>1. B \in SUBSET Interval /\ Normal(B) /\ Covered(B) = Open
  BY OpeningHours DEF IntervalSets
<1>2. bw \in Interval /\ bw.start \in Int /\ bw.end \in Int
  BY <1>1, PointsOf
<1>3. \A p : p \in Open <=> p \in Int /\ \E i \in B : i.start <= p /\ p < i.end
  BY <1>1, CoveredBy
<1>4. s \in Open /\ bw.start \in Open
  BY <1>2, <1>3
<1>5. bw.start..s \subseteq Open
  <2> SUFFICES ASSUME NEW p \in bw.start..s PROVE p \in Open
    OBVIOUS
  <2>1. p \in Int /\ bw.start <= p /\ p < bw.end
    BY <1>2
  <2> QED BY <2>1, <1>3
<1>6. ASSUME NEW v \in back PROVE bw.start <= v
  <2>1. v \in Int /\ v <= s /\ v..s \subseteq Open
    BY <1>3
  <2> SUFFICES ASSUME v < bw.start PROVE FALSE
    BY <2>1, <1>2
  <2>2. bw.start - 1 \in v..s
    BY <2>1, <1>2
  <2>3. PICK j \in B : j.start <= bw.start - 1 /\ bw.start - 1 < j.end
    BY <2>1, <2>2, <1>3
  <2>4. j.start \in Int /\ j.end \in Int
    BY <1>1, PointsOf
  <2>5. j = bw \/ j.end < bw.start \/ bw.end < j.start
    BY <1>1 DEF Normal
  <2> QED BY <2>3, <2>4, <2>5, <1>2
<1>7. bw.start \in back
  BY <1>4, <1>5
<1>8. \A u \in back : u \in Int
  BY <1>3
<1>9. OpeningOf(d, s) = CHOOSE u \in back : \A v \in back : u <= v
  BY DEF OpeningOf
<1> HIDE DEF back, Open
<1>10. \A u \in back : (\A v \in back : u <= v) => u = bw.start
  BY <1>2, <1>6, <1>7, <1>8
<1>11. OpeningOf(d, s) = bw.start
  BY <1>6, <1>7, <1>9, <1>10
<1> QED BY <1>2, <1>4, <1>11 DEF Open

\* It is open from s on for n exactly when the window around s lasts that long.
LEMMA OpenFor ==
  ASSUME AvailTypeOK, NEW d \in Date, NEW bw \in businessWindows(d), NEW s,
         bw.start <= s, s < bw.end, s \in Int, NEW n \in Nat \ {0}
  PROVE  s .. s + n - 1 \subseteq OpenPoints(d) <=> s + n <= bw.end
<1> DEFINE B == businessWindows(d)
           f == [start |-> s, end |-> s + n]
<1>1. B \in SUBSET Interval /\ Normal(B) /\ Covered(B) = OpenPoints(d)
  BY OpeningHours DEF IntervalSets
<1>2. bw \in Interval /\ bw.start \in Int /\ bw.end \in Int
  BY <1>1, PointsOf
<1>3. f \in Interval /\ isNonEmpty(f) /\ Points(f) = s .. s + n - 1 /\ f.start = s /\ f.end = s + n
  BY DEF Interval, isNonEmpty, Points
<1> HIDE DEF f
<1>4. ASSUME Points(f) \subseteq Covered(B) PROVE f.end <= bw.end
  <2>1. PICK i \in B : contains(i, f)
    BY <1>1, <1>3, <1>4, InOneInterval
  <2>2. i.start \in Int /\ i.end \in Int /\ i.start <= s /\ f.end <= i.end /\ s < f.end
    BY <2>1, <1>1, <1>3, PointsOf DEF contains
  <2>3. i = bw \/ i.end < bw.start \/ bw.end < i.start
    BY <1>1 DEF Normal
  <2> QED BY <2>2, <2>3, <1>2, <1>3
<1>5. ASSUME f.end <= bw.end PROVE Points(f) \subseteq Covered(B)
  <2> SUFFICES ASSUME NEW p \in s .. s + n - 1 PROVE p \in Covered(B)
    BY <1>3
  <2>1. p \in Int /\ bw.start <= p /\ p < bw.end
    BY <1>2, <1>3, <1>5
  <2> QED BY <2>1, <1>1, CoveredBy
<1> QED BY <1>1, <1>3, <1>4, <1>5

\* A candidate is an interval around the service it offers.
LEMMA CandidateType ==
  ASSUME AvailTypeOK, NEW m \in LoadedStaff, NEW s \in Int
  PROVE  /\ m \in Member /\ effectiveDuration(m) \in Nat \ {0}
         /\ Candidate(m, s) \in Interval
         /\ isNonEmpty(Candidate(m, s))
         /\ \A p : p \in Points(Candidate(m, s)) <=>
              /\ p \in Int
              /\ s - Catalogue.bufferBefore <= p
              /\ p < s + effectiveDuration(m) + Catalogue.bufferAfter
<1>1. m \in Member /\ effectiveDuration(m) \in Nat \ {0}
  BY DurationType DEF LoadedStaff
<1>2. Catalogue.bufferBefore \in Nat /\ Catalogue.bufferAfter \in Nat
  BY AvailabilityAssumption
<1> DEFINE c == Candidate(m, s)
<1>3. /\ c.start = s - Catalogue.bufferBefore
      /\ c.end = s + effectiveDuration(m) + Catalogue.bufferAfter
      /\ c = [start |-> c.start, end |-> c.end]
  BY DEF Candidate
<1>4. c.start \in Int /\ c.end \in Int /\ c.start < c.end
  BY <1>1, <1>2, <1>3
<1> HIDE DEF c
<1>5. c \in Interval
  BY <1>3, <1>4 DEF Interval
<1>6. \A p : p \in Points(c) <=> p \in Int /\ c.start <= p /\ p < c.end
  BY <1>5, PointsOf
<1>7. isNonEmpty(c)
  BY <1>4, <1>5, PointsOf
<1> QED BY <1>1, <1>3, <1>5, <1>6, <1>7 DEF c

\* What fits in a window, by points.
LEMMA FitsIsFree ==
  ASSUME AvailTypeOK, NEW d \in Date, NEW m \in LoadedStaff, NEW bw \in businessWindows(d),
         NEW s, bw.start <= s, s < bw.end, s \in Int
  PROVE  fits(d, m, bw, s) <=>
           s >= clock + CancelNotice /\ Points(Candidate(m, s)) \subseteq FreePoints(d, m)
<1>1. /\ m \in Member /\ effectiveDuration(m) \in Nat \ {0}
      /\ Candidate(m, s) \in Interval /\ isNonEmpty(Candidate(m, s))
      /\ \A p : p \in Points(Candidate(m, s)) <=>
              /\ p \in Int
              /\ s - Catalogue.bufferBefore <= p
              /\ p < s + effectiveDuration(m) + Catalogue.bufferAfter
  BY CandidateType
<1>2. fitsIn(free(d, m), Candidate(m, s)) <=> Points(Candidate(m, s)) \subseteq FreePoints(d, m)
  <2>1. /\ free(d, m) \in SUBSET Interval /\ Normal(free(d, m))
        /\ Covered(free(d, m)) = FreePoints(d, m)
    BY <1>1, FreeHours
  <2> QED BY <2>1, <1>1, FitsIsCovered
<1>3. Points(Candidate(m, s)) \subseteq FreePoints(d, m) => s + effectiveDuration(m) <= bw.end
  <2> DEFINE n == effectiveDuration(m)
  <2> SUFFICES ASSUME Points(Candidate(m, s)) \subseteq FreePoints(d, m) PROVE s + n <= bw.end
    OBVIOUS
  <2>1. n \in Nat \ {0} /\ Catalogue.bufferBefore \in Nat /\ Catalogue.bufferAfter \in Nat
    BY <1>1, AvailabilityAssumption
  <2> HIDE DEF n
  <2>2. FreePoints(d, m) \subseteq OpenPoints(d)
    BY DEF FreePoints
  <2>3. ASSUME NEW p \in s .. s + n - 1 PROVE p \in OpenPoints(d)
    <3>1. p \in Int /\ s - Catalogue.bufferBefore <= p /\ p < s + n + Catalogue.bufferAfter
      BY <2>1
    <3>2. p \in Points(Candidate(m, s))
      BY <3>1, <1>1 DEF n
    <3> QED BY <3>2, <2>2
  <2>4. s .. s + n - 1 \subseteq OpenPoints(d)
    BY <2>3
  <2> QED BY <2>1, <2>4, OpenFor
<1> QED BY <1>2, <1>3 DEF fits

\* The points a day is exact by, without the status.
ExactOffers(d) ==
  {x \in OpenPoints(d) \X LoadedStaff :
     /\ (x[1] - OpeningOf(d, x[1])) % slotIntervalMin = 0
     /\ x[1] .. x[1] + slotIntervalMin - 1 \subseteq OpenPoints(d)
     /\ x[1] >= clock + CancelNotice
     /\ Points(Candidate(x[2], x[1])) \subseteq FreePoints(d, x[2])}

WindowOffers(d, bw) ==
  {x \in gridOf(bw, slotIntervalMin) \X LoadedStaff : fits(d, x[2], bw, x[1])}

\* The loops over the windows offer the points a day is exact by.
LEMMA WindowsAreExact ==
  ASSUME AvailTypeOK, NEW d \in Date
  PROVE  UNION {WindowOffers(d, bw) : bw \in businessWindows(d)} = ExactOffers(d)
<1> DEFINE B == businessWindows(d)
<1>1. slotIntervalMin \in Nat \ {0}
  BY AvailabilityAssumption DEF slotIntervalMin
<1>2. B \in SUBSET Interval /\ Covered(B) = OpenPoints(d)
  BY OpeningHours DEF IntervalSets
<1>3. ASSUME NEW bw \in B, NEW s \in Int, bw.start <= s, s < bw.end, NEW m \in LoadedStaff
      PROVE  <<s, m>> \in WindowOffers(d, bw) <=> <<s, m>> \in ExactOffers(d)
  <2>1. /\ bw.start \in Int /\ bw.end \in Int /\ s \in OpenPoints(d)
        /\ OpeningOf(d, s) = bw.start
    BY <1>3, WindowAround
  <2>2. s .. s + slotIntervalMin - 1 \subseteq OpenPoints(d) <=> s + slotIntervalMin <= bw.end
    BY <1>1, <1>3, OpenFor
  <2>3. fits(d, m, bw, s) <=>
          s >= clock + CancelNotice /\ Points(Candidate(m, s)) \subseteq FreePoints(d, m)
    BY <1>3, FitsIsFree
  <2>4. s \in gridOf(bw, slotIntervalMin) <=>
          s + slotIntervalMin <= bw.end /\ (s - bw.start) % slotIntervalMin = 0
    <3>1. s \in bw.start .. bw.end - slotIntervalMin <=> s + slotIntervalMin <= bw.end
      BY <2>1, <1>1, <1>3
    <3> QED BY <3>1 DEF gridOf
  <2>5. <<s, m>> \in WindowOffers(d, bw) <=>
          s \in gridOf(bw, slotIntervalMin) /\ fits(d, m, bw, s)
    BY DEF WindowOffers
  <2>6. <<s, m>> \in ExactOffers(d) <=>
          /\ (s - OpeningOf(d, s)) % slotIntervalMin = 0
          /\ s .. s + slotIntervalMin - 1 \subseteq OpenPoints(d)
          /\ s >= clock + CancelNotice
          /\ Points(Candidate(m, s)) \subseteq FreePoints(d, m)
    BY <2>1 DEF ExactOffers
  <2> QED BY <2>1, <2>2, <2>3, <2>4, <2>5, <2>6
<1>4. ASSUME NEW bw \in B, NEW x \in WindowOffers(d, bw) PROVE x \in ExactOffers(d)
  <2>1. PICK s \in gridOf(bw, slotIntervalMin), m \in LoadedStaff : x = <<s, m>>
    BY DEF WindowOffers
  <2>2. bw.start \in Int /\ bw.end \in Int
    BY <1>2, PointsOf
  <2>3. s \in Int /\ bw.start <= s /\ s < bw.end
    BY <2>2, <1>1 DEF gridOf
  <2> QED BY <2>1, <2>3, <1>3
<1>5. ASSUME NEW x \in ExactOffers(d) PROVE \E bw \in B : x \in WindowOffers(d, bw)
  <2>1. PICK s \in OpenPoints(d), m \in LoadedStaff : x = <<s, m>>
    BY DEF ExactOffers
  <2>2. PICK bw \in B : s \in Int /\ bw.start <= s /\ s < bw.end
    BY <1>2, CoveredBy
  <2> QED BY <2>1, <2>2, <1>3
<1> QED BY <1>4, <1>5

\* computeDay offers them on the days that are neither past nor holidays.
LEMMA DayIsExact ==
  ASSUME AvailTypeOK, NEW d \in Date
  PROVE  computeDay(d, slotIntervalMin) = IF isPast(d) \/ isHoliday(d) THEN {} ELSE ExactOffers(d)
<1>1. UNION {WindowOffers(d, bw) : bw \in businessWindows(d)} = ExactOffers(d)
  BY WindowsAreExact
<1>2. computeDay(d, slotIntervalMin) =
        IF dayStatus(d) # "open" THEN {}
        ELSE UNION {WindowOffers(d, bw) : bw \in businessWindows(d)}
  BY DEF computeDay, WindowOffers
<1>3. businessWindows(d) = {} => ExactOffers(d) = {}
  <2>1. businessWindows(d) = {} => UNION {WindowOffers(d, bw) : bw \in businessWindows(d)} = {}
    OBVIOUS
  <2> QED BY <2>1, <1>1
<1>4. dayStatus(d) = "open" <=> ~isPast(d) /\ ~isHoliday(d) /\ businessWindows(d) # {}
  BY DEF dayStatus
<1> QED BY <1>1, <1>2, <1>3, <1>4

\* On every day, for every grid, every table and every bound, the merges,
\* intersections and subtractions of the engine offer exactly the grid points of
\* an opening at which the service and its buffers find nothing but free time.
THEOREM OffersAlwaysExact == AvailSpec => []OffersAreExact
<1>1. AvailTypeOK => OffersAreExact
  BY DayIsExact DEF OffersAreExact, ExactOffers
<1> QED BY <1>1, AvailTypes, PTL
-----------------------------------------------------------------------------
\* What is offered can be booked.

\* Two points of one grid are a multiple of its step apart.
LEMMA SameGrid ==
  ASSUME NEW n \in Nat \ {0}, NEW a \in Int, NEW b \in Int, NEW c \in Int,
         (a - c) % n = 0, (b - c) % n = 0
  PROVE  (a - b) % n = 0
<1>1. \A x \in Int : x % n = 0 => \E q \in Int : x = q * n
  OBVIOUS
<1>2. \A q \in Int : (q * n) % n = 0
  OBVIOUS
<1>3. a - c \in Int /\ b - c \in Int
  OBVIOUS
<1>4. PICK q \in Int : a - c = q * n
  BY <1>1, <1>3
<1>5. PICK r \in Int : b - c = r * n
  BY <1>1, <1>3
<1>6. q - r \in Int /\ (q - r) * n = q * n - r * n
  OBVIOUS
<1>7. a - b = (q - r) * n
  BY <1>4, <1>5, <1>6
<1> QED BY <1>2, <1>6, <1>7

\* A query of one date offers the slots of that date, and a wider one no more.
LEMMA OffersByDay ==
  AvailTypeOK => AllOffers = UNION {computeDay(d, slotIntervalMin) : d \in Date}
<1> SUFFICES ASSUME AvailTypeOK
             PROVE  AllOffers = UNION {computeDay(d, slotIntervalMin) : d \in Date}
  OBVIOUS
<1>1. \A from, to : get(from, to, None, None) =
        {x \in UNION {computeDay(d, slotIntervalMin) : d \in enumerateDates(from, to)} :
           validateRange(from, to)}
  BY DEF get, computeAvailability
<1>2. \A from, to : enumerateDates(from, to) \subseteq Date
  BY DEF enumerateDates
<1>3. \A d \in Date : d \in enumerateDates(d, d) /\ validateRange(d, d)
  <2> SUFFICES ASSUME NEW d \in Date PROVE d \in enumerateDates(d, d) /\ validateRange(d, d)
    OBVIOUS
  <2>1. d \in Int /\ MaxRangeDays \in Nat
    BY AvailabilityAssumption
  <2>2. d <= d /\ d - d = 0
    BY <2>1
  <2> QED BY <2>1, <2>2 DEF enumerateDates, validateRange
<1>4. ASSUME NEW x \in AllOffers PROVE \E d \in Date : x \in computeDay(d, slotIntervalMin)
  <2>1. PICK from \in Date, to \in Date : x \in get(from, to, None, None)
    BY DEF AllOffers
  <2> QED BY <2>1, <1>1, <1>2
<1>5. ASSUME NEW d \in Date, NEW x \in computeDay(d, slotIntervalMin) PROVE x \in AllOffers
  <2>1. x \in get(d, d, None, None)
    BY <1>1, <1>3
  <2> QED BY <2>1 DEF AllOffers
<1> QED BY <1>4, <1>5

\* An open point lies in the times of one row of its date.
LEMMA RowAround ==
  ASSUME AvailTypeOK, NEW d \in Date, NEW t \in OpenPoints(d)
  PROVE  \E w \in OpenRows(d) :
           /\ windowToUtcInterval(d, w) # None
           /\ windowToUtcInterval(d, w) \in Interval
           /\ t \in Points(windowToUtcInterval(d, w))
           /\ w.start \in WallClock /\ w.end \in WallClock
           /\ Utc[d][w.start] # None /\ Utc[d][w.end] # None
           /\ t \in Int /\ Utc[d][w.start] <= t /\ t < Utc[d][w.end]
<1>1. TypedRows(OpenRows(d))
  BY RowsAreTyped
<1>2. PICK w \in OpenRows(d) :
         windowToUtcInterval(d, w) # None /\ t \in Points(windowToUtcInterval(d, w))
  BY DEF OpenPoints, Covered, WindowsOn, OpenRows
<1>3. w.start \in WallClock /\ w.end \in WallClock
  BY <1>1 DEF TypedRows
<1> DEFINE i == windowToUtcInterval(d, w)
<1>4. /\ i \in Interval /\ i.start = Utc[d][w.start] /\ i.end = Utc[d][w.end]
      /\ Utc[d][w.start] # None /\ Utc[d][w.end] # None
  BY <1>2, <1>3, TimesOf
<1> HIDE DEF i
<1>5. t \in Int /\ i.start <= t /\ t < i.end
  BY <1>2, <1>4, PointsOf DEF i
<1> QED BY <1>2, <1>3, <1>4, <1>5 DEF i

\* The local date of an open point is the date it is open on.
LEMMA DateOfOpenPoint ==
  ASSUME AvailTypeOK, NEW d \in Date, NEW t \in OpenPoints(d)
  PROVE  LocalDate(t) = d
<1> DEFINE begun == {e \in Date : \E w \in WallClock : Utc[e][w] # None /\ Utc[e][w] <= t}
<1>1. PICK w \in OpenRows(d) :
           /\ w.start \in WallClock /\ w.end \in WallClock
           /\ Utc[d][w.start] # None /\ Utc[d][w.end] # None
           /\ t \in Int /\ Utc[d][w.start] <= t /\ t < Utc[d][w.end]
  BY RowAround
<1>2. Date \subseteq Int
  BY AvailabilityAssumption
<1>3. d \in begun
  BY <1>1
<1>4. \A e \in begun : e <= d
  <2> SUFFICES ASSUME NEW e \in begun, d < e PROVE FALSE
    BY <1>2
  <2>1. PICK v \in WallClock : Utc[e][v] # None /\ Utc[e][v] <= t
    OBVIOUS
  <2>2. Utc[d][w.end] < Utc[e][v]
    BY <1>1, <2>1, UtcOrder
  <2>3. Utc[d][w.end] \in Int /\ Utc[e][v] \in Int
    BY <1>1, <2>1, UtcType
  <2> QED BY <1>1, <2>1, <2>2, <2>3
<1>5. LocalDate(t) = CHOOSE c \in begun : \A e \in begun : e <= c
  BY DEF LocalDate
<1>6. \A c \in begun : c \in Int
  BY <1>2
<1> HIDE DEF begun
<1>7. \A c \in begun : (\A e \in begun : e <= c) => c = d
  BY <1>3, <1>4, <1>6
<1> QED BY <1>3, <1>4, <1>5, <1>7

\* The window the booking check anchors on holds the time asked for.
LEMMA Anchor ==
  ASSUME AvailTypeOK, NEW d \in Date, NEW t \in OpenPoints(d)
  PROVE  Containing(t) # None /\ Containing(t).start \in Int
<1> DEFINE around(w) == LET i == windowToUtcInterval(d, w) IN i # None /\ t \in Points(i)
           hit == {w \in OpenRows(d) : around(w)}
           key == [w \in hit |-> w.start]
<1>1. LocalDate(t) = d
  BY DateOfOpenPoint
<1>2. Containing(t) =
        IF hit = {} THEN None
        ELSE windowToUtcInterval(d, CHOOSE w \in hit : \A v \in hit : w.start <= v.start)
  BY <1>1 DEF Containing, OpenRows, weekdayOfDate
<1>3. TypedRows(OpenRows(d)) /\ WallClock \subseteq Int
  BY RowsAreTyped, AvailabilityAssumption
<1>4. IsFiniteSet(hit) /\ \A w \in hit : w.start \in WallClock /\ w.end \in WallClock
  BY <1>3, FS_Subset DEF TypedRows
<1>5. hit # {}
  BY RowAround
<1>6. \A w \in hit : windowToUtcInterval(d, w) # None
  OBVIOUS
<1> HIDE DEF hit
<1>7. \E w \in hit : \A v \in hit : w.start <= v.start
  <2>1. \A w \in hit : key[w] \in Int /\ key[w] = w.start
    BY <1>3, <1>4
  <2> HIDE DEF key
  <2>2. PICK w \in hit : \A v \in hit : key[w] <= key[v]
    BY <1>4, <1>5, <2>1, LeastKey
  <2> QED BY <2>1, <2>2
<1>8. PICK w \in hit : Containing(t) = windowToUtcInterval(d, w)
  BY <1>2, <1>5, <1>7
<1>9. Containing(t) # None /\ Containing(t) \in Interval
  BY <1>4, <1>6, <1>8, TimesOf
<1> QED BY <1>9, PointsOf

\* An appointment in the way of a candidate would have taken its points.
LEMMA NothingInTheWay ==
  ASSUME AvailTypeOK, NEW d \in Date, NEW m \in LoadedStaff, NEW t \in OpenPoints(d), t \in Int,
         Points(Candidate(m, t)) \subseteq FreePoints(d, m)
  PROVE  \A b \in Conflicts(m, t) : b.state = "completed"
<1> SUFFICES ASSUME NEW b \in Conflicts(m, t), b.state # "completed" PROVE FALSE
  OBVIOUS
<1> DEFINE n == effectiveDuration(m)
           f == First(businessWindows(d)).start
           l == Last(businessWindows(d)).end
           p == IF b.start > t THEN b.start ELSE t
<1>1. /\ n \in Nat \ {0}
      /\ \A q : q \in Points(Candidate(m, t)) <=>
              /\ q \in Int
              /\ t - Catalogue.bufferBefore <= q
              /\ q < t + n + Catalogue.bufferAfter
  BY CandidateType
<1>2. Catalogue.bufferBefore \in Nat /\ Catalogue.bufferAfter \in Nat
  BY AvailabilityAssumption
<1> HIDE DEF n
<1>3. b \in booked /\ b.staff = m /\ b.start < t + n /\ t < b.end
  BY DEF Conflicts, overlaps, Appointment, n
<1>4. b.start \in Int /\ b.end \in Int /\ b.start < b.end
  BY <1>3 DEF AvailTypeOK
<1>5. p \in Int /\ p \in Points(Candidate(m, t)) /\ b.start <= p /\ p < b.end /\ t <= p /\ p < t + n
  <2>1. p \in Int /\ b.start <= p /\ p < b.end /\ t <= p /\ p < t + n
    BY <1>1, <1>3, <1>4
  <2> HIDE DEF p
  <2> QED BY <2>1, <1>1, <1>2
<1> HIDE DEF p
<1>6. p \in OpenPoints(d) /\ p \in FreePoints(d, m)
  BY <1>5 DEF FreePoints
<1>7. f \in Int /\ l \in Int /\ f <= p /\ p < l
  BY <1>6, OpeningSpan
<1> HIDE DEF f, l
<1>8. b.end > f /\ b.start < l
  BY <1>4, <1>5, <1>7
<1>9. b \in DayAppointments(d, m)
  BY <1>3, <1>8 DEF DayAppointments, LoadedAppointments, Reaches, f, l
<1>10. p \in Points(Padded(b))
  <2>1. /\ Padded(b).start = b.start - Catalogue.bufferBefore
        /\ Padded(b).end = b.end + Catalogue.bufferAfter
    BY DEF Padded
  <2>2. Padded(b).start <= p /\ p <= Padded(b).end - 1
    BY <2>1, <1>2, <1>4, <1>5
  <2>3. Padded(b).start \in Int /\ Padded(b).end \in Int
    BY <2>1, <1>2, <1>4
  <2>4. Padded(b) \in Interval
    BY <2>3 DEF Padded, Interval
  <2>5. p < Padded(b).end
    BY <2>2, <2>3, <1>5
  <2>6. p \in Int /\ Padded(b).start <= p
    BY <2>2, <1>5
  <2> DEFINE i == Padded(b)
  <2> HIDE DEF i
  <2>7. i \in Interval /\ p \in Int /\ i.start <= p /\ p < i.end
    BY <2>4, <2>5, <2>6 DEF i
  <2>8. p \in Points(i)
    BY <2>7, PointsOf
  <2> QED BY <2>8 DEF i
<1>11. p \notin UNION {Points(Padded(a)) : a \in DayAppointments(d, m)}
  BY <1>6 DEF FreePoints, DayAppointments
<1> QED BY <1>9, <1>10, <1>11

\* Where the two grids agree and no completed appointment still holds the time,
\* POST /appointments accepts every slot GET /availability offers.
THEOREM OfferedAlwaysBookable == AvailSpec => []OfferedIsBookable
<1>1. AvailTypeOK => OfferedIsBookable
  <2> SUFFICES ASSUME AvailTypeOK, NEW x \in AllOffers,
                      Catalogue.slotInterval = DefaultStep,
                      (Containing(x[1]).start - OpeningOf(LocalDate(x[1]), x[1])) % DefaultStep = 0,
                      \A b \in Conflicts(x[2], x[1]) : b.state # "completed"
               PROVE  Bookable(x[2], x[1])
    BY DEF OfferedIsBookable
  <2>1. PICK d \in Date : x \in computeDay(d, slotIntervalMin)
    BY OffersByDay
  <2>2. x \in ExactOffers(d)
    BY <2>1, DayIsExact
  <2>3. PICK t \in OpenPoints(d), m \in LoadedStaff : x = <<t, m>>
    BY <2>2 DEF ExactOffers
  <2>4. /\ (t - OpeningOf(d, t)) % slotIntervalMin = 0
        /\ t >= clock + CancelNotice
        /\ Points(Candidate(m, t)) \subseteq FreePoints(d, m)
    BY <2>2, <2>3 DEF ExactOffers
  <2>5. LocalDate(t) = d
    BY DateOfOpenPoint
  <2>6. PICK bw \in businessWindows(d) : t \in Int /\ bw.start <= t /\ t < bw.end
    <3>1. businessWindows(d) \in SUBSET Interval /\ Covered(businessWindows(d)) = OpenPoints(d)
      BY OpeningHours DEF IntervalSets
    <3> QED BY <3>1, CoveredBy
  <2>7. OpeningOf(d, t) \in Int
    BY <2>6, WindowAround
  <2>8. Containing(t) # None /\ Containing(t).start \in Int
    BY Anchor
  <2>9. (t - Containing(t).start) % Catalogue.slotInterval = 0
    <3>1. DefaultStep \in Nat \ {0}
      BY AvailabilityAssumption
    <3>2. /\ (t - OpeningOf(d, t)) % DefaultStep = 0
          /\ (Containing(t).start - OpeningOf(d, t)) % DefaultStep = 0
      BY <2>3, <2>4, <2>5 DEF slotIntervalMin
    <3>3. (t - Containing(t).start) % DefaultStep = 0
      BY <3>1, <3>2, <2>6, <2>7, <2>8, SameGrid
    <3> QED BY <3>3
  <2>10. assertOnSlotBoundary(t)
    BY <2>8, <2>9 DEF assertOnSlotBoundary
  <2>11. Conflicts(m, t) = {}
    <3>1. \A b \in Conflicts(m, t) : b.state = "completed"
      BY <2>4, <2>6, NothingInTheWay
    <3> QED BY <3>1, <2>3
  <2>12. t > clock - Skew
    <3>1. clock \in Int /\ CancelNotice \in Nat /\ Skew \in Nat \ {0}
      BY AvailabilityAssumption DEF AvailTypeOK
    <3> QED BY <3>1, <2>4, <2>6
  <2>13. m \in Member \ inactive /\ \E a \in assigned : a.staff = m
    BY DEF LoadedStaff
  <2> QED BY <2>3, <2>10, <2>11, <2>12, <2>13 DEF Bookable
<1> QED BY <1>1, AvailTypes, PTL
-----------------------------------------------------------------------------
\* The next slots.

\* Slots by day, an earlier day's before a later day's.
InOrder(S) ==
  /\ IsFiniteSet(S)
  /\ S \subseteq Int \X Int
  /\ \A s, r \in S : s[1] < r[1] => s[2] < r[2]

\* The slot the two loops visit next starts before all the others.
LEMMA SoonestOne ==
  ASSUME NEW T, InOrder(T), NEW S \in SUBSET T, S # {}
  PROVE  Soonest(S) \in S /\ \A r \in S : r = Soonest(S) \/ Soonest(S)[2] < r[2]
<1> DEFINE before(s, r) == s[1] < r[1] \/ (s[1] = r[1] /\ s[2] <= r[2])
           key == [s \in S |-> s[2]]
<1>1. \A s \in S : s[1] \in Int /\ s[2] \in Int /\ s = <<s[1], s[2]>>
  BY DEF InOrder
<1>2. IsFiniteSet(S)
  BY FS_Subset DEF InOrder
<1>3. \A s \in S : key[s] = s[2] /\ key[s] \in Int
  BY <1>1
<1> HIDE DEF key
<1>4. PICK m \in S : \A r \in S : key[m] <= key[r]
  BY <1>2, <1>3, LeastKey
<1>5. \A r \in S : before(m, r)
  <2> SUFFICES ASSUME NEW r \in S PROVE before(m, r)
    OBVIOUS
  <2>1. m[2] <= r[2] /\ (r[1] < m[1] => r[2] < m[2])
    BY <1>3, <1>4 DEF InOrder
  <2> QED BY <2>1, <1>1
<1>6. Soonest(S) = CHOOSE s \in S : \A r \in S : before(s, r)
  BY DEF Soonest
<1>7. Soonest(S) \in S /\ \A r \in S : before(Soonest(S), r)
  <2> HIDE DEF before
  <2> QED BY <1>5, <1>6
<1> DEFINE s == Soonest(S)
<1> HIDE DEF s
<1>8. ASSUME NEW r \in S PROVE r = s \/ s[2] < r[2]
  <2>1. s \in S /\ before(s, r)
    BY <1>7 DEF s
  <2>2. s[1] < r[1] => s[2] < r[2]
    BY <2>1 DEF InOrder
  <2>3. s[1] = r[1] /\ s[2] = r[2] => s = r
    BY <2>1, <1>1
  <2> QED BY <2>1, <2>2, <2>3, <1>1
<1> QED BY <1>7, <1>8 DEF s

\* What holds after k rounds of the two loops over S: flat has, in ascending
\* order, what has been visited, which starts before all that is left.
PushStates(S, k) ==
  {st \in [rest: SUBSET S, flat: Seq(Int)] :
     /\ st.rest = {} \/ Len(st.flat) = k
     /\ \A i \in 1..Len(st.flat) : \E s \in S \ st.rest : st.flat[i] = s[2]
     /\ \A s \in S \ st.rest : \E i \in 1..Len(st.flat) : st.flat[i] = s[2]
     /\ \A i, j \in 1..Len(st.flat) : i < j => st.flat[i] < st.flat[j]
     /\ \A i \in 1..Len(st.flat), r \in st.rest : st.flat[i] < r[2]}

\* One round of computeNextSlots' loops.
LEMMA PushRoundKeeps ==
  ASSUME NEW S, InOrder(S), NEW k \in Nat \ {0}, NEW st \in PushStates(S, k - 1)
  PROVE  pushRound(st) \in PushStates(S, k)
<1>1. /\ st \in [rest: SUBSET S, flat: Seq(Int)]
      /\ st.rest = {} \/ Len(st.flat) = k - 1
      /\ \A i \in 1..Len(st.flat) : \E s \in S \ st.rest : st.flat[i] = s[2]
      /\ \A s \in S \ st.rest : \E i \in 1..Len(st.flat) : st.flat[i] = s[2]
      /\ \A i, j \in 1..Len(st.flat) : i < j => st.flat[i] < st.flat[j]
      /\ \A i \in 1..Len(st.flat), r \in st.rest : st.flat[i] < r[2]
  BY DEF PushStates
<1>2. CASE st.rest = {}
  <2>1. pushRound(st) = st
    BY <1>2 DEF pushRound
  <2> QED BY <2>1, <1>1, <1>2 DEF PushStates
<1>3. CASE st.rest # {}
  <2> DEFINE s == Soonest(st.rest)
             n == Len(st.flat)
             new == pushRound(st)
  <2>1. s \in st.rest /\ \A r \in st.rest : r = s \/ s[2] < r[2]
    BY <1>1, <1>3, SoonestOne
  <2>2. new = [rest |-> st.rest \ {s}, flat |-> Append(st.flat, s[2])]
    BY <1>3 DEF pushRound
  <2> HIDE DEF s, new
  <2>3. s \in S /\ s[2] \in Int /\ n \in Nat /\ n = k - 1 /\ st.flat \in Seq(Int)
    BY <2>1, <1>1, <1>3 DEF InOrder
  <2>4. /\ new.rest = st.rest \ {s} /\ new.flat \in Seq(Int)
        /\ Len(new.flat) = n + 1
        /\ new.flat[n + 1] = s[2]
        /\ \A i \in 1..n : new.flat[i] = st.flat[i]
        /\ new = [rest |-> new.rest, flat |-> new.flat]
    BY <2>2, <2>3
  <2>5. \A i \in 1..n + 1 : i \in 1..n \/ i = n + 1
    BY <2>3
  <2>6. 1..n \subseteq 1..n + 1 /\ n + 1 \in 1..n + 1
    BY <2>3
  <2> HIDE DEF n
  <2>7. \A i \in 1..n + 1 : \E r \in S \ new.rest : new.flat[i] = r[2]
    <3> SUFFICES ASSUME NEW i \in 1..n + 1 PROVE \E r \in S \ new.rest : new.flat[i] = r[2]
      OBVIOUS
    <3>1. CASE i \in 1..n
      <4>1. PICK r \in S \ st.rest : st.flat[i] = r[2]
        BY <3>1, <1>1 DEF n
      <4> QED BY <4>1, <3>1, <2>4
    <3>2. CASE i = n + 1
      BY <3>2, <2>3, <2>4
    <3> QED BY <3>1, <3>2, <2>5
  <2>8. \A r \in S \ new.rest : \E i \in 1..n + 1 : new.flat[i] = r[2]
    <3> SUFFICES ASSUME NEW r \in S \ new.rest PROVE \E i \in 1..n + 1 : new.flat[i] = r[2]
      OBVIOUS
    <3>1. CASE r \in st.rest
      <4>1. r = s
        BY <3>1, <2>4
      <4> QED BY <4>1, <2>4, <2>6
    <3>2. CASE r \notin st.rest
      <4>1. PICK i \in 1..n : st.flat[i] = r[2]
        BY <3>2, <1>1 DEF n
      <4> QED BY <4>1, <2>4, <2>6
    <3> QED BY <3>1, <3>2
  <2>9. \A i, j \in 1..n + 1 : i < j => new.flat[i] < new.flat[j]
    <3> SUFFICES ASSUME NEW i \in 1..n + 1, NEW j \in 1..n + 1, i < j
                 PROVE  new.flat[i] < new.flat[j]
      OBVIOUS
    <3>1. i \in 1..n
      BY <2>3
    <3>2. CASE j \in 1..n
      BY <3>1, <3>2, <2>4, <1>1 DEF n
    <3>3. CASE j = n + 1
      BY <3>1, <3>3, <2>1, <2>4, <1>1 DEF n
    <3> QED BY <3>2, <3>3, <2>5
  <2>10. \A i \in 1..n + 1, r \in new.rest : new.flat[i] < r[2]
    <3> SUFFICES ASSUME NEW i \in 1..n + 1, NEW r \in new.rest PROVE new.flat[i] < r[2]
      OBVIOUS
    <3>1. r \in st.rest /\ s[2] < r[2]
      BY <2>1, <2>4
    <3>2. CASE i \in 1..n
      BY <3>1, <3>2, <2>4, <1>1 DEF n
    <3>3. CASE i = n + 1
      BY <3>1, <3>3, <2>4
    <3> QED BY <3>2, <3>3, <2>5
  <2>11. new \in [rest: SUBSET S, flat: Seq(Int)]
    BY <2>4, <1>1
  <2>12. Len(new.flat) = k
    BY <2>3, <2>4
  <2>13. new \in PushStates(S, k)
    <3>1. /\ \A i \in 1..Len(new.flat) : \E r \in S \ new.rest : new.flat[i] = r[2]
          /\ \A r \in S \ new.rest : \E i \in 1..Len(new.flat) : new.flat[i] = r[2]
          /\ \A i, j \in 1..Len(new.flat) : i < j => new.flat[i] < new.flat[j]
          /\ \A i \in 1..Len(new.flat), r \in new.rest : new.flat[i] < r[2]
      BY <2>4, <2>7, <2>8, <2>9, <2>10
    <3> QED BY <3>1, <2>11, <2>12 DEF PushStates
  <2> QED BY <2>13 DEF new
<1> QED BY <1>2, <1>3

\* The loops, as the recursion defines them.
LEMMA PushLoopKeeps ==
  ASSUME NEW S, InOrder(S), NEW n \in Nat
  PROVE  pushLoop(S, n)[n] \in PushStates(S, n)
<1> DEFINE start == [rest |-> S, flat |-> <<>>]
           G == [k \in 0..n |-> PushStates(S, k)]
           U == UNION {PushStates(S, k) : k \in 0..n}
           round == [st \in U |-> pushRound(st)]
           F(f) == [k \in 0..n |-> IF k = 0 THEN start ELSE pushRound(f[k - 1])]
<1>1. n \in Nat
  OBVIOUS
<1>2. start \in PushStates(S, 0)
  <2>1. /\ start \in [rest: SUBSET S, flat: Seq(Int)]
        /\ Len(start.flat) = 0 /\ 1..Len(start.flat) = {} /\ S \ start.rest = {}
    OBVIOUS
  <2> HIDE DEF start
  <2> QED BY <2>1 DEF PushStates
<1>3. \A k \in 1..n : \A st \in G[k - 1] : st \in U /\ pushRound(st) \in G[k]
  <2> SUFFICES ASSUME NEW k \in 1..n, NEW st \in G[k - 1]
               PROVE  st \in U /\ pushRound(st) \in G[k]
    OBVIOUS
  <2>1. k - 1 \in 0..n /\ k \in 0..n /\ k \in Nat \ {0}
    BY <1>1
  <2> QED BY <2>1, PushRoundKeeps
<1>4. G[0] = PushStates(S, 0) /\ G[n] = PushStates(S, n)
  BY <1>1
<1>5. G \in [0..n -> SUBSET U]
  OBVIOUS
<1> HIDE DEF G, U, start
<1>6. \A k \in 1..n : \A st \in G[k - 1] : round[st] = pushRound(st) /\ round[st] \in G[k]
  BY <1>3
<1> HIDE DEF round
<1>7. PICK f \in [0..n -> U] : Runs(f, n, G, round, start)
  <2>1. start \in G[0] /\ Leads(round, G, n)
    BY <1>2, <1>4, <1>6 DEF Leads
  <2> QED BY <1>1, <1>5, <2>1, LoopExists
<1>8. f = F(f)
  <2>1. \A k \in 0..n : k # 0 => k \in 1..n /\ k - 1 \in 0..n
    BY <1>1
  <2>2. \A k \in 0..n : k # 0 => f[k] = pushRound(f[k - 1])
    BY <2>1, <1>6, <1>7 DEF Runs
  <2>3. \A k \in 0..n : f[k] = IF k = 0 THEN start ELSE pushRound(f[k - 1])
    BY <2>2, <1>7 DEF Runs
  <2> QED BY <2>3, <1>7
<1>9. pushLoop(S, n) = CHOOSE g : g = F(g)
  BY DEF pushLoop, start
<1> HIDE DEF F
<1>10. pushLoop(S, n) = F(pushLoop(S, n))
  BY <1>8, <1>9
<1>11. \A k \in 0..n : pushLoop(S, n)[k] =
                         IF k = 0 THEN start ELSE pushRound(pushLoop(S, n)[k - 1])
  BY <1>10 DEF F
<1>12. pushLoop(S, n)[0] \in G[0]
  BY <1>1, <1>2, <1>4, <1>11
<1>13. \A k \in 1..n : pushLoop(S, n)[k - 1] \in G[k - 1] => pushLoop(S, n)[k] \in G[k]
  <2>1. \A k \in 1..n : k \in 0..n /\ k # 0
    BY <1>1
  <2> QED BY <2>1, <1>3, <1>11
<1>14. \A k \in 0..n : pushLoop(S, n)[k] \in G[k]
  BY <1>1, <1>12, <1>13, LoopKeeps
<1> QED BY <1>1, <1>4, <1>14

\* An offer is an open point of its day, no earlier than the notice allows.
LEMMA OfferedPoint ==
  ASSUME AvailTypeOK, NEW d \in Date, NEW x \in computeDay(d, slotIntervalMin)
  PROVE  x[1] \in OpenPoints(d) /\ x[1] \in Int /\ x[1] >= clock + CancelNotice
<1>1. x \in ExactOffers(d)
  BY DayIsExact
<1>2. x[1] \in OpenPoints(d) /\ x[1] >= clock + CancelNotice
  BY <1>1 DEF ExactOffers
<1> QED BY <1>2, OpeningSpan

\* The open points of a date are finitely many.
LEMMA OpenTimeIsFinite ==
  ASSUME AvailTypeOK, NEW d \in Date
  PROVE  IsFiniteSet(OpenPoints(d))
<1> DEFINE B == businessWindows(d)
           f == [i \in B |-> Points(i)]
           all == {f[i] : i \in B}
<1>1. IsFiniteSet(B) /\ B \in SUBSET Interval /\ Covered(B) = OpenPoints(d)
  BY OpeningHours DEF IntervalSets
<1>2. Covered(B) = UNION all
  BY DEF Covered
<1>3. \A i \in B : f[i] = i.start .. i.end - 1 /\ i.start \in Int /\ i.end - 1 \in Int
  BY <1>1, PointsOf DEF Points
<1> HIDE DEF B, f
<1>4. \A i \in B : IsFiniteSet(f[i])
  BY <1>3, FS_Interval
<1>5. IsFiniteSet(all)
  BY <1>1, ImageFinite
<1>6. \A T \in all : IsFiniteSet(T)
  BY <1>4
<1> HIDE DEF all
<1>7. IsFiniteSet(UNION all)
  BY <1>5, <1>6, FS_UNION
<1> QED BY <1>1, <1>2, <1>7

\* No time of a later date comes before an open point.
LEMMA DatesInOrder ==
  ASSUME AvailTypeOK, NEW d \in Date, NEW t \in OpenPoints(d), NEW e \in Date,
         NEW v \in WallClock, Utc[e][v] # None, d < e
  PROVE  t < Utc[e][v]
<1>1. PICK w \in OpenRows(d) :
           /\ w.start \in WallClock /\ w.end \in WallClock
           /\ Utc[d][w.start] # None /\ Utc[d][w.end] # None
           /\ t \in Int /\ Utc[d][w.start] <= t /\ t < Utc[d][w.end]
  BY RowAround
<1>2. Utc[d][w.end] < Utc[e][v]
  BY <1>1, UtcOrder
<1>3. Utc[d][w.end] \in Int /\ Utc[e][v] \in Int
  BY <1>1, UtcType
<1> QED BY <1>1, <1>2, <1>3

\* The slots of a range, by the day that offers them.
LEMMA SlotMembers ==
  ASSUME NEW from, NEW to, NEW s
  PROVE  s \in SlotsOf(from, to) <=>
           \E d \in Date, x \in UNION {computeDay(e, slotIntervalMin) : e \in Date} :
             from <= d /\ d <= to /\ x \in computeDay(d, slotIntervalMin) /\ s = <<d, x[1]>>
BY DEF SlotsOf, enumerateDates

\* The slots of a range are finitely many and in the order of their dates.
LEMMA SlotsInOrder ==
  ASSUME AvailTypeOK, NEW from, NEW to
  PROVE  InOrder(SlotsOf(from, to))
<1> DEFINE S == SlotsOf(from, to)
           f == [d \in Date |-> OpenPoints(d)]
           days == {f[d] : d \in Date}
<1>1. Date \subseteq Int /\ IsFiniteSet(Date)
  BY AvailabilityAssumption
<1>2. \A s \in S : \E d \in Date : \E t \in OpenPoints(d) : s = <<d, t>>
  BY SlotMembers, OfferedPoint
<1> HIDE DEF S
<1>3. IsFiniteSet(S)
  <2>1. IsFiniteSet(days)
    BY <1>1, ImageFinite
  <2>2. \A T \in days : IsFiniteSet(T)
    BY OpenTimeIsFinite
  <2>3. S \subseteq Date \X UNION days
    BY <1>2
  <2> HIDE DEF days
  <2>4. IsFiniteSet(UNION days)
    BY <2>1, <2>2, FS_UNION
  <2>5. IsFiniteSet(Date \X UNION days)
    BY <2>4, <1>1, FS_Product
  <2> QED BY <2>3, <2>5, FS_Subset
<1>4. S \subseteq Int \X Int
  <2>1. \A d \in Date : \A t \in OpenPoints(d) : t \in Int
    BY OpeningSpan
  <2> QED BY <2>1, <1>1, <1>2
<1>5. ASSUME NEW s \in S, NEW r \in S, s[1] < r[1] PROVE s[2] < r[2]
  <2>1. PICK d \in Date : \E t \in OpenPoints(d) : s = <<d, t>>
    BY <1>2
  <2>2. PICK e \in Date : \E u \in OpenPoints(e) : r = <<e, u>>
    BY <1>2
  <2> PICK t \in OpenPoints(d) : s = <<d, t>>
    BY <2>1
  <2> PICK u \in OpenPoints(e) : r = <<e, u>>
    BY <2>2
  <2>3. d < e
    BY <1>5
  <2>4. PICK w \in OpenRows(e) :
           /\ w.start \in WallClock
           /\ Utc[e][w.start] # None
           /\ u \in Int /\ Utc[e][w.start] <= u
    BY RowAround
  <2>5. t < Utc[e][w.start]
    BY <2>3, <2>4, DatesInOrder
  <2>6. Utc[e][w.start] \in Int /\ t \in Int
    BY <2>4, OpeningSpan, UtcType
  <2>7. t < u
    BY <2>4, <2>5, <2>6
  <2> QED BY <2>7
<1> QED BY <1>3, <1>4, <1>5 DEF InOrder, S

\* The date at the business is a date of the calendar that has begun.
LEMMA Today ==
  ASSUME AvailTypeOK
  PROVE  /\ LocalDate(clock) \in Date /\ LocalDate(clock) \in Int
         /\ \E w \in WallClock : Utc[LocalDate(clock)][w] # None /\ Utc[LocalDate(clock)][w] <= clock
<1> DEFINE begun == {d \in Date : \E w \in WallClock : Utc[d][w] # None /\ Utc[d][w] <= clock}
           key == [d \in begun |-> 0 - d]
<1>1. clock \in Instants
  BY DEF AvailTypeOK
<1>2. begun # {}
  BY <1>1, AvailabilityAssumption
<1>3. IsFiniteSet(Date) /\ Date \subseteq Int
  BY AvailabilityAssumption
<1>4. IsFiniteSet(begun)
  BY <1>3, FS_Subset
<1>5. \A d \in begun : key[d] = 0 - d /\ key[d] \in Int /\ d \in Int
  BY <1>3
<1>6. LocalDate(clock) = CHOOSE d \in begun : \A e \in begun : e <= d
  BY DEF LocalDate
<1> HIDE DEF begun, key
<1>7. PICK d \in begun : \A e \in begun : key[d] <= key[e]
  BY <1>2, <1>4, <1>5, LeastKey
<1>8. \A e \in begun : e <= d
  BY <1>5, <1>7
<1>9. LocalDate(clock) \in begun
  BY <1>6, <1>8
<1> QED BY <1>3, <1>9 DEF begun

\* GET /availability/next answers with distinct slots in ascending order, each
\* one GET /availability offers, and passes over an earlier one only for the
\* lookahead or, without a timezone, for a date UTC has left.
THEOREM NextAlwaysEarliest == AvailSpec => []NextIsEarliest
<1>1. AvailTypeOK => NextIsEarliest
  <2> SUFFICES ASSUME AvailTypeOK, NEW tz \in {None, "business"}, NEW n \in 1..3
               PROVE  LET next  == getNext(tz, n)
                          given == {next[k] : k \in DOMAIN next}
                          all   == {x[1] : x \in AllOffers}
                      IN /\ given \subseteq all
                         /\ \A i, j \in DOMAIN next : i < j => next[i] < next[j]
                         /\ \A t \in all \ given :
                              \/ Len(next) = n /\ next[n] < t
                              \/ LocalDate(t) > todayIn(tz) + Lookahead
                              \/ tz = None /\ LocalDate(t) < UtcDate[clock]
    BY DEF NextIsEarliest
  <2> DEFINE from == todayIn(tz)
             to == todayIn(tz) + Lookahead
             S == SlotsOf(from, to)
             st == pushLoop(S, n)[n]
             next == getNext(tz, n)
             given == {next[k] : k \in DOMAIN next}
             all == {x[1] : x \in AllOffers}
  <2>1. next = st.flat
    BY DEF getNext, computeNextSlots
  <2>2. from \in Int /\ Lookahead \in Nat /\ to \in Int
    <3>1. UtcDate[clock] \in Int /\ Lookahead \in Nat
      BY AvailabilityAssumption DEF AvailTypeOK
    <3> QED BY <3>1, Today DEF todayIn
  <2>3. \A s : s \in S <=>
           \E d \in Date, x \in UNION {computeDay(e, slotIntervalMin) : e \in Date} :
             from <= d /\ d <= to /\ x \in computeDay(d, slotIntervalMin) /\ s = <<d, x[1]>>
    BY SlotMembers
  <2>4. InOrder(S)
    BY SlotsInOrder
  <2> HIDE DEF S
  <2>5. st \in PushStates(S, n)
    BY <2>4, PushLoopKeeps
  <2> HIDE DEF st, next
  <2>6. /\ st.rest \subseteq S /\ next \in Seq(Int)
        /\ st.rest = {} \/ Len(next) = n
        /\ \A i \in 1..Len(next) : \E s \in S \ st.rest : next[i] = s[2]
        /\ \A s \in S \ st.rest : \E i \in 1..Len(next) : next[i] = s[2]
        /\ \A i, j \in 1..Len(next) : i < j => next[i] < next[j]
        /\ \A i \in 1..Len(next), r \in st.rest : next[i] < r[2]
    BY <2>1, <2>5 DEF PushStates
  <2>7. DOMAIN next = 1..Len(next) /\ Len(next) \in Nat
    BY <2>6
  <2>8. \A t : t \in all <=> \E d \in Date : \E x \in computeDay(d, slotIntervalMin) : t = x[1]
    BY OffersByDay
  <2> HIDE DEF all
  <2>9. given \subseteq all
    <3> SUFFICES ASSUME NEW k \in 1..Len(next) PROVE next[k] \in all
      BY <2>7
    <3>1. PICK s \in S : next[k] = s[2]
      BY <2>6
    <3>2. PICK d \in Date, x \in UNION {computeDay(e, slotIntervalMin) : e \in Date} :
             x \in computeDay(d, slotIntervalMin) /\ s = <<d, x[1]>>
      BY <2>3
    <3>3. next[k] = x[1]
      BY <3>1, <3>2
    <3> QED BY <3>2, <3>3, <2>8
  <2>10. \A i, j \in DOMAIN next : i < j => next[i] < next[j]
    BY <2>6, <2>7
  <2>11. ASSUME NEW t \in all \ given
         PROVE  \/ Len(next) = n /\ next[n] < t
                \/ LocalDate(t) > todayIn(tz) + Lookahead
                \/ tz = None /\ LocalDate(t) < UtcDate[clock]
    <3>1. PICK d \in Date : \E x \in computeDay(d, slotIntervalMin) : t = x[1]
      BY <2>8
    <3>2. PICK x \in computeDay(d, slotIntervalMin) : t = x[1]
      BY <3>1
    <3>3. t \in OpenPoints(d) /\ t \in Int /\ t >= clock + CancelNotice
      BY <3>2, OfferedPoint
    <3>4. LocalDate(t) = d /\ d \in Int
      BY <3>3, DateOfOpenPoint, AvailabilityAssumption
    <3>5. CASE d < from
      <4>1. CASE tz = None
        BY <4>1, <3>4, <3>5 DEF todayIn
      <4>2. CASE tz # None
        <5>1. from = LocalDate(clock)
          BY <4>2 DEF todayIn
        <5>2. PICK v \in WallClock : Utc[from][v] # None /\ Utc[from][v] <= clock
          BY <5>1, Today
        <5>3. from \in Date
          BY <5>1, Today
        <5>4. t < Utc[from][v]
          BY <5>2, <5>3, <3>3, <3>5, DatesInOrder
        <5>5. clock \in Int /\ CancelNotice \in Nat
          BY AvailabilityAssumption DEF AvailTypeOK
        <5>6. Utc[from][v] \in Int
          BY <5>2, <5>3, UtcType
        <5> QED BY <5>2, <5>4, <5>5, <5>6, <3>3
      <4> QED BY <4>1, <4>2
    <3>6. CASE to < d
      BY <3>4, <3>6, <2>2
    <3>7. CASE from <= d /\ d <= to
      <4>1. <<d, t>> \in S
        BY <3>2, <3>7, <2>3
      <4>2. <<d, t>> \in st.rest
        <5> SUFFICES ASSUME <<d, t>> \in S \ st.rest PROVE FALSE
          BY <4>1
        <5>1. PICK i \in 1..Len(next) : next[i] = <<d, t>>[2]
          BY <2>6
        <5>2. t \in given
          BY <5>1, <2>7
        <5> QED BY <5>2
      <4>3. Len(next) = n /\ n \in 1..Len(next)
        BY <4>2, <2>6
      <4>4. next[n] < <<d, t>>[2]
        BY <4>2, <4>3, <2>6
      <4> QED BY <4>3, <4>4
    <3> QED BY <3>4, <3>5, <3>6, <3>7, <2>2
  <2> QED BY <2>9, <2>10, <2>11 DEF next, all
<1> QED BY <1>1, AvailTypes, PTL

\* The behaviours checked with the lists beside the tables are behaviours of the
\* tables: what holds of AvailSpec holds of them.
THEOREM CheckedIsAvailSpec == MCSpec => AvailSpec
<1>1. MCInit => AvailInit
  BY DEF MCInit
<1>2. [MCNext]_<<availVars, Lists>> => [AvailNext]_availVars
  BY DEF MCNext
<1> QED BY <1>1, <1>2, PTL DEF MCSpec, AvailSpec

=============================================================================
