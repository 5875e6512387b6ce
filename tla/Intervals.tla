------------------------------ MODULE Intervals ------------------------------
(***************************************************************************)
(* The half-open interval algebra of the availability engine, and what it  *)
(* promises in terms of the points the intervals cover.                    *)
(*                                                                         *)
(* A list of intervals is the set of its members: merge sorts what it is   *)
(* given and absorbs an interval that comes twice, and no two intervals    *)
(* of a merged list start together, so it is visited in one order only.    *)
(* A loop is the function from the rounds it has done to its variables,    *)
(* with rest for the intervals it has yet to visit.                        *)
(***************************************************************************)
EXTENDS Integers, FiniteSets

Interval == [start: Int, end: Int]

isNonEmpty(i) == i.end > i.start
overlaps(a, b) == a.start < b.end /\ b.start < a.end
contains(outer, inner) == outer.start <= inner.start /\ inner.end <= outer.end

NonEmpty(s) == {i \in s : isNonEmpty(i)}

greater(x, y) == IF x > y THEN x ELSE y
lesser(x, y) == IF x < y THEN x ELSE y

\* What a loop over the sorted list visits next, and its last member; among
\* equal starts the order of the input decides, any one here.
First(s) == CHOOSE i \in s : \A j \in s : i.start <= j.start
Last(s)  == CHOOSE i \in s : \A j \in s : j.start <= i.start

\* Mutated form of absorb: the last end is overwritten, not extended.
absorbShort(out, cur) ==
  LET last == Last(out) IN
  IF out # {} /\ cur.start <= last.end
  THEN (out \ {last}) \cup {[start |-> last.start, end |-> cur.end]}
  ELSE out \cup {cur}

\* One round of merge: extend the last interval or start a new one.
absorb(out, cur) ==
  LET last == Last(out) IN
  IF out # {} /\ cur.start <= last.end
  THEN (out \ {last}) \cup {[start |-> last.start, end |-> greater(last.end, cur.end)]}
  ELSE out \cup {cur}

mergeRound(st) ==
  IF st.rest = {} THEN st
  ELSE [rest |-> st.rest \ {First(st.rest)}, out |-> absorb(st.out, First(st.rest))]

mergeLoop(sorted) ==
  LET loop[k \in 0..Cardinality(sorted)] ==
        IF k = 0 THEN [rest |-> sorted, out |-> {}] ELSE mergeRound(loop[k - 1])
  IN loop

merge(intervals) ==
  LET sorted == NonEmpty(intervals) IN mergeLoop(sorted)[Cardinality(sorted)].out

common(x, y) == [start |-> greater(x.start, y.start), end |-> lesser(x.end, y.end)]

\* One round of intersect: of the two intervals visited the one that ends
\* first is done with.
meetRound(st) ==
  IF st.a = {} \/ st.b = {} THEN st
  ELSE LET x == First(st.a)
           y == First(st.b)
       IN [a   |-> IF x.end < y.end THEN st.a \ {x} ELSE st.a,
           b   |-> IF x.end < y.end THEN st.b ELSE st.b \ {y},
           out |-> st.out \cup NonEmpty({common(x, y)})]

meetLoop(A, B) ==
  LET loop[k \in 0..Cardinality(A) + Cardinality(B)] ==
        IF k = 0 THEN [a |-> A, b |-> B, out |-> {}] ELSE meetRound(loop[k - 1])
  IN loop

intersect(a, b) ==
  LET A == merge(a)
      B == merge(b)
  IN meetLoop(A, B)[Cardinality(A) + Cardinality(B)].out

\* One round of subtract's inner loop: what of b lies before m is kept; both
\* breaks leave nothing to visit.
carve(b, st) ==
  LET m == First(st.rest)
      cursor == greater(st.cursor, m.end)
  IN IF st.rest = {} THEN st
     ELSE IF m.end <= st.cursor THEN [st EXCEPT !.rest = @ \ {m}]
     ELSE IF m.start >= b.end THEN [st EXCEPT !.rest = {}]
     ELSE [rest   |-> IF cursor >= b.end THEN {} ELSE st.rest \ {m},
           cursor |-> cursor,
           out    |-> st.out \cup NonEmpty({[start |-> st.cursor, end |-> m.start]})]

carveLoop(b, M) ==
  LET loop[k \in 0..Cardinality(M)] ==
        IF k = 0 THEN [rest |-> M, cursor |-> b.start, out |-> {}] ELSE carve(b, loop[k - 1])
  IN loop

cut(b, M) ==
  LET st == carveLoop(b, M)[Cardinality(M)]
  IN st.out \cup NonEmpty({[start |-> st.cursor, end |-> b.end]})

subtract(base, minus) == UNION {cut(b, merge(minus)) : b \in merge(base)}

fitsIn(free, fit) == \E f \in free : contains(f, fit)

-----------------------------------------------------------------------------
\* The reference: sets of points.

Points(i) == i.start .. i.end - 1
Covered(s) == UNION {Points(i) : i \in s}

\* Without empty, touching or overlapping members.
Normal(s) ==
  /\ \A i \in s : isNonEmpty(i)
  /\ \A i, j \in s : i = j \/ i.end < j.start \/ j.end < i.start

=============================================================================
