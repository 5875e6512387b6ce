---------------------------- MODULE OutboxProofs ----------------------------
(***************************************************************************)
(* Proofs about Outbox: types, no row PROCESSED before it has reached      *)
(* every queue, and one job per row and queue while jobs are kept; and     *)
(* about Realtime: completeness of what a dashboard client holds, for any  *)
(* number of rows, tenants, flushes, failures and disconnects.             *)
(***************************************************************************)
EXTENDS Realtime, FiniteSetTheorems, WellFoundedInduction, TLAPS

\* Rows, if there are any, have a first one.
LEMMA FirstIsLeast ==
  ASSUME NEW rows \in SUBSET Nat, rows # {}
  PROVE  First(rows) \in rows /\ \A d \in rows : First(rows) <= d
<1> DEFINE R == {ss \in Nat \X Nat : ss[1] < ss[2]}
<1>1. IsWellFoundedOn(R, Nat)
  BY NatLessThanWellFounded, Zenon DEF OpToRel
<1>2. PICK e \in rows : \A d \in rows : ~(<<d, e>> \in R)
  BY <1>1, WFMin
<1>3. ASSUME NEW d \in rows PROVE e <= d
  <2>1. d \in Nat /\ e \in Nat
    OBVIOUS
  <2>2. d < e => <<d, e>> \in R
    BY <2>1
  <2>3. ~(d < e)
    BY <1>2, <2>2
  <2> QED BY <2>1, <2>3
<1> QED BY <1>3 DEF First

\* A batch that is not empty has a first row.
LEMMA FirstInSet ==
  ASSUME NEW rows \in SUBSET Nat, rows # {}
  PROVE  First(rows) \in rows
BY FirstIsLeast

\* The row a flush works on.
LEMMA CurrentRow ==
  ASSUME TypeOK, FlushOK, NEW f \in Flusher, step[f] # "idle"
  PROVE  First(batch[f]) \in batch[f] /\ First(batch[f]) \in Event
<1>1. batch[f] \in SUBSET Event /\ batch[f] # {}
  BY DEF TypeOK, FlushOK
<1> QED BY <1>1, FirstInSet, OutboxAssumption

\* Published is never undone where jobs only move forward.
LEMMA StaysPublished ==
  ASSUME NEW p \in Slot, Published(p), job'[p] # "absent" \/ job[p] = "absent",
         delivered \subseteq delivered'
  PROVE  Published(p)'
BY DEF Published

-----------------------------------------------------------------------------
\* What the pieces of a flush preserve.

\* The SELECT and the loop of flushPending.
LEMMA GoOnType ==
  ASSUME TypeOK, NEW f \in Flusher, NEW rows \in SUBSET Event, GoOn(f, rows)
  PROVE  /\ batch' \in [Flusher -> SUBSET Event]
         /\ step' \in [Flusher -> {"idle", "publish", "mark", "bump"}]
         /\ todo' \in [Flusher -> SUBSET Queue]
         /\ batch'[f] = rows
         /\ \A g \in Flusher \ {f} :
              batch'[g] = batch[g] /\ step'[g] = step[g] /\ todo'[g] = todo[g]
<1>1. rows # {} => Route[First(rows)] \subseteq Queue
  <2>1. rows # {} => First(rows) \in Event
    BY FirstInSet, OutboxAssumption
  <2> QED BY <2>1, OutboxAssumption
<1> QED BY <1>1 DEF GoOn, TypeOK

LEMMA GoOnFlush ==
  ASSUME TypeOK, FlushOK, NEW f \in Flusher, NEW rows \in SUBSET Event, GoOn(f, rows),
         rows \subseteq {e \in Event : row'[e] # "none"},
         \A e \in Event : row[e] # "none" => row'[e] # "none",
         \A p \in Slot : Published(p) => Published(p)'
  PROVE  FlushOK'
<1> SUFFICES ASSUME NEW g \in Flusher
             PROVE  /\ step'[g] # "idle" => batch'[g] # {}
                    /\ batch'[g] \subseteq {e \in Event : row'[e] # "none"}
                    /\ step'[g] \in {"publish", "mark"} =>
                         \A p \in Slot :
                           p[1] = First(batch'[g]) /\ p[2] \notin todo'[g] => Published(p)'
                    /\ step'[g] = "mark" => todo'[g] = {}
  BY DEF FlushOK, First
<1>1. CASE g = f
  <2>1. /\ batch'[f] = rows
        /\ step'[f] = IF rows = {} THEN "idle" ELSE "publish"
        /\ todo'[f] = IF rows = {} THEN {} ELSE Route[First(rows)]
    BY DEF GoOn, TypeOK
  <2> QED BY <1>1, <2>1 DEF Slot
<1>2. CASE g # f
  <2>1. batch'[g] = batch[g] /\ step'[g] = step[g] /\ todo'[g] = todo[g]
    BY <1>2, GoOnType
  <2> QED BY <2>1 DEF FlushOK, TypeOK
<1> QED BY <1>1, <1>2

\* Queue.add for a row the flush still holds.
LEMMA AddJobsKeeps ==
  ASSUME TypeOK, JobsOK, NEW f \in Flusher, NEW e \in batch[f], NEW queues,
         AddJobs(e, queues), UNCHANGED <<row, batch, delivered>>
  PROVE  /\ job' \in [Slot -> {"absent", "waiting", "active", "completed"}]
         /\ admitted' \in [Slot -> 0..2]
         /\ JobsOK'
         /\ \A p \in Slot : Published(p) => Published(p)'
         /\ \A p \in Slot : p[1] = e /\ p[2] \in queues => Published(p)'
<1> DEFINE created == {p \in Slot : p[1] = e /\ p[2] \in queues /\ job[p] = "absent"}
<1>1. \A p \in Slot :
        /\ job'[p] = IF p \in created THEN "waiting" ELSE job[p]
        /\ admitted'[p] = IF p \in created /\ admitted[p] < 2
                          THEN admitted[p] + 1 ELSE admitted[p]
  BY DEF AddJobs
<1>2. /\ job' \in [Slot -> {"absent", "waiting", "active", "completed"}]
      /\ admitted' \in [Slot -> 0..2]
  BY DEF AddJobs, TypeOK
<1>3. \A p \in Slot : Published(p) => Published(p)'
  BY <1>1 DEF Published
<1>4. \A p \in Slot : p[1] = e /\ p[2] \in queues => Published(p)'
  BY <1>1 DEF Published
<1>5. JobsOK'
  <2> SUFFICES ASSUME NEW p \in Slot
               PROVE  /\ job'[p] = "completed" => p \in delivered'
                      /\ job'[p] # "absent" => admitted'[p] >= 1
                      /\ LongKept =>
                           /\ admitted'[p] <= 1
                           /\ admitted'[p] = 1 =>
                                \/ job'[p] # "absent"
                                \/ /\ row'[p[1]] = "PROCESSED"
                                   /\ \A g \in Flusher : p[1] \notin batch'[g]
    BY DEF JobsOK
  <2>1. admitted[p] \in 0..2
    BY DEF TypeOK
  <2>2. CASE p \in created
    <3>1. job'[p] = "waiting" /\ p[1] = e /\ job[p] = "absent"
      BY <1>1, <2>2
    <3>2. LongKept => admitted[p] = 0
      BY <2>1, <3>1 DEF JobsOK
    <3>3. admitted'[p] >= 1 /\ (LongKept => admitted'[p] = 1)
      BY <1>1, <2>1, <2>2, <3>2
    <3> QED BY <3>1, <3>3
  <2>3. CASE p \notin created
    <3>1. job'[p] = job[p] /\ admitted'[p] = admitted[p]
      BY <1>1, <2>3
    <3> QED BY <3>1 DEF JobsOK
  <2> QED BY <2>2, <2>3
<1> QED BY <1>2, <1>3, <1>4, <1>5

-----------------------------------------------------------------------------
\* One lemma per group of actions.

LEMMA CommitKeepsInv ==
  ASSUME IInv, Commit
  PROVE  IInv'
<1> USE DEF IInv
<1>1. PICK rows \in SUBSET {e \in Event : row[e] = "none"} :
        /\ row' = [e \in Event |-> IF e \in rows THEN "PENDING" ELSE row[e]]
        /\ kicks' = kicks + Cardinality(rows)
        /\ UNCHANGED <<flush, bull, faults>>
  BY DEF Commit
<1>2. UNCHANGED <<batch, step, todo, job, admitted, delivered, faults>>
  BY <1>1 DEF flush, bull
<1>3. /\ row' \in [Event -> {"none", "PENDING", "PROCESSED"}]
      /\ \A e \in Event : row[e] # "none" => row'[e] = row[e]
      /\ \A e \in Event : row'[e] = "PROCESSED" <=> row[e] = "PROCESSED"
  BY <1>1 DEF TypeOK
<1>4. kicks' \in Nat
  <2>1. IsFiniteSet(rows)
    BY <1>1, FS_Subset, OutboxAssumption
  <2> QED BY <1>1, <2>1, FS_CardinalityType DEF TypeOK
<1>5. TypeOK'
  BY <1>2, <1>3, <1>4 DEF TypeOK
<1>6. \A p \in Slot : p[1] \in Event
  BY DEF Slot
<1>7. ProcessedIsPublished'
  BY <1>2, <1>3, <1>6 DEF ProcessedIsPublished, Published
<1>8. FlushOK'
  BY <1>2, <1>3 DEF FlushOK, Published, First
<1>9. JobsOK'
  BY <1>2, <1>3, <1>6 DEF JobsOK
<1> QED BY <1>5, <1>7, <1>8, <1>9

\* Selecting rows, moving on after bumpAttempts, losing a flush or a kick.
LEMMA MoveKeepsInv ==
  ASSUME IInv, NEW f \in Flusher, Select(f) \/ BumpAttempts(f) \/ FlushLost(f)
  PROVE  IInv'
<1> USE DEF IInv
<1>1. /\ UNCHANGED <<row, job, admitted, delivered>>
      /\ kicks' \in Nat /\ faults' \in Nat
  BY DEF Select, BumpAttempts, FlushLost, Fault, bull, TypeOK
<1>2. PICK rows \in SUBSET Event :
        /\ GoOn(f, rows)
        /\ rows \subseteq batch[f] \/ rows \subseteq Pending
  <2>1. CASE Select(f)
    <3>1. PICK skipped \in SUBSET (Pending \cap InUpdate(f)) :
            GoOn(f, Oldest(Pending \ skipped))
      BY <2>1 DEF Select
    <3>2. Oldest(Pending \ skipped) \subseteq Pending /\ Pending \subseteq Event
      BY DEF Oldest, Pending
    <3> QED BY <3>1, <3>2
  <2>2. CASE BumpAttempts(f)
    BY <2>2 DEF BumpAttempts, TypeOK
  <2>3. CASE FlushLost(f)
    BY <2>3 DEF FlushLost
  <2> QED BY <2>1, <2>2, <2>3
<1>3. rows \subseteq {e \in Event : row'[e] # "none"}
  BY <1>1, <1>2 DEF FlushOK, Pending
<1>4. TypeOK'
  BY <1>1, <1>2, GoOnType DEF TypeOK
<1>5. ProcessedIsPublished' /\ \A p \in Slot : Published(p) => Published(p)'
  BY <1>1 DEF ProcessedIsPublished, Published
<1>6. FlushOK'
  BY <1>1, <1>2, <1>3, <1>5, GoOnFlush
<1>7. JobsOK'
  <2> SUFFICES ASSUME NEW p \in Slot, LongKept, admitted[p] = 1, job[p] = "absent",
                      NEW g \in Flusher
               PROVE  p[1] \notin batch'[g]
    BY <1>1 DEF JobsOK
  <2>1. row[p[1]] = "PROCESSED" /\ \A h \in Flusher : p[1] \notin batch[h]
    BY DEF JobsOK
  <2>2. p[1] \notin rows
    BY <1>2, <2>1 DEF Pending
  <2> QED BY <1>2, <2>1, <2>2, GoOnType
<1> QED BY <1>4, <1>5, <1>6, <1>7

LEMMA PublishKeepsInv ==
  ASSUME IInv, NEW f \in Flusher, Publish(f)
  PROVE  IInv'
<1> USE DEF IInv
<1>1. PICK q \in todo[f] :
        /\ AddJobs(First(batch[f]), {q})
        /\ todo' = [todo EXCEPT ![f] = @ \ {q}]
        /\ step' = [step EXCEPT ![f] = IF todo[f] = {q} THEN "mark" ELSE @]
  BY DEF Publish
<1>2. step[f] = "publish" /\ UNCHANGED <<row, kicks, batch, delivered, faults>>
  BY DEF Publish
<1>3. First(batch[f]) \in batch[f]
  BY <1>2, CurrentRow
<1>4. /\ job' \in [Slot -> {"absent", "waiting", "active", "completed"}]
      /\ admitted' \in [Slot -> 0..2]
      /\ JobsOK'
      /\ \A p \in Slot : Published(p) => Published(p)'
      /\ \A p \in Slot : p[1] = First(batch[f]) /\ p[2] \in {q} => Published(p)'
  BY <1>1, <1>2, <1>3, AddJobsKeeps
<1>5. TypeOK'
  BY <1>1, <1>2, <1>4 DEF TypeOK
<1>6. ProcessedIsPublished'
  BY <1>2, <1>4 DEF ProcessedIsPublished
<1>7. FlushOK'
  <2> SUFFICES ASSUME NEW g \in Flusher
               PROVE  /\ step'[g] # "idle" => batch'[g] # {}
                      /\ batch'[g] \subseteq {e \in Event : row'[e] # "none"}
                      /\ step'[g] \in {"publish", "mark"} =>
                           \A p \in Slot :
                             p[1] = First(batch'[g]) /\ p[2] \notin todo'[g] => Published(p)'
                      /\ step'[g] = "mark" => todo'[g] = {}
    BY DEF FlushOK, First
  <2>1. CASE g = f
    <3>1. todo'[f] = todo[f] \ {q} /\ step'[f] = IF todo[f] = {q} THEN "mark" ELSE "publish"
      BY <1>1, <1>2 DEF TypeOK
    <3> QED BY <1>2, <1>4, <2>1, <3>1 DEF FlushOK
  <2>2. CASE g # f
    <3>1. step'[g] = step[g] /\ todo'[g] = todo[g]
      BY <1>1, <2>2 DEF TypeOK
    <3> QED BY <1>2, <1>4, <3>1 DEF FlushOK
  <2> QED BY <2>1, <2>2
<1> QED BY <1>4, <1>5, <1>6, <1>7

LEMMA FailureKeepsInv ==
  ASSUME IInv, NEW f \in Flusher, PublishFails(f) \/ MarkFails(f)
  PROVE  IInv'
<1> USE DEF IInv
<1>1. /\ step[f] \in {"publish", "mark"} /\ UNCHANGED <<row, kicks, batch, delivered>>
      /\ step' = [step EXCEPT ![f] = "bump"]
      /\ todo' \in [Flusher -> SUBSET Queue]
      /\ \A g \in Flusher \ {f} : todo'[g] = todo[g]
      /\ faults' \in Nat
  BY DEF PublishFails, MarkFails, Fault, bull, TypeOK
<1>2. First(batch[f]) \in batch[f]
  BY <1>1, CurrentRow
<1>3. /\ job' \in [Slot -> {"absent", "waiting", "active", "completed"}]
      /\ admitted' \in [Slot -> 0..2]
      /\ JobsOK'
      /\ \A p \in Slot : Published(p) => Published(p)'
  <2>1. CASE PublishFails(f)
    BY <1>1, <1>2, <2>1, AddJobsKeeps DEF PublishFails
  <2>2. CASE MarkFails(f)
    BY <1>1, <2>2 DEF MarkFails, bull, TypeOK, JobsOK, Published
  <2> QED BY <2>1, <2>2
<1>4. TypeOK'
  BY <1>1, <1>3 DEF TypeOK
<1>5. ProcessedIsPublished'
  BY <1>1, <1>3 DEF ProcessedIsPublished
<1>6. FlushOK'
  BY <1>1, <1>3 DEF FlushOK, TypeOK, First
<1> QED BY <1>3, <1>4, <1>5, <1>6

LEMMA MarkKeepsInv ==
  ASSUME IInv, NEW f \in Flusher, MarkProcessed(f)
  PROVE  IInv'
<1> USE DEF IInv
<1> DEFINE e == First(batch[f])
<1>1. /\ step[f] = "mark" /\ row' = [row EXCEPT ![e] = "PROCESSED"]
      /\ GoOn(f, batch[f] \ {e})
      /\ UNCHANGED <<kicks, job, admitted, delivered, faults>>
  BY DEF MarkProcessed, bull
<1>2. e \in batch[f] /\ e \in Event /\ batch[f] \ {e} \in SUBSET Event
  BY <1>1, CurrentRow DEF TypeOK
<1> HIDE DEF e
<1>3. TypeOK'
  BY <1>1, <1>2, GoOnType DEF TypeOK
<1>4. \A p \in Slot : Published(p) <=> Published(p)'
  BY <1>1 DEF Published
<1>5. \A p \in Slot : p[1] = e => Published(p)
  BY <1>1 DEF FlushOK, e
<1>6. ProcessedIsPublished'
  BY <1>1, <1>4, <1>5 DEF ProcessedIsPublished, Slot, TypeOK
<1>7. \A d \in Event : row[d] # "none" => row'[d] # "none"
  BY <1>1 DEF TypeOK
<1>8. batch[f] \ {e} \subseteq {d \in Event : row'[d] # "none"}
  BY <1>7 DEF FlushOK
<1>9. FlushOK'
  BY <1>1, <1>2, <1>4, <1>7, <1>8, GoOnFlush
<1>10. JobsOK'
  <2>1. \A g \in Flusher : batch'[g] \subseteq batch[g]
    BY <1>1, <1>2, GoOnType
  <2>2. \A p \in Slot : row[p[1]] = "PROCESSED" => row'[p[1]] = "PROCESSED"
    BY <1>1 DEF Slot, TypeOK
  <2> QED BY <1>1, <2>1, <2>2 DEF JobsOK
<1> QED BY <1>3, <1>6, <1>9, <1>10

LEMMA WorkerKeepsInv ==
  ASSUME IInv, NEW p \in Slot,
         StartJob(p) \/ CompleteJob(p) \/ ReturnJob(p) \/ ExpireJob(p)
  PROVE  IInv'
<1> USE DEF IInv
<1>1. /\ UNCHANGED <<row, kicks, batch, step, todo, admitted>>
      /\ faults' \in Nat
      /\ job' \in [Slot -> {"absent", "waiting", "active", "completed"}]
      /\ \A o \in Slot \ {p} : job'[o] = job[o]
      /\ delivered \subseteq delivered' /\ delivered' \subseteq Slot
      /\ job[p] # "absent"
  BY DEF StartJob, CompleteJob, ReturnJob, ExpireJob, Fault, flush, bull, TypeOK
<1>2. TypeOK'
  BY <1>1 DEF TypeOK
<1>3. /\ job'[p] \in {"absent", "completed"} => p \in delivered'
      /\ job'[p] = "absent" /\ LongKept =>
           row[p[1]] = "PROCESSED" /\ \A f \in Flusher : p[1] \notin batch[f]
  BY DEF StartJob, CompleteJob, ReturnJob, ExpireJob, TypeOK, JobsOK
<1>4. \A o \in Slot : Published(o) => Published(o)'
  BY <1>1, <1>3 DEF Published
<1>5. ProcessedIsPublished'
  BY <1>1, <1>4 DEF ProcessedIsPublished
<1>6. FlushOK'
  BY <1>1, <1>4 DEF FlushOK, First
<1>7. JobsOK'
  <2> SUFFICES ASSUME NEW o \in Slot
               PROVE  /\ job'[o] = "completed" => o \in delivered'
                      /\ job'[o] # "absent" => admitted'[o] >= 1
                      /\ LongKept =>
                           /\ admitted'[o] <= 1
                           /\ admitted'[o] = 1 =>
                                \/ job'[o] # "absent"
                                \/ /\ row'[o[1]] = "PROCESSED"
                                   /\ \A g \in Flusher : o[1] \notin batch'[g]
    BY DEF JobsOK
  <2>1. CASE o = p
    BY <1>1, <1>3, <2>1 DEF JobsOK
  <2>2. CASE o # p
    BY <1>1, <2>2 DEF JobsOK
  <2> QED BY <2>1, <2>2
<1> QED BY <1>2, <1>5, <1>6, <1>7

LEMMA NothingKeepsInv ==
  ASSUME IInv, KickLost \/ UNCHANGED vars
  PROVE  IInv'
<1>1. UNCHANGED <<row, batch, step, todo, job, admitted, delivered>>
  BY DEF KickLost, vars, flush, bull
<1>2. kicks' \in Nat /\ faults' \in Nat
  BY DEF KickLost, Fault, vars, IInv, TypeOK
<1> QED BY <1>1, <1>2
       DEF IInv, TypeOK, ProcessedIsPublished, FlushOK, JobsOK, Published, First

-----------------------------------------------------------------------------
\* The theorems.

LEMMA OutboxStep == IInv /\ [Next]_vars => IInv'
BY CommitKeepsInv, MoveKeepsInv, PublishKeepsInv, FailureKeepsInv, MarkKeepsInv,
   WorkerKeepsInv, NothingKeepsInv DEF Next, Flush, Work

\* The inductive invariant holds in every reachable state.
THEOREM OutboxInvariant == Spec => []IInv
<1>1. Init => IInv
  BY DEF Init, IInv, TypeOK, ProcessedIsPublished, FlushOK, JobsOK, Slot
<1> QED BY <1>1, OutboxStep, PTL DEF Spec

\* Every variable keeps its type.
THEOREM OutboxTypes == Spec => []TypeOK
<1>1. IInv => TypeOK
  BY DEF IInv
<1> QED BY <1>1, OutboxInvariant, PTL

\* No event is lost: a row that flushPending will never look at again has
\* reached every queue of its route, for any number of overlapping flushes,
\* failed adds, failed UPDATEs and crashes.
THEOREM NothingLost == Spec => []ProcessedIsPublished
<1>1. IInv => ProcessedIsPublished
  BY DEF IInv
<1> QED BY <1>1, OutboxInvariant, PTL

\* While BullMQ keeps completed jobs longer than any flush holds their row,
\* the jobId makes publishing idempotent: one job per row and queue.
THEOREM OneJobPerQueue == LongKept => (Spec => []PublishedOnce)
<1>1. LongKept /\ IInv => PublishedOnce
  BY DEF IInv, JobsOK, PublishedOnce
<1>2. CASE LongKept
  <2>1. IInv => PublishedOnce
    BY <1>1, <1>2
  <2> QED BY <2>1, OutboxInvariant, PTL
<1> QED BY <1>2

-----------------------------------------------------------------------------
\* Pages.

\* A page, like every finite set of ids, has a newest row: by the least
\* cardinality of a counterexample.
LEMMA NewestInSet ==
  ASSUME NEW ids \in SUBSET Event, ids # {}
  PROVE  Newest(ids) \in ids /\ \A d \in ids : d <= Newest(ids)
<1> USE OutboxAssumption
<1> DEFINE HasNewest(S) == \E e \in S : \A d \in S : d <= e
           Bad == {n \in Nat : \E S \in SUBSET Event :
                     S # {} /\ Cardinality(S) = n /\ ~HasNewest(S)}
<1>1. Bad = {}
  <2> SUFFICES ASSUME Bad # {} PROVE FALSE
    OBVIOUS
  <2> DEFINE R == {ss \in Nat \X Nat : ss[1] < ss[2]}
  <2>1. IsWellFoundedOn(R, Nat)
    BY NatLessThanWellFounded, Zenon DEF OpToRel
  <2>2. PICK n \in Bad : \A m \in Bad : ~(<<m, n>> \in R)
    BY <2>1, WFMin
  <2>3. PICK S \in SUBSET Event : S # {} /\ Cardinality(S) = n /\ ~HasNewest(S)
    BY <2>2
  <2>4. PICK e \in S : TRUE
    BY <2>3
  <2> DEFINE T == S \ {e}
  <2>5. IsFiniteSet(S)
    BY FS_Subset
  <2>6. IsFiniteSet(T) /\ Cardinality(T) = n - 1 /\ n \in Nat
    BY <2>3, <2>5, FS_RemoveElement, FS_CardinalityType
  <2>7. T # {}
    <3>1. T = {} => S = {e}
      BY <2>4
    <3>2. S = {e} => HasNewest(S)
      OBVIOUS
    <3> QED BY <3>1, <3>2, <2>3
  <2>8. Cardinality(T) \in Nat
    BY <2>6, FS_CardinalityType
  <2>9. n - 1 \notin Bad
    <3>1. <<n - 1, n>> \in R
      BY <2>6, <2>8
    <3> QED BY <3>1, <2>2
  <2>10. HasNewest(T)
    <3>1. T \in SUBSET Event
      OBVIOUS
    <3> QED BY <3>1, <2>6, <2>7, <2>8, <2>9
  <2>11. PICK m \in T : \A d \in T : d <= m
    BY <2>10
  <2>12. HasNewest(S)
    <3>1. \A d \in S : d \in Nat
      OBVIOUS
    <3>2. CASE e <= m
      <4>1. \A d \in S : d <= m
        BY <3>2, <2>11
      <4> QED BY <4>1
    <3>3. CASE ~(e <= m)
      <4>1. \A d \in S : d <= e
        BY <3>1, <3>3, <2>11, <2>4
      <4> QED BY <4>1
    <3> QED BY <3>2, <3>3
  <2> QED BY <2>3, <2>12
<1>2. IsFiniteSet(ids) /\ Cardinality(ids) \in Nat
  BY FS_Subset, FS_CardinalityType
<1>3. HasNewest(ids)
  BY <1>1, <1>2
<1> QED BY <1>3 DEF Newest

\* The rows of the query of fetchSince.
Due(from) == {e \in Mine : e > from /\ row[e] = "PROCESSED"}

\* A page holds every due row up to its newest one, and a page that is not
\* truncated holds them all.
LEMMA PageIsComplete ==
  ASSUME NEW from \in Nat
  PROVE  /\ fetchSince(from) \subseteq Due(from)
         /\ \A e \in Due(from), d \in fetchSince(from) : e <= d => e \in fetchSince(from)
         /\ ~Truncated(fetchSince(from)) => fetchSince(from) = Due(from)
<1> USE OutboxAssumption, RealtimeAssumption
<1> DEFINE due == Due(from)
           page == fetchSince(from)
           Below(e) == {d \in due : d < e}
<1>1. due \subseteq Event /\ IsFiniteSet(due)
  <2>1. due \subseteq Event
    BY DEF Due, Mine
  <2> QED BY <2>1, FS_Subset
<1>2. page = {e \in due : Cardinality(Below(e)) < PageLimit}
  BY DEF fetchSince, Due, Mine
<1> HIDE DEF due, page
<1>3. page \subseteq due /\ IsFiniteSet(page)
  <2>1. page \subseteq due
    BY <1>2
  <2> QED BY <2>1, <1>1, FS_Subset
<1>4. \A e : IsFiniteSet(Below(e)) /\ Cardinality(Below(e)) \in Nat
  BY <1>1, FS_Subset, FS_CardinalityType
<1>5. PageLimit \in Nat
  OBVIOUS
<1>6. ASSUME NEW e \in due, NEW d \in page, e <= d PROVE e \in page
  <2>1. e \in Nat /\ d \in Nat
    BY <1>1, <1>3
  <2>2. Below(e) \subseteq Below(d)
    <3> SUFFICES ASSUME NEW x \in due, x < e PROVE x < d
      OBVIOUS
    <3>1. x \in Nat
      BY <1>1
    <3> QED BY <3>1, <2>1, <1>6
  <2>3. Cardinality(Below(e)) <= Cardinality(Below(d))
    BY <2>2, <1>4, FS_Subset
  <2>4. Cardinality(Below(d)) < PageLimit
    BY <1>2
  <2>5. Cardinality(Below(e)) < PageLimit
    BY <2>3, <2>4, <1>4, <1>5
  <2> QED BY <2>5, <1>2
<1>7. Cardinality(page) \in Nat /\ Cardinality(page) <= PageLimit
  <2>1. Cardinality(page) \in Nat
    BY <1>3, FS_CardinalityType
  <2>2. CASE page = {}
    BY <2>2, <1>5, FS_EmptySet
  <2>3. CASE page # {}
    <3> DEFINE m == Newest(page)
    <3>1. m \in page /\ \A d \in page : d <= m
      BY <2>3, <1>1, <1>3, NewestInSet
    <3> HIDE DEF m
    <3>2. page \ {m} \subseteq Below(m)
      <4>1. \A d \in page : d \in due /\ d \in Nat
        BY <1>1, <1>3
      <4> QED BY <3>1, <4>1
    <3>3. Cardinality(page \ {m}) <= Cardinality(Below(m))
      BY <3>2, <1>4, FS_Subset
    <3>4. Cardinality(page \ {m}) = Cardinality(page) - 1
      BY <3>1, <1>3, FS_RemoveElement
    <3>5. Cardinality(Below(m)) < PageLimit
      BY <3>1, <1>2
    <3>6. Cardinality(Below(m)) \in Nat
      BY <1>4
    <3> QED BY <2>1, <3>3, <3>4, <3>5, <3>6, <1>5
  <2> QED BY <2>1, <2>2, <2>3
<1>8. ASSUME page # due PROVE Cardinality(page) >= PageLimit
  <2> DEFINE e == First(due \ page)
  <2>1. e \in due \ page /\ \A d \in due \ page : e <= d
    <3>1. due \ page \in SUBSET Nat /\ due \ page # {}
      BY <1>1, <1>3, <1>8
    <3> QED BY <3>1, FirstIsLeast
  <2> HIDE DEF e
  <2>2. Below(e) \subseteq page
    <3>1. \A d \in due : d \in Nat
      BY <1>1
    <3> QED BY <3>1, <2>1
  <2>3. Cardinality(Below(e)) <= Cardinality(page)
    BY <2>2, <1>3, FS_Subset
  <2>4. ~(Cardinality(Below(e)) < PageLimit)
    BY <2>1, <1>2
  <2>5. Cardinality(Below(e)) \in Nat
    BY <1>4
  <2> QED BY <2>3, <2>4, <2>5, <1>5, <1>7
<1>9. ~Truncated(page) => page = due
  BY <1>5, <1>7, <1>8 DEF Truncated
<1> QED BY <1>3, <1>6, <1>9 DEF due, page
-----------------------------------------------------------------------------
\* What the outbox does to what the client's invariant reads.

LEMMA JobsKeepCommitted ==
  ASSUME IInv, JobsAreCommitted, Next
  PROVE  /\ JobsAreCommitted'
         /\ \A e \in Event : row[e] # "none" => row'[e] # "none"
         /\ delivered \subseteq delivered'
         /\ \A p \in delivered' \ delivered : p \in Slot /\ row'[p[1]] # "none"
<1> USE DEF IInv
<1> DEFINE Pushed == \A p \in delivered' \ delivered : p \in Slot /\ row'[p[1]] # "none"
<1>s. \A p \in Slot : p[1] \in Event
  BY DEF Slot
<1>1. CASE Commit
  <2>1. /\ \A e \in Event : row[e] # "none" => row'[e] = row[e]
        /\ UNCHANGED <<job, delivered>>
    BY <1>1 DEF Commit, bull
  <2> QED BY <2>1, <1>s DEF JobsAreCommitted
<1>2. ASSUME UNCHANGED <<row, job, delivered>>
      PROVE  JobsAreCommitted' /\ Pushed
  BY <1>2 DEF JobsAreCommitted
<1>3. ASSUME NEW f \in Flusher, Select(f) \/ BumpAttempts(f) \/ MarkFails(f) \/ FlushLost(f)
      PROVE  UNCHANGED <<row, job, delivered>>
  BY <1>3 DEF Select, BumpAttempts, MarkFails, FlushLost, bull
<1>4. KickLost => UNCHANGED <<row, job, delivered>>
  BY DEF KickLost, bull
<1>5. ASSUME NEW f \in Flusher, Publish(f) \/ PublishFails(f)
      PROVE  JobsAreCommitted' /\ UNCHANGED <<row, delivered>>
  <2>1. UNCHANGED <<row, delivered>> /\ step[f] = "publish"
    BY <1>5 DEF Publish, PublishFails
  <2>2. First(batch[f]) \in batch[f] /\ row[First(batch[f])] # "none"
    <3>1. First(batch[f]) \in batch[f]
      BY <2>1, CurrentRow
    <3> QED BY <3>1 DEF FlushOK
  <2>3. PICK queues : AddJobs(First(batch[f]), queues)
    BY <1>5 DEF Publish, PublishFails
  <2>4. \A p \in Slot : job'[p] = job[p] \/ p[1] = First(batch[f])
    BY <2>3 DEF AddJobs
  <2> QED BY <2>1, <2>2, <2>4 DEF JobsAreCommitted
<1>6. ASSUME NEW f \in Flusher, MarkProcessed(f)
      PROVE  /\ JobsAreCommitted' /\ UNCHANGED <<job, delivered>>
             /\ \A e \in Event : row[e] # "none" => row'[e] # "none"
  <2>1. row' = [row EXCEPT ![First(batch[f])] = "PROCESSED"] /\ UNCHANGED <<job, delivered>>
    BY <1>6 DEF MarkProcessed, bull
  <2>2. \A e \in Event : row[e] # "none" => row'[e] # "none"
    BY <2>1 DEF TypeOK
  <2> QED BY <2>1, <2>2, <1>s DEF JobsAreCommitted
<1>7. ASSUME NEW p \in Slot, StartJob(p) \/ CompleteJob(p) \/ ReturnJob(p) \/ ExpireJob(p)
      PROVE  /\ JobsAreCommitted' /\ UNCHANGED row /\ Pushed
             /\ delivered \subseteq delivered'
  <2>1. /\ UNCHANGED row /\ job[p] # "absent"
        /\ \A o \in Slot \ {p} : job'[o] = job[o]
        /\ delivered \subseteq delivered' /\ delivered' \subseteq delivered \cup {p}
    BY <1>7 DEF StartJob, CompleteJob, ReturnJob, ExpireJob, TypeOK
  <2>2. row[p[1]] # "none"
    BY <2>1 DEF JobsAreCommitted
  <2> QED BY <2>1, <2>2 DEF JobsAreCommitted
<1>8. CASE \E f \in Flusher :
             Select(f) \/ Flush(f) \/ PublishFails(f) \/ MarkFails(f) \/ FlushLost(f)
  BY <1>8, <1>2, <1>3, <1>5, <1>6 DEF Flush
<1>9. CASE \E p \in Slot : Work(p) \/ ReturnJob(p) \/ ExpireJob(p)
  BY <1>9, <1>7 DEF Work
<1> QED BY <1>1, <1>2, <1>4, <1>8, <1>9 DEF Next

\* The client's invariant says nothing of a step that leaves it, the rows and
\* what was delivered alone.
LEMMA PushKeepsInv ==
  ASSUME IInv, ClientInv, Next, Push
  PROVE  ClientInv'
<1> USE DEF ClientInv
<1>1. /\ JobsAreCommitted'
      /\ \A e \in Event : row[e] # "none" => row'[e] # "none"
      /\ \A p \in delivered' \ delivered : p \in Slot /\ row'[p[1]] # "none"
  BY JobsKeepCommitted
<1>2. /\ UNCHANGED <<tenantOf, socket, asking, since, unread, swallowed>>
      /\ got' = IF socket = "online" THEN got \cup publishToTenant(Handled) ELSE got
      /\ buffered' = IF socket = "away" THEN buffered \cup publishToTenant(Handled) ELSE buffered
  BY DEF Push
<1>3. Mine' = Mine
  BY <1>2 DEF Mine
<1>4. publishToTenant(Handled) \subseteq {e \in Mine : row'[e] # "none"}
  <2>1. ASSUME NEW e \in Handled PROVE e \in Event /\ row'[e] # "none"
    <3>1. PICK p \in delivered' \ delivered : e = p[1]
      BY <2>1 DEF Handled
    <3> QED BY <3>1, <1>1 DEF Slot
  <2> QED BY <2>1 DEF publishToTenant, Mine
<1>5. \A e \in Mine : <<e, Dashboard>> \in delivered' \ delivered => e \in publishToTenant(Handled)
  <2>1. ASSUME NEW e \in Mine, <<e, Dashboard>> \in delivered' \ delivered
        PROVE  e \in publishToTenant(Handled)
    <3>1. <<e, Dashboard>>[1] = e /\ <<e, Dashboard>>[2] = Dashboard
      OBVIOUS
    <3>2. e \in Handled
      BY <2>1, <3>1 DEF Handled
    <3> QED BY <2>1, <3>2 DEF publishToTenant, Mine
  <2> QED BY <2>1
<1>6. got \subseteq got' /\ buffered \subseteq buffered'
  BY <1>2
<1> HIDE DEF publishToTenant
<1>7. ClientTypeOK'
  <2>1. got' \subseteq Event /\ buffered' \subseteq Event
    BY <1>2, <1>4 DEF ClientTypeOK, Mine
  <2> QED BY <2>1, <1>2 DEF ClientTypeOK
<1>8. SeenIsMine'
  <2>1. \A e \in Mine : row[e] # "none" => row'[e] # "none"
    BY <1>1 DEF Mine
  <2> QED BY <2>1, <1>2, <1>3, <1>4 DEF SeenIsMine
<1>9. BehindSince'
  BY <1>2, <1>3, <1>6 DEF BehindSince
<1>10. HoldsPushed'
  <2> SUFFICES ASSUME socket # "gone", ~asking, ~swallowed, NEW e \in Mine,
                      <<e, Dashboard>> \in delivered'
               PROVE  e \in got' \cup unread \cup (IF socket = "away" THEN buffered' ELSE {})
    BY <1>2, <1>3 DEF HoldsPushed
  <2>1. CASE <<e, Dashboard>> \in delivered
    BY <2>1, <1>6 DEF HoldsPushed
  <2>2. CASE <<e, Dashboard>> \notin delivered
    <3>1. e \in publishToTenant(Handled)
      BY <2>2, <1>5
    <3>2. socket \in {"online", "away"}
      BY DEF ClientTypeOK
    <3> QED BY <3>1, <3>2, <1>2
  <2> QED BY <2>1, <2>2
<1> QED BY <1>1, <1>7, <1>8, <1>9, <1>10

\* The connection comes and goes.
LEMMA ConnectionKeepsInv ==
  ASSUME ClientInv, Disconnect \/ Recover \/ RecoveryExpires \/ Reconnect,
         UNCHANGED <<vars, tenantOf>>
  PROVE  ClientInv'
<1> USE DEF ClientInv
<1>1. UNCHANGED <<row, job, delivered, tenantOf, since, unread, swallowed>>
  BY DEF vars, bull, Disconnect, Recover, RecoveryExpires, Reconnect
<1>2. /\ got \subseteq got' /\ got' \cup buffered' \subseteq got \cup buffered
      /\ socket' \in {"online", "away", "gone"} /\ asking' \in BOOLEAN
  BY DEF Disconnect, Recover, RecoveryExpires, Reconnect, ClientTypeOK
<1>3. Mine' = Mine
  BY <1>1 DEF Mine
<1>4. JobsAreCommitted' /\ BehindSince'
  BY <1>1, <1>2, <1>3 DEF JobsAreCommitted, BehindSince
<1>5. ClientTypeOK' /\ SeenIsMine'
  BY <1>1, <1>2, <1>3 DEF ClientTypeOK, SeenIsMine
<1>6. HoldsPushed'
  <2>1. CASE Disconnect
    BY <2>1, <1>1, <1>3 DEF Disconnect, HoldsPushed
  <2>2. CASE Recover
    BY <2>2, <1>1, <1>3 DEF Recover, HoldsPushed
  <2>3. CASE RecoveryExpires \/ Reconnect
    BY <2>3 DEF RecoveryExpires, Reconnect, HoldsPushed
  <2> QED BY <2>1, <2>2, <2>3
<1> QED BY <1>4, <1>5, <1>6

\* A page that is not the last goes on; the last one has reached what is due.
LEMMA SyncKeepsInv ==
  ASSUME ClientInv, Sync, UNCHANGED <<vars, tenantOf>>
  PROVE  ClientInv'
<1> USE DEF ClientInv
<1> DEFINE page == fetchSince(since)
           next == IF page = {} THEN since ELSE Newest(page)
           unprocessed == {e \in Event : tenantOf[e] = MyTenant /\ row[e] # "PROCESSED"}
<1>1. UNCHANGED <<row, job, delivered, tenantOf, socket, buffered>>
  BY DEF vars, bull, Sync
<1>2. /\ got' = got \cup page
      /\ since' = next
      /\ asking' = Truncated(page)
      /\ unread' = {e \in unread : e <= since}
            \cup {e \in unprocessed : e <= next \/ <<e, Dashboard>> \in delivered}
      /\ swallowed' = FALSE
  BY DEF Sync
<1>3. since \in Nat
  BY DEF ClientTypeOK
<1>4. /\ page \subseteq Due(since)
      /\ \A e \in Due(since), d \in page : e <= d => e \in page
      /\ ~Truncated(page) => page = Due(since)
  BY <1>3, PageIsComplete
<1>5. Mine' = Mine /\ Mine \subseteq Event /\ Mine \subseteq Nat
  BY <1>1, OutboxAssumption DEF Mine
<1>6. unprocessed = {e \in Mine : row[e] # "PROCESSED"}
  BY DEF Mine
<1> HIDE DEF page, unprocessed
<1>7. /\ next \in Nat
      /\ page = {} => next = since
      /\ page # {} => next \in page /\ \A e \in page : e <= next
  <2>1. page \in SUBSET Event /\ page \subseteq Nat
    BY <1>4, <1>5 DEF Due
  <2>2. CASE page = {}
    BY <2>2, <1>3
  <2>3. CASE page # {}
    <3>1. next = Newest(page)
      BY <2>3
    <3>2. Newest(page) \in page /\ \A d \in page : d <= Newest(page)
      BY <2>1, <2>3, NewestInSet
    <3> QED BY <2>1, <2>3, <3>1, <3>2
  <2> QED BY <2>2, <2>3
<1> HIDE DEF next
<1>8. JobsAreCommitted'
  BY <1>1 DEF JobsAreCommitted
<1>9. ClientTypeOK'
  <2>1. page \subseteq Event /\ unprocessed \subseteq Event
    BY <1>4, <1>5, <1>6 DEF Due
  <2>2. got' \subseteq Event /\ unread' \subseteq Event
    BY <1>2, <2>1 DEF ClientTypeOK
  <2>3. asking' \in BOOLEAN
    BY <1>2, Zenon DEF Truncated
  <2> QED BY <1>1, <1>2, <1>7, <2>2, <2>3 DEF ClientTypeOK
<1>10. SeenIsMine'
  <2>1. page \subseteq {e \in Mine : row[e] # "none"}
    BY <1>4 DEF Due
  <2> QED BY <2>1, <1>1, <1>2, <1>5 DEF SeenIsMine
<1>11. ASSUME NEW e \in Mine, e <= next PROVE e \in got' \cup unread'
  <2>1. CASE e <= since
    BY <2>1, <1>2 DEF BehindSince
  <2>2. CASE ~(e <= since) /\ row[e] # "PROCESSED"
    BY <2>2, <1>2, <1>6, <1>11
  <2>3. CASE ~(e <= since) /\ row[e] = "PROCESSED"
    <3>1. e \in Due(since)
      BY <2>3, <1>3, <1>5 DEF Due
    <3>2. page # {}
      BY <2>3, <1>7, <1>11
    <3> QED BY <3>1, <3>2, <1>2, <1>4, <1>7, <1>11
  <2> QED BY <2>1, <2>2, <2>3
<1>12. BehindSince'
  BY <1>11, <1>2, <1>5 DEF BehindSince
<1>13. HoldsPushed'
  <2> SUFFICES ASSUME ~asking', NEW e \in Mine, <<e, Dashboard>> \in delivered
               PROVE  e \in got' \cup unread'
    BY <1>1, <1>5 DEF HoldsPushed
  <2>1. page = Due(since)
    BY <1>2, <1>4
  <2>2. CASE e <= since
    BY <2>2, <1>2 DEF BehindSince
  <2>3. CASE ~(e <= since) /\ row[e] = "PROCESSED"
    BY <2>1, <2>3, <1>2, <1>3, <1>5 DEF Due
  <2>4. CASE row[e] # "PROCESSED"
    BY <2>4, <1>2, <1>6
  <2> QED BY <2>2, <2>3, <2>4
<1> QED BY <1>8, <1>9, <1>10, <1>12, <1>13

\* A failed query shows in `swallowed`.
LEMMA SyncFailsKeepsInv ==
  ASSUME IInv, ClientInv, SyncFails, UNCHANGED <<row, kicks, flush, bull, tenantOf>>
  PROVE  IInv' /\ ClientInv'
<1>1. /\ UNCHANGED <<row, kicks, batch, step, todo, job, admitted, delivered>>
      /\ UNCHANGED <<tenantOf, socket, since, got, buffered, unread>>
      /\ asking' = FALSE /\ swallowed' = TRUE
  BY DEF SyncFails, flush, bull
<1>2. faults' \in Nat
  BY DEF SyncFails, Fault, IInv, TypeOK
<1>3. IInv'
  BY <1>1, <1>2 DEF IInv, TypeOK, ProcessedIsPublished, FlushOK, JobsOK, Published, First
<1>4. ClientInv'
  BY <1>1 DEF ClientInv, ClientTypeOK, Mine, JobsAreCommitted, SeenIsMine, BehindSince, HoldsPushed
<1> QED BY <1>3, <1>4

-----------------------------------------------------------------------------
\* The theorems.

THEOREM RealtimeStart == RealtimeInit => IInv /\ ClientInv
<1> SUFFICES ASSUME RealtimeInit PROVE IInv /\ ClientInv
  OBVIOUS
<1>1. Init
  BY DEF RealtimeInit
<1>2. IInv
  BY <1>1 DEF Init, IInv, TypeOK, ProcessedIsPublished, FlushOK, JobsOK, Slot
<1>3. /\ ClientTypeOK
      /\ got = {} /\ buffered = {} /\ since = 0 /\ delivered = {}
      /\ \A p \in Slot : job[p] = "absent"
  BY <1>1, RealtimeAssumption DEF RealtimeInit, Init, ClientTypeOK
<1>4. \A e \in Mine : ~(e <= since)
  BY <1>3, OutboxAssumption, RealtimeAssumption DEF Mine
<1> QED BY <1>2, <1>3, <1>4 DEF ClientInv, JobsAreCommitted, SeenIsMine, BehindSince, HoldsPushed

(* Every action of an open screen, and every step of the outbox under it,  *)
(* keeps what the screen knows about its own organization.               *)
THEOREM RealtimeStep ==
  IInv /\ ClientInv /\ [RealtimeNext]_<<vars, tenantOf, client>> => IInv' /\ ClientInv'
<1> SUFFICES ASSUME IInv, ClientInv, [RealtimeNext]_<<vars, tenantOf, client>>
             PROVE  IInv' /\ ClientInv'
  OBVIOUS
<1>1. CASE Next /\ Push
  <2>1. IInv'
    BY <1>1, OutboxStep
  <2> QED BY <1>1, <2>1, PushKeepsInv
<1>2. CASE ClientStep /\ UNCHANGED <<vars, tenantOf>>
  <2>1. IInv'
    BY <1>2, OutboxStep
  <2> QED BY <1>2, <2>1, ConnectionKeepsInv, SyncKeepsInv DEF ClientStep
<1>3. CASE SyncFails /\ UNCHANGED <<row, kicks, flush, bull, tenantOf>>
  BY <1>3, SyncFailsKeepsInv
<1>4. CASE UNCHANGED <<vars, tenantOf, client>>
  <2>1. IInv'
    BY <1>4, OutboxStep
  <2>2. UNCHANGED <<row, job, delivered, tenantOf, socket, asking, since, got, buffered, unread, swallowed>>
    BY <1>4 DEF vars, bull, client
  <2>3. ClientInv'
    BY <2>2 DEF ClientInv, ClientTypeOK, Mine, JobsAreCommitted, SeenIsMine, BehindSince, HoldsPushed
  <2> QED BY <2>1, <2>3
<1> QED BY <1>1, <1>2, <1>3, <1>4 DEF RealtimeNext

\* The inductive invariant of the outbox and its client.
THEOREM RealtimeInvariant == RealtimeSpec => [](IInv /\ ClientInv)
<1> QED BY RealtimeStart, RealtimeStep, PTL DEF RealtimeSpec

\* A client that is online and has paged to the end holds every event pushed
\* to its tenant that a page could have shown it, and sees committed rows of
\* its own tenant only.
THEOREM ClientsMissNothing == RealtimeSpec => []SyncIsComplete
<1>1. ClientInv => SyncIsComplete
  BY DEF ClientInv, HoldsPushed, SeenIsMine, SyncIsComplete, Mine
<1> QED BY <1>1, RealtimeInvariant, PTL

\* The client changes nothing of what the outbox promises.
THEOREM ClientsAreHarmless ==
  RealtimeSpec => []ProcessedIsPublished /\ (LongKept => []PublishedOnce)
<1>1. IInv => ProcessedIsPublished
  BY DEF IInv
<1>2. CASE LongKept
  <2>1. IInv => PublishedOnce
    BY <1>2 DEF IInv, JobsOK, PublishedOnce
  <2> QED BY <1>1, <2>1, RealtimeInvariant, PTL
<1>3. CASE ~LongKept
  BY <1>1, <1>3, RealtimeInvariant, PTL
<1> QED BY <1>2, <1>3

=============================================================================
