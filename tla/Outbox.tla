------------------------------- MODULE Outbox -------------------------------
(***************************************************************************)
(* The transactional outbox: OutboxService.flushPending run after a commit *)
(* (kickFlush) and by the outbox-flush cron, the BullMQ queues its rows    *)
(* fan out to, and the workers that consume them.                          *)
(*                                                                         *)
(* The SELECT ... FOR UPDATE SKIP LOCKED of flushPending is a statement of *)
(* its own: its row locks are gone when it returns, so two flushes may     *)
(* hold the same row.  What keeps a row from being published twice is the  *)
(* jobId, for as long as BullMQ keeps the job.                             *)
(***************************************************************************)
EXTENDS Integers, FiniteSets

CONSTANTS
  Event,       \* outbox rows, numbered in the order of createdAt
  Queue,
  Route,       \* routeToQueues: the queues of each row's event type
  Flusher,     \* flushPending calls that may run at the same time
  Cron,        \* those the outbox-flush cron starts
  Limit,       \* LIMIT of the SELECT (50)
  MaxFaults,   \* bound on failures and crashes
  LongKept     \* completed jobs outlive every flush that may add them again

ASSUME OutboxAssumption ==
  /\ Event \subseteq Nat /\ IsFiniteSet(Event)
  /\ Route \in [Event -> (SUBSET Queue) \ {{}}]
  /\ Cron \subseteq Flusher
  /\ Limit \in Nat \ {0}
  /\ MaxFaults \in Nat
  /\ LongKept \in BOOLEAN

VARIABLES
  row,        \* status of each OutboxEvent row, "none" before its commit
  kicks,      \* after-commit hooks that have not run
  batch,      \* the rows a flush has selected and not finished
  step,       \* what a flush does next for the first row of its batch
  todo,       \* the queues it has still to add that row to
  job,        \* the job outbox-<queue>-<id>
  admitted,   \* how many jobs were created for a row and a queue
  delivered,  \* rows a consumer has handled
  faults

flush == <<batch, step, todo>>
bull  == <<job, admitted, delivered>>
vars  == <<row, kicks, flush, bull, faults>>

Slot == {p \in Event \X Queue : p[2] \in Route[p[1]]}

Pending == {e \in Event : row[e] = "PENDING"}

First(rows) == CHOOSE e \in rows : \A d \in rows : e <= d

\* The Limit oldest of the rows.
Oldest(rows) ==
  {e \in rows : Cardinality({d \in rows : d < e}) < Limit}

\* Rows other flushes are updating at the moment.
InUpdate(f) ==
  {First(batch[g]) : g \in {h \in Flusher \ {f} : step[h] \in {"mark", "bump"}}}

-----------------------------------------------------------------------------
\* A request transaction commits the rows OutboxService.enqueue wrote, and the
\* interceptor runs the hook each kickFlush registered.
Commit ==
  \E rows \in SUBSET {e \in Event : row[e] = "none"} :
    /\ rows # {}
    /\ row' = [e \in Event |-> IF e \in rows THEN "PENDING" ELSE row[e]]
    /\ kicks' = kicks + Cardinality(rows)
    /\ UNCHANGED <<flush, bull, faults>>

\* Go on with the remaining rows of the batch.
GoOn(f, rows) ==
  /\ batch' = [batch EXCEPT ![f] = rows]
  /\ step' = [step EXCEPT ![f] = IF rows = {} THEN "idle" ELSE "publish"]
  /\ todo' = [todo EXCEPT ![f] = IF rows = {} THEN {} ELSE Route[First(rows)]]

\* Mutated form of Select: the cron job never calls flushPending.
SelectWithoutCron(f) ==
  /\ step[f] = "idle"
  /\ \/ f \in Cron /\ UNCHANGED <<kicks, flush>>
     \/ /\ f \notin Cron /\ kicks > 0 /\ kicks' = kicks - 1
        /\ GoOn(f, Oldest(Pending))
  /\ UNCHANGED <<row, bull, faults>>

\* flushPending: the SELECT skips rows that are locked while it runs.
Select(f) ==
  /\ step[f] = "idle"
  /\ \/ f \in Cron /\ UNCHANGED kicks
     \/ f \notin Cron /\ kicks > 0 /\ kicks' = kicks - 1
  /\ \E skipped \in SUBSET (Pending \cap InUpdate(f)) :
       GoOn(f, Oldest(Pending \ skipped))
  /\ UNCHANGED <<row, bull, faults>>

\* Mutated form of AddJobs: the job has no jobId.
AddAnonymous(e, queues) ==
  /\ job' = [p \in Slot |-> IF p[1] = e /\ p[2] \in queues THEN "waiting" ELSE job[p]]
  /\ admitted' = [p \in Slot |->
       IF p[1] = e /\ p[2] \in queues /\ admitted[p] < 2 THEN admitted[p] + 1 ELSE admitted[p]]

\* Queue.add: a jobId that is still known makes it a no-op.
AddJobs(e, queues) ==
  LET created == {p \in Slot : p[1] = e /\ p[2] \in queues /\ job[p] = "absent"} IN
  /\ job' = [p \in Slot |-> IF p \in created THEN "waiting" ELSE job[p]]
  /\ admitted' = [p \in Slot |->
       IF p \in created /\ admitted[p] < 2 THEN admitted[p] + 1 ELSE admitted[p]]

\* Mutated form of Publish: the first answer of the fan-out is enough.
PublishRace(f) ==
  /\ step[f] = "publish"
  /\ \E q \in todo[f] :
       /\ AddJobs(First(batch[f]), {q})
       /\ todo' = [todo EXCEPT ![f] = {}]
       /\ step' = [step EXCEPT ![f] = "mark"]
  /\ UNCHANGED <<row, kicks, batch, delivered, faults>>

\* One of the adds of Promise.all is answered; the last answer ends it.
Publish(f) ==
  /\ step[f] = "publish"
  /\ \E q \in todo[f] :
       /\ AddJobs(First(batch[f]), {q})
       /\ todo' = [todo EXCEPT ![f] = @ \ {q}]
       /\ step' = [step EXCEPT ![f] = IF todo[f] = {q} THEN "mark" ELSE @]
  /\ UNCHANGED <<row, kicks, batch, delivered, faults>>

Fault == faults < MaxFaults /\ faults' = faults + 1

\* One add is rejected: the others may still land.
PublishFails(f) ==
  /\ step[f] = "publish"
  /\ \E landed \in SUBSET todo[f] :
       landed # todo[f] /\ AddJobs(First(batch[f]), landed)
  /\ step' = [step EXCEPT ![f] = "bump"]
  /\ todo' = [todo EXCEPT ![f] = {}]
  /\ Fault
  /\ UNCHANGED <<row, kicks, batch, delivered>>

MarkProcessed(f) ==
  /\ step[f] = "mark"
  /\ row' = [row EXCEPT ![First(batch[f])] = "PROCESSED"]
  /\ GoOn(f, batch[f] \ {First(batch[f])})
  /\ UNCHANGED <<kicks, bull, faults>>

MarkFails(f) ==
  /\ step[f] = "mark"
  /\ step' = [step EXCEPT ![f] = "bump"]
  /\ Fault
  /\ UNCHANGED <<row, kicks, batch, todo, bull>>

\* The row stays PENDING; the attempts column is not modelled, nothing reads it.
BumpAttempts(f) ==
  /\ step[f] = "bump"
  /\ GoOn(f, batch[f] \ {First(batch[f])})
  /\ UNCHANGED <<row, kicks, bull, faults>>

\* bumpAttempts throws or the process dies: the rest of the batch is dropped.
FlushLost(f) ==
  /\ step[f] # "idle"
  /\ GoOn(f, {})
  /\ Fault
  /\ UNCHANGED <<row, kicks, bull>>

\* The process dies between the commit and the hook.
KickLost ==
  /\ kicks > 0 /\ kicks' = kicks - 1
  /\ Fault
  /\ UNCHANGED <<row, flush, bull>>

-----------------------------------------------------------------------------
\* BullMQ and the consumers.

StartJob(p) ==
  /\ job[p] = "waiting"
  /\ job' = [job EXCEPT ![p] = "active"]
  /\ UNCHANGED <<row, kicks, flush, admitted, delivered, faults>>

CompleteJob(p) ==
  /\ job[p] = "active"
  /\ job' = [job EXCEPT ![p] = "completed"]
  /\ delivered' = delivered \cup {p}
  /\ UNCHANGED <<row, kicks, flush, admitted, faults>>

\* A worker that dies or is closed by force gives the job back, its effect
\* done or not.
ReturnJob(p) ==
  /\ job[p] = "active"
  /\ job' = [job EXCEPT ![p] = "waiting"]
  /\ delivered' \in {delivered, delivered \cup {p}}
  /\ Fault
  /\ UNCHANGED <<row, kicks, flush, admitted>>

\* A completed job is dropped after an hour, or after a thousand others.
ExpireJob(p) ==
  /\ job[p] = "completed"
  /\ LongKept => row[p[1]] = "PROCESSED" /\ \A f \in Flusher : p[1] \notin batch[f]
  /\ job' = [job EXCEPT ![p] = "absent"]
  /\ UNCHANGED <<row, kicks, flush, admitted, delivered, faults>>

-----------------------------------------------------------------------------
Init ==
  /\ row = [e \in Event |-> "none"]
  /\ kicks = 0
  /\ batch = [f \in Flusher |-> {}]
  /\ step = [f \in Flusher |-> "idle"]
  /\ todo = [f \in Flusher |-> {}]
  /\ job = [p \in Slot |-> "absent"]
  /\ admitted = [p \in Slot |-> 0]
  /\ delivered = {}
  /\ faults = 0

Flush(f) == Publish(f) \/ MarkProcessed(f) \/ BumpAttempts(f)
Work(p) == StartJob(p) \/ CompleteJob(p)

Next ==
  \/ Commit
  \/ \E f \in Flusher :
       Select(f) \/ Flush(f) \/ PublishFails(f) \/ MarkFails(f) \/ FlushLost(f)
  \/ KickLost
  \/ \E p \in Slot : Work(p) \/ ReturnJob(p) \/ ExpireJob(p)

Spec == Init /\ [][Next]_vars

\* The cron fires every 30 seconds, a running flush and a running worker go on.
Fairness ==
  /\ \A f \in Cron : WF_vars(Select(f))
  /\ \A f \in Flusher : WF_vars(Flush(f))
  /\ \A p \in Slot : WF_vars(Work(p))

-----------------------------------------------------------------------------
\* Properties.

\* Type correctness of every variable.
TypeOK ==
  /\ row \in [Event -> {"none", "PENDING", "PROCESSED"}]
  /\ kicks \in Nat
  /\ batch \in [Flusher -> SUBSET Event]
  /\ step \in [Flusher -> {"idle", "publish", "mark", "bump"}]
  /\ todo \in [Flusher -> SUBSET Queue]
  /\ job \in [Slot -> {"absent", "waiting", "active", "completed"}]
  /\ admitted \in [Slot -> 0..2]
  /\ delivered \subseteq Slot
  /\ faults \in Nat

\* The row has reached the queue: its job is there, or was consumed.
Published(p) == job[p] # "absent" \/ p \in delivered

\* A row marked PROCESSED, which no flush will look at again, has reached
\* every queue of its route, whatever add, UPDATE or process failed on the way.
ProcessedIsPublished ==
  \A p \in Slot : row[p[1]] = "PROCESSED" => Published(p)

\* Jobs are keyed per queue so that replays stay idempotent per consumer:
\* overlapping and repeated flushes of a row create one job per queue.
PublishedOnce == \A p \in Slot : admitted[p] <= 1

\* Every committed row is handled by every consumer of its route and marked
\* PROCESSED, even when the flush after the commit is lost.
EventuallyDelivered ==
  \A e \in Event :
    row[e] = "PENDING" ~> row[e] = "PROCESSED" /\ {e} \X Route[e] \subseteq delivered

-----------------------------------------------------------------------------
\* The inductive invariant behind ProcessedIsPublished and PublishedOnce.

\* A flush that works has a row; past the fan-out, and for the queues already
\* answered during it, that row is published.
FlushOK ==
  \A f \in Flusher :
    /\ step[f] # "idle" => batch[f] # {}
    /\ batch[f] \subseteq {e \in Event : row[e] # "none"}
    /\ step[f] \in {"publish", "mark"} =>
         \A p \in Slot :
           p[1] = First(batch[f]) /\ p[2] \notin todo[f] => Published(p)
    /\ step[f] = "mark" => todo[f] = {}

\* Only consumed jobs are dropped, and under LongKept only when no flush can
\* add them again.
JobsOK ==
  \A p \in Slot :
    /\ job[p] = "completed" => p \in delivered
    /\ job[p] # "absent" => admitted[p] >= 1
    /\ LongKept =>
         /\ admitted[p] <= 1
         /\ admitted[p] = 1 =>
              \/ job[p] # "absent"
              \/ /\ row[p[1]] = "PROCESSED"
                 /\ \A f \in Flusher : p[1] \notin batch[f]

IInv == TypeOK /\ ProcessedIsPublished /\ FlushOK /\ JobsOK
=============================================================================
