---------------------------- MODULE Appointments ----------------------------
(***************************************************************************)
(* The appointment write path: AppointmentsService, StaffService.remove,   *)
(* the request transaction of TenantTxInterceptor, the EXCLUDE and UNIQUE  *)
(* constraints of the Appointment table, the transactional outbox rows and *)
(* the reminder jobs in Redis.                                             *)
(*                                                                         *)
(* Every request runs in one Read Committed transaction.  Each database    *)
(* statement is one step: it sees the committed tables and the rows its    *)
(* own transaction wrote (tx).  A row some other open transaction has      *)
(* written is locked until that transaction ends.  Redis is not            *)
(* transactional: reminder jobs appear and disappear at once.              *)
(***************************************************************************)
EXTENDS AppointmentState, FiniteSets

CONSTANTS
  Req,        \* concurrent request slots of the API process
  Appt,       \* appointment ids; bounds the number of INSERTs
  Staff,
  Service,
  Duration,   \* Duration[staff, service], 0 when the staff does not offer it
  Grid,       \* start times assertOnSlotBoundary accepts
  Leads,      \* reminder windows before startTime (24h and 1h in the code)
  ClockSkew,  \* CLOCK_SKEW_TOLERANCE_MS
  MaxNow,     \* bound on the clock
  MayFail,    \* requests whose transaction may be lost (timeout, crash)
  Ops,        \* the operations clients send
  None

Row == [staff: Staff, service: Service, start: Nat, end: Nat,
        status: Status, deleted: BOOLEAN, from: Appt \cup {None},
        reason: {"", "request", "RESCHEDULED", "staff_removed"}]

Op == [kind: {"create"}, staff: Staff, service: Service, start: Nat,
       autoConfirm: BOOLEAN]
 \cup [kind: {"transition"}, id: Appt,
       to: {"CONFIRMED", "IN_PROGRESS", "COMPLETED", "NO_SHOW"}]
 \cup [kind: {"cancel", "remove", "update"}, id: Appt]
 \cup [kind: {"reschedule"}, id: Appt, staff: Staff, start: Nat]
 \cup [kind: {"staffRemove"}, staff: Staff, force: BOOLEAN]

Event == [type: {"created", "status", "rescheduled"}, appt: Appt,
          to: Status, old: Appt \cup {None}]

Job == [appt: Appt, lead: Leads, at: Int]

ASSUME ConstantsAssumption ==
  /\ Duration \in [Staff \X Service -> Nat]
  /\ Leads \subseteq Nat
  /\ ClockSkew \in Nat
  /\ MaxNow \in Nat
  /\ MayFail \subseteq Req
  /\ Ops \subseteq Op
\* What an appointment occupies.
Slot == [staff: Staff, start: Nat, end: Nat]

ASSUME NoneAssumption ==
  None \notin Row /\ None \notin Appt /\ None \notin Ops /\ None \notin Slot

VARIABLES
  now,       \* the clock, in slot units
  appt,      \* committed Appointment rows, None where no row exists
  removed,   \* committed Staff.deletedAt / isActive = false
  outbox,    \* committed OutboxEvent rows
  delayed,   \* reminder jobs waiting in the Notifications queue
  active,    \* reminder jobs a worker is running
  used,      \* ids generated so far
  op,        \* the operation a request serves, None when the slot is free
  pc,        \* the statement it is about to execute
  seen,      \* the row findOne returned
  new,       \* the id of the row this request inserts
  tx,        \* its uncommitted Appointment rows
  txEvents,  \* its uncommitted OutboxEvent rows
  txStaff    \* its uncommitted Staff removals

tables == <<appt, removed, outbox>>
redis  == <<delayed, active>>
local  == <<op, pc, seen, new, tx, txEvents, txStaff>>
vars   == <<now, tables, redis, used, local>>

-----------------------------------------------------------------------------
\* The statements of each handler, in the order it awaits them.
Statements == {"find", "validate", "insert", "remind", "link", "setStatus",
               "unremind", "patch", "findStaff", "count", "cancelAll",
               "deleteStaff", "commit"}

First(kind) ==
  CASE kind = "create"      -> "validate"
    [] kind = "staffRemove" -> "findStaff"
    [] OTHER                -> "find"

\* Mutated form of After: reschedule releases the old slot before it takes the
\* new one.
AfterCancelFirst(kind, s) ==
  CASE s = "find" /\ kind \in {"transition", "cancel", "reschedule"} -> "setStatus"
    [] s = "find" /\ kind \in {"remove", "update"}  -> "patch"
    [] s = "setStatus" /\ kind = "reschedule"       -> "validate"
    [] s = "validate"                               -> "insert"
    [] s = "insert"                                 -> "remind"
    [] s = "remind" /\ kind = "reschedule"          -> "link"
    [] s = "link"                                   -> "unremind"
    [] s = "setStatus" /\ kind = "cancel"           -> "unremind"
    [] s = "findStaff"                              -> "count"
    [] s = "count"                                  -> "cancelAll"
    [] s = "cancelAll"                              -> "deleteStaff"
    [] OTHER                                        -> "commit"

\* Mutated form of After: reschedule forgets to cancel the old appointment.
AfterNoCancel(kind, s) ==
  CASE s = "find" /\ kind = "reschedule"            -> "validate"
    [] s = "find" /\ kind \in {"transition", "cancel"} -> "setStatus"
    [] s = "find" /\ kind \in {"remove", "update"}  -> "patch"
    [] s = "validate"                               -> "insert"
    [] s = "insert"                                 -> "remind"
    [] s = "remind" /\ kind = "reschedule"          -> "link"
    [] s \in {"link", "setStatus"} /\ kind # "transition" -> "unremind"
    [] s = "findStaff"                              -> "count"
    [] s = "count"                                  -> "cancelAll"
    [] s = "cancelAll"                              -> "deleteStaff"
    [] OTHER                                        -> "commit"

After(kind, s) ==
  CASE s = "find" /\ kind = "reschedule"            -> "validate"
    [] s = "find" /\ kind \in {"transition", "cancel"} -> "setStatus"
    [] s = "find" /\ kind \in {"remove", "update"}  -> "patch"
    [] s = "validate"                               -> "insert"
    [] s = "insert"                                 -> "remind"
    [] s = "remind" /\ kind = "reschedule"          -> "link"
    [] s = "link"                                   -> "setStatus"
    [] s = "setStatus" /\ kind # "transition"       -> "unremind"
    [] s = "findStaff"                              -> "count"
    [] s = "count"                                  -> "cancelAll"
    [] s = "cancelAll"                              -> "deleteStaff"
    [] OTHER                                        -> "commit"

Inserts(o) == o.kind \in {"create", "reschedule"}

\* The status the UPDATE of a handler writes.
Target(o) == IF o.kind = "transition" THEN o.to ELSE "CANCELLED"

-----------------------------------------------------------------------------
\* What PostgreSQL shows and locks.

\* The version of row a the transaction of r sees.
View(r, a) == IF tx[r][a] # None THEN tx[r][a] ELSE appt[a]

LockedByOther(r, a) == \E q \in Req \ {r} : tx[q][a] # None

Clash(x, y) == /\ x # None /\ y # None
               /\ HoldsSlot(x) /\ HoldsSlot(y)
               /\ Overlap(x, y)

\* Writing row as version of a violates appointment_no_overlap.
Excluded(r, a, row) ==
  \E b \in Appt \ {a} : ~LockedByOther(r, b) /\ Clash(row, View(r, b))

\* Mutated form of ExclusionWaits: uncommitted rows are not looked at.
ExclusionIgnoresOpen(r, a, row) == FALSE

\* The constraint check meets a row version of an open transaction and waits.
ExclusionWaits(r, a, row) ==
  \E b \in Appt \ {a}, q \in Req \ {r} :
    tx[q][b] # None /\ (Clash(row, tx[q][b]) \/ Clash(row, appt[b]))

\* Appointment_rescheduledFromId_key, checked when r links its new row to old.
Successor(row, old) == row # None /\ row.from = old
\* Mutated form of LinkTaken: rescheduledFromId has no unique index.
LinkNeverTaken(r, old) == FALSE
LinkTaken(r, old) ==
  \E b \in Appt : ~LockedByOther(r, b) /\ Successor(View(r, b), old)
LinkWaits(r, old) ==
  \E b \in Appt, q \in Req \ {r} :
    tx[q][b] # None /\ (Successor(tx[q][b], old) \/ Successor(appt[b], old))

-----------------------------------------------------------------------------
\* Ends of a request.

Reset(r) ==
  /\ op' = [op EXCEPT ![r] = None]
  /\ pc' = [pc EXCEPT ![r] = "idle"]
  /\ seen' = [seen EXCEPT ![r] = None]
  /\ new' = [new EXCEPT ![r] = None]
  /\ tx' = [tx EXCEPT ![r] = [a \in Appt |-> None]]
  /\ txEvents' = [txEvents EXCEPT ![r] = {}]
  /\ txStaff' = [txStaff EXCEPT ![r] = {}]

\* Mutated form of Fail: outbox rows are written outside the transaction.
FailKeepsEvents(r) ==
  /\ Reset(r)
  /\ outbox' = outbox \cup txEvents[r]
  /\ UNCHANGED <<now, appt, removed, used>>

\* The handler throws: ROLLBACK.  What it did in Redis stays done.
Fail(r) == Reset(r) /\ UNCHANGED <<now, tables, used>>

\* The request at r is about to execute statement s.
At(r, s) == pc[r] = s
Advance(r) == pc' = [pc EXCEPT ![r] = After(op[r].kind, @)]

\* A UUID nobody has: which one does not matter.
FreshId == CHOOSE a \in Appt : a \notin used

\* TenantTxInterceptor opens the transaction.  The id of the row the handler
\* will insert is drawn here.
Begin(r) ==
  /\ op[r] = None
  /\ \E o \in Ops :
       /\ op' = [op EXCEPT ![r] = o]
       /\ pc' = [pc EXCEPT ![r] = First(o.kind)]
       /\ \/ /\ Inserts(o)
             /\ Appt \ used # {}
             /\ new' = [new EXCEPT ![r] = FreshId]
             /\ used' = used \cup {FreshId}
          \/ ~Inserts(o) /\ UNCHANGED <<new, used>>
  /\ UNCHANGED <<now, tables, redis, seen, tx, txEvents, txStaff>>

Commit(r) ==
  /\ At(r, "commit")
  /\ appt' = [a \in Appt |-> View(r, a)]
  /\ outbox' = outbox \cup txEvents[r]
  /\ removed' = removed \cup txStaff[r]
  /\ Reset(r)
  /\ UNCHANGED <<now, redis, used>>

\* Transaction timeout, lock timeout, lost connection or process crash.
TxLost(r) ==
  /\ r \in MayFail
  /\ op[r] # None
  /\ Fail(r)
  /\ UNCHANGED redis

-----------------------------------------------------------------------------
\* AppointmentsService.findOne and the checks made on the row it returns.

Missing(row) == row = None \/ row.deleted

AlreadyThere(o, row) ==
  o.kind \in {"transition", "cancel"} /\ row.status = Target(o)

\* findOne returns the row and assertCanTransition, where called, accepts it.
Allowed(o, row) ==
  /\ ~Missing(row)
  /\ \/ o.kind \in {"remove", "update"}
     \/ AlreadyThere(o, row)
     \/ canTransition(row.status, Target(o))

FindFails(r) ==
  /\ At(r, "find")
  /\ ~Allowed(op[r], View(r, op[r].id))
  /\ Fail(r)
  /\ UNCHANGED redis

\* Same status: the handler returns the row as it is.
FindAlreadyThere(r) ==
  /\ At(r, "find")
  /\ ~Missing(View(r, op[r].id)) /\ AlreadyThere(op[r], View(r, op[r].id))
  /\ pc' = [pc EXCEPT ![r] = "commit"]
  /\ UNCHANGED <<now, tables, redis, used, op, seen, new, tx, txEvents, txStaff>>

Find(r) ==
  /\ At(r, "find")
  /\ LET row == View(r, op[r].id) IN
       /\ Allowed(op[r], row) /\ ~AlreadyThere(op[r], row)
       /\ seen' = [seen EXCEPT ![r] = row]
  /\ Advance(r)
  /\ UNCHANGED <<now, tables, redis, used, op, new, tx, txEvents, txStaff>>

-----------------------------------------------------------------------------
\* AppointmentsService.create, called by POST /appointments and by reschedule.

ServiceOf(r) == IF op[r].kind = "create" THEN op[r].service ELSE seen[r].service

\* reschedule passes autoConfirm when the old appointment was CONFIRMED.
AutoConfirm(r) ==
  IF op[r].kind = "create" THEN op[r].autoConfirm ELSE seen[r].status = "CONFIRMED"

NewRow(r) ==
  [staff   |-> op[r].staff,
   service |-> ServiceOf(r),
   start   |-> op[r].start,
   end     |-> op[r].start + Duration[op[r].staff, ServiceOf(r)],
   status  |-> IF AutoConfirm(r) THEN "CONFIRMED" ELSE "PENDING",
   deleted |-> FALSE,
   from    |-> None,
   reason  |-> ""]

\* Active staff, service offered, start in the future and on the slot grid.
Acceptable(r) ==
  /\ op[r].staff \notin removed
  /\ Duration[op[r].staff, ServiceOf(r)] > 0
  /\ op[r].start + ClockSkew > now
  /\ op[r].start \in Grid

Validate(r) ==
  /\ At(r, "validate")
  /\ Acceptable(r)
  /\ Advance(r)
  /\ UNCHANGED <<now, tables, redis, used, op, seen, new, tx, txEvents, txStaff>>

ValidateFails(r) ==
  /\ At(r, "validate")
  /\ ~Acceptable(r)
  /\ Fail(r)
  /\ UNCHANGED redis

\* INSERT of the row and of its appointment.created outbox row.
Insert(r) ==
  /\ At(r, "insert")
  /\ ~Excluded(r, new[r], NewRow(r))
  /\ ~ExclusionWaits(r, new[r], NewRow(r))
  /\ tx' = [tx EXCEPT ![r][new[r]] = NewRow(r)]
  /\ txEvents' = [txEvents EXCEPT ![r] = @ \cup
       {[type |-> "created", appt |-> new[r], to |-> NewRow(r).status, old |-> None]}]
  /\ Advance(r)
  /\ UNCHANGED <<now, tables, redis, used, op, seen, new, txStaff>>

\* Exclusion violation, answered with "Requested slot is already taken".
InsertFails(r) ==
  /\ At(r, "insert")
  /\ Excluded(r, new[r], NewRow(r))
  /\ Fail(r)
  /\ UNCHANGED redis

RemindersOf(a, row, t) ==
  {j \in [appt: {a}, lead: Leads, at: {row.start - l : l \in Leads}] :
     j.at = row.start - j.lead /\ j.at > t}

\* Delayed jobs for the windows that are still ahead.
ScheduleReminders(r) ==
  /\ At(r, "remind")
  /\ delayed' = delayed \cup RemindersOf(new[r], NewRow(r), now)
  /\ Advance(r)
  /\ UNCHANGED <<now, tables, active, used, op, seen, new, tx, txEvents, txStaff>>

-----------------------------------------------------------------------------
\* UPDATEs of one Appointment row by id.

\* reschedule: rescheduledFromId of the new row.
Link(r) ==
  /\ At(r, "link")
  /\ ~LinkTaken(r, op[r].id)
  /\ ~LinkWaits(r, op[r].id)
  /\ tx' = [tx EXCEPT ![r][new[r]].from = op[r].id]
  /\ Advance(r)
  /\ UNCHANGED <<now, tables, redis, used, op, seen, new, txEvents, txStaff>>

\* Unique violation: the appointment was rescheduled by someone else.
LinkFails(r) ==
  /\ At(r, "link")
  /\ LinkTaken(r, op[r].id)
  /\ Fail(r)
  /\ UNCHANGED redis

\* Mutated form of UpdatedRow: a misspelt status.
UpdatedRowMisspelt(r) ==
  [View(r, op[r].id) EXCEPT
     !.status = IF op[r].kind = "transition" THEN op[r].to ELSE "CANCELED",
     !.reason = IF op[r].kind = "cancel" THEN "request" ELSE "RESCHEDULED"]

\* The row as the UPDATE leaves it: the latest version with the new status.
UpdatedRow(r) ==
  LET row == View(r, op[r].id) IN
  [row EXCEPT !.status = Target(op[r]),
              !.reason = CASE op[r].kind = "cancel"     -> "request"
                           [] op[r].kind = "reschedule" -> "RESCHEDULED"
                           [] OTHER                     -> @]

\* Mutated form of EventOf: fromStatus where toStatus belongs.
EventOfSwapped(r) ==
  IF op[r].kind = "reschedule"
  THEN [type |-> "rescheduled", appt |-> new[r], to |-> "CANCELLED", old |-> op[r].id]
  ELSE [type |-> "status", appt |-> op[r].id, to |-> seen[r].status, old |-> None]

\* appointment.rescheduled announces the new row and, without a toStatus of its
\* own, the cancellation of the old one.
EventOf(r) ==
  IF op[r].kind = "reschedule"
  THEN [type |-> "rescheduled", appt |-> new[r], to |-> "CANCELLED", old |-> op[r].id]
  ELSE [type |-> "status", appt |-> op[r].id, to |-> Target(op[r]), old |-> None]

\* UPDATE ... SET status, with no condition on the status it replaces, and
\* the outbox row of the event.
SetStatus(r) ==
  /\ At(r, "setStatus")
  /\ ~LockedByOther(r, op[r].id)
  /\ ~Excluded(r, op[r].id, UpdatedRow(r))
  /\ ~ExclusionWaits(r, op[r].id, UpdatedRow(r))
  /\ tx' = [tx EXCEPT ![r][op[r].id] = UpdatedRow(r)]
  /\ txEvents' = [txEvents EXCEPT ![r] = @ \cup {EventOf(r)}]
  /\ Advance(r)
  /\ UNCHANGED <<now, tables, redis, used, op, seen, new, txStaff>>

\* The slot was freed and taken since findOne: exclusion violation.
SetStatusFails(r) ==
  /\ At(r, "setStatus")
  /\ ~LockedByOther(r, op[r].id)
  /\ Excluded(r, op[r].id, UpdatedRow(r))
  /\ Fail(r)
  /\ UNCHANGED redis

\* remove sets deletedAt; update writes notes and metadata only.
Patch(r) ==
  /\ At(r, "patch")
  /\ ~LockedByOther(r, op[r].id)
  /\ tx' = [tx EXCEPT ![r][op[r].id] =
              [View(r, op[r].id) EXCEPT !.deleted = @ \/ op[r].kind = "remove"]]
  /\ Advance(r)
  /\ UNCHANGED <<now, tables, redis, used, op, seen, new, txEvents, txStaff>>

JobsOf(jobs, a) == {j \in jobs : j.appt = a}

\* Mutated form of CancelReminders: the jobs of the new appointment are
\* removed instead of those of the old one.
CancelNewReminders(r) ==
  /\ At(r, "unremind")
  /\ JobsOf(active, op[r].id) = {}
  /\ delayed' = delayed \ JobsOf(delayed, new[r])
  /\ Advance(r)
  /\ UNCHANGED <<now, tables, active, used, op, seen, new, tx, txEvents, txStaff>>

\* cancelReminders: BullMQ refuses to remove a job a worker is running.
CancelReminders(r) ==
  /\ At(r, "unremind")
  /\ JobsOf(active, op[r].id) = {}
  /\ delayed' = delayed \ JobsOf(delayed, op[r].id)
  /\ Advance(r)
  /\ UNCHANGED <<now, tables, active, used, op, seen, new, tx, txEvents, txStaff>>

CancelRemindersFails(r) ==
  /\ At(r, "unremind")
  /\ JobsOf(active, op[r].id) # {}
  /\ delayed' = delayed \ JobsOf(delayed, op[r].id)
  /\ Fail(r)
  /\ UNCHANGED active

\* The request is lost between the Redis calls of scheduleReminders or of
\* cancelReminders: some were made, and the transaction is rolled back.
RedisPartlyDone(r) ==
  /\ r \in MayFail
  /\ \/ At(r, "remind") /\ \E jobs \in SUBSET RemindersOf(new[r], NewRow(r), now) :
          delayed' = delayed \cup jobs
     \/ At(r, "unremind") /\ \E jobs \in SUBSET JobsOf(delayed, op[r].id) :
          delayed' = delayed \ jobs
  /\ Fail(r)
  /\ UNCHANGED active

-----------------------------------------------------------------------------
\* StaffService.remove.

\* Mutated form of FutureAppointments: unconfirmed bookings are forgotten.
ConfirmedFuture(r, s) ==
  {a \in Appt : LET row == View(r, a) IN
     /\ row # None
     /\ row.staff = s /\ row.start >= now
     /\ row.status \in {"CONFIRMED", "IN_PROGRESS"}}

\* Future appointments of s that r sees in an active status.
FutureAppointments(r, s) ==
  {a \in Appt : LET row == View(r, a) IN
     /\ row # None
     /\ row.staff = s /\ row.start >= now /\ isActiveStatus(row.status)}

FindStaff(r) ==
  /\ At(r, "findStaff")
  /\ op[r].staff \notin removed
  /\ Advance(r)
  /\ UNCHANGED <<now, tables, redis, used, op, seen, new, tx, txEvents, txStaff>>

FindStaffFails(r) ==
  /\ At(r, "findStaff")
  /\ op[r].staff \in removed
  /\ Fail(r)
  /\ UNCHANGED redis

\* The updateMany is skipped when the count is zero.
CountFuture(r) ==
  /\ At(r, "count")
  /\ \/ FutureAppointments(r, op[r].staff) # {} /\ op[r].force /\ Advance(r)
     \/ /\ FutureAppointments(r, op[r].staff) = {}
        /\ pc' = [pc EXCEPT ![r] = "deleteStaff"]
  /\ UNCHANGED <<now, tables, redis, used, op, seen, new, tx, txEvents, txStaff>>

CountFutureFails(r) ==
  /\ At(r, "count")
  /\ FutureAppointments(r, op[r].staff) # {} /\ ~op[r].force
  /\ Fail(r)
  /\ UNCHANGED redis

CancelAll(r) ==
  /\ At(r, "cancelAll")
  /\ LET future == FutureAppointments(r, op[r].staff) IN
       /\ \A a \in future : ~LockedByOther(r, a)
       /\ tx' = [tx EXCEPT ![r] = [a \in Appt |->
                   IF a \in future
                   THEN [View(r, a) EXCEPT !.status = "CANCELLED",
                                           !.reason = "staff_removed"]
                   ELSE tx[r][a]]]
  /\ Advance(r)
  /\ UNCHANGED <<now, tables, redis, used, op, seen, new, txEvents, txStaff>>

\* deletedAt and isActive = false; waits for another removal of the same row.
\* (The linked dashboard user is deactivated too: RefreshTokens.Deactivate.)
DeleteStaff(r) ==
  /\ At(r, "deleteStaff")
  /\ \A q \in Req \ {r} : op[r].staff \notin txStaff[q]
  /\ txStaff' = [txStaff EXCEPT ![r] = @ \cup {op[r].staff}]
  /\ Advance(r)
  /\ UNCHANGED <<now, tables, redis, used, op, seen, new, tx, txEvents>>

-----------------------------------------------------------------------------
\* The clock and the Notifications worker.

Tick ==
  /\ now < MaxNow
  /\ now' = now + 1
  /\ UNCHANGED <<tables, redis, used, local>>

StartReminder ==
  \E j \in delayed :
    /\ j.at <= now
    /\ delayed' = delayed \ {j}
    /\ active' = active \cup {j}
    /\ UNCHANGED <<now, tables, used, local>>

FinishReminder ==
  \E j \in active :
    /\ active' = active \ {j}
    /\ UNCHANGED <<now, tables, delayed, used, local>>

\* A worker closed by force gives its job back to the queue.
RequeueReminder ==
  \E j \in active :
    /\ active' = active \ {j}
    /\ delayed' = delayed \cup {j}
    /\ UNCHANGED <<now, tables, used, local>>

-----------------------------------------------------------------------------
Init ==
  /\ now = 0
  /\ appt = [a \in Appt |-> None]
  /\ removed = {} /\ outbox = {}
  /\ delayed = {} /\ active = {}
  /\ used = {}
  /\ op = [r \in Req |-> None]
  /\ pc = [r \in Req |-> "idle"]
  /\ seen = [r \in Req |-> None]
  /\ new = [r \in Req |-> None]
  /\ tx = [r \in Req |-> [a \in Appt |-> None]]
  /\ txEvents = [r \in Req |-> {}]
  /\ txStaff = [r \in Req |-> {}]

\* One statement of the handler, or its COMMIT.
Statement(r) ==
  \/ Commit(r)
  \/ FindFails(r) \/ FindAlreadyThere(r) \/ Find(r)
  \/ Validate(r) \/ ValidateFails(r)
  \/ Insert(r) \/ InsertFails(r)
  \/ ScheduleReminders(r)
  \/ Link(r) \/ LinkFails(r)
  \/ SetStatus(r) \/ SetStatusFails(r)
  \/ Patch(r)
  \/ CancelReminders(r) \/ CancelRemindersFails(r)
  \/ FindStaff(r) \/ FindStaffFails(r)
  \/ CountFuture(r) \/ CountFutureFails(r)
  \/ CancelAll(r) \/ DeleteStaff(r)

Next ==
  \/ \E r \in Req : Begin(r) \/ Statement(r) \/ TxLost(r) \/ RedisPartlyDone(r)
  \/ Tick \/ StartReminder \/ FinishReminder \/ RequeueReminder

Spec == Init /\ [][Next]_vars

\* A statement that stays executable is executed: the event loop and the
\* database schedule every open request, and lock queues are first come,
\* first served.
FairSpec == Spec /\ \A r \in Req : SF_vars(Statement(r))

-----------------------------------------------------------------------------
\* Properties.

\* Type correctness of every variable.
TypeOK ==
  /\ now \in Nat
  /\ appt \in [Appt -> Row \cup {None}]
  /\ removed \subseteq Staff
  /\ outbox \subseteq Event
  /\ delayed \subseteq Job /\ active \subseteq Job
  /\ used \subseteq Appt
  /\ op \in [Req -> Ops \cup {None}]
  /\ pc \in [Req -> Statements \cup {"idle"}]
  /\ seen \in [Req -> Row \cup {None}]
  /\ new \in [Req -> Appt \cup {None}]
  /\ tx \in [Req -> [Appt -> Row \cup {None}]]
  /\ txEvents \in [Req -> SUBSET Event]
  /\ txStaff \in [Req -> SUBSET Staff]

\* Two committed appointments of one staff member that hold their slot never
\* overlap, whatever order bookings, reschedules and status changes based on
\* stale reads are interleaved in (appointment_no_overlap).
NoDoubleBooking ==
  \A a, b \in Appt : a # b => ~Clash(appt[a], appt[b])

\* An appointment is rescheduled at most once: concurrent reschedules of one
\* appointment leave at most one committed successor
\* (Appointment_rescheduledFromId_key).
UniqueSuccessor ==
  \A a, b \in Appt :
    /\ a # b
    /\ appt[a] # None /\ appt[b] # None
    /\ appt[a].from = appt[b].from
    => appt[a].from = None

\* The committed tables and the announcements agree both ways: the status of
\* every appointment has been announced by an outbox row committed with it,
\* except the cancellations StaffService.remove writes directly, and no outbox
\* row speaks of an appointment that was rolled back or of a link that is not
\* there.
EventsMatch ==
  /\ \A a \in Appt :
       /\ appt[a] # None
       /\ ~(appt[a].status = "CANCELLED" /\ appt[a].reason = "staff_removed")
       => \E e \in outbox :
            /\ e.to = appt[a].status
            /\ \/ e.type \in {"created", "status"} /\ e.appt = a
               \/ e.type = "rescheduled" /\ e.old = a
  /\ \A e \in outbox :
       /\ appt[e.appt] # None
       /\ e.type = "rescheduled" => appt[e.old] # None /\ appt[e.appt].from = e.old

\* Once the cancellation or the reschedule of an appointment is committed no
\* reminder of it is queued or running: cancelReminders ran before COMMIT and
\* would have failed the request on a running job.
CancelledNeverReminded ==
  \A a \in Appt :
    /\ appt[a] # None
    /\ appt[a].status = "CANCELLED" /\ appt[a].reason # "staff_removed"
    => JobsOf(delayed \cup active, a) = {}

\* Terminal states have no outgoing edges: no step changes the status of a
\* committed COMPLETED, CANCELLED or NO_SHOW appointment.
TerminalIsFinal ==
  [][\A a \in Appt :
       appt[a] # None /\ appt[a].status \in Terminal
       => appt'[a].status = appt[a].status]_vars

\* A rescheduled appointment stays cancelled, so that the customer does not
\* hold both the old and the new slot.
RescheduledIsReplaced ==
  \A a \in Appt :
    appt[a] # None /\ appt[a].from # None
    => appt[appt[a].from].status = "CANCELLED"

\* A removed staff member has no active appointment in the future
\* (StaffService.remove refuses, or cancels them with force).
RemovedStaffHasNoFuture ==
  \A a \in Appt :
    appt[a] # None /\ appt[a].staff \in removed
    => ~(appt[a].start >= now /\ isActiveStatus(appt[a].status))

SlotOf(row) ==
  IF row = None THEN None ELSE [staff |-> row.staff, start |-> row.start, end |-> row.end]

Holding == Status \ {"CANCELLED", "NO_SHOW"}

\* The committed tables as a Calendar.
Slots     == [a \in Appt |-> SlotOf(appt[a])]
Open      == {a \in Appt : appt[a] # None /\ appt[a].status \in Holding}
Withdrawn == {a \in Appt : appt[a] # None /\ appt[a].deleted}
Links     == [a \in Appt |-> IF appt[a] = None THEN None ELSE appt[a].from]

Cal == INSTANCE Calendar WITH
  slot      <- Slots,
  open      <- Open,
  withdrawn <- Withdrawn,
  from      <- Links,
  dismissed <- removed,
  announced <- outbox

\* Requests that interleave statement by statement, fail half-way, act on stale
\* reads and wait for each other's locks change the committed tables as if each
\* were one step of Calendar: complete, with its announcements, never two
\* overlapping slots, a reschedule never half done.
ImplementsCalendar == Cal!Spec

\* Every request ends, without the help of a lock or transaction timeout: the
\* statements of a handler come in an order in which requests never wait for
\* each other in a circle.  (An INSERT and its constraint check are one step
\* here; two INSERTs whose checks meet are resolved by PostgreSQL's deadlock
\* detector, which is a TxLost.)
RequestsEnd == \A r \in Req : op[r] # None ~> op[r] = None

-----------------------------------------------------------------------------
\* The inductive invariant behind NoDoubleBooking and UniqueSuccessor.

\* The statements a request of each kind can be at.
StatementsOf(kind) ==
  CASE kind = "create"      -> {"validate", "insert", "remind", "commit"}
    [] kind = "transition"  -> {"find", "setStatus", "commit"}
    [] kind = "cancel"      -> {"find", "setStatus", "unremind", "commit"}
    [] kind = "reschedule"  -> {"find", "validate", "insert", "remind", "link",
                                "setStatus", "unremind", "commit"}
    [] kind = "staffRemove" -> {"findStaff", "count", "cancelAll",
                                "deleteStaff", "commit"}
    [] OTHER                -> {"find", "patch", "commit"}

\* Where a request is, and the rows it may rely on there: past findOne the
\* row of its id exists, past INSERT its own row does.
RequestOK(r) ==
  /\ pc[r] = "idle" <=> op[r] = None
  /\ op[r] # None => pc[r] \in StatementsOf(op[r].kind)
  /\ op[r] # None /\ Inserts(op[r]) => new[r] \in Appt
  /\ pc[r] \in {"remind", "link"} => tx[r][new[r]] # None
  /\ pc[r] \in {"validate", "insert", "remind", "link", "setStatus",
                "unremind", "patch"} /\ op[r].kind # "create"
     => seen[r] # None /\ (appt[op[r].id] # None \/ tx[r][op[r].id] # None)

PcOK == \A r \in Req : RequestOK(r)

\* A row under construction is known to its own request only.
FreshOK ==
  /\ \A a \in Appt \ used : appt[a] = None /\ \A r \in Req : tx[r][a] = None
  /\ \A r \in Req : new[r] # None =>
       /\ new[r] \in used
       /\ appt[new[r]] = None
       /\ \A q \in Req \ {r} : new[q] # new[r] /\ tx[q][new[r]] = None

\* Two open transactions never hold versions of the same row.
LocksOK ==
  \A r, q \in Req, a \in Appt : r # q => tx[r][a] = None \/ tx[q][a] = None

\* Two rows that may not both be committed.
SameLink(x, y) == /\ x # None /\ y # None
                  /\ x.from # None /\ x.from = y.from
Conflict(x, y) == Clash(x, y) \/ SameLink(x, y)

\* No two rows conflict: committed ones, those one transaction sees, and
\* those two open transactions are about to commit.
NoConflict ==
  \A a, b \in Appt : a # b =>
    /\ ~Conflict(appt[a], appt[b])
    /\ \A r \in Req : ~Conflict(View(r, a), View(r, b))
    /\ \A r, q \in Req : r # q => ~Conflict(tx[r][a], tx[q][b])

IInv == TypeOK /\ PcOK /\ FreshOK /\ LocksOK /\ NoConflict

-----------------------------------------------------------------------------
\* The inductive invariant behind ImplementsCalendar: what an open transaction
\* holds at each statement, and so what its COMMIT publishes.

Announced(r, n) ==
  [type |-> "created", appt |-> n, to |-> tx[r][n].status, old |-> None]

NoWork(r) ==
  /\ \A a \in Appt : tx[r][a] = None
  /\ txEvents[r] = {} /\ txStaff[r] = {}

\* The new row, and nothing else but rows of A.
Inserted(r, A) ==
  /\ txStaff[r] = {}
  /\ tx[r][new[r]] # None
  /\ tx[r][new[r]].status \in {"CONFIRMED", "PENDING"} /\ ~tx[r][new[r]].deleted
  /\ \A a \in Appt \ ({new[r]} \cup A) : tx[r][a] = None

\* The row of the operation with its new status, and nothing else but rows of A.
Written(r, A) ==
  /\ txStaff[r] = {}
  /\ tx[r][op[r].id] # None
  /\ tx[r][op[r].id].status = Target(op[r])
  /\ \A a \in Appt \ ({op[r].id} \cup A) : tx[r][a] = None

Changed(r) == Written(r, {}) /\ txEvents[r] = {EventOf(r)}

CreateWork(r) ==
  IF pc[r] \in {"remind", "commit"}
  THEN Inserted(r, {}) /\ tx[r][new[r]].from = None /\ txEvents[r] = {Announced(r, new[r])}
  ELSE NoWork(r)

RescheduleWork(r) ==
  CASE pc[r] \in {"remind", "link"} ->
         Inserted(r, {}) /\ tx[r][new[r]].from = None /\ txEvents[r] = {Announced(r, new[r])}
    [] pc[r] = "setStatus" ->
         Inserted(r, {}) /\ tx[r][new[r]].from = op[r].id /\ txEvents[r] = {Announced(r, new[r])}
    [] pc[r] \in {"unremind", "commit"} ->
         /\ Inserted(r, {op[r].id}) /\ Written(r, {new[r]})
         /\ tx[r][new[r]].from = op[r].id
         /\ txEvents[r] = {Announced(r, new[r]), EventOf(r)}
    [] OTHER -> NoWork(r)

ChangeWork(r) ==
  CASE pc[r] = "unremind" -> Changed(r)
    [] pc[r] = "commit"   -> Changed(r) \/ NoWork(r)
    [] OTHER              -> NoWork(r)

PatchWork(r) ==
  IF pc[r] = "commit"
  THEN /\ txEvents[r] = {} /\ txStaff[r] = {}
       /\ tx[r][op[r].id] # None
       /\ tx[r][op[r].id].status = appt[op[r].id].status
       /\ tx[r][op[r].id].reason = appt[op[r].id].reason
       /\ tx[r][op[r].id].deleted = (appt[op[r].id].deleted \/ op[r].kind = "remove")
       /\ \A a \in Appt \ {op[r].id} : tx[r][a] = None
  ELSE NoWork(r)

StaffWork(r) ==
  IF pc[r] \in {"deleteStaff", "commit"}
  THEN /\ txEvents[r] = {}
       /\ txStaff[r] = IF pc[r] = "commit" THEN {op[r].staff} ELSE {}
       /\ \A a \in Appt : tx[r][a] # None =>
            /\ appt[a] # None /\ appt[a].staff = op[r].staff /\ isActiveStatus(appt[a].status)
            /\ tx[r][a].status = "CANCELLED" /\ tx[r][a].reason = "staff_removed"
  ELSE NoWork(r)

WorkOf(r) ==
  CASE op[r] = None                              -> NoWork(r)
    [] op[r] # None /\ op[r].kind = "create"     -> CreateWork(r)
    [] op[r] # None /\ op[r].kind = "reschedule" -> RescheduleWork(r)
    [] op[r] # None /\ op[r].kind \in {"transition", "cancel"} -> ChangeWork(r)
    [] op[r] # None /\ op[r].kind \in {"remove", "update"}     -> PatchWork(r)
    [] OTHER                                     -> StaffWork(r)

\* Past findOne the row of the operation is a committed one.
Found(r) ==
  op[r] # None /\ op[r].kind \in {"reschedule", "transition", "cancel", "remove", "update"}
    /\ pc[r] # "find"
  => appt[op[r].id] # None

\* A version keeps staff, time and link of the committed row, and only remove
\* touches deletedAt.
VersionOK(r) ==
  \A a \in Appt : tx[r][a] # None /\ appt[a] # None =>
    /\ SlotOf(tx[r][a]) = SlotOf(appt[a])
    /\ tx[r][a].from = appt[a].from
    /\ tx[r][a].deleted = appt[a].deleted \/ op[r].kind = "remove"

WorkOK == \A r \in Req : WorkOf(r) /\ Found(r) /\ VersionOK(r)

\* From cancelReminders to COMMIT no job of the appointment comes back.
RemindersGone ==
  \A r \in Req :
    /\ pc[r] = "commit"
    /\ op[r].kind \in {"cancel", "reschedule"} /\ tx[r][op[r].id] # None
    => JobsOf(delayed \cup active, op[r].id) = {}

-----------------------------------------------------------------------------
\* What one request at a time may rely on until its COMMIT.

\* findOne and assertCanTransition still hold.
StillLegal(r) ==
  op[r] # None /\ op[r].kind \in {"transition", "cancel", "reschedule"} /\ pc[r] # "find"
  => \/ canTransition(appt[op[r].id].status, Target(op[r]))
     \/ pc[r] = "commit" /\ tx[r][op[r].id] = None

\* The staff member of the new row is active.
StillActive(r) ==
  op[r] # None /\ Inserts(op[r]) =>
    /\ pc[r] \in {"insert", "remind", "link", "setStatus", "unremind", "commit"}
         => op[r].staff \notin removed
    /\ tx[r][new[r]] # None => tx[r][new[r]].staff = op[r].staff

\* The staff member being removed has no active appointment ahead.
StillFree(r) ==
  op[r] # None /\ op[r].kind = "staffRemove" /\ pc[r] \in {"deleteStaff", "commit"}
  => \A a \in Appt : View(r, a) # None /\ View(r, a).staff = op[r].staff
       => ~(View(r, a).start >= now /\ isActiveStatus(View(r, a).status))

SerialInv ==
  /\ \A r \in Req : StillLegal(r) /\ StillActive(r) /\ StillFree(r)
  /\ \A a \in Appt : appt[a] # None /\ appt[a].from # None => appt[appt[a].from] # None
  /\ RescheduledIsReplaced /\ RemovedStaffHasNoFuture
=============================================================================
