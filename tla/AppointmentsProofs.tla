------------------------- MODULE AppointmentsProofs -------------------------
(***************************************************************************)
(* Safety of the appointment write path, for any number of concurrent      *)
(* requests, staff, services, slots and appointments.                      *)
(***************************************************************************)
EXTENDS Appointments, TLAPS

-----------------------------------------------------------------------------
\* Lemmas about operations, statements and conflicts.

\* The fields of an operation, by the handler that serves it.
LEMMA OpFields ==
  ASSUME NEW o \in Ops
  PROVE  /\ o.kind \in {"create", "transition", "cancel", "remove", "update",
                        "reschedule", "staffRemove"}
         /\ o.kind \in {"transition", "cancel", "remove", "update", "reschedule"}
              => o.id \in Appt
         /\ o.kind \in {"create", "reschedule", "staffRemove"} => o.staff \in Staff
         /\ o.kind \in {"create", "reschedule"} => o.start \in Nat
         /\ o.kind = "create" => o.service \in Service /\ o.autoConfirm \in BOOLEAN
         /\ o.kind = "transition" => o.to \in Status
         /\ o.kind = "staffRemove" => o.force \in BOOLEAN
BY ConstantsAssumption DEF Op, Status

\* The id drawn for a new row was never used before.
LEMMA FreshIdIsFresh ==
  ASSUME Appt \ used # {}
  PROVE  FreshId \in Appt /\ FreshId \notin used
BY Zenon DEF FreshId

\* Conflict does not depend on the order of the two rows.
LEMMA ConflictSymmetric ==
  ASSUME NEW x, NEW y
  PROVE  Conflict(x, y) <=> Conflict(y, x)
BY DEF Conflict, Clash, SameLink, Overlap, HoldsSlot

\* Rows that do not exist conflict with nothing.
LEMMA NoneConflictsNever ==
  ASSUME NEW x
  PROVE  ~Conflict(None, x) /\ ~Conflict(x, None)
BY DEF Conflict, Clash, SameLink

\* What a request reads through View is a row or nothing.
LEMMA ViewType ==
  ASSUME TypeOK, NEW r \in Req, NEW a \in Appt
  PROVE  View(r, a) \in Row \cup {None}
BY DEF TypeOK, View

\* The row create builds is a row.
LEMMA NewRowType ==
  ASSUME TypeOK, PcOK, NEW r \in Req, pc[r] \in {"insert", "remind"}
  PROVE  /\ NewRow(r) \in Row
         /\ NewRow(r).from = None
         /\ new[r] \in Appt
<1>1. op[r] \in Ops /\ op[r].kind \in {"create", "reschedule"} /\ new[r] \in Appt
  BY OpFields DEF TypeOK, PcOK, RequestOK, StatementsOf, Inserts
<1>2. ServiceOf(r) \in Service /\ AutoConfirm(r) \in BOOLEAN
  <2>1. CASE op[r].kind = "create"
    BY <1>1, <2>1, OpFields DEF ServiceOf, AutoConfirm
  <2>2. CASE op[r].kind = "reschedule"
    <3>1. seen[r] \in Row
      BY <1>1, <2>2, NoneAssumption DEF PcOK, RequestOK, TypeOK
    <3> QED BY <2>2, <3>1 DEF ServiceOf, AutoConfirm, Row
  <2> QED BY <1>1, <2>1, <2>2
<1>3. op[r].staff \in Staff /\ op[r].start \in Nat
  BY <1>1, OpFields
<1>4. Duration[op[r].staff, ServiceOf(r)] \in Nat
  BY <1>2, <1>3, ConstantsAssumption
<1>5. op[r].start + Duration[op[r].staff, ServiceOf(r)] \in Nat
  <2> DEFINE start == op[r].start
             span  == Duration[op[r].staff, ServiceOf(r)]
  <2>1. start \in Nat /\ span \in Nat
    BY <1>3, <1>4
  <2> HIDE DEF start, span
  <2>2. start + span \in Nat
    BY <2>1
  <2> QED BY <2>2 DEF start, span
<1>6. (IF AutoConfirm(r) THEN "CONFIRMED" ELSE "PENDING") \in Status
  BY <1>2 DEF Status
<1>7. NewRow(r) \in Row /\ NewRow(r).from = None
  BY <1>2, <1>3, <1>5, <1>6 DEF NewRow, Row
<1> QED BY <1>1, <1>7

\* Past findOne the row addressed by the request exists, and the UPDATE
\* leaves a row that differs in status and reason only.
LEMMA UpdatedRowType ==
  ASSUME TypeOK, PcOK, NEW r \in Req, pc[r] \in {"setStatus", "patch", "link", "unremind"}
  PROVE  /\ op[r] \in Ops
         /\ op[r].kind \in {"transition", "cancel", "remove", "update", "reschedule"}
         /\ op[r].id \in Appt
         /\ View(r, op[r].id) \in Row
         /\ UpdatedRow(r) \in Row
         /\ UpdatedRow(r).from = View(r, op[r].id).from
         /\ EventOf(r).to = Target(op[r])
         /\ Target(op[r]) \in Status
<1>1. op[r] \in Ops /\ op[r].kind \in {"transition", "cancel", "remove", "update", "reschedule"}
  BY OpFields DEF TypeOK, PcOK, RequestOK, StatementsOf
<1>2. op[r].id \in Appt
  BY <1>1, OpFields
<1>3. View(r, op[r].id) \in Row
  BY <1>1, <1>2, ViewType DEF PcOK, RequestOK, View
<1>4. Target(op[r]) \in Status
  BY <1>1, OpFields DEF Target, Status
<1>5. UpdatedRow(r) \in Row /\ UpdatedRow(r).from = View(r, op[r].id).from
  BY <1>3, <1>4 DEF UpdatedRow, Row
<1>6. EventOf(r).to = Target(op[r])
  BY <1>1 DEF EventOf, Target
<1> QED BY <1>1, <1>2, <1>3, <1>4, <1>5, <1>6

\* Linking changes rescheduledFromId only.
LEMMA LinkedRowType ==
  ASSUME TypeOK, PcOK, NEW r \in Req, pc[r] = "link"
  PROVE  /\ op[r].id \in Appt /\ new[r] \in Appt /\ tx[r][new[r]] \in Row
         /\ [tx[r][new[r]] EXCEPT !.from = op[r].id] \in Row
<1>1. op[r] \in Ops /\ op[r].kind = "reschedule"
  BY OpFields DEF TypeOK, PcOK, RequestOK, StatementsOf
<1>2. op[r].id \in Appt /\ new[r] \in Appt /\ tx[r][new[r]] \in Row
  BY <1>1, OpFields DEF TypeOK, PcOK, RequestOK, Inserts
<1> QED BY <1>2 DEF Row

\* The rows StaffService.remove cancels are rows that keep their link.
LEMMA CancelledRowType ==
  ASSUME TypeOK, NEW r \in Req, NEW a \in FutureAppointments(r, op[r].staff)
  PROVE  LET row == [View(r, a) EXCEPT !.status = "CANCELLED", !.reason = "staff_removed"]
         IN  /\ View(r, a) \in Row
             /\ row \in Row
             /\ row.status = "CANCELLED"
             /\ row.from = View(r, a).from
<1>1. View(r, a) \in Row
  BY ViewType DEF FutureAppointments
<1> QED BY <1>1 DEF Row, Status

-----------------------------------------------------------------------------
\* Type correctness.

\* The next statement of a handler is one of its statements.
LEMMA AfterType ==
  ASSUME NEW o \in Ops, NEW s \in StatementsOf(o.kind)
  PROVE  After(o.kind, s) \in StatementsOf(o.kind) /\ After(o.kind, s) \in Statements
BY OpFields DEF After, StatementsOf, Statements

\* A request that ends leaves well-typed local state.
LEMMA ResetType ==
  ASSUME TypeOK, NEW r \in Req, Reset(r)
  PROVE  /\ op' \in [Req -> Ops \cup {None}]
         /\ pc' \in [Req -> Statements \cup {"idle"}]
         /\ seen' \in [Req -> Row \cup {None}]
         /\ new' \in [Req -> Appt \cup {None}]
         /\ tx' \in [Req -> [Appt -> Row \cup {None}]]
         /\ txEvents' \in [Req -> SUBSET Event]
         /\ txStaff' \in [Req -> SUBSET Staff]
BY DEF TypeOK, Reset

\* A failed request leaves a well-typed state.
LEMMA FailType ==
  ASSUME TypeOK, NEW r \in Req, Fail(r), delayed' \subseteq Job, active' \subseteq Job
  PROVE  TypeOK'
BY ResetType DEF TypeOK, Fail, tables

\* A request that advances is at a statement of its handler.
LEMMA AdvanceType ==
  ASSUME TypeOK, PcOK, NEW r \in Req, pc[r] # "idle", Advance(r)
  PROVE  /\ pc' \in [Req -> Statements \cup {"idle"}]
         /\ op[r] \in Ops
         /\ pc'[r] = After(op[r].kind, pc[r])
         /\ pc'[r] \in StatementsOf(op[r].kind)
         /\ \A q \in Req \ {r} : pc'[q] = pc[q]
<1>1. op[r] \in Ops /\ pc[r] \in StatementsOf(op[r].kind)
  BY DEF TypeOK, PcOK, RequestOK
<1> QED BY <1>1, AfterType DEF Advance, TypeOK

\* The jobs scheduleReminders adds.
LEMMA RemindersType ==
  ASSUME TypeOK, PcOK, NEW r \in Req, pc[r] = "remind"
  PROVE  RemindersOf(new[r], NewRow(r), now) \subseteq Job
<1>1. NewRow(r) \in Row /\ new[r] \in Appt
  BY NewRowType
<1>2. NewRow(r).start \in Nat
  BY <1>1 DEF Row
<1>3. \A l \in Leads : NewRow(r).start - l \in Int
  BY <1>2, ConstantsAssumption
<1> QED BY <1>1, <1>3 DEF RemindersOf, Job

\* Every statement leaves a well-typed state.
LEMMA StatementType ==
  ASSUME TypeOK, PcOK, NEW r \in Req, Statement(r)
  PROVE  TypeOK'
<1>1. CASE Commit(r)
  <2>1. appt' \in [Appt -> Row \cup {None}]
    BY <1>1, ViewType DEF Commit
  <2>2. outbox' \subseteq Event /\ removed' \subseteq Staff
    BY <1>1 DEF Commit, TypeOK
  <2> QED BY <1>1, <2>1, <2>2, ResetType DEF Commit, TypeOK, redis
<1>2. CASE \/ FindFails(r) \/ ValidateFails(r) \/ InsertFails(r) \/ LinkFails(r)
           \/ SetStatusFails(r) \/ FindStaffFails(r) \/ CountFutureFails(r)
  <2>1. Fail(r) /\ UNCHANGED redis
    BY <1>2 DEF FindFails, ValidateFails, InsertFails, LinkFails,
                SetStatusFails, FindStaffFails, CountFutureFails
  <2> QED BY <2>1, FailType DEF TypeOK, redis
<1>3. CASE CancelRemindersFails(r)
  <2>1. Fail(r) /\ delayed' \subseteq delayed /\ active' = active
    BY <1>3 DEF CancelRemindersFails, JobsOf
  <2> QED BY <2>1, FailType DEF TypeOK
<1>4. CASE FindAlreadyThere(r)
  BY <1>4 DEF FindAlreadyThere, TypeOK, tables, redis, Statements
<1>5. CASE Find(r)
  <2>1. pc[r] # "idle" /\ Advance(r)
    BY <1>5 DEF Find, At
  <2>2. op[r] \in Ops /\ op[r].kind \in {"transition", "cancel", "remove", "update", "reschedule"}
    BY <1>5, OpFields DEF Find, At, PcOK, RequestOK, StatementsOf, TypeOK
  <2>3. View(r, op[r].id) \in Row \cup {None}
    BY <2>2, OpFields, ViewType
  <2>4. seen' \in [Req -> Row \cup {None}]
    BY <1>5, <2>3 DEF Find, TypeOK
  <2> QED BY <1>5, <2>1, <2>4, AdvanceType DEF Find, TypeOK, tables, redis
<1>6. CASE Validate(r) \/ FindStaff(r)
  <2>1. /\ pc[r] # "idle" /\ Advance(r)
        /\ UNCHANGED <<now, tables, redis, used, op, seen, new, tx, txEvents, txStaff>>
    BY <1>6 DEF Validate, FindStaff, At
  <2> QED BY <2>1, AdvanceType DEF TypeOK, tables, redis
<1>7. CASE Insert(r)
  <2>1. pc[r] = "insert" /\ Advance(r)
    BY <1>7 DEF Insert, At
  <2>2. NewRow(r) \in Row /\ new[r] \in Appt
    BY <2>1, NewRowType
  <2>3. tx' \in [Req -> [Appt -> Row \cup {None}]]
    BY <1>7, <2>2 DEF Insert, TypeOK
  <2>4. txEvents' \in [Req -> SUBSET Event]
    <3>1. [type |-> "created", appt |-> new[r], to |-> NewRow(r).status, old |-> None] \in Event
      BY <2>2 DEF Event, Row
    <3> QED BY <1>7, <3>1 DEF Insert, TypeOK
  <2> QED BY <1>7, <2>1, <2>3, <2>4, AdvanceType DEF Insert, TypeOK, tables, redis
<1>8. CASE ScheduleReminders(r)
  <2>1. pc[r] = "remind" /\ Advance(r)
    BY <1>8 DEF ScheduleReminders, At
  <2>3. RemindersOf(new[r], NewRow(r), now) \subseteq Job
    BY <2>1, RemindersType
  <2> QED BY <1>8, <2>1, <2>3, AdvanceType DEF ScheduleReminders, TypeOK, tables
<1>9. CASE Link(r)
  <2>1. pc[r] = "link" /\ Advance(r)
    BY <1>9 DEF Link, At
  <2>2. op[r].id \in Appt /\ new[r] \in Appt /\ tx[r][new[r]] \in Row
    BY <2>1, LinkedRowType
  <2>3. [tx[r][new[r]] EXCEPT !.from = op[r].id] \in Row
    BY <2>1, LinkedRowType
  <2>4. tx' \in [Req -> [Appt -> Row \cup {None}]]
    BY <1>9, <2>2, <2>3 DEF Link, TypeOK
  <2> QED BY <1>9, <2>1, <2>4, AdvanceType DEF Link, TypeOK, tables, redis
<1>10. CASE SetStatus(r)
  <2>1. pc[r] = "setStatus" /\ Advance(r)
    BY <1>10 DEF SetStatus, At
  <2>2. /\ op[r] \in Ops
        /\ op[r].kind \in {"transition", "cancel", "remove", "update", "reschedule"}
        /\ op[r].id \in Appt /\ UpdatedRow(r) \in Row /\ Target(op[r]) \in Status
    BY <2>1, UpdatedRowType
  <2>3. tx' \in [Req -> [Appt -> Row \cup {None}]]
    BY <1>10, <2>2 DEF SetStatus, TypeOK
  <2>4. EventOf(r) \in Event
    <3>1. op[r].kind = "reschedule" => new[r] \in Appt
      BY <2>2, NoneAssumption DEF PcOK, RequestOK, Inserts
    <3> QED BY <2>2, <3>1 DEF EventOf, Event, Status
  <2>5. txEvents' \in [Req -> SUBSET Event]
    BY <1>10, <2>4 DEF SetStatus, TypeOK
  <2> QED BY <1>10, <2>1, <2>3, <2>5, AdvanceType DEF SetStatus, TypeOK, tables, redis
<1>11. CASE Patch(r)
  <2>1. pc[r] = "patch" /\ Advance(r)
    BY <1>11 DEF Patch, At
  <2>2. op[r].id \in Appt /\ View(r, op[r].id) \in Row
    BY <2>1, UpdatedRowType
  <2>3. [View(r, op[r].id) EXCEPT !.deleted = @ \/ op[r].kind = "remove"] \in Row
    BY <2>2 DEF Row
  <2>4. tx' \in [Req -> [Appt -> Row \cup {None}]]
    BY <1>11, <2>2, <2>3 DEF Patch, TypeOK
  <2> QED BY <1>11, <2>1, <2>4, AdvanceType DEF Patch, TypeOK, tables, redis
<1>12. CASE CancelReminders(r)
  BY <1>12, AdvanceType DEF CancelReminders, At, TypeOK, tables, JobsOf
<1>13. CASE CountFuture(r)
  <2>1. pc' \in [Req -> Statements \cup {"idle"}]
    BY <1>13, AdvanceType DEF CountFuture, At, TypeOK, Statements
  <2> QED BY <1>13, <2>1 DEF CountFuture, TypeOK, tables, redis
<1>14. CASE CancelAll(r)
  <2>1. \A a \in FutureAppointments(r, op[r].staff) :
          [View(r, a) EXCEPT !.status = "CANCELLED", !.reason = "staff_removed"] \in Row
    BY CancelledRowType
  <2>2. tx' \in [Req -> [Appt -> Row \cup {None}]]
    BY <1>14, <2>1 DEF CancelAll, TypeOK
  <2> QED BY <1>14, <2>2, AdvanceType DEF CancelAll, At, TypeOK, tables, redis
<1>15. CASE DeleteStaff(r)
  <2>1. op[r].staff \in Staff
    BY <1>15, OpFields DEF DeleteStaff, At, PcOK, RequestOK, TypeOK, StatementsOf
  <2>2. txStaff' \in [Req -> SUBSET Staff]
    BY <1>15, <2>1 DEF DeleteStaff, TypeOK
  <2> QED BY <1>15, <2>2, AdvanceType DEF DeleteStaff, At, TypeOK, tables, redis
<1> QED BY <1>1, <1>2, <1>3, <1>4, <1>5, <1>6, <1>7, <1>8, <1>9, <1>10,
           <1>11, <1>12, <1>13, <1>14, <1>15 DEF Statement

-----------------------------------------------------------------------------
\* Control state.

\* Requests that take no step stay where they are: rows never disappear.
LEMMA OthersOK ==
  ASSUME TypeOK, PcOK, NEW q \in Req,
         op'[q] = op[q], pc'[q] = pc[q], seen'[q] = seen[q], new'[q] = new[q],
         tx'[q] = tx[q],
         \A a \in Appt : appt[a] # None => appt'[a] # None
  PROVE  RequestOK(q)'
<1>1. RequestOK(q)
  BY DEF PcOK
<1>2. CASE op[q] = None
  BY <1>1, <1>2 DEF RequestOK
<1>3. CASE op[q] \in Ops
  <2>1. pc[q] \in {"validate", "insert", "remind", "link", "setStatus",
                   "unremind", "patch"} /\ op[q].kind # "create"
        => op[q].id \in Appt
    BY <1>1, <1>3, OpFields, NoneAssumption DEF RequestOK, StatementsOf
  <2> QED BY <1>1, <1>3, <2>1 DEF RequestOK
<1> QED BY <1>2, <1>3 DEF TypeOK

\* A request that ends is idle again, the others are not affected.
LEMMA ResetOK ==
  ASSUME TypeOK, PcOK, NEW r \in Req, Reset(r),
         \A a \in Appt : appt[a] # None => appt'[a] # None
  PROVE  PcOK'
<1>1. RequestOK(r)'
  BY DEF Reset, RequestOK, TypeOK
<1>2. ASSUME NEW q \in Req \ {r} PROVE RequestOK(q)'
  BY OthersOK DEF Reset, TypeOK
<1> QED BY <1>1, <1>2 DEF PcOK

\* A request that advances without ending.
LEMMA StepOK ==
  ASSUME TypeOK, PcOK, NEW r \in Req, appt' = appt, RequestOK(r)',
         \A q \in Req \ {r} :
           /\ op'[q] = op[q] /\ pc'[q] = pc[q] /\ seen'[q] = seen[q]
           /\ new'[q] = new[q] /\ tx'[q] = tx[q]
  PROVE  PcOK'
BY OthersOK DEF PcOK

\* Every statement keeps requests where their handlers can be.
LEMMA StatementPc ==
  ASSUME TypeOK, PcOK, NEW r \in Req, Statement(r)
  PROVE  PcOK'
<1>0. RequestOK(r)
  BY DEF PcOK
<1>1. CASE Commit(r)
  BY <1>1, ResetOK DEF Commit, View
<1>2. CASE \/ FindFails(r) \/ ValidateFails(r) \/ InsertFails(r) \/ LinkFails(r)
           \/ SetStatusFails(r) \/ FindStaffFails(r) \/ CountFutureFails(r)
           \/ CancelRemindersFails(r)
  <2>1. Fail(r)
    BY <1>2 DEF FindFails, ValidateFails, InsertFails, LinkFails, CancelRemindersFails,
                SetStatusFails, FindStaffFails, CountFutureFails
  <2> QED BY <2>1, ResetOK DEF Fail, tables
<1>3. CASE FindAlreadyThere(r)
  <2>1. RequestOK(r)'
    BY <1>0, <1>3, OpFields, NoneAssumption
       DEF FindAlreadyThere, At, RequestOK, TypeOK, StatementsOf
  <2> QED BY <1>3, <2>1, StepOK DEF FindAlreadyThere, TypeOK, tables
<1>4. CASE Find(r)
  <2>1. /\ op[r] \in Ops /\ pc[r] = "find"
        /\ op[r].kind \in {"transition", "cancel", "remove", "update", "reschedule"}
    BY <1>0, <1>4, OpFields, NoneAssumption DEF Find, At, RequestOK, TypeOK, StatementsOf
  <2>2. View(r, op[r].id) # None
    BY <1>4 DEF Find, Allowed, Missing
  <2>3. seen'[r] # None /\ (appt[op[r].id] # None \/ tx[r][op[r].id] # None)
    BY <1>4, <2>2 DEF Find, View, TypeOK
  <2>4. RequestOK(r)'
    BY <1>0, <1>4, <2>1, <2>3, AdvanceType, NoneAssumption
       DEF Find, RequestOK, TypeOK, tables, After
  <2> QED BY <1>4, <2>1, <2>4, StepOK, AdvanceType DEF Find, TypeOK, tables
<1>5. CASE Validate(r) \/ FindStaff(r) \/ ScheduleReminders(r) \/ CancelReminders(r)
           \/ DeleteStaff(r)
  <2>1. /\ pc[r] \in {"validate", "findStaff", "remind", "unremind", "deleteStaff"}
        /\ Advance(r) /\ UNCHANGED <<tables, op, seen, new, tx>>
    BY <1>5 DEF Validate, FindStaff, ScheduleReminders, CancelReminders, DeleteStaff, At
  <2>2. RequestOK(r)'
    BY <1>0, <2>1, AdvanceType, OpFields, NoneAssumption
       DEF RequestOK, TypeOK, tables, After, StatementsOf
  <2> QED BY <2>1, <2>2, StepOK, AdvanceType DEF TypeOK, tables
<1>6. CASE CountFuture(r)
  <2>1. RequestOK(r)'
    BY <1>0, <1>6, AdvanceType, OpFields, NoneAssumption
       DEF CountFuture, At, RequestOK, TypeOK, tables, After, StatementsOf
  <2> QED BY <1>6, <2>1, StepOK, AdvanceType DEF CountFuture, At, TypeOK, tables
<1>7. CASE Insert(r)
  <2>1. /\ pc[r] = "insert" /\ Advance(r) /\ UNCHANGED <<tables, op, seen, new>>
        /\ NewRow(r) \in Row /\ new[r] \in Appt
    BY <1>7, NewRowType DEF Insert, At
  <2>2. /\ tx'[r][new[r]] = NewRow(r)
        /\ \A a \in Appt : tx[r][a] # None => tx'[r][a] # None
        /\ \A q \in Req \ {r} : tx'[q] = tx[q]
    BY <1>7, <2>1, NoneAssumption DEF Insert, TypeOK
  <2>3. op[r] \in Ops /\ op[r].kind \in {"create", "reschedule"}
    BY <1>0, <2>1, OpFields, NoneAssumption DEF RequestOK, TypeOK, StatementsOf
  <2>4. RequestOK(r)'
    BY <1>0, <2>1, <2>2, <2>3, AdvanceType, OpFields, NoneAssumption
       DEF RequestOK, tables, After
  <2> QED BY <2>1, <2>2, <2>4, StepOK, AdvanceType DEF tables
<1>8. CASE Link(r) \/ SetStatus(r) \/ Patch(r) \/ CancelAll(r)
  <2>1. /\ pc[r] \in {"link", "setStatus", "patch", "cancelAll"}
        /\ Advance(r) /\ UNCHANGED <<tables, op, seen, new>>
    BY <1>8 DEF Link, SetStatus, Patch, CancelAll, At
  <2>2. /\ \A a \in Appt : tx[r][a] # None => tx'[r][a] # None
        /\ \A q \in Req \ {r} : tx'[q] = tx[q]
    <3>1. CASE Link(r)
      BY <3>1, LinkedRowType, NoneAssumption DEF Link, At, TypeOK
    <3>2. CASE SetStatus(r)
      BY <3>2, UpdatedRowType, NoneAssumption DEF SetStatus, At, TypeOK
    <3>3. CASE Patch(r)
      BY <3>3, UpdatedRowType, NoneAssumption DEF Patch, At, TypeOK, Row
    <3>4. CASE CancelAll(r)
      <4>1. \A a \in FutureAppointments(r, op[r].staff) :
              [View(r, a) EXCEPT !.status = "CANCELLED", !.reason = "staff_removed"] # None
        <5> TAKE a \in FutureAppointments(r, op[r].staff)
        <5>1. [View(r, a) EXCEPT !.status = "CANCELLED", !.reason = "staff_removed"] \in Row
          BY CancelledRowType
        <5> QED BY <5>1, NoneAssumption
      <4> QED BY <3>4, <4>1 DEF CancelAll, TypeOK
    <3> QED BY <1>8, <3>1, <3>2, <3>3, <3>4
  <2>3. RequestOK(r)'
    BY <1>0, <2>1, <2>2, AdvanceType, OpFields, NoneAssumption
       DEF RequestOK, TypeOK, tables, After, StatementsOf
  <2> QED BY <2>1, <2>2, <2>3, StepOK, AdvanceType DEF tables
<1> QED BY <1>1, <1>2, <1>3, <1>4, <1>5, <1>6, <1>7, <1>8 DEF Statement

-----------------------------------------------------------------------------
\* Locks and conflicts.

\* A row that nobody else has locked, as r sees it, conflicts with no row of
\* another open transaction.
LEMMA ViewVersusOther ==
  ASSUME TypeOK, NoConflict, NEW r \in Req, NEW q \in Req \ {r},
         NEW a \in Appt, NEW b \in Appt \ {a}, ~LockedByOther(r, a)
  PROVE  ~Conflict(View(r, a), tx[q][b])
<1>1. CASE tx[r][a] # None
  BY <1>1 DEF NoConflict, View
<1>2. CASE tx[r][a] = None /\ tx[q][b] # None
  <2>1. View(q, a) = appt[a] /\ View(q, b) = tx[q][b] /\ View(r, a) = appt[a]
    BY <1>2 DEF LockedByOther, View
  <2> QED BY <2>1 DEF NoConflict
<1>3. CASE tx[q][b] = None
  BY <1>3, NoneConflictsNever
<1> QED BY <1>1, <1>2, <1>3

\* A version that gives up its slot, or keeps the slot it held, and keeps its
\* link conflicts with nothing new.
LEMMA WeakerVersion ==
  ASSUME NEW x \in Row, NEW y \in Row, NEW z \in Row \cup {None},
         x.from = y.from,
         HoldsSlot(x) => /\ HoldsSlot(y)
                         /\ x.staff = y.staff /\ x.start = y.start /\ x.end = y.end,
         ~Conflict(y, z)
  PROVE  ~Conflict(x, z)
BY NoneAssumption DEF Conflict, Clash, SameLink, Overlap

\* A statement of r replaces its uncommitted rows by w: it touches only rows
\* nobody else has locked, and w conflicts with nothing r sees and with no row
\* another transaction is about to commit.
LEMMA WriteKeepsNoConflict ==
  ASSUME TypeOK, LocksOK, NoConflict, NEW r \in Req, NEW w \in [Appt -> Row \cup {None}],
         appt' = appt, tx' = [tx EXCEPT ![r] = w],
         \A a \in Appt : w[a] # None => ~LockedByOther(r, a),
         \A a, b \in Appt : a # b =>
           ~Conflict(IF w[a] # None THEN w[a] ELSE appt[a],
                     IF w[b] # None THEN w[b] ELSE appt[b]),
         \A a, b \in Appt, q \in Req \ {r} : a # b => ~Conflict(w[a], tx[q][b])
  PROVE  LocksOK' /\ NoConflict'
<1>1. tx'[r] = w /\ \A q \in Req \ {r} : tx'[q] = tx[q]
  BY DEF TypeOK
<1>2. LocksOK'
  BY <1>1 DEF LocksOK, LockedByOther
<1>3. ASSUME NEW a \in Appt, NEW b \in Appt, a # b
      PROVE  /\ ~Conflict(appt'[a], appt'[b])
             /\ \A q \in Req : ~Conflict(View(q, a)', View(q, b)')
             /\ \A p, q \in Req : p # q => ~Conflict(tx'[p][a], tx'[q][b])
  <2>1. ~Conflict(appt'[a], appt'[b])
    BY <1>3 DEF NoConflict
  <2>2. ASSUME NEW q \in Req PROVE ~Conflict(View(q, a)', View(q, b)')
    <3>1. CASE q = r
      BY <1>1, <1>3, <3>1 DEF View
    <3>2. CASE q # r
      <4>1. View(q, a)' = View(q, a) /\ View(q, b)' = View(q, b)
        BY <1>1, <3>2 DEF View
      <4> QED BY <1>3, <4>1 DEF NoConflict
    <3> QED BY <3>1, <3>2
  <2>3. ASSUME NEW p \in Req, NEW q \in Req, p # q
        PROVE  ~Conflict(tx'[p][a], tx'[q][b])
    <3>1. CASE p = r
      BY <1>1, <1>3, <2>3, <3>1
    <3>2. CASE q = r
      <4>1. ~Conflict(w[b], tx[p][a])
        BY <1>3, <2>3, <3>2
      <4> QED BY <1>1, <2>3, <3>2, <4>1, ConflictSymmetric
    <3>3. CASE p # r /\ q # r
      BY <1>1, <1>3, <2>3, <3>3 DEF NoConflict
    <3> QED BY <3>1, <3>2, <3>3
  <2> QED BY <2>1, <2>2, <2>3
<1>4. NoConflict'
  BY <1>3 DEF NoConflict
<1> QED BY <1>2, <1>4

\* One row is written: it must not conflict with what r sees elsewhere nor
\* with what other transactions are about to commit.
LEMMA WriteRowKeepsNoConflict ==
  ASSUME TypeOK, LocksOK, NoConflict, NEW r \in Req, NEW a \in Appt, NEW row \in Row,
         appt' = appt, tx' = [tx EXCEPT ![r][a] = row],
         ~LockedByOther(r, a),
         \A b \in Appt \ {a} : ~Conflict(row, View(r, b)),
         \A b \in Appt \ {a}, q \in Req \ {r} : ~Conflict(row, tx[q][b])
  PROVE  LocksOK' /\ NoConflict'
<1> DEFINE w == [tx[r] EXCEPT ![a] = row]
<1>1. w \in [Appt -> Row \cup {None}] /\ tx' = [tx EXCEPT ![r] = w]
  BY DEF TypeOK
<1>2. /\ w[a] = row /\ row # None
      /\ \A b \in Appt \ {a} : w[b] = tx[r][b]
  BY NoneAssumption DEF TypeOK
<1>3. \A b \in Appt : w[b] # None => ~LockedByOther(r, b)
  BY <1>2 DEF LocksOK, LockedByOther
<1> HIDE DEF w
<1>4. ASSUME NEW b \in Appt, NEW c \in Appt, b # c
      PROVE  ~Conflict(IF w[b] # None THEN w[b] ELSE appt[b],
                       IF w[c] # None THEN w[c] ELSE appt[c])
  <2>1. CASE b = a
    BY <1>2, <1>4, <2>1 DEF View
  <2>2. CASE c = a
    BY <1>2, <1>4, <2>2, ConflictSymmetric DEF View
  <2>3. CASE b # a /\ c # a
    BY <1>2, <1>4, <2>3 DEF View, NoConflict
  <2> QED BY <2>1, <2>2, <2>3
<1>5. \A b, c \in Appt, q \in Req \ {r} : b # c => ~Conflict(w[b], tx[q][c])
  BY <1>2 DEF NoConflict
<1> QED BY <1>1, <1>3, <1>4, <1>5, WriteKeepsNoConflict

\* A statement of r that writes only rows it sees, or its own new row, leaves
\* the rows under construction to their requests.
LEMMA WriteKeepsFresh ==
  ASSUME TypeOK, FreshOK, NEW r \in Req,
         appt' = appt, used' = used, new' = new,
         \A q \in Req \ {r} : tx'[q] = tx[q],
         \A a \in Appt : tx'[r][a] # None => View(r, a) # None \/ a = new[r]
  PROVE  FreshOK'
<1>1. ASSUME NEW a \in Appt \ used PROVE appt'[a] = None /\ \A q \in Req : tx'[q][a] = None
  BY <1>1, NoneAssumption DEF FreshOK, View
<1>2. ASSUME NEW q \in Req, new[q] # None
      PROVE  /\ new[q] \in used /\ appt[new[q]] = None
             /\ \A p \in Req \ {q} : new[p] # new[q] /\ tx'[p][new[q]] = None
  <2>1. new[q] \in Appt
    BY <1>2 DEF TypeOK
  <2>2. ASSUME NEW p \in Req \ {q} PROVE tx'[p][new[q]] = None
    <3>1. tx[p][new[q]] = None /\ appt[new[q]] = None /\ new[p] # new[q]
      BY <1>2 DEF FreshOK
    <3> QED BY <2>1, <3>1 DEF View
  <2> QED BY <1>2, <2>2 DEF FreshOK
<1> QED BY <1>1, <1>2 DEF FreshOK

\* A transaction that ends hands its locks back; the committed rows are those
\* it saw.
LEMMA ResetKeepsInv ==
  ASSUME IInv, NEW r \in Req, Reset(r), used' = used,
         \/ appt' = appt
         \/ appt' = [a \in Appt |-> View(r, a)]
  PROVE  FreshOK' /\ LocksOK' /\ NoConflict'
<1> USE DEF IInv
<1>1. /\ \A a \in Appt : tx'[r][a] = None
      /\ \A q \in Req \ {r} : tx'[q] = tx[q]
      /\ new'[r] = None
      /\ \A q \in Req \ {r} : new'[q] = new[q]
  BY DEF Reset, TypeOK
<1>2. \A a \in Appt : appt'[a] = appt[a] \/ (appt'[a] = tx[r][a] /\ tx[r][a] # None)
  BY DEF View
<1>3. FreshOK'
  <2>1. ASSUME NEW a \in Appt \ used
        PROVE  appt'[a] = None /\ \A q \in Req : tx'[q][a] = None
    BY <1>1, <1>2, <2>1 DEF FreshOK
  <2>2. ASSUME NEW q \in Req, new'[q] # None
        PROVE  /\ new'[q] \in used /\ appt'[new'[q]] = None
               /\ \A p \in Req \ {q} : new'[p] # new'[q] /\ tx'[p][new'[q]] = None
    <3>1. q # r /\ new'[q] = new[q] /\ new[q] \in Appt
      BY <1>1, <2>2 DEF TypeOK
    <3>2. /\ new[q] \in used /\ appt[new[q]] = None /\ tx[r][new[q]] = None
          /\ \A p \in Req \ {q} : new[p] # new[q] /\ tx[p][new[q]] = None
      BY <2>2, <3>1 DEF FreshOK
    <3> QED BY <1>1, <1>2, <2>2, <3>1, <3>2
  <2> QED BY <2>1, <2>2 DEF FreshOK
<1>4. LocksOK'
  BY <1>1 DEF LocksOK
<1>5. ASSUME NEW a \in Appt, NEW b \in Appt, a # b
      PROVE  ~Conflict(appt'[a], appt'[b])
  BY <1>5 DEF NoConflict
<1>6. ASSUME NEW a \in Appt, NEW b \in Appt, a # b, NEW q \in Req
      PROVE  ~Conflict(View(q, a)', View(q, b)')
  <2>1. CASE q = r
    BY <1>1, <1>5, <1>6, <2>1 DEF View
  <2>2. CASE q # r
    <3>1. ~Conflict(tx[q][a], tx[r][b]) /\ ~Conflict(tx[q][b], tx[r][a])
      BY <1>6, <2>2 DEF NoConflict
    <3>2. ~Conflict(tx[r][a], tx[q][b])
      BY <3>1, ConflictSymmetric
    <3>3. ~Conflict(View(q, a), View(q, b))
      BY <1>6 DEF NoConflict
    <3>4. CASE tx[q][a] # None /\ tx[q][b] # None
      BY <1>1, <2>2, <3>3, <3>4 DEF View
    <3>5. CASE tx[q][a] # None /\ tx[q][b] = None
      BY <1>1, <1>2, <2>2, <3>1, <3>3, <3>5 DEF View
    <3>6. CASE tx[q][a] = None /\ tx[q][b] # None
      BY <1>1, <1>2, <2>2, <3>2, <3>3, <3>6 DEF View
    <3>7. CASE tx[q][a] = None /\ tx[q][b] = None
      BY <1>1, <1>5, <1>6, <2>2, <3>7 DEF View
    <3> QED BY <3>4, <3>5, <3>6, <3>7
  <2> QED BY <2>1, <2>2
<1>7. ASSUME NEW a \in Appt, NEW b \in Appt, a # b, NEW p \in Req, NEW q \in Req, p # q
      PROVE  ~Conflict(tx'[p][a], tx'[q][b])
  BY <1>1, <1>7, NoneConflictsNever DEF NoConflict
<1>8. NoConflict'
  BY <1>5, <1>6, <1>7 DEF NoConflict
<1> QED BY <1>3, <1>4, <1>8

\* INSERT: the EXCLUDE constraint lets the row in.
LEMMA InsertKeepsInv ==
  ASSUME IInv, NEW r \in Req, Insert(r)
  PROVE  FreshOK' /\ LocksOK' /\ NoConflict'
<1> USE DEF IInv
<1> DEFINE a == new[r]
           row == NewRow(r)
<1>1. /\ a \in Appt /\ row \in Row /\ row.from = None
      /\ tx' = [tx EXCEPT ![r][a] = row]
      /\ appt' = appt /\ used' = used /\ new' = new
  BY NewRowType DEF Insert, At, tables
<1>2. ~LockedByOther(r, a)
  BY <1>1, NoneAssumption DEF FreshOK, LockedByOther
<1>3. /\ \A b \in Appt \ {a} : LockedByOther(r, b) \/ ~Clash(row, View(r, b))
      /\ \A b \in Appt \ {a}, q \in Req \ {r} :
           tx[q][b] # None => ~Clash(row, tx[q][b]) /\ ~Clash(row, appt[b])
  BY DEF Insert, Excluded, ExclusionWaits
<1> HIDE DEF a, row
<1>4. ASSUME NEW b \in Appt \ {a} PROVE ~Conflict(row, View(r, b))
  <2>1. CASE ~LockedByOther(r, b)
    BY <1>1, <1>3, <2>1 DEF Conflict, SameLink
  <2>2. CASE LockedByOther(r, b)
    <3>1. View(r, b) = appt[b]
      BY <2>2 DEF LockedByOther, LocksOK, View
    <3> QED BY <1>1, <1>3, <2>2, <3>1 DEF Conflict, SameLink, LockedByOther
  <2> QED BY <2>1, <2>2
<1>5. ASSUME NEW b \in Appt \ {a}, NEW q \in Req \ {r} PROVE ~Conflict(row, tx[q][b])
  BY <1>1, <1>3 DEF Conflict, SameLink, Clash
<1>6. LocksOK' /\ NoConflict'
  BY <1>1, <1>2, <1>4, <1>5, WriteRowKeepsNoConflict
<1>7. FreshOK'
  BY <1>1, WriteKeepsFresh DEF a, TypeOK, View
<1> QED BY <1>6, <1>7

\* UPDATE of rescheduledFromId: the unique index lets the link in.
LEMMA LinkKeepsInv ==
  ASSUME IInv, NEW r \in Req, Link(r)
  PROVE  FreshOK' /\ LocksOK' /\ NoConflict'
<1> USE DEF IInv
<1> DEFINE a == new[r]
           row == [tx[r][a] EXCEPT !.from = op[r].id]
<1>1. /\ a \in Appt /\ tx[r][a] \in Row /\ row \in Row /\ op[r].id \in Appt
      /\ tx' = [tx EXCEPT ![r][a] = row]
      /\ appt' = appt /\ used' = used /\ new' = new
  BY LinkedRowType DEF Link, At, tables, TypeOK
<1>2. /\ row.from = op[r].id
      /\ row.staff = tx[r][a].staff /\ row.start = tx[r][a].start
      /\ row.end = tx[r][a].end /\ HoldsSlot(row) = HoldsSlot(tx[r][a])
  BY <1>1 DEF Row, HoldsSlot
<1>3. ~LockedByOther(r, a)
  BY <1>1, NoneAssumption DEF FreshOK, LockedByOther
<1>4. View(r, a) = tx[r][a]
  BY <1>1, NoneAssumption DEF View
<1>5. /\ \A b \in Appt : LockedByOther(r, b) \/ ~Successor(View(r, b), op[r].id)
      /\ \A b \in Appt, q \in Req \ {r} :
           tx[q][b] # None => ~Successor(tx[q][b], op[r].id) /\ ~Successor(appt[b], op[r].id)
  BY DEF Link, LinkTaken, LinkWaits
<1> HIDE DEF a, row
<1>6. ASSUME NEW z \in Row \cup {None}, ~Conflict(tx[r][a], z), ~Successor(z, op[r].id)
      PROVE  ~Conflict(row, z)
  BY <1>1, <1>2, <1>6, NoneAssumption DEF Conflict, Clash, SameLink, Overlap, Successor
<1>7. ASSUME NEW b \in Appt \ {a} PROVE ~Conflict(row, View(r, b))
  <2>1. ~Conflict(tx[r][a], View(r, b)) /\ View(r, b) \in Row \cup {None}
    BY <1>1, <1>4, ViewType DEF NoConflict
  <2>2. ~Successor(View(r, b), op[r].id)
    <3>1. CASE ~LockedByOther(r, b)
      BY <1>5, <3>1
    <3>2. CASE LockedByOther(r, b)
      <4>1. View(r, b) = appt[b]
        BY <3>2 DEF LockedByOther, LocksOK, View
      <4> QED BY <1>5, <3>2, <4>1 DEF LockedByOther
    <3> QED BY <3>1, <3>2
  <2> QED BY <1>6, <2>1, <2>2
<1>8. ASSUME NEW b \in Appt \ {a}, NEW q \in Req \ {r} PROVE ~Conflict(row, tx[q][b])
  <2>1. ~Conflict(tx[r][a], tx[q][b]) /\ tx[q][b] \in Row \cup {None}
    BY <1>1 DEF NoConflict, TypeOK
  <2>2. ~Successor(tx[q][b], op[r].id)
    BY <1>5 DEF Successor
  <2> QED BY <1>6, <2>1, <2>2
<1>9. LocksOK' /\ NoConflict'
  BY <1>1, <1>3, <1>7, <1>8, WriteRowKeepsNoConflict
<1>10. FreshOK'
  BY <1>1, WriteKeepsFresh DEF a, TypeOK, View
<1> QED BY <1>9, <1>10

\* UPDATE of the status: stale or not, the EXCLUDE constraint is checked again.
LEMMA SetStatusKeepsInv ==
  ASSUME IInv, NEW r \in Req, SetStatus(r)
  PROVE  FreshOK' /\ LocksOK' /\ NoConflict'
<1> USE DEF IInv
<1> DEFINE a == op[r].id
           row == UpdatedRow(r)
<1>1. /\ a \in Appt /\ row \in Row /\ View(r, a) \in Row /\ row.from = View(r, a).from
      /\ tx' = [tx EXCEPT ![r][a] = row]
      /\ appt' = appt /\ used' = used /\ new' = new
  BY UpdatedRowType DEF SetStatus, At, tables
<1>2. ~LockedByOther(r, a)
  BY DEF SetStatus
<1>3. /\ \A b \in Appt \ {a} : LockedByOther(r, b) \/ ~Clash(row, View(r, b))
      /\ \A b \in Appt \ {a}, q \in Req \ {r} :
           tx[q][b] # None => ~Clash(row, tx[q][b]) /\ ~Clash(row, appt[b])
  BY DEF SetStatus, Excluded, ExclusionWaits
<1> HIDE DEF a, row
<1>4. ASSUME NEW z, ~Conflict(View(r, a), z), ~Clash(row, z)
      PROVE  ~Conflict(row, z)
  BY <1>1, <1>4, NoneAssumption DEF Conflict, SameLink
<1>5. ASSUME NEW b \in Appt \ {a} PROVE ~Conflict(row, View(r, b))
  <2>1. ~Conflict(View(r, a), View(r, b))
    BY <1>1 DEF NoConflict
  <2>2. ~Clash(row, View(r, b))
    <3>1. CASE ~LockedByOther(r, b)
      BY <1>3, <3>1
    <3>2. CASE LockedByOther(r, b)
      <4>1. View(r, b) = appt[b]
        BY <3>2 DEF LockedByOther, LocksOK, View
      <4> QED BY <1>3, <3>2, <4>1 DEF LockedByOther
    <3> QED BY <3>1, <3>2
  <2> QED BY <1>4, <2>1, <2>2
<1>6. ASSUME NEW b \in Appt \ {a}, NEW q \in Req \ {r} PROVE ~Conflict(row, tx[q][b])
  <2>1. ~Conflict(View(r, a), tx[q][b])
    BY <1>1, <1>2, ViewVersusOther
  <2>2. ~Clash(row, tx[q][b])
    BY <1>3 DEF Clash
  <2> QED BY <1>4, <2>1, <2>2
<1>7. LocksOK' /\ NoConflict'
  BY <1>1, <1>2, <1>5, <1>6, WriteRowKeepsNoConflict
<1>8. FreshOK'
  <2>1. \A b \in Appt : tx'[r][b] # None => View(r, b) # None
    BY <1>1, NoneAssumption DEF TypeOK, View
  <2> QED BY <1>1, <2>1, WriteKeepsFresh DEF TypeOK
<1> QED BY <1>7, <1>8

\* UPDATE of deletedAt, notes or metadata.
LEMMA PatchKeepsInv ==
  ASSUME IInv, NEW r \in Req, Patch(r)
  PROVE  FreshOK' /\ LocksOK' /\ NoConflict'
<1> USE DEF IInv
<1> DEFINE a == op[r].id
           row == [View(r, a) EXCEPT !.deleted = @ \/ op[r].kind = "remove"]
<1>1. /\ a \in Appt /\ View(r, a) \in Row
      /\ tx' = [tx EXCEPT ![r][a] = row]
      /\ appt' = appt /\ used' = used /\ new' = new
  BY UpdatedRowType DEF Patch, At, tables
<1>2. /\ row \in Row /\ row.from = View(r, a).from
      /\ row.staff = View(r, a).staff /\ row.start = View(r, a).start
      /\ row.end = View(r, a).end
      /\ HoldsSlot(row) => HoldsSlot(View(r, a))
  BY <1>1 DEF Row, HoldsSlot
<1>3. ~LockedByOther(r, a)
  BY DEF Patch
<1> HIDE DEF a, row
<1>4. ASSUME NEW b \in Appt \ {a} PROVE ~Conflict(row, View(r, b))
  <2>1. ~Conflict(View(r, a), View(r, b)) /\ View(r, b) \in Row \cup {None}
    BY <1>1, ViewType DEF NoConflict
  <2> QED BY <1>1, <1>2, <2>1, WeakerVersion
<1>5. ASSUME NEW b \in Appt \ {a}, NEW q \in Req \ {r} PROVE ~Conflict(row, tx[q][b])
  <2>1. ~Conflict(View(r, a), tx[q][b]) /\ tx[q][b] \in Row \cup {None}
    BY <1>1, <1>3, ViewVersusOther DEF TypeOK
  <2> QED BY <1>1, <1>2, <2>1, WeakerVersion
<1>6. LocksOK' /\ NoConflict'
  BY <1>1, <1>2, <1>3, <1>4, <1>5, WriteRowKeepsNoConflict
<1>7. FreshOK'
  <2>1. \A b \in Appt : tx'[r][b] # None => View(r, b) # None
    BY <1>1, <1>2, NoneAssumption DEF TypeOK, View
  <2> QED BY <1>1, <2>1, WriteKeepsFresh DEF TypeOK
<1> QED BY <1>6, <1>7

\* updateMany of StaffService.remove: rows only give up their slot.
LEMMA CancelAllKeepsInv ==
  ASSUME IInv, NEW r \in Req, CancelAll(r)
  PROVE  FreshOK' /\ LocksOK' /\ NoConflict'
<1> USE DEF IInv
<1> DEFINE future == FutureAppointments(r, op[r].staff)
           gone(a) == [View(r, a) EXCEPT !.status = "CANCELLED", !.reason = "staff_removed"]
           w == [a \in Appt |-> IF a \in future THEN gone(a) ELSE tx[r][a]]
<1>1. /\ tx' = [tx EXCEPT ![r] = w]
      /\ appt' = appt /\ used' = used /\ new' = new
      /\ future \subseteq Appt
      /\ \A a \in future : ~LockedByOther(r, a)
  BY DEF CancelAll, tables, FutureAppointments
<1>2. ASSUME NEW a \in future
      PROVE  /\ View(r, a) \in Row /\ gone(a) \in Row /\ gone(a) # None
             /\ gone(a).from = View(r, a).from /\ ~HoldsSlot(gone(a))
  <2>1. /\ View(r, a) \in Row /\ gone(a) \in Row
        /\ gone(a).status = "CANCELLED" /\ gone(a).from = View(r, a).from
    BY CancelledRowType
  <2>2. gone(a) # None
    BY <2>1, NoneAssumption
  <2> QED BY <2>1, <2>2 DEF HoldsSlot
<1> HIDE DEF gone, future
<1>3. w \in [Appt -> Row \cup {None}]
  BY <1>2 DEF TypeOK
<1>4. \A a \in Appt : /\ a \in future => w[a] = gone(a)
                      /\ a \notin future => w[a] = tx[r][a]
  OBVIOUS
<1> HIDE DEF w
<1>5. \A a \in Appt : w[a] # None => ~LockedByOther(r, a)
  BY <1>1, <1>4 DEF LocksOK, LockedByOther
\* What r sees afterwards conflicts with nothing its earlier view did not.
<1>6. ASSUME NEW a \in Appt, NEW z \in Row \cup {None}, ~Conflict(View(r, a), z)
      PROVE  ~Conflict(IF w[a] # None THEN w[a] ELSE appt[a], z)
  <2>1. CASE a \in future
    BY <1>2, <1>4, <1>6, <2>1, WeakerVersion
  <2>2. CASE a \notin future
    BY <1>4, <1>6, <2>2 DEF View
  <2> QED BY <2>1, <2>2
<1>7. ASSUME NEW a \in Appt, NEW b \in Appt, a # b
      PROVE  ~Conflict(IF w[a] # None THEN w[a] ELSE appt[a],
                       IF w[b] # None THEN w[b] ELSE appt[b])
  <2> DEFINE after(c) == IF w[c] # None THEN w[c] ELSE appt[c]
  <2>1. View(r, b) \in Row \cup {None} /\ ~Conflict(View(r, a), View(r, b))
    BY <1>7, ViewType DEF NoConflict
  <2>2. ~Conflict(after(a), View(r, b))
    BY <1>6, <2>1
  <2>3. ~Conflict(View(r, b), after(a))
    BY <2>2, ConflictSymmetric
  <2>4. after(a) \in Row \cup {None}
    BY <1>3 DEF TypeOK
  <2> HIDE DEF after
  <2>5. ~Conflict(after(b), after(a))
    BY <1>6, <2>3, <2>4 DEF after
  <2> QED BY <2>5, ConflictSymmetric DEF after
<1>8. ASSUME NEW a \in Appt, NEW b \in Appt, NEW q \in Req \ {r}, a # b
      PROVE  ~Conflict(w[a], tx[q][b])
  <2>1. CASE a \in future
    <3>1. ~Conflict(View(r, a), tx[q][b]) /\ tx[q][b] \in Row \cup {None}
      BY <1>1, <1>8, <2>1, ViewVersusOther DEF TypeOK
    <3> QED BY <1>2, <1>4, <2>1, <3>1, WeakerVersion
  <2>2. CASE a \notin future
    BY <1>4, <1>8, <2>2 DEF NoConflict
  <2> QED BY <2>1, <2>2
<1>9. LocksOK' /\ NoConflict'
  BY <1>1, <1>3, <1>5, <1>7, <1>8, WriteKeepsNoConflict
<1>10. FreshOK'
  <2>1. \A a \in Appt : tx'[r][a] # None => View(r, a) # None
    BY <1>1, <1>2, <1>4, NoneAssumption DEF TypeOK, View
  <2> QED BY <1>1, <2>1, WriteKeepsFresh DEF TypeOK
<1> QED BY <1>9, <1>10

\* The start of a request draws an id no row has.
LEMMA BeginKeepsInv ==
  ASSUME IInv, NEW r \in Req, Begin(r)
  PROVE  IInv'
<1> USE DEF IInv
<1>1. PICK o \in Ops :
        /\ op' = [op EXCEPT ![r] = o]
        /\ pc' = [pc EXCEPT ![r] = First(o.kind)]
        /\ \/ /\ Inserts(o) /\ Appt \ used # {}
              /\ new' = [new EXCEPT ![r] = FreshId] /\ used' = used \cup {FreshId}
           \/ ~Inserts(o) /\ UNCHANGED <<new, used>>
  BY DEF Begin
<1>2. UNCHANGED <<now, appt, removed, outbox, delayed, active, seen, tx, txEvents, txStaff>>
  BY DEF Begin, tables, redis
<1>3. pc[r] = "idle" /\ op[r] = None
  BY DEF Begin, PcOK, RequestOK
<1>4. First(o.kind) \in StatementsOf(o.kind) /\ First(o.kind) \in Statements
      /\ First(o.kind) \in {"validate", "find", "findStaff"}
      /\ (First(o.kind) = "validate" => o.kind = "create")
  BY OpFields DEF First, StatementsOf, Statements
<1>5. TypeOK'
  BY <1>1, <1>2, <1>4, FreshIdIsFresh DEF TypeOK
<1>6. PcOK'
  <2>1. RequestOK(r)'
    BY <1>1, <1>2, <1>4, FreshIdIsFresh, NoneAssumption DEF RequestOK, TypeOK
  <2>2. \A q \in Req \ {r} : op'[q] = op[q] /\ pc'[q] = pc[q] /\ new'[q] = new[q]
    BY <1>1 DEF TypeOK
  <2> QED BY <1>2, <2>1, <2>2, StepOK
<1>7. FreshOK'
  <2>1. CASE Inserts(o)
    BY <1>1, <1>2, <2>1, FreshIdIsFresh DEF FreshOK, TypeOK
  <2>2. CASE ~Inserts(o)
    BY <1>1, <1>2, <2>2 DEF FreshOK
  <2> QED BY <2>1, <2>2
<1>8. LocksOK' /\ NoConflict'
  BY <1>2 DEF LocksOK, NoConflict, View
<1> QED BY <1>5, <1>6, <1>7, <1>8

\* Every statement keeps the invariant.
LEMMA StatementKeepsInv ==
  ASSUME IInv, NEW r \in Req, Statement(r)
  PROVE  IInv'
<1>1. TypeOK' /\ PcOK'
  BY StatementType, StatementPc DEF IInv
<1>2. FreshOK' /\ LocksOK' /\ NoConflict'
  <2>1. CASE Commit(r)
    BY <2>1, ResetKeepsInv DEF Commit
  <2>2. CASE \/ FindFails(r) \/ ValidateFails(r) \/ InsertFails(r) \/ LinkFails(r)
             \/ SetStatusFails(r) \/ FindStaffFails(r) \/ CountFutureFails(r)
             \/ CancelRemindersFails(r)
    <3>1. Fail(r)
      BY <2>2 DEF FindFails, ValidateFails, InsertFails, LinkFails, CancelRemindersFails,
                  SetStatusFails, FindStaffFails, CountFutureFails
    <3> QED BY <3>1, ResetKeepsInv DEF Fail, tables
  <2>3. CASE \/ FindAlreadyThere(r) \/ Find(r) \/ Validate(r) \/ ScheduleReminders(r)
             \/ CancelReminders(r) \/ FindStaff(r) \/ CountFuture(r) \/ DeleteStaff(r)
    <3>1. UNCHANGED <<appt, used, new, tx>>
      BY <2>3 DEF FindAlreadyThere, Find, Validate, ScheduleReminders, CancelReminders,
                  FindStaff, CountFuture, DeleteStaff, tables
    <3> QED BY <3>1 DEF IInv, FreshOK, LocksOK, NoConflict, View
  <2>4. CASE Insert(r)
    BY <2>4, InsertKeepsInv
  <2>5. CASE Link(r)
    BY <2>5, LinkKeepsInv
  <2>6. CASE SetStatus(r)
    BY <2>6, SetStatusKeepsInv
  <2>7. CASE Patch(r)
    BY <2>7, PatchKeepsInv
  <2>8. CASE CancelAll(r)
    BY <2>8, CancelAllKeepsInv
  <2> QED BY <2>1, <2>2, <2>3, <2>4, <2>5, <2>6, <2>7, <2>8 DEF Statement
<1> QED BY <1>1, <1>2 DEF IInv

\* A lost transaction leaves at most some reminder jobs behind.
LEMMA LossKeepsInv ==
  ASSUME IInv, NEW r \in Req, TxLost(r) \/ RedisPartlyDone(r)
  PROVE  IInv'
<1>1. Fail(r)
  BY DEF TxLost, RedisPartlyDone
<1>2. delayed' \subseteq Job /\ active' = active
  <2>1. CASE TxLost(r)
    BY <2>1 DEF TxLost, redis, IInv, TypeOK
  <2>2. CASE RedisPartlyDone(r)
    <3>1. CASE At(r, "remind")
      <4>1. RemindersOf(new[r], NewRow(r), now) \subseteq Job
        BY <3>1, RemindersType DEF At, IInv
      <4> QED BY <2>2, <3>1, <4>1 DEF RedisPartlyDone, At, IInv, TypeOK
    <3>2. CASE At(r, "unremind")
      BY <2>2, <3>2 DEF RedisPartlyDone, At, IInv, TypeOK
    <3> QED BY <2>2, <3>1, <3>2 DEF RedisPartlyDone
  <2> QED BY <2>1, <2>2
<1>3. TypeOK'
  BY <1>1, <1>2, FailType DEF IInv, TypeOK
<1>4. PcOK'
  BY <1>1, ResetOK DEF IInv, Fail, tables
<1>5. FreshOK' /\ LocksOK' /\ NoConflict'
  BY <1>1, ResetKeepsInv DEF Fail, tables
<1> QED BY <1>3, <1>4, <1>5 DEF IInv

\* The clock, the reminder worker and stuttering do not touch the tables.
LEMMA EnvironmentKeepsInv ==
  ASSUME IInv, Tick \/ StartReminder \/ FinishReminder \/ RequeueReminder \/ UNCHANGED vars
  PROVE  IInv'
<1> USE DEF IInv
<1>1. UNCHANGED <<appt, removed, outbox, used, op, pc, seen, new, tx, txEvents, txStaff>>
  BY DEF Tick, StartReminder, FinishReminder, RequeueReminder, vars, tables, local
<1>2. now' \in Nat /\ delayed' \subseteq Job /\ active' \subseteq Job
  BY DEF Tick, StartReminder, FinishReminder, RequeueReminder, vars, redis, TypeOK
<1>3. TypeOK'
  BY <1>1, <1>2 DEF TypeOK
<1>4. PcOK'
  BY <1>1 DEF PcOK, RequestOK
<1> QED BY <1>1, <1>3, <1>4 DEF FreshOK, LocksOK, NoConflict, View

-----------------------------------------------------------------------------
\* The theorems.

\* The invariant holds in every reachable state: types, control state, the
\* privacy of rows under construction, row locks and the absence of conflicts
\* among committed and uncommitted rows.
THEOREM InductiveInvariant == Spec => []IInv
<1>1. Init => IInv
  BY NoneConflictsNever, NoneAssumption
     DEF Init, IInv, TypeOK, PcOK, RequestOK, FreshOK, LocksOK, NoConflict, View, Statements
<1>2. IInv /\ [Next]_vars => IInv'
  <2> SUFFICES ASSUME IInv, [Next]_vars PROVE IInv'
    OBVIOUS
  <2>1. ASSUME NEW r \in Req, Begin(r) PROVE IInv'
    BY <2>1, BeginKeepsInv
  <2>2. ASSUME NEW r \in Req, Statement(r) PROVE IInv'
    BY <2>2, StatementKeepsInv
  <2>3. ASSUME NEW r \in Req, TxLost(r) \/ RedisPartlyDone(r) PROVE IInv'
    BY <2>3, LossKeepsInv
  <2>4. CASE Tick \/ StartReminder \/ FinishReminder \/ RequeueReminder \/ UNCHANGED vars
    BY <2>4, EnvironmentKeepsInv
  <2> QED BY <2>1, <2>2, <2>3, <2>4 DEF Next
<1> QED BY <1>1, <1>2, PTL DEF Spec

\* Every variable keeps its type (the request handlers never read a row that
\* does not exist nor a field of the wrong operation).
THEOREM TypeCorrect == Spec => []TypeOK
<1>1. IInv => TypeOK
  BY DEF IInv
<1> QED BY <1>1, InductiveInvariant, PTL

\* No staff member is double-booked: appointment_no_overlap, checked by INSERT
\* and by every UPDATE against committed and uncommitted rows, is a barrier
\* for any number of concurrent bookings, reschedules, status changes based on
\* stale reads, deletions and lost transactions.
THEOREM NeverDoubleBooked == Spec => []NoDoubleBooking
<1>1. IInv => NoDoubleBooking
  BY DEF IInv, NoConflict, Conflict, NoDoubleBooking
<1> QED BY <1>1, InductiveInvariant, PTL

\* An appointment is never rescheduled twice: the unique index on
\* rescheduledFromId leaves one committed successor.
THEOREM RescheduledOnce == Spec => []UniqueSuccessor
<1>1. IInv => UniqueSuccessor
  BY DEF IInv, NoConflict, Conflict, SameLink, UniqueSuccessor
<1> QED BY <1>1, InductiveInvariant, PTL
=============================================================================
