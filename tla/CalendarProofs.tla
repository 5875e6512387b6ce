--------------------------- MODULE CalendarProofs ---------------------------
(***************************************************************************)
(* Appointments implements Calendar, for any number of concurrent requests *)
(* and any values of the other constants: COMMIT of a request is one step  *)
(* of the calendar, everything else is invisible in it.  From the same     *)
(* invariant: announcements and reminders match the tables, and what holds *)
(* when requests do not overlap.                                           *)
(***************************************************************************)
EXTENDS AppointmentsProofs

-----------------------------------------------------------------------------
\* What open transactions hold.

\* What a request is and where it may be.
LEMMA OpenRequest ==
  ASSUME TypeOK, PcOK, NEW r \in Req, pc[r] # "idle"
  PROVE  /\ op[r] \in Ops /\ op[r] # None
         /\ op[r].kind \in {"create", "transition", "cancel", "remove", "update",
                            "reschedule", "staffRemove"}
         /\ op[r].kind \in {"transition", "cancel", "remove", "update", "reschedule"}
              => op[r].id \in Appt
         /\ op[r].kind \in {"create", "reschedule"} => new[r] \in Appt
         /\ pc[r] \in StatementsOf(op[r].kind)
BY OpFields DEF TypeOK, PcOK, RequestOK, Inserts

\* The work of a request that takes no step is not touched: the rows it holds
\* are locked, and committed rows do not disappear.
LEMMA OthersKeepWork ==
  ASSUME TypeOK, NEW q \in Req, WorkOf(q), Found(q), VersionOK(q),
         op'[q] = op[q], pc'[q] = pc[q], new'[q] = new[q],
         tx'[q] = tx[q], txEvents'[q] = txEvents[q], txStaff'[q] = txStaff[q],
         \A a \in Appt : appt'[a] = appt[a] \/ (tx[q][a] = None /\ appt'[a] # None)
  PROVE  WorkOf(q)' /\ Found(q)' /\ VersionOK(q)'
<1>1. op[q] = None \/ op[q] \in Ops
  BY DEF TypeOK
<1>2. op[q] # None => /\ op[q].kind \in {"transition", "cancel", "remove", "update", "reschedule"}
                          => op[q].id \in Appt
  BY <1>1, OpFields
<1>3. Found(q)'
  BY <1>2 DEF Found
<1>4. VersionOK(q)'
  BY DEF VersionOK, SlotOf
<1>5. WorkOf(q)'
  <2>1. NoWork(q) => NoWork(q)'
    BY DEF NoWork
  <2>2. \A A : Inserted(q, A) => Inserted(q, A)'
    BY DEF Inserted
  <2>3. \A A : Written(q, A) => Written(q, A)'
    BY DEF Written
  <2>4. EventOf(q)' = EventOf(q) /\ \A n : Announced(q, n)' = Announced(q, n)
    BY DEF EventOf, Announced
  <2>5. CASE op[q] = None
    BY <2>1, <2>5 DEF WorkOf
  <2>6. CASE op[q] # None /\ op[q].kind = "create"
    BY <2>1, <2>2, <2>4, <2>6 DEF WorkOf, CreateWork
  <2>7. CASE op[q] # None /\ op[q].kind = "reschedule"
    BY <2>1, <2>2, <2>3, <2>4, <2>7 DEF WorkOf, RescheduleWork
  <2>8. CASE op[q] # None /\ op[q].kind \in {"transition", "cancel"}
    BY <2>1, <2>3, <2>4, <2>8 DEF WorkOf, ChangeWork, Changed
  <2>9. CASE op[q] # None /\ op[q].kind \in {"remove", "update"}
    BY <1>2, <2>1, <2>9 DEF WorkOf, PatchWork
  <2>10. CASE op[q] # None /\ op[q].kind = "staffRemove"
    BY <2>1, <2>10 DEF WorkOf, StaffWork
  <2> QED BY <1>1, <2>5, <2>6, <2>7, <2>8, <2>9, <2>10, OpFields
<1> QED BY <1>3, <1>4, <1>5

\* A request that ends holds nothing.
LEMMA ResetHoldsNothing ==
  ASSUME TypeOK, NEW r \in Req, Reset(r)
  PROVE  WorkOf(r)' /\ Found(r)' /\ VersionOK(r)'
<1>1. op'[r] = None /\ NoWork(r)'
  BY DEF TypeOK, Reset, NoWork
<1> QED BY <1>1 DEF WorkOf, Found, VersionOK, NoWork

\* Statements that write nothing leave the work as it is, and the next
\* statement of the handler expects it so.
LEMMA ReadKeepsWork ==
  ASSUME IInv, NEW r \in Req, WorkOf(r), Found(r), VersionOK(r),
         \/ FindAlreadyThere(r) \/ Find(r) \/ Validate(r) \/ ScheduleReminders(r)
         \/ CancelReminders(r) \/ FindStaff(r) \/ CountFuture(r)
  PROVE  WorkOf(r)' /\ Found(r)' /\ VersionOK(r)'
<1> USE DEF IInv
<1>1. UNCHANGED <<appt, op, new, tx, txEvents, txStaff>>
  BY DEF FindAlreadyThere, Find, Validate, ScheduleReminders, CancelReminders,
         FindStaff, CountFuture, tables
<1>2. pc[r] \in {"find", "validate", "remind", "unremind", "findStaff", "count"}
  BY DEF FindAlreadyThere, Find, Validate, ScheduleReminders, CancelReminders,
         FindStaff, CountFuture, At
<1>3. /\ op[r] \in Ops /\ op[r] # None
      /\ op[r].kind \in {"transition", "cancel", "remove", "update", "reschedule"}
           => op[r].id \in Appt
      /\ pc[r] \in StatementsOf(op[r].kind)
  BY <1>2, OpenRequest
<1>4. \/ pc'[r] = After(op[r].kind, pc[r])
      \/ pc[r] = "find" /\ pc'[r] = "commit" /\ op[r].kind \in {"transition", "cancel"}
      \/ pc[r] = "count" /\ pc'[r] = "deleteStaff"
  BY <1>2 DEF FindAlreadyThere, Find, Validate, ScheduleReminders, CancelReminders,
         FindStaff, CountFuture, Advance, TypeOK, AlreadyThere, At
<1>5. VersionOK(r)'
  BY <1>1 DEF VersionOK
<1>6. pc[r] = "find" => NoWork(r)
  BY <1>3 DEF WorkOf, CreateWork, RescheduleWork, ChangeWork, PatchWork, StaffWork, StatementsOf
<1>7. Found(r)'
  <2>1. CASE pc[r] = "find"
    <3>1. View(r, op[r].id) # None
      BY <2>1 DEF FindAlreadyThere, Find, Validate, ScheduleReminders, CancelReminders,
         FindStaff, CountFuture, At, Allowed, Missing
    <3> QED BY <1>1, <1>3, <1>6, <2>1, <3>1 DEF Found, View, NoWork
  <2>2. CASE pc[r] # "find"
    BY <1>1, <2>2 DEF Found
  <2> QED BY <2>1, <2>2
<1>8. WorkOf(r)'
  <2>1. /\ NoWork(r)' = NoWork(r)
        /\ EventOf(r)' = EventOf(r)
    BY <1>1 DEF NoWork, EventOf
  <2>2. /\ \A n : Announced(r, n)' = Announced(r, n)
        /\ \A A : Inserted(r, A)' = Inserted(r, A)
        /\ \A A : Written(r, A)' = Written(r, A)
    BY <1>1 DEF Announced, Inserted, Written
  <2>3. CASE op[r].kind = "create"
    BY <1>1, <1>2, <1>3, <1>4, <2>1, <2>2, <2>3 DEF WorkOf, CreateWork, After, StatementsOf
  <2>4. CASE op[r].kind = "reschedule"
    BY <1>1, <1>2, <1>3, <1>4, <2>1, <2>2, <2>4 DEF WorkOf, RescheduleWork, After, StatementsOf
  <2>5. CASE op[r].kind \in {"transition", "cancel"}
    BY <1>1, <1>2, <1>3, <1>4, <2>1, <2>2, <2>5 DEF WorkOf, ChangeWork, Changed, After, StatementsOf
  <2>6. CASE op[r].kind \in {"remove", "update"}
    BY <1>1, <1>2, <1>3, <1>4, <2>1, <2>6 DEF WorkOf, PatchWork, After, StatementsOf
  <2>7. CASE op[r].kind = "staffRemove"
    BY <1>1, <1>2, <1>3, <1>4, <2>1, <2>7 DEF WorkOf, StaffWork, After, StatementsOf, NoWork
  <2> QED BY <1>3, <2>3, <2>4, <2>5, <2>6, <2>7, OpFields
<1> QED BY <1>5, <1>7, <1>8

\* INSERT holds the new row and its announcement.
LEMMA InsertKeepsWork ==
  ASSUME IInv, NEW r \in Req, WorkOf(r), Found(r), VersionOK(r), Insert(r)
  PROVE  WorkOf(r)' /\ Found(r)' /\ VersionOK(r)'
<1> USE DEF IInv
<1> DEFINE n == new[r]
           row == NewRow(r)
<1>1. /\ pc[r] = "insert" /\ op[r] \in Ops /\ op[r] # None
      /\ op[r].kind \in {"create", "reschedule"}
      /\ n \in Appt /\ row \in Row /\ row.from = None /\ row # None
  BY OpenRequest, NewRowType, NoneAssumption DEF Insert, At, StatementsOf
<1>2. row.status \in {"CONFIRMED", "PENDING"} /\ row.deleted = FALSE
  BY DEF NewRow
<1>3. NoWork(r)
  BY <1>1 DEF WorkOf, CreateWork, RescheduleWork
<1>4. /\ UNCHANGED <<appt, op, new, txStaff>>
      /\ tx'[r] = [tx[r] EXCEPT ![n] = row]
      /\ txEvents'[r] = {[type |-> "created", appt |-> n, to |-> row.status, old |-> None]}
      /\ pc'[r] = "remind"
  BY <1>1, <1>3 DEF Insert, Advance, After, TypeOK, tables, NoWork
<1>5. tx'[r][n] = row /\ \A a \in Appt \ {n} : tx'[r][a] = None
  BY <1>1, <1>3, <1>4 DEF TypeOK, NoWork
<1>6. appt[n] = None
  BY <1>1, NoneAssumption DEF FreshOK
<1> HIDE DEF row
<1>7. Inserted(r, {})'
  BY <1>1, <1>2, <1>3, <1>4, <1>5 DEF Inserted, NoWork
<1>8. txEvents'[r] = {Announced(r, n)'}
  BY <1>4, <1>5 DEF Announced
<1>9. WorkOf(r)'
  BY <1>1, <1>4, <1>5, <1>7, <1>8 DEF WorkOf, CreateWork, RescheduleWork
<1>10. Found(r)'
  BY <1>1, <1>4 DEF Found
<1>11. VersionOK(r)'
  BY <1>4, <1>5, <1>6 DEF VersionOK
<1> QED BY <1>9, <1>10, <1>11

\* The link is written into the new row.
LEMMA LinkKeepsWork ==
  ASSUME IInv, NEW r \in Req, WorkOf(r), Found(r), VersionOK(r), Link(r)
  PROVE  WorkOf(r)' /\ Found(r)' /\ VersionOK(r)'
<1> USE DEF IInv
<1> DEFINE n == new[r]
           row == [tx[r][n] EXCEPT !.from = op[r].id]
<1>1. /\ pc[r] = "link" /\ op[r] \in Ops /\ op[r] # None /\ op[r].kind = "reschedule"
      /\ n \in Appt /\ tx[r][n] \in Row /\ row \in Row /\ row # None
  BY OpenRequest, LinkedRowType, NoneAssumption DEF Link, At, StatementsOf
<1>2. Inserted(r, {}) /\ txEvents[r] = {Announced(r, n)}
  BY <1>1 DEF WorkOf, RescheduleWork
<1>3. /\ UNCHANGED <<appt, op, new, txEvents, txStaff>>
      /\ tx'[r] = [tx[r] EXCEPT ![n] = row]
      /\ pc'[r] = "setStatus"
  BY <1>1 DEF Link, Advance, After, TypeOK, tables
<1>4. tx'[r][n] = row /\ \A a \in Appt \ {n} : tx'[r][a] = tx[r][a]
  BY <1>1, <1>3 DEF TypeOK
<1>5. row.status = tx[r][n].status /\ row.deleted = tx[r][n].deleted /\ row.from = op[r].id
  BY <1>1 DEF Row
<1> HIDE DEF row
<1>6. Inserted(r, {})'
  BY <1>1, <1>2, <1>3, <1>4, <1>5 DEF Inserted
<1>7. txEvents'[r] = {Announced(r, n)'}
  BY <1>2, <1>3, <1>4, <1>5 DEF Announced
<1>8. WorkOf(r)'
  BY <1>1, <1>3, <1>4, <1>5, <1>6, <1>7 DEF WorkOf, RescheduleWork
<1>9. appt[n] = None
  BY <1>1, NoneAssumption DEF FreshOK
<1>10. VersionOK(r)'
  BY <1>3, <1>4, <1>9 DEF VersionOK
<1>11. Found(r)'
  BY <1>1, <1>3 DEF Found
<1> QED BY <1>8, <1>10, <1>11

\* The UPDATE of the status is held with its announcement.
LEMMA SetStatusKeepsWork ==
  ASSUME IInv, NEW r \in Req, WorkOf(r), Found(r), VersionOK(r), SetStatus(r)
  PROVE  WorkOf(r)' /\ Found(r)' /\ VersionOK(r)'
<1> USE DEF IInv
<1> DEFINE id == op[r].id
           row == UpdatedRow(r)
<1>1. /\ pc[r] = "setStatus" /\ op[r] \in Ops /\ op[r] # None
      /\ op[r].kind \in {"transition", "cancel", "reschedule"}
      /\ id \in Appt /\ View(r, id) \in Row /\ row \in Row /\ row # None
  BY OpenRequest, UpdatedRowType, NoneAssumption DEF SetStatus, At, StatementsOf
<1>2. /\ row.status = Target(op[r])
      /\ row.deleted = View(r, id).deleted /\ row.from = View(r, id).from
      /\ SlotOf(row) = SlotOf(View(r, id))
  BY <1>1, NoneAssumption DEF UpdatedRow, Row, SlotOf
<1>3. /\ UNCHANGED <<appt, op, new, txStaff>>
      /\ tx'[r] = [tx[r] EXCEPT ![id] = row]
      /\ txEvents'[r] = txEvents[r] \cup {EventOf(r)}
      /\ pc'[r] = After(op[r].kind, "setStatus")
  BY <1>1 DEF SetStatus, Advance, TypeOK, tables
<1>4. tx'[r][id] = row /\ \A a \in Appt \ {id} : tx'[r][a] = tx[r][a]
  BY <1>1, <1>3 DEF TypeOK
<1>5. appt[id] # None
  BY <1>1 DEF Found
<1>6. EventOf(r)' = EventOf(r)
  BY <1>3 DEF EventOf
<1> HIDE DEF row
<1>7. Found(r)'
  BY <1>1, <1>3, <1>5 DEF Found
<1>8. VersionOK(r)'
  <2>1. /\ SlotOf(View(r, id)) = SlotOf(appt[id])
        /\ View(r, id).from = appt[id].from
        /\ View(r, id).deleted = appt[id].deleted
    BY <1>1, <1>5 DEF View, VersionOK
  <2> QED BY <1>1, <1>2, <1>3, <1>4, <2>1 DEF VersionOK
<1>9. CASE op[r].kind \in {"transition", "cancel"}
  <2>1. NoWork(r)
    BY <1>1, <1>9 DEF WorkOf, ChangeWork
  <2>2. Changed(r)'
    BY <1>1, <1>2, <1>3, <1>4, <1>6, <2>1 DEF Changed, Written, NoWork
  <2>3. pc'[r] \in {"unremind", "commit"}
    BY <1>3, <1>9 DEF After
  <2>4. WorkOf(r)'
    BY <1>1, <1>3, <1>9, <2>2, <2>3 DEF WorkOf, ChangeWork
  <2> QED BY <1>7, <1>8, <2>4
<1>10. CASE op[r].kind = "reschedule"
  <2>1. Inserted(r, {}) /\ tx[r][new[r]].from = id /\ txEvents[r] = {Announced(r, new[r])}
    BY <1>1, <1>10 DEF WorkOf, RescheduleWork
  <2>2. new[r] \in Appt /\ new[r] # id
    BY <1>1, <1>5, <1>10, OpenRequest, NoneAssumption DEF FreshOK
  <2>3. tx'[r][new[r]] = tx[r][new[r]]
    BY <1>4, <2>2
  <2>4. Inserted(r, {id})'
    BY <1>3, <1>4, <2>1, <2>3 DEF Inserted
  <2>5. Written(r, {new[r]})'
    BY <1>1, <1>2, <1>3, <1>4, <2>1 DEF Written, Inserted
  <2>6. txEvents'[r] = {Announced(r, new[r])', EventOf(r)'}
    BY <1>3, <1>6, <2>1, <2>3 DEF Announced
  <2>7. pc'[r] = "unremind"
    BY <1>3, <1>10 DEF After
  <2>8. WorkOf(r)'
    BY <1>1, <1>3, <1>10, <2>1, <2>3, <2>4, <2>5, <2>6, <2>7 DEF WorkOf, RescheduleWork
  <2> QED BY <1>7, <1>8, <2>8
<1> QED BY <1>1, <1>9, <1>10

\* remove and update hold one version of the row they found.
LEMMA PatchKeepsWork ==
  ASSUME IInv, NEW r \in Req, WorkOf(r), Found(r), VersionOK(r), Patch(r)
  PROVE  WorkOf(r)' /\ Found(r)' /\ VersionOK(r)'
<1> USE DEF IInv
<1> DEFINE id == op[r].id
           row == [View(r, id) EXCEPT !.deleted = @ \/ op[r].kind = "remove"]
<1>1. /\ pc[r] = "patch" /\ op[r] \in Ops /\ op[r] # None
      /\ op[r].kind \in {"remove", "update"} /\ id \in Appt /\ View(r, id) \in Row
  BY OpenRequest, UpdatedRowType DEF Patch, At, StatementsOf
<1>2. NoWork(r) /\ appt[id] # None
  BY <1>1 DEF WorkOf, PatchWork, Found
<1>3. View(r, id) = appt[id]
  BY <1>1, <1>2 DEF NoWork, View
<1>4. /\ row \in Row /\ row # None
      /\ row.status = appt[id].status /\ row.from = appt[id].from
      /\ row.reason = appt[id].reason
      /\ row.deleted = (appt[id].deleted \/ op[r].kind = "remove")
      /\ SlotOf(row) = SlotOf(appt[id])
  BY <1>1, <1>3, NoneAssumption DEF Row, SlotOf
<1>5. /\ UNCHANGED <<appt, op, new, txEvents, txStaff>>
      /\ tx'[r] = [tx[r] EXCEPT ![id] = row]
      /\ pc'[r] = "commit"
  BY <1>1 DEF Patch, Advance, After, TypeOK, tables
<1> HIDE DEF row
<1>6. tx'[r][id] = row /\ \A a \in Appt \ {id} : tx'[r][a] = None
  BY <1>1, <1>2, <1>5 DEF TypeOK, NoWork
<1>7. WorkOf(r)'
  BY <1>1, <1>2, <1>4, <1>5, <1>6 DEF WorkOf, PatchWork, NoWork
<1>8. Found(r)'
  BY <1>1, <1>2, <1>5 DEF Found
<1>9. VersionOK(r)'
  <2>1. row.deleted = appt[id].deleted \/ op[r].kind = "remove"
    BY <1>1, <1>4, <1>3 DEF Row
  <2> QED BY <1>4, <1>5, <1>6, <2>1 DEF VersionOK
<1> QED BY <1>7, <1>8, <1>9

\* The bulk cancellation holds versions of the staff member's own rows.
LEMMA CancelAllKeepsWork ==
  ASSUME IInv, NEW r \in Req, WorkOf(r), Found(r), VersionOK(r), CancelAll(r)
  PROVE  WorkOf(r)' /\ Found(r)' /\ VersionOK(r)'
<1> USE DEF IInv
<1> DEFINE future == FutureAppointments(r, op[r].staff)
           cancelled(a) == [View(r, a) EXCEPT !.status = "CANCELLED", !.reason = "staff_removed"]
<1>1. /\ pc[r] = "cancelAll" /\ op[r] \in Ops /\ op[r] # None /\ op[r].kind = "staffRemove"
  BY OpenRequest DEF CancelAll, At, StatementsOf
<1>2. NoWork(r)
  BY <1>1 DEF WorkOf, StaffWork
<1>3. /\ UNCHANGED <<appt, op, new, txEvents, txStaff>>
      /\ tx'[r] = [a \in Appt |-> IF a \in future THEN cancelled(a) ELSE tx[r][a]]
      /\ pc'[r] = "deleteStaff"
  BY <1>1 DEF CancelAll, Advance, After, TypeOK, tables
<1>4. ASSUME NEW a \in Appt, tx'[r][a] # None
      PROVE  /\ appt[a] # None /\ appt[a].staff = op[r].staff /\ isActiveStatus(appt[a].status)
             /\ tx'[r][a].status = "CANCELLED" /\ tx'[r][a].reason = "staff_removed"
             /\ tx'[r][a].from = appt[a].from
             /\ tx'[r][a].deleted = appt[a].deleted
             /\ SlotOf(tx'[r][a]) = SlotOf(appt[a])
  <2>1. a \in future /\ tx'[r][a] = cancelled(a)
    BY <1>2, <1>3, <1>4 DEF NoWork
  <2>2. View(r, a) = appt[a] /\ View(r, a) \in Row /\ cancelled(a) \in Row
    BY <1>2, <2>1, CancelledRowType DEF View, NoWork
  <2> QED BY <2>1, <2>2, NoneAssumption DEF Row, SlotOf, FutureAppointments
<1>5. WorkOf(r)'
  BY <1>1, <1>2, <1>3, <1>4 DEF WorkOf, StaffWork, NoWork
<1>6. Found(r)'
  BY <1>1, <1>3 DEF Found
<1>7. VersionOK(r)'
  BY <1>3, <1>4 DEF VersionOK
<1> QED BY <1>5, <1>6, <1>7

\* The removal of the staff member is held last.
LEMMA DeleteStaffKeepsWork ==
  ASSUME IInv, NEW r \in Req, WorkOf(r), Found(r), VersionOK(r), DeleteStaff(r)
  PROVE  WorkOf(r)' /\ Found(r)' /\ VersionOK(r)'
<1> USE DEF IInv
<1>1. /\ pc[r] = "deleteStaff" /\ op[r] \in Ops /\ op[r] # None /\ op[r].kind = "staffRemove"
  BY OpenRequest DEF DeleteStaff, At, StatementsOf
<1>2. /\ UNCHANGED <<appt, op, new, tx, txEvents>>
      /\ txStaff'[r] = txStaff[r] \cup {op[r].staff}
      /\ pc'[r] = "commit"
  BY <1>1 DEF DeleteStaff, Advance, After, TypeOK, tables
<1>3. WorkOf(r)'
  BY <1>1, <1>2 DEF WorkOf, StaffWork
<1> QED BY <1>1, <1>2, <1>3 DEF Found, VersionOK

\* A statement moves nobody else's transaction, and changes committed rows
\* only as its COMMIT publishes those it holds.
LEMMA StatementIsLocal ==
  ASSUME IInv, NEW r \in Req, Statement(r) \/ TxLost(r) \/ RedisPartlyDone(r)
  PROVE  /\ \A q \in Req \ {r} :
              /\ op'[q] = op[q] /\ pc'[q] = pc[q] /\ new'[q] = new[q]
              /\ tx'[q] = tx[q] /\ txEvents'[q] = txEvents[q] /\ txStaff'[q] = txStaff[q]
         /\ \A a \in Appt : appt'[a] = appt[a] \/ (appt'[a] = tx[r][a] /\ tx[r][a] # None)
<1> USE DEF IInv
<1>1. CASE Commit(r)
  BY <1>1 DEF Commit, Reset, TypeOK, View
<1>2. CASE Fail(r)
  BY <1>2 DEF Fail, Reset, TypeOK, tables
<1>3. CASE \/ FindAlreadyThere(r) \/ Find(r) \/ Validate(r) \/ ScheduleReminders(r)
           \/ CancelReminders(r) \/ FindStaff(r) \/ CountFuture(r)
  BY <1>3 DEF FindAlreadyThere, Find, Validate, ScheduleReminders, CancelReminders,
         FindStaff, CountFuture, Advance, TypeOK, tables
<1>4. CASE \/ Insert(r) \/ Link(r) \/ SetStatus(r) \/ Patch(r) \/ CancelAll(r) \/ DeleteStaff(r)
  BY <1>4 DEF Insert, Link, SetStatus, Patch, CancelAll, DeleteStaff, Advance, TypeOK, tables
<1> QED BY <1>1, <1>2, <1>3, <1>4
     DEF Statement, TxLost, RedisPartlyDone, FindFails, ValidateFails, InsertFails, LinkFails,
         SetStatusFails, FindStaffFails, CountFutureFails, CancelRemindersFails

-----------------------------------------------------------------------------
\* What COMMIT publishes.

\* The committed rows never show an overlap in the calendar.
LEMMA ConsistentCalendar == IInv => Cal!Consistent
<1> SUFFICES ASSUME IInv, NEW a \in Open \ Withdrawn, NEW b \in Open \ Withdrawn, a # b
             PROVE  Cal!Disjoint(Slots[a], Slots[b])
  BY DEF Cal!Consistent
<1>1. /\ a \in Appt /\ b \in Appt /\ appt[a] \in Row /\ appt[b] \in Row
      /\ HoldsSlot(appt[a]) /\ HoldsSlot(appt[b])
  BY DEF IInv, TypeOK, Open, Withdrawn, Holding, HoldsSlot
<1>2. ~Overlap(appt[a], appt[b])
  BY <1>1, NoneAssumption DEF IInv, NoConflict, Conflict, Clash
<1>3. Slots[a] = SlotOf(appt[a]) /\ Slots[b] = SlotOf(appt[b])
  BY <1>1 DEF Slots
<1>4. ASSUME NEW row \in Row
      PROVE  /\ SlotOf(row).staff = row.staff
             /\ SlotOf(row).start = row.start /\ SlotOf(row).end = row.end
             /\ row.start \in Nat /\ row.end \in Nat
  BY NoneAssumption DEF SlotOf, Row
<1> QED BY <1>1, <1>2, <1>3, <1>4 DEF Cal!Disjoint, Overlap

LEMMA ConsistentNext == IInv' => Cal!Consistent'
BY ConsistentCalendar, PTL

\* A request that held nothing leaves the calendar as it was.
LEMMA EmptyCommit ==
  ASSUME IInv, NEW r \in Req, Commit(r), NoWork(r)
  PROVE  UNCHANGED tables
<1>1. appt' = appt
  BY DEF Commit, NoWork, View, IInv, TypeOK
<1> QED BY <1>1 DEF Commit, NoWork, tables

\* create publishes one entry.
LEMMA CreateCommit ==
  ASSUME IInv, NEW r \in Req, WorkOf(r), Commit(r), op[r].kind = "create"
  PROVE  Cal!Book(new[r])
<1> USE DEF IInv
<1> DEFINE n == new[r]
           row == tx[r][n]
<1>1. pc[r] = "commit" /\ op[r] \in Ops /\ op[r] # None /\ n \in Appt
  BY OpenRequest DEF Commit, At
<1>2. /\ Inserted(r, {}) /\ row.from = None /\ txEvents[r] = {Announced(r, n)}
  BY <1>1 DEF WorkOf, CreateWork
<1>3. row \in Row /\ row # None /\ appt[n] = None
  BY <1>1, <1>2, NoneAssumption DEF Inserted, FreshOK, TypeOK
<1>4. appt'[n] = row /\ \A a \in Appt \ {n} : appt'[a] = appt[a]
  BY <1>1, <1>2, <1>3 DEF Commit, View, Inserted
<1>5. outbox' = outbox \cup {Cal!Created(n, row.status)} /\ removed' = removed
  BY <1>2 DEF Commit, Inserted, Announced, Cal!Created
<1>6. row.status \in Holding /\ ~row.deleted
  BY <1>2 DEF Inserted, Holding, Status
<1>7. Slots[n] = None /\ Slots'[n] \in Slot
  BY <1>1, <1>3, <1>4 DEF Slots, SlotOf, Row, Slot
<1>8. Slots' = [Slots EXCEPT ![n] = Slots'[n]]
  BY <1>4 DEF Slots
<1>9. Open' = Open \cup {n}
  BY <1>1, <1>3, <1>4, <1>6 DEF Open
<1>10. Withdrawn' = Withdrawn
  BY <1>3, <1>4, <1>6 DEF Withdrawn
<1>11. Links' = Links
  BY <1>2, <1>3, <1>4 DEF Links
<1> HIDE DEF row, n
<1>12. Cal!Enter(n)
  BY <1>7, <1>8 DEF Cal!Enter
<1>13. \E to \in Holding : Cal!Announce({Cal!Created(n, to)})
  BY <1>5, <1>6 DEF Cal!Announce
<1> QED BY <1>5, <1>9, <1>10, <1>11, <1>12, <1>13 DEF Cal!Book, n

\* reschedule publishes the new entry and the end of the old one together.
LEMMA RescheduleCommit ==
  ASSUME IInv, NEW r \in Req, WorkOf(r), Found(r), VersionOK(r), Commit(r),
         op[r].kind = "reschedule"
  PROVE  Cal!Move(op[r].id, new[r])
<1> USE DEF IInv
<1> DEFINE n == new[r]
           id == op[r].id
           row == tx[r][n]
           old == tx[r][id]
<1>1. pc[r] = "commit" /\ op[r] \in Ops /\ op[r] # None /\ n \in Appt /\ id \in Appt
  BY OpenRequest DEF Commit, At
<1>2. /\ Inserted(r, {id}) /\ Written(r, {n}) /\ row.from = id
      /\ txEvents[r] = {Announced(r, n), EventOf(r)}
  BY <1>1 DEF WorkOf, RescheduleWork
<1>3. appt[id] # None /\ appt[n] = None /\ n # id
  BY <1>1, NoneAssumption DEF Found, FreshOK
<1>4. /\ row \in Row /\ row # None /\ old \in Row /\ old # None
      /\ appt[id] \in Row /\ old.status = "CANCELLED"
      /\ SlotOf(old) = SlotOf(appt[id]) /\ old.from = appt[id].from
      /\ old.deleted = appt[id].deleted
  BY <1>1, <1>2, <1>3 DEF Inserted, Written, TypeOK, VersionOK, Target
<1>5. /\ appt'[n] = row /\ appt'[id] = old
      /\ \A a \in Appt \ {n, id} : appt'[a] = appt[a]
  BY <1>1, <1>2, <1>4 DEF Commit, View, Inserted, Written
<1>6. /\ outbox' = outbox \cup {Cal!Created(n, row.status),
             [type |-> "rescheduled", appt |-> n, to |-> "CANCELLED", old |-> id]}
      /\ removed' = removed
  BY <1>2 DEF Commit, Inserted, Announced, EventOf, Cal!Created
<1>7. row.status \in Holding /\ ~row.deleted
  BY <1>2 DEF Inserted, Holding, Status
<1>8. Slots[n] = None /\ Slots[id] # None /\ Slots'[n] \in Slot
  <2>1. SlotOf(appt[id]) \in Slot /\ SlotOf(row) \in Slot
    BY <1>3, <1>4, NoneAssumption DEF SlotOf, Row, Slot
  <2> QED BY <1>1, <1>3, <1>5, <2>1, NoneAssumption DEF Slots, SlotOf
<1>9. Slots' = [Slots EXCEPT ![n] = Slots'[n]]
  BY <1>1, <1>3, <1>4, <1>5 DEF Slots
<1>10. Open' = (Open \ {id}) \cup {n}
  BY <1>1, <1>3, <1>4, <1>5, <1>7 DEF Open, Holding
<1>11. Withdrawn' = Withdrawn
  BY <1>3, <1>4, <1>5, <1>7 DEF Withdrawn
<1>12. Links' = [Links EXCEPT ![n] = id]
  BY <1>1, <1>2, <1>3, <1>4, <1>5 DEF Links
<1>13. ASSUME NEW b \in Appt PROVE Links[b] # id
  <2>1. CASE appt[b] = None
    BY <1>1, <2>1, NoneAssumption DEF Links
  <2>2. CASE appt[b] # None
    <3>1. b # n /\ ~SameLink(View(r, b), View(r, n))
      BY <1>1, <1>3, <2>2 DEF NoConflict, Conflict
    <3>2. View(r, n) = row /\ View(r, b).from = appt[b].from /\ View(r, b) # None
      BY <1>1, <1>4, <2>2 DEF View, VersionOK
    <3> QED BY <1>1, <1>2, <1>4, <2>2, <3>1, <3>2, NoneAssumption DEF SameLink, Links
  <2> QED BY <2>1, <2>2
<1> HIDE DEF row, old, n, id
<1>14. Cal!Enter(n)
  BY <1>8, <1>9 DEF Cal!Enter
<1>15. \E to \in Holding : Cal!Announce({Cal!Created(n, to),
         [type |-> "rescheduled", appt |-> n, to |-> "CANCELLED", old |-> id]})
  BY <1>6, <1>7 DEF Cal!Announce
<1> QED BY <1>6, <1>8, <1>10, <1>11, <1>12, <1>13, <1>14, <1>15 DEF Cal!Move, n, id

\* transition and cancel publish one status with its announcement.
LEMMA ChangeCommit ==
  ASSUME IInv, NEW r \in Req, WorkOf(r), Found(r), VersionOK(r), Commit(r),
         op[r].kind \in {"transition", "cancel"}, ~NoWork(r)
  PROVE  Cal!Change(op[r].id, Target(op[r]))
<1> USE DEF IInv
<1> DEFINE id == op[r].id
           to == Target(op[r])
           row == tx[r][id]
<1>1. pc[r] = "commit" /\ op[r] \in Ops /\ op[r] # None /\ id \in Appt
  BY OpenRequest DEF Commit, At
<1>2. Changed(r)
  BY <1>1 DEF WorkOf, ChangeWork
<1>3. /\ row \in Row /\ row # None /\ appt[id] \in Row /\ appt[id] # None
      /\ row.status = to /\ to \in Status
      /\ SlotOf(row) = SlotOf(appt[id]) /\ row.from = appt[id].from
      /\ row.deleted = appt[id].deleted
  <2>1. row # None /\ appt[id] # None /\ row.status = to
    BY <1>1, <1>2 DEF Changed, Written, Found
  <2>2. row \in Row /\ appt[id] \in Row
    BY <1>1, <2>1 DEF TypeOK
  <2>3. /\ SlotOf(row) = SlotOf(appt[id]) /\ row.from = appt[id].from
        /\ row.deleted = appt[id].deleted
    BY <1>1, <2>1 DEF VersionOK
  <2>4. to \in Status
    BY <2>1, <2>2 DEF Row
  <2> QED BY <2>1, <2>2, <2>3, <2>4
<1>4. appt'[id] = row /\ \A a \in Appt \ {id} : appt'[a] = appt[a]
  BY <1>1, <1>2, <1>3 DEF Commit, View, Changed, Written
<1>5. /\ outbox' = outbox \cup {[type |-> "status", appt |-> id, to |-> to, old |-> None]}
      /\ removed' = removed
  BY <1>2 DEF Commit, Changed, Written, EventOf
<1> HIDE DEF row, to
<1>6. Slots' = Slots /\ Slots[id] # None
  <2>1. SlotOf(appt[id]) \in Slot
    BY <1>3, NoneAssumption DEF SlotOf, Row, Slot
  <2> QED BY <1>1, <1>3, <1>4, <2>1, NoneAssumption DEF Slots
<1>7. Open' = IF to \in Holding THEN Open \cup {id} ELSE Open \ {id}
  BY <1>1, <1>3, <1>4 DEF Open
<1>8. Withdrawn' = Withdrawn /\ Links' = Links
  BY <1>3, <1>4 DEF Withdrawn, Links
<1> HIDE DEF id
<1> QED BY <1>5, <1>6, <1>7, <1>8 DEF Cal!Change, Cal!Announce, id, to

\* remove publishes deletedAt, update nothing the calendar shows.
LEMMA PatchCommit ==
  ASSUME IInv, NEW r \in Req, WorkOf(r), Found(r), VersionOK(r), Commit(r),
         op[r].kind \in {"remove", "update"}
  PROVE  Cal!Withdraw(op[r].id) \/ UNCHANGED Cal!vars
<1> USE DEF IInv
<1> DEFINE id == op[r].id
           row == tx[r][id]
<1>1. pc[r] = "commit" /\ op[r] \in Ops /\ op[r] # None /\ id \in Appt
  BY OpenRequest DEF Commit, At
<1>2. /\ txEvents[r] = {} /\ txStaff[r] = {} /\ row # None
      /\ row.status = appt[id].status
      /\ row.deleted = (appt[id].deleted \/ op[r].kind = "remove")
      /\ \A a \in Appt \ {id} : tx[r][a] = None
  BY <1>1 DEF WorkOf, PatchWork
<1>3. /\ row \in Row /\ appt[id] \in Row /\ appt[id] # None
      /\ SlotOf(row) = SlotOf(appt[id]) /\ row.from = appt[id].from
  BY <1>1, <1>2 DEF Found, VersionOK, TypeOK
<1>4. appt'[id] = row /\ \A a \in Appt \ {id} : appt'[a] = appt[a]
  BY <1>1, <1>2 DEF Commit, View
<1>5. outbox' = outbox /\ removed' = removed
  BY <1>2 DEF Commit
<1> HIDE DEF row
<1>6. Slots' = Slots /\ Slots[id] # None
  <2>1. SlotOf(appt[id]) \in Slot
    BY <1>3, NoneAssumption DEF SlotOf, Row, Slot
  <2> QED BY <1>1, <1>3, <1>4, <2>1, NoneAssumption DEF Slots
<1>7. Open' = Open /\ Links' = Links
  BY <1>2, <1>3, <1>4 DEF Open, Links
<1>8. CASE op[r].kind = "remove"
  <2>1. row.deleted = TRUE
    BY <1>2, <1>8
  <2>2. Withdrawn' = Withdrawn \cup {id}
    BY <1>1, <1>2, <1>4, <2>1 DEF Withdrawn
  <2> QED BY <1>5, <1>6, <1>7, <2>2 DEF Cal!Withdraw
<1>9. CASE op[r].kind = "update"
  <2>1. row.deleted = appt[id].deleted
    BY <1>2, <1>3, <1>9 DEF Row
  <2>2. Withdrawn' = Withdrawn
    BY <1>1, <1>2, <1>3, <1>4, <2>1 DEF Withdrawn
  <2> QED BY <1>5, <1>6, <1>7, <2>2 DEF Cal!vars
<1> QED BY <1>8, <1>9

\* StaffService.remove publishes the end of entries of that staff member only.
LEMMA StaffCommit ==
  ASSUME IInv, NEW r \in Req, WorkOf(r), VersionOK(r), Commit(r),
         op[r].kind = "staffRemove"
  PROVE  op[r].staff \in Staff /\ Cal!Dismiss(op[r].staff)
<1> USE DEF IInv
<1> DEFINE m == op[r].staff
<1>1. pc[r] = "commit" /\ op[r] \in Ops /\ op[r] # None /\ m \in Staff
  BY OpenRequest, OpFields DEF Commit, At
<1>2. /\ txEvents[r] = {} /\ txStaff[r] = {m}
      /\ \A a \in Appt : tx[r][a] # None =>
           appt[a] # None /\ appt[a].staff = m /\ tx[r][a].status = "CANCELLED"
  BY <1>1 DEF WorkOf, StaffWork
<1>3. /\ outbox' = outbox /\ removed' = removed \cup {m}
      /\ \A a \in Appt : appt'[a] = View(r, a)
  BY <1>2 DEF Commit
<1>4. ASSUME NEW a \in Appt
      PROVE  \/ appt'[a] = appt[a]
             \/ /\ appt[a] # None /\ appt'[a] # None
                /\ SlotOf(appt'[a]) = SlotOf(appt[a]) /\ appt'[a].from = appt[a].from
                /\ appt'[a].deleted = appt[a].deleted
                /\ appt[a].staff = m /\ appt'[a].status = "CANCELLED"
  BY <1>1, <1>2, <1>3 DEF View, VersionOK
<1>5. Slots' = Slots /\ Links' = Links
  BY <1>4 DEF Slots, Links
<1>6. Withdrawn' = Withdrawn
  BY <1>4 DEF Withdrawn
<1>7. Open' \subseteq Open
  BY <1>4 DEF Open, Holding
<1>8. ASSUME NEW a \in Open \ Open' PROVE Slots[a].staff = m
  <2>1. a \in Appt /\ appt[a] # None /\ appt[a].staff = m
    BY <1>4, <1>8 DEF Open
  <2> QED BY <2>1 DEF Slots, SlotOf
<1> QED BY <1>1, <1>3, <1>5, <1>6, <1>7, <1>8 DEF Cal!Dismiss

\* COMMIT is one step of the calendar, or none.
LEMMA CommitIsOneStep ==
  ASSUME IInv, IInv', NEW r \in Req, WorkOf(r), Found(r), VersionOK(r), Commit(r)
  PROVE  [Cal!Next]_(Cal!vars)
<1>1. /\ op[r] \in Ops /\ op[r] # None
      /\ op[r].kind \in {"create", "transition", "cancel", "remove", "update",
                         "reschedule", "staffRemove"}
      /\ op[r].kind \in {"transition", "cancel", "remove", "update", "reschedule"}
           => op[r].id \in Appt
      /\ op[r].kind \in {"create", "reschedule"} => new[r] \in Appt
  BY OpenRequest DEF IInv, Commit, At
<1>2. Cal!Consistent'
  BY ConsistentNext
<1>3. CASE NoWork(r)
  <2>1. UNCHANGED Cal!vars
    BY <1>3, EmptyCommit DEF tables, Cal!vars, Slots, Open, Withdrawn, Links
  <2> QED BY <2>1
<1>4. CASE op[r].kind = "create"
  BY <1>1, <1>2, <1>4, CreateCommit DEF Cal!Next
<1>5. CASE op[r].kind = "reschedule"
  BY <1>1, <1>2, <1>5, RescheduleCommit DEF Cal!Next
<1>6. CASE op[r].kind \in {"transition", "cancel"} /\ ~NoWork(r)
  <2>1. Target(op[r]) \in Status
    BY <1>1, <1>6, OpFields DEF Target, Status
  <2> QED BY <1>1, <1>2, <1>6, <2>1, ChangeCommit DEF Cal!Next
<1>7. CASE op[r].kind \in {"remove", "update"}
  BY <1>1, <1>2, <1>7, PatchCommit DEF Cal!Next
<1>8. CASE op[r].kind = "staffRemove"
  BY <1>1, <1>2, <1>8, StaffCommit DEF Cal!Next
<1> QED BY <1>1, <1>3, <1>4, <1>5, <1>6, <1>7, <1>8

-----------------------------------------------------------------------------
\* The theorems.

RInv == IInv /\ WorkOK

\* What every open transaction holds, at every statement of every handler: the
\* rows, announcements and removals its COMMIT publishes.
THEOREM TransactionInvariant == Spec => []RInv
<1>1. Init => WorkOK
  BY DEF Init, WorkOK, WorkOf, NoWork, Found, VersionOK
<1>2. IInv /\ IInv' /\ WorkOK /\ [Next]_vars => WorkOK'
  <2> SUFFICES ASSUME IInv, IInv', WorkOK, [Next]_vars PROVE WorkOK'
    OBVIOUS
  <2> USE DEF IInv
  <2>1. ASSUME NEW r \in Req, Statement(r) \/ TxLost(r) \/ RedisPartlyDone(r) PROVE WorkOK'
    <3>1. WorkOf(r)' /\ Found(r)' /\ VersionOK(r)'
      <4>1. CASE Reset(r)
        BY <4>1, ResetHoldsNothing
      <4>2. CASE \/ FindAlreadyThere(r) \/ Find(r) \/ Validate(r) \/ ScheduleReminders(r)
                 \/ CancelReminders(r) \/ FindStaff(r) \/ CountFuture(r)
        BY <4>2, ReadKeepsWork DEF WorkOK
      <4>3. CASE Insert(r) \/ Link(r) \/ SetStatus(r) \/ Patch(r) \/ CancelAll(r) \/ DeleteStaff(r)
        BY <4>3, InsertKeepsWork, LinkKeepsWork, SetStatusKeepsWork, PatchKeepsWork,
           CancelAllKeepsWork, DeleteStaffKeepsWork DEF WorkOK
      <4> QED BY <2>1, <4>1, <4>2, <4>3
           DEF Statement, TxLost, RedisPartlyDone, Commit, FindFails, ValidateFails,
               InsertFails, LinkFails, SetStatusFails, FindStaffFails, CountFutureFails,
               CancelRemindersFails, Fail
    <3>2. ASSUME NEW q \in Req \ {r} PROVE WorkOf(q)' /\ Found(q)' /\ VersionOK(q)'
      <4>1. \A a \in Appt : appt'[a] = appt[a] \/ (tx[q][a] = None /\ appt'[a] # None)
        BY <2>1, StatementIsLocal DEF LocksOK
      <4> QED BY <2>1, <4>1, StatementIsLocal, OthersKeepWork DEF WorkOK
    <3> QED BY <3>1, <3>2 DEF WorkOK
  <2>2. ASSUME NEW r \in Req, Begin(r) PROVE WorkOK'
    <3>1. /\ op[r] = None /\ op'[r] \in Ops /\ pc'[r] = First(op'[r].kind)
          /\ UNCHANGED <<appt, tx, txEvents, txStaff>>
      BY <2>2 DEF Begin, TypeOK, tables
    <3>2. \A q \in Req \ {r} : op'[q] = op[q] /\ pc'[q] = pc[q] /\ new'[q] = new[q]
      BY <2>2 DEF Begin, TypeOK
    <3>3. NoWork(r)' /\ op'[r] # None
      BY <3>1, NoneAssumption DEF WorkOK, WorkOf, NoWork
    <3>4. /\ op'[r].kind \in {"create", "transition", "cancel", "remove", "update",
                              "reschedule", "staffRemove"}
          /\ pc'[r] \in {"validate", "find", "findStaff"}
          /\ pc'[r] = "validate" <=> op'[r].kind = "create"
          /\ pc'[r] = "findStaff" <=> op'[r].kind = "staffRemove"
      BY <3>1, OpFields DEF First
    <3>5. WorkOf(r)' /\ Found(r)' /\ VersionOK(r)'
      BY <3>3, <3>4 DEF WorkOf, CreateWork, RescheduleWork, ChangeWork, PatchWork,
         StaffWork, Found, VersionOK, NoWork
    <3>6. ASSUME NEW q \in Req \ {r} PROVE WorkOf(q)' /\ Found(q)' /\ VersionOK(q)'
      BY <3>1, <3>2, OthersKeepWork DEF WorkOK
    <3> QED BY <3>5, <3>6 DEF WorkOK
  <2>3. CASE Tick \/ StartReminder \/ FinishReminder \/ RequeueReminder \/ UNCHANGED vars
    <3>1. UNCHANGED <<appt, op, pc, new, tx, txEvents, txStaff>>
      BY <2>3 DEF Tick, StartReminder, FinishReminder, RequeueReminder, vars, tables, local
    <3> QED BY <3>1, OthersKeepWork DEF WorkOK
  <2> QED BY <2>1, <2>2, <2>3 DEF Next
<1>3. Spec => []IInv
  BY InductiveInvariant
<1> QED BY <1>1, <1>2, <1>3, PTL DEF Spec, RInv

\* The write path implements the calendar: whatever requests interleave,
\* wait, fail or act on stale reads, the committed tables change one complete,
\* announced, overlap-free step at a time.
THEOREM AppointmentsImplementCalendar == Spec => ImplementsCalendar
<1>1. Init => Cal!Init
  BY DEF Init, Cal!Init, Slots, Open, Withdrawn, Links, SlotOf
<1>2. RInv /\ RInv' /\ [Next]_vars => [Cal!Next]_(Cal!vars)
  <2> SUFFICES ASSUME RInv, RInv', [Next]_vars PROVE [Cal!Next]_(Cal!vars)
    OBVIOUS
  <2>1. CASE UNCHANGED tables
    BY <2>1 DEF tables, Cal!vars, Slots, Open, Withdrawn, Links
  <2>2. ASSUME NEW r \in Req, Commit(r) PROVE [Cal!Next]_(Cal!vars)
    BY <2>2, CommitIsOneStep DEF RInv, WorkOK
  <2>3. CASE Tick \/ StartReminder \/ FinishReminder \/ RequeueReminder \/ UNCHANGED vars
    <3>1. UNCHANGED tables
      BY <2>3 DEF Tick, StartReminder, FinishReminder, RequeueReminder, vars
    <3> QED BY <3>1, <2>1
  <2>4. ASSUME NEW r \in Req,
               Begin(r) \/ (Statement(r) /\ ~Commit(r)) \/ TxLost(r) \/ RedisPartlyDone(r)
        PROVE  UNCHANGED tables
    BY <2>4 DEF Begin, Statement, TxLost, RedisPartlyDone, FindFails, FindAlreadyThere, Find,
       Validate, ValidateFails, Insert, InsertFails, ScheduleReminders, Link, LinkFails,
       SetStatus, SetStatusFails, Patch, CancelReminders, CancelRemindersFails, FindStaff,
       FindStaffFails, CountFuture, CountFutureFails, CancelAll, DeleteStaff, Fail
  <2> QED BY <2>1, <2>2, <2>3, <2>4 DEF Next
<1> QED BY <1>1, <1>2, TransactionInvariant, PTL DEF Spec, ImplementsCalendar, Cal!Spec

-----------------------------------------------------------------------------
\* Announcements and reminders.

\* What COMMIT does to a row, and the announcement that goes with it.
LEMMA CommitRow ==
  ASSUME RInv, NEW r \in Req, Commit(r), NEW a \in Appt, appt'[a] # appt[a]
  PROVE  /\ appt'[a] # None /\ appt'[a] = tx[r][a] /\ op[r] \in Ops /\ op[r] # None
         /\ appt[a] # None => appt'[a].from = appt[a].from /\ SlotOf(appt'[a]) = SlotOf(appt[a])
         /\ \/ /\ op[r].kind \in {"create", "reschedule"} /\ a = new[r] /\ appt[a] = None
               /\ appt'[a].status \in {"CONFIRMED", "PENDING"}
               /\ Announced(r, a) \in txEvents[r]
               /\ appt'[a].from = IF op[r].kind = "create" THEN None ELSE op[r].id
            \/ /\ op[r].kind \in {"transition", "cancel", "reschedule"}
               /\ a = op[r].id /\ appt[a] # None
               /\ appt'[a].status = Target(op[r]) /\ EventOf(r) \in txEvents[r]
            \/ /\ op[r].kind \in {"remove", "update"} /\ a = op[r].id /\ appt[a] # None
               /\ appt'[a].status = appt[a].status /\ appt'[a].reason = appt[a].reason
            \/ /\ op[r].kind = "staffRemove" /\ appt[a] # None /\ isActiveStatus(appt[a].status)
               /\ appt'[a].status = "CANCELLED" /\ appt'[a].reason = "staff_removed"
<1> USE DEF RInv, IInv
<1>1. /\ pc[r] = "commit" /\ op[r] \in Ops /\ op[r] # None
      /\ op[r].kind \in {"create", "transition", "cancel", "remove", "update",
                         "reschedule", "staffRemove"}
      /\ op[r].kind \in {"transition", "cancel", "remove", "update", "reschedule"}
           => op[r].id \in Appt
      /\ op[r].kind \in {"create", "reschedule"} => new[r] \in Appt
  BY OpenRequest DEF Commit, At
<1>2. appt'[a] = tx[r][a] /\ tx[r][a] # None
  BY DEF Commit, View
<1>3. appt[a] # None => appt'[a].from = appt[a].from /\ SlotOf(appt'[a]) = SlotOf(appt[a])
  BY <1>2 DEF WorkOK, VersionOK
<1>4. WorkOf(r) /\ Found(r) /\ ~NoWork(r)
  BY <1>2 DEF WorkOK, NoWork
<1>5. CASE op[r].kind = "create"
  <2>1. Inserted(r, {}) /\ tx[r][new[r]].from = None /\ txEvents[r] = {Announced(r, new[r])}
    BY <1>1, <1>4, <1>5 DEF WorkOf, CreateWork
  <2>2. a = new[r] /\ appt[a] = None
    BY <1>1, <1>2, <2>1, NoneAssumption DEF Inserted, FreshOK
  <2> QED BY <1>1, <1>2, <1>5, <2>1, <2>2 DEF Inserted
<1>6. CASE op[r].kind = "reschedule"
  <2>1. /\ Inserted(r, {op[r].id}) /\ Written(r, {new[r]})
        /\ tx[r][new[r]].from = op[r].id
        /\ txEvents[r] = {Announced(r, new[r]), EventOf(r)}
    BY <1>1, <1>4, <1>6 DEF WorkOf, RescheduleWork
  <2>2. appt[new[r]] = None /\ appt[op[r].id] # None
    BY <1>1, <1>4, <1>6, NoneAssumption DEF FreshOK, Found
  <2>3. a = new[r] \/ a = op[r].id
    BY <1>2, <2>1 DEF Inserted
  <2>4. CASE a = new[r]
    BY <1>1, <1>2, <1>6, <2>1, <2>2, <2>4 DEF Inserted
  <2>5. CASE a = op[r].id
    BY <1>1, <1>2, <1>3, <1>6, <2>1, <2>2, <2>5 DEF Written
  <2> QED BY <2>3, <2>4, <2>5
<1>7. CASE op[r].kind \in {"transition", "cancel"}
  <2>1. Changed(r)
    BY <1>1, <1>4, <1>7 DEF WorkOf, ChangeWork
  <2> QED BY <1>1, <1>2, <1>3, <1>4, <1>7, <2>1 DEF Changed, Written, Found
<1>8. CASE op[r].kind \in {"remove", "update"}
  <2>1. PatchWork(r)
    BY <1>1, <1>4, <1>8 DEF WorkOf
  <2> QED BY <1>1, <1>2, <1>3, <1>4, <1>8, <2>1 DEF PatchWork, Found
<1>9. CASE op[r].kind = "staffRemove"
  <2>1. StaffWork(r)
    BY <1>1, <1>4, <1>9 DEF WorkOf
  <2> QED BY <1>1, <1>2, <1>3, <1>9, <2>1 DEF StaffWork
<1> QED BY <1>1, <1>5, <1>6, <1>7, <1>8, <1>9

\* What an announcement of COMMIT speaks of is committed with it.
LEMMA CommitEvent ==
  ASSUME RInv, NEW r \in Req, Commit(r), NEW e \in txEvents[r]
  PROVE  /\ e.appt \in Appt /\ appt'[e.appt] # None
         /\ e.type = "rescheduled" =>
              e.old \in Appt /\ appt'[e.old] # None /\ appt'[e.appt].from = e.old
<1> USE DEF RInv, IInv
<1>1. /\ pc[r] = "commit" /\ op[r] \in Ops /\ op[r] # None
      /\ op[r].kind \in {"create", "transition", "cancel", "remove", "update",
                         "reschedule", "staffRemove"}
      /\ op[r].kind \in {"transition", "cancel", "remove", "update", "reschedule"}
           => op[r].id \in Appt
      /\ op[r].kind \in {"create", "reschedule"} => new[r] \in Appt
  BY OpenRequest DEF Commit, At
<1>2. \A b \in Appt : tx[r][b] # None => appt'[b] = tx[r][b]
  BY DEF Commit, View
<1>3. WorkOf(r) /\ Found(r) /\ ~NoWork(r)
  BY DEF WorkOK, NoWork
<1>4. CASE op[r].kind = "create"
  <2>1. Inserted(r, {}) /\ txEvents[r] = {Announced(r, new[r])}
    BY <1>1, <1>3, <1>4 DEF WorkOf, CreateWork
  <2> QED BY <1>1, <1>2, <1>4, <2>1 DEF Inserted, Announced
<1>5. CASE op[r].kind = "reschedule"
  <2>1. /\ Inserted(r, {op[r].id}) /\ Written(r, {new[r]})
        /\ tx[r][new[r]].from = op[r].id
        /\ txEvents[r] = {Announced(r, new[r]), EventOf(r)}
    BY <1>1, <1>3, <1>5 DEF WorkOf, RescheduleWork
  <2> QED BY <1>1, <1>2, <1>5, <2>1 DEF Inserted, Written, Announced, EventOf
<1>6. CASE op[r].kind \in {"transition", "cancel"}
  <2>1. Changed(r)
    BY <1>1, <1>3, <1>6 DEF WorkOf, ChangeWork
  <2> QED BY <1>1, <1>2, <1>6, <2>1 DEF Changed, Written, EventOf
<1>7. CASE op[r].kind \in {"remove", "update", "staffRemove"}
  BY <1>1, <1>3, <1>7 DEF WorkOf, PatchWork, StaffWork, NoWork
<1> QED BY <1>1, <1>4, <1>5, <1>6, <1>7

\* The tables change with COMMIT only.
LEMMA OnlyCommitPublishes ==
  ASSUME [Next]_vars, ~UNCHANGED tables
  PROVE  \E r \in Req : Commit(r)
BY DEF Next, Begin, Statement, TxLost, RedisPartlyDone, FindFails, FindAlreadyThere, Find,
   Validate, ValidateFails, Insert, InsertFails, ScheduleReminders, Link, LinkFails,
   SetStatus, SetStatusFails, Patch, CancelReminders, CancelRemindersFails, FindStaff,
   FindStaffFails, CountFuture, CountFutureFails, CancelAll, DeleteStaff, Fail,
   Tick, StartReminder, FinishReminder, RequeueReminder, vars

\* The outbox tells the status of every appointment, and of nothing that was
\* rolled back.
THEOREM AnnouncementsMatch == Spec => []EventsMatch
<1> DEFINE Told(a) ==
      \E e \in outbox : /\ e.to = appt[a].status
                        /\ \/ e.type \in {"created", "status"} /\ e.appt = a
                           \/ e.type = "rescheduled" /\ e.old = a
           Silent(a) == appt[a].status = "CANCELLED" /\ appt[a].reason = "staff_removed"
           Meant(e) == /\ appt[e.appt] # None
                       /\ e.type = "rescheduled" => appt[e.old] # None /\ appt[e.appt].from = e.old
           Named == \A e \in outbox : e.type = "rescheduled" => e.old \in Appt
<1>1. Init => EventsMatch /\ Named
  BY DEF Init, EventsMatch
<1>2. RInv /\ EventsMatch /\ Named /\ [Next]_vars => EventsMatch' /\ Named'
  <2> SUFFICES ASSUME RInv, EventsMatch, Named, [Next]_vars PROVE EventsMatch' /\ Named'
    OBVIOUS
  <2>1. CASE UNCHANGED tables
    BY <2>1 DEF tables, EventsMatch
  <2>2. ASSUME NEW r \in Req, Commit(r) PROVE EventsMatch' /\ Named'
    <3>1. outbox' = outbox \cup txEvents[r]
      BY <2>2 DEF Commit
    <3>2. ASSUME NEW a \in Appt, appt'[a] # None, ~Silent(a)' PROVE Told(a)'
      <4>1. CASE appt'[a] = appt[a]
        <5>1. Told(a)
          BY <3>2, <4>1 DEF EventsMatch
        <5> QED BY <3>1, <4>1, <5>1
      <4>2. CASE appt'[a] # appt[a] /\ Announced(r, a) \in txEvents[r]
        <5>1. appt'[a] = tx[r][a]
          BY <2>2, <4>2, CommitRow
        <5> QED BY <3>1, <4>2, <5>1 DEF Announced
      <4>3. CASE /\ appt'[a] # appt[a] /\ a = op[r].id /\ appt'[a].status = Target(op[r])
                 /\ op[r].kind \in {"transition", "cancel", "reschedule"}
                 /\ EventOf(r) \in txEvents[r]
        <5>1. CASE op[r].kind = "reschedule"
          BY <3>1, <4>3, <5>1 DEF EventOf, Target
        <5>2. CASE op[r].kind # "reschedule"
          BY <3>1, <4>3, <5>2 DEF EventOf
        <5> QED BY <5>1, <5>2
      <4>4. CASE /\ appt'[a] # appt[a] /\ appt[a] # None
                 /\ appt'[a].status = appt[a].status /\ appt'[a].reason = appt[a].reason
        <5>1. Told(a)
          BY <3>2, <4>4 DEF EventsMatch
        <5> QED BY <3>1, <4>4, <5>1
      <4> HIDE DEF Told
      <4> QED BY <2>2, <3>2, <4>1, <4>2, <4>3, <4>4, CommitRow
    <3>3. ASSUME NEW e \in outbox'
          PROVE  Meant(e)' /\ (e.type = "rescheduled" => e.old \in Appt)
      <4>1. CASE e \in txEvents[r]
        BY <2>2, <4>1, CommitEvent
      <4>2. CASE e \in outbox
        <5>1. /\ e.appt \in Appt /\ appt[e.appt] # None
              /\ e.type = "rescheduled" =>
                   e.old \in Appt /\ appt[e.old] # None /\ appt[e.appt].from = e.old
          BY <4>2 DEF EventsMatch, RInv, IInv, TypeOK, Event
        <5>2. \A b \in Appt : appt[b] # None => appt'[b] # None /\ appt'[b].from = appt[b].from
          BY <2>2, CommitRow
        <5> QED BY <5>1, <5>2
      <4> QED BY <3>1, <4>1, <4>2
    <3> QED BY <3>2, <3>3 DEF EventsMatch
  <2> QED BY <2>1, <2>2, OnlyCommitPublishes
<1> QED BY <1>1, <1>2, TransactionInvariant, PTL DEF Spec

\* cancelReminders is the last statement of cancel and of reschedule.
LEMMA LastIsUnremind ==
  ASSUME NEW kind \in {"cancel", "reschedule"}, NEW s \in StatementsOf(kind),
         After(kind, s) = "commit"
  PROVE  s \in {"unremind", "commit"}
<1>1. CASE kind = "cancel"
  <2>1. s \in {"find", "setStatus", "unremind", "commit"}
    BY <1>1 DEF StatementsOf
  <2> QED BY <1>1, <2>1 DEF After
<1>2. CASE kind = "reschedule"
  <2>1. s \in {"find", "validate", "insert", "remind", "link", "setStatus", "unremind", "commit"}
    BY <1>2 DEF StatementsOf
  <2> QED BY <1>2, <2>1 DEF After
<1> QED BY <1>1, <1>2

\* A reminder is queued for an uncommitted row, a cancelled row is committed:
\* once cancelReminders has run, the jobs stay away.
THEOREM CancelledIsQuiet == Spec => []CancelledNeverReminded
<1> DEFINE jobs == delayed \cup active
           QInv == RemindersGone /\ CancelledNeverReminded
<1>1. Init => QInv
  BY DEF Init, RemindersGone, CancelledNeverReminded
<1>2. RInv /\ QInv /\ [Next]_vars => QInv'
  <2> SUFFICES ASSUME RInv, QInv, [Next]_vars PROVE QInv'
    OBVIOUS
  <2> USE DEF RInv, IInv
  <2>1. ASSUME NEW a \in Appt, appt[a] # None, JobsOf(jobs, a) = {}
        PROVE  JobsOf(jobs, a)' = {}
    <3>1. ASSUME NEW r \in Req, At(r, "remind"), NEW j \in RemindersOf(new[r], NewRow(r), now)
          PROVE  j.appt # a
      <4>1. appt[new[r]] = None
        BY <3>1, OpenRequest, NoneAssumption DEF At, FreshOK, PcOK, RequestOK, StatementsOf
      <4>2. j.appt = new[r]
        BY <3>1 DEF RemindersOf
      <4> QED BY <2>1, <4>1, <4>2
    <3>2. CASE UNCHANGED redis
      BY <2>1, <3>2 DEF redis, JobsOf
    <3>3. ASSUME NEW r \in Req, ScheduleReminders(r) PROVE JobsOf(jobs, a)' = {}
      BY <2>1, <3>1, <3>3 DEF ScheduleReminders, JobsOf
    <3>4. ASSUME NEW r \in Req, CancelReminders(r) \/ CancelRemindersFails(r)
          PROVE  JobsOf(jobs, a)' = {}
      BY <2>1, <3>4 DEF CancelReminders, CancelRemindersFails, JobsOf
    <3>5. ASSUME NEW r \in Req, RedisPartlyDone(r) PROVE JobsOf(jobs, a)' = {}
      <4>1. active' = active /\ \A j \in delayed' \ delayed : j.appt # a
        BY <3>1, <3>5 DEF RedisPartlyDone
      <4> QED BY <2>1, <4>1 DEF JobsOf
    <3>6. CASE StartReminder \/ FinishReminder \/ RequeueReminder
      BY <2>1, <3>6 DEF StartReminder, FinishReminder, RequeueReminder, JobsOf
    <3> QED BY <3>2, <3>3, <3>4, <3>5, <3>6
         DEF Next, Begin, Statement, TxLost, Commit, FindFails, FindAlreadyThere, Find,
             Validate, ValidateFails, Insert, InsertFails, Link, LinkFails, SetStatus,
             SetStatusFails, Patch, FindStaff, FindStaffFails, CountFuture, CountFutureFails,
             CancelAll, DeleteStaff, Tick, vars
  <2>2. RemindersGone'
    <3> SUFFICES ASSUME NEW r \in Req, pc'[r] = "commit",
                        op'[r].kind \in {"cancel", "reschedule"}, tx'[r][op'[r].id] # None
                 PROVE  JobsOf(jobs', op'[r].id) = {}
      BY DEF RemindersGone
    <3> DEFINE a == op'[r].id
    <3>1. CASE CancelReminders(r)
      <4>1. op' = op /\ JobsOf(jobs', op[r].id) = {}
        BY <3>1 DEF CancelReminders, JobsOf
      <4> QED BY <4>1
    <3>2. CASE op'[r] = op[r] /\ pc[r] = "commit" /\ tx'[r] = tx[r]
      <4>1. a \in Appt /\ appt[a] # None
        BY <3>2, OpenRequest DEF WorkOK, Found
      <4>2. JobsOf(jobs, op[r].id) = {}
        BY <3>2 DEF RemindersGone
      <4>3. \A b \in Appt : appt[b] # None /\ JobsOf(jobs, b) = {} => JobsOf(jobs', b) = {}
        BY <2>1 DEF JobsOf
      <4> QED BY <3>2, <4>1, <4>2, <4>3
    <3>3. ASSUME NEW q \in Req, Statement(q) \/ TxLost(q) \/ RedisPartlyDone(q), ~CancelReminders(r)
          PROVE  op'[r] = op[r] /\ pc[r] = "commit" /\ tx'[r] = tx[r]
      <4>1. CASE q # r
        BY <3>3, <4>1, StatementIsLocal
      <4>2. CASE q = r
        <5>1. ~Reset(r)
          BY DEF Reset, TypeOK
        <5>2. ~Commit(r) /\ ~TxLost(r) /\ ~RedisPartlyDone(r)
          BY <5>1 DEF Commit, TxLost, RedisPartlyDone, Fail
        <5>3. \/ FindAlreadyThere(r) \/ Find(r) \/ Validate(r) \/ Insert(r) \/ ScheduleReminders(r)
              \/ Link(r) \/ SetStatus(r) \/ Patch(r) \/ FindStaff(r) \/ CountFuture(r)
              \/ CancelAll(r) \/ DeleteStaff(r)
          BY <3>3, <4>2, <5>1, <5>2 DEF Statement, FindFails, ValidateFails, InsertFails,
             LinkFails, SetStatusFails, CancelRemindersFails, FindStaffFails,
             CountFutureFails, Fail
        <5>4. op'[r] = op[r] /\ pc[r] # "idle"
          BY <5>3 DEF FindAlreadyThere, Find, Validate, Insert, ScheduleReminders, Link,
             SetStatus, Patch, FindStaff, CountFuture, CancelAll, DeleteStaff, At
        <5>5. pc[r] \in StatementsOf(op[r].kind) /\ op[r].kind \in {"cancel", "reschedule"}
          BY <5>4, OpenRequest
        <5>6. ~FindAlreadyThere(r)
          <6> SUFFICES ASSUME FindAlreadyThere(r) PROVE FALSE
            OBVIOUS
          <6>1. pc[r] = "find" /\ tx' = tx
            BY DEF FindAlreadyThere, At
          <6>2. NoWork(r) /\ op[r].id \in Appt
            BY <5>4, <5>5, <6>1, OpenRequest DEF WorkOK, WorkOf, ChangeWork, RescheduleWork
          <6> QED BY <5>4, <6>1, <6>2 DEF NoWork
        <5>7. pc'[r] = After(op[r].kind, pc[r])
          BY <5>3, <5>5, <5>6 DEF Find, Validate, Insert, ScheduleReminders, Link,
             SetStatus, Patch, FindStaff, CountFuture, CancelAll, DeleteStaff, Advance,
             At, TypeOK, StatementsOf
        <5>8. pc[r] \in {"unremind", "commit"}
          BY <5>5, <5>7, LastIsUnremind
        <5> QED BY <5>3, <5>8 DEF FindAlreadyThere, Find, Validate, Insert, ScheduleReminders,
             Link, SetStatus, Patch, FindStaff, CountFuture, CancelAll, DeleteStaff, At
      <4> QED BY <4>1, <4>2
    <3>4. ASSUME NEW q \in Req, Begin(q) PROVE op'[r] = op[r] /\ pc[r] = "commit" /\ tx'[r] = tx[r]
      <4>1. q # r
        BY <3>4, OpFields DEF Begin, First, TypeOK
      <4> QED BY <3>4, <4>1 DEF Begin, TypeOK
    <3>5. CASE Tick \/ StartReminder \/ FinishReminder \/ RequeueReminder \/ UNCHANGED vars
      BY <3>2, <3>5 DEF Tick, StartReminder, FinishReminder, RequeueReminder, vars, local
    <3> HIDE DEF a
    <3> QED BY <3>1, <3>2, <3>3, <3>4, <3>5 DEF Next
  <2>3. CancelledNeverReminded'
    <3> SUFFICES ASSUME NEW a \in Appt, appt'[a] # None, appt'[a].status = "CANCELLED",
                        appt'[a].reason # "staff_removed"
                 PROVE  JobsOf(jobs, a)' = {}
      BY DEF CancelledNeverReminded
    <3>1. CASE appt'[a] = appt[a]
      BY <2>1, <3>1 DEF CancelledNeverReminded
    <3>2. CASE appt'[a] # appt[a]
      <4>1. PICK r \in Req : Commit(r)
        BY <3>2, OnlyCommitPublishes DEF tables
      <4>2. UNCHANGED redis /\ pc[r] = "commit"
        BY <4>1 DEF Commit, At
      <4>3. CASE /\ op[r].kind \in {"transition", "cancel", "reschedule"} /\ a = op[r].id
                 /\ appt'[a].status = Target(op[r]) /\ op[r] \in Ops /\ appt'[a] = tx[r][a]
        <5>1. op[r].kind # "transition"
          BY <4>3, ConstantsAssumption DEF Op, Target
        <5>2. JobsOf(jobs, a) = {}
          BY <4>2, <4>3, <5>1 DEF RemindersGone
        <5> QED BY <4>2, <5>2 DEF redis, JobsOf
      <4>4. CASE appt[a] # None /\ appt'[a].status = appt[a].status /\ appt'[a].reason = appt[a].reason
        BY <2>1, <4>4 DEF CancelledNeverReminded
      <4> QED BY <3>2, <4>1, <4>3, <4>4, CommitRow
    <3> QED BY <3>1, <3>2
  <2> QED BY <2>2, <2>3
<1> QED BY <1>1, <1>2, TransactionInvariant, PTL DEF Spec

-----------------------------------------------------------------------------
\* One request at a time: what concurrency alone can break.

\* The state machine leaves no edge out of a terminal status.
LEMMA TerminalHasNoEdge ==
  ASSUME NEW s \in Status, NEW t, canTransition(s, t)
  PROVE  s \in {"PENDING", "CONFIRMED", "IN_PROGRESS"}
BY DEF canTransition, TRANSITIONS, Status

LEMMA NewRowStaff ==
  ASSUME NEW r \in Req
  PROVE  NewRow(r).staff = op[r].staff
BY Zenon DEF NewRow

\* What the tables show to the only request is what its COMMIT meets.
LEMMA AloneCommit ==
  ASSUME RInv, SerialInv, NEW r \in Req, Commit(r), NEW a \in Appt,
         appt[a] # None, appt'[a] # appt[a]
  PROVE  /\ appt'[a].staff = appt[a].staff /\ appt'[a].start = appt[a].start
         /\ appt'[a].from = appt[a].from
         /\ \/ appt'[a].status = appt[a].status
            \/ canTransition(appt[a].status, appt'[a].status)
            \/ isActiveStatus(appt[a].status) /\ appt'[a].status = "CANCELLED"
<1> USE DEF RInv, IInv
<1>1. /\ appt'[a] # None /\ appt'[a] = tx[r][a] /\ op[r] \in Ops /\ op[r] # None
      /\ appt'[a].from = appt[a].from /\ SlotOf(appt'[a]) = SlotOf(appt[a])
  BY CommitRow
<1>2. appt[a] \in Row /\ appt'[a] \in Row
  BY <1>1 DEF TypeOK
<1>3. appt'[a].staff = appt[a].staff /\ appt'[a].start = appt[a].start
  BY <1>1, <1>2, NoneAssumption DEF SlotOf, Row
<1>4. CASE /\ op[r].kind \in {"transition", "cancel", "reschedule"} /\ a = op[r].id
           /\ appt'[a].status = Target(op[r])
  <2>1. canTransition(appt[a].status, Target(op[r]))
    BY <1>1, <1>4 DEF Commit, At, SerialInv, StillLegal
  <2> QED BY <1>1, <1>3, <1>4, <2>1
<1>5. CASE appt'[a].status = appt[a].status
  BY <1>1, <1>3, <1>5
<1>6. CASE isActiveStatus(appt[a].status) /\ appt'[a].status = "CANCELLED"
  BY <1>1, <1>3, <1>6
<1> QED BY <1>4, <1>5, <1>6, CommitRow

\* The progress of the only request, statement by statement.
LEMMA AloneProgress ==
  ASSUME RInv, RInv', SerialInv, NEW r \in Req, Statement(r), ~Commit(r), ~Reset(r)
  PROVE  StillLegal(r)' /\ StillActive(r)' /\ StillFree(r)'
<1> USE DEF RInv, IInv
<1>1. /\ UNCHANGED <<now, appt, removed, op, new>>
      /\ \/ FindAlreadyThere(r) \/ Find(r) \/ Validate(r) \/ Insert(r) \/ ScheduleReminders(r)
         \/ Link(r) \/ SetStatus(r) \/ Patch(r) \/ CancelReminders(r) \/ FindStaff(r)
         \/ CountFuture(r) \/ CancelAll(r) \/ DeleteStaff(r)
  BY DEF Statement, FindFails, FindAlreadyThere, Find, Validate, ValidateFails, Insert,
     InsertFails, ScheduleReminders, Link, LinkFails, SetStatus, SetStatusFails, Patch,
     CancelReminders, CancelRemindersFails, FindStaff, FindStaffFails, CountFuture,
     CountFutureFails, CancelAll, DeleteStaff, Fail, tables
<1>2. /\ pc[r] \notin {"idle", "commit"} /\ op[r] \in Ops /\ op[r] # None
      /\ op[r].kind \in {"create", "transition", "cancel", "remove", "update",
                         "reschedule", "staffRemove"}
      /\ op[r].kind \in {"transition", "cancel", "remove", "update", "reschedule"}
           => op[r].id \in Appt
      /\ op[r].kind \in {"create", "reschedule"} => new[r] \in Appt
      /\ pc[r] \in StatementsOf(op[r].kind)
  <2>1. pc[r] \notin {"idle", "commit"}
    BY <1>1 DEF FindAlreadyThere, Find, Validate, Insert, ScheduleReminders, Link, SetStatus,
       Patch, CancelReminders, FindStaff, CountFuture, CancelAll, DeleteStaff, At
  <2> QED BY <2>1, OpenRequest
<1>3. StillLegal(r)'
  <2> SUFFICES ASSUME op[r].kind \in {"transition", "cancel", "reschedule"}, pc'[r] # "find"
               PROVE  \/ canTransition(appt[op[r].id].status, Target(op[r]))
                      \/ pc'[r] = "commit" /\ tx'[r][op[r].id] = None
    BY <1>1 DEF StillLegal, Target, canTransition
  <2>1. CASE pc[r] # "find"
    BY <1>2, <2>1 DEF SerialInv, StillLegal
  <2>2. CASE pc[r] = "find"
    <3>1. FindAlreadyThere(r) \/ Find(r)
      BY <1>1, <2>2 DEF FindAlreadyThere, Find, Validate, Insert, ScheduleReminders, Link,
         SetStatus, Patch, CancelReminders, FindStaff, CountFuture, CancelAll, DeleteStaff, At
    <3>2. NoWork(r)
      BY <1>2, <2>2 DEF WorkOK, WorkOf, ChangeWork, RescheduleWork
    <3>3. CASE FindAlreadyThere(r)
      BY <1>2, <3>2, <3>3 DEF FindAlreadyThere, TypeOK, NoWork
    <3>4. CASE Find(r)
      BY <1>2, <3>2, <3>4 DEF Find, Allowed, View, NoWork
    <3> QED BY <3>1, <3>3, <3>4
  <2> QED BY <2>1, <2>2
<1>4. StillActive(r)'
  <2> SUFFICES ASSUME op[r].kind \in {"create", "reschedule"}
               PROVE  /\ pc'[r] \in {"insert", "remind", "link", "setStatus", "unremind", "commit"}
                           => op[r].staff \notin removed
                      /\ tx'[r][new[r]] # None => tx'[r][new[r]].staff = op[r].staff
    BY <1>1 DEF StillActive, Inserts
  <2>1. pc'[r] \in {"insert", "remind", "link", "setStatus", "unremind", "commit"}
          => op[r].staff \notin removed
    <3>1. CASE pc[r] \in {"insert", "remind", "link", "setStatus", "unremind", "commit"}
      BY <1>2, <3>1 DEF SerialInv, StillActive, Inserts
    <3>2. CASE pc[r] = "find"
      <4>1. op[r].kind = "reschedule" /\ ~FindAlreadyThere(r)
        BY <1>2, <3>2 DEF StatementsOf, FindAlreadyThere, AlreadyThere
      <4>2. pc'[r] = "validate"
        BY <1>1, <3>2, <4>1 DEF Find, Validate, Insert, ScheduleReminders, Link,
           SetStatus, Patch, CancelReminders, FindStaff, CountFuture, CancelAll, DeleteStaff,
           At, Advance, After, TypeOK
      <4> QED BY <4>2
    <3>3. CASE pc[r] = "validate"
      BY <1>1, <3>3 DEF FindAlreadyThere, Find, Validate, Insert, ScheduleReminders, Link,
           SetStatus, Patch, CancelReminders, FindStaff, CountFuture, CancelAll, DeleteStaff,
           At, Acceptable
    <3>4. pc[r] \in {"insert", "remind", "link", "setStatus", "unremind", "commit",
                     "find", "validate"}
      BY <1>2 DEF StatementsOf
    <3> QED BY <3>1, <3>2, <3>3, <3>4
  <2>2. tx'[r][new[r]] # None => tx'[r][new[r]].staff = op[r].staff
    <3>1. tx[r][new[r]] # None => tx[r][new[r]].staff = op[r].staff
      BY <1>2 DEF SerialInv, StillActive, Inserts
    <3>2. CASE tx' = tx
      BY <3>1, <3>2
    <3>3. CASE Insert(r)
      <4>1. tx'[r][new[r]] = NewRow(r)
        BY <1>2, <3>3 DEF Insert, TypeOK
      <4> QED BY <4>1, NewRowStaff
    <3>4. CASE Link(r)
      <4>1. tx[r][new[r]] # None /\ tx[r][new[r]] \in Row
        BY <1>2, <3>4 DEF Link, At, PcOK, RequestOK, TypeOK
      <4>2. tx'[r][new[r]] = [tx[r][new[r]] EXCEPT !.from = op[r].id]
        BY <1>2, <3>4 DEF Link, TypeOK
      <4>3. tx'[r][new[r]].staff = tx[r][new[r]].staff
        BY <4>1, <4>2 DEF Row
      <4> QED BY <3>1, <4>1, <4>3
    <3>5. CASE SetStatus(r)
      <4>1. op[r].kind = "reschedule" /\ pc[r] = "setStatus"
        BY <1>2, <3>5 DEF SetStatus, At, StatementsOf
      <4>2. appt[op[r].id] # None /\ appt[new[r]] = None
        BY <1>2, <4>1, NoneAssumption DEF WorkOK, Found, FreshOK
      <4>3. tx'[r][new[r]] = tx[r][new[r]]
        BY <1>2, <3>5, <4>1, <4>2 DEF SetStatus, TypeOK
      <4> QED BY <3>1, <4>3
    <3>6. ~Patch(r) /\ ~CancelAll(r)
      BY <1>2 DEF Patch, CancelAll, At, StatementsOf
    <3> QED BY <1>1, <3>2, <3>3, <3>4, <3>5, <3>6
         DEF FindAlreadyThere, Find, Validate, ScheduleReminders, CancelReminders,
             FindStaff, CountFuture, DeleteStaff
  <2> QED BY <2>1, <2>2
<1>5. StillFree(r)'
  <2> SUFFICES ASSUME op[r].kind = "staffRemove", pc'[r] \in {"deleteStaff", "commit"},
                      NEW a \in Appt, View(r, a)' # None, View(r, a)'.staff = op[r].staff
               PROVE  ~(View(r, a)'.start >= now /\ isActiveStatus(View(r, a)'.status))
    BY <1>1 DEF StillFree, isActiveStatus
  <2>1. pc[r] \in {"findStaff", "count", "cancelAll", "deleteStaff"}
    BY <1>2 DEF StatementsOf
  <2>2. FindStaff(r) \/ CountFuture(r) \/ CancelAll(r) \/ DeleteStaff(r)
    BY <1>1, <2>1 DEF FindAlreadyThere, Find, Validate, Insert, ScheduleReminders, Link,
       SetStatus, Patch, CancelReminders, At
  <2>3. ~FindStaff(r)
    BY <1>2 DEF FindStaff, At, Advance, After, TypeOK
  <2>4. CASE CountFuture(r)
    <3>1. FutureAppointments(r, op[r].staff) = {} /\ View(r, a)' = View(r, a)
      BY <1>1, <1>2, <2>4 DEF CountFuture, At, Advance, After, TypeOK, View
    <3> QED BY <3>1 DEF FutureAppointments
  <2>5. CASE CancelAll(r)
    <3> DEFINE future == FutureAppointments(r, op[r].staff)
               cancelled == [View(r, a) EXCEPT !.status = "CANCELLED", !.reason = "staff_removed"]
    <3>1. tx'[r][a] = IF a \in future THEN cancelled ELSE tx[r][a]
      BY <2>5 DEF CancelAll, TypeOK
    <3>2. CASE a \in future
      <4>1. View(r, a) # None /\ cancelled \in Row /\ cancelled.status = "CANCELLED"
        <5>1. View(r, a) # None
          BY <3>2 DEF FutureAppointments
        <5>2. View(r, a) \in Row
          BY <5>1 DEF View, TypeOK
        <5>3. cancelled \in Row
          BY <3>2, <5>2, CancelledRowType
        <5>4. cancelled.status = "CANCELLED"
          BY <5>2 DEF Row
        <5> QED BY <5>1, <5>3, <5>4
      <4>2. View(r, a)' = cancelled
        BY <3>1, <3>2, <4>1, NoneAssumption DEF View
      <4> QED BY <4>1, <4>2 DEF isActiveStatus
    <3>3. CASE a \notin future
      <4>1. View(r, a)' = View(r, a)
        BY <1>1, <3>1, <3>3 DEF View
      <4> QED BY <3>3, <4>1 DEF FutureAppointments
    <3> QED BY <3>2, <3>3
  <2>6. CASE DeleteStaff(r)
    <3>1. pc[r] = "deleteStaff" /\ View(r, a)' = View(r, a)
      BY <1>1, <2>6 DEF DeleteStaff, At, View
    <3> QED BY <1>2, <3>1 DEF SerialInv, StillFree
  <2> QED BY <2>2, <2>3, <2>4, <2>5, <2>6
<1> QED BY <1>3, <1>4, <1>5

\* COMMIT of the only request.
LEMMA AloneCommitKeeps ==
  ASSUME RInv, RInv', SerialInv, NEW r \in Req, Commit(r)
  PROVE  /\ \A a \in Appt : appt'[a] # None /\ appt'[a].from # None
                              => appt'[appt'[a].from] # None
         /\ RescheduledIsReplaced' /\ RemovedStaffHasNoFuture'
<1> USE DEF RInv, IInv
<1>1. ASSUME NEW a \in Appt, appt[a] # None
      PROVE  /\ appt'[a] # None /\ appt'[a].staff = appt[a].staff
             /\ appt'[a].start = appt[a].start /\ appt'[a].from = appt[a].from
             /\ appt[a].status \in Status
             /\ appt[a].status = "CANCELLED" => appt'[a].status = "CANCELLED"
             /\ isActiveStatus(appt'[a].status) => isActiveStatus(appt[a].status)
  <2>1. appt[a].status \in Status
    BY <1>1 DEF TypeOK, Row
  <2> QED BY <1>1, <2>1, AloneCommit, CommitRow, TerminalHasNoEdge DEF isActiveStatus
<1>2. ASSUME NEW a \in Appt, appt[a] = None, appt'[a] # None
      PROVE  /\ op[r].kind \in {"create", "reschedule"} /\ a = new[r]
             /\ op[r].staff \notin removed /\ appt'[a].staff = op[r].staff /\ txStaff[r] = {}
             /\ appt'[a].from # None =>
                  /\ appt'[a].from \in Appt /\ appt[appt'[a].from] # None
                  /\ appt'[appt'[a].from].status = "CANCELLED"
  <2>1. /\ op[r].kind \in {"create", "reschedule"} /\ a = new[r] /\ appt'[a] = tx[r][a]
        /\ op[r] \in Ops /\ op[r] # None
        /\ appt'[a].from = IF op[r].kind = "create" THEN None ELSE op[r].id
    BY <1>2, CommitRow
  <2>2. op[r].staff \notin removed /\ appt'[a].staff = op[r].staff
    BY <1>2, <2>1 DEF SerialInv, StillActive, Inserts, Commit, At
  <2>3. CASE op[r].kind = "create"
    BY <1>2, <2>1, <2>2, <2>3 DEF WorkOK, WorkOf, CreateWork, Inserted, NoWork
  <2>4. CASE op[r].kind = "reschedule"
    <3>1. pc[r] = "commit" /\ op[r].id \in Appt
      BY <2>1, <2>4, OpFields DEF Commit, At
    <3>2. appt[op[r].id] # None /\ Written(r, {new[r]}) /\ txStaff[r] = {}
      BY <2>1, <2>4, <3>1 DEF WorkOK, WorkOf, RescheduleWork, Found, Written
    <3>3. appt'[op[r].id] = tx[r][op[r].id]
      BY <3>1, <3>2 DEF Commit, View, Written
    <3>4. appt'[op[r].id].status = "CANCELLED"
      BY <2>4, <3>2, <3>3 DEF Written, Target
    <3> QED BY <2>1, <2>2, <2>4, <3>1, <3>2, <3>4
  <2> QED BY <2>1, <2>3, <2>4
<1>3. ASSUME NEW a \in Appt, appt'[a] # None, appt'[a].from # None
      PROVE  appt'[appt'[a].from] # None /\ appt'[appt'[a].from].status = "CANCELLED"
  <2>1. CASE appt[a] = None
    BY <1>1, <1>2, <1>3, <2>1
  <2>2. CASE appt[a] # None
    <3>1. appt[a].from \in Appt /\ appt'[a].from = appt[a].from
      BY <1>1, <1>3, <2>2 DEF TypeOK, Row
    <3>2. appt[appt[a].from] # None /\ appt[appt[a].from].status = "CANCELLED"
      BY <1>3, <2>2, <3>1 DEF SerialInv, RescheduledIsReplaced
    <3> QED BY <1>1, <3>1, <3>2
  <2> QED BY <2>1, <2>2
<1>4. ASSUME NEW a \in Appt, appt'[a] # None, appt'[a].staff \in removed',
             appt'[a].start >= now', isActiveStatus(appt'[a].status)
      PROVE  FALSE
  <2>1. now' = now /\ removed' = removed \cup txStaff[r] /\ appt'[a] = View(r, a) /\ pc[r] = "commit"
    BY DEF Commit, At
  <2>2. CASE appt[a] = None
    BY <1>2, <1>4, <2>1, <2>2
  <2>3. CASE appt[a] # None /\ appt[a].staff \in removed
    BY <1>1, <1>4, <2>1, <2>3 DEF SerialInv, RemovedStaffHasNoFuture
  <2>4. CASE appt[a] # None /\ appt[a].staff \in txStaff[r]
    <3>1. op[r] # None /\ op[r].kind = "staffRemove" /\ txStaff[r] = {op[r].staff}
      <4>1. /\ op[r] # None
            /\ op[r].kind \in {"create", "transition", "cancel", "remove", "update",
                               "reschedule", "staffRemove"}
            /\ WorkOf(r)
        BY <2>1, OpenRequest DEF WorkOK
      <4>2. CASE op[r].kind = "staffRemove"
        BY <2>1, <4>1, <4>2 DEF WorkOf, StaffWork
      <4>3. CASE op[r].kind \in {"create", "reschedule"}
        BY <2>1, <2>4, <4>1, <4>3 DEF WorkOf, CreateWork, RescheduleWork, Inserted
      <4>4. CASE op[r].kind \in {"transition", "cancel", "remove", "update"}
        BY <2>1, <2>4, <4>1, <4>4 DEF WorkOf, ChangeWork, PatchWork, Changed, Written, NoWork
      <4> QED BY <4>1, <4>2, <4>3, <4>4
    <3> QED BY <1>1, <1>4, <2>1, <2>4, <3>1 DEF SerialInv, StillFree
  <2> QED BY <1>1, <1>4, <2>1, <2>2, <2>3, <2>4
<1> QED BY <1>3, <1>4 DEF RescheduledIsReplaced, RemovedStaffHasNoFuture

\* Between two statements of the only request nothing it read goes stale.
LEMMA AloneInvariant ==
  ASSUME \A q, r \in Req : q = r
  PROVE  Spec => []SerialInv
<1>1. Init => SerialInv
  BY DEF Init, SerialInv, StillLegal, StillActive, StillFree, RescheduledIsReplaced,
         RemovedStaffHasNoFuture
<1>2. RInv /\ RInv' /\ SerialInv /\ [Next]_vars => SerialInv'
  <2> SUFFICES ASSUME RInv, RInv', SerialInv, [Next]_vars PROVE SerialInv'
    OBVIOUS
  <2> USE DEF RInv, IInv
  <2>1. ASSUME NEW r \in Req, Reset(r) PROVE StillLegal(r)' /\ StillActive(r)' /\ StillFree(r)'
    BY <2>1 DEF Reset, TypeOK, StillLegal, StillActive, StillFree
  <2>2. ASSUME appt' = appt, removed' = removed, now' = now \/ now' = now + 1
        PROVE  /\ \A a \in Appt : appt'[a] # None /\ appt'[a].from # None
                                    => appt'[appt'[a].from] # None
               /\ RescheduledIsReplaced' /\ RemovedStaffHasNoFuture'
    <3>1. \A a \in Appt : appt[a] # None => appt[a].start \in Nat
      BY DEF TypeOK, Row
    <3> QED BY <2>2, <3>1 DEF SerialInv, RescheduledIsReplaced, RemovedStaffHasNoFuture, TypeOK
  <2>3. ASSUME NEW r \in Req, Commit(r) PROVE SerialInv'
    BY <2>1, <2>3, AloneCommitKeeps DEF SerialInv, Commit
  <2>4. ASSUME NEW r \in Req, Statement(r) \/ TxLost(r) \/ RedisPartlyDone(r), ~Commit(r)
        PROVE  SerialInv'
    <3>1. UNCHANGED <<appt, removed, now>>
      BY <2>4 DEF Statement, TxLost, RedisPartlyDone, FindFails, FindAlreadyThere, Find,
         Validate, ValidateFails, Insert, InsertFails, ScheduleReminders, Link, LinkFails,
         SetStatus, SetStatusFails, Patch, CancelReminders, CancelRemindersFails, FindStaff,
         FindStaffFails, CountFuture, CountFutureFails, CancelAll, DeleteStaff, Fail, tables
    <3>2. StillLegal(r)' /\ StillActive(r)' /\ StillFree(r)'
      BY <2>1, <2>4, AloneProgress DEF TxLost, RedisPartlyDone, Fail
    <3> QED BY <2>2, <3>1, <3>2 DEF SerialInv
  <2>5. ASSUME NEW r \in Req, Begin(r) PROVE SerialInv'
    <3>1. /\ op[r] = None /\ op'[r] \in Ops /\ pc'[r] = First(op'[r].kind)
          /\ UNCHANGED <<appt, removed, now, tx, txStaff>>
      BY <2>5 DEF Begin, TypeOK, tables
    <3>2. NoWork(r)
      BY <3>1 DEF WorkOK, WorkOf
    <3>3. /\ op'[r].kind \in {"create", "transition", "cancel", "remove", "update",
                              "reschedule", "staffRemove"}
          /\ pc'[r] \in {"validate", "find", "findStaff"}
          /\ op'[r].kind \in {"transition", "cancel", "reschedule"} => pc'[r] = "find"
      BY <3>1, OpFields DEF First
    <3>4. op'[r] # None /\ (Inserts(op'[r]) => new'[r] \in Appt)
      <4>1. pc'[r] # "idle"
        BY <3>3
      <4> QED BY <4>1 DEF PcOK, RequestOK
    <3>5. StillLegal(r)' /\ StillActive(r)' /\ StillFree(r)'
      BY <3>1, <3>2, <3>3, <3>4 DEF StillLegal, StillActive, StillFree, NoWork
    <3> QED BY <2>2, <3>1, <3>5 DEF SerialInv
  <2>6. CASE Tick \/ StartReminder \/ FinishReminder \/ RequeueReminder \/ UNCHANGED vars
    <3>1. /\ UNCHANGED <<appt, removed, op, pc, new, tx, txStaff>>
          /\ now' = now \/ now' = now + 1
      BY <2>6 DEF Tick, StartReminder, FinishReminder, RequeueReminder, vars, tables, local
    <3>2. ASSUME NEW r \in Req PROVE StillLegal(r)' /\ StillActive(r)' /\ StillFree(r)'
      <4>1. ASSUME NEW a \in Appt
            PROVE  View(r, a)' = View(r, a) /\ (View(r, a) # None => View(r, a).start \in Nat)
        <5>1. View(r, a)' = View(r, a)
          BY <3>1 DEF View
        <5>2. View(r, a) # None => View(r, a) \in Row
          BY DEF View, TypeOK
        <5> QED BY <5>1, <5>2 DEF Row
      <4>2. StillFree(r)'
        BY <3>1, <4>1 DEF SerialInv, StillFree, TypeOK
      <4> QED BY <3>1, <4>2 DEF SerialInv, StillLegal, StillActive
    <3> QED BY <2>2, <3>1, <3>2 DEF SerialInv
  <2> QED BY <2>3, <2>4, <2>5, <2>6 DEF Next
<1> QED BY <1>1, <1>2, TransactionInvariant, PTL DEF Spec

\* Only overlapping requests bring a rescheduled appointment back.
THEOREM AloneRescheduleReplaces ==
  ASSUME \A q, r \in Req : q = r
  PROVE  Spec => []RescheduledIsReplaced
<1>1. SerialInv => RescheduledIsReplaced
  BY DEF SerialInv
<1> QED BY <1>1, AloneInvariant, PTL

\* Only overlapping requests leave a removed staff member with appointments.
THEOREM AloneRemovalIsClean ==
  ASSUME \A q, r \in Req : q = r
  PROVE  Spec => []RemovedStaffHasNoFuture
<1>1. SerialInv => RemovedStaffHasNoFuture
  BY DEF SerialInv
<1> QED BY <1>1, AloneInvariant, PTL

\* Only overlapping requests change a terminal status.
THEOREM AloneTerminalIsFinal ==
  ASSUME \A q, r \in Req : q = r
  PROVE  Spec => TerminalIsFinal
<1> DEFINE Keeps(a) == appt[a] # None /\ appt[a].status \in Terminal
                         => appt'[a].status = appt[a].status
<1>1. RInv /\ SerialInv /\ [Next]_vars => [\A a \in Appt : Keeps(a)]_vars
  <2> SUFFICES ASSUME RInv, SerialInv, [Next]_vars, NEW a \in Appt,
                      appt[a] # None, appt[a].status \in Terminal, appt'[a] # appt[a]
               PROVE  appt'[a].status = appt[a].status
    OBVIOUS
  <2>1. PICK r \in Req : Commit(r)
    BY OnlyCommitPublishes DEF tables
  <2>2. appt[a].status \in Status
    BY DEF RInv, IInv, TypeOK, Row
  <2>3. CASE appt'[a].status = appt[a].status
    BY <2>3
  <2>4. CASE canTransition(appt[a].status, appt'[a].status)
    BY <2>2, <2>4, TerminalHasNoEdge DEF Terminal
  <2>5. ~isActiveStatus(appt[a].status)
    BY DEF Terminal, isActiveStatus
  <2> QED BY <2>1, <2>3, <2>4, <2>5, AloneCommit
<1> QED BY <1>1, AloneInvariant, TransactionInvariant, PTL DEF Spec, TerminalIsFinal, Keeps
=============================================================================
