------------------------------- MODULE Schedule -------------------------------
(***************************************************************************)
(* The tables a tenant edits as a whole or row by row: BusinessHour,       *)
(* StaffService, StaffAvailability, Holiday and BlockedTime.  The services *)
(* share four shapes: replace (deleteMany then createMany), insert, bulk   *)
(* insert with skipDuplicates, rekey (update) and remove.                  *)
(*                                                                         *)
(* A DELETE takes its snapshot when it starts.  When it meets rows another *)
(* open transaction is deleting it waits, and then skips those that are    *)
(* gone; rows committed while it waited stay invisible to it.              *)
(***************************************************************************)
EXTENDS RequestSlots, Integers, Sequences

CONSTANTS
  Edit,         \* the requests clients send, each once
  Staff, Service, Date, Day,
  Unique,       \* the tables with a unique index on scope and key
  Parent,       \* staff and services, which are soft-deleted
  SchedOps,     \* the operations tenants send
  FirstRows     \* rows committed before

\* A row is [table, scope, id, key]: scope is the staff or None, key the
\* service, date or weekly interval and id, <<writer, key>>, tells
\* which request inserted it.
Writer(x) == x.id[1]

WeekHours == [day: Day, start: Int, end: Int, isOpen: BOOLEAN]
Hours == [start: Int, end: Int]
SchedKey == WeekHours \cup Hours \cup Service \cup Date
SchedRow ==
       [table: {"businessHour"}, scope: {None}, id: (Edit \cup {None}) \X SchedKey, key: WeekHours]
  \cup [table: {"staffAvailability", "staffService", "blockedTime", "holiday"},
        scope: Staff \cup {None}, id: (Edit \cup {None}) \X SchedKey, key: SchedKey]

\* luxon.util: intervals touch without overlapping.
intervalsOverlap(a, b) == a.start < b.end /\ b.start < a.end
\* Open hours of one day that overlap.
SameHours(k, l) == k.isOpen /\ l.isOpen /\ k.day = l.day /\ intervalsOverlap(k, l)

\* The bodies and path parameters: items lists the keys written, or the key of
\* the row removed; id is the row named in the path.
ReplaceDto ==
       [kind: {"replace"}, table: {"businessHour"}, scope: {None},
        items: Seq(WeekHours), id: {None}]
  \cup [kind: {"replace"}, table: {"staffAvailability"}, scope: Staff,
        items: Seq(WeekHours), id: {None}]
  \cup [kind: {"replace"}, table: {"staffService"}, scope: Staff,
        items: Seq(Service), id: {None}]
EntryDto ==
       [kind: {"insert", "remove"}, table: {"staffService"}, scope: Staff,
        items: [1..1 -> Service], id: {None}]
  \cup [kind: {"insert"}, table: {"blockedTime"}, scope: Staff \cup {None},
        items: [1..1 -> Hours], id: {None}]
  \cup [kind: {"insert", "bulk"}, table: {"holiday"}, scope: {None},
        items: Seq(Date), id: {None}]
  \cup [kind: {"rekey"}, table: {"holiday"}, scope: {None},
        items: [1..1 -> Date], id: (Edit \cup {None}) \X SchedKey]
  \cup [kind: {"remove"}, table: {"holiday", "blockedTime"}, scope: Staff \cup {None},
        items: {<<>>}, id: (Edit \cup {None}) \X SchedKey]

VARIABLES
  rows,         \* committed rows
  gone,         \* soft-deleted staff and services
  schedOp, schedPc,
  target,       \* ids in the snapshot of a request's DELETE or lookup
  deleting,     \* rows its transaction deleted
  inserting,    \* rows its transaction inserted
  committed,    \* requests that have committed
  before        \* those that had committed when its DELETE took its snapshot

schedVars == <<rows, gone, schedOp, schedPc, target, deleting, inserting, committed, before>>

\* The hours stored before went through replaceAll: no two overlap.
ASSUME SchedAssumption ==
  /\ None \notin Edit \cup SchedOps
  /\ SchedOps \subseteq ReplaceDto \cup EntryDto
  /\ Parent \subseteq Staff \cup Service
  /\ FirstRows \subseteq SchedRow
  /\ \A x \in FirstRows : Writer(x) = None
  /\ \A x, y \in FirstRows :
       x.table = "businessHour" /\ y.table = "businessHour" /\ x # y
         => ~SameHours(x.key, y.key)

SchedInit ==
  /\ rows = FirstRows
  /\ gone = {}
  /\ schedOp = [r \in Edit |-> None]
  /\ schedPc = [r \in Edit |-> "new"]
  /\ target = [r \in Edit |-> {}]
  /\ deleting = [r \in Edit |-> {}]
  /\ inserting = [r \in Edit |-> {}]
  /\ committed = {None}
  /\ before = [r \in Edit |-> {}]

-----------------------------------------------------------------------------
\* What the services check before they write.

isOrderedSameDay(k) == k.start < k.end

\* Mutated form of ValidWeek: only neighbours in the payload are compared.
ValidWeekNeighbours(items) ==
  /\ \A i \in DOMAIN items : items[i].isOpen => isOrderedSameDay(items[i])
  /\ \A i, j \in DOMAIN items :
       i < j /\ items[i].day = items[j].day =>
         /\ items[i].isOpen /\ items[j].isOpen
         /\ j = i + 1 => ~intervalsOverlap(items[i], items[j])

\* BusinessHoursService.replaceAll: ordered, a closed marker stands alone, no
\* two open intervals of a day overlap.
ValidWeek(items) ==
  /\ \A i \in DOMAIN items : items[i].isOpen => isOrderedSameDay(items[i])
  /\ \A i, j \in DOMAIN items :
       i < j /\ items[i].day = items[j].day =>
         /\ items[i].isOpen /\ items[j].isOpen
         /\ ~intervalsOverlap(items[i], items[j])

\* StaffService.replaceAvailability: one ordered interval per day.
ValidAvailability(items) ==
  /\ \A i, j \in DOMAIN items : i < j => items[i].day # items[j].day
  /\ \A i \in DOMAIN items : isOrderedSameDay(items[i])

\* findOne of the staff, assertServiceExists or the lookup of all services,
\* and the validation of the payload.
Accepts(o) ==
  /\ o.scope \notin gone
  /\ o.kind \in {"insert", "replace"} /\ o.table = "staffService"
       => \A i \in DOMAIN o.items : o.items[i] \notin gone
  /\ o.kind = "replace" /\ o.table = "businessHour" => ValidWeek(o.items)
  /\ o.kind = "replace" /\ o.table = "staffAvailability" => ValidAvailability(o.items)
  /\ o.kind = "insert" /\ o.table = "blockedTime"
       => \A i \in DOMAIN o.items : isOrderedSameDay(o.items[i])

-----------------------------------------------------------------------------
SchedAt(r, s) == schedPc[r] = s
SchedGoto(r, s) == schedPc' = [schedPc EXCEPT ![r] = s]

Items(o) == {o.items[i] : i \in DOMAIN o.items}
RowOf(r, k) ==
  [table |-> schedOp[r].table, scope |-> schedOp[r].scope, id |-> <<r, k>>, key |-> k]

SchedEnd(r) ==
  /\ SchedGoto(r, "done")
  /\ target' = [target EXCEPT ![r] = {}]
  /\ deleting' = [deleting EXCEPT ![r] = {}]
  /\ inserting' = [inserting EXCEPT ![r] = {}]

SchedFail(r) == SchedEnd(r) /\ UNCHANGED <<rows, gone, schedOp, committed, before>>

\* The request, its lookups and its validation.
SchedBegin(r) ==
  /\ SchedAt(r, "new")
  /\ \E o \in SchedOps :
       /\ Accepts(o)
       /\ schedOp' = [schedOp EXCEPT ![r] = o]
       /\ SchedGoto(r, CASE o.kind \in {"replace", "remove"} -> "delete"
                         [] o.kind = "rekey"                 -> "find"
                         [] OTHER                            -> "insert")
  /\ UNCHANGED <<rows, gone, target, deleting, inserting, committed, before>>

\* Mutated form of Matches: replace deletes only the rows it writes again.
MatchesPayload(o, x) ==
  /\ x.table = o.table
  /\ IF o.id # None THEN x.id = o.id ELSE x.scope = o.scope /\ x.key \in Items(o)

\* where: {} or { staffId } in a replace, { id }, or { staffId, serviceId }.
Matches(o, x) ==
  /\ x.table = o.table
  /\ IF o.id # None THEN x.id = o.id
     ELSE x.scope = o.scope /\ (o.kind = "replace" \/ x.key \in Items(o))

\* The DELETE starts.
DeleteStarts(r) ==
  /\ SchedAt(r, "delete")
  /\ target' = [target EXCEPT ![r] = {x.id : x \in {y \in rows : Matches(schedOp[r], y)}}]
  /\ before' = [before EXCEPT ![r] = committed]
  /\ SchedGoto(r, "deleting")
  /\ UNCHANGED <<rows, gone, schedOp, deleting, inserting, committed>>

Targeted(r, x) == x.table = schedOp[r].table /\ x.id \in target[r]
HeldByOther(r) == \E q \in Edit \ {r} : \E x \in deleting[q] : Targeted(r, x)

\* The versions of its target rows that are still there.
Remaining(r) == {x \in rows : Targeted(r, x)}

\* It has every row lock.  remove answers 404 when it deleted nothing.
DeleteEnds(r) ==
  /\ SchedAt(r, "deleting")
  /\ ~HeldByOther(r)
  /\ IF schedOp[r].kind = "remove" /\ Remaining(r) = {}
     THEN SchedFail(r)
     ELSE /\ deleting' = [deleting EXCEPT ![r] = Remaining(r)]
          /\ SchedGoto(r, IF schedOp[r].kind = "replace" /\ schedOp[r].items # <<>>
                          THEN "insert" ELSE "commit")
          /\ UNCHANGED <<rows, gone, schedOp, target, inserting, committed, before>>

\* Unique indexes: (staffId, serviceId), (staffId, dayOfWeek), (date).
IndexKey(x) == IF x.table = "staffAvailability" THEN x.key.day ELSE x.key
SameEntry(x, y) ==
  /\ x.table \in Unique /\ x.table = y.table /\ x.scope = y.scope
  /\ IndexKey(x) = IndexKey(y)

Taken(r, x) == \E y \in rows \ deleting[r] : SameEntry(x, y)

EntryWaits(r, x) ==
  \E q \in Edit \ {r} : \E y \in inserting[q] \cup deleting[q] : SameEntry(x, y)

\* createMany or create of the payload.  skipDuplicates drops taken keys;
\* otherwise a taken key, or one listed twice, is a unique violation.
InsertRows(r) ==
  LET o == schedOp[r]
      new == {RowOf(r, k) : k \in Items(o)}
      clash == \/ \E x \in new : Taken(r, x)
               \/ o.table \in Unique /\ \E i, j \in DOMAIN o.items :
                                          i < j /\ o.items[i] = o.items[j]
  IN /\ SchedAt(r, "insert")
     /\ \A x \in new : ~EntryWaits(r, x)
     /\ IF clash /\ o.kind # "bulk"
        THEN SchedFail(r)
        ELSE /\ inserting' = [inserting EXCEPT ![r] = {x \in new : ~Taken(r, x)}]
             /\ SchedGoto(r, "commit")
             /\ UNCHANGED <<rows, gone, schedOp, target, deleting, committed, before>>

\* HolidaysService.update: findFirst by id, 404 when there is none.
FindRow(r) ==
  /\ SchedAt(r, "find")
  /\ IF ~\E x \in rows : Matches(schedOp[r], x) THEN SchedFail(r)
     ELSE /\ target' = [target EXCEPT ![r] = {schedOp[r].id}]
          /\ SchedGoto(r, "rekey")
          /\ UNCHANGED <<rows, gone, schedOp, deleting, inserting, committed, before>>

\* UPDATE by id: the row may be gone by now, the new date may be taken.
Rekey(r) ==
  LET new == {[x EXCEPT !.key = schedOp[r].items[1]] : x \in Remaining(r)}
  IN /\ SchedAt(r, "rekey")
     /\ ~HeldByOther(r)
     /\ \A x \in new : ~EntryWaits(r, x)
     /\ IF new = {} \/ \E x \in new, y \in rows \ Remaining(r) : SameEntry(x, y)
        THEN SchedFail(r)
        ELSE /\ deleting' = [deleting EXCEPT ![r] = Remaining(r)]
             /\ inserting' = [inserting EXCEPT ![r] = new]
             /\ SchedGoto(r, "commit")
             /\ UNCHANGED <<rows, gone, schedOp, target, committed, before>>

SchedCommit(r) ==
  /\ SchedAt(r, "commit")
  /\ rows' = (rows \ deleting[r]) \cup inserting[r]
  /\ committed' = committed \cup {r}
  /\ SchedEnd(r)
  /\ UNCHANGED <<gone, schedOp, before>>

\* Timeout, deadlock victim, lost connection or crash.
SchedTxLost(r) == schedPc[r] \notin {"new", "done"} /\ SchedFail(r)

\* ServicesService.remove or StaffService.remove commits: the rows that refer
\* to the parent stay.
SoftDelete(p) ==
  /\ p \notin gone
  /\ gone' = gone \cup {p}
  /\ UNCHANGED <<rows, schedOp, schedPc, target, deleting, inserting, committed, before>>

SchedNext ==
  \/ \E r \in Edit : \/ SchedBegin(r) \/ DeleteStarts(r) \/ DeleteEnds(r)
                    \/ InsertRows(r) \/ FindRow(r) \/ Rekey(r)
                    \/ SchedCommit(r) \/ SchedTxLost(r)
  \/ \E p \in Parent : SoftDelete(p)

SchedSpec == SchedInit /\ [][SchedNext]_schedVars

-----------------------------------------------------------------------------
\* Properties.

\* A committed replace removed every row of its scope that had been committed
\* when its DELETE started: what survives it was written by a request that
\* raced it or came later.
SupersededGone ==
  \A q \in committed \ {None} :
    schedOp[q].kind = "replace" =>
      \A x \in rows :
        x.table = schedOp[q].table /\ x.scope = schedOp[q].scope
          => Writer(x) \notin before[q]

\* Open intervals of one day overlap only when two replaceAll calls raced and
\* neither saw the other: never within a payload, never across two calls that
\* ran one after the other.
OverlapOnlyByRace ==
  \A x, y \in rows :
    /\ x.table = "businessHour" /\ y.table = "businessHour" /\ x # y
    /\ SameHours(x.key, y.key)
    => /\ Writer(x) # Writer(y)
       /\ Writer(x) \notin before[Writer(y)] /\ Writer(y) \notin before[Writer(x)]

-----------------------------------------------------------------------------
\* The inductive invariant.

SchedPcs(o) ==
  {"done"} \cup
  CASE o.kind = "replace" -> {"delete", "deleting", "insert", "commit"}
    [] o.kind = "remove"  -> {"delete", "deleting", "commit"}
    [] o.kind = "rekey"   -> {"find", "rekey", "commit"}
    [] OTHER              -> {"insert", "commit"}

SchedTypeOK ==
  /\ rows \subseteq SchedRow
  /\ gone \subseteq Parent
  /\ schedOp \in [Edit -> SchedOps \cup {None}]
  /\ schedPc \in [Edit -> {"new", "delete", "deleting", "insert", "find", "rekey",
                         "commit", "done"}]
  /\ target \in [Edit -> SUBSET ((Edit \cup {None}) \X SchedKey)]
  /\ deleting \in [Edit -> SUBSET SchedRow]
  /\ inserting \in [Edit -> SUBSET SchedRow]
  /\ committed \subseteq Edit \cup {None}
  /\ before \in [Edit -> SUBSET (Edit \cup {None})]

\* A request's progress, and what it holds at each point.
ProgressOK(r) ==
  /\ schedPc[r] = "new" => r \notin committed
  /\ schedPc[r] # "new" => schedOp[r] # None /\ schedPc[r] \in SchedPcs(schedOp[r])
  /\ r \in committed => schedPc[r] = "done"
  /\ schedOp[r] # None /\ schedOp[r].kind = "replace" /\ schedOp[r].table = "businessHour"
       => ValidWeek(schedOp[r].items)
  /\ deleting[r] # {} => schedPc[r] \in {"insert", "commit"}
  /\ inserting[r] # {} => schedPc[r] = "commit"
  /\ \A x \in deleting[r] : x \in rows /\ x.table = schedOp[r].table

\* What a transaction inserts is new, or a row it holds under another key.
InsertedOK(r) ==
  \A x \in inserting[r] :
    IF schedOp[r].kind = "rekey"
    THEN \E y \in deleting[r] : x.table = y.table /\ x.scope = y.scope /\ x.id = y.id
    ELSE \E k \in Items(schedOp[r]) : x = RowOf(r, k)

InScope(r, x) == x.table = schedOp[r].table /\ x.scope = schedOp[r].scope

\* From the start of its DELETE a replace accounts for every row of its scope
\* that was committed then: it is to be deleted, is being deleted, or is gone.
SnapshotOK(r) ==
  /\ before[r] \subseteq committed
  /\ schedOp[r] # None /\ schedOp[r].kind = "replace" =>
       /\ schedPc[r] \in {"deleting", "insert", "commit"} \/ r \in committed => None \in before[r]
       /\ \A x \in rows :
            InScope(r, x) /\ Writer(x) \in before[r] =>
              /\ r \notin committed
              /\ schedPc[r] = "deleting" => x.id \in target[r]
              /\ schedPc[r] \in {"insert", "commit"} => x \in deleting[r]

SchedRequestOK(r) == ProgressOK(r) /\ InsertedOK(r) /\ SnapshotOK(r)

\* No row is locked by two transactions.
RowLocksOK ==
  \A q, r \in Edit : q # r =>
    \A x \in deleting[q], y \in deleting[r] : ~(x.table = y.table /\ x.id = y.id)

\* Every opening hour comes from the first rows or from one committed replaceAll.
HoursOK ==
  \A x \in rows : x.table = "businessHour" =>
    \/ x \in FirstRows
    \/ \E r \in committed \ {None} :
         /\ schedOp[r].kind = "replace" /\ schedOp[r].table = "businessHour"
         /\ \E k \in Items(schedOp[r]) : x = RowOf(r, k)

SchedInv ==
  /\ SchedTypeOK
  /\ None \in committed
  /\ \A r \in Edit : SchedRequestOK(r)
  /\ RowLocksOK /\ HoursOK

=============================================================================
