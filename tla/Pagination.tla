----------------------------- MODULE Pagination -----------------------------
(***************************************************************************)
(* A client walks a tenant list (customers by createdAt, appointments by   *)
(* startTime) while rows are inserted and soft-deleted: the first request  *)
(* carries no cursor and takes the legacy offset path, the client makes    *)
(* the first cursor from its last row (as the end-to-end tests do) and     *)
(* then follows next_cursor.                                               *)
(***************************************************************************)
EXTENDS RequestSlots, Naturals, FiniteSets

CONSTANTS
  RowId,     \* row ids; bounds the number of INSERTs
  Stamp,     \* values of the sort column, earlier ones smaller
  Limits     \* page sizes a client asks for

ListRow == [at: Stamp, match: BOOLEAN, deleted: BOOLEAN]

\* The filter of a query: none, a search (customers, an OR of contains) or
\* plain and AND conditions (appointments).
Filters == {"none", "search", "and"}

ASSUME PaginationAssumption ==
  /\ RowId \subseteq Nat /\ IsFiniteSet(RowId)
  /\ Stamp \subseteq Nat /\ Limits \subseteq Nat \ {0}
  /\ None \notin ListRow \cup Stamp \cup (Stamp \X RowId)

VARIABLES
  listRows,    \* the table
  walk,        \* where the client is: "idle", "pages" or "done"
  query,       \* its filter and limit
  cursor,      \* the cursor it sends next, a pair of stamp and id
  boundary,    \* the stamp of the first page's last row
  returned,    \* how often each row was returned to it
  stayed       \* rows that were there from the walk's first page until now

listVars == <<listRows, walk, query, cursor, boundary, returned, stayed>>

ListInit ==
  /\ listRows = [i \in RowId |-> None]
  /\ walk = "idle"
  /\ query = None
  /\ cursor = None
  /\ boundary = None
  /\ returned = [i \in RowId |-> 0]
  /\ stayed = {}

-----------------------------------------------------------------------------
\* baseWhere: deletedAt null and the filter.
ListLive(i) == listRows[i] # None /\ ~listRows[i].deleted
BaseWhere(f) == {i \in RowId : ListLive(i) /\ (f # "none" => listRows[i].match)}

\* Mutated form of cursorWhere: no tiebreaker on equal stamps.
cursorWhereUntied(c, i) == listRows[i].at < c[1]

cursorWhere(c, i) ==
  \/ listRows[i].at < c[1]
  \/ listRows[i].at = c[1] /\ i < c[2]

keysetOrderBy(i, j) ==
  \/ listRows[i].at > listRows[j].at
  \/ listRows[i].at = listRows[j].at /\ i > j

takePlusOne(limit) == limit + 1

\* { ...baseWhere, ...cursorWhere }: cursorWhere's OR replaces the OR of a
\* search, which therefore filters the first page only.
PageWhere(f, c) ==
  {i \in BaseWhere(IF f = "search" THEN "none" ELSE f) : cursorWhere(c, i)}

\* ORDER BY ... LIMIT n fills the page as far as there are rows.
Fills(page, rows, n) ==
  Cardinality(page) = IF Cardinality(rows) < n THEN Cardinality(rows) ELSE n

\* The row beyond the limit is dropped; it says that a next page follows, from
\* the last row of this one.
slicePage(found, limit, data, next) ==
  IF Cardinality(found) > limit
  THEN \E extra \in found, last \in data :
         /\ data = found \ {extra}
         /\ \A i \in data : keysetOrderBy(i, extra)
         /\ \A i \in data \ {last} : keysetOrderBy(i, last)
         /\ next = <<listRows[last].at, last>>
  ELSE data = found /\ next = None

Deliver(ids) == returned' = [i \in RowId |-> returned[i] + IF i \in ids THEN 1 ELSE 0]

\* The offset path orders by the sort column alone: among rows with equal
\* stamps PostgreSQL picks and orders as it likes.
FirstPage ==
  /\ walk = "idle"
  /\ \E f \in Filters, n \in Limits :
       LET all == BaseWhere(f) IN
       \E page \in SUBSET all :
         /\ Fills(page, all, n)
         /\ \A i \in page, j \in all \ page : listRows[i].at >= listRows[j].at
         /\ query' = [filter |-> f, limit |-> n]
         /\ stayed' = {i \in RowId : ListLive(i)}
         /\ Deliver(page)
         /\ \/ /\ page = {}
               /\ walk' = "done"
               /\ UNCHANGED <<cursor, boundary>>
            \/ \E last \in page :
                 /\ \A i \in page : listRows[i].at >= listRows[last].at
                 /\ walk' = "pages"
                 /\ cursor' = <<listRows[last].at, last>>
                 /\ boundary' = listRows[last].at
  /\ UNCHANGED listRows

NextPage ==
  /\ walk = "pages"
  /\ LET all == PageWhere(query.filter, cursor) IN
     \E found \in SUBSET all :
       /\ Fills(found, all, takePlusOne(query.limit))
       /\ \A i \in found, j \in all \ found : keysetOrderBy(i, j)
       /\ \E data \in SUBSET found, next \in {None} \cup (Stamp \X RowId) :
            /\ slicePage(found, query.limit, data, next)
            /\ Deliver(data)
            /\ cursor' = next
            /\ walk' = IF next = None THEN "done" ELSE "pages"
  /\ UNCHANGED <<listRows, query, boundary, stayed>>

\* A row becomes visible at COMMIT with the stamp of its INSERT, or with the
\* start time that was booked: it may sort anywhere.
RowInserted ==
  /\ walk # "done"
  /\ \E i \in RowId, t \in Stamp, m \in BOOLEAN :
       /\ listRows[i] = None
       /\ listRows' = [listRows EXCEPT ![i] = [at |-> t, match |-> m, deleted |-> FALSE]]
  /\ UNCHANGED <<walk, query, cursor, boundary, returned, stayed>>

RowDeleted ==
  /\ walk = "pages"
  /\ \E i \in RowId :
       /\ ListLive(i)
       /\ listRows' = [listRows EXCEPT ![i].deleted = TRUE]
       /\ stayed' = stayed \ {i}
  /\ UNCHANGED <<walk, query, cursor, boundary, returned>>

ListNext == FirstPage \/ NextPage \/ RowInserted \/ RowDeleted

ListSpec == ListInit /\ [][ListNext]_listVars

-----------------------------------------------------------------------------
\* Properties.

\* A walk returns every matching row that was there all along exactly once,
\* whatever is inserted and deleted between its pages (the row under the
\* cursor included), and no row twice.  The exceptions: rows with the stamp of
\* the first page's last row, which the offset path orders arbitrarily, may be
\* missed or repeated at the seam of the two paths, and a search, whose filter
\* is lost with the first cursor, goes on with rows that do not match.
WalkIsExact ==
  \A i \in RowId :
    listRows[i] # None =>
      /\ boundary = None \/ listRows[i].at # boundary =>
           /\ returned[i] <= 1
           /\ walk = "done" /\ i \in stayed /\ (query.filter = "none" \/ listRows[i].match)
                => returned[i] = 1
      /\ returned[i] > 0 /\ query.filter # "none" /\ ~listRows[i].match
           => query.filter = "search" /\ listRows[i].at <= boundary

-----------------------------------------------------------------------------
\* The inductive invariant of the proofs.

ListTypeOK ==
  /\ listRows \in [RowId -> {None} \cup ListRow]
  /\ walk \in {"idle", "pages", "done"}
  /\ walk # "idle" => query \in [filter: Filters, limit: Limits]
  /\ walk = "pages" => cursor \in Stamp \X RowId /\ boundary \in Stamp
  /\ boundary \in {None} \cup Stamp
  /\ returned \in [RowId -> Nat]
  /\ stayed \subseteq {i \in RowId : ListLive(i)}

\* Nothing is returned before the first page, or of a row that is not there.
NotYet ==
  /\ walk = "idle" => boundary = None
  /\ \A i \in RowId : walk = "idle" \/ listRows[i] = None => returned[i] = 0

Wanted(i) == i \in stayed /\ (query.filter = "none" \/ listRows[i].match)

\* Off the seam, the cursor parts the rows that are due from those that have
\* been passed, and a passed row that was wanted has been returned once.
CursorParts ==
  walk = "pages" =>
    /\ cursor[1] <= boundary
    /\ \A i \in RowId : listRows[i] # None /\ listRows[i].at # boundary =>
         /\ cursorWhere(cursor, i) => returned[i] = 0
         /\ ~cursorWhere(cursor, i) => returned[i] <= 1 /\ (Wanted(i) => returned[i] = 1)

ListInv == ListTypeOK /\ NotYet /\ CursorParts /\ WalkIsExact

=============================================================================
