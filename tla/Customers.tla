------------------------------ MODULE Customers ------------------------------
(***************************************************************************)
(* CustomersService: the Customer table with its unique phone index, the   *)
(* customer.created and customer.updated outbox rows written in the same   *)
(* transaction, soft delete, GDPR purge and the agents' findOrCreate.      *)
(***************************************************************************)
EXTENDS RequestSlots, Naturals

CONSTANTS
  Cust,       \* customer ids; bounds the number of INSERTs
  Spelling,   \* the phone strings clients send
  Number,     \* canonical E.164 numbers
  E164,       \* what libphonenumber makes of a spelling, None if impossible
  CustOps     \* the operations clients send

\* A purged row carries the placeholder `deleted-<id>`, here the id itself.
CustRow == [name: {"given", "[Deleted]"}, phone: Number \cup Cust, deleted: BOOLEAN]

CustOp == [kind: {"create", "findOrCreate"}, phone: Spelling]
     \cup [kind: {"update"}, id: Cust, name: BOOLEAN, phone: Spelling \cup {None}]
     \cup [kind: {"remove", "purge"}, id: Cust]

ASSUME CustomersAssumption ==
  /\ E164 \in [Spelling -> Number \cup {None}]
  /\ CustOps \subseteq CustOp
  /\ Number \cap Cust = {}
  /\ None \notin CustRow \cup Cust \cup Number \cup Spelling \cup CustOps
  /\ None \notin {"created", "updated"}

VARIABLES
  customer,      \* committed Customer rows
  custCreated,   \* committed customer.created events, counted per customer
  announced,     \* the phone in the latest committed event of a customer
  custOp,        \* the operation a request serves
  custPc,        \* the statement it is about to execute
  custRead,      \* the row findOne or findFirst returned to it
  custNew,       \* the id of the row it inserts
  custTx,        \* its uncommitted rows
  custEmit       \* its uncommitted outbox row: "created", "updated" or None

custTables == <<customer, custCreated, announced>>
custVars == <<custTables, custOp, custPc, custRead, custNew, custTx, custEmit>>

NoCustRows == [c \in Cust |-> None]

CustInit ==
  /\ customer = NoCustRows
  /\ custCreated = [c \in Cust |-> 0]
  /\ announced = [c \in Cust |-> None]
  /\ custOp = [r \in Req |-> None]
  /\ custPc = [r \in Req |-> "idle"]
  /\ custRead = [r \in Req |-> None]
  /\ custNew = [r \in Req |-> None]
  /\ custTx = [r \in Req |-> NoCustRows]
  /\ custEmit = [r \in Req |-> None]

-----------------------------------------------------------------------------
\* PostgreSQL: visible versions, row locks and the unique phone index.

CustView(r, c) == IF custTx[r][c] # None THEN custTx[r][c] ELSE customer[c]
CustLocked(r, c) == \E q \in Req \ {r} : custTx[q][c] # None
HasPhone(row, p) == row # None /\ row.phone = p

PhoneTaken(r, c, p) ==
  \E b \in Cust \ {c} : ~CustLocked(r, b) /\ HasPhone(CustView(r, b), p)

\* Mutated form of PhoneWaits: uncommitted index entries are not looked at.
PhoneNeverWaits(r, c, p) == FALSE

PhoneWaits(r, c, p) ==
  \E b \in Cust \ {c}, q \in Req \ {r} :
    custTx[q][b] # None /\ (HasPhone(custTx[q][b], p) \/ HasPhone(customer[b], p))

-----------------------------------------------------------------------------
\* The request.

CustAt(r, s) == custPc[r] = s
CustGoto(r, s) == custPc' = [custPc EXCEPT ![r] = s]

CustReset(r) ==
  /\ custOp' = [custOp EXCEPT ![r] = None]
  /\ custPc' = [custPc EXCEPT ![r] = "idle"]
  /\ custRead' = [custRead EXCEPT ![r] = None]
  /\ custNew' = [custNew EXCEPT ![r] = None]
  /\ custTx' = [custTx EXCEPT ![r] = NoCustRows]
  /\ custEmit' = [custEmit EXCEPT ![r] = None]

\* The handler throws: ROLLBACK.
CustFail(r) == CustReset(r) /\ UNCHANGED custTables

toE164(raw) == E164[raw]

CustInserts(o) == o.kind \in {"create", "findOrCreate"}

\* The canonical phone the operation writes, None when it writes none.
CustPhone(o) ==
  IF o.kind \in {"remove", "purge"} \/ o.phone = None THEN None ELSE toE164(o.phone)

BadPhone(o) ==
  o.kind \notin {"remove", "purge"} /\ o.phone # None /\ toE164(o.phone) = None

UsedCust == {c \in Cust : customer[c] # None}
      \cup {custNew[r] : r \in Req} \cup {c \in Cust : \E r \in Req : custTx[r][c] # None}
FreshCust == CHOOSE c \in Cust : c \notin UsedCust

\* A POST whose phone cannot be normalised is answered 422 before any
\* statement; the others start with the lookup or, in create, the INSERT.
CustBegin(r) ==
  /\ custOp[r] = None
  /\ \E o \in CustOps :
       /\ CustInserts(o) => ~BadPhone(o) /\ Cust \ UsedCust # {}
       /\ custOp' = [custOp EXCEPT ![r] = o]
       /\ CustGoto(r, IF o.kind = "create" THEN "write" ELSE "find")
       /\ custNew' = [custNew EXCEPT ![r] = IF CustInserts(o) THEN FreshCust ELSE None]
  /\ UNCHANGED <<custTables, custRead, custTx, custEmit>>

\* Mutated form of CustFound: the lookup forgets deletedAt: null.
CustFoundDeletedToo(row) == row # None

\* where: { ..., deletedAt: null }
CustFound(row) == row # None /\ ~row.deleted

\* findOne at the head of update, remove and purge; update then normalises
\* the phone it was given.
CustFindOne(r) ==
  /\ CustAt(r, "find") /\ ~CustInserts(custOp[r])
  /\ LET row == customer[custOp[r].id]
         accepted == CustFound(row) /\ ~BadPhone(custOp[r]) IN
       \/ /\ accepted
          /\ custRead' = [custRead EXCEPT ![r] = row]
          /\ CustGoto(r, "write")
          /\ UNCHANGED <<custTables, custOp, custNew, custTx, custEmit>>
       \/ ~accepted /\ CustFail(r)

\* findOrCreate: findFirst by phone.  A row found is answered with 200.
FindByPhone(r) ==
  /\ CustAt(r, "find") /\ custOp[r].kind = "findOrCreate"
  /\ LET found == {c \in Cust : /\ CustFound(CustView(r, c))
                                /\ HasPhone(CustView(r, c), CustPhone(custOp[r]))} IN
       \/ /\ found = {}
          /\ CustGoto(r, "write")
          /\ UNCHANGED custRead
       \/ \E c \in found : /\ custRead' = [custRead EXCEPT ![r] = customer[c]]
                           /\ CustGoto(r, "commit")
  /\ UNCHANGED <<custTables, custOp, custNew, custTx, custEmit>>

CustInsert(r) ==
  /\ CustAt(r, "write") /\ CustInserts(custOp[r])
  /\ LET p == CustPhone(custOp[r]) IN
       /\ ~PhoneTaken(r, custNew[r], p) /\ ~PhoneWaits(r, custNew[r], p)
       /\ custTx' = [custTx EXCEPT ![r][custNew[r]] =
                       [name |-> "given", phone |-> p, deleted |-> FALSE]]
  /\ custEmit' = [custEmit EXCEPT ![r] = "created"]
  /\ CustGoto(r, "commit")
  /\ UNCHANGED <<custTables, custOp, custRead, custNew>>

\* P2002: create rethrows it as a conflict, findOrCreate catches it.
CustInsertTaken(r) ==
  /\ CustAt(r, "write") /\ CustInserts(custOp[r])
  /\ PhoneTaken(r, custNew[r], CustPhone(custOp[r]))
  /\ \/ custOp[r].kind = "create" /\ CustFail(r)
     \/ /\ custOp[r].kind = "findOrCreate"
        /\ CustGoto(r, "refetch")
        /\ UNCHANGED <<custTables, custOp, custRead, custNew, custTx, custEmit>>

\* Mutated form of Refetch: the INSERT ran under a savepoint the catch block
\* rolls back, and the row is announced all the same.
RefetchAnnounces(r) ==
  /\ CustAt(r, "refetch")
  /\ \E c \in Cust : /\ CustFound(customer[c])
                     /\ HasPhone(customer[c], CustPhone(custOp[r]))
                     /\ custNew' = [custNew EXCEPT ![r] = c]
  /\ custEmit' = [custEmit EXCEPT ![r] = "created"]
  /\ CustGoto(r, "commit")
  /\ UNCHANGED <<custTables, custOp, custRead, custTx>>

\* The catch block's second findFirst runs in a transaction the failed INSERT
\* has aborted: PostgreSQL refuses the statement and the request ends in 500.
Refetch(r) == CustAt(r, "refetch") /\ CustFail(r)

\* The row as the UPDATE by id leaves it.
CustPatched(r, row) ==
  LET o == custOp[r] IN
  CASE o.kind = "remove" -> [row EXCEPT !.deleted = TRUE]
    [] o.kind = "purge"  -> [name |-> "[Deleted]", phone |-> o.id, deleted |-> TRUE]
    [] OTHER -> [row EXCEPT !.name  = IF o.name THEN "given" ELSE @,
                            !.phone = IF o.phone = None THEN @ ELSE CustPhone(o)]

\* UPDATE ... WHERE id, with no condition on deletedAt.  Only update enqueues
\* an outbox row.
CustUpdate(r) ==
  /\ CustAt(r, "write") /\ ~CustInserts(custOp[r])
  /\ ~CustLocked(r, custOp[r].id)
  /\ LET c == custOp[r].id
         row == CustPatched(r, customer[c]) IN
       /\ ~PhoneTaken(r, c, row.phone) /\ ~PhoneWaits(r, c, row.phone)
       /\ custTx' = [custTx EXCEPT ![r][c] = row]
  /\ custEmit' = [custEmit EXCEPT ![r] = IF custOp[r].kind = "update" THEN "updated" ELSE None]
  /\ CustGoto(r, "commit")
  /\ UNCHANGED <<custTables, custOp, custRead, custNew>>

CustUpdateTaken(r) ==
  /\ CustAt(r, "write") /\ ~CustInserts(custOp[r])
  /\ ~CustLocked(r, custOp[r].id)
  /\ PhoneTaken(r, custOp[r].id, CustPatched(r, customer[custOp[r].id]).phone)
  /\ CustFail(r)

Subject(r) == IF CustInserts(custOp[r]) THEN custNew[r] ELSE custOp[r].id

\* buildPayload
PayloadPhone(r) == CustView(r, Subject(r)).phone

CustCommit(r) ==
  /\ CustAt(r, "commit")
  /\ customer' = [c \in Cust |-> CustView(r, c)]
  /\ custCreated' = IF custEmit[r] = "created"
                    THEN [custCreated EXCEPT ![Subject(r)] = @ + 1] ELSE custCreated
  /\ announced' = IF custEmit[r] # None
                  THEN [announced EXCEPT ![Subject(r)] = PayloadPhone(r)]
                  ELSE announced
  /\ CustReset(r)

\* Timeout, lost connection or crash.
CustTxLost(r) == custOp[r] # None /\ CustFail(r)

CustNext ==
  \E r \in Req :
    \/ CustBegin(r) \/ CustFindOne(r) \/ FindByPhone(r)
    \/ CustInsert(r) \/ CustInsertTaken(r) \/ Refetch(r)
    \/ CustUpdate(r) \/ CustUpdateTaken(r)
    \/ CustCommit(r) \/ CustTxLost(r)

CustSpec == CustInit /\ [][CustNext]_custVars

-----------------------------------------------------------------------------
\* Properties.

\* Two customers of a tenant never share a canonical phone, whatever the
\* spellings used and however create, findOrCreate and update interleave.
OneOwnerPerPhone ==
  \A c, d \in Cust :
    c # d /\ customer[c] # None /\ customer[d] # None
      => customer[c].phone # customer[d].phone

\* What the events tell is what the table holds: customer.created is enqueued
\* once for every customer that was committed, never for an INSERT that was
\* rolled back or a findOrCreate that found, and the latest event of a customer
\* carries its phone, except after purge, which enqueues nothing.
CustomersAnnounced ==
  \A c \in Cust :
    /\ custCreated[c] = (IF customer[c] # None THEN 1 ELSE 0)
    /\ customer[c] # None => \/ announced[c] = customer[c].phone
                            \/ customer[c].phone = c

\* A removed or purged customer changes again only through a request that had
\* read it before it was deleted (an update in flight can thus write personal
\* data back into a purged row); no request that starts later touches it, so
\* a customer once removed is not purged either.
DeletedIsFrozen ==
  [][\A c \in Cust :
       customer[c] # None /\ customer[c].deleted /\ customer'[c] # customer[c]
         => \E r \in Req : /\ CustAt(r, "commit") /\ ~CustInserts(custOp[r])
                           /\ custOp[r].id = c /\ ~custRead[r].deleted]_custVars

-----------------------------------------------------------------------------
\* The inductive invariant behind the properties.

CustTypeOK ==
  /\ customer \in [Cust -> CustRow \cup {None}]
  /\ custCreated \in [Cust -> Nat]
  /\ announced \in [Cust -> Number \cup Cust \cup {None}]
  /\ custOp \in [Req -> CustOps \cup {None}]
  /\ custPc \in [Req -> {"idle", "find", "write", "refetch", "commit"}]
  /\ custRead \in [Req -> CustRow \cup {None}]
  /\ custNew \in [Req -> Cust \cup {None}]
  /\ custTx \in [Req -> [Cust -> CustRow \cup {None}]]
  /\ custEmit \in [Req -> {None, "created", "updated"}]

\* An INSERT under way: its id is unused and its phone has a canonical form.
CustInsertOK(r) ==
  /\ custNew[r] # None => custOp[r] # None /\ CustInserts(custOp[r])
  /\ custOp[r] # None /\ CustInserts(custOp[r]) =>
       /\ custNew[r] \in Cust /\ customer[custNew[r]] = None
       /\ ~BadPhone(custOp[r])

\* Past the lookup, an update acts on a row that was not deleted when it was read.
CustUpdateOK(r) ==
  custOp[r] # None /\ ~CustInserts(custOp[r]) /\ custPc[r] # "find" =>
    /\ custPc[r] \in {"write", "commit"}
    /\ customer[custOp[r].id] # None
    /\ CustFound(custRead[r]) /\ ~BadPhone(custOp[r])

\* The uncommitted row and its event: one INSERT, or one UPDATE of the committed
\* version.
CustWorkOK(r) ==
  /\ custOp[r] = None <=> custPc[r] = "idle"
  /\ custEmit[r] # None => custPc[r] = "commit" /\ custTx[r][Subject(r)] # None
  /\ \A c \in Cust : custTx[r][c] # None =>
       /\ custPc[r] = "commit" /\ c = Subject(r)
       /\ IF CustInserts(custOp[r])
          THEN /\ custTx[r][c] = [name |-> "given", phone |-> CustPhone(custOp[r]),
                                  deleted |-> FALSE]
               /\ custEmit[r] = "created"
          ELSE /\ custTx[r][c] = CustPatched(r, customer[c])
               /\ custEmit[r] = IF custOp[r].kind = "update" THEN "updated" ELSE None

\* No id is taken twice, no row has two uncommitted versions.
CustLocksOK ==
  \A r, q \in Req : r # q =>
    /\ custNew[r] # None => custNew[r] # custNew[q]
    /\ \A c \in Cust : custTx[r][c] = None \/ custTx[q][c] = None

\* Versions of two customers, committed or not, never share a phone.
DifferentPhones(a, b) == a # None /\ b # None => a.phone # b.phone
PhoneIndexOK ==
  \A c, d \in Cust : c # d =>
    /\ DifferentPhones(customer[c], customer[d])
    /\ \A r \in Req : DifferentPhones(custTx[r][c], customer[d])
    /\ \A r, q \in Req : DifferentPhones(custTx[r][c], custTx[q][d])

CustInv ==
  /\ CustTypeOK
  /\ \A r \in Req : CustInsertOK(r) /\ CustUpdateOK(r) /\ CustWorkOK(r)
  /\ CustLocksOK /\ PhoneIndexOK
  /\ CustomersAnnounced
=============================================================================
