---------------------------- MODULE RecordsProofs ----------------------------
(***************************************************************************)
(* Safety of customers, conversations, schedule tables and list walks, for *)
(* any number of requests and rows.                                        *)
(***************************************************************************)
EXTENDS Customers, Conversations, Schedule, Pagination, FiniteSetTheorems, TLAPS

-----------------------------------------------------------------------------
\* Customers: lemmas about operations.

\* The fields of an operation by its kind, and the phone it writes.
LEMMA CustOpFields ==
  ASSUME NEW o \in CustOps
  PROVE  /\ o # None
         /\ o.kind \in {"create", "findOrCreate", "update", "remove", "purge"}
         /\ ~CustInserts(o) => o.id \in Cust
         /\ CustInserts(o) /\ ~BadPhone(o) => CustPhone(o) \in Number
         /\ o.kind = "update" /\ ~BadPhone(o) /\ o.phone # None => CustPhone(o) \in Number
<1> USE CustomersAssumption DEF CustOp
<1>1. o # None /\ o \in CustOp
  OBVIOUS
<1>2. /\ o.kind \in {"create", "findOrCreate", "update", "remove", "purge"}
      /\ o.kind \in {"create", "findOrCreate"} => o.phone \in Spelling
      /\ o.kind = "update" => o.phone \in Spelling \cup {None}
      /\ o.kind \in {"update", "remove", "purge"} => o.id \in Cust
  BY <1>1
<1>3. \A s \in Spelling : s # None /\ (E164[s] # None => E164[s] \in Number)
  OBVIOUS
<1> HIDE DEF CustOp
<1> QED BY <1>1, <1>2, <1>3 DEF CustInserts, CustPhone, BadPhone, toE164

\* What an UPDATE leaves is a row: it keeps the phone, or takes the canonical one
\* of the operation, or after purge the placeholder.
LEMMA CustPatchedFields ==
  ASSUME NEW r \in Req, custOp[r] \in CustOps, ~CustInserts(custOp[r]), ~BadPhone(custOp[r]),
         NEW row \in CustRow
  PROVE  /\ CustPatched(r, row) \in CustRow /\ CustPatched(r, row) # None
         /\ custOp[r].kind = "remove" => CustPatched(r, row).phone = row.phone
         /\ custOp[r].kind = "purge" => CustPatched(r, row).phone = custOp[r].id
<1> DEFINE o == custOp[r]
<1>1. /\ o.kind \in {"update", "remove", "purge"} /\ o.id \in Cust
      /\ o.kind = "update" /\ o.phone # None => CustPhone(o) \in Number
  BY CustOpFields DEF CustInserts
<1>2. CASE o.kind = "remove"
  <2>1. CustPatched(r, row) = [row EXCEPT !.deleted = TRUE]
    BY <1>2 DEF CustPatched
  <2>2. CustPatched(r, row) \in CustRow /\ CustPatched(r, row).phone = row.phone
    BY <2>1 DEF CustRow
  <2> QED BY <1>2, <2>2, CustomersAssumption
<1>3. CASE o.kind = "purge"
  <2>1. CustPatched(r, row) = [name |-> "[Deleted]", phone |-> o.id, deleted |-> TRUE]
    BY <1>3 DEF CustPatched
  <2>2. CustPatched(r, row) \in CustRow /\ CustPatched(r, row).phone = o.id
    BY <1>1, <2>1 DEF CustRow
  <2> QED BY <1>3, <2>2, CustomersAssumption
<1>4. CASE o.kind = "update"
  <2> DEFINE name == IF o.name THEN "given" ELSE row.name
             phone == IF o.phone = None THEN row.phone ELSE CustPhone(o)
  <2>1. name \in {"given", "[Deleted]"} /\ phone \in Number \cup Cust
    BY <1>1, <1>4 DEF CustRow
  <2>2. CustPatched(r, row) = [row EXCEPT !.name = name, !.phone = phone]
    BY <1>4 DEF CustPatched
  <2> HIDE DEF name, phone
  <2>3. CustPatched(r, row) \in CustRow
    BY <2>1, <2>2 DEF CustRow
  <2> QED BY <1>4, <2>3, CustomersAssumption
<1> QED BY <1>1, <1>2, <1>3, <1>4

-----------------------------------------------------------------------------
\* Customers: what a step leaves alone.

CustRequestOK(r) == CustInsertOK(r) /\ CustUpdateOK(r) /\ CustWorkOK(r)

\* The request q takes no step.
CustRests(q) ==
  /\ custOp'[q] = custOp[q] /\ custPc'[q] = custPc[q] /\ custRead'[q] = custRead[q]
  /\ custNew'[q] = custNew[q] /\ custTx'[q] = custTx[q] /\ custEmit'[q] = custEmit[q]

LEMMA CustOthersOK ==
  ASSUME CustInv, NEW q \in Req, CustRests(q),
         \A c \in Cust : customer[c] # None => customer'[c] # None,
         \A c \in Cust : custTx[q][c] # None \/ custNew[q] = c => customer'[c] = customer[c]
  PROVE  CustRequestOK(q)'
<1>1. CustInsertOK(q)'
  BY DEF CustInv, CustRests, CustInsertOK
<1>2. CustUpdateOK(q)'
  <2> SUFFICES ASSUME custOp[q] # None, ~CustInserts(custOp[q]), custPc[q] # "find"
               PROVE  CustUpdateOK(q)'
    BY DEF CustUpdateOK, CustRests
  <2>1. custOp[q].id \in Cust
    BY CustOpFields DEF CustInv, CustTypeOK
  <2> QED BY <2>1 DEF CustInv, CustRests, CustUpdateOK
<1>3. CustWorkOK(q)'
  <2>1. CustWorkOK(q) /\ Subject(q)' = Subject(q)
    BY DEF CustInv, CustRests, Subject
  <2>2. \A row : CustPatched(q, row)' = CustPatched(q, row)
    BY DEF CustRests, CustPatched
  <2>3. \A c \in Cust : custTx[q][c] # None =>
          CustPatched(q, customer[c])' = CustPatched(q, customer[c])
    BY <2>2 DEF CustRests, CustPatched
  <2> QED BY <2>1, <2>3 DEF CustRests, CustWorkOK
<1> QED BY <1>1, <1>2, <1>3 DEF CustRequestOK

\* A statement that writes nothing.
LEMMA CustReadStep ==
  ASSUME CustInv, NEW r \in Req, UNCHANGED <<custTables, custOp, custNew, custTx, custEmit>>,
         \A q \in Req \ {r} : CustRests(q), CustTypeOK', CustRequestOK(r)'
  PROVE  CustInv'
<1>1. UNCHANGED <<customer, custCreated, announced>>
  BY DEF custTables
<1>2. \A q \in Req : CustRequestOK(q)'
  BY <1>1, CustOthersOK
<1>3. CustLocksOK' /\ PhoneIndexOK' /\ CustomersAnnounced'
  BY <1>1 DEF CustInv, CustLocksOK, PhoneIndexOK, DifferentPhones, CustomersAnnounced
<1> QED BY <1>2, <1>3 DEF CustInv, CustRequestOK

\* The end of a request.
LEMMA CustResetOK ==
  ASSUME CustInv, NEW r \in Req, CustReset(r)
  PROVE  /\ custOp' \in [Req -> CustOps \cup {None}]
         /\ custPc' \in [Req -> {"idle", "find", "write", "refetch", "commit"}]
         /\ custRead' \in [Req -> CustRow \cup {None}]
         /\ custNew' \in [Req -> Cust \cup {None}]
         /\ custTx' \in [Req -> [Cust -> CustRow \cup {None}]]
         /\ custEmit' \in [Req -> {None, "created", "updated"}]
         /\ CustRequestOK(r)' /\ CustLocksOK'
         /\ \A q \in Req \ {r} : CustRests(q)
         /\ \A c \in Cust : custTx'[r][c] = None
<1> USE DEF CustInv
<1>1. NoCustRows \in [Cust -> CustRow \cup {None}] /\ \A c \in Cust : NoCustRows[c] = None
  BY DEF NoCustRows
<1>2. /\ custOp' = [custOp EXCEPT ![r] = None] /\ custPc' = [custPc EXCEPT ![r] = "idle"]
      /\ custRead' = [custRead EXCEPT ![r] = None] /\ custNew' = [custNew EXCEPT ![r] = None]
      /\ custTx' = [custTx EXCEPT ![r] = NoCustRows]
      /\ custEmit' = [custEmit EXCEPT ![r] = None]
  BY DEF CustReset
<1> HIDE DEF NoCustRows
<1>3. /\ custOp' \in [Req -> CustOps \cup {None}]
      /\ custPc' \in [Req -> {"idle", "find", "write", "refetch", "commit"}]
      /\ custRead' \in [Req -> CustRow \cup {None}]
      /\ custNew' \in [Req -> Cust \cup {None}]
      /\ custTx' \in [Req -> [Cust -> CustRow \cup {None}]]
      /\ custEmit' \in [Req -> {None, "created", "updated"}]
  BY <1>1, <1>2 DEF CustTypeOK
<1>4. /\ custOp'[r] = None /\ custPc'[r] = "idle" /\ custNew'[r] = None
      /\ custTx'[r] = NoCustRows /\ custEmit'[r] = None
  BY <1>2 DEF CustTypeOK
<1>5. \A c \in Cust : custTx'[r][c] = None
  BY <1>1, <1>4
<1>6. CustRequestOK(r)'
  BY <1>4, <1>5 DEF CustRequestOK, CustInsertOK, CustUpdateOK, CustWorkOK
<1>7. \A q \in Req \ {r} : CustRests(q)
  BY <1>2 DEF CustRests, CustTypeOK
<1>8. CustLocksOK'
  BY <1>4, <1>5, <1>7 DEF CustLocksOK, CustRests
<1> QED BY <1>3, <1>5, <1>6, <1>7, <1>8

\* ROLLBACK.
LEMMA CustFailKeepsInv ==
  ASSUME CustInv, NEW r \in Req, CustFail(r)
  PROVE  CustInv'
<1>1. CustReset(r) /\ UNCHANGED <<customer, custCreated, announced>>
  BY DEF CustFail, custTables
<1>2. CustTypeOK'
  BY <1>1, CustResetOK DEF CustInv, CustTypeOK
<1>3. \A q \in Req : CustRequestOK(q)'
  BY <1>1, CustResetOK, CustOthersOK
<1>4. \A q \in Req, c \in Cust : custTx'[q][c] = None \/ custTx'[q][c] = custTx[q][c]
  BY <1>1, CustResetOK DEF CustRests
<1>5. PhoneIndexOK' /\ CustomersAnnounced'
  BY <1>1, <1>4 DEF CustInv, PhoneIndexOK, DifferentPhones, CustomersAnnounced
<1> QED BY <1>1, <1>2, <1>3, <1>5, CustResetOK DEF CustInv, CustRequestOK

-----------------------------------------------------------------------------
\* Customers: the invariant, action by action.

\* A request takes an id nobody has.
LEMMA CustBeginKeepsInv ==
  ASSUME CustInv, NEW r \in Req, CustBegin(r)
  PROVE  CustInv'
<1> USE DEF CustInv
<1>1. PICK o \in CustOps :
        /\ CustInserts(o) => ~BadPhone(o) /\ Cust \ UsedCust # {}
        /\ custOp' = [custOp EXCEPT ![r] = o]
        /\ custPc' = [custPc EXCEPT ![r] = IF o.kind = "create" THEN "write" ELSE "find"]
        /\ custNew' = [custNew EXCEPT ![r] = IF CustInserts(o) THEN FreshCust ELSE None]
  BY DEF CustBegin, CustGoto
<1>2. /\ custOp[r] = None
      /\ UNCHANGED <<customer, custCreated, announced, custRead, custTx, custEmit>>
  BY DEF CustBegin, custTables
<1> DEFINE new == IF CustInserts(o) THEN FreshCust ELSE None
           next == IF o.kind = "create" THEN "write" ELSE "find"
<1>3. CustInserts(o) => FreshCust \in Cust \ UsedCust
  BY <1>1, Zenon DEF FreshCust
<1>4. /\ new \in Cust \cup {None} /\ (CustInserts(o) <=> new # None)
      /\ new # None => new \in Cust \ UsedCust
  BY <1>3, CustomersAssumption
<1>5. /\ next \in {"write", "find"} /\ (next = "write" <=> o.kind = "create")
      /\ ~CustInserts(o) => next = "find"
  BY DEF CustInserts
<1>6. custOp' = [custOp EXCEPT ![r] = o] /\ custPc' = [custPc EXCEPT ![r] = next]
      /\ custNew' = [custNew EXCEPT ![r] = new]
  BY <1>1
<1> HIDE DEF new, next
<1>7. custOp'[r] = o /\ custPc'[r] = next /\ custNew'[r] = new
  BY <1>6 DEF CustTypeOK
<1>8. CustTypeOK'
  BY <1>2, <1>4, <1>5, <1>6 DEF CustTypeOK
<1>9. \A q \in Req \ {r} : CustRests(q)
  BY <1>2, <1>6 DEF CustRests, CustTypeOK
<1>10. /\ custPc[r] = "idle" /\ custEmit[r] = None
       /\ \A c \in Cust : custTx[r][c] = None
  BY <1>2 DEF CustWorkOK
<1>11. new # None => /\ customer[new] = None
                     /\ \A q \in Req : custNew[q] # new /\ custTx[q][new] = None
  BY <1>4 DEF UsedCust
<1>12. CustRequestOK(r)'
  <2>1. CustInsertOK(r)'
    BY <1>1, <1>2, <1>4, <1>7, <1>11, CustOpFields DEF CustInsertOK
  <2>2. CustUpdateOK(r)' /\ CustWorkOK(r)'
    BY <1>2, <1>5, <1>7, <1>10, CustOpFields DEF CustUpdateOK, CustWorkOK
  <2> QED BY <2>1, <2>2 DEF CustRequestOK
<1>13. \A q \in Req \ {r} : CustRequestOK(q)'
  BY <1>2, <1>9, CustOthersOK
<1>14. CustLocksOK'
  BY <1>2, <1>7, <1>9, <1>11 DEF CustLocksOK, CustRests
<1>15. PhoneIndexOK' /\ CustomersAnnounced'
  BY <1>2 DEF PhoneIndexOK, DifferentPhones, CustomersAnnounced
<1> QED BY <1>8, <1>12, <1>13, <1>14, <1>15 DEF CustRequestOK

LEMMA CustFindOneKeepsInv ==
  ASSUME CustInv, NEW r \in Req, CustFindOne(r)
  PROVE  CustInv'
<1> DEFINE row == customer[custOp[r].id]
<1>1. CASE CustFail(r)
  BY <1>1, CustFailKeepsInv
<1>2. CASE ~CustFail(r)
  <2>1. /\ custPc[r] = "find" /\ ~CustInserts(custOp[r]) /\ CustFound(row) /\ ~BadPhone(custOp[r])
        /\ custRead' = [custRead EXCEPT ![r] = row]
        /\ custPc' = [custPc EXCEPT ![r] = "write"]
        /\ UNCHANGED <<custTables, custOp, custNew, custTx, custEmit>>
    BY <1>2 DEF CustFindOne, CustAt, CustGoto
  <2>2. custOp[r] \in CustOps /\ custOp[r].id \in Cust /\ row \in CustRow
    <3>1. custOp[r] \in CustOps
      BY <2>1 DEF CustInv, CustWorkOK, CustTypeOK
    <3>2. custOp[r].id \in Cust /\ row # None
      BY <2>1, <3>1, CustOpFields DEF CustFound
    <3> QED BY <3>1, <3>2 DEF CustInv, CustTypeOK
  <2>3. CustTypeOK'
    BY <2>1, <2>2 DEF CustInv, CustTypeOK, custTables
  <2>4. \A q \in Req \ {r} : CustRests(q)
    BY <2>1 DEF CustInv, CustTypeOK, CustRests
  <2>5. custPc'[r] = "write" /\ custRead'[r] = row /\ customer' = customer
    BY <2>1 DEF CustInv, CustTypeOK, custTables
  <2>6. CustRequestOK(r)'
    <3>1. CustInsertOK(r)' /\ CustUpdateOK(r)'
      BY <2>1, <2>5 DEF CustInv, CustInsertOK, CustUpdateOK, CustFound
    <3>2. CustWorkOK(r)'
      BY <2>1, <2>5 DEF CustInv, CustWorkOK
    <3> QED BY <3>1, <3>2 DEF CustRequestOK
  <2> QED BY <2>1, <2>3, <2>4, <2>6, CustReadStep
<1> QED BY <1>1, <1>2

LEMMA FindByPhoneKeepsInv ==
  ASSUME CustInv, NEW r \in Req, FindByPhone(r)
  PROVE  CustInv'
<1>1. /\ custPc[r] = "find" /\ custOp[r].kind = "findOrCreate"
      /\ UNCHANGED <<custTables, custOp, custNew, custTx, custEmit>>
  BY DEF FindByPhone, CustAt
<1>2. PICK next \in {"write", "commit"} : custPc' = [custPc EXCEPT ![r] = next]
  BY DEF FindByPhone, CustGoto
<1>3. custRead' = custRead \/ \E c \in Cust : custRead' = [custRead EXCEPT ![r] = customer[c]]
  BY DEF FindByPhone
<1>4. CustTypeOK'
  <2>1. custRead' \in [Req -> CustRow \cup {None}]
    BY <1>3 DEF CustInv, CustTypeOK
  <2>2. custPc' \in [Req -> {"idle", "find", "write", "refetch", "commit"}]
    BY <1>2 DEF CustInv, CustTypeOK
  <2> QED BY <1>1, <2>1, <2>2 DEF CustInv, CustTypeOK, custTables
<1>5. custPc'[r] = next /\ customer' = customer
  BY <1>1, <1>2 DEF CustInv, CustTypeOK, custTables
<1>6. CustRequestOK(r)'
  <2>1. CustInserts(custOp[r]) /\ custOp'[r] = custOp[r]
    BY <1>1 DEF CustInserts
  <2> QED BY <1>1, <1>5, <2>1 DEF CustInv, CustRequestOK, CustInsertOK, CustUpdateOK, CustWorkOK
<1>7. \A q \in Req \ {r} : CustRests(q)
  BY <1>1, <1>2, <1>3 DEF CustInv, CustTypeOK, CustRests
<1> QED BY <1>1, <1>4, <1>6, <1>7, CustReadStep

\* The row a write adds finds its phone free in every version of the other rows.
LEMMA PhoneIsFree ==
  ASSUME CustInv, NEW r \in Req, NEW c \in Cust, NEW row \in CustRow,
         \A d \in Cust : custTx[r][d] = None,
         ~PhoneTaken(r, c, row.phone), ~PhoneWaits(r, c, row.phone)
  PROVE  \A d \in Cust \ {c} :
           /\ DifferentPhones(row, customer[d]) /\ DifferentPhones(customer[d], row)
           /\ \A q \in Req : /\ DifferentPhones(row, custTx[q][d])
                             /\ DifferentPhones(custTx[q][d], row)
<1> SUFFICES ASSUME NEW d \in Cust \ {c}
             PROVE  /\ ~HasPhone(customer[d], row.phone)
                    /\ \A q \in Req : ~HasPhone(custTx[q][d], row.phone)
  BY DEF DifferentPhones, HasPhone
<1>1. CASE CustLocked(r, d)
  BY <1>1 DEF CustLocked, PhoneWaits, HasPhone
<1>2. CASE ~CustLocked(r, d)
  BY <1>2 DEF CustLocked, PhoneTaken, CustView, HasPhone
<1> QED BY <1>1, <1>2

\* A write of the row of r, which nobody else has locked.
LEMMA CustWriteStep ==
  ASSUME CustInv, NEW r \in Req, custPc[r] = "write", NEW c \in Cust, NEW row \in CustRow,
         NEW event \in {None, "created", "updated"},
         \A q \in Req \ {r} : custTx[q][c] = None,
         ~PhoneTaken(r, c, row.phone), ~PhoneWaits(r, c, row.phone),
         custTx' = [custTx EXCEPT ![r][c] = row],
         custEmit' = [custEmit EXCEPT ![r] = event],
         custPc' = [custPc EXCEPT ![r] = "commit"],
         UNCHANGED <<custTables, custOp, custRead, custNew>>,
         c = Subject(r),
         IF CustInserts(custOp[r])
         THEN /\ row = [name |-> "given", phone |-> CustPhone(custOp[r]), deleted |-> FALSE]
              /\ event = "created"
         ELSE /\ row = CustPatched(r, customer[c])
              /\ event = IF custOp[r].kind = "update" THEN "updated" ELSE None
  PROVE  CustInv'
<1> USE DEF CustInv
<1>1. UNCHANGED <<customer, custCreated, announced>> /\ row # None
  BY CustomersAssumption DEF custTables
<1>2. CustTypeOK'
  <2>1. custTx' \in [Req -> [Cust -> CustRow \cup {None}]]
    BY DEF CustTypeOK
  <2>2. /\ custEmit' \in [Req -> {None, "created", "updated"}]
        /\ custPc' \in [Req -> {"idle", "find", "write", "refetch", "commit"}]
    BY DEF CustTypeOK
  <2> QED BY <1>1, <2>1, <2>2 DEF CustTypeOK
<1>3. \A d \in Cust : custTx[r][d] = None
  BY DEF CustWorkOK
<1>4. /\ custPc'[r] = "commit" /\ custEmit'[r] = event
      /\ \A d \in Cust : custTx'[r][d] = IF d = c THEN row ELSE None
  BY <1>3 DEF CustTypeOK
<1>5. \A q \in Req \ {r} : CustRests(q)
  BY DEF CustRests, CustTypeOK
<1>6. CustRequestOK(r)'
  <2>1. CustInsertOK(r)' /\ CustUpdateOK(r)'
    BY <1>1, <1>4 DEF CustInsertOK, CustUpdateOK
  <2>2. CustPatched(r, customer[c])' = CustPatched(r, customer[c]) /\ Subject(r)' = c
    BY <1>1 DEF CustPatched, Subject
  <2>3. CustWorkOK(r)'
    <3>1. CustWorkOK(r) /\ UNCHANGED <<custOp, customer>> /\ custTx'[r][c] # None
      BY <1>1, <1>4
    <3>2. CASE CustInserts(custOp[r])
      BY <1>4, <2>2, <3>1, <3>2 DEF CustWorkOK
    <3>3. CASE ~CustInserts(custOp[r])
      BY <1>4, <2>2, <3>1, <3>3 DEF CustWorkOK
    <3> QED BY <3>2, <3>3
  <2> QED BY <2>1, <2>3 DEF CustRequestOK
<1>7. \A q \in Req \ {r} : CustRequestOK(q)'
  BY <1>1, <1>5, CustOthersOK
<1>8. CustLocksOK'
  BY <1>1, <1>4, <1>5 DEF CustLocksOK, CustRests
<1>9. PhoneIndexOK'
  <2>1. \A d \in Cust \ {c} :
          /\ DifferentPhones(row, customer[d]) /\ DifferentPhones(customer[d], row)
          /\ \A q \in Req : /\ DifferentPhones(row, custTx[q][d])
                            /\ DifferentPhones(custTx[q][d], row)
    BY <1>3, PhoneIsFree
  <2>2. \A q \in Req, d \in Cust :
          custTx'[q][d] = IF q = r /\ d = c THEN row ELSE custTx[q][d]
    BY <1>3, <1>4, <1>5 DEF CustRests
  <2>3. ASSUME NEW d \in Cust, NEW e \in Cust, d # e
        PROVE  /\ DifferentPhones(customer[d], customer[e])
               /\ \A q \in Req : DifferentPhones(custTx'[q][d], customer[e])
               /\ \A p, q \in Req : DifferentPhones(custTx'[p][d], custTx'[q][e])
    BY <2>1, <2>2, <2>3 DEF PhoneIndexOK
  <2> QED BY <1>1, <2>3 DEF PhoneIndexOK, DifferentPhones
<1>10. CustomersAnnounced'
  BY <1>1 DEF CustomersAnnounced
<1> QED BY <1>2, <1>6, <1>7, <1>8, <1>9, <1>10 DEF CustRequestOK

LEMMA CustInsertKeepsInv ==
  ASSUME CustInv, NEW r \in Req, CustInsert(r)
  PROVE  CustInv'
<1> DEFINE p == CustPhone(custOp[r])
           row == [name |-> "given", phone |-> p, deleted |-> FALSE]
<1>1. /\ custPc[r] = "write" /\ CustInserts(custOp[r])
      /\ ~PhoneTaken(r, custNew[r], p) /\ ~PhoneWaits(r, custNew[r], p)
      /\ custTx' = [custTx EXCEPT ![r][custNew[r]] = row]
      /\ custEmit' = [custEmit EXCEPT ![r] = "created"]
      /\ custPc' = [custPc EXCEPT ![r] = "commit"]
      /\ UNCHANGED <<custTables, custOp, custRead, custNew>>
  BY DEF CustInsert, CustAt, CustGoto
<1>2. custOp[r] \in CustOps /\ custOp[r] # None
  BY <1>1 DEF CustInv, CustWorkOK, CustTypeOK
<1>3. /\ custNew[r] \in Cust /\ customer[custNew[r]] = None /\ ~BadPhone(custOp[r])
  BY <1>1, <1>2 DEF CustInv, CustInsertOK
<1>4. row \in CustRow /\ row.phone = p
  BY <1>1, <1>2, <1>3, CustOpFields DEF CustRow
<1>5. \A q \in Req \ {r} : custTx[q][custNew[r]] = None
  <2> SUFFICES ASSUME NEW q \in Req \ {r}, custTx[q][custNew[r]] # None PROVE FALSE
    OBVIOUS
  <2>1. custPc[q] = "commit" /\ custNew[r] = Subject(q) /\ custOp[q] # None
    BY <1>3 DEF CustInv, CustWorkOK
  <2>2. custNew[r] # None /\ custNew[r] # custNew[q]
    BY <1>3, CustomersAssumption DEF CustInv, CustLocksOK
  <2>3. ~CustInserts(custOp[q]) /\ custNew[r] = custOp[q].id
    BY <2>1, <2>2 DEF Subject
  <2> QED BY <1>3, <2>1, <2>3 DEF CustInv, CustUpdateOK
<1>6. custNew[r] = Subject(r)
  BY <1>1 DEF Subject
<1> HIDE DEF row
<1>7. row = [name |-> "given", phone |-> CustPhone(custOp[r]), deleted |-> FALSE]
  BY DEF row
<1> QED BY <1>1, <1>3, <1>4, <1>5, <1>6, <1>7, CustWriteStep

LEMMA CustInsertTakenKeepsInv ==
  ASSUME CustInv, NEW r \in Req, CustInsertTaken(r) \/ Refetch(r) \/ CustTxLost(r)
  PROVE  CustInv'
<1>1. CASE CustFail(r)
  BY <1>1, CustFailKeepsInv
<1>2. CASE ~CustFail(r)
  <2>1. /\ custPc[r] = "write" /\ CustInserts(custOp[r])
        /\ custPc' = [custPc EXCEPT ![r] = "refetch"]
        /\ UNCHANGED <<custTables, custOp, custRead, custNew, custTx, custEmit>>
    BY <1>2 DEF CustInsertTaken, Refetch, CustTxLost, CustAt, CustGoto
  <2>2. CustTypeOK'
    BY <2>1 DEF CustInv, CustTypeOK, custTables
  <2>3. \A q \in Req \ {r} : CustRests(q)
    BY <2>1 DEF CustInv, CustTypeOK, CustRests
  <2>4. custPc'[r] = "refetch" /\ customer' = customer
    BY <2>1 DEF CustInv, CustTypeOK, custTables
  <2>5. CustRequestOK(r)'
    BY <2>1, <2>4 DEF CustInv, CustRequestOK, CustInsertOK, CustUpdateOK, CustWorkOK
  <2> QED BY <2>1, <2>2, <2>3, <2>5, CustReadStep
<1> QED BY <1>1, <1>2

LEMMA CustUpdateKeepsInv ==
  ASSUME CustInv, NEW r \in Req, CustUpdate(r) \/ CustUpdateTaken(r)
  PROVE  CustInv'
<1>1. CASE CustFail(r)
  BY <1>1, CustFailKeepsInv
<1>2. CASE ~CustFail(r)
  <2> DEFINE c == custOp[r].id
             row == CustPatched(r, customer[c])
             event == IF custOp[r].kind = "update" THEN "updated" ELSE None
  <2>1. /\ custPc[r] = "write" /\ ~CustInserts(custOp[r]) /\ ~CustLocked(r, c)
        /\ ~PhoneTaken(r, c, row.phone) /\ ~PhoneWaits(r, c, row.phone)
        /\ custTx' = [custTx EXCEPT ![r][c] = row]
        /\ custEmit' = [custEmit EXCEPT ![r] = event]
        /\ custPc' = [custPc EXCEPT ![r] = "commit"]
        /\ UNCHANGED <<custTables, custOp, custRead, custNew>>
    BY <1>2 DEF CustUpdate, CustUpdateTaken, CustAt, CustGoto
  <2>2. custOp[r] \in CustOps /\ custOp[r] # None /\ c \in Cust
    BY <2>1, CustOpFields DEF CustInv, CustWorkOK, CustTypeOK
  <2>3. customer[c] \in CustRow /\ ~BadPhone(custOp[r])
    BY <2>1, <2>2 DEF CustInv, CustUpdateOK, CustTypeOK
  <2>4. row \in CustRow
    BY <2>1, <2>2, <2>3, CustPatchedFields
  <2>5. \A q \in Req \ {r} : custTx[q][c] = None
    BY <2>1 DEF CustLocked
  <2>6. c = Subject(r) /\ event \in {None, "created", "updated"}
    BY <2>1 DEF Subject
  <2>7. row = CustPatched(r, customer[c])
        /\ event = IF custOp[r].kind = "update" THEN "updated" ELSE None
    OBVIOUS
  <2> HIDE DEF row, event
  <2> QED BY <2>1, <2>2, <2>4, <2>5, <2>6, <2>7, CustWriteStep
<1> QED BY <1>1, <1>2

\* COMMIT: the row and its event appear together.
LEMMA CustCommitKeepsInv ==
  ASSUME CustInv, NEW r \in Req, CustCommit(r)
  PROVE  CustInv'
<1> USE DEF CustInv
<1> DEFINE s == Subject(r)
<1>1. /\ custPc[r] = "commit" /\ CustReset(r)
      /\ customer' = [c \in Cust |-> CustView(r, c)]
      /\ custCreated' = IF custEmit[r] = "created"
                        THEN [custCreated EXCEPT ![s] = @ + 1] ELSE custCreated
      /\ announced' = IF custEmit[r] # None
                      THEN [announced EXCEPT ![s] = CustView(r, s).phone] ELSE announced
  BY DEF CustCommit, CustAt, PayloadPhone
<1>2. custOp[r] \in CustOps /\ custOp[r] # None /\ s \in Cust
  <2>1. custOp[r] \in CustOps /\ custOp[r] # None
    BY <1>1 DEF CustWorkOK, CustTypeOK
  <2> QED BY <1>1, <2>1, CustOpFields DEF CustInsertOK, Subject
<1>3. \A c \in Cust : customer'[c] = IF custTx[r][c] # None THEN custTx[r][c] ELSE customer[c]
  BY <1>1 DEF CustView
<1>4. \A c \in Cust : custTx[r][c] # None =>
        /\ c = s /\ custTx[r][c] \in CustRow
        /\ CustInserts(custOp[r]) =>
             /\ customer[c] = None /\ c = custNew[r] /\ custEmit[r] = "created"
        /\ ~CustInserts(custOp[r]) =>
             /\ customer[c] # None /\ c = custOp[r].id
             /\ custTx[r][c] = CustPatched(r, customer[c])
             /\ custEmit[r] = IF custOp[r].kind = "update" THEN "updated" ELSE None
  <2> SUFFICES ASSUME NEW c \in Cust, custTx[r][c] # None
               PROVE  /\ c = s /\ custTx[r][c] \in CustRow
                      /\ CustInserts(custOp[r]) =>
                           /\ customer[c] = None /\ c = custNew[r] /\ custEmit[r] = "created"
                      /\ ~CustInserts(custOp[r]) =>
                           /\ customer[c] # None /\ c = custOp[r].id
                           /\ custTx[r][c] = CustPatched(r, customer[c])
                           /\ custEmit[r] = IF custOp[r].kind = "update" THEN "updated" ELSE None
    OBVIOUS
  <2>1. CustWorkOK(r) /\ CustInsertOK(r) /\ CustUpdateOK(r)
    OBVIOUS
  <2>2. custTx[r][c] \in CustRow
    <3>1. custTx[r] \in [Cust -> CustRow \cup {None}]
      BY DEF CustTypeOK
    <3> QED BY <3>1
  <2>3. CASE CustInserts(custOp[r])
    BY <1>2, <2>1, <2>2, <2>3 DEF CustWorkOK, CustInsertOK, Subject
  <2>4. CASE ~CustInserts(custOp[r])
    BY <1>1, <1>2, <2>1, <2>2, <2>4 DEF CustWorkOK, CustUpdateOK, Subject
  <2> QED BY <2>3, <2>4
<1>5. custEmit[r] # None => custTx[r][s] # None
  BY DEF CustWorkOK
<1>6. \A c \in Cust : custTx[r][c] # None => c = s /\ custTx[r][c] \in CustRow
  BY <1>4
<1>7. \A c \in Cust : customer[c] # None => customer'[c] # None
  BY <1>3
<1>8. ASSUME NEW q \in Req \ {r}, NEW c \in Cust, custTx[q][c] # None \/ custNew[q] = c
      PROVE  customer'[c] = customer[c]
  <2> SUFFICES ASSUME custTx[r][c] # None PROVE FALSE
    BY <1>3
  <2>1. custTx[q][c] = None /\ custNew[q] = c
    BY <1>8 DEF CustLocksOK
  <2>2. customer[c] = None
    BY <2>1, CustomersAssumption DEF CustInsertOK
  <2>3. c = custNew[r] /\ custNew[r] # None
    BY <1>4, <2>2, CustomersAssumption
  <2> QED BY <2>1, <2>3 DEF CustLocksOK
<1>9. CustTypeOK'
  <2>1. customer' \in [Cust -> CustRow \cup {None}]
    BY <1>1, <1>3, <1>6 DEF CustTypeOK
  <2>2. custCreated' \in [Cust -> Nat]
    <3>1. custCreated \in [Cust -> Nat] /\ custCreated[s] + 1 \in Nat
      BY <1>2 DEF CustTypeOK
    <3> QED BY <1>1, <3>1
  <2>3. announced' \in [Cust -> Number \cup Cust \cup {None}]
    <3>1. custEmit[r] # None => CustView(r, s).phone \in Number \cup Cust
      BY <1>2, <1>5, <1>6 DEF CustView, CustRow
    <3> QED BY <1>1, <3>1 DEF CustTypeOK
  <2> QED BY <1>1, <2>1, <2>2, <2>3, CustResetOK DEF CustTypeOK
<1>10. \A q \in Req \ {r} : CustRequestOK(q)'
  BY <1>1, <1>7, <1>8, CustResetOK, CustOthersOK
<1>11. PhoneIndexOK'
  <2>1. \A q \in Req, c \in Cust : custTx'[q][c] = None \/ custTx'[q][c] = custTx[q][c]
    BY <1>1, CustResetOK DEF CustRests
  <2>2. \A c \in Cust : customer'[c] = custTx[r][c] \/ customer'[c] = customer[c]
    BY <1>3
  <2> QED BY <2>1, <2>2 DEF PhoneIndexOK, DifferentPhones
<1>12. CustomersAnnounced'
  <2> SUFFICES ASSUME NEW c \in Cust
               PROVE  /\ custCreated'[c] = (IF customer'[c] # None THEN 1 ELSE 0)
                      /\ customer'[c] # None => \/ announced'[c] = customer'[c].phone
                                                \/ customer'[c].phone = c
    BY DEF CustomersAnnounced
  <2>1. /\ custCreated[c] = (IF customer[c] # None THEN 1 ELSE 0)
        /\ customer[c] # None => \/ announced[c] = customer[c].phone
                                 \/ customer[c].phone = c
    BY DEF CustomersAnnounced
  <2>2. CASE custTx[r][c] = None
    <3>1. customer'[c] = customer[c] /\ (custEmit[r] # None => c # s)
      BY <1>3, <1>5, <2>2
    <3>2. custCreated'[c] = custCreated[c] /\ announced'[c] = announced[c]
      BY <1>1, <3>1, CustomersAssumption DEF CustTypeOK
    <3> QED BY <2>1, <3>1, <3>2
  <2>3. CASE custTx[r][c] # None
    <3>1. c = s /\ customer'[c] = custTx[r][c] /\ CustView(r, s) = custTx[r][c]
      BY <1>3, <1>6, <2>3 DEF CustView
    <3>2. custEmit[r] # None => announced'[c] = customer'[c].phone
      BY <1>1, <3>1 DEF CustTypeOK
    <3>3. CASE CustInserts(custOp[r])
      <4>1. custEmit[r] = "created" /\ customer[c] = None
        BY <1>4, <2>3, <3>3
      <4>2. custCreated'[c] = 1
        BY <1>1, <2>1, <3>1, <4>1 DEF CustTypeOK
      <4> QED BY <2>3, <3>1, <3>2, <4>1, <4>2, CustomersAssumption
    <3>4. CASE ~CustInserts(custOp[r])
      <4>1. /\ customer[c] # None /\ c = custOp[r].id
            /\ custTx[r][c] = CustPatched(r, customer[c])
            /\ custEmit[r] = IF custOp[r].kind = "update" THEN "updated" ELSE None
        BY <1>4, <2>3, <3>4
      <4>2. custCreated'[c] = 1
        BY <1>1, <2>1, <4>1, CustomersAssumption
      <4>3. customer[c] \in CustRow /\ ~BadPhone(custOp[r])
        BY <1>1, <1>2, <3>4, <4>1 DEF CustTypeOK, CustUpdateOK
      <4>4. custOp[r].kind # "update" => announced' = announced
        BY <1>1, <4>1
      <4>5. CASE custOp[r].kind = "update"
        BY <2>3, <3>1, <3>2, <4>1, <4>2, <4>5, CustomersAssumption
      <4>6. CASE custOp[r].kind = "remove"
        BY <1>2, <2>1, <2>3, <3>1, <3>4, <4>1, <4>2, <4>3, <4>4, <4>6, CustPatchedFields
      <4>7. CASE custOp[r].kind = "purge"
        BY <1>2, <2>3, <3>1, <3>4, <4>1, <4>2, <4>3, <4>7, CustPatchedFields
      <4> QED BY <1>2, <3>4, <4>5, <4>6, <4>7, CustOpFields DEF CustInserts
    <3> QED BY <3>3, <3>4
  <2> QED BY <2>2, <2>3
<1> QED BY <1>1, <1>9, <1>10, <1>11, <1>12, CustResetOK DEF CustRequestOK

-----------------------------------------------------------------------------
\* Customers: the theorems.

\* CustInv is inductive.
THEOREM CustomersInvariant == CustSpec => []CustInv
<1>1. CustInit => CustInv
  <2> SUFFICES ASSUME CustInit PROVE CustInv
    OBVIOUS
  <2> USE DEF CustInit
  <2>1. NoCustRows \in [Cust -> CustRow \cup {None}] /\ \A c \in Cust : NoCustRows[c] = None
    BY DEF NoCustRows
  <2> HIDE DEF NoCustRows
  <2>2. CustTypeOK
    BY <2>1 DEF CustTypeOK
  <2>3. \A r \in Req : CustInsertOK(r) /\ CustUpdateOK(r) /\ CustWorkOK(r)
    BY <2>1 DEF CustInsertOK, CustUpdateOK, CustWorkOK
  <2>4. CustLocksOK /\ PhoneIndexOK /\ CustomersAnnounced
    BY <2>1 DEF CustLocksOK, PhoneIndexOK, DifferentPhones, CustomersAnnounced
  <2> QED BY <2>2, <2>3, <2>4 DEF CustInv
<1>2. CustInv /\ [CustNext]_custVars => CustInv'
  <2> SUFFICES ASSUME CustInv, [CustNext]_custVars PROVE CustInv'
    OBVIOUS
  <2>1. ASSUME NEW r \in Req, CustBegin(r) \/ CustFindOne(r) \/ FindByPhone(r) PROVE CustInv'
    BY <2>1, CustBeginKeepsInv, CustFindOneKeepsInv, FindByPhoneKeepsInv
  <2>2. ASSUME NEW r \in Req, CustInsert(r) \/ CustInsertTaken(r) \/ Refetch(r) \/ CustTxLost(r)
        PROVE  CustInv'
    BY <2>2, CustInsertKeepsInv, CustInsertTakenKeepsInv
  <2>3. ASSUME NEW r \in Req, CustUpdate(r) \/ CustUpdateTaken(r) \/ CustCommit(r) PROVE CustInv'
    BY <2>3, CustUpdateKeepsInv, CustCommitKeepsInv
  <2>4. CASE UNCHANGED custVars
    <3>1. UNCHANGED <<custTables, custOp, custNew, custTx, custEmit>>
          /\ UNCHANGED <<customer, custCreated, announced, custPc, custRead>>
      BY <2>4 DEF custVars, custTables
    <3>2. CustTypeOK'
      BY <3>1 DEF CustInv, CustTypeOK
    <3>3. \A q \in Req : CustRequestOK(q)'
      BY <3>1, CustOthersOK DEF CustRests
    <3>4. CustLocksOK' /\ PhoneIndexOK' /\ CustomersAnnounced'
      BY <3>1 DEF CustInv, CustLocksOK, PhoneIndexOK, DifferentPhones, CustomersAnnounced
    <3> QED BY <3>2, <3>3, <3>4 DEF CustInv, CustRequestOK
  <2> QED BY <2>1, <2>2, <2>3, <2>4 DEF CustNext
<1> QED BY <1>1, <1>2, PTL DEF CustSpec

\* The unique index on the canonical phone holds against every interleaving of
\* create, findOrCreate, update and purge.
THEOREM PhonesAreUnique == CustSpec => []OneOwnerPerPhone
<1>1. CustInv => OneOwnerPerPhone
  BY DEF CustInv, PhoneIndexOK, DifferentPhones, OneOwnerPerPhone
<1> QED BY <1>1, CustomersInvariant, PTL

\* CustomersService announces every committed customer once and with its phone.
THEOREM AnnouncementsAreTrue == CustSpec => []CustomersAnnounced
<1>1. CustInv => CustomersAnnounced
  BY DEF CustInv
<1> QED BY <1>1, CustomersInvariant, PTL

\* Only a request that had read it alive changes a deleted customer.
THEOREM OnlyRacesTouchDeleted == CustSpec => DeletedIsFrozen
<1> DEFINE Frozen(c) ==
      customer[c] # None /\ customer[c].deleted /\ customer'[c] # customer[c]
        => \E r \in Req : /\ CustAt(r, "commit") /\ ~CustInserts(custOp[r])
                          /\ custOp[r].id = c /\ ~custRead[r].deleted
<1>1. CustInv /\ [CustNext]_custVars => [\A c \in Cust : Frozen(c)]_custVars
  <2> SUFFICES ASSUME CustInv, CustNext, NEW c \in Cust,
                      customer[c] # None, customer'[c] # customer[c]
               PROVE  \E r \in Req : /\ CustAt(r, "commit") /\ ~CustInserts(custOp[r])
                                     /\ custOp[r].id = c /\ ~custRead[r].deleted
    BY Zenon
  <2>1. PICK r \in Req : CustCommit(r)
    BY DEF CustNext, CustBegin, CustFindOne, FindByPhone, CustInsert, CustInsertTaken, Refetch,
       CustUpdate, CustUpdateTaken, CustTxLost, CustFail, custTables
  <2>2. CustAt(r, "commit") /\ custTx[r][c] # None
    BY <2>1 DEF CustCommit, CustView
  <2>3. c = Subject(r) /\ custOp[r] # None /\ custPc[r] = "commit"
    BY <2>2 DEF CustInv, CustWorkOK, CustAt
  <2>4. ~CustInserts(custOp[r])
    BY <2>3 DEF CustInv, CustInsertOK, Subject
  <2>5. CustFound(custRead[r])
    BY <2>3, <2>4 DEF CustInv, CustUpdateOK
  <2> QED BY <2>2, <2>3, <2>4, <2>5, Zenon DEF CustFound, Subject
<1> QED BY <1>1, CustomersInvariant, PTL DEF CustSpec, DeletedIsFrozen, Frozen

-----------------------------------------------------------------------------
\* Conversations: lemmas about operations.

LEMMA ConvOpFields ==
  ASSUME NEW o \in ConvOps
  PROVE  /\ o # None
         /\ o.kind \in {"start", "append", "close"}
         /\ o.kind = "start" => o.room \in Room \cup {None}
         /\ o.kind = "append" => o.id \in Conv /\ o.turn \in Turn
         /\ o.kind = "close" => o.id \in Conv /\ o.reason \in Reason /\ o.reason # None
BY ConversationsAssumption DEF ConvOp, StartConversationDto, AppendMessageDto, CloseConversationDto

\* An UPDATE keeps the room; append counts, close sets the reason.
LEMMA ConvPatchedFields ==
  ASSUME NEW r \in Req, convOp[r] \in ConvOps, convOp[r].kind # "start", NEW row \in ConvRow
  PROVE  /\ ConvPatched(r, row) \in ConvRow /\ ConvPatched(r, row) # None
         /\ ConvPatched(r, row).room = row.room
         /\ convOp[r].kind = "append" =>
              ConvPatched(r, row).count = row.count + 1 /\ ConvPatched(r, row).ended = row.ended
         /\ convOp[r].kind = "close" =>
              /\ ConvPatched(r, row).count = row.count
              /\ ConvPatched(r, row).ended = convOp[r].reason /\ convOp[r].reason # None
<1>1. CASE convOp[r].kind = "append"
  <2>1. ConvPatched(r, row) = [row EXCEPT !.count = row.count + 1] /\ row.count + 1 \in Nat
    BY <1>1 DEF ConvPatched, ConvRow
  <2>2. ConvPatched(r, row) \in ConvRow
    BY <2>1 DEF ConvRow
  <2>3. /\ ConvPatched(r, row).room = row.room /\ ConvPatched(r, row).ended = row.ended
        /\ ConvPatched(r, row).count = row.count + 1
    BY <2>1 DEF ConvRow
  <2> QED BY <1>1, <2>2, <2>3, ConversationsAssumption
<1>2. CASE convOp[r].kind = "close"
  <2>1. ConvPatched(r, row) = [row EXCEPT !.ended = convOp[r].reason]
        /\ convOp[r].reason \in Reason /\ convOp[r].reason # None
    BY <1>2, ConvOpFields DEF ConvPatched
  <2>2. ConvPatched(r, row) \in ConvRow
    BY <2>1 DEF ConvRow
  <2>3. /\ ConvPatched(r, row).room = row.room /\ ConvPatched(r, row).count = row.count
        /\ ConvPatched(r, row).ended = convOp[r].reason
    BY <2>1 DEF ConvRow
  <2> QED BY <1>2, <2>1, <2>2, <2>3, ConversationsAssumption
<1> QED BY <1>1, <1>2, ConvOpFields

-----------------------------------------------------------------------------
\* Conversations: what a step leaves alone.

\* The request q takes no step.
ConvRests(q) ==
  /\ convOp'[q] = convOp[q] /\ convPc'[q] = convPc[q] /\ convRead'[q] = convRead[q]
  /\ convTx'[q] = convTx[q] /\ messageTx'[q] = messageTx[q]

\* Conversations are never deleted and never reopened.
ConvsGrow ==
  \A c \in Conv : conv[c] # None =>
    conv'[c] # None /\ (conv[c].ended # None => conv'[c].ended # None)

LEMMA ConvOthersOK ==
  ASSUME ConvInv, NEW q \in Req, ConvRests(q), ConvsGrow,
         \A c \in Conv : convTx[q][c] # None => conv'[c] = conv[c],
         \A k \in Conv \X Turn : messageTx[q][k] # None => message'[k] = message[k]
  PROVE  ConvRequestOK(q)'
<1>1. ConvRequestOK(q) /\ (convOp[q] # None => convOp[q] \in ConvOps)
  BY DEF ConvInv, ConvTypeOK
<1>2. ConvReadOK(q)'
  <2>1. convOp[q] # None /\ convOp[q].kind # "start" => convOp[q].id \in Conv
    BY <1>1, ConvOpFields
  <2> QED BY <1>1, <2>1 DEF ConvRequestOK, ConvReadOK, ConvRests, ConvsGrow
<1>3. ConvTxOK(q)'
  <2>1. \A c \in Conv : convTx[q][c] # None =>
          ConvPatched(q, conv[c])' = ConvPatched(q, conv[c])
    BY DEF ConvRests, ConvPatched
  <2> QED BY <1>1, <2>1 DEF ConvRequestOK, ConvTxOK, ConvRests
<1>4. MessageTxOK(q)'
  <2>1. Slot(q)' = Slot(q)
    BY DEF ConvRests, Slot
  <2> QED BY <1>1, <2>1 DEF ConvRequestOK, MessageTxOK, ConvRests
<1> QED BY <1>1, <1>2, <1>3, <1>4 DEF ConvRequestOK, ConvRests

LEMMA ConvTablesStay ==
  ASSUME ConvInv, UNCHANGED convTables
  PROVE  /\ UNCHANGED <<conv, message, roomAnswers>> /\ ConvsGrow
         /\ TurnsAreTrue' /\ (\A c \in Conv : TurnsOK(c)') /\ AnswersOK'
BY DEF ConvInv, convTables, ConvsGrow, TurnsAreTrue, TurnsOK, StoredTurns, AnswersOK

\* A statement that writes nothing.
LEMMA ConvReadStep ==
  ASSUME ConvInv, NEW r \in Req, UNCHANGED <<convTables, convTx, messageTx>>,
         \A q \in Req \ {r} : ConvRests(q), ConvTypeOK', ConvRequestOK(r)'
  PROVE  ConvInv'
<1>1. \A q \in Req : ConvRequestOK(q)'
  BY ConvTablesStay, ConvOthersOK
<1>2. ConvLocksOK' /\ RoomIndexOK'
  BY ConvTablesStay DEF ConvInv, ConvLocksOK, RoomIndexOK, DifferentRooms
<1> QED BY <1>1, <1>2, ConvTablesStay DEF ConvInv

\* The end of a request.
LEMMA ConvResetOK ==
  ASSUME ConvInv, NEW r \in Req, ConvReset(r)
  PROVE  /\ convOp' \in [Req -> ConvOps \cup {None}]
         /\ convPc' \in [Req -> {"idle", "findRoom", "insertConv", "findConv", "findTurn",
                                 "insertMessage", "updateConv", "commit"}]
         /\ convRead' \in [Req -> ConvRow \cup {None}]
         /\ convTx' \in [Req -> [Conv -> ConvRow \cup {None}]]
         /\ messageTx' \in [Req -> [Conv \X Turn -> Message \cup {None}]]
         /\ ConvRequestOK(r)' /\ ConvLocksOK'
         /\ \A q \in Req \ {r} : ConvRests(q)
         /\ \A c \in Conv : convTx'[r][c] = None
<1> USE DEF ConvInv
<1>1. /\ NoConvs \in [Conv -> ConvRow \cup {None}] /\ \A c \in Conv : NoConvs[c] = None
      /\ NoMessages \in [Conv \X Turn -> Message \cup {None}]
      /\ \A k \in Conv \X Turn : NoMessages[k] = None
  BY DEF NoConvs, NoMessages
<1>2. /\ convOp' = [convOp EXCEPT ![r] = None] /\ convPc' = [convPc EXCEPT ![r] = "idle"]
      /\ convRead' = [convRead EXCEPT ![r] = None] /\ convTx' = [convTx EXCEPT ![r] = NoConvs]
      /\ messageTx' = [messageTx EXCEPT ![r] = NoMessages]
  BY DEF ConvReset
<1> HIDE DEF NoConvs, NoMessages
<1>3. /\ convOp' \in [Req -> ConvOps \cup {None}]
      /\ convPc' \in [Req -> {"idle", "findRoom", "insertConv", "findConv", "findTurn",
                              "insertMessage", "updateConv", "commit"}]
      /\ convRead' \in [Req -> ConvRow \cup {None}]
      /\ convTx' \in [Req -> [Conv -> ConvRow \cup {None}]]
      /\ messageTx' \in [Req -> [Conv \X Turn -> Message \cup {None}]]
  BY <1>1, <1>2 DEF ConvTypeOK
<1>4. /\ convOp'[r] = None /\ convPc'[r] = "idle" /\ convTx'[r] = NoConvs
      /\ messageTx'[r] = NoMessages
  BY <1>2 DEF ConvTypeOK
<1>5. /\ \A c \in Conv : convTx'[r][c] = None
      /\ \A k \in Conv \X Turn : messageTx'[r][k] = None
  BY <1>1, <1>4
<1>6. ConvRequestOK(r)'
  BY <1>4, <1>5 DEF ConvRequestOK, ConvReadOK, ConvTxOK, MessageTxOK
<1>7. \A q \in Req \ {r} : ConvRests(q)
  BY <1>2 DEF ConvRests, ConvTypeOK
<1>8. ConvLocksOK'
  BY <1>5, <1>7 DEF ConvLocksOK, ConvRests
<1> QED BY <1>3, <1>5, <1>6, <1>7, <1>8

\* ROLLBACK.
LEMMA ConvFailKeepsInv ==
  ASSUME ConvInv, NEW r \in Req, ConvFail(r)
  PROVE  ConvInv'
<1>1. ConvReset(r) /\ UNCHANGED convTables /\ UNCHANGED <<conv, message, roomAnswers>>
  BY DEF ConvFail, convTables
<1>2. ConvTypeOK'
  BY <1>1, ConvResetOK DEF ConvInv, ConvTypeOK
<1>3. \A q \in Req : ConvRequestOK(q)'
  BY <1>1, ConvResetOK, ConvTablesStay, ConvOthersOK
<1>4. \A q \in Req, c \in Conv : convTx'[q][c] = None \/ convTx'[q][c] = convTx[q][c]
  BY <1>1, ConvResetOK DEF ConvRests
<1>5. RoomIndexOK'
  BY <1>1, <1>4 DEF ConvInv, RoomIndexOK, DifferentRooms
<1> QED BY <1>1, <1>2, <1>3, <1>5, ConvResetOK, ConvTablesStay DEF ConvInv

-----------------------------------------------------------------------------
\* Conversations: the invariant, action by action.

LEMMA ConvBeginKeepsInv ==
  ASSUME ConvInv, NEW r \in Req, ConvBegin(r)
  PROVE  ConvInv'
<1> USE DEF ConvInv
<1>1. PICK o \in ConvOps, next \in {"findRoom", "insertConv", "findConv"} :
        /\ convOp' = [convOp EXCEPT ![r] = o] /\ convPc' = [convPc EXCEPT ![r] = next]
        /\ o.kind = "start" <=> next # "findConv"
  <2>1. PICK o \in ConvOps :
          /\ convOp' = [convOp EXCEPT ![r] = o]
          /\ convPc' = [convPc EXCEPT ![r] =
               CASE o.kind = "start" /\ o.room # None -> "findRoom"
                 [] o.kind = "start" /\ o.room = None -> "insertConv"
                 [] OTHER                             -> "findConv"]
    BY DEF ConvBegin, ConvGoto
  <2>2. CASE o.kind = "start" /\ o.room # None
    BY <2>1, <2>2
  <2>3. CASE o.kind = "start" /\ o.room = None
    BY <2>1, <2>3
  <2>4. CASE o.kind # "start"
    BY <2>1, <2>4
  <2> QED BY <2>2, <2>3, <2>4
<1>2. convOp[r] = None /\ UNCHANGED <<convTables, convRead, convTx, messageTx>>
  BY DEF ConvBegin
<1>3. ConvTypeOK'
  BY <1>1, <1>2 DEF ConvTypeOK, convTables
<1>4. \A q \in Req \ {r} : ConvRests(q)
  BY <1>1, <1>2 DEF ConvRests, ConvTypeOK
<1>5. /\ \A c \in Conv : convTx[r][c] = None
      /\ \A k \in Conv \X Turn : messageTx[r][k] = None
  BY <1>2 DEF ConvRequestOK, ConvTxOK, MessageTxOK
<1>6. /\ convOp'[r] = o /\ convPc'[r] = next /\ o # None
      /\ o.kind \in {"start", "append", "close"} /\ (o.kind # "start" => o.id \in Conv)
  BY <1>1, ConvOpFields DEF ConvTypeOK
<1>7. ConvRequestOK(r)'
  <2>1. convPc'[r] \in ConvPcs(convOp'[r].kind)
    BY <1>1, <1>6 DEF ConvPcs
  <2>2. ConvReadOK(r)' /\ ConvTxOK(r)' /\ MessageTxOK(r)'
    BY <1>1, <1>2, <1>5, <1>6 DEF ConvReadOK, ConvTxOK, MessageTxOK
  <2> QED BY <1>6, <2>1, <2>2 DEF ConvRequestOK
<1> QED BY <1>2, <1>3, <1>4, <1>7, ConvReadStep

\* Where a request with an operation is, and what it has not written yet.
LEMMA ConvAtFacts ==
  ASSUME ConvInv, NEW r \in Req, convPc[r] # "idle"
  PROVE  /\ convOp[r] \in ConvOps /\ convOp[r] # None
         /\ convPc[r] \in {"findRoom", "insertConv"} => convOp[r].kind = "start"
         /\ convPc[r] \in {"findTurn", "insertMessage"} => convOp[r].kind = "append"
         /\ convPc[r] \in {"findConv", "updateConv"} => convOp[r].kind \in {"append", "close"}
         /\ convPc[r] # "commit" => \A c \in Conv : convTx[r][c] = None
         /\ convPc[r] \notin {"updateConv", "commit"} =>
              \A k \in Conv \X Turn : messageTx[r][k] = None
<1>1. convOp[r] # None /\ convOp[r] \in ConvOps /\ convPc[r] \in ConvPcs(convOp[r].kind)
  BY DEF ConvInv, ConvRequestOK, ConvTypeOK
<1>2. /\ convOp[r].kind = "start" => convPc[r] \in {"findRoom", "insertConv", "commit"}
      /\ convOp[r].kind = "append" =>
           convPc[r] \in {"findConv", "findTurn", "insertMessage", "updateConv", "commit"}
      /\ convOp[r].kind = "close" => convPc[r] \in {"findConv", "updateConv", "commit"}
      /\ convOp[r].kind \in {"start", "append", "close"}
  BY <1>1, ConvOpFields DEF ConvPcs
<1>3. /\ convPc[r] # "commit" => \A c \in Conv : convTx[r][c] = None
      /\ convPc[r] \notin {"updateConv", "commit"} =>
           \A k \in Conv \X Turn : messageTx[r][k] = None
  BY DEF ConvInv, ConvRequestOK, ConvTxOK, MessageTxOK
<1> QED BY <1>1, <1>2, <1>3

LEMMA FindRoomKeepsInv ==
  ASSUME ConvInv, NEW r \in Req, FindRoom(r)
  PROVE  ConvInv'
<1>1. PICK next \in {"commit", "insertConv"} : convPc' = [convPc EXCEPT ![r] = next]
  BY DEF FindRoom, ConvGoto
<1>2. convPc[r] = "findRoom" /\ UNCHANGED <<convTables, convOp, convRead, convTx, messageTx>>
  BY DEF FindRoom, ConvAt
<1>3. ConvTypeOK' /\ convPc'[r] = next
  BY <1>1, <1>2 DEF ConvInv, ConvTypeOK, convTables
<1>4. \A q \in Req \ {r} : ConvRests(q)
  BY <1>1, <1>2 DEF ConvInv, ConvRests, ConvTypeOK
<1>5. ConvRequestOK(r)'
  <2>1. convPc'[r] \in ConvPcs(convOp'[r].kind)
    BY <1>2, <1>3, ConvAtFacts DEF ConvPcs
  <2>2. ConvReadOK(r)' /\ ConvTxOK(r)' /\ MessageTxOK(r)'
    BY <1>2, <1>3, ConvAtFacts DEF ConvReadOK, ConvTxOK, MessageTxOK
  <2> QED BY <1>2, <2>1, <2>2, ConvAtFacts DEF ConvRequestOK
<1> QED BY <1>2, <1>3, <1>4, <1>5, ConvReadStep

LEMMA FindConvKeepsInv ==
  ASSUME ConvInv, NEW r \in Req, FindConv(r)
  PROVE  ConvInv'
<1> DEFINE row == conv[convOp[r].id]
           next == AfterFindConv(convOp[r], row)
<1>1. CASE ConvFail(r)
  BY <1>1, ConvFailKeepsInv
<1>2. CASE ~ConvFail(r)
  <2>1. /\ convPc[r] = "findConv" /\ row # None
        /\ convRead' = [convRead EXCEPT ![r] = row] /\ convPc' = [convPc EXCEPT ![r] = next]
        /\ UNCHANGED <<convTables, convOp, convTx, messageTx>>
    BY <1>2 DEF FindConv, ConvAt, ConvGoto, ConvAccepts
  <2>2. /\ convOp[r] \in ConvOps /\ convOp[r].kind \in {"append", "close"} /\ convOp[r].id \in Conv
        /\ \A c \in Conv : convTx[r][c] = None
        /\ \A k \in Conv \X Turn : messageTx[r][k] = None
    BY <2>1, ConvAtFacts, ConvOpFields
  <2>3. /\ next \in {"findTurn", "commit", "updateConv"}
        /\ convOp[r].kind = "append" => next = "findTurn"
        /\ convOp[r].kind = "close" =>
             next \in {"commit", "updateConv"} /\ (next = "updateConv" => row.ended = None)
    <3> DEFINE ended == row.ended # None
    <3> HIDE DEF ended
    <3>1. next = CASE convOp[r].kind = "append"           -> "findTurn"
                   [] convOp[r].kind = "close" /\ ended   -> "commit"
                   [] OTHER                               -> "updateConv"
      BY DEF AfterFindConv, ended
    <3> HIDE DEF next
    <3>2. CASE convOp[r].kind = "append"
      BY <3>1, <3>2
    <3>3. CASE convOp[r].kind = "close" /\ ended
      BY <3>1, <3>3
    <3>4. CASE convOp[r].kind = "close" /\ ~ended
      <4>1. next = "updateConv"
        BY <3>1, <3>4
      <4> QED BY <3>4, <4>1 DEF ended
    <3> QED BY <2>2, <3>2, <3>3, <3>4
  <2> HIDE DEF next
  <2>4. row \in ConvRow
    BY <2>1, <2>2 DEF ConvInv, ConvTypeOK
  <2>5. ConvTypeOK' /\ convPc'[r] = next /\ convRead'[r] = row /\ conv' = conv
    BY <2>1, <2>3, <2>4 DEF ConvInv, ConvTypeOK, convTables
  <2>6. \A q \in Req \ {r} : ConvRests(q)
    BY <2>1 DEF ConvInv, ConvRests, ConvTypeOK
  <2>7. ConvRequestOK(r)'
    <3>1. convPc'[r] \in ConvPcs(convOp'[r].kind) /\ convOp'[r] # None
      BY <2>1, <2>2, <2>3, <2>5, ConvOpFields DEF ConvPcs
    <3>2. ConvReadOK(r)'
      BY <2>1, <2>2, <2>3, <2>5 DEF ConvReadOK
    <3>3. ConvTxOK(r)' /\ MessageTxOK(r)'
      BY <2>1, <2>2, <2>3, <2>5 DEF ConvTxOK, MessageTxOK
    <3> QED BY <3>1, <3>2, <3>3 DEF ConvRequestOK
  <2> QED BY <2>1, <2>5, <2>6, <2>7, ConvReadStep
<1> QED BY <1>1, <1>2

LEMMA FindTurnKeepsInv ==
  ASSUME ConvInv, NEW r \in Req, FindTurn(r)
  PROVE  ConvInv'
<1>1. PICK next \in {"commit", "insertMessage"} : convPc' = [convPc EXCEPT ![r] = next]
  BY DEF FindTurn, ConvGoto
<1>2. convPc[r] = "findTurn" /\ UNCHANGED <<convTables, convOp, convRead, convTx, messageTx>>
  BY DEF FindTurn, ConvAt
<1>3. ConvTypeOK' /\ convPc'[r] = next /\ conv' = conv
  BY <1>1, <1>2 DEF ConvInv, ConvTypeOK, convTables
<1>4. \A q \in Req \ {r} : ConvRests(q)
  BY <1>1, <1>2 DEF ConvInv, ConvRests, ConvTypeOK
<1>5. convOp[r] \in ConvOps /\ convOp[r].kind = "append" /\ convOp[r].id \in Conv
  BY <1>2, ConvAtFacts, ConvOpFields
<1>6. ConvRequestOK(r)'
  <2>1. convPc'[r] \in ConvPcs(convOp'[r].kind) /\ convOp'[r] # None
    BY <1>2, <1>3, <1>5, ConvAtFacts DEF ConvPcs
  <2>2. ConvReadOK(r)'
    BY <1>2, <1>3, <1>5 DEF ConvInv, ConvRequestOK, ConvReadOK
  <2>3. ConvTxOK(r)' /\ MessageTxOK(r)'
    BY <1>2, <1>3, <1>5, ConvAtFacts DEF ConvTxOK, MessageTxOK
  <2> QED BY <2>1, <2>2, <2>3 DEF ConvRequestOK
<1> QED BY <1>2, <1>3, <1>4, <1>6, ConvReadStep

\* A write of one conversation row, which nobody else has locked: row has the room of
\* the committed version, or one that no other version has.
LEMMA ConvWriteStep ==
  ASSUME ConvInv, NEW r \in Req, NEW c \in Conv, NEW row \in ConvRow,
         convPc[r] \in {"insertConv", "updateConv"}, convPc' = [convPc EXCEPT ![r] = "commit"],
         convTx' = [convTx EXCEPT ![r][c] = row],
         \A q \in Req \ {r} : convTx[q][c] = None,
         UNCHANGED <<convTables, convOp, convRead, messageTx>>,
         \A d \in Conv \ {c} :
           /\ DifferentRooms(row, conv[d]) /\ DifferentRooms(conv[d], row)
           /\ \A q \in Req \ {r} : DifferentRooms(row, convTx[q][d])
                                   /\ DifferentRooms(convTx[q][d], row),
         (ConvTxOK(r) /\ ConvReadOK(r) /\ MessageTxOK(r))'
  PROVE  ConvInv'
<1>1. UNCHANGED <<conv, message, roomAnswers>>
  BY DEF convTables
<1>2. /\ convOp[r] \in ConvOps /\ convOp[r] # None /\ \A d \in Conv : convTx[r][d] = None
  BY ConvAtFacts
<1>3. ConvTypeOK'
  <2>1. convTx' \in [Req -> [Conv -> ConvRow \cup {None}]]
    BY DEF ConvInv, ConvTypeOK
  <2> QED BY <1>1, <2>1 DEF ConvInv, ConvTypeOK
<1>4. convPc'[r] = "commit" /\ \A d \in Conv : convTx'[r][d] = IF d = c THEN row ELSE None
  BY <1>2 DEF ConvInv, ConvTypeOK
<1>5. \A q \in Req \ {r} : ConvRests(q)
  BY DEF ConvInv, ConvRests, ConvTypeOK
<1>6. \A q \in Req : ConvRequestOK(q)'
  <2>1. convPc'[r] \in ConvPcs(convOp'[r].kind)
    BY <1>2, <1>4, ConvOpFields DEF ConvPcs
  <2>2. ConvRequestOK(r)'
    BY <1>2, <2>1 DEF ConvRequestOK
  <2>3. \A q \in Req \ {r} : ConvRequestOK(q)'
    BY <1>1, <1>5, ConvOthersOK, ConvTablesStay
  <2> QED BY <2>2, <2>3
<1>7. ConvLocksOK'
  BY <1>4, <1>5 DEF ConvInv, ConvLocksOK, ConvRests
<1>8. RoomIndexOK'
  <2>1. \A q \in Req, d \in Conv :
          convTx'[q][d] = IF q = r /\ d = c THEN row ELSE convTx[q][d]
    BY <1>2, <1>4, <1>5 DEF ConvRests
  <2>2. \A d \in Conv \ {c} :
          /\ DifferentRooms(row, conv[d]) /\ DifferentRooms(conv[d], row)
          /\ \A q \in Req : DifferentRooms(row, convTx[q][d]) /\ DifferentRooms(convTx[q][d], row)
    BY <1>2 DEF DifferentRooms
  <2>3. ASSUME NEW d \in Conv, NEW e \in Conv, d # e
        PROVE  /\ DifferentRooms(conv[d], conv[e])
               /\ \A q \in Req : DifferentRooms(convTx'[q][d], conv[e])
               /\ \A p, q \in Req : DifferentRooms(convTx'[p][d], convTx'[q][e])
    BY <2>1, <2>2, <2>3 DEF ConvInv, RoomIndexOK
  <2> QED BY <1>1, <2>3 DEF RoomIndexOK, DifferentRooms
<1> QED BY <1>3, <1>6, <1>7, <1>8, ConvTablesStay DEF ConvInv

LEMMA StartConvKeepsInv ==
  ASSUME ConvInv, NEW r \in Req, StartConv(r)
  PROVE  ConvInv'
<1> DEFINE row == [room |-> convOp[r].room, ended |-> None, count |-> 0]
           free == {c \in Conv : conv[c] = None /\ ~ConvLocked(r, c)}
<1>1. /\ convPc[r] = "insertConv" /\ ~RoomWaits(r) /\ ~RoomTaken(r)
      /\ convPc' = [convPc EXCEPT ![r] = "commit"]
      /\ UNCHANGED <<convTables, convOp, convRead, messageTx>>
  BY DEF StartConv, ConvAt, ConvGoto
<1>2. PICK c \in free : convTx' = [convTx EXCEPT ![r][c] = row]
  <2>1. (CHOOSE x \in free : TRUE) \in free
    BY Zenon DEF StartConv
  <2> QED BY <2>1, Zenon DEF StartConv
<1>3. c \in Conv /\ conv[c] = None /\ \A q \in Req \ {r} : convTx[q][c] = None
  BY DEF ConvLocked
<1>4. /\ convOp[r] \in ConvOps /\ convOp[r] # None /\ convOp[r].kind = "start"
      /\ convOp[r].room \in Room \cup {None}
      /\ \A d \in Conv : convTx[r][d] = None
      /\ \A k \in Conv \X Turn : messageTx[r][k] = None
  BY <1>1, ConvAtFacts, ConvOpFields
<1>5. row \in ConvRow /\ row.room = convOp[r].room
  BY <1>4 DEF ConvRow
<1>6. ASSUME NEW d \in Conv \ {c}
      PROVE  /\ DifferentRooms(row, conv[d]) /\ DifferentRooms(conv[d], row)
             /\ \A q \in Req \ {r} : DifferentRooms(row, convTx[q][d])
                                     /\ DifferentRooms(convTx[q][d], row)
  BY <1>1, <1>5 DEF RoomWaits, RoomTaken, InRoom, DifferentRooms
<1> HIDE DEF row, free
<1>7. convPc'[r] = "commit" /\ conv' = conv
      /\ \A d \in Conv : convTx'[r][d] = IF d = c THEN row ELSE None
  BY <1>1, <1>2, <1>3, <1>4 DEF ConvInv, ConvTypeOK, convTables
<1>8. (ConvTxOK(r) /\ ConvReadOK(r) /\ MessageTxOK(r))'
  BY <1>1, <1>3, <1>4, <1>7 DEF ConvTxOK, ConvReadOK, MessageTxOK, row
<1> QED BY <1>1, <1>2, <1>3, <1>5, <1>6, <1>8, ConvWriteStep

LEMMA UpdateConvKeepsInv ==
  ASSUME ConvInv, NEW r \in Req, UpdateConv(r)
  PROVE  ConvInv'
<1> DEFINE c == convOp[r].id
           row == ConvPatched(r, conv[c])
<1>1. /\ convPc[r] = "updateConv" /\ ~ConvLocked(r, c)
      /\ convTx' = [convTx EXCEPT ![r][c] = row] /\ convPc' = [convPc EXCEPT ![r] = "commit"]
      /\ UNCHANGED <<convTables, convOp, convRead, messageTx>>
  BY DEF UpdateConv, ConvAt, ConvGoto
<1>2. /\ convOp[r] \in ConvOps /\ convOp[r] # None /\ convOp[r].kind \in {"append", "close"}
      /\ c \in Conv /\ \A d \in Conv : convTx[r][d] = None
      /\ \A q \in Req \ {r} : convTx[q][c] = None
  BY <1>1, ConvAtFacts, ConvOpFields DEF ConvLocked
<1>3. ConvReadOK(r) /\ MessageTxOK(r) /\ conv[c] # None /\ conv[c] \in ConvRow
  BY <1>1, <1>2 DEF ConvInv, ConvRequestOK, ConvReadOK, ConvTypeOK
<1>4. row \in ConvRow /\ row.room = conv[c].room /\ row # None
  BY <1>2, <1>3, ConvPatchedFields
<1>5. ASSUME NEW d \in Conv \ {c}
      PROVE  /\ DifferentRooms(row, conv[d]) /\ DifferentRooms(conv[d], row)
             /\ \A q \in Req \ {r} : DifferentRooms(row, convTx[q][d])
                                     /\ DifferentRooms(convTx[q][d], row)
  <2>1. /\ DifferentRooms(conv[c], conv[d]) /\ DifferentRooms(conv[d], conv[c])
        /\ \A q \in Req : DifferentRooms(convTx[q][d], conv[c])
    BY <1>2 DEF ConvInv, RoomIndexOK
  <2> QED BY <1>3, <1>4, <2>1 DEF DifferentRooms
<1> HIDE DEF row
<1>6. convPc'[r] = "commit" /\ conv' = conv /\ message' = message
      /\ \A d \in Conv : convTx'[r][d] = IF d = c THEN row ELSE None
  BY <1>1, <1>2 DEF ConvInv, ConvTypeOK, convTables
<1>7. ConvTxOK(r)'
  BY <1>1, <1>2, <1>6 DEF ConvTxOK, row, ConvPatched
<1>8. ConvReadOK(r)' /\ MessageTxOK(r)'
  BY <1>1, <1>2, <1>3, <1>4, <1>6 DEF ConvReadOK, MessageTxOK, Slot
<1> QED BY <1>1, <1>2, <1>4, <1>5, <1>7, <1>8, ConvWriteStep

LEMMA InsertMessageKeepsInv ==
  ASSUME ConvInv, NEW r \in Req, InsertMessage(r)
  PROVE  ConvInv'
<1> USE DEF ConvInv
<1> DEFINE k == Slot(r)
           turn == [late |-> convRead[r].ended # None]
<1>1. /\ convPc[r] = "insertMessage" /\ ~TurnWaits(r) /\ message[k] = None
      /\ messageTx' = [messageTx EXCEPT ![r][k] = turn]
      /\ convPc' = [convPc EXCEPT ![r] = "updateConv"]
      /\ UNCHANGED <<convTables, convOp, convRead, convTx>>
  BY DEF InsertMessage, ConvAt, ConvGoto
<1>2. /\ convOp[r] \in ConvOps /\ convOp[r] # None /\ convOp[r].kind = "append"
      /\ \A c \in Conv : convTx[r][c] = None
      /\ \A j \in Conv \X Turn : messageTx[r][j] = None
  BY <1>1, ConvAtFacts
<1>3. k \in Conv \X Turn
  BY <1>2, ConvOpFields DEF Slot
<1>4. turn \in Message /\ turn # None /\ (turn.late => convRead[r].ended # None)
  <2>1. (convRead[r].ended # None) \in BOOLEAN
    BY Zenon
  <2>2. turn \in Message
    BY <2>1, Zenon DEF Message
  <2> QED BY <2>2, ConversationsAssumption
<1> HIDE DEF k, turn
<1>5. ConvTypeOK'
  <2>1. messageTx' \in [Req -> [Conv \X Turn -> Message \cup {None}]]
    BY <1>1, <1>3, <1>4 DEF ConvTypeOK
  <2> QED BY <1>1, <2>1 DEF ConvTypeOK, convTables
<1>6. /\ convPc'[r] = "updateConv" /\ conv' = conv /\ message' = message
      /\ \A j \in Conv \X Turn : messageTx'[r][j] = IF j = k THEN turn ELSE None
  BY <1>1, <1>2, <1>3 DEF ConvTypeOK, convTables
<1>7. \A q \in Req \ {r} : ConvRests(q)
  BY <1>1 DEF ConvRests, ConvTypeOK
<1>8. ConvRequestOK(r)'
  <2>1. convPc'[r] \in ConvPcs(convOp'[r].kind)
    BY <1>1, <1>2, <1>6 DEF ConvPcs
  <2>2. ConvReadOK(r)' /\ ConvTxOK(r)'
    BY <1>1, <1>2, <1>6 DEF ConvRequestOK, ConvReadOK, ConvTxOK
  <2>3. Slot(r)' = k
    BY <1>1 DEF Slot, k
  <2>4. MessageTxOK(r)'
    BY <1>1, <1>2, <1>3, <1>4, <1>6, <2>3 DEF MessageTxOK
  <2> QED BY <1>1, <1>2, <2>1, <2>2, <2>4 DEF ConvRequestOK
<1>9. \A q \in Req : ConvRequestOK(q)'
  BY <1>1, <1>7, <1>8, ConvOthersOK, ConvTablesStay
<1>10. ConvLocksOK'
  <2>1. \A q \in Req \ {r} : messageTx[q][k] = None
    BY <1>1 DEF TurnWaits, k
  <2> QED BY <1>1, <1>6, <1>7, <2>1 DEF ConvLocksOK, ConvRests
<1>11. RoomIndexOK'
  BY <1>1, <1>6 DEF RoomIndexOK, DifferentRooms
<1> QED BY <1>1, <1>5, <1>9, <1>10, <1>11, ConvTablesStay

\* COMMIT: a turn and its count appear together, a start answers with the one
\* conversation that has the room.
LEMMA ConvCommitKeepsInv ==
  ASSUME ConvInv, NEW r \in Req, ConvCommit(r)
  PROVE  ConvInv'
<1> USE DEF ConvInv
<1>1. /\ convPc[r] = "commit" /\ ConvReset(r)
      /\ conv' = [c \in Conv |-> ConvView(r, c)]
      /\ message' = [k \in Conv \X Turn |->
                       IF messageTx[r][k] # None THEN messageTx[r][k] ELSE message[k]]
      /\ roomAnswers' = roomAnswers \cup
           {<<convOp[r].room, c>> :
              c \in {d \in Conv : /\ convOp[r].kind = "start" /\ convOp[r].room # None
                                  /\ ConvView(r, d) # None
                                  /\ ConvView(r, d).room = convOp[r].room}}
  BY DEF ConvCommit, ConvAt
<1>2. convOp[r] \in ConvOps /\ convOp[r] # None /\ ConvRequestOK(r)
  BY <1>1, ConvAtFacts
<1>3. \A c \in Conv : conv'[c] = IF convTx[r][c] # None THEN convTx[r][c] ELSE conv[c]
  BY <1>1 DEF ConvView
<1>4. \A k \in Conv \X Turn :
        message'[k] = IF messageTx[r][k] # None THEN messageTx[r][k] ELSE message[k]
  BY <1>1
<1>5. ASSUME NEW c \in Conv, convTx[r][c] # None, convOp[r].kind = "start"
      PROVE  /\ conv[c] = None /\ convTx[r][c].ended = None /\ convTx[r][c].count = 0
  BY <1>2, <1>5 DEF ConvRequestOK, ConvTxOK
<1>6. ASSUME NEW c \in Conv, convTx[r][c] # None, convOp[r].kind # "start"
      PROVE  /\ c = convOp[r].id /\ conv[c] # None /\ conv[c] \in ConvRow
             /\ convTx[r][c].room = conv[c].room
             /\ convRead[r].ended # None => conv[c].ended # None
             /\ convOp[r].kind = "append" =>
                  /\ convTx[r][c].count = conv[c].count + 1
                  /\ convTx[r][c].ended = conv[c].ended
             /\ convOp[r].kind = "close" =>
                  convTx[r][c].count = conv[c].count /\ convTx[r][c].ended # None
  <2>1. c = convOp[r].id /\ convTx[r][c] = ConvPatched(r, conv[c])
    BY <1>2, <1>6 DEF ConvRequestOK, ConvTxOK
  <2>2. conv[c] # None /\ (convRead[r].ended # None => conv[c].ended # None)
    BY <1>1, <1>2, <1>6, <2>1 DEF ConvRequestOK, ConvReadOK
  <2>3. conv[c] \in ConvRow
    BY <2>2 DEF ConvTypeOK
  <2> QED BY <1>2, <1>6, <2>1, <2>2, <2>3, ConvPatchedFields
<1>7. ConvsGrow
  <2> SUFFICES ASSUME NEW c \in Conv, conv[c] # None
               PROVE  conv'[c] # None /\ (conv[c].ended # None => conv'[c].ended # None)
    BY DEF ConvsGrow
  <2>1. CASE convTx[r][c] = None
    BY <1>3, <2>1
  <2>2. CASE convTx[r][c] # None
    BY <1>2, <1>3, <1>5, <1>6, <2>2, ConvOpFields
  <2> QED BY <2>1, <2>2
<1>8. \A c \in Conv : convTx[r][c] # None => convTx[r][c] \in ConvRow
  <2>1. convTx[r] \in [Conv -> ConvRow \cup {None}]
    BY DEF ConvTypeOK
  <2> QED BY <2>1
<1>9. \A c \in Conv : conv[c] # None => conv'[c].room = conv[c].room
  BY <1>3, <1>5, <1>6
<1>10. ConvTypeOK'
  <2>1. conv' \in [Conv -> ConvRow \cup {None}]
    BY <1>1, <1>3, <1>8 DEF ConvTypeOK
  <2>2. message' \in [Conv \X Turn -> Message \cup {None}]
    <3>1. /\ messageTx[r] \in [Conv \X Turn -> Message \cup {None}]
          /\ message \in [Conv \X Turn -> Message \cup {None}]
      BY DEF ConvTypeOK
    <3> QED BY <1>1, <3>1
  <2>3. roomAnswers' \subseteq Room \X Conv
    BY <1>1, <1>2, ConvOpFields DEF ConvTypeOK
  <2> QED BY <1>1, <2>1, <2>2, <2>3, ConvResetOK DEF ConvTypeOK
<1>11. \A q \in Req : ConvRequestOK(q)'
  <2>1. ASSUME NEW q \in Req \ {r} PROVE ConvRequestOK(q)'
    <3>1. \A c \in Conv : convTx[q][c] # None => conv'[c] = conv[c]
      BY <1>3 DEF ConvLocksOK
    <3>2. \A k \in Conv \X Turn : messageTx[q][k] # None => message'[k] = message[k]
      BY <1>4 DEF ConvLocksOK
    <3>3. ConvRests(q)
      BY <1>1, ConvResetOK
    <3> QED BY <1>7, <3>1, <3>2, <3>3, ConvOthersOK
  <2> QED BY <1>1, <2>1, ConvResetOK
<1>12. RoomIndexOK'
  <2>1. \A q \in Req, c \in Conv : convTx'[q][c] = None \/ convTx'[q][c] = convTx[q][c]
    BY <1>1, ConvResetOK DEF ConvRests
  <2>2. \A c \in Conv : conv'[c] = convTx[r][c] \/ conv'[c] = conv[c]
    BY <1>3
  <2> QED BY <2>1, <2>2 DEF RoomIndexOK, DifferentRooms
<1>13. ASSUME NEW c \in Conv
       PROVE  /\ TurnsOK(c)'
              /\ conv'[c] # None =>
                   /\ conv'[c].count = Cardinality(StoredTurns(c)')
                   /\ \A t \in Turn : message'[<<c, t>>] # None /\ message'[<<c, t>>].late
                                      => conv'[c].ended # None
  <2>1. /\ IsFiniteSet(StoredTurns(c)) /\ (conv[c] = None => StoredTurns(c) = {})
        /\ conv[c] # None =>
             /\ conv[c].count = Cardinality(StoredTurns(c))
             /\ \A t \in Turn : message[<<c, t>>] # None /\ message[<<c, t>>].late
                                => conv[c].ended # None
    BY DEF TurnsOK, TurnsAreTrue, StoredTurns
  <2>2. \A t \in Turn : <<c, t>> \in Conv \X Turn
    OBVIOUS
  <2>3. CASE \A t \in Turn : messageTx[r][<<c, t>>] = None
    <3>1. \A t \in Turn : message'[<<c, t>>] = message[<<c, t>>]
      BY <1>4, <2>2, <2>3
    <3>2. StoredTurns(c)' = StoredTurns(c)
      BY <3>1 DEF StoredTurns
    <3>3. CASE convTx[r][c] = None
      BY <1>3, <2>1, <3>1, <3>2, <3>3 DEF TurnsOK
    <3>4. CASE convTx[r][c] # None /\ convOp[r].kind = "start"
      <4>1. conv[c] = None /\ conv'[c].count = 0 /\ conv'[c] # None
        BY <1>3, <1>5, <3>4
      <4>2. StoredTurns(c)' = {} /\ Cardinality({}) = 0
        BY <2>1, <3>2, <4>1, FS_EmptySet
      <4>3. \A t \in Turn : message'[<<c, t>>] = None
        BY <4>2 DEF StoredTurns
      <4> QED BY <2>1, <3>2, <4>1, <4>2, <4>3 DEF TurnsOK
    <3>5. CASE convTx[r][c] # None /\ convOp[r].kind = "close"
      BY <1>3, <1>6, <2>1, <3>1, <3>2, <3>5 DEF TurnsOK
    <3>6. CASE convTx[r][c] # None /\ convOp[r].kind = "append"
      <4>1. c = convOp[r].id /\ convOp[r].turn \in Turn
        BY <1>2, <1>6, <3>6, ConvOpFields
      <4>2. messageTx[r][<<c, convOp[r].turn>>] # None
        BY <1>2, <3>6, <4>1 DEF ConvRequestOK, MessageTxOK, Slot
      <4> QED BY <2>3, <4>1, <4>2
    <3> QED BY <1>2, <3>3, <3>4, <3>5, <3>6, ConvOpFields
  <2>4. ASSUME NEW u \in Turn, messageTx[r][<<c, u>>] # None
        PROVE  /\ TurnsOK(c)'
               /\ conv'[c] # None =>
                    /\ conv'[c].count = Cardinality(StoredTurns(c)')
                    /\ \A t \in Turn : message'[<<c, t>>] # None /\ message'[<<c, t>>].late
                                       => conv'[c].ended # None
    <3>1. /\ convOp[r].kind = "append" /\ <<c, u>> = <<convOp[r].id, convOp[r].turn>>
          /\ message[<<c, u>>] = None
          /\ messageTx[r][<<c, u>>].late => convRead[r].ended # None
          /\ convTx[r][convOp[r].id] # None
          /\ \A t \in Turn : messageTx[r][<<c, t>>] # None => t = u
      BY <1>1, <1>2, <2>2, <2>4 DEF ConvRequestOK, MessageTxOK, Slot
    <3>2. convTx[r][c] # None /\ c = convOp[r].id
      BY <3>1
    <3>3. /\ conv[c] # None /\ conv[c] \in ConvRow
          /\ conv'[c] # None /\ conv'[c].count = conv[c].count + 1
          /\ conv'[c].ended = conv[c].ended
          /\ convRead[r].ended # None => conv[c].ended # None
      BY <1>3, <1>6, <3>1, <3>2
    <3>4. /\ message'[<<c, u>>] = messageTx[r][<<c, u>>]
          /\ \A t \in Turn \ {u} : message'[<<c, t>>] = message[<<c, t>>]
      BY <1>4, <2>2, <2>4, <3>1
    <3>5. StoredTurns(c)' = StoredTurns(c) \cup {u} /\ u \notin StoredTurns(c)
      BY <2>4, <3>1, <3>4 DEF StoredTurns
    <3>6. IsFiniteSet(StoredTurns(c)')
          /\ Cardinality(StoredTurns(c)') = Cardinality(StoredTurns(c)) + 1
      BY <2>1, <3>5, FS_AddElement
    <3>7. \A t \in Turn : message'[<<c, t>>] # None /\ message'[<<c, t>>].late
                          => conv'[c].ended # None
      BY <2>1, <3>1, <3>3, <3>4
    <3> QED BY <2>1, <3>3, <3>6, <3>7 DEF TurnsOK
  <2> QED BY <2>3, <2>4
<1>14. TurnsAreTrue' /\ \A c \in Conv : TurnsOK(c)'
  BY <1>13 DEF TurnsAreTrue, StoredTurns
<1>15. AnswersOK'
  <2> SUFFICES ASSUME NEW x \in roomAnswers'
               PROVE  conv'[x[2]] # None /\ conv'[x[2]].room = x[1]
    BY DEF AnswersOK
  <2>1. CASE x \in roomAnswers
    <3>1. x[2] \in Conv /\ conv[x[2]] # None /\ conv[x[2]].room = x[1]
      BY <2>1 DEF AnswersOK, ConvTypeOK
    <3> QED BY <1>7, <1>9, <3>1 DEF ConvsGrow
  <2>2. CASE x \notin roomAnswers
    BY <1>1, <2>2
  <2> QED BY <2>1, <2>2
<1> QED BY <1>1, <1>10, <1>11, <1>12, <1>14, <1>15, ConvResetOK

-----------------------------------------------------------------------------
\* Conversations: the theorems.

\* ConvInv is inductive.
THEOREM ConversationsInvariant == ConvSpec => []ConvInv
<1>1. ConvInit => ConvInv
  <2> SUFFICES ASSUME ConvInit PROVE ConvInv
    OBVIOUS
  <2> USE DEF ConvInit
  <2>1. /\ NoConvs \in [Conv -> ConvRow \cup {None}] /\ \A c \in Conv : NoConvs[c] = None
        /\ NoMessages \in [Conv \X Turn -> Message \cup {None}]
        /\ \A k \in Conv \X Turn : NoMessages[k] = None
    BY DEF NoConvs, NoMessages
  <2> HIDE DEF NoConvs, NoMessages
  <2>2. ConvTypeOK
    BY <2>1 DEF ConvTypeOK
  <2>3. \A r \in Req : ConvRequestOK(r)
    BY <2>1 DEF ConvRequestOK, ConvReadOK, ConvTxOK, MessageTxOK
  <2>4. ConvLocksOK /\ RoomIndexOK /\ TurnsAreTrue /\ AnswersOK
    BY <2>1 DEF ConvLocksOK, RoomIndexOK, DifferentRooms, TurnsAreTrue, AnswersOK
  <2>5. ASSUME NEW c \in Conv PROVE TurnsOK(c)
    <3>1. StoredTurns(c) = {}
      <4>1. \A t \in Turn : message[<<c, t>>] = None
        BY <2>1
      <4> QED BY <4>1 DEF StoredTurns
    <3> QED BY <3>1, FS_EmptySet DEF TurnsOK
  <2> QED BY <2>2, <2>3, <2>4, <2>5 DEF ConvInv
<1>2. ConvInv /\ [ConvNext]_convVars => ConvInv'
  <2> SUFFICES ASSUME ConvInv, [ConvNext]_convVars PROVE ConvInv'
    OBVIOUS
  <2>1. ASSUME NEW r \in Req, ConvBegin(r) \/ FindRoom(r) \/ FindConv(r) \/ FindTurn(r)
        PROVE  ConvInv'
    BY <2>1, ConvBeginKeepsInv, FindRoomKeepsInv, FindConvKeepsInv, FindTurnKeepsInv
  <2>2. ASSUME NEW r \in Req, StartConvTaken(r) \/ InsertMessageTaken(r) \/ ConvTxLost(r)
        PROVE  ConvInv'
    BY <2>2, ConvFailKeepsInv DEF StartConvTaken, InsertMessageTaken, ConvTxLost
  <2>3. ASSUME NEW r \in Req, StartConv(r) \/ InsertMessage(r) \/ UpdateConv(r) \/ ConvCommit(r)
        PROVE  ConvInv'
    BY <2>3, StartConvKeepsInv, InsertMessageKeepsInv, UpdateConvKeepsInv, ConvCommitKeepsInv
  <2>4. CASE UNCHANGED convVars
    <3>1. UNCHANGED <<convTables, convOp, convPc, convRead, convTx, messageTx>>
          /\ UNCHANGED <<conv, message, roomAnswers>>
      BY <2>4 DEF convVars, convTables
    <3>2. ConvTypeOK'
      BY <3>1 DEF ConvInv, ConvTypeOK
    <3>3. \A q \in Req : ConvRequestOK(q)'
      BY <3>1, ConvOthersOK, ConvTablesStay DEF ConvRests
    <3>4. ConvLocksOK' /\ RoomIndexOK'
      BY <3>1 DEF ConvInv, ConvLocksOK, RoomIndexOK, DifferentRooms
    <3> QED BY <3>1, <3>2, <3>3, <3>4, ConvTablesStay DEF ConvInv
  <2> QED BY <2>1, <2>2, <2>3, <2>4 DEF ConvNext
<1> QED BY <1>1, <1>2, PTL DEF ConvSpec

\* messageCount counts the stored turns, lateArrival is only set on a closed
\* conversation.
THEOREM TurnsAreCounted == ConvSpec => []TurnsAreTrue
<1>1. ConvInv => TurnsAreTrue
  BY DEF ConvInv
<1> QED BY <1>1, ConversationsInvariant, PTL

\* The unique index on livekitRoomName makes start idempotent across entrypoints.
THEOREM OneConversationPerRoom == ConvSpec => []RoomAnswersAgree
<1>1. ConvInv => RoomAnswersAgree
  <2> SUFFICES ASSUME ConvInv, NEW x \in roomAnswers, NEW y \in roomAnswers, x[1] = y[1]
               PROVE  x[2] = y[2]
    BY DEF RoomAnswersAgree
  <2>1. /\ x[1] \in Room /\ x[2] \in Conv /\ y[2] \in Conv
        /\ conv[x[2]] # None /\ conv[x[2]].room = x[1]
        /\ conv[y[2]] # None /\ conv[y[2]].room = y[1]
    BY DEF ConvInv, AnswersOK, ConvTypeOK
  <2> QED BY <2>1, ConversationsAssumption DEF ConvInv, RoomIndexOK, DifferentRooms
<1> QED BY <1>1, ConversationsInvariant, PTL

\* close changes a closed conversation only when it had read it open.
THEOREM FirstCloseWins == ConvSpec => ClosedOnlyRaces
<1> DEFINE Race(c) ==
      conv[c] # None /\ conv[c].ended # None /\ conv'[c].ended # conv[c].ended
        => \E r \in Req : /\ ConvAt(r, "commit") /\ convOp[r].kind = "close"
                          /\ convOp[r].id = c /\ convRead[r].ended = None
<1>1. ConvInv /\ [ConvNext]_convVars => [\A c \in Conv : Race(c)]_convVars
  <2> SUFFICES ASSUME ConvInv, ConvNext, NEW c \in Conv,
                      conv[c] # None, conv'[c].ended # conv[c].ended
               PROVE  \E r \in Req : /\ ConvAt(r, "commit") /\ convOp[r].kind = "close"
                                     /\ convOp[r].id = c /\ convRead[r].ended = None
    BY Zenon
  <2>1. PICK r \in Req : ConvCommit(r)
    BY DEF ConvNext, ConvBegin, FindRoom, StartConv, StartConvTaken, FindConv, FindTurn,
       InsertMessage, InsertMessageTaken, UpdateConv, ConvTxLost, ConvFail, convTables
  <2>2. ConvAt(r, "commit") /\ convTx[r][c] # None /\ conv'[c] = convTx[r][c]
    BY <2>1 DEF ConvCommit, ConvView
  <2>3. convOp[r] \in ConvOps /\ convOp[r] # None /\ convPc[r] = "commit"
    BY <2>2, ConvAtFacts DEF ConvAt
  <2>4. convOp[r].kind # "start" /\ c = convOp[r].id /\ convTx[r][c] = ConvPatched(r, conv[c])
    BY <2>2 DEF ConvInv, ConvRequestOK, ConvTxOK
  <2>5. convOp[r].kind = "close"
    BY <2>2, <2>3, <2>4, ConvPatchedFields, ConvOpFields DEF ConvInv, ConvTypeOK
  <2>6. convRead[r].ended = None
    BY <2>2, <2>3, <2>4, <2>5 DEF ConvInv, ConvRequestOK, ConvReadOK
  <2> QED BY <2>2, <2>4, <2>5, <2>6
<1> QED BY <1>1, ConversationsInvariant, PTL DEF ConvSpec, ClosedOnlyRaces, Race
-----------------------------------------------------------------------------
\* Schedule tables: lemmas about operations.

\* The fields of an operation by its kind and table.
LEMMA SchedOpFields ==
  ASSUME NEW o \in SchedOps
  PROVE  /\ o # None
         /\ o.kind \in {"replace", "insert", "bulk", "rekey", "remove"}
         /\ o.table \in {"businessHour", "staffAvailability", "staffService", "blockedTime",
                         "holiday"}
         /\ o.scope \in Staff \cup {None}
         /\ Items(o) \subseteq SchedKey
         /\ o.table = "businessHour" =>
              /\ o.kind = "replace" /\ o.scope = None
              /\ Items(o) \subseteq WeekHours /\ DOMAIN o.items \subseteq Int
         /\ o.kind = "rekey" =>
              o.table = "holiday" /\ o.items[1] \in SchedKey /\ o.id \in (Edit \cup {None}) \X SchedKey
<1>1. o # None /\ o \in ReplaceDto \cup EntryDto
  BY SchedAssumption
<1>2. CASE o \in ReplaceDto
  <2>1. /\ o.kind = "replace" /\ o.id = None /\ o.scope \in Staff \cup {None}
        /\ o.table \in {"businessHour", "staffAvailability", "staffService"}
        /\ o.table = "businessHour" => o.scope = None
        /\ o.items \in Seq(WeekHours) \/ o.items \in Seq(Service)
        /\ o.table = "businessHour" => o.items \in Seq(WeekHours)
    BY <1>2 DEF ReplaceDto
  <2>2. /\ \A S : o.items \in Seq(S) => Items(o) \subseteq S /\ DOMAIN o.items \subseteq Int
    BY DEF Items
  <2> QED BY <1>1, <2>1, <2>2 DEF SchedKey
<1>3. CASE o \in EntryDto
  <2>1. /\ o.kind \in {"insert", "remove", "bulk", "rekey"} /\ o.scope \in Staff \cup {None}
        /\ o.table \in {"staffService", "blockedTime", "holiday"}
        /\ \/ o.items \in [1..1 -> Service] \cup [1..1 -> Hours] \cup [1..1 -> Date]
           \/ o.items \in Seq(Date) \/ o.items = <<>>
        /\ o.kind = "rekey" => /\ o.table = "holiday" /\ o.items \in [1..1 -> Date]
                               /\ o.id \in (Edit \cup {None}) \X SchedKey
    BY <1>3 DEF EntryDto
  <2>2. Items(o) \subseteq SchedKey
    <3>1. CASE o.items \in [1..1 -> Service] \cup [1..1 -> Hours] \cup [1..1 -> Date]
      BY <3>1 DEF Items, SchedKey
    <3>2. CASE o.items \in Seq(Date)
      BY <3>2 DEF Items, SchedKey
    <3>3. CASE o.items = <<>>
      BY <3>3 DEF Items
    <3> QED BY <2>1, <3>1, <3>2, <3>3
  <2>3. o.kind = "rekey" => o.items[1] \in SchedKey
    BY <2>1 DEF SchedKey
  <2> QED BY <1>1, <2>1, <2>2, <2>3
<1> QED BY <1>1, <1>2, <1>3

\* A row a request writes has the columns of its table.
LEMMA RowOfFields ==
  ASSUME NEW r \in Edit, schedOp[r] \in SchedOps, NEW k \in Items(schedOp[r])
  PROVE  /\ RowOf(r, k) \in SchedRow /\ Writer(RowOf(r, k)) = r
         /\ RowOf(r, k).table = schedOp[r].table /\ RowOf(r, k).scope = schedOp[r].scope
         /\ RowOf(r, k).key = k
<1> DEFINE o == schedOp[r]
           x == RowOf(r, k)
<1>1. /\ o.table \in {"businessHour", "staffAvailability", "staffService", "blockedTime",
                      "holiday"}
      /\ o.scope \in Staff \cup {None} /\ k \in SchedKey
      /\ o.table = "businessHour" => o.scope = None /\ k \in WeekHours
  BY SchedOpFields
<1>2. x = [table |-> o.table, scope |-> o.scope, id |-> <<r, k>>, key |-> k]
  BY DEF RowOf
<1> HIDE DEF o, x
<1>3. x \in SchedRow
  <2>1. <<r, k>> \in (Edit \cup {None}) \X SchedKey
    BY <1>1
  <2> QED BY <1>1, <1>2, <2>1 DEF SchedRow
<1>4. x.table = o.table /\ x.scope = o.scope /\ x.key = k /\ x.id[1] = r
  BY <1>2
<1> QED BY <1>3, <1>4 DEF Writer, x, o

\* The columns of a stored row.
LEMMA SchedRowFields ==
  ASSUME NEW x \in SchedRow
  PROVE  /\ Writer(x) \in Edit \cup {None} /\ x.id \in (Edit \cup {None}) \X SchedKey
         /\ x.table = "businessHour" => x.scope = None /\ x.key \in WeekHours
BY DEF SchedRow, Writer

\* What remains of a request's target is in the tables, under its table and ids.
LEMMA RemainingFacts ==
  ASSUME SchedInv, NEW r \in Edit
  PROVE  /\ Remaining(r) \subseteq rows
         /\ \A x \in rows : x \in Remaining(r) <=> x.table = schedOp[r].table /\ x.id \in target[r]
BY DEF Remaining, Targeted

\* A request under way has an operation, and is not committed.
LEMMA SchedAtFacts ==
  ASSUME SchedInv, NEW r \in Edit, schedPc[r] \notin {"new", "done"}
  PROVE  /\ schedOp[r] \in SchedOps /\ schedOp[r] # None /\ r \notin committed
         /\ schedPc[r] \in SchedPcs(schedOp[r])
         /\ schedPc[r] \in {"delete", "deleting"} => schedOp[r].kind \in {"replace", "remove"}
         /\ schedPc[r] \in {"find", "rekey"} => schedOp[r].kind = "rekey"
         /\ schedPc[r] = "insert" => schedOp[r].kind \notin {"rekey", "remove"}
<1>1. /\ schedOp[r] \in SchedOps /\ schedOp[r] # None /\ r \notin committed
      /\ schedPc[r] \in SchedPcs(schedOp[r])
  BY DEF SchedInv, SchedTypeOK, SchedRequestOK, ProgressOK
<1>2. schedOp[r].kind \in {"replace", "insert", "bulk", "rekey", "remove"}
  BY <1>1, SchedOpFields
<1>3. CASE schedOp[r].kind = "replace"
  BY <1>1, <1>3 DEF SchedPcs
<1>4. CASE schedOp[r].kind = "remove"
  BY <1>1, <1>4 DEF SchedPcs
<1>5. CASE schedOp[r].kind = "rekey"
  BY <1>1, <1>5 DEF SchedPcs
<1>6. CASE schedOp[r].kind \in {"insert", "bulk"}
  BY <1>1, <1>6 DEF SchedPcs
<1> QED BY <1>1, <1>2, <1>3, <1>4, <1>5, <1>6

\* A step of one open request that leaves the tables alone.
LEMMA SchedStepKeeps ==
  ASSUME SchedInv, NEW r \in Edit, r \notin committed,
         rows' = rows, committed' = committed, SchedTypeOK', SchedRequestOK(r)',
         \A q \in Edit \ {r} :
           /\ schedOp'[q] = schedOp[q] /\ schedPc'[q] = schedPc[q] /\ target'[q] = target[q]
           /\ deleting'[q] = deleting[q] /\ inserting'[q] = inserting[q]
           /\ before'[q] = before[q],
         \A q \in Edit \ {r} : \A x \in deleting[q], y \in deleting'[r] :
           ~(x.table = y.table /\ x.id = y.id)
  PROVE  SchedInv'
<1>1. ASSUME NEW q \in Edit \ {r} PROVE SchedRequestOK(q)'
  <2>0. SchedRequestOK(q)
    BY DEF SchedInv
  <2>1. ProgressOK(q)'
    BY <2>0 DEF SchedRequestOK, ProgressOK
  <2>2. InsertedOK(q)'
    BY <2>0 DEF SchedRequestOK, InsertedOK, RowOf
  <2>3. SnapshotOK(q)'
    BY <2>0 DEF SchedRequestOK, SnapshotOK, InScope
  <2> QED BY <2>1, <2>2, <2>3 DEF SchedRequestOK
<1>2. RowLocksOK'
  BY DEF SchedInv, RowLocksOK
<1>3. HoursOK'
  <2>1. \A q \in committed \ {None} : q \in Edit \ {r} /\ schedOp'[q] = schedOp[q]
    BY DEF SchedInv, SchedTypeOK
  <2> QED BY <2>1 DEF SchedInv, HoursOK, RowOf
<1> QED BY <1>1, <1>2, <1>3 DEF SchedInv

\* A request that fails leaves no trace.
LEMMA SchedFailKeepsInv ==
  ASSUME SchedInv, NEW r \in Edit, schedPc[r] \notin {"new", "done"}, SchedFail(r)
  PROVE  SchedInv'
<1>1. /\ schedPc' = [schedPc EXCEPT ![r] = "done"] /\ target' = [target EXCEPT ![r] = {}]
      /\ deleting' = [deleting EXCEPT ![r] = {}] /\ inserting' = [inserting EXCEPT ![r] = {}]
      /\ UNCHANGED <<rows, gone, schedOp, committed, before>>
  BY DEF SchedFail, SchedEnd, SchedGoto
<1>2. SchedTypeOK'
  BY <1>1 DEF SchedInv, SchedTypeOK
<1>3. schedPc'[r] = "done" /\ deleting'[r] = {} /\ inserting'[r] = {}
  BY <1>1 DEF SchedInv, SchedTypeOK
<1>4. r \notin committed /\ schedOp[r] # None /\ SchedRequestOK(r)
  BY SchedAtFacts DEF SchedInv
<1>5. ProgressOK(r)'
  <2>1. "done" \in SchedPcs(schedOp[r])
    BY DEF SchedPcs
  <2> QED BY <1>1, <1>3, <1>4, <2>1 DEF SchedRequestOK, ProgressOK, SchedPcs
<1>6. InsertedOK(r)' /\ SnapshotOK(r)'
  BY <1>1, <1>3, <1>4 DEF SchedRequestOK, InsertedOK, SnapshotOK, InScope
<1> QED BY <1>1, <1>2, <1>3, <1>4, <1>5, <1>6, SchedStepKeeps DEF SchedInv, SchedTypeOK, SchedRequestOK

-----------------------------------------------------------------------------
\* Schedule tables: each action preserves the invariant.

LEMMA SchedBeginKeepsInv ==
  ASSUME SchedInv, NEW r \in Edit, SchedBegin(r)
  PROVE  SchedInv'
<1>1. PICK o \in SchedOps :
        /\ schedPc[r] = "new" /\ Accepts(o)
        /\ schedOp' = [schedOp EXCEPT ![r] = o]
        /\ schedPc' = [schedPc EXCEPT ![r] =
                         CASE o.kind \in {"replace", "remove"} -> "delete"
                           [] o.kind = "rekey"                 -> "find"
                           [] OTHER                            -> "insert"]
        /\ UNCHANGED <<rows, gone, target, deleting, inserting, committed, before>>
  BY DEF SchedBegin, SchedAt, SchedGoto
<1>2. o # None /\ o.kind \in {"replace", "insert", "bulk", "rekey", "remove"}
      /\ (o.table = "businessHour" => o.kind = "replace")
  BY SchedOpFields
<1>3. schedOp'[r] = o
      /\ schedPc'[r] \in {"delete", "find", "insert"} /\ schedPc'[r] \in SchedPcs(o)
  <2>1. CASE o.kind \in {"replace", "remove"}
    BY <1>1, <2>1 DEF SchedInv, SchedTypeOK, SchedPcs
  <2>2. CASE o.kind = "rekey"
    BY <1>1, <2>2 DEF SchedInv, SchedTypeOK, SchedPcs
  <2>3. CASE o.kind \in {"insert", "bulk"}
    BY <1>1, <2>3 DEF SchedInv, SchedTypeOK, SchedPcs
  <2> QED BY <1>2, <2>1, <2>2, <2>3
<1>4. SchedTypeOK'
  <2>1. /\ \A q \in Edit : q # r => schedPc'[q] = schedPc[q]
        /\ schedPc' \in [Edit -> {"new", "delete", "deleting", "insert", "find", "rekey",
                                  "commit", "done"}]
    BY <1>1, <1>3 DEF SchedInv, SchedTypeOK
  <2> QED BY <1>1, <2>1 DEF SchedInv, SchedTypeOK
<1>5. /\ r \notin committed /\ deleting[r] = {} /\ inserting[r] = {} /\ SchedRequestOK(r)
  BY <1>1 DEF SchedInv, SchedRequestOK, ProgressOK
<1>6. ProgressOK(r)'
  <2>1. o.kind = "replace" /\ o.table = "businessHour" => ValidWeek(o.items)
    BY <1>1 DEF Accepts
  <2> QED BY <1>1, <1>2, <1>3, <1>5, <2>1 DEF ProgressOK, ValidWeek, SchedPcs
<1>7. InsertedOK(r)' /\ SnapshotOK(r)'
  BY <1>1, <1>3, <1>5 DEF SchedRequestOK, InsertedOK, SnapshotOK
<1> QED BY <1>1, <1>4, <1>5, <1>6, <1>7, SchedStepKeeps DEF SchedInv, SchedTypeOK, SchedRequestOK

\* The snapshot holds the committed rows of the scope.
LEMMA DeleteStartsKeepsInv ==
  ASSUME SchedInv, NEW r \in Edit, DeleteStarts(r)
  PROVE  SchedInv'
<1> DEFINE ids == {x.id : x \in {y \in rows : Matches(schedOp[r], y)}}
<1>1. /\ schedPc[r] = "delete"
      /\ target' = [target EXCEPT ![r] = ids]
      /\ before' = [before EXCEPT ![r] = committed]
      /\ schedPc' = [schedPc EXCEPT ![r] = "deleting"]
      /\ UNCHANGED <<rows, gone, schedOp, deleting, inserting, committed>>
  BY DEF DeleteStarts, SchedAt, SchedGoto
<1>2. /\ schedOp[r] \in SchedOps /\ schedOp[r] # None /\ r \notin committed
      /\ schedOp[r].kind \in {"replace", "remove"}
      /\ SchedRequestOK(r)
  BY <1>1, SchedAtFacts DEF SchedInv
<1>3. ids \subseteq (Edit \cup {None}) \X SchedKey
  BY SchedRowFields DEF SchedInv, SchedTypeOK
<1>4. SchedTypeOK'
  BY <1>1, <1>3 DEF SchedInv, SchedTypeOK
<1>5. /\ schedPc'[r] = "deleting" /\ target'[r] = ids /\ before'[r] = committed
      /\ deleting[r] = {} /\ inserting[r] = {}
  BY <1>1, <1>2 DEF SchedInv, SchedTypeOK, SchedRequestOK, ProgressOK
<1>6. ProgressOK(r)'
  <2>1. "deleting" \in SchedPcs(schedOp[r])
    BY <1>2 DEF SchedPcs
  <2> QED BY <1>1, <1>2, <1>5, <2>1 DEF SchedRequestOK, ProgressOK, SchedPcs
<1>7. InsertedOK(r)'
  BY <1>1, <1>5 DEF InsertedOK
<1>8. SnapshotOK(r)'
  <2>1. ASSUME schedOp[r].kind = "replace", NEW x \in rows, InScope(r, x)
        PROVE  x.id \in ids
    <3>1. schedOp[r].id = None
      BY <1>2, <2>1, SchedAssumption DEF ReplaceDto, EntryDto
    <3> QED BY <2>1, <3>1 DEF InScope, Matches
  <2> QED BY <1>1, <1>2, <1>5, <2>1 DEF SnapshotOK, InScope, SchedInv
<1> HIDE DEF ids
<1> QED BY <1>1, <1>2, <1>4, <1>5, <1>6, <1>7, <1>8, SchedStepKeeps
        DEF SchedInv, SchedTypeOK, SchedRequestOK

\* The rows it locks are those of its snapshot that are left, which no other
\* transaction has locked.
LEMMA DeleteEndsKeepsInv ==
  ASSUME SchedInv, NEW r \in Edit, DeleteEnds(r)
  PROVE  SchedInv'
<1> DEFINE next == IF schedOp[r].kind = "replace" /\ schedOp[r].items # <<>>
                   THEN "insert" ELSE "commit"
<1>1. schedPc[r] = "deleting" /\ ~HeldByOther(r)
  BY DEF DeleteEnds, SchedAt
<1>2. /\ schedOp[r] \in SchedOps /\ schedOp[r] # None /\ r \notin committed
      /\ schedOp[r].kind \in {"replace", "remove"}
      /\ SchedRequestOK(r)
  BY <1>1, SchedAtFacts DEF SchedInv
<1>3. CASE SchedFail(r)
  BY <1>1, <1>3, SchedFailKeepsInv
<1>4. CASE ~SchedFail(r)
  <2>1. /\ deleting' = [deleting EXCEPT ![r] = Remaining(r)]
        /\ schedPc' = [schedPc EXCEPT ![r] = next]
        /\ UNCHANGED <<rows, gone, schedOp, target, inserting, committed, before>>
    BY <1>4 DEF DeleteEnds, SchedGoto
  <2>2. next \in {"insert", "commit"} /\ next \in SchedPcs(schedOp[r])
    BY <1>2 DEF SchedPcs
  <2> HIDE DEF next
  <2>3. SchedTypeOK'
    BY <2>1, <2>2, RemainingFacts DEF SchedInv, SchedTypeOK
  <2>4. schedPc'[r] = next /\ deleting'[r] = Remaining(r) /\ inserting[r] = {}
    BY <1>1, <1>2, <2>1 DEF SchedInv, SchedTypeOK, SchedRequestOK, ProgressOK
  <2>5. ProgressOK(r)'
    BY <1>2, <2>1, <2>2, <2>4, RemainingFacts DEF SchedRequestOK, ProgressOK, SchedPcs
  <2>6. InsertedOK(r)'
    BY <2>1, <2>4 DEF InsertedOK
  <2>7. SnapshotOK(r)'
    BY <1>1, <1>2, <2>1, <2>2, <2>4, RemainingFacts DEF SchedRequestOK, SnapshotOK, InScope
  <2>8. \A q \in Edit \ {r} : \A x \in deleting[q], y \in deleting'[r] :
          ~(x.table = y.table /\ x.id = y.id)
    BY <1>1, <2>4, RemainingFacts DEF HeldByOther, Targeted
  <2> QED BY <1>2, <2>1, <2>3, <2>5, <2>6, <2>7, <2>8, SchedStepKeeps
          DEF SchedInv, SchedTypeOK, SchedRequestOK
<1> QED BY <1>3, <1>4

\* What it inserts carries its own name.
LEMMA InsertRowsKeepsInv ==
  ASSUME SchedInv, NEW r \in Edit, InsertRows(r)
  PROVE  SchedInv'
<1> DEFINE new == {RowOf(r, k) : k \in Items(schedOp[r])}
           ins == {x \in new : ~Taken(r, x)}
<1>1. schedPc[r] = "insert"
  BY DEF InsertRows, SchedAt
<1>2. /\ schedOp[r] \in SchedOps /\ schedOp[r] # None /\ r \notin committed
      /\ schedOp[r].kind \in {"replace", "insert", "bulk"}
      /\ SchedRequestOK(r)
  BY <1>1, SchedAtFacts, SchedOpFields DEF SchedInv
<1>3. CASE SchedFail(r)
  BY <1>1, <1>3, SchedFailKeepsInv
<1>4. CASE ~SchedFail(r)
  <2>1. /\ inserting' = [inserting EXCEPT ![r] = ins]
        /\ schedPc' = [schedPc EXCEPT ![r] = "commit"]
        /\ UNCHANGED <<rows, gone, schedOp, target, deleting, committed, before>>
    BY <1>4, Zenon DEF InsertRows, SchedGoto
  <2>2. \A x \in ins : x \in SchedRow /\ \E k \in Items(schedOp[r]) : x = RowOf(r, k)
    BY <1>2, RowOfFields
  <2> HIDE DEF ins
  <2>3. SchedTypeOK'
    BY <2>1, <2>2 DEF SchedInv, SchedTypeOK
  <2>4. schedPc'[r] = "commit" /\ inserting'[r] = ins
    BY <2>1 DEF SchedInv, SchedTypeOK
  <2>5. ProgressOK(r)'
    <3>1. "commit" \in SchedPcs(schedOp[r])
      BY <1>2 DEF SchedPcs
    <3> QED BY <1>2, <2>1, <2>4, <3>1 DEF SchedRequestOK, ProgressOK, SchedPcs
  <2>6. InsertedOK(r)'
    BY <1>2, <2>1, <2>2, <2>4 DEF InsertedOK, RowOf
  <2>7. SnapshotOK(r)'
    BY <1>1, <1>2, <2>1, <2>4 DEF SchedRequestOK, SnapshotOK, InScope
  <2>8. \A q \in Edit \ {r} : \A x \in deleting[q], y \in deleting'[r] :
          ~(x.table = y.table /\ x.id = y.id)
    BY <2>1 DEF SchedInv, RowLocksOK
  <2> QED BY <1>2, <2>1, <2>3, <2>5, <2>6, <2>7, <2>8, SchedStepKeeps
          DEF SchedInv, SchedTypeOK, SchedRequestOK
<1> QED BY <1>3, <1>4

LEMMA FindRowKeepsInv ==
  ASSUME SchedInv, NEW r \in Edit, FindRow(r)
  PROVE  SchedInv'
<1>1. schedPc[r] = "find"
  BY DEF FindRow, SchedAt
<1>2. /\ schedOp[r] \in SchedOps /\ schedOp[r] # None /\ r \notin committed
      /\ schedOp[r].kind = "rekey" /\ SchedRequestOK(r)
      /\ schedOp[r].id \in (Edit \cup {None}) \X SchedKey
  BY <1>1, SchedAtFacts, SchedOpFields DEF SchedInv
<1>3. CASE SchedFail(r)
  BY <1>1, <1>3, SchedFailKeepsInv
<1>4. CASE ~SchedFail(r)
  <2>1. /\ target' = [target EXCEPT ![r] = {schedOp[r].id}]
        /\ schedPc' = [schedPc EXCEPT ![r] = "rekey"]
        /\ UNCHANGED <<rows, gone, schedOp, deleting, inserting, committed, before>>
    BY <1>4 DEF FindRow, SchedGoto
  <2>2. SchedTypeOK'
    BY <1>2, <2>1 DEF SchedInv, SchedTypeOK
  <2>3. schedPc'[r] = "rekey" /\ deleting[r] = {} /\ inserting[r] = {}
    BY <1>1, <1>2, <2>1 DEF SchedInv, SchedTypeOK, SchedRequestOK, ProgressOK
  <2>4. ProgressOK(r)'
    <3>1. "rekey" \in SchedPcs(schedOp[r])
      BY <1>2 DEF SchedPcs
    <3> QED BY <1>2, <2>1, <2>3, <3>1 DEF SchedRequestOK, ProgressOK, SchedPcs
  <2>5. InsertedOK(r)' /\ SnapshotOK(r)'
    BY <1>2, <2>1, <2>3 DEF SchedRequestOK, InsertedOK, SnapshotOK
  <2> QED BY <1>2, <2>1, <2>2, <2>3, <2>4, <2>5, SchedStepKeeps
          DEF SchedInv, SchedTypeOK, SchedRequestOK
<1> QED BY <1>3, <1>4

\* The row it writes back keeps its id, table and scope.
LEMMA RekeyKeepsInv ==
  ASSUME SchedInv, NEW r \in Edit, Rekey(r)
  PROVE  SchedInv'
<1> DEFINE new == {[x EXCEPT !.key = schedOp[r].items[1]] : x \in Remaining(r)}
<1>1. schedPc[r] = "rekey" /\ ~HeldByOther(r)
  BY DEF Rekey, SchedAt
<1>2. /\ schedOp[r] \in SchedOps /\ schedOp[r] # None /\ r \notin committed
      /\ schedOp[r].kind = "rekey" /\ SchedRequestOK(r)
      /\ schedOp[r].table = "holiday" /\ schedOp[r].items[1] \in SchedKey
  BY <1>1, SchedAtFacts, SchedOpFields DEF SchedInv
<1>3. CASE SchedFail(r)
  BY <1>1, <1>3, SchedFailKeepsInv
<1>4. CASE ~SchedFail(r)
  <2>1. /\ deleting' = [deleting EXCEPT ![r] = Remaining(r)]
        /\ inserting' = [inserting EXCEPT ![r] = new]
        /\ schedPc' = [schedPc EXCEPT ![r] = "commit"]
        /\ UNCHANGED <<rows, gone, schedOp, target, committed, before>>
    BY <1>4, Zenon DEF Rekey, SchedGoto
  <2>2. ASSUME NEW x \in Remaining(r), NEW y, y = [x EXCEPT !.key = schedOp[r].items[1]]
        PROVE  y \in SchedRow /\ y.table = x.table /\ y.scope = x.scope /\ y.id = x.id
    <3>1. x \in SchedRow /\ x.table = "holiday"
      BY <1>2, RemainingFacts DEF SchedInv, SchedTypeOK
    <3>2. x \in [table: {"staffAvailability", "staffService", "blockedTime", "holiday"},
                 scope: Staff \cup {None}, id: (Edit \cup {None}) \X SchedKey, key: SchedKey]
      BY <3>1 DEF SchedRow
    <3> QED BY <1>2, <2>2, <3>2 DEF SchedRow
  <2>3. \A y \in new : /\ y \in SchedRow
                       /\ \E x \in Remaining(r) :
                            y.table = x.table /\ y.scope = x.scope /\ y.id = x.id
    BY <2>2
  <2> HIDE DEF new
  <2>4. SchedTypeOK'
    BY <2>1, <2>3, RemainingFacts DEF SchedInv, SchedTypeOK
  <2>5. schedPc'[r] = "commit" /\ deleting'[r] = Remaining(r) /\ inserting'[r] = new
    BY <2>1 DEF SchedInv, SchedTypeOK
  <2>6. ProgressOK(r)'
    <3>1. "commit" \in SchedPcs(schedOp[r])
      BY <1>2 DEF SchedPcs
    <3> QED BY <1>2, <2>1, <2>5, <3>1, RemainingFacts DEF SchedRequestOK, ProgressOK, SchedPcs
  <2>7. InsertedOK(r)'
    BY <1>2, <2>1, <2>3, <2>5 DEF InsertedOK
  <2>8. SnapshotOK(r)'
    BY <1>2, <2>1, <2>5 DEF SchedRequestOK, SnapshotOK
  <2>9. \A q \in Edit \ {r} : \A x \in deleting[q], y \in deleting'[r] :
          ~(x.table = y.table /\ x.id = y.id)
    BY <1>1, <2>5, RemainingFacts DEF HeldByOther, Targeted
  <2> QED BY <1>2, <2>1, <2>4, <2>6, <2>7, <2>8, <2>9, SchedStepKeeps
          DEF SchedInv, SchedTypeOK, SchedRequestOK
<1> QED BY <1>3, <1>4

\* COMMIT: the rows another transaction locked stay, and the new ones are either
\* written by a request no open snapshot saw or the locked ones under another key.
LEMMA SchedCommitKeepsInv ==
  ASSUME SchedInv, NEW r \in Edit, SchedCommit(r)
  PROVE  SchedInv'
<1>1. /\ schedPc[r] = "commit"
      /\ rows' = (rows \ deleting[r]) \cup inserting[r] /\ committed' = committed \cup {r}
      /\ schedPc' = [schedPc EXCEPT ![r] = "done"] /\ target' = [target EXCEPT ![r] = {}]
      /\ deleting' = [deleting EXCEPT ![r] = {}] /\ inserting' = [inserting EXCEPT ![r] = {}]
      /\ UNCHANGED <<gone, schedOp, before>>
  BY DEF SchedCommit, SchedAt, SchedEnd, SchedGoto
<1>2. /\ schedOp[r] \in SchedOps /\ schedOp[r] # None /\ r \notin committed
      /\ SchedRequestOK(r)
  BY <1>1, SchedAtFacts DEF SchedInv
<1>3. SchedTypeOK'
  BY <1>1 DEF SchedInv, SchedTypeOK
<1>4. /\ schedPc'[r] = "done" /\ deleting'[r] = {} /\ inserting'[r] = {}
      /\ \A q \in Edit \ {r} :
           /\ schedPc'[q] = schedPc[q] /\ target'[q] = target[q]
           /\ deleting'[q] = deleting[q] /\ inserting'[q] = inserting[q]
  BY <1>1 DEF SchedInv, SchedTypeOK
<1>5. ASSUME NEW x \in inserting[r]
      PROVE  \/ /\ schedOp[r].kind # "rekey" /\ Writer(x) = r /\ x.table = schedOp[r].table
                /\ \E k \in Items(schedOp[r]) : x = RowOf(r, k)
             \/ /\ schedOp[r].kind = "rekey"
                /\ \E y \in deleting[r] :
                     /\ y \in rows /\ x.table = y.table /\ x.scope = y.scope /\ x.id = y.id
                     /\ x.table = schedOp[r].table
  BY <1>2, <1>5, RowOfFields DEF SchedRequestOK, InsertedOK, ProgressOK
<1>6. ASSUME NEW q \in Edit
      PROVE  SchedRequestOK(q)'
  <2>0. SchedRequestOK(q)
    BY DEF SchedInv
  <2>1. ProgressOK(q)'
    <3>1. \A x \in deleting'[q] : x \in rows' /\ x.table = schedOp[q].table
      <4>1. CASE q = r
        BY <1>4, <4>1
      <4>2. CASE q # r
        BY <1>1, <1>4, <2>0, <4>2 DEF SchedRequestOK, ProgressOK, SchedInv, RowLocksOK
      <4> QED BY <4>1, <4>2
    <3>2. CASE q = r
      <4>1. "done" \in SchedPcs(schedOp[r])
        BY DEF SchedPcs
      <4> QED BY <1>1, <1>2, <1>4, <3>1, <3>2, <4>1 DEF SchedRequestOK, ProgressOK, SchedPcs
    <3>3. CASE q # r
      BY <1>1, <1>4, <2>0, <3>1, <3>3 DEF SchedRequestOK, ProgressOK, SchedPcs
    <3> QED BY <3>2, <3>3
  <2>2. InsertedOK(q)'
    BY <1>1, <1>4, <2>0 DEF SchedRequestOK, InsertedOK, RowOf
  <2>3. SnapshotOK(q)'
    <3>1. before[q] \subseteq committed
      BY <2>0 DEF SchedRequestOK, SnapshotOK
    <3>2. ASSUME schedOp[q] # None, schedOp[q].kind = "replace",
                 NEW x \in rows', InScope(q, x), Writer(x) \in before[q]
          PROVE  /\ q \notin committed'
                 /\ schedPc'[q] = "deleting" => x.id \in target'[q]
                 /\ schedPc'[q] \in {"insert", "commit"} => x \in deleting'[q]
      <4>1. PICK y \in rows : /\ y.table = x.table /\ y.scope = x.scope /\ y.id = x.id
                              /\ \/ y = x /\ x \notin deleting[r]
                                 \/ y \in deleting[r] /\ q # r
        <5>1. CASE x \in rows \ deleting[r]
          BY <5>1
        <5>2. CASE x \in inserting[r]
          BY <1>2, <1>5, <3>1, <3>2, <5>2
        <5> QED BY <1>1, <3>2, <5>1, <5>2
      <4>2. InScope(q, y) /\ Writer(y) \in before[q]
        BY <3>2, <4>1 DEF InScope, Writer
      <4>3. /\ q \notin committed
            /\ schedPc[q] = "deleting" => y.id \in target[q]
            /\ schedPc[q] \in {"insert", "commit"} => y \in deleting[q]
        BY <2>0, <3>2, <4>2 DEF SchedRequestOK, SnapshotOK
      <4>4. q # r
        BY <1>1, <4>1, <4>3
      <4>5. schedPc[q] \in {"insert", "commit"} => y \notin deleting[r]
        BY <4>3, <4>4 DEF SchedInv, RowLocksOK
      <4> QED BY <1>1, <1>4, <4>1, <4>3, <4>4, <4>5
    <3>3. schedOp[q] # None /\ schedOp[q].kind = "replace"
            /\ (schedPc'[q] \in {"deleting", "insert", "commit"} \/ q \in committed')
            => None \in before[q]
      BY <1>1, <1>4, <2>0 DEF SchedRequestOK, SnapshotOK
    <3> QED BY <1>1, <3>1, <3>2, <3>3 DEF SnapshotOK, InScope
  <2> QED BY <2>1, <2>2, <2>3 DEF SchedRequestOK
<1>7. RowLocksOK'
  BY <1>4 DEF SchedInv, RowLocksOK
<1>8. HoursOK'
  <2> SUFFICES ASSUME NEW x \in rows', x.table = "businessHour"
               PROVE  \/ x \in FirstRows
                      \/ \E w \in committed' \ {None} :
                           /\ schedOp[w].kind = "replace" /\ schedOp[w].table = "businessHour"
                           /\ \E k \in Items(schedOp[w]) : x = RowOf(w, k)
    BY <1>1 DEF HoursOK, RowOf
  <2>1. CASE x \in rows
    BY <1>1, <2>1 DEF SchedInv, HoursOK
  <2>2. CASE x \in inserting[r]
    <3>1. schedOp[r].table = "businessHour"
      BY <1>5, <2>2
    <3>2. schedOp[r].kind = "replace"
      BY <1>2, <3>1, SchedOpFields
    <3>3. r \in committed' \ {None}
      BY <1>1, SchedAssumption
    <3> QED BY <1>5, <2>2, <3>1, <3>2, <3>3
  <2> QED BY <1>1, <2>1, <2>2
<1> QED BY <1>1, <1>3, <1>6, <1>7, <1>8 DEF SchedInv

-----------------------------------------------------------------------------
\* Schedule tables: theorems.

\* Rows, operations and progress are well typed, no row is locked twice, every
\* replace accounts for the rows its DELETE saw.
THEOREM ScheduleInvariant == SchedSpec => []SchedInv
<1>1. SchedInit => SchedInv
  <2> SUFFICES ASSUME SchedInit PROVE SchedInv
    OBVIOUS
  <2>1. SchedTypeOK
    BY SchedAssumption DEF SchedInit, SchedTypeOK
  <2>2. \A r \in Edit : SchedRequestOK(r)
    BY SchedAssumption DEF SchedInit, SchedRequestOK, ProgressOK, InsertedOK, SnapshotOK
  <2> QED BY <2>1, <2>2 DEF SchedInit, SchedInv, RowLocksOK, HoursOK
<1>2. SchedInv /\ [SchedNext]_schedVars => SchedInv'
  <2> SUFFICES ASSUME SchedInv, [SchedNext]_schedVars PROVE SchedInv'
    OBVIOUS
  <2>1. ASSUME NEW r \in Edit, SchedBegin(r) \/ DeleteStarts(r) \/ DeleteEnds(r)
        PROVE  SchedInv'
    BY <2>1, SchedBeginKeepsInv, DeleteStartsKeepsInv, DeleteEndsKeepsInv
  <2>2. ASSUME NEW r \in Edit, InsertRows(r) \/ FindRow(r) \/ Rekey(r)
        PROVE  SchedInv'
    BY <2>2, InsertRowsKeepsInv, FindRowKeepsInv, RekeyKeepsInv
  <2>3. ASSUME NEW r \in Edit, SchedCommit(r) \/ SchedTxLost(r)
        PROVE  SchedInv'
    BY <2>3, SchedCommitKeepsInv, SchedFailKeepsInv DEF SchedTxLost
  <2>4. ASSUME (\E p \in Parent : SoftDelete(p)) \/ UNCHANGED schedVars
        PROVE  SchedInv'
    <3>1. /\ UNCHANGED <<rows, schedOp, schedPc, target, deleting, inserting, committed, before>>
          /\ gone' \subseteq Parent
      BY <2>4 DEF SoftDelete, schedVars, SchedInv, SchedTypeOK
    <3>2. SchedTypeOK'
      BY <3>1 DEF SchedInv, SchedTypeOK
    <3>3. \A r \in Edit : SchedRequestOK(r)'
      BY <3>1 DEF SchedInv, SchedRequestOK, ProgressOK, InsertedOK, SnapshotOK, InScope, RowOf
    <3>4. RowLocksOK' /\ HoursOK'
      BY <3>1 DEF SchedInv, RowLocksOK, HoursOK, RowOf
    <3> QED BY <3>1, <3>2, <3>3, <3>4 DEF SchedInv
  <2> QED BY <2>1, <2>2, <2>3, <2>4 DEF SchedNext
<1> QED BY <1>1, <1>2, PTL DEF SchedSpec

\* A committed replace left no row of its scope that was committed when its
\* DELETE started.
LEMMA InvSupersededGone == SchedInv => SupersededGone
<1> SUFFICES ASSUME SchedInv, NEW q \in committed \ {None}, schedOp[q].kind = "replace",
                    NEW x \in rows, x.table = schedOp[q].table, x.scope = schedOp[q].scope
             PROVE  Writer(x) \notin before[q]
  BY DEF SupersededGone
<1>1. q \in Edit /\ SchedRequestOK(q) /\ schedOp[q] # None
  BY DEF SchedInv, SchedTypeOK, SchedRequestOK, ProgressOK
<1> QED BY <1>1 DEF SchedRequestOK, SnapshotOK, InScope

\* deleteMany with createMany replaces what the request could see.
THEOREM ReplaceReplacesAll == SchedSpec => []SupersededGone
BY InvSupersededGone, ScheduleInvariant, PTL

\* The open intervals of one valid payload do not overlap.
LEMMA ValidWeekDisjoint ==
  ASSUME NEW o \in SchedOps, o.table = "businessHour", ValidWeek(o.items),
         NEW k \in Items(o), NEW l \in Items(o), k # l
  PROVE  ~SameHours(k, l)
<1>1. PICK i \in DOMAIN o.items, j \in DOMAIN o.items : k = o.items[i] /\ l = o.items[j]
  BY DEF Items
<1>2. i \in Int /\ j \in Int /\ i # j
  BY <1>1, SchedOpFields
<1>3. ~(k.day = l.day) \/ (~intervalsOverlap(k, l) \/ ~intervalsOverlap(l, k))
  BY <1>1, <1>2 DEF ValidWeek
<1> QED BY <1>3 DEF SameHours, intervalsOverlap

\* Opening hours overlap only when two replaceAll calls did not see each other.
THEOREM HoursOverlapOnlyByRace == SchedSpec => []OverlapOnlyByRace
<1>1. SchedInv => OverlapOnlyByRace
  <2> SUFFICES ASSUME SchedInv, NEW x \in rows, NEW y \in rows,
                      x.table = "businessHour", y.table = "businessHour", x # y,
                      SameHours(x.key, y.key)
               PROVE  /\ Writer(x) # Writer(y)
                      /\ Writer(x) \notin before[Writer(y)] /\ Writer(y) \notin before[Writer(x)]
    BY DEF OverlapOnlyByRace
  <2> DEFINE Replaces(w) == /\ w \in committed \ {None} /\ w \in Edit
                            /\ schedOp[w] \in SchedOps /\ schedOp[w].kind = "replace"
                            /\ schedOp[w].table = "businessHour" /\ schedOp[w].scope = None
                            /\ ValidWeek(schedOp[w].items) /\ None \in before[w]
             Source(z) == \/ z \in FirstRows /\ Writer(z) = None
                          \/ /\ Replaces(Writer(z)) /\ z.key \in Items(schedOp[Writer(z)])
                             /\ z = RowOf(Writer(z), z.key)
  <2>1. ASSUME NEW w \in committed \ {None},
               schedOp[w].kind = "replace", schedOp[w].table = "businessHour"
        PROVE  Replaces(w)
    <3>1. w \in Edit /\ SchedRequestOK(w) /\ schedOp[w] # None /\ schedOp[w] \in SchedOps
      BY DEF SchedInv, SchedTypeOK, SchedRequestOK, ProgressOK
    <3>2. ValidWeek(schedOp[w].items) /\ None \in before[w]
      BY <2>1, <3>1 DEF SchedRequestOK, ProgressOK, SnapshotOK
    <3> QED BY <2>1, <3>1, <3>2, SchedOpFields
  <2>2. ASSUME NEW z \in rows, z.table = "businessHour"
        PROVE  Source(z) /\ z.scope = None
    <3>1. z.scope = None
      BY <2>2, SchedRowFields DEF SchedInv, SchedTypeOK
    <3>2. CASE z \in FirstRows
      BY <3>1, <3>2, SchedAssumption
    <3>3. CASE z \notin FirstRows
      <4>1. PICK w \in committed \ {None} :
              /\ schedOp[w].kind = "replace" /\ schedOp[w].table = "businessHour"
              /\ \E k \in Items(schedOp[w]) : z = RowOf(w, k)
        BY <2>2, <3>3 DEF SchedInv, HoursOK
      <4>2. Replaces(w)
        BY <2>1, <4>1
      <4>3. PICK k \in Items(schedOp[w]) : z = RowOf(w, k)
        BY <4>1
      <4>4. Writer(z) = w /\ z.key = k
        BY <4>2, <4>3, RowOfFields
      <4> HIDE DEF Replaces
      <4> QED BY <3>1, <4>2, <4>3, <4>4
    <3> QED BY <3>2, <3>3
  <2>3. ASSUME NEW a \in rows, NEW b \in rows, a.table = "businessHour",
               b.table = "businessHour", Replaces(Writer(b))
        PROVE  Writer(a) \notin before[Writer(b)]
    BY <2>2, <2>3, InvSupersededGone DEF SupersededGone
  <2>4. Source(x) /\ Source(y)
    BY <2>2
  <2>5. Writer(x) # Writer(y)
    <3> SUFFICES ASSUME Writer(x) = Writer(y) PROVE FALSE
      OBVIOUS
    <3>1. CASE Writer(x) = None
      <4>1. x \in FirstRows /\ y \in FirstRows
        BY <2>4, <3>1
      <4> QED BY <4>1, SchedAssumption
    <3>2. CASE Writer(x) # None
      <4>1. /\ Replaces(Writer(x))
            /\ x.key \in Items(schedOp[Writer(x)]) /\ y.key \in Items(schedOp[Writer(x)])
            /\ x = RowOf(Writer(x), x.key) /\ y = RowOf(Writer(x), y.key)
        BY <2>4, <3>2
      <4>2. x.key # y.key
        BY <4>1
      <4> QED BY <4>1, <4>2, ValidWeekDisjoint
    <3> QED BY <3>1, <3>2
  <2>6. Replaces(Writer(x)) /\ Replaces(Writer(y))
    <3>1. Replaces(Writer(x)) \/ Replaces(Writer(y))
      BY <2>4, <2>5
    <3>2. CASE Replaces(Writer(x))
      BY <2>3, <2>4, <3>2
    <3>3. CASE Replaces(Writer(y))
      BY <2>3, <2>4, <3>3
    <3> QED BY <3>1, <3>2, <3>3
  <2> QED BY <2>3, <2>5, <2>6
<1> QED BY <1>1, ScheduleInvariant, PTL
-----------------------------------------------------------------------------
\* List walks.

\* The rows of a query with a LIMIT: all of them when fewer than the limit
\* came back, and some when there are any.
LEMMA FilledPage ==
  ASSUME NEW all \in SUBSET RowId, NEW page \in SUBSET all, NEW n \in Nat \ {0},
         Fills(page, all, n)
  PROVE  /\ Cardinality(page) < n => page = all
         /\ page = {} => all = {}
<1>1. IsFiniteSet(all) /\ IsFiniteSet(page)
  BY FS_Subset, PaginationAssumption
<1>2. Cardinality(all) \in Nat /\ Cardinality(page) \in Nat
  BY <1>1, FS_CardinalityType
<1>3. Cardinality(page) = Cardinality(all) => page = all
  BY <1>1, FS_Subset
<1>4. page = {} => Cardinality(page) = 0
  BY FS_EmptySet
<1>5. Cardinality(all) = 0 => all = {}
  BY <1>1, FS_EmptySet
<1> QED BY <1>2, <1>3, <1>4, <1>5 DEF Fills

\* The rows of the table, one by one.
LEMMA ListRowType ==
  ASSUME ListTypeOK, NEW i \in RowId, listRows[i] # None
  PROVE  listRows[i] \in ListRow /\ listRows[i].at \in Nat
BY PaginationAssumption DEF ListTypeOK, ListRow

(* A walk that has read no page satisfies the list invariant.             *)
THEOREM ListStart == ListInit => ListInv
<1> SUFFICES ASSUME ListInit PROVE ListInv
  OBVIOUS
<1>1. ListTypeOK
  BY DEF ListInit, ListTypeOK
<1>2. NotYet /\ CursorParts
  BY DEF ListInit, NotYet, CursorParts
<1>3. WalkIsExact
  BY DEF ListInit, WalkIsExact
<1> QED BY <1>1, <1>2, <1>3 DEF ListInv

\* Counting a page.
LEMMA DeliverCounts ==
  ASSUME ListTypeOK, NEW ids \in SUBSET RowId, Deliver(ids)
  PROVE  /\ returned' \in [RowId -> Nat]
         /\ \A i \in ids : returned'[i] = returned[i] + 1
         /\ \A i \in RowId \ ids : returned'[i] = returned[i]
BY DEF Deliver, ListTypeOK

\* The offset path leaves the walk where its cursor says.
LEMMA FirstPageKeepsInv ==
  ASSUME ListInv, FirstPage
  PROVE  ListInv'
<1> USE PaginationAssumption
<1>t. ListTypeOK /\ NotYet
  BY DEF ListInv
<1>1. PICK f \in Filters, n \in Limits, page \in SUBSET RowId :
        /\ page \subseteq BaseWhere(f)
        /\ Fills(page, BaseWhere(f), n)
        /\ \A i \in page, j \in BaseWhere(f) \ page : listRows[i].at >= listRows[j].at
        /\ query' = [filter |-> f, limit |-> n]
        /\ stayed' = {i \in RowId : ListLive(i)}
        /\ Deliver(page)
        /\ \/ /\ page = {}
              /\ walk' = "done"
              /\ UNCHANGED <<cursor, boundary>>
           \/ \E last \in page :
                /\ \A i \in page : listRows[i].at >= listRows[last].at
                /\ walk' = "pages"
                /\ cursor' = <<listRows[last].at, last>>
                /\ boundary' = listRows[last].at
  <2>1. \A f \in Filters : BaseWhere(f) \subseteq RowId
    BY DEF BaseWhere
  <2> QED BY <2>1 DEF FirstPage
<1>2. listRows' = listRows /\ walk = "idle"
  BY DEF FirstPage
<1>3. BaseWhere(f) \subseteq RowId /\ page \subseteq RowId
  BY DEF BaseWhere
<1>4. boundary = None /\ \A i \in RowId : returned[i] = 0
  BY <1>t, <1>2 DEF NotYet
<1>5. /\ returned' \in [RowId -> Nat]
      /\ \A i \in RowId : returned'[i] = IF i \in page THEN 1 ELSE 0
  BY <1>t, <1>1, <1>3, <1>4, DeliverCounts
<1>6. \A i \in BaseWhere(f) : listRows[i] # None
  BY DEF BaseWhere, ListLive
<1>7. ASSUME NEW i \in RowId PROVE Wanted(i)' => i \in BaseWhere(f)
  <2>1. query'.filter = f
    BY <1>1
  <2> QED BY <1>1, <1>2, <2>1 DEF Wanted, BaseWhere
<1>8. \A i \in page : f # "none" => listRows[i].match
  BY <1>1 DEF BaseWhere
<1>9. query' \in [filter: Filters, limit: Limits] /\ query'.filter = f
  BY <1>1
<1>10. stayed' \subseteq {i \in RowId : ListLive(i)'}
  BY <1>1, <1>2 DEF ListLive
<1>11. listRows' \in [RowId -> {None} \cup ListRow]
  BY <1>t, <1>2 DEF ListTypeOK
<1>12. (\A i \in RowId : walk' = "idle" \/ listRows'[i] = None => returned'[i] = 0)
         /\ walk' # "idle"
  <2>1. walk' # "idle"
    BY <1>1
  <2> QED BY <2>1, <1>2, <1>5, <1>6, <1>1
<1>13. NotYet'
  BY <1>12 DEF NotYet
<1>14. CASE page = {} /\ walk' = "done" /\ UNCHANGED <<cursor, boundary>>
  <2>1. BaseWhere(f) = {}
    BY <1>14, <1>1, <1>3, FilledPage
  <2>2. ListTypeOK'
    BY <1>14, <1>t, <1>5, <1>9, <1>10, <1>11 DEF ListTypeOK
  <2>3. CursorParts'
    BY <1>14 DEF CursorParts
  <2>4. \A i \in RowId : returned'[i] = 0 /\ ~Wanted(i)'
    BY <1>14, <1>5, <1>7, <2>1
  <2>5. \A i \in RowId : i \in stayed' /\ (query'.filter = "none" \/ listRows'[i].match) => Wanted(i)'
    BY DEF Wanted
  <2>6. WalkIsExact'
    BY <2>4, <2>5 DEF WalkIsExact
  <2> QED BY <1>13, <2>2, <2>3, <2>6 DEF ListInv
<1>15. ASSUME NEW last \in page,
              \A i \in page : listRows[i].at >= listRows[last].at,
              walk' = "pages",
              cursor' = <<listRows[last].at, last>>,
              boundary' = listRows[last].at
       PROVE  ListInv'
  <2>1. last \in RowId /\ listRows[last] # None /\ listRows[last] \in ListRow
    BY <1>1, <1>3, <1>6, <1>t, ListRowType
  <2>2. listRows[last].at \in Stamp
    BY <2>1 DEF ListRow
  <2>3. ListTypeOK'
    BY <1>15, <1>5, <1>9, <1>10, <1>11, <2>1, <2>2 DEF ListTypeOK
  <2>4. ASSUME NEW i \in RowId, listRows[i] # None, listRows[i].at # listRows[last].at
        PROVE  /\ cursorWhere(cursor', i) => returned'[i] = 0
               /\ ~cursorWhere(cursor', i) => (Wanted(i)' => returned'[i] = 1)
    <3>1. listRows[i].at \in Nat /\ listRows[last].at \in Nat
      BY <2>4, <2>1, <1>t, ListRowType
    <3>2. cursorWhere(cursor', i) <=> listRows[i].at < listRows[last].at
      BY <1>15, <2>4 DEF cursorWhere
    <3>3. i \in page => listRows[i].at >= listRows[last].at
      BY <1>15
    <3>4. i \in BaseWhere(f) \ page => listRows[last].at >= listRows[i].at
      BY <1>1
    <3>5. cursorWhere(cursor', i) => i \notin page
      BY <3>1, <3>2, <3>3
    <3>6. ASSUME ~cursorWhere(cursor', i), Wanted(i)' PROVE i \in page
      <4>1. i \in BaseWhere(f)
        BY <3>6, <1>7, Zenon
      <4>2. ~(listRows[i].at < listRows[last].at)
        BY <3>6, <3>2, Zenon
      <4>3. ~(listRows[last].at >= listRows[i].at)
        BY <4>2, <3>1, <2>4
      <4> QED BY <4>1, <4>3, <3>4, Zenon
    <3> QED BY <3>5, <3>6, <1>5
  <2>5. \A i \in RowId : returned'[i] <= 1
    BY <1>5
  <2>6. CursorParts'
    <3>1. cursor'[1] <= boundary'
      BY <1>15, <2>2
    <3>2. \A i \in RowId : cursorWhere(cursor, i)' <=> cursorWhere(cursor', i)
      BY <1>2 DEF cursorWhere
    <3> QED BY <3>1, <3>2, <1>2, <1>15, <2>4, <2>5 DEF CursorParts
  <2>7. WalkIsExact'
    <3>1. walk' # "done"
      BY <1>15
    <3>2. \A i \in RowId : returned'[i] > 0 => i \in page
      BY <1>5
    <3> QED BY <3>1, <3>2, <2>5, <1>2, <1>8, <1>9 DEF WalkIsExact
  <2> QED BY <1>13, <2>3, <2>6, <2>7 DEF ListInv
<1> QED BY <1>1, <1>14, <1>15
\* A further page passes exactly the rows it returns.
LEMMA NextPageKeepsInv ==
  ASSUME ListInv, NextPage
  PROVE  ListInv'
<1> USE PaginationAssumption
<1>t. ListTypeOK /\ NotYet /\ CursorParts /\ WalkIsExact
  BY DEF ListInv
<1> DEFINE W == PageWhere(query.filter, cursor)
<1>1. /\ walk = "pages" /\ walk' # "idle"
      /\ listRows' = listRows /\ query' = query /\ boundary' = boundary /\ stayed' = stayed
  <2>1. walk' \in {"done", "pages"}
    BY Zenon DEF NextPage
  <2> QED BY <2>1, Zenon DEF NextPage
<1>2. /\ query.filter \in Filters /\ query.limit \in Nat \ {0} /\ takePlusOne(query.limit) \in Nat \ {0}
      /\ cursor \in Stamp \X RowId /\ boundary \in Stamp /\ boundary # None
  <2>1. query \in [filter: Filters, limit: Limits]
    BY <1>t, <1>1 DEF ListTypeOK
  <2>2. query.filter \in Filters /\ query.limit \in Nat \ {0}
    BY <2>1
  <2>3. takePlusOne(query.limit) \in Nat \ {0}
    BY <2>2 DEF takePlusOne
  <2>4. cursor \in Stamp \X RowId /\ boundary \in Stamp
    BY <1>t, <1>1 DEF ListTypeOK
  <2> QED BY <2>2, <2>3, <2>4
<1>3. /\ W \subseteq RowId
      /\ \A i \in W : /\ listRows[i] # None /\ cursorWhere(cursor, i)
                      /\ query.filter = "and" => listRows[i].match
  <2>1. W \subseteq BaseWhere(IF query.filter = "search" THEN "none" ELSE query.filter)
    BY DEF PageWhere
  <2>2. \A i \in W : cursorWhere(cursor, i)
    BY DEF PageWhere
  <2>3. \A f : BaseWhere(f) \subseteq RowId /\ \A i \in BaseWhere(f) : listRows[i] # None
    BY DEF BaseWhere, ListLive
  <2>4. \A i \in BaseWhere("and") : listRows[i].match
    BY DEF BaseWhere
  <2>5. query.filter = "and" => W \subseteq BaseWhere("and")
    BY <2>1
  <2> QED BY <2>1, <2>2, <2>3, <2>4, <2>5
<1>4. ASSUME NEW i \in RowId, Wanted(i), cursorWhere(cursor, i) PROVE i \in W
  <2>1. ListLive(i)
    BY <1>t, <1>4 DEF ListTypeOK, Wanted
  <2>2. i \in BaseWhere(IF query.filter = "search" THEN "none" ELSE query.filter)
    BY <2>1, <1>4, <1>2 DEF BaseWhere, Wanted, Filters
  <2> QED BY <2>2, <1>4 DEF PageWhere
<1>5. PICK found \in SUBSET W :
        /\ Fills(found, W, takePlusOne(query.limit))
        /\ \A i \in found, j \in W \ found : keysetOrderBy(i, j)
        /\ \E data \in SUBSET found, next \in {None} \cup (Stamp \X RowId) :
             /\ slicePage(found, query.limit, data, next)
             /\ Deliver(data)
             /\ cursor' = next
             /\ walk' = IF next = None THEN "done" ELSE "pages"
  BY DEF NextPage
<1>6. PICK data \in SUBSET found, next \in {None} \cup (Stamp \X RowId) :
        /\ slicePage(found, query.limit, data, next)
        /\ Deliver(data)
        /\ cursor' = next
        /\ walk' = IF next = None THEN "done" ELSE "pages"
  BY <1>5
<1> HIDE DEF W
<1>7. data \subseteq RowId /\ data \subseteq W /\ found \subseteq RowId
  BY <1>3
<1>8. /\ returned' \in [RowId -> Nat]
      /\ \A i \in data : returned'[i] = returned[i] + 1
      /\ \A i \in RowId \ data : returned'[i] = returned[i]
  BY <1>t, <1>6, <1>7, DeliverCounts
<1>9. listRows' \in [RowId -> {None} \cup ListRow]
  BY <1>t, <1>1 DEF ListTypeOK
<1>10. stayed' \subseteq {i \in RowId : ListLive(i)'}
  BY <1>t, <1>1 DEF ListTypeOK, ListLive
<1>11. ListTypeOK'
  <2>1. walk' = "pages" => cursor' \in Stamp \X RowId
    BY <1>6
  <2>2. walk' \in {"pages", "done"}
    BY <1>6
  <2>3. query' \in [filter: Filters, limit: Limits]
    BY <1>t, <1>1 DEF ListTypeOK
  <2> QED BY <2>1, <2>2, <2>3, <1>1, <1>2, <1>8, <1>9, <1>10 DEF ListTypeOK
<1>12. NotYet'
  <2>1. \A i \in RowId : listRows[i] = None => returned'[i] = 0
    BY <1>t, <1>3, <1>7, <1>8 DEF NotYet
  <2>2. \A i \in RowId : walk' = "idle" \/ listRows'[i] = None => returned'[i] = 0
    BY <2>1, <1>1
  <2> QED BY <2>2, <1>1 DEF NotYet
<1>13. \A i \in RowId : Wanted(i)' <=> Wanted(i)
  BY <1>1 DEF Wanted
\* The rows of the page sort at or before the seam.
<1>14. ASSUME NEW i \in data PROVE listRows[i].at <= boundary
  <2>1. cursorWhere(cursor, i) /\ listRows[i].at \in Nat
    BY <1>3, <1>7, <1>t, ListRowType
  <2>2. cursor[1] \in Nat /\ boundary \in Nat /\ cursor[1] <= boundary
    BY <1>1, <1>2, <1>t DEF CursorParts
  <2> QED BY <2>1, <2>2 DEF cursorWhere
<1>15. ASSUME NEW i \in RowId, returned'[i] > 0, query.filter # "none", ~listRows[i].match,
              listRows[i] # None
       PROVE  query.filter = "search" /\ listRows[i].at <= boundary
  <2>1. CASE i \in data
    BY <2>1, <1>15, <1>14, <1>3, <1>7, <1>2 DEF Filters
  <2>2. CASE i \notin data
    <3>1. returned[i] > 0
      BY <2>2, <1>8, <1>15
    <3> QED BY <3>1, <1>15, <1>t DEF WalkIsExact
  <2> QED BY <2>1, <2>2
\* What is returned, row by row.
<1>16. ASSUME NEW i \in RowId, listRows[i] # None, listRows[i].at # boundary
       PROVE  /\ cursorWhere(cursor, i) => returned[i] = 0
              /\ ~cursorWhere(cursor, i) => returned[i] <= 1 /\ (Wanted(i) => returned[i] = 1)
  BY <1>16, <1>t, <1>1 DEF CursorParts
<1>17. ASSUME NEW i \in RowId, listRows[i] # None, listRows[i].at # boundary
       PROVE  /\ returned'[i] <= 1
              /\ i \in data => returned'[i] = 1
              /\ ~cursorWhere(cursor, i) => (Wanted(i) => returned'[i] = 1)
              /\ cursorWhere(cursor, i) /\ i \notin data => returned'[i] = 0
  <2>1. returned[i] \in Nat
    BY <1>t DEF ListTypeOK
  <2>2. i \in data => cursorWhere(cursor, i)
    BY <1>3, <1>7
  <2> QED BY <2>1, <2>2, <1>16, <1>17, <1>8
<1>18. CASE Cardinality(found) > query.limit
  <2>1. PICK extra \in found, last \in data :
          /\ data = found \ {extra}
          /\ \A i \in data : keysetOrderBy(i, extra)
          /\ \A i \in data \ {last} : keysetOrderBy(i, last)
          /\ next = <<listRows[last].at, last>>
    BY <1>6, <1>18 DEF slicePage
  <2>2. last \in RowId /\ listRows[last] \in ListRow /\ listRows[last].at \in Stamp
    <3>1. last \in RowId /\ listRows[last] # None
      BY <1>3, <1>7
    <3> QED BY <3>1, <1>t, ListRowType DEF ListRow
  <2>3. next # None /\ walk' = "pages" /\ cursor' = <<listRows[last].at, last>>
    <3>1. next \in Stamp \X RowId
      BY <2>1, <2>2
    <3> QED BY <3>1, <2>1, <1>6
  <2>4. ASSUME NEW i \in data PROVE ~cursorWhere(cursor', i)
    <3>1. i \in Nat /\ last \in Nat /\ listRows[i].at \in Nat /\ listRows[last].at \in Nat
      BY <1>3, <1>7, <1>t, ListRowType
    <3>2. i = last \/ keysetOrderBy(i, last)
      BY <2>1
    <3> QED BY <3>1, <3>2, <2>3 DEF cursorWhere, keysetOrderBy
  <2>5. ASSUME NEW i \in W \ data PROVE cursorWhere(cursor', i)
    <3>1. i \in Nat /\ last \in Nat /\ listRows[i].at \in Nat /\ listRows[last].at \in Nat
      BY <1>3, <1>7, <1>t, ListRowType
    <3>2. keysetOrderBy(last, i)
      BY <1>5, <2>1, <2>5
    <3> QED BY <3>1, <3>2, <2>3 DEF cursorWhere, keysetOrderBy
  <2>6. ASSUME NEW i \in RowId, listRows[i] # None, cursorWhere(cursor', i)
        PROVE  cursorWhere(cursor, i)
    <3>1. i \in Nat /\ last \in Nat /\ listRows[i].at \in Nat /\ listRows[last].at \in Nat
      BY <2>6, <2>2, <1>t, ListRowType
    <3>2. cursorWhere(cursor, last) /\ cursor[1] \in Nat /\ cursor[2] \in Nat
      BY <1>2, <1>3, <1>7
    <3> QED BY <3>1, <3>2, <2>3, <2>6 DEF cursorWhere
  <2>7. cursor'[1] <= boundary'
    BY <1>14, <1>1, <2>3
  <2>8. ASSUME NEW i \in RowId, listRows[i] # None, listRows[i].at # boundary
        PROVE  /\ cursorWhere(cursor', i) => returned'[i] = 0
               /\ ~cursorWhere(cursor', i) => returned'[i] <= 1 /\ (Wanted(i) => returned'[i] = 1)
    <3>1. cursorWhere(cursor', i) => cursorWhere(cursor, i) /\ i \notin data
      BY <2>4, <2>6, <2>8
    <3>2. ~cursorWhere(cursor', i) /\ Wanted(i) /\ cursorWhere(cursor, i) => i \in data
      BY <2>5, <1>4
    <3> QED BY <3>1, <3>2, <2>8, <1>17
  <2>9. \A i \in RowId : cursorWhere(cursor, i)' <=> cursorWhere(cursor', i)
    BY <1>1 DEF cursorWhere
  <2>10. CursorParts'
    BY <2>7, <2>8, <2>9, <1>1, <1>13 DEF CursorParts
  <2>11. WalkIsExact'
    <3>1. walk' # "done"
      BY <2>3
    <3> QED BY <3>1, <1>1, <1>2, <1>15, <1>17 DEF WalkIsExact
  <2> QED BY <1>11, <1>12, <2>10, <2>11 DEF ListInv
<1>19. CASE ~(Cardinality(found) > query.limit)
  <2>1. data = found /\ next = None /\ walk' = "done"
    BY <1>6, <1>19 DEF slicePage
  <2>2. found = W
    <3>1. IsFiniteSet(found) /\ Cardinality(found) \in Nat
      BY <1>7, FS_Subset, FS_CardinalityType
    <3>2. Cardinality(found) < takePlusOne(query.limit)
      BY <3>1, <1>2, <1>19 DEF takePlusOne
    <3> QED BY <3>2, <1>2, <1>3, <1>5, FilledPage
  <2>3. CursorParts'
    BY <2>1 DEF CursorParts
  <2>4. ASSUME NEW i \in RowId, listRows[i] # None, listRows[i].at # boundary, Wanted(i)
        PROVE  returned'[i] = 1
    BY <2>1, <2>2, <2>4, <1>4, <1>17
  <2>5. WalkIsExact'
    <3>1. \A i \in RowId : i \in stayed /\ (query.filter = "none" \/ listRows[i].match) => Wanted(i)
      BY DEF Wanted
    <3> QED BY <3>1, <2>4, <1>1, <1>2, <1>15, <1>17 DEF WalkIsExact
  <2> QED BY <1>11, <1>12, <2>3, <2>5 DEF ListInv
<1> QED BY <1>18, <1>19
\* Rows that come and go beside the walk.
LEMMA ListRowsKeepInv ==
  ASSUME ListInv, NEW i \in RowId,
         \/ /\ listRows[i] = None /\ walk # "done" /\ stayed' = stayed
            /\ \E t \in Stamp, m \in BOOLEAN :
                 listRows' = [listRows EXCEPT ![i] = [at |-> t, match |-> m, deleted |-> FALSE]]
         \/ /\ ListLive(i) /\ walk = "pages" /\ stayed' = stayed \ {i}
            /\ listRows' = [listRows EXCEPT ![i].deleted = TRUE],
         UNCHANGED <<walk, query, cursor, boundary, returned>>
  PROVE  ListInv'
<1> USE PaginationAssumption
<1>t. ListTypeOK /\ NotYet /\ CursorParts /\ WalkIsExact
  BY DEF ListInv
<1>u. walk' = walk /\ query' = query /\ cursor' = cursor /\ boundary' = boundary /\ returned' = returned
  OBVIOUS
<1>r. walk # "done" /\ listRows \in [RowId -> {None} \cup ListRow]
  BY <1>t DEF ListTypeOK
\* What the two changes have in common.
<1>1. /\ listRows' \in [RowId -> {None} \cup ListRow]
      /\ \A j \in RowId \ {i} : listRows'[j] = listRows[j]
      /\ listRows'[i] # None
      /\ stayed' \subseteq stayed
      /\ i \notin stayed'
      /\ listRows[i] # None => /\ listRows'[i].at = listRows[i].at
                               /\ listRows'[i].match = listRows[i].match
  <2>1. CASE /\ listRows[i] = None /\ walk # "done" /\ stayed' = stayed
             /\ \E t \in Stamp, m \in BOOLEAN :
                  listRows' = [listRows EXCEPT ![i] = [at |-> t, match |-> m, deleted |-> FALSE]]
    <3>1. PICK t \in Stamp, m \in BOOLEAN :
            listRows' = [listRows EXCEPT ![i] = [at |-> t, match |-> m, deleted |-> FALSE]]
      BY <2>1
    <3> DEFINE new == [at |-> t, match |-> m, deleted |-> FALSE]
    <3>2. new \in ListRow
      BY DEF ListRow
    <3>3. i \notin stayed
      BY <2>1, <1>t DEF ListTypeOK, ListLive
    <3>4. listRows' = [listRows EXCEPT ![i] = new] /\ new # None
      BY <3>1, <3>2
    <3> HIDE DEF new
    <3> QED BY <3>2, <3>3, <3>4, <2>1, <1>r
  <2>2. CASE /\ ListLive(i) /\ walk = "pages" /\ stayed' = stayed \ {i}
             /\ listRows' = [listRows EXCEPT ![i].deleted = TRUE]
    <3>1. listRows[i] \in ListRow
      BY <2>2, <1>r DEF ListLive
    <3> DEFINE new == [listRows[i] EXCEPT !.deleted = TRUE]
    <3>2. new \in ListRow /\ new.at = listRows[i].at /\ new.match = listRows[i].match
      BY <3>1 DEF ListRow
    <3>3. listRows' = [listRows EXCEPT ![i] = new] /\ new # None
      BY <2>2, <3>2
    <3> HIDE DEF new
    <3> QED BY <3>2, <3>3, <2>2, <1>r
  <2> QED BY <2>1, <2>2
<1>2. ASSUME NEW j \in stayed' PROVE ListLive(j)'
  <2>1. j \in RowId /\ j # i /\ ListLive(j)
    BY <1>1, <1>t, <1>2 DEF ListTypeOK
  <2> QED BY <2>1, <1>1 DEF ListLive
<1>3. ListTypeOK'
  <2>1. stayed' \subseteq {j \in RowId : ListLive(j)'}
    BY <1>1, <1>2, <1>t DEF ListTypeOK
  <2> QED BY <2>1, <1>1, <1>t, <1>u DEF ListTypeOK
<1>4. NotYet'
  <2>1. \A j \in RowId : listRows'[j] = None => listRows[j] = None
    BY <1>1
  <2> QED BY <2>1, <1>t, <1>u DEF NotYet
<1>5. ASSUME NEW j \in RowId, Wanted(j)' PROVE Wanted(j) /\ j # i
  BY <1>1, <1>5, <1>u DEF Wanted
<1>6. ASSUME NEW j \in RowId, listRows[j] # None
      PROVE  /\ listRows'[j].at = listRows[j].at
             /\ listRows'[j].match = listRows[j].match
             /\ cursorWhere(cursor, j)' <=> cursorWhere(cursor, j)
  BY <1>1, <1>6, <1>u DEF cursorWhere
<1>7. ASSUME NEW j \in RowId, listRows[j] = None
      PROVE  returned'[j] = 0 /\ ~Wanted(j)'
  <2>1. ~Wanted(j)
    BY <1>7, <1>t DEF Wanted, ListTypeOK, ListLive
  <2> QED BY <2>1, <1>5, <1>7, <1>t, <1>u DEF NotYet
<1>8. CursorParts'
  <2>1. ASSUME walk = "pages", NEW j \in RowId, listRows'[j] # None, listRows'[j].at # boundary
        PROVE  /\ cursorWhere(cursor, j)' => returned'[j] = 0
               /\ ~cursorWhere(cursor, j)' => returned'[j] <= 1 /\ (Wanted(j)' => returned'[j] = 1)
    <3>1. CASE listRows[j] = None
      BY <3>1, <1>7
    <3>2. CASE listRows[j] # None
      BY <3>2, <2>1, <1>5, <1>6, <1>t, <1>u DEF CursorParts
    <3> QED BY <3>1, <3>2
  <2>2. walk = "pages" => cursor'[1] <= boundary'
    BY <1>t, <1>u DEF CursorParts
  <2> QED BY <2>1, <2>2, <1>u DEF CursorParts
<1>9. WalkIsExact'
  <2>1. ASSUME NEW j \in RowId, boundary = None \/ listRows'[j].at # boundary
        PROVE  returned'[j] <= 1
    <3>1. CASE listRows[j] = None
      BY <3>1, <1>7
    <3>2. CASE listRows[j] # None
      BY <3>2, <2>1, <1>6, <1>t, <1>u DEF WalkIsExact
    <3> QED BY <3>1, <3>2
  <2>2. ASSUME NEW j \in RowId, returned'[j] > 0, query.filter # "none", ~listRows'[j].match
        PROVE  query.filter = "search" /\ listRows'[j].at <= boundary
    <3>1. listRows[j] # None
      BY <2>2, <1>7
    <3>2. returned[j] > 0 /\ ~listRows[j].match /\ listRows'[j].at = listRows[j].at
      BY <3>1, <2>2, <1>6, <1>u
    <3> QED BY <3>1, <3>2, <2>2, <1>t DEF WalkIsExact
  <2> QED BY <2>1, <2>2, <1>r, <1>u DEF WalkIsExact
<1> QED BY <1>3, <1>4, <1>8, <1>9 DEF ListInv

(* Reading a page keeps it, and so does a row inserted or deleted.         *)
THEOREM ListStep == ListInv /\ [ListNext]_listVars => ListInv'
<1> SUFFICES ASSUME ListInv, [ListNext]_listVars PROVE ListInv'
  OBVIOUS
<1>1. CASE FirstPage
  BY <1>1, FirstPageKeepsInv
<1>2. CASE NextPage
  BY <1>2, NextPageKeepsInv
<1>3. CASE RowInserted
  BY <1>3, ListRowsKeepInv DEF RowInserted
<1>4. CASE RowDeleted
  BY <1>4, ListRowsKeepInv DEF RowDeleted
<1>5. CASE UNCHANGED listVars
  BY <1>5 DEF listVars, ListInv, ListTypeOK, NotYet, CursorParts, WalkIsExact, Wanted, cursorWhere, ListLive
<1> QED BY <1>1, <1>2, <1>3, <1>4, <1>5 DEF ListNext

(* So every list endpoint satisfies it throughout a walk.                 *)
THEOREM PagesInvariant == ListSpec => []ListInv
<1> QED BY ListStart, ListStep, PTL DEF ListSpec

\* A walk over a list returns each wanted row once and no row twice, whatever
\* is inserted and deleted between its pages, off the seam of the two paths;
\* only a search goes on without its filter.
THEOREM WalksMissNothing == ListSpec => []WalkIsExact
<1>1. ListInv => WalkIsExact
  BY DEF ListInv
<1> QED BY <1>1, PagesInvariant, PTL

=============================================================================
