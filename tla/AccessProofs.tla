----------------------------- MODULE AccessProofs -----------------------------
(***************************************************************************)
(* Safety of guards, tenant sessions, API keys and audit rows, for any     *)
(* number of requests, tenants, keys and pooled connections.               *)
(***************************************************************************)
EXTENDS Access, TLAPS

-----------------------------------------------------------------------------
\* Lemmas about calls, scopes and expiries.

\* The fields of a call, by the endpoint it is sent to.
LEMMA CallFields ==
  ASSUME NEW call \in Calls
  PROVE  /\ call # None
         /\ call.cred \in Credential
         /\ call.op \in {"list", "search", "create", "revoke", "rotate", "createKey"}
         /\ call.op \in {"revoke", "rotate"} => call.arg \in KeyId
         /\ call.op = "createKey" => call.arg \in KeyBody
BY AccessAssumption DEF EndpointCall

LEMMA CredentialFields ==
  ASSUME NEW cred \in Credential
  PROVE  /\ cred.kind \in {"jwt", "key"}
         /\ cred.kind = "jwt" => cred.tenant \in Tenant /\ cred.role \in UserRole
         /\ cred.kind = "key" => cred.id \in KeyId
BY DEF Credential

\* A committed key is a row.
LEMMA KeyRowType ==
  ASSUME AccTypeOK, NEW k \in KeyId, keyRow[k] # None
  PROVE  keyRow[k] \in KeyRow
BY DEF AccTypeOK

\* The identity the guard derives from a valid credential is its scope.
LEMMA IdentityIsScope ==
  ASSUME AccTypeOK, NEW cred \in Credential, cred.kind = "key" => keyRow[cred.id] # None
  PROVE  /\ Identity(cred) \in User
         /\ <<Identity(cred).tenant, Identity(cred).isTest>> = ScopeOf(cred)
<1>1. CASE cred.kind = "jwt"
  BY <1>1, CredentialFields DEF Identity, ScopeOf, User
<1>2. CASE cred.kind = "key"
  <2>1. keyRow[cred.id] \in KeyRow
    BY <1>2, CredentialFields, KeyRowType
  <2>2. /\ Identity(cred).tenant = keyRow[cred.id].tenant
        /\ Identity(cred).isTest = (keyRow[cred.id].env = "test")
    BY <1>2 DEF Identity
  <2>3. Identity(cred) \in User
    BY <1>2, <2>1 DEF Identity, User, KeyRow
  <2> QED BY <1>2, <2>2, <2>3 DEF ScopeOf
<1> QED BY <1>1, <1>2, CredentialFields

\* The extension and the policies compare with the caller's scope.
LEMMA ScopedRows ==
  ASSUME NEW r \in Req, NEW row \in DataRow, ContextOK(r), Known(r),
         row.tenant = user[r].tenant, row.isTest = user[r].isTest
  PROVE  <<row.tenant, row.isTest>> = ScopeOf(accCall[r].cred)
BY DEF ContextOK

LEMMA NotLaterTransitive ==
  ASSUME NEW x \in Expiry, NEW y \in Expiry, NEW z \in Expiry, NotLater(x, y), NotLater(y, z)
  PROVE  NotLater(x, z)
BY AccessAssumption DEF NotLater, Expiry

-----------------------------------------------------------------------------
\* How the key table evolves.

\* Keys are never deleted, keep tenant, mode, deadline and ancestry, are never
\* unrevoked, and never get an expiry back that was capped.
KeysGrow ==
  \A k \in KeyId : keyRow[k] # None =>
    /\ keyRow'[k] # None
    /\ keyRow'[k].tenant = keyRow[k].tenant
    /\ keyRow'[k].env = keyRow[k].env
    /\ keyRow'[k].root = keyRow[k].root
    /\ keyRow'[k].granted = keyRow[k].granted
    /\ keyRow[k].revoked => keyRow'[k].revoked
    /\ keyRow'[k].expires = Deadline(k) => keyRow[k].expires = Deadline(k)

\* The scope of a caller past the guards never changes.
LEMMA ScopeIsStable ==
  ASSUME AccInv, KeysGrow, NEW q \in Req, Known(q), accCall'[q] = accCall[q]
  PROVE  ScopeOf(accCall[q].cred)' = ScopeOf(accCall[q].cred)
<1> DEFINE cred == accCall[q].cred
<1>1. /\ cred \in Credential /\ cred' = cred
      /\ cred.kind = "key" => cred.id \in KeyId /\ keyRow[cred.id] # None
  BY CallFields, CredentialFields DEF AccInv, AccRequestOK, ContextOK
<1>2. cred.kind = "jwt" => ScopeOf(cred)' = ScopeOf(cred)
  BY <1>1 DEF ScopeOf
<1>3. cred.kind = "key" => ScopeOf(cred)' = ScopeOf(cred)
  BY <1>1 DEF ScopeOf, KeysGrow
<1> QED BY <1>1, <1>2, <1>3, CredentialFields

\* The request q takes no step.
Rests(q) ==
  /\ accCall'[q] = accCall[q] /\ accPc'[q] = accPc[q] /\ user'[q] = user[q]
  /\ conn'[q] = conn[q] /\ keySeen'[q] = keySeen[q] /\ keyTx'[q] = keyTx[q]
  /\ dataTx'[q] = dataTx[q] /\ result'[q] = result[q]

\* What holds of a request survives the steps of others: they neither change the
\* rows it has locked nor the session of its connection.
LEMMA OthersOK ==
  ASSUME AccInv, KeysGrow, NEW q \in Req, Rests(q), hook'[q] = hook[q],
         q \in applied' <=> q \in applied,
         conn[q] # None => session'[conn[q]] = session[conn[q]],
         \A k \in KeyId : keyTx[q][k] # None => keyRow'[k] = keyRow[k]
  PROVE  AccRequestOK(q)'
<1> USE DEF AccInv, Rests
<1>1. AccRequestOK(q)
  OBVIOUS
<1>2. ContextOK(q)'
  <2>1. CASE Known(q)
    <3>1. /\ accCall[q] \in Calls /\ accCall[q].cred \in Credential
          /\ accCall[q].cred.kind = "key" => /\ accCall[q].cred.id \in KeyId
                                             /\ keyRow[accCall[q].cred.id] # None
      BY <1>1, <2>1, CallFields, CredentialFields DEF AccRequestOK, ContextOK
    <3>2. ScopeOf(accCall[q].cred)' = ScopeOf(accCall[q].cred)
      BY <2>1, ScopeIsStable
    <3> QED BY <1>1, <2>1, <3>1, <3>2 DEF AccRequestOK, ContextOK, Known, KeysGrow
  <2>2. CASE ~Known(q)
    BY <1>1, <2>2 DEF AccRequestOK, ContextOK, Known
  <2> QED BY <2>1, <2>2
<1>3. ConnOK(q)'
  BY <1>1 DEF AccRequestOK, ConnOK, InTx
<1>4. ReadOK(q)'
  <2> SUFFICES ASSUME accPc[q] \in {"update", "mint", "commit"},
                      accCall[q].op \in {"revoke", "rotate"}
               PROVE  ReadOK(q)'
    BY DEF ReadOK
  <2> DEFINE k == accCall[q].arg
  <2>1. k \in KeyId /\ keyRow[k] # None /\ LineageOK(k) /\ keyRow[k] \in KeyRow
    BY <1>1, KeyRowType DEF AccRequestOK, ReadOK
  <2>2. keyRow[k].root \in KeyId /\ keyRow[keyRow[k].root] # None
    BY <2>1 DEF LineageOK, KeyRow
  <2>3. Deadline(k)' = Deadline(k) /\ keyRow'[k] # None /\ keyRow'[k].root = keyRow[k].root
    BY <2>1, <2>2 DEF KeysGrow, Deadline
  <2>4. keyRow'[k].expires = Deadline(k) => keyRow[k].expires = Deadline(k)
    BY <2>1 DEF KeysGrow
  <2> HIDE DEF KeysGrow
  <2> QED BY <1>1, <2>1, <2>3, <2>4 DEF AccRequestOK, ReadOK
<1>5. KeyWorkOK(q)'
  BY <1>1 DEF AccRequestOK, KeyWorkOK, MintOK, NewExpiry, UpdatedKey
<1>6. OutcomeOK(q)'
  BY <1>1 DEF AccRequestOK, OutcomeOK
<1> QED BY <1>2, <1>3, <1>4, <1>5, <1>6 DEF AccRequestOK

\* Rows a request holds stay its own as long as no new ones come in.
LEMMA IsolationStays ==
  ASSUME AccInv, KeysGrow,
         \A q \in Req : result'[q] \cup dataTx'[q] \subseteq result[q] \cup dataTx[q],
         \A q \in Req : Known(q) => accCall'[q] = accCall[q]
  PROVE  TenantIsolation'
<1> SUFFICES ASSUME NEW q \in Req, NEW row \in result[q] \cup dataTx[q]
             PROVE  <<row.tenant, row.isTest>> = ScopeOf(accCall[q].cred)'
  BY DEF TenantIsolation
<1>1. Known(q) /\ <<row.tenant, row.isTest>> = ScopeOf(accCall[q].cred)
  BY DEF AccInv, AccRequestOK, ContextOK, TenantIsolation
<1> QED BY <1>1, ScopeIsStable

\* Audit rows stay true: an outcome is final.
LEMMA AuditStays ==
  ASSUME AccInv, KeysGrow, audit' = audit,
         \A q \in Req : accPc[q] = "done" =>
           /\ accPc'[q] = "done" /\ accCall'[q] = accCall[q]
           /\ q \in applied' <=> q \in applied
  PROVE  AuditIsTrue' /\ \A a \in audit' : accPc'[a.req] = "done"
<1> SUFFICES ASSUME NEW a \in audit
             PROVE  /\ a.outcome = "success" <=> a.req \in applied'
                    /\ a.tenant = ScopeOf(accCall[a.req].cred)'[1]
                    /\ accPc'[a.req] = "done"
  BY DEF AuditIsTrue
<1>1. a.req \in Req /\ accPc[a.req] = "done" /\ Known(a.req)
  BY DEF AccInv, AccTypeOK, AuditRow, Known
<1>2. /\ a.outcome = "success" <=> a.req \in applied
      /\ a.tenant = ScopeOf(accCall[a.req].cred)[1]
  BY DEF AccInv, AuditIsTrue
<1>3. ScopeOf(accCall[a.req].cred)' = ScopeOf(accCall[a.req].cred)
  BY <1>1, ScopeIsStable
<1> QED BY <1>1, <1>2, <1>3

\* A step that leaves the key table alone.
LEMMA KeysSame ==
  ASSUME AccInv, keyRow' = keyRow
  PROVE  KeysGrow /\ \A k \in KeyId : LineageOK(k)' /\ HeirOK(k)'
BY DEF AccInv, KeysGrow, LineageOK, HeirOK, Deadline

\* A statement inside the transaction of r.
LEMMA StatementStep ==
  ASSUME AccInv, NEW r \in Req, InTx(r),
         UNCHANGED <<keyRow, audit, applied, session, accCall, user, conn, hook>>,
         AccTypeOK', AccRequestOK(r)', KeyLocksOK',
         \A q \in Req \ {r} : Rests(q),
         \A row \in result'[r] \cup dataTx'[r] :
           <<row.tenant, row.isTest>> = ScopeOf(accCall[r].cred)
  PROVE  AccInv'
<1>1. KeysGrow /\ \A k \in KeyId : LineageOK(k)' /\ HeirOK(k)'
  BY KeysSame
<1>2. \A q \in Req : AccRequestOK(q)'
  BY <1>1, OthersOK
<1>3. PoolOK'
  BY DEF AccInv, PoolOK, Idle
<1>4. TenantIsolation'
  <2>1. ASSUME NEW q \in Req, NEW row \in result'[q] \cup dataTx'[q]
        PROVE  <<row.tenant, row.isTest>> = ScopeOf(accCall[q].cred)
    BY DEF AccInv, TenantIsolation, Rests
  <2> QED BY <2>1 DEF TenantIsolation, ScopeOf
<1>5. AuditIsTrue' /\ \A a \in audit' : accPc'[a.req] = "done"
  <2>1. \A q \in Req : accPc[q] = "done" => accPc'[q] = "done"
    BY DEF Rests, InTx
  <2> QED BY <1>1, <2>1, AuditStays
<1> QED BY <1>1, <1>2, <1>3, <1>4, <1>5 DEF AccInv

\* The end of a transaction gives its connection back without a tenant.
LEMMA EndTxOK ==
  ASSUME AccInv, NEW r \in Req, InTx(r), EndTx(r), UNCHANGED <<accCall, user, result>>
  PROVE  /\ PoolOK' /\ KeyLocksOK'
         /\ session' \in [Conn -> [tenant: Tenant \cup {""}, isTest: BOOLEAN]]
         /\ accPc' \in [Req -> AccPcs] /\ accPc'[r] = "done"
         /\ conn' \in [Req -> Conn \cup {None}] /\ conn'[r] = None
         /\ keySeen' \in [Req -> KeyRead \cup {None}]
         /\ keyTx' \in [Req -> [KeyId -> KeyRow \cup {None}]] /\ keyTx'[r] = NoKeys
         /\ dataTx' \in [Req -> SUBSET DataRow] /\ dataTx'[r] = {}
         /\ \A q \in Req \ {r} :
              Rests(q) /\ (conn[q] # None => session'[conn[q]] = session[conn[q]])
<1> USE DEF AccInv
<1>1. /\ session' = [session EXCEPT ![conn[r]] = Unset]
      /\ conn' = [conn EXCEPT ![r] = None] /\ keyTx' = [keyTx EXCEPT ![r] = NoKeys]
      /\ dataTx' = [dataTx EXCEPT ![r] = {}] /\ keySeen' = [keySeen EXCEPT ![r] = None]
      /\ accPc' = [accPc EXCEPT ![r] = "done"]
  BY DEF EndTx, SessionAfter, AccGoto
<1>2. conn[r] \in Conn /\ conn[r] # None
  BY DEF AccRequestOK, ConnOK, AccTypeOK
<1>3. NoKeys \in [KeyId -> KeyRow \cup {None}] /\ \A k \in KeyId : NoKeys[k] = None
  BY DEF NoKeys
<1>4. Unset \in [tenant: Tenant \cup {""}, isTest: BOOLEAN]
  BY DEF Unset
<1> HIDE DEF NoKeys, Unset
<1>5. PoolOK'
  <2>1. \A p, q \in Req : p # q /\ conn'[p] # None => conn'[p] # conn'[q]
    BY <1>1 DEF PoolOK, AccTypeOK
  <2>2. ASSUME NEW c \in Conn, \A q \in Req : conn'[q] # c PROVE session'[c] = Unset
    <3>1. c # conn[r] => c \in Idle
      BY <1>1, <2>2 DEF Idle, AccTypeOK
    <3> QED BY <1>1, <3>1 DEF PoolOK, AccTypeOK
  <2> QED BY <2>1, <2>2 DEF PoolOK, Idle, Unset
<1>6. KeyLocksOK'
  <2>1. \A q \in Req : keyTx'[q] = IF q = r THEN NoKeys ELSE keyTx[q]
    BY <1>1 DEF AccTypeOK
  <2>2. \A q \in Req, k \in KeyId : keyTx'[q][k] = None \/ keyTx'[q][k] = keyTx[q][k]
    BY <2>1, <1>3
  <2> QED BY <2>2 DEF KeyLocksOK
<1>7. \A q \in Req \ {r} :
        Rests(q) /\ (conn[q] # None => session'[conn[q]] = session[conn[q]])
  BY <1>1, <1>2 DEF Rests, PoolOK, AccTypeOK
<1>8. /\ accPc' \in [Req -> AccPcs] /\ accPc'[r] = "done"
      /\ session' \in [Conn -> [tenant: Tenant \cup {""}, isTest: BOOLEAN]]
  BY <1>1, <1>4 DEF AccTypeOK, AccPcs
<1>9. /\ conn' \in [Req -> Conn \cup {None}] /\ conn'[r] = None
      /\ keySeen' \in [Req -> KeyRead \cup {None}]
      /\ keyTx' \in [Req -> [KeyId -> KeyRow \cup {None}]] /\ keyTx'[r] = NoKeys
      /\ dataTx' \in [Req -> SUBSET DataRow] /\ dataTx'[r] = {}
  BY <1>1, <1>3 DEF AccTypeOK
<1> QED BY <1>5, <1>6, <1>7, <1>8, <1>9

\* A transaction that ends with outcome x, COMMIT or not.
LEMMA EndKeepsInv ==
  ASSUME AccInv, NEW r \in Req, InTx(r), EndTx(r), KeysGrow,
         UNCHANGED <<audit, time, accCall, user, result>>,
         NEW x \in {None, "success", "failure"},
         hook' = [hook EXCEPT ![r] = x], x # None => (x = "success" <=> r \in applied'),
         applied' \in {applied, applied \cup {r}},
         keyRow' \in [KeyId -> KeyRow \cup {None}], data' \subseteq DataRow,
         \A k \in KeyId, q \in Req \ {r} : keyTx[q][k] # None => keyRow'[k] = keyRow[k],
         \A k \in KeyId : LineageOK(k)' /\ HeirOK(k)'
  PROVE  AccInv'
<1> USE DEF AccInv
<1>1. AccTypeOK'
  BY EndTxOK DEF AccTypeOK
<1>2. ASSUME NEW q \in Req \ {r} PROVE AccRequestOK(q)'
  <2>1. Rests(q) /\ (conn[q] # None => session'[conn[q]] = session[conn[q]])
    BY EndTxOK
  <2>2. hook'[q] = hook[q] /\ (q \in applied' <=> q \in applied)
    BY DEF AccTypeOK
  <2>3. \A k \in KeyId : keyTx[q][k] # None => keyRow'[k] = keyRow[k]
    OBVIOUS
  <2> HIDE DEF AccInv
  <2> QED BY <2>1, <2>2, <2>3, OthersOK
<1>3. AccRequestOK(r)'
  <2>1. /\ accPc'[r] = "done" /\ conn'[r] = None /\ dataTx'[r] = {} /\ hook'[r] = x
        /\ \A k \in KeyId : keyTx'[r][k] = None
    <3>1. accPc'[r] = "done" /\ conn'[r] = None /\ dataTx'[r] = {} /\ keyTx'[r] = NoKeys
      BY EndTxOK
    <3>2. hook'[r] = x
      BY DEF AccTypeOK
    <3>3. \A k \in KeyId : NoKeys[k] = None
      BY DEF NoKeys
    <3> QED BY <3>1, <3>2, <3>3
  <2>2. Known(r) /\ ScopeOf(accCall[r].cred)' = ScopeOf(accCall[r].cred)
    BY ScopeIsStable DEF Known, InTx
  <2>3. ContextOK(r)'
    <3>1. accCall[r].cred.kind = "key" => accCall[r].cred.id \in KeyId
      BY <2>2, CallFields, CredentialFields DEF AccRequestOK, ContextOK
    <3> QED BY <2>1, <2>2, <3>1 DEF AccRequestOK, ContextOK, Known, KeysGrow
  <2>4. ConnOK(r)' /\ ReadOK(r)' /\ KeyWorkOK(r)'
    BY <2>1 DEF ConnOK, InTx, ReadOK, KeyWorkOK
  <2>5. OutcomeOK(r)'
    BY <2>1 DEF OutcomeOK
  <2> QED BY <2>3, <2>4, <2>5 DEF AccRequestOK
<1>4. TenantIsolation'
  <2>1. \A q \in Req : result'[q] \cup dataTx'[q] \subseteq result[q] \cup dataTx[q]
    BY EndTxOK DEF Rests
  <2> QED BY <2>1, IsolationStays
<1>5. AuditIsTrue' /\ \A a \in audit' : accPc'[a.req] = "done"
  <2>1. \A q \in Req : accPc[q] = "done" =>
          /\ accPc'[q] = "done" /\ accCall'[q] = accCall[q]
          /\ q \in applied' <=> q \in applied
    BY EndTxOK DEF Rests, InTx
  <2> QED BY <2>1, AuditStays
<1> QED BY <1>1, <1>2, <1>3, <1>4, <1>5, EndTxOK

-----------------------------------------------------------------------------
\* The invariant, action by action.

\* Facts every action inside the transaction starts from.
LEMMA InsideTx ==
  ASSUME AccInv, NEW r \in Req, InTx(r)
  PROVE  /\ Known(r) /\ accCall[r] \in Calls /\ user[r] \in User
         /\ conn[r] \in Conn /\ conn[r] # None
         /\ session[conn[r]] = [tenant |-> user[r].tenant, isTest |-> user[r].isTest]
         /\ <<user[r].tenant, user[r].isTest>> = ScopeOf(accCall[r].cred)
         /\ hook[r] = None /\ r \notin applied
<1>1. Known(r) /\ ContextOK(r) /\ ConnOK(r) /\ OutcomeOK(r) /\ accPc[r] # "done"
  BY DEF AccInv, AccRequestOK, InTx, Known
<1>2. /\ accCall[r] \in Calls /\ user[r] \in User
      /\ <<user[r].tenant, user[r].isTest>> = ScopeOf(accCall[r].cred)
  BY <1>1 DEF ContextOK
<1>3. /\ conn[r] # None
      /\ session[conn[r]] = [tenant |-> user[r].tenant, isTest |-> user[r].isTest]
  BY <1>1 DEF ConnOK
<1>4. conn[r] \in Conn
  BY <1>3 DEF AccInv, AccTypeOK
<1>5. hook[r] = None /\ r \notin applied
  BY <1>1 DEF OutcomeOK
<1> QED BY <1>1, <1>2, <1>3, <1>4, <1>5

LEMMA StatementKeepsInv ==
  ASSUME AccInv, NEW r \in Req, Statement(r)
  PROVE  AccInv'
<1>1. InTx(r) /\ accPc' = [accPc EXCEPT ![r] = "commit"] /\ accPc[r] = "statement"
  BY DEF Statement, AccAt, AccGoto, InTx
<1>2. UNCHANGED <<keyRow, data, audit, applied, session, time, accCall, user, conn,
                  keySeen, keyTx, hook>>
  BY DEF Statement, accTables
<1> DEFINE Mine(row) == row.tenant = user[r].tenant /\ row.isTest = user[r].isTest
<1>3. result' = [result EXCEPT ![r] = result'[r]] /\ dataTx' = [dataTx EXCEPT ![r] = dataTx'[r]]
  BY DEF Statement, AccInv, AccTypeOK
<1>4. result'[r] \subseteq {row \in data : Mine(row)}
  <2>1. Searched(r) \subseteq {row \in data : Mine(row)}
    <3>1. /\ session[conn[r]].tenant = user[r].tenant
          /\ session[conn[r]].isTest = user[r].isTest
      <4>1. session[conn[r]] = [tenant |-> user[r].tenant, isTest |-> user[r].isTest]
        BY <1>1, InsideTx
      <4>2. user[r].isTest \in BOOLEAN
        BY <1>1, InsideTx, Zenon DEF User
      <4>3. session[conn[r]].tenant = user[r].tenant
        BY <4>1
      <4>4. session[conn[r]].isTest = user[r].isTest
        BY <4>1, <4>2
      <4> QED BY <4>3, <4>4
    <3> QED BY <3>1, Zenon DEF Searched, RlsShows
  <2>2. Listed(r) \subseteq Searched(r)
    BY DEF Listed
  <2>3. result'[r] \in {Searched(r), Listed(r), {}}
    BY DEF Statement, AccInv, AccTypeOK
  <2> QED BY <2>1, <2>2, <2>3
<1>5. dataTx'[r] \subseteq {ScopedData(r)}
  BY DEF Statement, AccInv, AccTypeOK
<1>6. ScopedData(r) \in DataRow /\ Mine(ScopedData(r))
  <2>1. user[r].tenant \in Tenant
    BY <1>1, InsideTx, AccessAssumption DEF User
  <2>2. user[r].isTest \in BOOLEAN
    BY <1>1, InsideTx, Zenon DEF User
  <2> QED BY <2>1, <2>2, Zenon DEF ScopedData, DataRow
<1>7. AccTypeOK'
  <2>1. result'[r] \in SUBSET DataRow /\ dataTx'[r] \in SUBSET DataRow
    BY <1>4, <1>5, <1>6 DEF AccInv, AccTypeOK
  <2>2. result' \in [Req -> SUBSET DataRow] /\ dataTx' \in [Req -> SUBSET DataRow]
    <3> HIDE DEF Mine
    <3> QED BY <1>3, <2>1 DEF AccInv, AccTypeOK
  <2>3. accPc' \in [Req -> AccPcs]
    BY <1>1 DEF AccInv, AccTypeOK, AccPcs
  <2> QED BY <1>2, <2>2, <2>3 DEF AccInv, AccTypeOK
<1>8. \A row \in result'[r] \cup dataTx'[r] : <<row.tenant, row.isTest>> = ScopeOf(accCall[r].cred)
  BY <1>1, <1>4, <1>5, <1>6, InsideTx
<1>9. accPc'[r] = "commit" /\ \A q \in Req \ {r} : Rests(q)
  BY <1>1, <1>2, <1>3 DEF AccInv, AccTypeOK, Rests
<1>10. AccRequestOK(r)'
  <2>1. ContextOK(r)' /\ ConnOK(r)' /\ OutcomeOK(r)'
    BY <1>1, <1>2, <1>9, InsideTx DEF AccInv, AccRequestOK, ContextOK, ConnOK, OutcomeOK,
       Known, InTx, ScopeOf
  <2>2. accCall[r].op \notin {"revoke", "rotate", "createKey"} /\ \A k \in KeyId : keyTx[r][k] = None
    BY <1>1 DEF AccInv, AccRequestOK, KeyWorkOK
  <2>3. ReadOK(r)' /\ KeyWorkOK(r)'
    BY <1>2, <1>9, <2>2 DEF ReadOK, KeyWorkOK
  <2> QED BY <2>1, <2>3 DEF AccRequestOK
<1>11. KeyLocksOK'
  BY <1>2 DEF AccInv, KeyLocksOK
<1> QED BY <1>1, <1>2, <1>7, <1>8, <1>9, <1>10, <1>11, StatementStep

LEMMA CommitLostKeepsInv ==
  ASSUME AccInv, NEW r \in Req, CommitLost(r)
  PROVE  AccInv'
<1>1. InTx(r) /\ EndTx(r) /\ UNCHANGED <<keyRow, data, audit, applied, time, accCall, user, result, hook>>
  BY DEF CommitLost, AccAt, InTx, accTables
<1>2. hook' = [hook EXCEPT ![r] = None]
  BY <1>1, InsideTx DEF AccInv, AccTypeOK
<1>3. keyRow' \in [KeyId -> KeyRow \cup {None}] /\ data' \subseteq DataRow
  BY <1>1 DEF AccInv, AccTypeOK
<1>4. KeysGrow /\ \A k \in KeyId : LineageOK(k)' /\ HeirOK(k)'
  BY <1>1, KeysSame
<1> QED BY <1>1, <1>2, <1>3, <1>4, EndKeepsInv

\* The failure row is promised for a transaction that rolls back.
LEMMA ThrowsKeepsInv ==
  ASSUME AccInv, NEW r \in Req, InTx(r), Throws(r)
  PROVE  AccInv'
<1>1. EndTx(r) /\ UNCHANGED <<keyRow, data, audit, applied, time, accCall, user, result>>
  BY DEF Throws, accTables
<1>2. PICK x \in {None, "failure"} : hook' = [hook EXCEPT ![r] = x]
  BY DEF Throws, AuditHook
<1>3. keyRow' \in [KeyId -> KeyRow \cup {None}] /\ data' \subseteq DataRow
  BY <1>1 DEF AccInv, AccTypeOK
<1>4. KeysGrow /\ \A k \in KeyId : LineageOK(k)' /\ HeirOK(k)'
  BY <1>1, KeysSame
<1>5. x # None => (x = "success" <=> r \in applied')
  BY <1>1, InsideTx
<1> QED BY <1>1, <1>2, <1>3, <1>4, <1>5, EndKeepsInv

LEMMA WriteAuditKeepsInv ==
  ASSUME AccInv, NEW r \in Req, WriteAudit(r)
  PROVE  AccInv'
<1> USE DEF AccInv
<1> DEFINE row == [req |-> r, tenant |-> user[r].tenant, outcome |-> hook[r]]
<1>1. /\ hook[r] # None /\ audit' = audit \cup {row}
      /\ hook' = [hook EXCEPT ![r] = None]
      /\ UNCHANGED <<keyRow, data, applied, session, time, accCall, accPc, user, conn,
                     keySeen, keyTx, dataTx, result>>
  BY DEF WriteAudit
<1>2. /\ accPc[r] = "done" /\ (hook[r] = "success" <=> r \in applied)
      /\ hook[r] \in {"success", "failure"}
  BY <1>1 DEF AccRequestOK, OutcomeOK, AccTypeOK
<1>3. user[r] \in User /\ user[r].tenant = ScopeOf(accCall[r].cred)[1]
  BY <1>2 DEF AccRequestOK, ContextOK, Known
<1>4. row \in AuditRow
  <2>1. user[r].tenant \in Tenant
    BY <1>2, <1>3 DEF User, AccRequestOK, ContextOK, ScopeOf
  <2> QED BY <1>2, <2>1 DEF AuditRow
<1> HIDE DEF row
<1>5. AccTypeOK'
  BY <1>1, <1>4 DEF AccTypeOK
<1>6. ASSUME NEW q \in Req PROVE AccRequestOK(q)'
  <2>1. (ContextOK(q) /\ ConnOK(q))'
    BY <1>1 DEF AccRequestOK, ContextOK, ConnOK, Known, InTx, ScopeOf
  <2>2. (ReadOK(q) /\ KeyWorkOK(q))'
    BY <1>1 DEF AccRequestOK, ReadOK, KeyWorkOK, MintOK, NewExpiry, UpdatedKey, Deadline
  <2>3. OutcomeOK(q)'
    BY <1>1 DEF AccRequestOK, OutcomeOK, AccTypeOK
  <2> QED BY <2>1, <2>2, <2>3 DEF AccRequestOK
<1>7. PoolOK' /\ KeyLocksOK' /\ TenantIsolation'
  BY <1>1 DEF PoolOK, Idle, KeyLocksOK, TenantIsolation, ScopeOf
<1>8. \A k \in KeyId : LineageOK(k)' /\ HeirOK(k)'
  BY <1>1, KeysSame
<1>9. AuditIsTrue' /\ \A a \in audit' : accPc'[a.req] = "done"
  BY <1>1, <1>2, <1>3 DEF AuditIsTrue, ScopeOf, row
<1> QED BY <1>5, <1>6, <1>7, <1>8, <1>9

\* The clock, and stuttering.
LEMMA TickKeepsInv ==
  ASSUME AccInv, AccTick \/ UNCHANGED accVars
  PROVE  AccInv'
<1>1. UNCHANGED <<keyRow, data, audit, applied, session, accCall, accPc, user, conn, keySeen,
                  keyTx, dataTx, result, hook>>
  BY DEF AccTick, accVars, accTables
<1>2. time' \in Nat
  <2>1. time \in Nat
    BY DEF AccInv, AccTypeOK
  <2>2. time' = time \/ time' = time + 1
    BY DEF AccTick, accVars
  <2> QED BY <2>1, <2>2
<1>3. AccTypeOK'
  BY <1>1, <1>2 DEF AccInv, AccTypeOK
<1>4. ASSUME NEW q \in Req PROVE AccRequestOK(q)'
  <2>1. (ContextOK(q) /\ ConnOK(q) /\ OutcomeOK(q))'
    BY <1>1 DEF AccInv, AccRequestOK, ContextOK, ConnOK, OutcomeOK, Known, InTx, ScopeOf
  <2>2. (ReadOK(q) /\ KeyWorkOK(q))'
    BY <1>1 DEF AccInv, AccRequestOK, ReadOK, KeyWorkOK, MintOK, NewExpiry, UpdatedKey, Deadline
  <2> QED BY <2>1, <2>2 DEF AccRequestOK
<1>5. PoolOK' /\ KeyLocksOK' /\ TenantIsolation' /\ AuditIsTrue'
  BY <1>1 DEF AccInv, PoolOK, Idle, KeyLocksOK, TenantIsolation, AuditIsTrue, ScopeOf
<1>6. \A k \in KeyId : LineageOK(k)' /\ HeirOK(k)'
  BY <1>1, KeysSame
<1> QED BY <1>1, <1>3, <1>4, <1>5, <1>6 DEF AccInv


\* Past the guards a request carries the identity of a credential they accepted.
LEMMA GuardKeepsInv ==
  ASSUME AccInv, NEW r \in Req, Guard(r)
  PROVE  AccInv'
<1> USE DEF AccInv
<1>1. PICK call \in Calls, c \in Idle :
        LET known == call.cred.kind = "jwt" \/ KeyFound(c, call.cred.id) IN
        /\ accCall' = [accCall EXCEPT ![r] = call]
        /\ user' = [user EXCEPT ![r] = IF known THEN Identity(call.cred) ELSE None]
        /\ accPc' = [accPc EXCEPT ![r] =
             CASE ~known -> "unauthorized"
               [] known /\ ~RolesAllow(call.op, Identity(call.cred).role) -> "forbidden"
               [] OTHER -> "admitted"]
  BY DEF Guard, AccGoto
<1>2. /\ accPc[r] = "new"
      /\ UNCHANGED <<keyRow, data, audit, applied, session, time, conn, keySeen, keyTx,
                     dataTx, result, hook>>
  BY DEF Guard, AccAt, accTables
<1> DEFINE known == call.cred.kind = "jwt" \/ KeyFound(c, call.cred.id)
<1>3. /\ call.cred \in Credential /\ accCall'[r] = call
      /\ known /\ call.cred.kind = "key" => keyRow[call.cred.id] # None
  BY <1>1, CallFields, CredentialFields DEF KeyFound, ValidKey, AccTypeOK
<1>4. known => /\ Identity(call.cred) \in User
               /\ <<Identity(call.cred).tenant, Identity(call.cred).isTest>> = ScopeOf(call.cred)
  BY <1>3, IdentityIsScope
<1> DEFINE who == IF known THEN Identity(call.cred) ELSE None
           allow == RolesAllow(call.op, Identity(call.cred).role)
           next == CASE ~known -> "unauthorized" [] known /\ ~allow -> "forbidden" [] OTHER -> "admitted"
<1>5. accPc' = [accPc EXCEPT ![r] = next] /\ user' = [user EXCEPT ![r] = who]
  BY <1>1
<1>6. /\ next \in {"unauthorized", "forbidden", "admitted"}
      /\ ~known => next = "unauthorized"
  <2> HIDE DEF known, allow
  <2>1. CASE ~known
    BY <2>1
  <2>2. CASE known /\ ~allow
    BY <2>2
  <2>3. CASE known /\ allow
    BY <2>3
  <2> QED BY <2>1, <2>2, <2>3
<1>7. who \in User \cup {None} /\ (known => who = Identity(call.cred))
  BY <1>4
<1> HIDE DEF next, who
<1>15. accPc'[r] = next /\ user'[r] = who
  BY <1>5 DEF AccTypeOK
<1> HIDE DEF known
<1>8. AccTypeOK'
  <2>1. accCall' \in [Req -> Calls \cup {None}]
    BY <1>1 DEF AccTypeOK
  <2>2. user' \in [Req -> User \cup {None}]
    BY <1>5, <1>7 DEF AccTypeOK
  <2>3. accPc' \in [Req -> AccPcs]
    BY <1>5, <1>6 DEF AccTypeOK, AccPcs
  <2> QED BY <1>2, <2>1, <2>2, <2>3 DEF AccTypeOK
<1>9. KeysGrow /\ \A k \in KeyId : LineageOK(k)' /\ HeirOK(k)'
  BY <1>2, KeysSame
<1>10. \A q \in Req \ {r} : Rests(q)
  BY <1>1, <1>2, <1>5 DEF Rests, AccTypeOK
<1>11. AccRequestOK(r)'
  <2>1. ~Known(r) /\ ~InTx(r) /\ conn[r] = None /\ hook[r] = None /\ r \notin applied
        /\ \A k \in KeyId : keyTx[r][k] = None
    BY <1>2 DEF Known, InTx, AccRequestOK, ConnOK, OutcomeOK, KeyWorkOK
  <2>2. result[r] = {} /\ dataTx[r] = {}
    BY <2>1 DEF AccRequestOK, ContextOK
  <2>3. ContextOK(r)'
    <3>1. Known(r)' => known /\ user'[r] = Identity(call.cred)
      BY <1>6, <1>7, <1>15 DEF Known
    <3>2. ScopeOf(call.cred)' = ScopeOf(call.cred)
      BY <1>2 DEF ScopeOf
    <3> QED BY <1>2, <1>3, <1>4, <2>2, <3>1, <3>2 DEF ContextOK
  <2>4. (ConnOK(r) /\ ReadOK(r) /\ KeyWorkOK(r) /\ OutcomeOK(r))'
    BY <1>2, <1>6, <1>15, <2>1 DEF ConnOK, InTx, ReadOK, KeyWorkOK, OutcomeOK
  <2> QED BY <2>3, <2>4 DEF AccRequestOK
<1>12. ASSUME NEW q \in Req \ {r} PROVE AccRequestOK(q)'
  <2>1. Rests(q) /\ UNCHANGED <<session, hook, applied, keyRow>>
    BY <1>2, <1>10
  <2> QED BY <1>9, <2>1, OthersOK
<1>13. PoolOK' /\ KeyLocksOK'
  BY <1>2 DEF PoolOK, Idle, KeyLocksOK
<1>14. TenantIsolation' /\ AuditIsTrue' /\ \A a \in audit' : accPc'[a.req] = "done"
  <2>1. ~Known(r) /\ \A q \in Req : Known(q) => accCall'[q] = accCall[q]
    BY <1>2, <1>10 DEF Known, Rests
  <2>2. TenantIsolation'
    BY <1>2, <1>9, <2>1, IsolationStays
  <2>3. \A q \in Req : accPc[q] = "done" => /\ accPc'[q] = "done" /\ accCall'[q] = accCall[q]
                                            /\ q \in applied' <=> q \in applied
    BY <1>2, <1>10 DEF Rests
  <2> QED BY <1>2, <1>9, <2>2, <2>3, AuditStays
<1> QED BY <1>8, <1>9, <1>11, <1>12, <1>13, <1>14

\* The transaction opens on a connection nobody uses and puts its tenant there.
LEMMA OpenTxKeepsInv ==
  ASSUME AccInv, NEW r \in Req, OpenTx(r)
  PROVE  AccInv'
<1> USE DEF AccInv
<1> DEFINE s == [tenant |-> user[r].tenant, isTest |-> user[r].isTest]
           first == FirstStatement(accCall[r].op)
<1>1. PICK c \in Idle : conn' = [conn EXCEPT ![r] = c] /\ session' = [session EXCEPT ![c] = s]
  BY DEF OpenTx
<1>2. /\ accPc[r] = "admitted" /\ accPc' = [accPc EXCEPT ![r] = first]
      /\ UNCHANGED <<keyRow, data, audit, applied, time, accCall, user, keySeen, keyTx,
                     dataTx, result, hook>>
  BY DEF OpenTx, AccAt, AccGoto, accTables
<1>3. c \in Conn /\ c # None /\ \A q \in Req : conn[q] # c
  BY AccessAssumption DEF Idle
<1>4. Known(r) /\ ContextOK(r) /\ accCall[r] \in Calls /\ user[r] \in User
  BY <1>2 DEF AccRequestOK, ContextOK, Known
<1>5. s \in [tenant: Tenant \cup {""}, isTest: BOOLEAN]
  <2>1. user[r].tenant \in Tenant
    BY <1>4 DEF User
  <2>2. user[r].isTest \in BOOLEAN
    BY <1>4, Zenon DEF User
  <2> QED BY <2>1, <2>2
<1> HIDE DEF s
<1>6. /\ first \in {"find", "mint", "statement"}
      /\ first = "find" => accCall[r].op \in {"revoke", "rotate"}
      /\ first = "mint" => accCall[r].op = "createKey"
      /\ first = "statement" => accCall[r].op \notin {"revoke", "rotate", "createKey"}
  BY DEF FirstStatement
<1> HIDE DEF first
<1>7. accPc'[r] = first /\ conn'[r] = c /\ session'[c] = s
  BY <1>1, <1>2, <1>3 DEF AccTypeOK
<1>8. AccTypeOK'
  <2>1. session' \in [Conn -> [tenant: Tenant \cup {""}, isTest: BOOLEAN]]
    BY <1>1, <1>3, <1>5 DEF AccTypeOK
  <2>2. accPc' \in [Req -> AccPcs] /\ conn' \in [Req -> Conn \cup {None}]
    BY <1>1, <1>2, <1>3, <1>6 DEF AccTypeOK, AccPcs
  <2> QED BY <1>2, <2>1, <2>2 DEF AccTypeOK
<1>9. KeysGrow /\ \A k \in KeyId : LineageOK(k)' /\ HeirOK(k)'
  BY <1>2, KeysSame
<1>10. ASSUME NEW q \in Req \ {r}
       PROVE  Rests(q) /\ (conn[q] # None => session'[conn[q]] = session[conn[q]])
  BY <1>1, <1>2, <1>3 DEF Rests, AccTypeOK
<1>11. AccRequestOK(r)'
  <2>1. hook[r] = None /\ r \notin applied /\ \A k \in KeyId : keyTx[r][k] = None
    BY <1>2 DEF AccRequestOK, OutcomeOK, KeyWorkOK
  <2>2. ContextOK(r)'
    BY <1>2, <1>4, <1>6, <1>7 DEF ContextOK, Known, ScopeOf
  <2>3. ConnOK(r)'
    BY <1>2, <1>3, <1>6, <1>7 DEF ConnOK, InTx, s
  <2>4. (ReadOK(r) /\ KeyWorkOK(r) /\ OutcomeOK(r))'
    BY <1>2, <1>6, <1>7, <2>1 DEF ReadOK, KeyWorkOK, OutcomeOK
  <2> QED BY <2>2, <2>3, <2>4 DEF AccRequestOK
<1>12. ASSUME NEW q \in Req \ {r} PROVE AccRequestOK(q)'
  <2>1. UNCHANGED <<hook, applied, keyRow>>
    BY <1>2
  <2> QED BY <1>9, <1>10, <2>1, OthersOK
<1>13. PoolOK' /\ KeyLocksOK'
  <2>1. \A q \in Req : conn'[q] = IF q = r THEN c ELSE conn[q]
    BY <1>1 DEF AccTypeOK
  <2>2. conn[r] = None
    BY <1>2 DEF AccRequestOK, ConnOK, InTx
  <2>3. \A d \in Conn : (\A q \in Req : conn'[q] # d) => d \in Idle /\ d # c
    BY <2>1, <2>2, <1>3, AccessAssumption DEF Idle
  <2>4. \A d \in Conn : d # c => session'[d] = session[d]
    BY <1>1 DEF AccTypeOK
  <2>5. \A d \in Idle' : session'[d] = Unset
    BY <2>3, <2>4 DEF PoolOK, Idle
  <2>6. \A p, q \in Req : p # q /\ conn'[p] # None => conn'[p] # conn'[q]
    BY <2>1, <1>3 DEF PoolOK
  <2> QED BY <1>2, <2>5, <2>6 DEF PoolOK, KeyLocksOK, Unset
<1>14. TenantIsolation' /\ AuditIsTrue' /\ \A a \in audit' : accPc'[a.req] = "done"
  <2>1. TenantIsolation'
    BY <1>2, <1>9, IsolationStays
  <2>2. \A q \in Req : accPc[q] = "done" => accPc'[q] = "done"
    BY <1>2, <1>10 DEF Rests
  <2> QED BY <1>2, <1>9, <2>1, <2>2, AuditStays
<1> QED BY <1>8, <1>9, <1>11, <1>12, <1>13, <1>14

\* What find reads is right when it is read.
LEMMA FindKeyKeepsInv ==
  ASSUME AccInv, NEW r \in Req, FindKey(r)
  PROVE  AccInv'
<1> USE DEF AccInv
<1> DEFINE k == accCall[r].arg
           read == [revoked |-> keyRow[k].revoked, expires |-> keyRow[k].expires,
                    root |-> keyRow[k].root, newExpiry |-> time + KeyGrace]
           next == CASE accCall[r].op = "revoke" /\ keyRow[k].revoked -> "commit"
                     [] accCall[r].op = "rotate" /\ keyRow[k].expires # None
                          /\ keyRow[k].expires <= time + KeyGrace -> "mint"
                     [] OTHER -> "update"
<1>1. accPc[r] = "find" /\ InTx(r)
  BY DEF FindKey, AccAt, InTx
<1>2. CASE Throws(r)
  BY <1>1, <1>2, ThrowsKeepsInv
<1>3. CASE ~Throws(r)
  <2>1. /\ keyRow[k] # None
        /\ keySeen' = [keySeen EXCEPT ![r] = read] /\ accPc' = [accPc EXCEPT ![r] = next]
        /\ UNCHANGED <<keyRow, data, audit, applied, session, time, accCall, user, conn,
                       keyTx, dataTx, result, hook>>
    BY <1>3 DEF FindKey, AccGoto, accTables
  <2>2. accCall[r].op \in {"revoke", "rotate"} /\ \A j \in KeyId : keyTx[r][j] = None
    BY <1>1 DEF AccRequestOK, KeyWorkOK
  <2>3. k \in KeyId /\ keyRow[k] \in KeyRow
    BY <1>1, <2>1, <2>2, InsideTx, CallFields, KeyRowType
  <2>4. time + KeyGrace \in Nat
    <3>1. time \in Nat /\ KeyGrace \in Nat
      BY AccessAssumption DEF AccTypeOK
    <3> QED BY <3>1
  <2>5. keyRow[k].revoked \in BOOLEAN
    BY <2>3, Zenon DEF KeyRow
  <2>6. keyRow[k].expires \in Expiry /\ keyRow[k].root \in KeyId
    BY <2>3 DEF KeyRow
  <2>7. read \in KeyRead
    <3> DEFINE v == keyRow[k].revoked  x == keyRow[k].expires  t == keyRow[k].root
               n == time + KeyGrace
    <3> HIDE DEF v, x, t, n
    <3>1. [revoked |-> v, expires |-> x, root |-> t, newExpiry |-> n] \in KeyRead
      BY <2>4, <2>5, <2>6, Zenon DEF KeyRead, v, x, t, n
    <3> QED BY <3>1 DEF v, x, t, n
  <2>8. /\ read.root = keyRow[k].root /\ read.expires = keyRow[k].expires
        /\ read.newExpiry = time + KeyGrace
    OBVIOUS
  <2>9. /\ next \in {"commit", "mint", "update"}
        /\ next = "commit" => accCall[r].op = "revoke"
        /\ next = "mint" => accCall[r].op = "rotate"
        /\ next = "update" /\ accCall[r].op = "rotate" =>
             keyRow[k].expires = None \/ ~(keyRow[k].expires <= time + KeyGrace)
    <3> DEFINE v == keyRow[k].revoked  e == keyRow[k].expires = None
               early == keyRow[k].expires <= time + KeyGrace
               rev == accCall[r].op = "revoke"  rot == accCall[r].op = "rotate"
    <3>1. ~(rev /\ rot)
      OBVIOUS
    <3>2. next = CASE rev /\ v -> "commit" [] rot /\ ~e /\ early -> "mint" [] OTHER -> "update"
      OBVIOUS
    <3> HIDE DEF v, e, early, rev, rot, next
    <3>3. /\ next \in {"commit", "mint", "update"}
          /\ next = "commit" => rev
          /\ next = "mint" => rot
          /\ next = "update" /\ rot => e \/ ~early
      <4>1. CASE rev /\ v
        BY <3>1, <3>2, <4>1
      <4>2. CASE rot /\ ~e /\ early
        BY <3>1, <3>2, <4>2
      <4>3. CASE ~(rev /\ v) /\ ~(rot /\ ~e /\ early)
        BY <3>1, <3>2, <4>3
      <4> QED BY <4>1, <4>2, <4>3
    <3> QED BY <3>3 DEF e, early, rev, rot
  <2> HIDE DEF read, next
  <2>10. keySeen'[r] = read /\ accPc'[r] = next
    BY <2>1 DEF AccTypeOK
  <2>11. AccTypeOK'
    <3>1. keySeen' \in [Req -> KeyRead \cup {None}]
      BY <2>1, <2>7 DEF AccTypeOK
    <3>2. accPc' \in [Req -> AccPcs]
      BY <2>1, <2>9 DEF AccTypeOK, AccPcs
    <3> QED BY <2>1, <3>1, <3>2 DEF AccTypeOK
  <2>12. AccRequestOK(r)'
    <3>1. (ContextOK(r) /\ ConnOK(r) /\ OutcomeOK(r))'
      BY <1>1, <2>1, <2>9, <2>10, InsideTx DEF AccRequestOK, ContextOK, ConnOK, OutcomeOK,
         Known, InTx, ScopeOf
    <3>2. ReadOK(r)'
      <4> USE <2>1, <2>2, <2>3, <2>8, <2>9, <2>10, <2>7
      <4>1. LineageOK(k) /\ UNCHANGED Deadline(k)
        BY DEF Deadline
      <4>2. next = "update" /\ accCall[r].op = "rotate"
              => read.expires = None \/ read.newExpiry < read.expires
        BY <2>4, <2>6 DEF Expiry
      <4> QED BY <4>1, <4>2 DEF ReadOK, LineageOK
    <3>3. KeyWorkOK(r)'
      BY <2>1, <2>2, <2>9, <2>10 DEF KeyWorkOK
    <3> QED BY <3>1, <3>2, <3>3 DEF AccRequestOK
  <2>13. KeyLocksOK'
    BY <2>1 DEF KeyLocksOK
  <2>14. \A q \in Req \ {r} : Rests(q)
    BY <2>1 DEF Rests, AccTypeOK
  <2>15. \A row \in result'[r] \cup dataTx'[r] :
           <<row.tenant, row.isTest>> = ScopeOf(accCall[r].cred)
    BY <2>1 DEF TenantIsolation
  <2> HIDE DEF AccInv
  <2> QED BY <1>1, <2>1, <2>11, <2>12, <2>13, <2>14, <2>15, StatementStep
<1> QED BY <1>2, <1>3

\* Types of a row that is updated, and what an update leaves alone.
LEMMA UpdatedKeyFields ==
  ASSUME NEW r, NEW row \in KeyRow, keySeen[r] \in KeyRead
  PROVE  /\ UpdatedKey(r, row) \in KeyRow
         /\ UpdatedKey(r, row).tenant = row.tenant
         /\ UpdatedKey(r, row).env = row.env
         /\ UpdatedKey(r, row).root = row.root
         /\ UpdatedKey(r, row).granted = row.granted
         /\ row.revoked => UpdatedKey(r, row).revoked
         /\ UpdatedKey(r, row).expires =
              IF accCall[r].op = "revoke" THEN row.expires ELSE keySeen[r].newExpiry
<1>1. keySeen[r].newExpiry \in Expiry
  BY DEF KeyRead, Expiry
<1>2. CASE accCall[r].op = "revoke"
  BY <1>2 DEF UpdatedKey, KeyRow
<1>3. CASE accCall[r].op # "revoke"
  BY <1>1, <1>3 DEF UpdatedKey, KeyRow
<1> QED BY <1>2, <1>3

\* The update locks the row of a key nobody else has locked.
LEMMA UpdateKeyKeepsInv ==
  ASSUME AccInv, NEW r \in Req, UpdateKey(r)
  PROVE  AccInv'
<1> USE DEF AccInv
<1> DEFINE k == accCall[r].arg
           new == UpdatedKey(r, keyRow[k])
           next == IF accCall[r].op = "rotate" THEN "mint" ELSE "commit"
<1>1. /\ accPc[r] = "update" /\ InTx(r) /\ ~KeyLocked(r, k)
      /\ keyTx' = [keyTx EXCEPT ![r][k] = new] /\ accPc' = [accPc EXCEPT ![r] = next]
      /\ UNCHANGED <<keyRow, data, audit, applied, session, time, accCall, user, conn,
                     keySeen, dataTx, result, hook>>
  BY DEF UpdateKey, AccAt, AccGoto, InTx, accTables
<1>2. /\ accCall[r].op \in {"revoke", "rotate"} /\ \A j \in KeyId : keyTx[r][j] = None
      /\ ReadOK(r)
  BY <1>1 DEF AccRequestOK, KeyWorkOK
<1>3. k \in KeyId /\ keyRow[k] \in KeyRow /\ keyRow[k] # None /\ keySeen[r] \in KeyRead
  BY <1>1, <1>2, KeyRowType DEF ReadOK, AccTypeOK
<1>4. new \in KeyRow /\ new # None
  BY <1>3, UpdatedKeyFields, AccessAssumption
<1> HIDE DEF new
<1>5. next \in {"mint", "commit"} /\ accPc'[r] = next
  BY <1>1 DEF AccTypeOK
<1>6. \A j \in KeyId : keyTx'[r][j] = IF j = k THEN new ELSE None
  BY <1>1, <1>2, <1>3 DEF AccTypeOK
<1>7. AccTypeOK'
  <2>1. keyTx' \in [Req -> [KeyId -> KeyRow \cup {None}]]
    BY <1>1, <1>4 DEF AccTypeOK
  <2>2. accPc' \in [Req -> AccPcs]
    BY <1>1, <1>5 DEF AccTypeOK, AccPcs
  <2> QED BY <1>1, <2>1, <2>2 DEF AccTypeOK
<1>8. \A q \in Req \ {r} : Rests(q)
  BY <1>1 DEF Rests, AccTypeOK
<1>9. KeyLocksOK'
  <2>1. \A q \in Req \ {r} : keyTx'[q] = keyTx[q] /\ keyTx[q][k] = None
    BY <1>1, <1>8 DEF Rests, KeyLocked
  <2> QED BY <1>6, <2>1 DEF KeyLocksOK
<1>10. AccRequestOK(r)'
  <2>1. (ContextOK(r) /\ ConnOK(r) /\ OutcomeOK(r))'
    BY <1>1, <1>5, InsideTx DEF AccRequestOK, ContextOK, ConnOK, OutcomeOK, Known, InTx, ScopeOf
  <2>2. ReadOK(r)'
    BY <1>1, <1>2, <1>5 DEF ReadOK, Deadline
  <2>3. KeyWorkOK(r)'
    BY <1>1, <1>2, <1>3, <1>5, <1>6 DEF KeyWorkOK, new, UpdatedKey
  <2> QED BY <2>1, <2>2, <2>3 DEF AccRequestOK
<1>11. \A row \in result'[r] \cup dataTx'[r] :
         <<row.tenant, row.isTest>> = ScopeOf(accCall[r].cred)
  BY <1>1 DEF TenantIsolation
<1> HIDE DEF AccInv
<1> QED BY <1>1, <1>7, <1>8, <1>9, <1>10, <1>11, StatementStep

\* A new key starts a lineage, or continues one with the expiry that was read.
LEMMA MintKeyKeepsInv ==
  ASSUME AccInv, NEW r \in Req, MintKey(r)
  PROVE  AccInv'
<1> USE DEF AccInv
<1>1. PICK k \in KeyId \ Minted :
        keyTx' = [keyTx EXCEPT ![r][k] =
          [tenant |-> user[r].tenant, env |-> NewMode(r), revoked |-> FALSE,
           expires |-> NewExpiry(r), granted |-> NewExpiry(r),
           root |-> IF accCall[r].op = "rotate" THEN keySeen[r].root ELSE k]]
  <2>1. (CHOOSE x \in KeyId \ Minted : TRUE) \in KeyId \ Minted
    BY Zenon DEF MintKey
  <2> QED BY <2>1, Zenon DEF MintKey
<1> DEFINE new == [tenant |-> user[r].tenant, env |-> NewMode(r), revoked |-> FALSE,
                   expires |-> NewExpiry(r), granted |-> NewExpiry(r),
                   root |-> IF accCall[r].op = "rotate" THEN keySeen[r].root ELSE k]
<1>2. /\ accPc[r] = "mint" /\ InTx(r)
      /\ keyTx' = [keyTx EXCEPT ![r][k] = new] /\ accPc' = [accPc EXCEPT ![r] = "commit"]
      /\ UNCHANGED <<keyRow, data, audit, applied, session, time, accCall, user, conn,
                     keySeen, dataTx, result, hook>>
  BY <1>1 DEF MintKey, AccAt, AccGoto, InTx, accTables
<1>3. keyRow[k] = None /\ \A q \in Req : keyTx[q][k] = None
  BY DEF Minted
<1>4. /\ accCall[r].op \in {"rotate", "createKey"} /\ accCall[r] \in Calls
      /\ ReadOK(r) /\ KeyWorkOK(r)
      /\ accCall[r].op = "rotate" => keySeen[r] \in KeyRead /\ accCall[r].arg # k
  <2>1. ReadOK(r) /\ KeyWorkOK(r) /\ accCall[r] \in Calls
    BY <1>2, InsideTx DEF AccRequestOK
  <2>2. accCall[r].op \in {"rotate", "createKey"}
    BY <1>2, <2>1 DEF KeyWorkOK
  <2>3. accCall[r].op = "rotate" => keySeen[r] \in KeyRead /\ accCall[r].arg # k
    BY <1>2, <1>3, <2>1 DEF ReadOK
  <2> QED BY <2>1, <2>2, <2>3
<1>5. new \in KeyRow /\ new # None
  <2>1. user[r].tenant \in Tenant
    BY <1>2, InsideTx DEF User
  <2>2. NewMode(r) \in {"live", "test"} /\ NewExpiry(r) \in Expiry
    BY <1>4, CallFields DEF NewMode, NewExpiry, KeyBody, KeyRead
  <2>3. (IF accCall[r].op = "rotate" THEN keySeen[r].root ELSE k) \in KeyId
    BY <1>4 DEF KeyRead
  <2>4. new \in KeyRow
    BY <2>1, <2>2, <2>3, Zenon DEF KeyRow
  <2> QED BY <2>4, AccessAssumption
<1>6. /\ new.expires = NewExpiry(r) /\ new.granted = NewExpiry(r)
      /\ new.root = IF accCall[r].op = "rotate" THEN keySeen[r].root ELSE k
  OBVIOUS
<1> HIDE DEF new
<1>7. accPc'[r] = "commit" /\ \A j \in KeyId : keyTx'[r][j] = IF j = k THEN new ELSE keyTx[r][j]
  BY <1>2 DEF AccTypeOK
<1>8. AccTypeOK'
  <2>1. keyTx' \in [Req -> [KeyId -> KeyRow \cup {None}]]
    BY <1>2, <1>5 DEF AccTypeOK
  <2>2. accPc' \in [Req -> AccPcs]
    BY <1>2 DEF AccTypeOK, AccPcs
  <2> QED BY <1>2, <2>1, <2>2 DEF AccTypeOK
<1>9. \A q \in Req \ {r} : Rests(q)
  BY <1>2 DEF Rests, AccTypeOK
<1>10. KeyLocksOK'
  BY <1>3, <1>7, <1>9 DEF KeyLocksOK, Rests
<1>11. AccRequestOK(r)'
  <2>1. (ContextOK(r) /\ ConnOK(r) /\ OutcomeOK(r))'
    BY <1>2, <1>7, InsideTx DEF AccRequestOK, ContextOK, ConnOK, OutcomeOK, Known, InTx, ScopeOf
  <2>2. ReadOK(r)'
    BY <1>2, <1>4, <1>7 DEF ReadOK, Deadline
  <2>3. KeyWorkOK(r)'
    <3>1. MintOK(r, k)'
      BY <1>2, <1>6, <1>7 DEF MintOK, NewExpiry
    <3>2. \A j \in KeyId : j # k /\ keyTx[r][j] # None =>
            /\ keyRow[j] # None /\ accCall[r].op \in {"revoke", "rotate"} /\ j = accCall[r].arg
            /\ keyTx[r][j] = UpdatedKey(r, keyRow[j])
      BY <1>2, <1>4 DEF KeyWorkOK
    <3>3. \A j \in KeyId : UpdatedKey(r, keyRow[j])' = UpdatedKey(r, keyRow[j])
      BY <1>2 DEF UpdatedKey
    <3> QED BY <1>2, <1>3, <1>4, <1>5, <1>7, <3>1, <3>2, <3>3 DEF KeyWorkOK
  <2> QED BY <2>1, <2>2, <2>3 DEF AccRequestOK
<1>12. \A row \in result'[r] \cup dataTx'[r] :
         <<row.tenant, row.isTest>> = ScopeOf(accCall[r].cred)
  BY <1>2 DEF TenantIsolation
<1> HIDE DEF AccInv
<1> QED BY <1>2, <1>8, <1>9, <1>10, <1>11, <1>12, StatementStep

-----------------------------------------------------------------------------
\* COMMIT of key rows.

\* A key that is updated keeps its place in the lineage: a capped expiry lies
\* before the deadline.
LEMMA CommittedUpdate ==
  ASSUME AccInv, NEW r \in Req, AccAt(r, "commit"), NEW k \in KeyId,
         keyRow[k] # None, keyTx[r][k] # None
  PROVE  /\ accCall[r].op \in {"revoke", "rotate"} /\ k = accCall[r].arg
         /\ keyTx[r][k] \in KeyRow
         /\ keyTx[r][k].tenant = keyRow[k].tenant
         /\ keyTx[r][k].env = keyRow[k].env
         /\ keyTx[r][k].root = keyRow[k].root
         /\ keyTx[r][k].granted = keyRow[k].granted
         /\ keyRow[k].revoked => keyTx[r][k].revoked
         /\ NotLater(keyTx[r][k].expires, Deadline(k))
         /\ keyTx[r][k].expires # keyRow[k].expires =>
              /\ accCall[r].op = "rotate"
              /\ keyTx[r][k].expires # Deadline(k)
<1> USE DEF AccInv
<1>1. accPc[r] = "commit" /\ KeyWorkOK(r) /\ ReadOK(r) /\ LineageOK(k)
  BY DEF AccAt, AccRequestOK
<1>2. /\ accCall[r].op \in {"revoke", "rotate"} /\ k = accCall[r].arg
      /\ keyTx[r][k] = UpdatedKey(r, keyRow[k])
  BY <1>1 DEF KeyWorkOK
<1>3. keyRow[k] \in KeyRow /\ keySeen[r] \in KeyRead
  BY <1>1, <1>2, KeyRowType DEF ReadOK
<1>4. /\ NotLater(keySeen[r].expires, Deadline(k))
      /\ accCall[r].op = "rotate" =>
           keySeen[r].expires = None \/ keySeen[r].newExpiry < keySeen[r].expires
  BY <1>1, <1>2 DEF ReadOK
<1>5. NotLater(keyRow[k].expires, Deadline(k)) /\ Deadline(k) \in Expiry
  <2>1. keyRow[k].root \in KeyId /\ keyRow[keyRow[k].root] # None
    BY <1>1, <1>3 DEF LineageOK, KeyRow
  <2>2. keyRow[keyRow[k].root] \in KeyRow
    BY <2>1, KeyRowType
  <2> QED BY <1>1, <2>2 DEF LineageOK, Deadline, KeyRow
<1>6. keySeen[r].newExpiry \in Nat /\ keySeen[r].expires \in Expiry
  BY <1>3 DEF KeyRead
<1>7. accCall[r].op = "rotate" =>
        /\ NotLater(keySeen[r].newExpiry, Deadline(k))
        /\ keySeen[r].newExpiry # Deadline(k)
  BY <1>4, <1>5, <1>6, AccessAssumption DEF NotLater, Expiry
<1> QED BY <1>2, <1>3, <1>5, <1>7, UpdatedKeyFields

\* A key that is inserted starts a lineage, or joins one below its deadline.
LEMMA CommittedInsert ==
  ASSUME AccInv, NEW r \in Req, AccAt(r, "commit"), NEW k \in KeyId,
         keyRow[k] = None, keyTx[r][k] # None
  PROVE  /\ keyTx[r][k] \in KeyRow
         /\ \/ /\ accCall[r].op = "rotate" /\ accCall[r].arg \in KeyId
               /\ keyRow[accCall[r].arg] # None
               /\ keyTx[r][k].root = keyRow[accCall[r].arg].root
               /\ NotLater(keyTx[r][k].expires, Deadline(accCall[r].arg))
               /\ keyRow[accCall[r].arg].expires = Deadline(accCall[r].arg)
                    => keyTx[r][k].expires = Deadline(accCall[r].arg)
            \/ keyTx[r][k].root = k /\ keyTx[r][k].granted = keyTx[r][k].expires
<1> USE DEF AccInv
<1>1. accPc[r] = "commit" /\ KeyWorkOK(r) /\ ReadOK(r)
  BY DEF AccAt, AccRequestOK
<1>2. accCall[r].op \in {"rotate", "createKey"} /\ MintOK(r, k)
  BY <1>1 DEF KeyWorkOK
<1>3. keyTx[r][k] \in KeyRow
  <2>1. keyTx[r] \in [KeyId -> KeyRow \cup {None}]
    BY DEF AccTypeOK
  <2> QED BY <2>1
<1>4. CASE accCall[r].op = "rotate"
  BY <1>1, <1>2, <1>3, <1>4 DEF ReadOK, MintOK, NewExpiry
<1>5. CASE accCall[r].op # "rotate"
  BY <1>2, <1>3, <1>5 DEF MintOK
<1> QED BY <1>4, <1>5

LEMMA SuccessGrowsKeys ==
  ASSUME AccInv, NEW r \in Req, AccAt(r, "commit"),
         keyRow' = [k \in KeyId |-> IF keyTx[r][k] # None THEN keyTx[r][k] ELSE keyRow[k]]
  PROVE  /\ KeysGrow
         /\ \A k \in KeyId, q \in Req \ {r} : keyTx[q][k] # None => keyRow'[k] = keyRow[k]
<1>1. ASSUME NEW k \in KeyId, keyRow[k] # None
      PROVE  /\ keyRow'[k] # None
             /\ keyRow'[k].tenant = keyRow[k].tenant
             /\ keyRow'[k].env = keyRow[k].env
             /\ keyRow'[k].root = keyRow[k].root
             /\ keyRow'[k].granted = keyRow[k].granted
             /\ keyRow[k].revoked => keyRow'[k].revoked
             /\ keyRow'[k].expires = Deadline(k) => keyRow[k].expires = Deadline(k)
  <2>1. CASE keyTx[r][k] = None
    BY <1>1, <2>1
  <2>2. CASE keyTx[r][k] # None
    <3>1. keyRow'[k] = keyTx[r][k]
      BY <2>2
    <3> QED BY <1>1, <2>2, <3>1, CommittedUpdate, AccessAssumption
  <2> QED BY <2>1, <2>2
<1>2. ASSUME NEW k \in KeyId, NEW q \in Req \ {r}, keyTx[q][k] # None
      PROVE  keyRow'[k] = keyRow[k]
  BY <1>2 DEF AccInv, KeyLocksOK
<1> QED BY <1>1, <1>2 DEF KeysGrow

\* The successor takes the place of the key it replaces, before that one is capped
\* for anybody: both rows are committed together.
LEMMA SuccessKeepsLineages ==
  ASSUME AccInv, NEW r \in Req, AccAt(r, "commit"), NEW k \in KeyId,
         keyRow' = [j \in KeyId |-> IF keyTx[r][j] # None THEN keyTx[r][j] ELSE keyRow[j]]
  PROVE  LineageOK(k)' /\ HeirOK(k)'
<1> USE DEF AccInv
<1>1. KeysGrow
  BY SuccessGrowsKeys
<1>2. \A j \in KeyId : keyTx[r][j] # None => keyRow'[j] = keyTx[r][j]
  OBVIOUS
<1>3. \A j \in KeyId : keyTx[r][j] = None => keyRow'[j] = keyRow[j]
  OBVIOUS
<1>4. \A j \in KeyId : keyRow[j] # None =>
        /\ LineageOK(j) /\ keyRow[j] \in KeyRow /\ keyRow[j].root \in KeyId
        /\ Deadline(j)' = Deadline(j)
  <2> SUFFICES ASSUME NEW j \in KeyId, keyRow[j] # None
               PROVE  /\ LineageOK(j) /\ keyRow[j] \in KeyRow /\ keyRow[j].root \in KeyId
                      /\ Deadline(j)' = Deadline(j)
    OBVIOUS
  <2>1. LineageOK(j) /\ keyRow[j] \in KeyRow /\ keyRow[j].root \in KeyId
    BY KeyRowType DEF KeyRow
  <2>2. keyRow'[j].root = keyRow[j].root
    BY <1>1 DEF KeysGrow
  <2>3. keyRow'[keyRow[j].root].granted = keyRow[keyRow[j].root].granted
    BY <1>1, <2>1 DEF KeysGrow, LineageOK
  <2> QED BY <2>1, <2>2, <2>3 DEF Deadline
<1>5. LineageOK(k)'
  <2>1. CASE keyRow[k] # None
    <3> DEFINE t == keyRow[k].root
    <3>1. keyRow'[k].root = t /\ keyRow'[t] # None /\ keyRow'[t].root = t
      BY <1>1, <1>4, <2>1 DEF KeysGrow, LineageOK
    <3>2. NotLater(keyRow'[k].expires, Deadline(k))
      <4>1. CASE keyTx[r][k] = None
        BY <1>3, <1>4, <2>1, <4>1 DEF LineageOK
      <4>2. CASE keyTx[r][k] # None
        BY <1>2, <2>1, <4>2, CommittedUpdate
      <4> QED BY <4>1, <4>2
    <3> QED BY <1>4, <2>1, <3>1, <3>2 DEF LineageOK, NotLater
  <2>2. CASE keyRow[k] = None /\ keyTx[r][k] # None
    <3>1. keyRow'[k] = keyTx[r][k]
      BY <1>2, <2>2
    <3> DEFINE a == accCall[r].arg
    <3>2. CASE /\ a \in KeyId /\ keyRow[a] # None
               /\ keyTx[r][k].root = keyRow[a].root
               /\ NotLater(keyTx[r][k].expires, Deadline(a))
      <4> DEFINE t == keyRow[a].root
      <4>1. keyRow'[k].root = t /\ keyRow'[t] # None /\ keyRow'[t].root = t
        BY <1>1, <1>4, <3>1, <3>2 DEF KeysGrow, LineageOK
      <4>2. keyRow'[t].granted = Deadline(a)
        BY <1>1, <1>4, <3>2 DEF KeysGrow, LineageOK, Deadline
      <4> QED BY <3>1, <3>2, <4>1, <4>2 DEF LineageOK, NotLater, Deadline
    <3>3. CASE keyTx[r][k].root = k /\ keyTx[r][k].granted = keyTx[r][k].expires
      <4>1. keyTx[r][k].expires \in Expiry /\ keyRow'[k] # None
        BY <2>2, <3>1, CommittedInsert DEF KeyRow
      <4>2. NotLater(keyTx[r][k].expires, keyTx[r][k].expires)
        BY <4>1 DEF NotLater, Expiry
      <4> QED BY <3>1, <3>3, <4>1, <4>2 DEF LineageOK, NotLater, Deadline
    <3> QED BY <2>2, <3>2, <3>3, CommittedInsert
  <2>3. CASE keyRow[k] = None /\ keyTx[r][k] = None
    BY <1>3, <2>3 DEF LineageOK
  <2> QED BY <2>1, <2>2, <2>3
<1>6. HeirOK(k)'
  <2> SUFFICES ASSUME keyRow'[k] # None, keyRow'[k].root = k
               PROVE  \E j \in KeyId : /\ keyRow'[j] # None /\ keyRow'[j].root = k
                                       /\ keyRow'[j].expires = keyRow'[k].granted
    BY DEF HeirOK
  <2>1. CASE keyRow[k] = None
    <3>1. keyTx[r][k] # None /\ keyRow'[k] = keyTx[r][k]
      BY <1>2, <1>3, <2>1
    <3>2. keyTx[r][k].root = k /\ keyTx[r][k].granted = keyTx[r][k].expires
      <4> SUFFICES ASSUME accCall[r].arg \in KeyId, keyRow[accCall[r].arg] # None,
                          keyTx[r][k].root = keyRow[accCall[r].arg].root
                   PROVE  FALSE
        BY <2>1, <3>1, CommittedInsert
      <4> QED BY <1>4, <2>1, <3>1 DEF LineageOK
    <3> QED BY <3>1, <3>2
  <2>2. CASE keyRow[k] # None
    <3>1. keyRow[k].root = k /\ keyRow'[k].granted = keyRow[k].granted
      BY <1>1, <2>2 DEF KeysGrow
    <3>2. PICK j \in KeyId : /\ keyRow[j] # None /\ keyRow[j].root = k
                             /\ keyRow[j].expires = keyRow[k].granted
      BY <2>2, <3>1 DEF HeirOK
    <3>3. CASE keyRow'[j].expires = keyRow[j].expires
      BY <1>1, <3>1, <3>2, <3>3 DEF KeysGrow
    <3>4. CASE keyRow'[j].expires # keyRow[j].expires
      <4>1. keyTx[r][j] # None /\ keyRow'[j] = keyTx[r][j]
        BY <1>2, <1>3, <3>4
      <4>2. accCall[r].op = "rotate" /\ j = accCall[r].arg
        BY <3>2, <3>4, <4>1, CommittedUpdate
      <4>3. PICK h \in KeyId : keyRow[h] = None /\ keyTx[r][h] # None
        BY <4>2 DEF AccRequestOK, KeyWorkOK, AccAt
      <4>4. keyRow[j].expires = Deadline(j)
        BY <3>2 DEF Deadline
      <4>5. keyTx[r][h].root = k /\ keyTx[r][h].expires = keyRow[k].granted
        <5>1. MintOK(r, h) /\ ReadOK(r) /\ accPc[r] = "commit"
          BY <4>3 DEF AccAt, AccRequestOK, KeyWorkOK
        <5>2. keyTx[r][h].root = keySeen[r].root /\ keyTx[r][h].expires = keySeen[r].expires
          BY <4>2, <5>1 DEF MintOK, NewExpiry
        <5>3. keySeen[r].root = keyRow[j].root /\ keySeen[r].expires = Deadline(j)
          BY <4>2, <4>4, <5>1 DEF ReadOK
        <5> QED BY <3>2, <4>4, <5>2, <5>3
      <4>6. keyRow'[h] = keyTx[r][h] /\ keyRow'[h] # None
        BY <1>2, <4>3
      <4> QED BY <3>1, <4>5, <4>6
    <3> QED BY <3>3, <3>4
  <2> QED BY <2>1, <2>2
<1> QED BY <1>5, <1>6

LEMMA SuccessKeepsInv ==
  ASSUME AccInv, NEW r \in Req, Success(r)
  PROVE  AccInv'
<1>1. /\ AccAt(r, "commit") /\ InTx(r) /\ EndTx(r)
      /\ keyRow' = [k \in KeyId |-> IF keyTx[r][k] # None THEN keyTx[r][k] ELSE keyRow[k]]
      /\ data' = data \cup dataTx[r] /\ applied' = applied \cup {r}
      /\ UNCHANGED <<audit, time, accCall, user, result>>
  BY DEF Success, AccAt, InTx
<1>2. PICK x \in {None, "success"} : hook' = [hook EXCEPT ![r] = x]
  BY DEF Success, AuditHook
<1>3. keyRow' \in [KeyId -> KeyRow \cup {None}] /\ data' \subseteq DataRow
  <2>1. /\ keyTx[r] \in [KeyId -> KeyRow \cup {None}] /\ keyRow \in [KeyId -> KeyRow \cup {None}]
        /\ dataTx[r] \subseteq DataRow /\ data \subseteq DataRow
    BY DEF AccInv, AccTypeOK
  <2> QED BY <1>1, <2>1
<1>4. /\ KeysGrow
      /\ \A k \in KeyId, q \in Req \ {r} : keyTx[q][k] # None => keyRow'[k] = keyRow[k]
  BY <1>1, SuccessGrowsKeys
<1>5. \A k \in KeyId : LineageOK(k)' /\ HeirOK(k)'
  BY <1>1, SuccessKeepsLineages
<1>6. r \in applied' /\ (x # None => (x = "success" <=> r \in applied'))
  BY <1>1
<1> QED BY <1>1, <1>2, <1>3, <1>4, <1>5, <1>6, EndKeepsInv

-----------------------------------------------------------------------------
\* The theorems.

LEMMA InitEstablishesInv ==
  AccInit => AccInv
<1> SUFFICES ASSUME AccInit PROVE AccInv
  OBVIOUS
<1> USE AccessAssumption DEF AccInit
<1>1. Unset \in [tenant: Tenant \cup {""}, isTest: BOOLEAN]
  BY DEF Unset
<1>2. NoKeys \in [KeyId -> KeyRow \cup {None}] /\ \A k \in KeyId : NoKeys[k] = None
  BY DEF NoKeys
<1> HIDE DEF Unset, NoKeys
<1>3. AccTypeOK
  BY <1>1, <1>2 DEF AccTypeOK, AccPcs
<1>4. ASSUME NEW r \in Req PROVE AccRequestOK(r)
  BY <1>2 DEF AccRequestOK, ContextOK, Known, ConnOK, InTx, ReadOK, KeyWorkOK, OutcomeOK
<1>5. PoolOK /\ KeyLocksOK
  BY <1>2 DEF PoolOK, Idle, KeyLocksOK, Unset
<1>6. ASSUME NEW k \in KeyId PROVE LineageOK(k) /\ HeirOK(k)
  <2>1. keyRow[k] # None => /\ keyRow[k] \in KeyRow /\ keyRow[k].root = k
                            /\ keyRow[k].expires = keyRow[k].granted
    OBVIOUS
  <2>2. keyRow[k] # None => keyRow[k].expires \in Expiry
    BY <2>1 DEF KeyRow
  <2> QED BY <2>1, <2>2 DEF LineageOK, HeirOK, Deadline, NotLater, Expiry
<1>7. TenantIsolation /\ AuditIsTrue /\ \A a \in audit : accPc[a.req] = "done"
  BY DEF TenantIsolation, AuditIsTrue
<1> QED BY <1>3, <1>4, <1>5, <1>6, <1>7 DEF AccInv

LEMMA StepKeepsInv ==
  AccInv /\ [AccNext]_accVars => AccInv'
<1> SUFFICES ASSUME AccInv, [AccNext]_accVars PROVE AccInv'
  OBVIOUS
<1>1. ASSUME NEW r \in Req, Guard(r) \/ OpenTx(r) PROVE AccInv'
  BY <1>1, GuardKeepsInv, OpenTxKeepsInv
<1>2. ASSUME NEW r \in Req, Statement(r) \/ FindKey(r) \/ UpdateKey(r) \/ MintKey(r)
      PROVE  AccInv'
  BY <1>2, StatementKeepsInv, FindKeyKeepsInv, UpdateKeyKeepsInv, MintKeyKeepsInv
<1>3. ASSUME NEW r \in Req, Success(r) \/ CommitLost(r) \/ WriteAudit(r) PROVE AccInv'
  BY <1>3, SuccessKeepsInv, CommitLostKeepsInv, WriteAuditKeepsInv
<1>4. CASE AccTick \/ UNCHANGED accVars
  BY <1>4, TickKeepsInv
<1> QED BY <1>1, <1>2, <1>3, <1>4 DEF AccNext

\* AccInv is inductive: contexts, connections, key locks and lineages are always as
\* the guards, TenantTxInterceptor and ApiKeysService need them.
THEOREM AccessInvariant == AccSpec => []AccInv
<1>1. AccInit => AccInv
  BY InitEstablishesInv
<1>2. AccInv /\ [AccNext]_accVars => AccInv'
  BY StepKeepsInv
<1> QED BY <1>1, <1>2, PTL DEF AccSpec

\* The Prisma extension, the policies and set_config keep every response and every
\* write within the tenant and the partition of the caller's credential.
THEOREM NoCrossTenantRow == AccSpec => []TenantIsolation
<1>1. AccInv => TenantIsolation
  BY DEF AccInv
<1> QED BY <1>1, AccessInvariant, PTL

\* AuditInterceptor and AuditService record what became of the transaction.
THEOREM AuditTellsTheOutcome == AccSpec => []AuditIsTrue
<1>1. AccInv => AuditIsTrue
  BY DEF AccInv
<1> QED BY <1>1, AccessInvariant, PTL

\* ApiKeysService.rotate never leaves a lineage without a valid key before the
\* deadline its first key was given, unless a key of it was revoked.
THEOREM RotationWithoutDowntime == AccSpec => []LineageCovered
<1>1. AccInv => LineageCovered
  <2> SUFFICES ASSUME AccInv, NEW k \in KeyId, keyRow[k] # None, keyRow[k].root = k,
                      \A j \in KeyId : keyRow[j] # None /\ keyRow[j].root = k
                                         => ~keyRow[j].revoked,
                      keyRow[k].granted = None \/ keyRow[k].granted >= time
               PROVE  \E j \in KeyId : keyRow[j] # None /\ keyRow[j].root = k /\ ValidKey(j)
    BY Zenon DEF LineageCovered
  <2>1. PICK j \in KeyId : /\ keyRow[j] # None /\ keyRow[j].root = k
                           /\ keyRow[j].expires = keyRow[k].granted
    BY DEF AccInv, HeirOK
  <2>2. Unexpired(keyRow[j])
    BY <2>1 DEF Unexpired
  <2> QED BY <2>1, <2>2, Zenon DEF ValidKey
<1> QED BY <1>1, AccessInvariant, PTL

\* The UPDATE of revoke and the one of rotate name their columns: no interleaving of
\* the two brings a revoked key back.
THEOREM RevocationSticks == AccSpec => RevocationIsFinal
<1>1. AccInv /\ [AccNext]_accVars =>
        [\A k \in KeyId : keyRow[k] # None /\ keyRow[k].revoked => keyRow'[k].revoked]_accVars
  <2> SUFFICES ASSUME AccInv, AccNext, NEW k \in KeyId, keyRow[k] # None, keyRow[k].revoked
               PROVE  keyRow'[k].revoked
    BY Zenon
  <2>1. ASSUME NEW r \in Req, Success(r) PROVE keyRow'[k].revoked
    <3>1. KeysGrow
      BY <2>1, SuccessGrowsKeys DEF Success
    <3> QED BY <3>1 DEF KeysGrow
  <2>2. CASE \A r \in Req : ~Success(r)
    <3>1. keyRow' = keyRow
      BY <2>2 DEF AccNext, Guard, OpenTx, Statement, FindKey, Throws, UpdateKey, MintKey,
         CommitLost, WriteAudit, AccTick, accTables
    <3> QED BY <3>1
  <2> QED BY <2>1, <2>2
<1> QED BY <1>1, AccessInvariant, PTL DEF AccSpec, RevocationIsFinal

\* A pooled connection that is free carries no tenant, so the lookup of
\* validateApiKey sees every row and refuses only keys that are not valid.
THEOREM GuardRefusesOnlyInvalidKeys == AccSpec => NoFalseRefusal
<1> DEFINE Refusal(r) == accPc[r] = "new" /\ accPc'[r] = "unauthorized"
<1>1. AccInv /\ [AccNext]_accVars =>
        [\A r \in Req : Refusal(r) => ~ValidKey(accCall'[r].cred.id)]_accVars
  <2> SUFFICES ASSUME AccInv, AccNext, NEW r \in Req, Refusal(r)
               PROVE  ~ValidKey(accCall'[r].cred.id)
    BY Zenon
  <2>1. Guard(r)
    <3>1. ASSUME NEW q \in Req, Guard(q) PROVE q = r
      BY <3>1 DEF Guard, AccGoto, AccInv, AccTypeOK
    <3>2. ASSUME NEW q \in Req, OpenTx(q) \/ Statement(q) \/ UpdateKey(q) \/ MintKey(q)
          PROVE  FALSE
      BY <3>2 DEF OpenTx, Statement, UpdateKey, MintKey, AccAt, AccGoto, AccInv, AccTypeOK
    <3>3. ASSUME NEW q \in Req, FindKey(q) \/ Success(q) \/ CommitLost(q) PROVE FALSE
      BY <3>3 DEF FindKey, Throws, Success, CommitLost, EndTx, AccAt, AccGoto, AccInv, AccTypeOK
    <3>4. ASSUME NEW q \in Req, WriteAudit(q) \/ AccTick PROVE FALSE
      BY <3>4 DEF WriteAudit, AccTick
    <3> QED BY <3>1, <3>2, <3>3, <3>4 DEF AccNext
  <2>2. PICK call \in Calls, c \in Idle :
          /\ accCall' = [accCall EXCEPT ![r] = call]
          /\ ~(call.cred.kind = "jwt" \/ KeyFound(c, call.cred.id))
    <3> DEFINE known(call, c) == call.cred.kind = "jwt" \/ KeyFound(c, call.cred.id)
               allow(call) == RolesAllow(call.op, Identity(call.cred).role)
    <3>1. PICK call \in Calls, c \in Idle :
            /\ accCall' = [accCall EXCEPT ![r] = call]
            /\ accPc' = [accPc EXCEPT ![r] =
                 CASE ~known(call, c) -> "unauthorized"
                   [] known(call, c) /\ ~allow(call) -> "forbidden"
                   [] OTHER -> "admitted"]
      BY <2>1 DEF Guard, AccGoto
    <3>2. "unauthorized" = CASE ~known(call, c) -> "unauthorized"
                             [] known(call, c) /\ ~allow(call) -> "forbidden"
                             [] OTHER -> "admitted"
      BY <3>1 DEF AccInv, AccTypeOK
    <3> HIDE DEF known, allow
    <3>3. ~known(call, c)
      <4>1. CASE known(call, c) /\ allow(call)
        BY <3>2, <4>1
      <4>2. CASE known(call, c) /\ ~allow(call)
        BY <3>2, <4>2
      <4> QED BY <4>1, <4>2
    <3> QED BY <3>1, <3>3 DEF known
  <2>3. accCall'[r] = call
    BY <2>2 DEF AccInv, AccTypeOK
  <2>4. session[c].tenant = ""
    <3>1. session[c] = Unset
      BY DEF AccInv, PoolOK
    <3>2. Unset.tenant = ""
      BY DEF Unset
    <3> QED BY <3>1, <3>2
  <2>5. ~ValidKey(call.cred.id)
    BY <2>2, <2>4 DEF KeyFound, RlsShowsKey
  <2> QED BY <2>3, <2>5
<1> QED BY <1>1, AccessInvariant, PTL DEF AccSpec, NoFalseRefusal, Refusal
=============================================================================
