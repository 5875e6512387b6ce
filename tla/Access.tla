------------------------------- MODULE Access -------------------------------
(***************************************************************************)
(* Who gets in and what they see: AuthGuard and RolesGuard, the tenant     *)
(* session TenantTxInterceptor opens on a pooled connection, the row level *)
(* security policies and the Prisma extension that scope every statement,  *)
(* the API keys with their revocation and rotation, and the audit rows     *)
(* written after the transaction.                                          *)
(***************************************************************************)
EXTENDS RequestSlots, Integers, FiniteSets

CONSTANTS
  Tenant,
  KeyId,       \* API key ids; bounds the number of INSERTs
  Conn,        \* connections of the pool
  FirstKeys,   \* key rows that exist, [KeyId -> row or None]
  FirstData,   \* tenant rows that exist
  Calls,       \* what clients send
  KeyGrace,    \* graceSeconds of a rotation
  MaxClock     \* bound on the clock

\* granted is the expiry a key was created with, root the key its rotations
\* descend from.
Expiry == Nat \cup {None}
KeyRow == [tenant: Tenant, env: {"live", "test"}, revoked: BOOLEAN,
           expires: Expiry, granted: Expiry, root: KeyId]
DataRow == [tenant: Tenant, isTest: BOOLEAN, id: Req \cup {None}]

UserRole == {"OWNER", "ADMIN", "STAFF"}
Credential == [kind: {"jwt"}, tenant: Tenant, role: UserRole]
         \cup [kind: {"key"}, id: KeyId]
KeyBody == [mode: {"live", "test"}, expires: Expiry]
EndpointCall == [cred: Credential, op: {"list", "search", "create"}, arg: {None}]
           \cup [cred: Credential, op: {"revoke", "rotate"}, arg: KeyId]
           \cup [cred: Credential, op: {"createKey"}, arg: KeyBody]

\* The keys that exist were made by create: each is the root of a lineage.
ASSUME AccessAssumption ==
  /\ FirstKeys \in [KeyId -> KeyRow \cup {None}]
  /\ \A k \in KeyId : FirstKeys[k] # None =>
       FirstKeys[k].root = k /\ FirstKeys[k].expires = FirstKeys[k].granted
  /\ FirstData \subseteq DataRow
  /\ Calls \subseteq EndpointCall
  /\ KeyGrace \in Nat /\ MaxClock \in Nat
  /\ None \notin KeyRow \cup Calls \cup Conn \cup Nat

VARIABLES
  keyRow,      \* committed ApiKey rows
  data,        \* committed rows of a partitioned tenant table
  session,     \* app.current_business_id and app.current_is_test by connection
  time,
  accCall, accPc,
  user,        \* what AuthGuard put into the request context
  conn,        \* the connection of the request's transaction
  keySeen,     \* what a handler read of a key row, and the end of its grace window
  keyTx,       \* uncommitted key rows
  dataTx,      \* uncommitted tenant rows
  result,      \* tenant rows the handler returned
  hook,        \* audit row waiting to be written
  audit,       \* committed AuditEvent rows
  applied      \* requests whose transaction committed

accTables == <<keyRow, data, audit, applied>>
accVars == <<accTables, session, time, accCall, accPc, user, conn, keySeen, keyTx,
             dataTx, result, hook>>

Unset == [tenant |-> "", isTest |-> FALSE]
NoKeys == [k \in KeyId |-> None]

AccInit ==
  /\ keyRow = FirstKeys
  /\ data = FirstData
  /\ session = [c \in Conn |-> Unset]
  /\ time = 0
  /\ accCall = [r \in Req |-> None]
  /\ accPc = [r \in Req |-> "new"]
  /\ user = [r \in Req |-> None]
  /\ conn = [r \in Req |-> None]
  /\ keySeen = [r \in Req |-> None]
  /\ keyTx = [r \in Req |-> NoKeys]
  /\ dataTx = [r \in Req |-> {}]
  /\ result = [r \in Req |-> {}]
  /\ hook = [r \in Req |-> None]
  /\ audit = {}
  /\ applied = {}

AccAt(r, s) == accPc[r] = s
AccGoto(r, s) == accPc' = [accPc EXCEPT ![r] = s]

-----------------------------------------------------------------------------
\* Row level security.

\* Strict policies of partitioned tables.
RlsShows(c, row) == row.tenant = session[c].tenant /\ row.isTest = session[c].isTest

\* The policy of ApiKey lets a connection without a tenant see every row: the
\* guard looks keys up before a tenant is known.
RlsShowsKey(c, row) == session[c].tenant \in {"", row.tenant}

-----------------------------------------------------------------------------
\* AuthGuard and RolesGuard.

Unexpired(row) == row.expires = None \/ row.expires >= time
ValidKey(k) == keyRow[k] # None /\ ~keyRow[k].revoked /\ Unexpired(keyRow[k])

Idle == Conn \ {conn[r] : r \in Req}

\* validateApiKey finds the row on connection c.
KeyFound(c, k) == ValidKey(k) /\ RlsShowsKey(c, keyRow[k])

\* Mutated form of Identity: the mode of the key is not put into the context.
IdentityWithoutMode(cred) ==
  IF cred.kind = "jwt"
  THEN [tenant |-> cred.tenant, role |-> cred.role, isTest |-> FALSE]
  ELSE [tenant |-> keyRow[cred.id].tenant, role |-> "AGENT", isTest |-> FALSE]

\* validateJwt trusts the payload; a key's prefix is the source of its mode.
Identity(cred) ==
  IF cred.kind = "jwt"
  THEN [tenant |-> cred.tenant, role |-> cred.role, isTest |-> FALSE]
  ELSE [tenant |-> keyRow[cred.id].tenant, role |-> "AGENT",
        isTest |-> keyRow[cred.id].env = "test"]

\* @Roles of the controllers: keys are managed by the owner.
RolesAllow(op, role) == op \in {"createKey", "revoke", "rotate"} => role = "OWNER"

\* The guards, in order: authentication on some idle connection, then roles.
Guard(r) ==
  /\ AccAt(r, "new")
  /\ \E call \in Calls, c \in Idle :
       LET known == call.cred.kind = "jwt" \/ KeyFound(c, call.cred.id) IN
       /\ accCall' = [accCall EXCEPT ![r] = call]
       /\ user' = [user EXCEPT ![r] = IF known THEN Identity(call.cred) ELSE None]
       /\ AccGoto(r, CASE ~known -> "unauthorized"
                       [] known /\ ~RolesAllow(call.op, Identity(call.cred).role) -> "forbidden"
                       [] OTHER -> "admitted")
  /\ UNCHANGED <<accTables, session, time, conn, keySeen, keyTx, dataTx, result, hook>>

-----------------------------------------------------------------------------
\* TenantTxInterceptor.

FirstStatement(op) ==
  CASE op \in {"revoke", "rotate"} -> "find"
    [] op = "createKey"            -> "mint"
    [] OTHER                       -> "statement"

\* BEGIN and the two set_config calls.
OpenTx(r) ==
  /\ AccAt(r, "admitted")
  /\ \E c \in Idle :
       /\ conn' = [conn EXCEPT ![r] = c]
       /\ session' = [session EXCEPT ![c] =
                        [tenant |-> user[r].tenant, isTest |-> user[r].isTest]]
  /\ AccGoto(r, FirstStatement(accCall[r].op))
  /\ UNCHANGED <<accTables, time, accCall, user, keySeen, keyTx, dataTx, result, hook>>

\* Mutated form of SessionAfter: set_config with is_local = FALSE.
SessionKept(c) == session

\* set_config(..., TRUE) ends with the transaction.
SessionAfter(c) == [session EXCEPT ![c] = Unset]

EndTx(r) ==
  /\ session' = SessionAfter(conn[r])
  /\ conn' = [conn EXCEPT ![r] = None]
  /\ keyTx' = [keyTx EXCEPT ![r] = NoKeys]
  /\ dataTx' = [dataTx EXCEPT ![r] = {}]
  /\ keySeen' = [keySeen EXCEPT ![r] = None]
  /\ AccGoto(r, "done")

\* The audit row AuditInterceptor registers; endpoints that read carry no @Audit.
AuditHook(r, outcome) ==
  IF accCall[r].op \in {"list", "search"} THEN None ELSE outcome

\* Mutated form of Success: the audit row is written when the handler returns.
SuccessAtOnce(r) ==
  /\ AccAt(r, "commit")
  /\ hook' = [hook EXCEPT ![r] = AuditHook(r, "success")]
  /\ \/ /\ keyRow' = [k \in KeyId |-> IF keyTx[r][k] # None THEN keyTx[r][k] ELSE keyRow[k]]
        /\ data' = data \cup dataTx[r]
        /\ applied' = applied \cup {r}
     \/ UNCHANGED <<keyRow, data, applied>>
  /\ EndTx(r)
  /\ UNCHANGED <<audit, time, accCall, user, result>>

\* COMMIT, then the after-commit hooks.
Success(r) ==
  /\ AccAt(r, "commit")
  /\ keyRow' = [k \in KeyId |-> IF keyTx[r][k] # None THEN keyTx[r][k] ELSE keyRow[k]]
  /\ data' = data \cup dataTx[r]
  /\ applied' = applied \cup {r}
  /\ hook' = [hook EXCEPT ![r] = AuditHook(r, "success")]
  /\ EndTx(r)
  /\ UNCHANGED <<audit, time, accCall, user, result>>

\* The handler throws: catchError records the failure, the transaction rolls
\* back.
Throws(r) ==
  /\ hook' = [hook EXCEPT ![r] = AuditHook(r, "failure")]
  /\ EndTx(r)
  /\ UNCHANGED <<accTables, time, accCall, user, result>>

\* The transaction times out or COMMIT fails after the handler has returned:
\* neither the hooks nor catchError run.
CommitLost(r) ==
  /\ AccAt(r, "commit")
  /\ EndTx(r)
  /\ UNCHANGED <<accTables, time, accCall, user, result, hook>>

\* AuditService.persist, in a transaction of its own, or never.
WriteAudit(r) ==
  /\ hook[r] # None
  /\ audit' = audit \cup {[req |-> r, tenant |-> user[r].tenant, outcome |-> hook[r]]}
  /\ hook' = [hook EXCEPT ![r] = None]
  /\ UNCHANGED <<keyRow, data, applied, session, time, accCall, accPc, user, conn,
                 keySeen, keyTx, dataTx, result>>

-----------------------------------------------------------------------------
\* Handlers on tenant rows.

\* The extension adds businessId and isTest to the where of every read.
ScopedWhere(r, row) == row.tenant = user[r].tenant /\ row.isTest = user[r].isTest
\* The extension adds them to the data of every create.
ScopedData(r) == [tenant |-> user[r].tenant, isTest |-> user[r].isTest, id |-> r]

\* search sends raw SQL that only the policies scope (matching is left out: all
\* visible rows match); list goes through the extension as well.
Searched(r) == {row \in data : RlsShows(conn[r], row)}
Listed(r) == {row \in Searched(r) : ScopedWhere(r, row)}

Statement(r) ==
  /\ AccAt(r, "statement")
  /\ result' = [result EXCEPT ![r] = CASE accCall[r].op = "search" -> Searched(r)
                                       [] accCall[r].op = "list"   -> Listed(r)
                                       [] OTHER                    -> {}]
  /\ dataTx' = [dataTx EXCEPT ![r] =
       {row \in {ScopedData(r)} : accCall[r].op = "create" /\ RlsShows(conn[r], row)}]
  /\ AccGoto(r, "commit")
  /\ UNCHANGED <<accTables, session, time, accCall, user, conn, keySeen, keyTx, hook>>

-----------------------------------------------------------------------------
\* ApiKeysService.

KeyLocked(r, k) == \E q \in Req \ {r} : keyTx[q][k] # None
Minted == {k \in KeyId : keyRow[k] # None \/ \E r \in Req : keyTx[r][k] # None}

\* findFirst at the head of revoke and rotate.  revoke returns a revoked key
\* as it is; rotate leaves an expiry that is sooner than the grace window.
FindKey(r) ==
  LET k == accCall[r].arg
      row == keyRow[k]
      visible == row # None /\ RlsShowsKey(conn[r], row) /\ row.tenant = user[r].tenant
  IN /\ AccAt(r, "find")
     /\ \/ ~visible /\ Throws(r)
        \/ /\ visible
           /\ keySeen' = [keySeen EXCEPT ![r] =
                [revoked |-> row.revoked, expires |-> row.expires, root |-> row.root,
                 newExpiry |-> time + KeyGrace]]
           /\ AccGoto(r,
                CASE accCall[r].op = "revoke" /\ row.revoked -> "commit"
                  [] accCall[r].op = "rotate" /\ row.expires # None
                       /\ row.expires <= time + KeyGrace -> "mint"
                  [] OTHER -> "update")
           /\ UNCHANGED <<accTables, session, time, accCall, user, conn, keyTx, dataTx,
                          result, hook>>

\* Mutated form of UpdatedKey: the row read earlier is written back.
UpdatedKeyStale(r, row) ==
  IF accCall[r].op = "revoke" THEN [row EXCEPT !.revoked = TRUE]
  ELSE [row EXCEPT !.expires = keySeen[r].newExpiry, !.revoked = keySeen[r].revoked]

\* UPDATE of the named columns of the latest version.
UpdatedKey(r, row) ==
  IF accCall[r].op = "revoke" THEN [row EXCEPT !.revoked = TRUE]
  ELSE [row EXCEPT !.expires = keySeen[r].newExpiry]

UpdateKey(r) ==
  LET k == accCall[r].arg IN
  /\ AccAt(r, "update")
  /\ ~KeyLocked(r, k)
  /\ keyTx' = [keyTx EXCEPT ![r][k] = UpdatedKey(r, keyRow[k])]
  /\ AccGoto(r, IF accCall[r].op = "rotate" THEN "mint" ELSE "commit")
  /\ UNCHANGED <<accTables, session, time, accCall, user, conn, keySeen, dataTx, result, hook>>

\* Mutated form of NewExpiry: the successor gets the capped expiry.
NewExpiryCapped(r) ==
  IF accCall[r].op = "rotate" THEN keySeen[r].newExpiry ELSE accCall[r].arg.expires

\* The successor inherits the expiry the old key had when it was read.
NewExpiry(r) ==
  IF accCall[r].op = "rotate" THEN keySeen[r].expires ELSE accCall[r].arg.expires

\* rotate calls create without a mode: the successor of a test key is a live one.
NewMode(r) == IF accCall[r].op = "rotate" THEN "live" ELSE accCall[r].arg.mode

\* create, of an endpoint of its own or called by rotate.
MintKey(r) ==
  /\ AccAt(r, "mint")
  /\ KeyId \ Minted # {}
  /\ LET k == CHOOSE x \in KeyId \ Minted : TRUE IN
       keyTx' = [keyTx EXCEPT ![r][k] =
         [tenant |-> user[r].tenant, env |-> NewMode(r), revoked |-> FALSE,
          expires |-> NewExpiry(r), granted |-> NewExpiry(r),
          root |-> IF accCall[r].op = "rotate" THEN keySeen[r].root ELSE k]]
  /\ AccGoto(r, "commit")
  /\ UNCHANGED <<accTables, session, time, accCall, user, conn, keySeen, dataTx, result, hook>>

AccTick ==
  /\ time < MaxClock
  /\ time' = time + 1
  /\ UNCHANGED <<accTables, session, accCall, accPc, user, conn, keySeen, keyTx, dataTx,
                 result, hook>>

AccNext ==
  \/ \E r \in Req : \/ Guard(r) \/ OpenTx(r) \/ Statement(r)
                    \/ FindKey(r) \/ UpdateKey(r) \/ MintKey(r)
                    \/ Success(r) \/ CommitLost(r) \/ WriteAudit(r)
  \/ AccTick

AccSpec == AccInit /\ [][AccNext]_accVars

-----------------------------------------------------------------------------
\* Properties.

\* The tenant and partition a credential stands for.
ScopeOf(cred) ==
  IF cred.kind = "jwt" THEN <<cred.tenant, FALSE>>
  ELSE <<keyRow[cred.id].tenant, keyRow[cred.id].env = "test">>

\* No response holds, and no transaction stores, a row of another tenant or of
\* the other partition, for scoped and for raw statements and whichever
\* connection of the pool served the requests before.
TenantIsolation ==
  \A r \in Req : \A row \in result[r] \cup dataTx[r] :
    <<row.tenant, row.isTest>> = ScopeOf(accCall[r].cred)

\* The guard turns an API key away only when it is revoked, expired or
\* unknown: no session a tenant left on a pooled connection hides it.
NoFalseRefusal ==
  [][\A r \in Req :
       accPc[r] = "new" /\ accPc'[r] = "unauthorized"
         => ~ValidKey(accCall'[r].cred.id)]_accVars

\* A revoked key stays revoked, also when a rotation read it before.
RevocationIsFinal ==
  [][\A k \in KeyId :
       keyRow[k] # None /\ keyRow[k].revoked => keyRow'[k].revoked]_accVars

\* Rotation without downtime: until the expiry the first key of a lineage was
\* given, some key of the lineage is valid, unless one of them was revoked.
LineageCovered ==
  \A k \in KeyId :
    LET lineage == {j \in KeyId : keyRow[j] # None /\ keyRow[j].root = k} IN
    /\ keyRow[k] # None /\ keyRow[k].root = k
    /\ \A j \in lineage : ~keyRow[j].revoked
    /\ keyRow[k].granted = None \/ keyRow[k].granted >= time
    => \E j \in lineage : ValidKey(j)

\* A success row is written only for a request that committed, a failure row
\* only for one that did not, each for the caller's own tenant.
AuditIsTrue ==
  \A a \in audit :
    /\ a.outcome = "success" <=> a.req \in applied
    /\ a.tenant = ScopeOf(accCall[a.req].cred)[1]

-----------------------------------------------------------------------------
\* The inductive invariant behind the properties.

AccPcs == {"new", "unauthorized", "forbidden", "admitted", "statement", "find",
           "update", "mint", "commit", "done"}

\* Inside the transaction, and past the guards.
InTx(r) == accPc[r] \in {"statement", "find", "update", "mint", "commit"}
Known(r) == accPc[r] \notin {"new", "unauthorized"}

User == [tenant: Tenant, role: UserRole \cup {"AGENT"}, isTest: BOOLEAN]
KeyRead == [revoked: BOOLEAN, expires: Expiry, root: KeyId, newExpiry: Nat]
AuditRow == [req: Req, tenant: Tenant, outcome: {"success", "failure"}]

AccTypeOK ==
  /\ keyRow \in [KeyId -> KeyRow \cup {None}]
  /\ data \subseteq DataRow
  /\ session \in [Conn -> [tenant: Tenant \cup {""}, isTest: BOOLEAN]]
  /\ time \in Nat
  /\ accCall \in [Req -> Calls \cup {None}]
  /\ accPc \in [Req -> AccPcs]
  /\ user \in [Req -> User \cup {None}]
  /\ conn \in [Req -> Conn \cup {None}]
  /\ keySeen \in [Req -> KeyRead \cup {None}]
  /\ keyTx \in [Req -> [KeyId -> KeyRow \cup {None}]]
  /\ dataTx \in [Req -> SUBSET DataRow]
  /\ result \in [Req -> SUBSET DataRow]
  /\ hook \in [Req -> {None, "success", "failure"}]
  /\ audit \subseteq AuditRow
  /\ applied \subseteq Req

\* What the context says of the caller is what the credential stands for.
ContextOK(r) ==
  /\ ~Known(r) => result[r] = {} /\ dataTx[r] = {}
  /\ Known(r) =>
       /\ accCall[r] \in Calls
       /\ user[r] \in User
       /\ accCall[r].cred.kind = "key" => keyRow[accCall[r].cred.id] # None
       /\ <<user[r].tenant, user[r].isTest>> = ScopeOf(accCall[r].cred)

\* The request's connection is its own and carries its tenant; a connection
\* nobody uses carries none.
ConnOK(r) ==
  /\ conn[r] # None <=> InTx(r)
  /\ conn[r] # None =>
       session[conn[r]] = [tenant |-> user[r].tenant, isTest |-> user[r].isTest]

PoolOK ==
  /\ \A r, q \in Req : r # q /\ conn[r] # None => conn[r] # conn[q]
  /\ \A c \in Idle : session[c] = Unset

\* An expiry x is not later than y.
NotLater(x, y) == y = None \/ (x # None /\ y # None /\ x <= y)
Deadline(k) == keyRow[keyRow[k].root].granted

\* Every key descends from a key that has no ancestor, and expires no later.
LineageOK(k) ==
  keyRow[k] # None =>
    /\ keyRow[keyRow[k].root] # None
    /\ keyRow[keyRow[k].root].root = keyRow[k].root
    /\ NotLater(keyRow[k].expires, Deadline(k))

\* Some key of every lineage keeps the expiry its first key was granted.
HeirOK(k) ==
  keyRow[k] # None /\ keyRow[k].root = k =>
    \E j \in KeyId : /\ keyRow[j] # None /\ keyRow[j].root = k
                     /\ keyRow[j].expires = keyRow[k].granted

\* What revoke and rotate read: a window that ends before the expiry, and the
\* full expiry as long as the key has it.
ReadOK(r) ==
  LET k == accCall[r].arg IN
  accPc[r] \in {"update", "mint", "commit"} /\ accCall[r].op \in {"revoke", "rotate"} =>
    /\ k \in KeyId /\ keyRow[k] # None
    /\ keySeen[r] \in KeyRead
    /\ keySeen[r].root = keyRow[k].root
    /\ NotLater(keySeen[r].expires, Deadline(k))
    /\ keyRow[k].expires = Deadline(k) => keySeen[r].expires = Deadline(k)
    /\ (accPc[r] = "update" \/ keyTx[r][k] # None) /\ accCall[r].op = "rotate"
         => keySeen[r].expires = None \/ keySeen[r].newExpiry < keySeen[r].expires

\* A key the transaction minted.
MintOK(r, k) ==
  /\ keyTx[r][k].expires = NewExpiry(r)
  /\ IF accCall[r].op = "rotate" THEN keyTx[r][k].root = keySeen[r].root
     ELSE keyTx[r][k].root = k /\ keyTx[r][k].granted = keyTx[r][k].expires

\* The uncommitted key rows: an update of the key the request acts on, of its
\* committed version, and after "mint" a new key.
KeyWorkOK(r) ==
  /\ accPc[r] = "statement" => accCall[r].op \notin {"revoke", "rotate", "createKey"}
  /\ accPc[r] = "mint" => accCall[r].op \in {"rotate", "createKey"}
  /\ accPc[r] \in {"find", "update"} => accCall[r].op \in {"revoke", "rotate"}
  /\ \A k \in KeyId : keyTx[r][k] # None =>
       /\ accPc[r] \in {"mint", "commit"}
       /\ keyRow[k] # None =>
            /\ accCall[r].op \in {"revoke", "rotate"} /\ k = accCall[r].arg
            /\ keyTx[r][k] = UpdatedKey(r, keyRow[k])
       /\ keyRow[k] = None =>
            /\ accPc[r] = "commit" /\ accCall[r].op \in {"rotate", "createKey"}
            /\ MintOK(r, k)
  /\ accPc[r] = "commit" /\ accCall[r].op = "rotate" =>
       \E k \in KeyId : keyRow[k] = None /\ keyTx[r][k] # None

\* No key row has two uncommitted versions.
KeyLocksOK ==
  \A r, q \in Req, k \in KeyId : r # q => keyTx[r][k] = None \/ keyTx[q][k] = None

\* An outcome is known when the request is done, and it is the right one.
OutcomeOK(r) ==
  /\ r \in applied => accPc[r] = "done"
  /\ hook[r] # None => accPc[r] = "done" /\ (hook[r] = "success" <=> r \in applied)

AccRequestOK(r) ==
  ContextOK(r) /\ ConnOK(r) /\ ReadOK(r) /\ KeyWorkOK(r) /\ OutcomeOK(r)

AccInv ==
  /\ AccTypeOK
  /\ \A r \in Req : AccRequestOK(r)
  /\ PoolOK /\ KeyLocksOK
  /\ \A k \in KeyId : LineageOK(k) /\ HeirOK(k)
  /\ TenantIsolation
  /\ AuditIsTrue /\ \A a \in audit : accPc[a.req] = "done"
=============================================================================
