------------------------------- MODULE ApiKeys -------------------------------
(***************************************************************************)
(* Service accounts and API keys: creating both, revoking a key, and what  *)
(* a request that carries an x-api-key header goes through.                *)
(*                                                                         *)
(* The header is honoured on every route.  authenticateApiKey makes three  *)
(* transactions: it finds the active key by its hash, reads the owner's    *)
(* membership, marks the key used; the scope is checked after them, and    *)
(* the management handlers then refuse what did not come by session.       *)
(*                                                                         *)
(* Queries name a row by its id alone: the tenant is compared by row-level *)
(* security on Postgres and by the code in memory, "Visible" here.  A key  *)
(* stands for its secret and its hash.  Names, which are only validated,   *)
(* and the two list operations, which change nothing, are left out.        *)
(* Service accounts are never revoked or changed.                          *)
(***************************************************************************)
EXTENDS Authorization, Sequences, Integers, FiniteSets

CONSTANTS
    Workers, Users, Tenants,
    Backends,      \* back ends to run on: "postgres", "memory"
    Grants,        \* the [tenant, user, role] that users may come to have
    Requests,      \* the requests clients may send
    None,
    MaxAccounts,   \* bound: service accounts ever created
    MaxKeys,       \* bound: keys ever created
    MaxTime        \* bound: the clock stops here

Scopes == {"read", "write"}
Ops == {"create_account", "create_key", "revoke", "get", "post"}
AccountIds == 1 .. MaxAccounts
KeyIds == 1 .. MaxKeys

\* Every request comes by session (user) or by key; "get" and "post" are the
\* incident routes, which take either.
ASSUME RequestAssumption ==
    \A r \in Requests :
        /\ r.op \in Ops
        /\ \/ r.user \in Users /\ r.key = None
           \/ r.user = None /\ r.key \in KeyIds
        /\ r.op \in {"create_account", "create_key", "revoke"} =>
               r.tenant \in Tenants
        /\ r.op = "create_account" => r.owner \in Users
        /\ r.op = "create_key" => /\ r.account \in AccountIds
                                  /\ r.scopes \in SUBSET Scopes \ {{}}
        /\ r.op = "revoke" => r.target \in KeyIds
ASSUME BackendAssumption == Backends \subseteq {"postgres", "memory"}
ASSUME GrantAssumption ==
    Grants \subseteq [tenant : Tenants, user : Users, role : OrgRoles]
ASSUME NumberAssumption ==
    MaxAccounts \in Nat /\ MaxKeys \in Nat /\ MaxTime \in Nat

\* request.authContext of a key
Principal == [key : KeyIds, tenant : Tenants, user : Users]

ASSUME NoneAssumption ==
    None \notin OrgRoles \cup Users \cup Int \cup Tenants \cup Principal

VARIABLES
    backend,    \* DATABASE_URL decides it at start-up
    role,       \* memberships: tenant -> user -> org role or None
    accounts,   \* service_accounts: a sequence of [tenant, owner]
    keys,       \* api_keys: a sequence of [tenant, account, creator, scopes,
                \*   used, revoked]
    now,
    pc, req,    \* each worker's step and request
    found,      \* the key its authentication found, or 0
    stamp,      \* the Date it took for its next write
    principal,  \* request.authContext: Principal, or None by session
    answer,     \* the status class of its response
    managed,    \* history: <<tenant, user>> who have been Owner or Admin
    dead        \* history: the keys revoked when its request arrived

dbVars == <<role, accounts, keys>>
localVars == <<found, stamp, principal, answer>>
history == <<managed, dead>>
vars == <<backend, dbVars, now, pc, req, localVars, history>>

Goto(w, from, to) == pc[w] = from /\ pc' = [pc EXCEPT ![w] = to]

Respond(w, code) ==
    /\ pc' = [pc EXCEPT ![w] = "done"]
    /\ answer' = [answer EXCEPT ![w] = code]

\* Mutant: the tenant of a row is not compared.
AlwaysVisible(row, tenant) == TRUE

\* The rows a query made for a tenant sees.
Visible(row, tenant) == row.tenant = tenant

\* getAuthenticatedUserId
UserOf(w) == IF principal[w] = None THEN req[w].user ELSE principal[w].user

\* Mutant: the revoke route does not ask for a session.
SessionOnlyExceptRevoke(r) == r.op \in {"create_account", "create_key"}

\* ensureSessionAuth: the routes that call it
SessionOnly(r) == r.op \in {"create_account", "create_key", "revoke"}

\* hasReadScope for a safe method, hasWriteScope for the others
ScopeNeeded(r) == IF r.op = "get" THEN "read" ELSE "write"

\* assertAuthorized('api_keys.manage')
MayManage(orgRole) == Authorize("api_keys.manage", {orgRole}, {})

Revoked == {k \in DOMAIN keys : keys[k].revoked # None}

Init ==
    /\ backend \in Backends
    /\ role = [t \in Tenants |-> [u \in Users |-> None]]
    /\ accounts = <<>> /\ keys = <<>>
    /\ now = 0
    /\ pc = [w \in Workers |-> "idle"]
    /\ req = [w \in Workers |-> None]
    /\ found = [w \in Workers |-> 0]
    /\ stamp = [w \in Workers |-> 0]
    /\ principal = [w \in Workers |-> None]
    /\ answer = [w \in Workers |-> None]
    /\ managed = {}
    /\ dead = [w \in Workers |-> {}]

InFlight(op) == Cardinality({w \in Workers : req[w] # None /\ req[w].op = op})

(* A request arrives: one with a key is authenticated by the middleware. *)
Receive(w, r) ==
    /\ r.op = "create_account" => Len(accounts) + InFlight(r.op) < MaxAccounts
    /\ r.op = "create_key" => Len(keys) + InFlight(r.op) < MaxKeys
    /\ Goto(w, "idle", IF r.key = None THEN "handler" ELSE "findKey")
    /\ req' = [req EXCEPT ![w] = r]
    /\ dead' = [dead EXCEPT ![w] = Revoked]
    /\ UNCHANGED <<backend, dbVars, now, localVars, managed>>

-----------------------------------------------------------------------------
(* createApiKeyAuthMiddleware and authenticateApiKey. *)

\* Mutant: a revoked key is found too.
FindAnyKey(w) ==
    LET k == req[w].key IN
    /\ pc[w] = "findKey"
    /\ \/ k \notin DOMAIN keys /\ Respond(w, "401") /\ UNCHANGED found
       \/ /\ k \in DOMAIN keys
          /\ Goto(w, "findKey", "findOwner")
          /\ found' = [found EXCEPT ![w] = k] /\ UNCHANGED answer
    /\ UNCHANGED <<backend, dbVars, now, req, stamp, principal, history>>

(* findActiveApiKeyByHash; the account of a key is always found. *)
FindKey(w) ==
    LET k == req[w].key
        active == k \in DOMAIN keys \ Revoked IN
    /\ pc[w] = "findKey"
    /\ \/ ~active /\ Respond(w, "401") /\ UNCHANGED found
       \/ /\ active /\ Goto(w, "findKey", "findOwner")
          /\ found' = [found EXCEPT ![w] = k] /\ UNCHANGED answer
    /\ UNCHANGED <<backend, dbVars, now, req, stamp, principal, history>>

(* The owner must still be a member; usedAt is taken here. *)
FindOwner(w) ==
    LET key == keys[found[w]]
        owner == accounts[key.account].owner
        member == role[key.tenant][owner] # None IN
    /\ pc[w] = "findOwner"
    /\ IF member THEN /\ Goto(w, "findOwner", "markUsed")
                      /\ stamp' = [stamp EXCEPT ![w] = now]
                      /\ UNCHANGED answer
                 ELSE Respond(w, "401") /\ UNCHANGED stamp
    /\ UNCHANGED <<backend, dbVars, now, req, found, principal, history>>

(* markApiKeyUsed, then, without another await, the scope check. *)
MarkUsed(w) ==
    LET k == found[w]
        key == keys[k]
        inScope == ScopeNeeded(req[w]) \in key.scopes IN
    /\ pc[w] = "markUsed"
    /\ keys' = [keys EXCEPT ![k].used = stamp[w]]
    /\ \/ ~inScope /\ Respond(w, "403") /\ UNCHANGED principal
       \/ /\ inScope /\ Goto(w, "markUsed", "handler")
          /\ principal' = [principal EXCEPT ![w] =
                             [key |-> k, tenant |-> key.tenant,
                              user |-> accounts[key.account].owner]]
          /\ UNCHANGED answer
    /\ UNCHANGED <<backend, role, accounts, now, req, found, stamp, history>>

-----------------------------------------------------------------------------
(* The handlers. *)

(* An incident route: the caller goes on as the principal of the key. *)
Serve(w) ==
    /\ pc[w] = "handler"
    /\ ~SessionOnly(req[w])
    /\ req[w].op \in {"get", "post"}
    /\ Respond(w, "200")
    /\ UNCHANGED <<backend, dbVars, now, req, found, stamp, principal, history>>

RefuseKey(w) ==
    /\ pc[w] = "handler"
    /\ SessionOnly(req[w]) /\ principal[w] # None
    /\ Respond(w, "403")
    /\ UNCHANGED <<backend, dbVars, now, req, found, stamp, principal, history>>

(* requireMembership and the permission; revokedAt is taken here. *)
ReadMembership(w) ==
    LET r == req[w]
        current == role[r.tenant][UserOf(w)]
        next == CASE r.op = "create_account" -> "checkOwner"
                  [] r.op = "create_key" -> "findAccount"
                  [] r.op = "revoke" -> "revoke" IN
    /\ pc[w] = "handler"
    /\ r.op \notin {"get", "post"}
    /\ SessionOnly(r) => principal[w] = None
    /\ \/ current = None /\ Respond(w, "404") /\ UNCHANGED stamp
       \/ /\ current # None /\ ~MayManage(current)
          /\ Respond(w, "403") /\ UNCHANGED stamp
       \/ /\ current # None /\ MayManage(current) /\ Goto(w, "handler", next)
          /\ stamp' = [stamp EXCEPT ![w] = now]
          /\ UNCHANGED answer
    /\ UNCHANGED <<backend, dbVars, now, req, found, principal, history>>

(* createServiceAccount: the owner is a member, then the INSERT. *)
CheckOwner(w) ==
    LET r == req[w] IN
    /\ pc[w] = "checkOwner"
    /\ \/ role[r.tenant][r.owner] = None /\ Respond(w, "400")
       \/ /\ role[r.tenant][r.owner] # None
          /\ Goto(w, "checkOwner", "insertAccount") /\ UNCHANGED answer
    /\ UNCHANGED <<backend, dbVars, now, req, found, stamp, principal, history>>

InsertAccount(w) ==
    LET r == req[w] IN
    /\ pc[w] = "insertAccount"
    /\ accounts' = Append(accounts, [tenant |-> r.tenant, owner |-> r.owner])
    /\ Respond(w, "200")
    /\ UNCHANGED <<backend, role, keys, now, req, found, stamp, principal,
                   history>>

(* createApiKey: findServiceAccountById, then the INSERT. *)
FindAccount(w) ==
    LET r == req[w]
        visible == /\ r.account \in DOMAIN accounts
                   /\ Visible(accounts[r.account], r.tenant) IN
    /\ pc[w] = "findAccount"
    /\ \/ ~visible /\ Respond(w, "404")
       \/ visible /\ Goto(w, "findAccount", "insertKey") /\ UNCHANGED answer
    /\ UNCHANGED <<backend, dbVars, now, req, found, stamp, principal, history>>

(* On Postgres a foreign key ties the account to the tenant of the key. *)
InsertKey(w) ==
    LET r == req[w] IN
    /\ pc[w] = "insertKey"
    /\ backend = "postgres" => accounts[r.account].tenant = r.tenant
    /\ keys' = Append(keys, [tenant |-> r.tenant, account |-> r.account,
                             creator |-> UserOf(w), scopes |-> r.scopes,
                             used |-> None, revoked |-> None])
    /\ Respond(w, "200")
    /\ UNCHANGED <<backend, role, accounts, now, req, found, stamp,
                   principal, history>>

\* Mutant: the last revocation wins.
LastRevocation(old, new) == new

\* COALESCE(revoked_at, $2)
FirstRevocation(old, new) == IF old = None THEN new ELSE old

(* revokeApiKey: one UPDATE. *)
Revoke(w) ==
    LET r == req[w]
        visible == /\ r.target \in DOMAIN keys
                   /\ Visible(keys[r.target], r.tenant) IN
    /\ pc[w] = "revoke"
    /\ \/ ~visible /\ Respond(w, "404") /\ UNCHANGED keys
       \/ /\ visible /\ Respond(w, "200")
          /\ keys' = [keys EXCEPT ![r.target].revoked =
                        FirstRevocation(@, stamp[w])]
    /\ UNCHANGED <<backend, role, accounts, now, req, found, stamp,
                   principal, history>>

-----------------------------------------------------------------------------
End(w) ==
    /\ pc' = [pc EXCEPT ![w] = "idle"]
    /\ req' = [req EXCEPT ![w] = None]
    /\ found' = [found EXCEPT ![w] = 0]
    /\ stamp' = [stamp EXCEPT ![w] = 0]
    /\ principal' = [principal EXCEPT ![w] = None]
    /\ answer' = [answer EXCEPT ![w] = None]
    /\ dead' = [dead EXCEPT ![w] = {}]
    /\ UNCHANGED <<backend, dbVars, now, managed>>

Finish(w) == pc[w] = "done" /\ End(w)

(* A statement fails or the process dies; its transaction is rolled back. *)
Die(w) == backend = "postgres" /\ pc[w] \notin {"idle", "done"} /\ End(w)

(* A tenant is created or an invite accepted: it grants, or overwrites, a  *)
(* role.                                                                   *)
Grant(g) ==
    /\ role[g.tenant][g.user] # g.role
    /\ role' = [role EXCEPT ![g.tenant][g.user] = g.role]
    /\ managed' = managed \cup (IF g.role \in Managers
                                THEN {<<g.tenant, g.user>>} ELSE {})
    /\ UNCHANGED <<backend, accounts, keys, now, pc, req, localVars, dead>>

Tick ==
    /\ now < MaxTime
    /\ now' = now + 1
    /\ UNCHANGED <<backend, dbVars, pc, req, localVars, history>>

Next ==
    \/ \E w \in Workers :
           \/ \E r \in Requests : Receive(w, r)
           \/ FindKey(w) \/ FindOwner(w) \/ MarkUsed(w)
           \/ Serve(w) \/ RefuseKey(w) \/ ReadMembership(w)
           \/ CheckOwner(w) \/ InsertAccount(w)
           \/ FindAccount(w) \/ InsertKey(w) \/ Revoke(w)
           \/ Finish(w) \/ Die(w)
    \/ \E g \in Grants : Grant(g)
    \/ Tick

Spec == Init /\ [][Next]_vars

-----------------------------------------------------------------------------
Account == [tenant : Tenants, owner : Users]
Key == [tenant : Tenants, account : AccountIds, creator : Users,
        scopes : SUBSET Scopes \ {{}}, used : 0 .. MaxTime \cup {None},
        revoked : 0 .. MaxTime \cup {None}]

(* Every variable has its type; a key's creator is a user. *)
TypeOK ==
    /\ backend \in Backends
    /\ role \in [Tenants -> [Users -> OrgRoles \cup {None}]]
    /\ accounts \in Seq(Account) /\ Len(accounts) <= MaxAccounts
    /\ keys \in Seq(Key) /\ Len(keys) <= MaxKeys
    /\ now \in 0 .. MaxTime
    /\ pc \in [Workers -> {"idle", "findKey", "findOwner", "markUsed",
                           "handler", "checkOwner", "insertAccount",
                           "findAccount", "insertKey", "revoke", "done"}]
    /\ req \in [Workers -> Requests \cup {None}]
    /\ found \in [Workers -> KeyIds \cup {0}]
    /\ stamp \in [Workers -> 0 .. MaxTime]
    /\ principal \in [Workers -> Principal \cup {None}]
    /\ answer \in [Workers -> {"200", "400", "401", "403", "404", None}]
    /\ managed \subseteq Tenants \X Users
    /\ dead \in [Workers -> SUBSET KeyIds]

(* A caller let in by a key acts in the tenant whose manager created it,   *)
(* for an owner who is a member there, through a service account of that   *)
(* tenant, and the key shows that it was used: although each of these was  *)
(* checked in a transaction of its own, possibly requests apart, and by    *)
(* queries that name rows of any tenant.                                   *)
KeysServeAsGranted ==
    \A w \in Workers : principal[w] # None =>
        LET p == principal[w]
            key == keys[p.key] IN
        /\ <<p.tenant, key.creator>> \in managed
        /\ accounts[key.account] = [tenant |-> p.tenant, owner |-> p.user]
        /\ role[p.tenant][p.user] # None
        /\ key.used # None

(* Once a key is revoked no request that arrives later gets in with it;    *)
(* those already under way may finish.  Nothing caches a key.              *)
RevocationTakesEffect ==
    \A w \in Workers : principal[w] # None => principal[w].key \notin dead[w]

(* A revocation keeps its first time, and no key disappears or changes     *)
(* hands: its tenant, its account and that account's owner, its creator    *)
(* and its scopes stay, however many requests mark it used or revoke it    *)
(* at once.                                                                *)
RevocationStands ==
    [][\A k \in DOMAIN keys :
         /\ k \in DOMAIN keys'
         /\ \A field \in {"tenant", "account", "creator", "scopes"} :
                keys'[k][field] = keys[k][field]
         /\ accounts'[keys[k].account] = accounts[keys[k].account]
         /\ keys[k].revoked # None => keys'[k].revoked = keys[k].revoked]_vars

(* A key is revoked on behalf of someone who has managed its own tenant,   *)
(* although the UPDATE names the key by its id only.                       *)
RevokedByItsTenant ==
    [][\A k \in DOMAIN keys :
         keys[k].revoked = None /\ keys'[k].revoked # None =>
           \E w \in Workers :
               /\ pc[w] = "revoke" /\ pc'[w] = "done" /\ req[w].target = k
               /\ <<keys[k].tenant, UserOf(w)>> \in managed]_vars

(* "These management endpoints require session auth": nothing that carries *)
(* a key creates an account or a key or revokes one, its own included.     *)
ManagedBySessions ==
    [][\A w \in Workers :
         pc[w] \in {"insertAccount", "insertKey", "revoke"} =>
             req[w].key = None]_vars
=============================================================================
