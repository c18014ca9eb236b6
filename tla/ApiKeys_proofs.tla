---------------------------- MODULE ApiKeys_proofs ----------------------------
(***************************************************************************)
(* For any requests, workers, tenants and users, on either back end: what  *)
(* a key serves, what its revocation binds, and who manages it.            *)
(*                                                                         *)
(* Rows are only added, and what a request looks up does not change: keys  *)
(* and accounts keep their tenant, members stay members (Grows).  So what  *)
(* a request learnt in one transaction is true in the next (Carries).      *)
(***************************************************************************)
EXTENDS ApiKeys, SequenceTheorems, TLAPS

PCs == {"idle", "findKey", "findOwner", "markUsed", "handler", "checkOwner",
        "insertAccount", "findAccount", "insertKey", "revoke", "done"}
Managing == {"checkOwner", "insertAccount", "findAccount", "insertKey",
             "revoke"}

\* TypeOK, but for the bounds on the tables, which nothing here rests on.
Typed ==
    /\ role \in [Tenants -> [Users -> OrgRoles \cup {None}]]
    /\ accounts \in Seq(Account)
    /\ keys \in Seq(Key)
    /\ now \in 0 .. MaxTime
    /\ pc \in [Workers -> PCs]
    /\ req \in [Workers -> Requests \cup {None}]
    /\ found \in [Workers -> KeyIds \cup {0}]
    /\ stamp \in [Workers -> 0 .. MaxTime]
    /\ principal \in [Workers -> Principal \cup {None}]
    /\ managed \subseteq Tenants \X Users
    /\ dead \in [Workers -> SUBSET Int]

ByManagers ==
    \A t \in Tenants, u \in Users :
        role[t][u] \in Managers => <<t, u>> \in managed

\* A key is its account's tenant's, made by someone who has managed it.
KeyRow(k) ==
    /\ keys[k].account \in DOMAIN accounts
    /\ accounts[keys[k].account].tenant = keys[k].tenant
    /\ <<keys[k].tenant, keys[k].creator>> \in managed

\* The owner behind key k is a member.
Owned(k) == role[keys[k].tenant][accounts[keys[k].account].owner] # None

\* What a request by key has established, step by step.
CarriesKey(w) ==
    /\ pc[w] \in {"findKey", "findOwner", "markUsed"} =>
           req[w].key \in KeyIds
    /\ pc[w] \in {"findOwner", "markUsed"} =>
           found[w] \in DOMAIN keys \ dead[w]
    /\ pc[w] = "markUsed" => Owned(found[w])
    /\ principal[w] # None =>
           LET p == principal[w] IN
           /\ p.key \in DOMAIN keys \ dead[w]
           /\ p.tenant = keys[p.key].tenant
           /\ p.user = accounts[keys[p.key].account].owner
           /\ Owned(p.key)
           /\ keys[p.key].used # None
    /\ dead[w] \subseteq Revoked

\* And a request by session.
CarriesUser(w) ==
    /\ pc[w] # "idle" => req[w] \in Requests
    /\ pc[w] \in {"idle", "findKey", "findOwner", "markUsed"} =>
           principal[w] = None
    /\ pc[w] = "handler" => (req[w].key = None <=> principal[w] = None)
    /\ pc[w] \in Managing =>
           /\ principal[w] = None /\ req[w].key = None
           /\ req[w].tenant \in Tenants
           /\ <<req[w].tenant, req[w].user>> \in managed
    /\ pc[w] \in {"checkOwner", "insertAccount"} => req[w].op = "create_account"
    /\ pc[w] \in {"findAccount", "insertKey"} => req[w].op = "create_key"
    /\ pc[w] = "revoke" => req[w].op = "revoke"
    /\ pc[w] = "insertKey" =>
           /\ req[w].account \in DOMAIN accounts
           /\ accounts[req[w].account].tenant = req[w].tenant

Carries(w) == CarriesKey(w) /\ CarriesUser(w)

IInv ==
    /\ Typed /\ ByManagers
    /\ \A k \in DOMAIN keys : KeyRow(k)
    /\ \A w \in Workers : Carries(w)

\* What no step takes back.
Grows ==
    /\ \A i \in DOMAIN accounts :
           i \in DOMAIN accounts' /\ accounts'[i] = accounts[i]
    /\ \A k \in DOMAIN keys :
           /\ k \in DOMAIN keys'
           /\ keys'[k].tenant = keys[k].tenant
           /\ keys'[k].account = keys[k].account
           /\ keys'[k].creator = keys[k].creator
           /\ keys'[k].scopes = keys[k].scopes
           /\ keys[k].used # None => keys'[k].used # None
           /\ keys[k].revoked # None => keys'[k].revoked = keys[k].revoked
    /\ \A t \in Tenants, u \in Users : role[t][u] # None => role'[t][u] # None
    /\ managed \subseteq managed'

\* The locals of worker v are as they were.
Still(v) ==
    /\ pc'[v] = pc[v] /\ req'[v] = req[v] /\ found'[v] = found[v]
    /\ principal'[v] = principal[v] /\ dead'[v] = dead[v]

-----------------------------------------------------------------------------
(* A row of a key names a tenant, an account and a user there are. *)
LEMMA KeyTyped ==
    ASSUME Typed, NEW k \in DOMAIN keys, KeyRow(k)
    PROVE  /\ keys[k] \in Key /\ keys[k].tenant \in Tenants
           /\ accounts[keys[k].account] \in Account
           /\ accounts[keys[k].account].owner \in Users
           /\ accounts[keys[k].account] =
                  [tenant |-> keys[k].tenant,
                   owner |-> accounts[keys[k].account].owner]
  <1>1. keys[k] \in Key
    BY LenProperties, ElementOfSeq DEF Typed
  <1>2. accounts[keys[k].account] \in Account
    BY LenProperties, ElementOfSeq DEF Typed, KeyRow
  <1> QED BY <1>1, <1>2 DEF Key, Account, KeyRow

LEMMA InitIInv == Init => IInv
  <1> SUFFICES ASSUME Init PROVE IInv
    OBVIOUS
  <1>1. Typed
    BY NumberAssumption DEF Init, Typed, PCs
  <1>2. ByManagers
    BY NoneAssumption DEF Init, ByManagers, Managers, OrgRoles
  <1>3. \A k \in DOMAIN keys : KeyRow(k)
    BY DEF Init
  <1>4. \A w \in Workers : Carries(w)
    BY DEF Init, Carries, CarriesKey, CarriesUser, Managing
  <1> QED BY <1>1, <1>2, <1>3, <1>4 DEF IInv

(* What a request has established survives the steps of the others. *)
LEMMA OthersStep ==
    ASSUME IInv, Grows, NEW v \in Workers, Still(v)
    PROVE  Carries(v)'
  <1>1. Typed /\ CarriesKey(v) /\ CarriesUser(v)
    BY DEF IInv, Carries
  <1>2. ASSUME NEW k \in DOMAIN keys, Owned(k)
        PROVE  /\ Owned(k)'
               /\ accounts'[keys'[k].account].owner =
                      accounts[keys[k].account].owner
    <2>1. KeyRow(k) /\ keys[k].account \in DOMAIN accounts
      BY DEF IInv, KeyRow
    <2>2. /\ keys'[k].tenant = keys[k].tenant
          /\ accounts'[keys'[k].account] = accounts[keys[k].account]
      BY <2>1 DEF Grows
    <2>3. /\ keys[k].tenant \in Tenants
          /\ accounts[keys[k].account].owner \in Users
      BY <1>1, <2>1, KeyTyped
    <2> QED BY <1>2, <2>2, <2>3 DEF Owned, Grows
  <1>3. dead'[v] \subseteq Revoked'
    BY <1>1 DEF CarriesKey, Still, Revoked, Grows
  <1>4. CarriesKey(v)'
    BY <1>1, <1>2, <1>3 DEF CarriesKey, Still, Grows
  <1>5. CarriesUser(v)'
    BY <1>1 DEF CarriesUser, Still, Grows, Managing
  <1> QED BY <1>4, <1>5 DEF Carries

(* A step that changes no row. *)
LEMMA QuietStep ==
    ASSUME IInv, UNCHANGED <<role, accounts, keys, managed>>, Typed',
           NEW w \in Workers, Carries(w)', \A v \in Workers \ {w} : Still(v)
    PROVE  IInv' /\ Grows
  <1>1. Grows
    BY DEF Grows
  <1>2. ByManagers'
    BY DEF IInv, ByManagers
  <1>3. \A k \in DOMAIN keys' : KeyRow(k)'
    BY DEF IInv, KeyRow
  <1>4. \A v \in Workers : Carries(v)'
    BY <1>1, OthersStep
  <1> QED BY <1>1, <1>2, <1>3, <1>4 DEF IInv

(* A row of a key is changed in its times only: it is used or revoked. *)
LEMMA RowStep ==
    ASSUME IInv, NEW k \in DOMAIN keys, NEW row \in Key,
           keys' = [keys EXCEPT ![k] = row],
           row.tenant = keys[k].tenant, row.account = keys[k].account,
           row.creator = keys[k].creator, row.scopes = keys[k].scopes,
           keys[k].used # None => row.used # None,
           keys[k].revoked # None => row.revoked = keys[k].revoked,
           UNCHANGED <<role, accounts, managed>>
    PROVE  /\ keys' \in Seq(Key) /\ Grows
           /\ keys'[k] = row
           /\ \A j \in DOMAIN keys' : KeyRow(j)'
           /\ \A j \in DOMAIN keys \ {k} : keys'[j] = keys[j]
  <1>1. keys \in Seq(Key) /\ k \in 1 .. Len(keys)
    BY LenProperties DEF IInv, Typed
  <1>2. /\ keys' \in Seq(Key) /\ Len(keys') = Len(keys)
        /\ \A j \in 1 .. Len(keys) : keys'[j] = IF j = k THEN row ELSE keys[j]
    BY <1>1, ExceptSeq
  <1>3. DOMAIN keys = 1 .. Len(keys) /\ DOMAIN keys' = 1 .. Len(keys)
    BY <1>1, <1>2, LenProperties
  <1>4. Grows
    BY <1>2, <1>3 DEF Grows
  <1>5. \A j \in DOMAIN keys' : KeyRow(j)'
    BY <1>2, <1>3 DEF IInv, KeyRow
  <1> QED BY <1>2, <1>3, <1>4, <1>5

LEMMA ManagersManage ==
    ASSUME NEW orgRole, MayManage(orgRole)
    PROVE  orgRole \in Managers
  BY DEF MayManage, Authorize, AllowedRoles, ManagerActions, StaffActions,
         PayerActions, Managers

(* A request ends, whatever it had established. *)
LEMMA EndStep ==
    ASSUME IInv, NEW w \in Workers, End(w)
    PROVE  IInv' /\ Grows
  <1>1. Typed'
    BY NumberAssumption DEF IInv, End, Typed, PCs, dbVars
  <1>2. Carries(w)'
    BY DEF IInv, End, Typed, Carries, CarriesKey, CarriesUser, Managing,
           dbVars
  <1>3. \A v \in Workers \ {w} : Still(v)
    BY DEF IInv, End, Typed, Still
  <1> QED BY <1>1, <1>2, <1>3, QuietStep DEF End, dbVars

LEMMA ReceiveStep ==
    ASSUME IInv, NEW w \in Workers, NEW r \in Requests, Receive(w, r)
    PROVE  IInv' /\ Grows
  <1> USE DEF Receive, Goto, dbVars, localVars, IInv
  <1>1. DOMAIN keys \subseteq Int
    BY LenProperties DEF Typed
  <1>2. Typed'
    BY <1>1 DEF Typed, PCs, Revoked
  <1>3. Carries(w)'
    <2>1. r.key # None => r.key \in KeyIds
      BY RequestAssumption
    <2>2. CarriesKey(w)'
      BY <2>1 DEF Typed, Carries, CarriesKey, CarriesUser, Revoked
    <2>3. CarriesUser(w)'
      BY DEF Typed, Carries, CarriesUser, Managing
    <2> QED BY <2>2, <2>3 DEF Carries
  <1>4. \A v \in Workers \ {w} : Still(v)
    BY DEF Typed, Still
  <1> QED BY <1>2, <1>3, <1>4, QuietStep

LEMMA FindKeyStep ==
    ASSUME IInv, NEW w \in Workers, FindKey(w)
    PROVE  IInv' /\ Grows
  <1> USE DEF FindKey, Goto, Respond, dbVars, history, IInv
  <1>1. Typed'
    BY DEF Typed, PCs, Carries, CarriesKey
  <1>2. Carries(w)'
    <2>1. /\ CarriesKey(w) /\ CarriesUser(w) /\ Revoked' = Revoked
          /\ pc[w] = "findKey" /\ principal[w] = None
      BY DEF Carries, CarriesUser, Revoked
    <2>2. /\ pc'[w] \in {"findOwner", "done"}
          /\ pc'[w] = "findOwner" => found'[w] \in DOMAIN keys \ Revoked
          /\ UNCHANGED <<req, principal, dead>>
      BY DEF Typed
    <2>3. CarriesKey(w)'
      BY <2>1, <2>2 DEF CarriesKey
    <2>4. CarriesUser(w)'
      BY <2>1, <2>2 DEF CarriesUser, Managing
    <2> QED BY <2>3, <2>4 DEF Carries
  <1>3. \A v \in Workers \ {w} : Still(v)
    BY DEF Typed, Still
  <1> QED BY <1>1, <1>2, <1>3, QuietStep

LEMMA FindOwnerStep ==
    ASSUME IInv, NEW w \in Workers, FindOwner(w)
    PROVE  IInv' /\ Grows
  <1> USE DEF FindOwner, Goto, Respond, dbVars, history, IInv
  <1>1. Typed'
    BY DEF Typed, PCs
  <1>2. Carries(w)'
    <2>1. CarriesKey(w) /\ CarriesUser(w) /\ Revoked' = Revoked
      BY DEF Carries, Revoked
    <2>2. /\ pc'[w] \in {"markUsed", "done"} /\ pc[w] = "findOwner"
          /\ pc'[w] = "markUsed" => Owned(found[w])
          /\ UNCHANGED <<req, found, principal, dead>>
      BY DEF Typed, Owned
    <2>3. CarriesKey(w)'
      BY <2>1, <2>2 DEF CarriesKey, Owned
    <2>4. CarriesUser(w)'
      BY <2>1, <2>2 DEF CarriesUser, Managing
    <2> QED BY <2>3, <2>4 DEF Carries
  <1>3. \A v \in Workers \ {w} : Still(v)
    BY DEF Typed, Still
  <1> QED BY <1>1, <1>2, <1>3, QuietStep

(* What is known of a key does not depend on the handler. *)
LEMMA HandlerStep ==
    ASSUME IInv, NEW w \in Workers,
           UNCHANGED <<role, accounts, keys, found, principal, dead>>,
           pc'[w] \notin {"findKey", "findOwner", "markUsed"}
    PROVE  CarriesKey(w)'
  <1>1. CarriesKey(w)
    BY DEF IInv, Carries
  <1>2. Revoked' = Revoked
    BY DEF Revoked
  <1> QED BY <1>1, <1>2 DEF CarriesKey, Owned

(* A handler that only reads. *)
LEMMA ReadStep ==
    ASSUME IInv, NEW w \in Workers,
           \/ Serve(w) \/ RefuseKey(w) \/ ReadMembership(w)
           \/ CheckOwner(w) \/ FindAccount(w)
    PROVE  IInv' /\ Grows
  <1> USE DEF Goto, Respond, dbVars, history, IInv
  <1>1. CASE Serve(w) \/ RefuseKey(w)
    <2>1. Typed'
      BY <1>1 DEF Serve, RefuseKey, Typed, PCs
    <2>2. Carries(w)'
      <3>1. CarriesKey(w)'
        BY <1>1, HandlerStep DEF Serve, RefuseKey, Typed
      <3> QED BY <1>1, <3>1 DEF Serve, RefuseKey, Typed, Carries, CarriesUser,
                  Managing
    <2>3. \A v \in Workers \ {w} : Still(v)
      BY <1>1 DEF Serve, RefuseKey, Typed, Still
    <2> QED BY <1>1, <2>1, <2>2, <2>3, QuietStep DEF Serve, RefuseKey
  <1>2. CASE ReadMembership(w)
    <2>0. /\ req[w] \in Requests
          /\ req[w].op \in {"create_account", "create_key", "revoke"}
          /\ principal[w] = None /\ req[w].key = None
          /\ req[w].user \in Users /\ req[w].tenant \in Tenants
          /\ UserOf(w) = req[w].user
      <3>1. /\ req[w] \in Requests
            /\ req[w].op \in {"create_account", "create_key", "revoke"}
        BY <1>2, RequestAssumption
        DEF ReadMembership, Ops, Carries, CarriesUser
      <3>2. principal[w] = None /\ req[w].key = None
        BY <1>2, <3>1 DEF ReadMembership, SessionOnly, Carries, CarriesUser
      <3>3. req[w].user \in Users /\ req[w].tenant \in Tenants
        BY <3>1, <3>2, RequestAssumption, NoneAssumption DEF KeyIds
      <3> QED BY <3>1, <3>2, <3>3 DEF UserOf
    <2>1. Typed'
      <3>1. pc' \in [Workers -> PCs]
        BY <1>2, <2>0 DEF ReadMembership, Typed, PCs
      <3>2. stamp' \in [Workers -> 0 .. MaxTime]
        BY <1>2 DEF ReadMembership, Typed
      <3> QED BY <1>2, <3>1, <3>2 DEF ReadMembership, Typed
    <2>2. CarriesKey(w)'
      BY <1>2, <2>0, HandlerStep DEF ReadMembership, Typed
    <2>3. CarriesUser(w)'
      <3>1. pc'[w] # "done" => <<req[w].tenant, req[w].user>> \in managed
        BY <1>2, <2>0, ManagersManage DEF ReadMembership, Typed, ByManagers
      <3> QED BY <1>2, <2>0, <3>1 DEF ReadMembership, Typed, Carries,
                  CarriesUser, Managing
    <2>4. \A v \in Workers \ {w} : Still(v)
      BY <1>2 DEF ReadMembership, Typed, Still
    <2> QED BY <1>2, <2>1, <2>2, <2>3, <2>4, QuietStep
            DEF ReadMembership, Carries
  <1>3. CASE CheckOwner(w)
    <2>1. Typed'
      BY <1>3 DEF CheckOwner, Typed, PCs
    <2>2. Carries(w)'
      <3>1. CarriesKey(w)'
        BY <1>3, HandlerStep DEF CheckOwner, Typed
      <3> QED BY <1>3, <3>1 DEF CheckOwner, Typed, Carries, CarriesUser,
                  Managing
    <2>3. \A v \in Workers \ {w} : Still(v)
      BY <1>3 DEF CheckOwner, Typed, Still
    <2> QED BY <1>3, <2>1, <2>2, <2>3, QuietStep DEF CheckOwner
  <1>4. CASE FindAccount(w)
    <2>1. Typed'
      BY <1>4 DEF FindAccount, Typed, PCs
    <2>2. Carries(w)'
      <3>1. CarriesKey(w)'
        BY <1>4, HandlerStep DEF FindAccount, Typed
      <3> QED BY <1>4, <3>1 DEF FindAccount, Visible, Typed, Carries,
                  CarriesUser, Managing
    <2>3. \A v \in Workers \ {w} : Still(v)
      BY <1>4 DEF FindAccount, Typed, Still
    <2> QED BY <1>4, <2>1, <2>2, <2>3, QuietStep DEF FindAccount
  <1> QED BY <1>1, <1>2, <1>3, <1>4

-----------------------------------------------------------------------------
(* A request holds the key it found until its scope is checked. *)
LEMMA MarkUsedStep ==
    ASSUME IInv, NEW w \in Workers, MarkUsed(w)
    PROVE  IInv' /\ Grows
  <1> DEFINE k == found[w]
             row == [keys[k] EXCEPT !.used = stamp[w]]
             p == [key |-> k, tenant |-> keys[k].tenant,
                   user |-> accounts[keys[k].account].owner]
  <1> USE DEF MarkUsed, Goto, Respond, history, IInv
  <1>1. /\ k \in DOMAIN keys /\ k \notin dead[w] /\ Owned(k)
        /\ k \in KeyIds /\ KeyRow(k)
    BY DEF Carries, CarriesKey, Typed
  <1>2. /\ keys[k] \in Key /\ keys[k].tenant \in Tenants
        /\ accounts[keys[k].account].owner \in Users
    BY <1>1, KeyTyped
  <1>3. stamp[w] \in 0 .. MaxTime /\ stamp[w] # None
    BY NoneAssumption DEF Typed
  <1>4. /\ row \in Key /\ keys' = [keys EXCEPT ![k] = row]
        /\ row.tenant = keys[k].tenant /\ row.account = keys[k].account
        /\ row.creator = keys[k].creator /\ row.scopes = keys[k].scopes
        /\ row.revoked = keys[k].revoked
        /\ row.used # None
    BY <1>2, <1>3 DEF Key
  <1>5. /\ keys' \in Seq(Key) /\ Grows /\ keys'[k] = row
        /\ \A j \in DOMAIN keys' : KeyRow(j)'
    <2>1. UNCHANGED <<role, accounts, managed>>
      OBVIOUS
    <2>2. IInv
      OBVIOUS
    <2> HIDE DEF row, k, MarkUsed, IInv
    <2> QED BY <1>1, <1>4, <2>1, <2>2, RowStep
  <1> HIDE DEF row, k
  <1>6. Typed'
    <2>1. \/ UNCHANGED principal
          \/ /\ p \in Principal
             /\ principal' = [principal EXCEPT ![w] = p]
      BY <1>1, <1>2 DEF Principal, k
    <2>2. principal' \in [Workers -> Principal \cup {None}]
      <3> HIDE DEF p
      <3> QED BY <2>1 DEF Typed
    <2> QED BY <1>5, <2>2 DEF Typed, PCs
  <1>7. ByManagers'
    BY DEF ByManagers
  <1>8. Carries(w)'
    <2>1. /\ k \in DOMAIN keys' /\ keys'[k].tenant = keys[k].tenant
          /\ keys'[k].account = keys[k].account /\ keys'[k].used # None
      BY <1>1, <1>4, <1>5 DEF Grows
    <2>2. Owned(k)'
      BY <1>1, <2>1 DEF Owned, k
    <2>3. dead'[w] \subseteq Revoked'
      <3>1. dead[w] \subseteq Revoked
        BY DEF Carries, CarriesKey
      <3>2. Revoked \subseteq Revoked' /\ dead' = dead
        BY <1>5 DEF Revoked, Grows
      <3> QED BY <3>1, <3>2
    <2>4. principal[w] = None
      BY DEF Carries, CarriesUser
    <2>5. CarriesKey(w)'
      <3>1. CASE principal'[w] = None
        BY <2>3, <3>1 DEF CarriesKey, Typed
      <3>2. CASE principal'[w] # None
        <4>1. principal'[w] = p
          BY <2>4, <3>2 DEF Typed, k
        <4>2. pc'[w] = "handler" /\ dead' = dead
          BY <2>4, <3>2 DEF Typed
        <4>3. /\ k \in DOMAIN keys' \ dead'[w] /\ keys'[k].used # None
              /\ role'[keys'[k].tenant][accounts'[keys'[k].account].owner]
                     # None
          BY <1>1, <2>1, <2>2, <4>2 DEF Owned, k
        <4>4. /\ keys'[k].tenant = keys[k].tenant
              /\ accounts'[keys'[k].account].owner =
                     accounts[keys[k].account].owner
          BY <2>1
        <4>5. p.key = k /\ p.tenant = keys[k].tenant
              /\ p.user = accounts[keys[k].account].owner
          OBVIOUS
        <4> HIDE DEF p
        <4> QED BY <2>3, <4>1, <4>2, <4>3, <4>4, <4>5
            DEF CarriesKey, Owned
      <3> QED BY <3>1, <3>2
    <2>6. /\ pc'[w] \in {"handler", "done"}
          /\ pc'[w] = "handler" => principal'[w] # None
      BY <1>1, <1>2, NoneAssumption DEF Typed, Principal, k
    <2>7. req[w] \in Requests /\ req[w].key # None
      <3>1. req[w] \in Requests /\ req[w].key \in KeyIds
        BY DEF Carries, CarriesKey, CarriesUser
      <3>2. KeyIds \subseteq Int
        BY DEF KeyIds
      <3> QED BY <3>1, <3>2, NoneAssumption
    <2>8. CarriesUser(w)'
      BY <2>6, <2>7 DEF CarriesUser, Managing
    <2> QED BY <2>5, <2>8 DEF Carries
  <1>9. \A v \in Workers \ {w} : Still(v)
    BY DEF Typed, Still
  <1>10. \A v \in Workers : Carries(v)'
    BY <1>5, <1>8, <1>9, OthersStep
  <1> QED BY <1>5, <1>6, <1>7, <1>10

LEMMA RevokeStep ==
    ASSUME IInv, NEW w \in Workers, Revoke(w)
    PROVE  IInv' /\ Grows
  <1> USE DEF Revoke, Respond, history, IInv
  <1>1. \A v \in Workers \ {w} : Still(v)
    BY DEF Typed, Still
  <1>2. pc'[w] = "done" /\ req'[w] \in Requests
    BY DEF Typed, Carries, CarriesUser
  <1>3. CarriesUser(w)'
    BY <1>2 DEF CarriesUser, Managing
  <1>4. ByManagers'
    BY DEF ByManagers
  <1>5. CASE keys' = keys
    <2>1. Typed'
      BY <1>5 DEF Typed, PCs
    <2>2. CarriesKey(w)'
      BY <1>2, <1>5, HandlerStep
    <2> QED BY <1>1, <1>3, <1>5, <2>1, <2>2, QuietStep DEF Carries
  <1>6. CASE keys' # keys
    <2> DEFINE k == req[w].target
               row == [keys[k] EXCEPT !.revoked =
                         FirstRevocation(@, stamp[w])]
    <2>1. k \in DOMAIN keys /\ KeyRow(k)
      BY <1>6
    <2>2. keys[k] \in Key
      BY <2>1, KeyTyped
    <2>3. stamp[w] \in 0 .. MaxTime
      BY DEF Typed
    <2>4. /\ row \in Key /\ keys' = [keys EXCEPT ![k] = row]
          /\ row.tenant = keys[k].tenant /\ row.account = keys[k].account
          /\ row.creator = keys[k].creator /\ row.scopes = keys[k].scopes
          /\ row.used = keys[k].used
          /\ keys[k].revoked # None => row.revoked = keys[k].revoked
      BY <1>6, <2>2, <2>3 DEF Key, FirstRevocation
    <2> HIDE DEF row, k
    <2>5. /\ keys' \in Seq(Key) /\ Grows
          /\ \A j \in DOMAIN keys' : KeyRow(j)'
      BY <2>1, <2>4, RowStep
    <2>6. Typed'
      BY <2>5 DEF Typed, PCs
    <2>7. CarriesKey(w)'
      <3>1. /\ dead'[w] \subseteq Revoked'
            /\ principal'[w] = principal[w] /\ principal[w] = None
        <4>1. dead'[w] \subseteq Revoked'
          BY <2>5 DEF Carries, CarriesKey, Revoked, Grows
        <4>2. principal[w] = None
          BY DEF Carries, CarriesUser, Managing
        <4> QED BY <4>1, <4>2
      <3> QED BY <1>2, <3>1 DEF CarriesKey
    <2>8. \A v \in Workers : Carries(v)'
      BY <1>1, <1>3, <2>5, <2>7, OthersStep DEF Carries
    <2> QED BY <1>4, <2>5, <2>6, <2>8
  <1> QED BY <1>5, <1>6

(* A service account or a key is added at the end of its table. *)
LEMMA InsertAccountStep ==
    ASSUME IInv, NEW w \in Workers, InsertAccount(w)
    PROVE  IInv' /\ Grows
  <1> DEFINE row == [tenant |-> req[w].tenant, owner |-> req[w].owner]
  <1> USE DEF InsertAccount, Respond, history, IInv
  <1>1. /\ pc[w] = "insertAccount" /\ req[w] \in Requests
        /\ req[w].op = "create_account"
    BY DEF Carries, CarriesUser
  <1>2. row \in Account
    BY <1>1, RequestAssumption DEF Account
  <1>3. accounts' = Append(accounts, row) /\ accounts \in Seq(Account)
    BY DEF Typed
  <1> HIDE DEF row
  <1>4. /\ accounts' \in Seq(Account)
        /\ \A i \in DOMAIN accounts :
               i \in DOMAIN accounts' /\ accounts'[i] = accounts[i]
    BY <1>2, <1>3, AppendProperties, LenProperties
  <1>5. Grows
    BY <1>4 DEF Grows
  <1>6. Typed'
    BY <1>4 DEF Typed, PCs
  <1>7. \A k \in DOMAIN keys' : KeyRow(k)'
    BY <1>4 DEF KeyRow
  <1>8. \A v \in Workers \ {w} : Still(v)
    BY DEF Typed, Still
  <1>9. Carries(w)'
    <2>1. pc'[w] = "done" /\ principal'[w] = None
      BY <1>1 DEF Typed, Carries, CarriesUser, Managing
    <2>2. dead'[w] \subseteq Revoked'
      BY DEF Carries, CarriesKey, Revoked
    <2> QED BY <1>1, <2>1, <2>2 DEF Carries, CarriesKey, CarriesUser, Managing
  <1>10. \A v \in Workers : Carries(v)'
    BY <1>5, <1>8, <1>9, OthersStep
  <1> QED BY <1>5, <1>6, <1>7, <1>10 DEF ByManagers

LEMMA InsertKeyStep ==
    ASSUME IInv, NEW w \in Workers, InsertKey(w)
    PROVE  IInv' /\ Grows
  <1> DEFINE row == [tenant |-> req[w].tenant, account |-> req[w].account,
                     creator |-> UserOf(w), scopes |-> req[w].scopes,
                     used |-> None, revoked |-> None]
             n == Len(keys)
  <1> USE DEF InsertKey, Respond, history, IInv
  <1>1. /\ pc[w] = "insertKey" /\ req[w] \in Requests
        /\ req[w].op = "create_key" /\ req[w].key = None
        /\ principal[w] = None /\ UserOf(w) = req[w].user
        /\ <<req[w].tenant, req[w].user>> \in managed
        /\ req[w].account \in DOMAIN accounts
        /\ accounts[req[w].account].tenant = req[w].tenant
    BY DEF Carries, CarriesUser, Managing, UserOf
  <1>2. row \in Key
    <2>1. /\ req[w].tenant \in Tenants /\ req[w].account \in AccountIds
          /\ req[w].scopes \in SUBSET Scopes \ {{}}
      BY <1>1, RequestAssumption
    <2>2. UserOf(w) \in Users
      BY <1>1 DEF Typed
    <2> QED BY <2>1, <2>2 DEF Key
  <1>3. keys' = Append(keys, row) /\ keys \in Seq(Key) /\ n \in Nat
    BY LenProperties DEF Typed
  <1>4. /\ row.tenant = req[w].tenant /\ row.account = req[w].account
        /\ row.creator = req[w].user
    BY <1>1
  <1> HIDE DEF row
  <1>5. /\ keys' \in Seq(Key) /\ Len(keys') = n + 1
        /\ \A i \in 1 .. n : keys'[i] = keys[i]
        /\ keys'[n + 1] = row
    BY <1>2, <1>3, AppendProperties
  <1>6. DOMAIN keys = 1 .. n /\ DOMAIN keys' = 1 .. n + 1
    BY <1>3, <1>5, LenProperties
  <1> HIDE DEF n
  <1>7. \A i \in DOMAIN keys : i \in DOMAIN keys' /\ keys'[i] = keys[i]
    BY <1>3, <1>5, <1>6
  <1>8. Grows
    BY <1>7 DEF Grows
  <1>9. Typed'
    BY <1>5 DEF Typed, PCs
  <1>10. ASSUME NEW i \in DOMAIN keys' PROVE KeyRow(i)'
    <2>1. CASE i \in DOMAIN keys
      BY <1>7, <2>1 DEF KeyRow
    <2>2. CASE i \notin DOMAIN keys
      <3>1. i = n + 1
        BY <1>3, <1>6, <2>2
      <3> QED BY <1>1, <1>4, <1>5, <3>1 DEF KeyRow
    <2> QED BY <2>1, <2>2
  <1>11. \A v \in Workers \ {w} : Still(v)
    BY DEF Typed, Still
  <1>12. Carries(w)'
    <2>1. pc'[w] = "done" /\ principal'[w] = None
      BY <1>1 DEF Typed
    <2>2. dead'[w] \subseteq Revoked'
      BY <1>7 DEF Carries, CarriesKey, Revoked
    <2> QED BY <1>1, <2>1, <2>2 DEF Carries, CarriesKey, CarriesUser, Managing
  <1>13. \A v \in Workers : Carries(v)'
    BY <1>8, <1>11, <1>12, OthersStep
  <1> QED BY <1>8, <1>9, <1>10, <1>13 DEF ByManagers

(* A role is granted or overwritten: nobody ceases to be a member. *)
LEMMA GrantStep ==
    ASSUME IInv, NEW g \in Grants, Grant(g)
    PROVE  IInv' /\ Grows
  <1> USE DEF Grant, localVars, IInv
  <1>1. /\ g.tenant \in Tenants /\ g.user \in Users
        /\ g.role \in OrgRoles /\ g.role # None
    BY GrantAssumption, NoneAssumption
  <1>2. \A t \in Tenants, u \in Users :
            role'[t][u] = IF t = g.tenant /\ u = g.user THEN g.role
                                                      ELSE role[t][u]
    BY <1>1 DEF Typed
  <1>3. managed \subseteq managed'
    OBVIOUS
  <1>4. Grows
    BY <1>1, <1>2, <1>3 DEF Grows
  <1>5. Typed'
    BY <1>1 DEF Typed
  <1>6. ByManagers'
    BY <1>2 DEF ByManagers
  <1>7. \A k \in DOMAIN keys' : KeyRow(k)'
    BY <1>3 DEF KeyRow
  <1>8. \A v \in Workers : Carries(v)'
    BY <1>4, OthersStep DEF Still
  <1> QED BY <1>4, <1>5, <1>6, <1>7, <1>8

LEMMA StepIInv == IInv /\ [Next]_vars => IInv' /\ Grows
  <1> SUFFICES ASSUME IInv, [Next]_vars PROVE IInv' /\ Grows
    OBVIOUS
  <1>1. ASSUME UNCHANGED <<role, accounts, keys, managed>>, Typed',
               UNCHANGED <<pc, req, found, principal, dead>>
        PROVE  IInv' /\ Grows
    <2>1. Grows
      BY <1>1 DEF Grows
    <2>2. \A v \in Workers : Carries(v)'
      BY <1>1, <2>1, OthersStep DEF Still
    <2> QED BY <1>1, <2>1, <2>2 DEF IInv, ByManagers, KeyRow
  <1>2. CASE UNCHANGED vars
    <2>1. Typed'
      BY <1>2 DEF IInv, Typed, vars, dbVars, localVars, history
    <2> QED BY <1>1, <1>2, <2>1 DEF vars, dbVars, localVars, history
  <1>3. CASE Tick
    <2>1. Typed'
      BY <1>3, NumberAssumption
      DEF IInv, Tick, Typed, dbVars, localVars, history
    <2> QED BY <1>1, <1>3, <2>1 DEF Tick, dbVars, localVars, history
  <1> QED
    BY <1>2, <1>3, ReceiveStep, FindKeyStep, FindOwnerStep, MarkUsedStep,
       ReadStep, InsertAccountStep, InsertKeyStep, RevokeStep, EndStep,
       GrantStep
    DEF Next, Finish, Die

LEMMA Invariance == Spec => []IInv
  BY InitIInv, StepIInv, PTL DEF Spec

-----------------------------------------------------------------------------
(* What a key lets in was granted by a manager of its tenant, through an   *)
(* account and an owner of it (authenticateApiKey).                        *)
THEOREM KeysServedAsGranted == Spec => []KeysServeAsGranted
  <1>1. IInv => KeysServeAsGranted
    <2> SUFFICES ASSUME IInv, NEW w \in Workers, principal[w] # None
                 PROVE  LET p == principal[w]
                            key == keys[p.key] IN
                        /\ <<p.tenant, key.creator>> \in managed
                        /\ accounts[key.account] =
                               [tenant |-> p.tenant, owner |-> p.user]
                        /\ role[p.tenant][p.user] # None
                        /\ key.used # None
      BY DEF KeysServeAsGranted
    <2> DEFINE k == principal[w].key
    <2>1. /\ k \in DOMAIN keys /\ KeyRow(k) /\ Owned(k)
          /\ keys[k].used # None
          /\ principal[w].tenant = keys[k].tenant
          /\ principal[w].user = accounts[keys[k].account].owner
      BY DEF IInv, Carries, CarriesKey
    <2>2. accounts[keys[k].account] =
              [tenant |-> keys[k].tenant,
               owner |-> accounts[keys[k].account].owner]
      BY <2>1, KeyTyped DEF IInv
    <2> QED BY <2>1, <2>2 DEF KeyRow, Owned
  <1> QED BY <1>1, Invariance, PTL

(* A key revoked when a request arrives lets it in nowhere (FindKey). *)
THEOREM RevocationBinds == Spec => []RevocationTakesEffect
  <1>1. IInv => RevocationTakesEffect
    BY DEF IInv, Carries, CarriesKey, RevocationTakesEffect
  <1> QED BY <1>1, Invariance, PTL

(* revokeApiKey keeps the first revocation; keys are never deleted, and    *)
(* markApiKeyUsed and revokeApiKey leave whose they are and what they      *)
(* allow.                                                                  *)
THEOREM RevocationLasts == Spec => RevocationStands
  <1>1. IInv /\ [Next]_vars =>
            [\A k \in DOMAIN keys :
               /\ k \in DOMAIN keys'
               /\ \A field \in {"tenant", "account", "creator", "scopes"} :
                      keys'[k][field] = keys[k][field]
               /\ accounts'[keys[k].account] = accounts[keys[k].account]
               /\ keys[k].revoked # None =>
                      keys'[k].revoked = keys[k].revoked]_vars
    <2> SUFFICES ASSUME IInv, [Next]_vars, NEW k \in DOMAIN keys
                 PROVE  /\ k \in DOMAIN keys'
                        /\ \A field \in {"tenant", "account", "creator",
                                         "scopes"} :
                               keys'[k][field] = keys[k][field]
                        /\ accounts'[keys[k].account]
                               = accounts[keys[k].account]
                        /\ keys[k].revoked # None =>
                               keys'[k].revoked = keys[k].revoked
      OBVIOUS
    <2>1. Grows
      BY StepIInv
    <2>2. keys[k].account \in DOMAIN accounts
      BY DEF IInv, KeyRow
    <2> QED BY <2>1, <2>2 DEF Grows
  <1> QED BY <1>1, Invariance, PTL DEF Spec, RevocationStands

(* Of all steps only revokeApiKey stops a key, in the tenant the caller    *)
(* has managed (ReadMembership, Visible).                                  *)
THEOREM TenantRevokes == Spec => RevokedByItsTenant
  <1>1. ASSUME IInv, [Next]_vars, NEW k \in DOMAIN keys,
               keys[k].revoked = None, keys'[k].revoked # None
        PROVE  \E w \in Workers :
                   /\ pc[w] = "revoke" /\ pc'[w] = "done"
                   /\ req[w].target = k
                   /\ <<keys[k].tenant, UserOf(w)>> \in managed
    <2>1. keys' # keys
      BY <1>1
    <2>2. PICK w \in Workers : MarkUsed(w) \/ InsertKey(w) \/ Revoke(w)
      BY <1>1, <2>1
      DEF Next, vars, dbVars, localVars, Receive, FindKey, FindOwner, Serve,
          RefuseKey, ReadMembership, CheckOwner, InsertAccount, FindAccount,
          Finish, Die, End, Grant, Tick
    <2>3. CASE MarkUsed(w)
      <3>1. keys'[k].revoked = keys[k].revoked
        BY <2>3 DEF MarkUsed
      <3> QED BY <1>1, <3>1
    <2>4. CASE InsertKey(w)
      <3> DEFINE row == [tenant |-> req[w].tenant, account |-> req[w].account,
                         creator |-> UserOf(w), scopes |-> req[w].scopes,
                         used |-> None, revoked |-> None]
      <3>1. row \in Key
        <4>1. /\ req[w] \in Requests /\ req[w].op = "create_key"
              /\ req[w].key = None /\ principal[w] = None
          BY <1>1, <2>4
          DEF IInv, Carries, CarriesUser, Managing, InsertKey
        <4>2. /\ req[w].tenant \in Tenants /\ req[w].account \in AccountIds
              /\ req[w].scopes \in SUBSET Scopes \ {{}}
          BY <4>1, RequestAssumption
        <4>3. UserOf(w) \in Users
          BY <1>1, <2>4, <4>1
          DEF IInv, Carries, CarriesUser, Managing, InsertKey, Typed, UserOf
        <4> QED BY <4>2, <4>3 DEF Key
      <3>2. keys' = Append(keys, row) /\ keys \in Seq(Key)
        BY <1>1, <2>4 DEF InsertKey, IInv, Typed
      <3> HIDE DEF row
      <3>3. keys'[k] = keys[k]
        BY <1>1, <3>1, <3>2, AppendProperties, LenProperties
      <3> QED BY <1>1, <3>3
    <2>5. CASE Revoke(w)
      <3>1. /\ pc[w] = "revoke" /\ pc'[w] = "done"
        BY <1>1, <2>5 DEF Revoke, Respond, IInv, Typed
      <3>2. req[w].target = k /\ keys[k].tenant = req[w].tenant
        BY <1>1, <2>1, <2>5 DEF Revoke, Visible
      <3>3. <<req[w].tenant, UserOf(w)>> \in managed
        BY <1>1, <3>1 DEF IInv, Carries, CarriesUser, Managing, UserOf
      <3> QED BY <3>1, <3>2, <3>3
    <2> QED BY <2>2, <2>3, <2>4, <2>5
  <1>2. IInv /\ [Next]_vars =>
            [\A k \in DOMAIN keys :
               keys[k].revoked = None /\ keys'[k].revoked # None =>
                 \E w \in Workers :
                     /\ pc[w] = "revoke" /\ pc'[w] = "done" /\ req[w].target = k
                     /\ <<keys[k].tenant, UserOf(w)>> \in managed]_vars
    BY <1>1
  <1> QED BY <1>2, Invariance, PTL DEF Spec, RevokedByItsTenant

(* Only a session comes to a write of the management routes. *)
THEOREM SessionsManage == Spec => ManagedBySessions
  <1>1. IInv => \A w \in Workers :
                  pc[w] \in {"insertAccount", "insertKey", "revoke"} =>
                      req[w].key = None
    BY DEF IInv, Carries, CarriesUser, Managing
  <1> QED BY <1>1, Invariance, PTL DEF ManagedBySessions
=============================================================================
