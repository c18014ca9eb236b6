------------------------------ MODULE MCApiKeys ------------------------------
(* Two tenants, managed by u1 and by u2: u1 makes an account for itself    *)
(* or for u2 and keys on it, u2 tries the same key and account from the    *)
(* other tenant; both may revoke, by session and with the key itself, and  *)
(* the key, a manager's if the account is u1's, tries to make another.     *)
EXTENDS ApiKeys, TLC

CONSTANTS w1, w2, u1, u2, t1, t2

SomeGrants ==
    {[tenant |-> t1, user |-> u1, role |-> "Admin"],
     [tenant |-> t1, user |-> u1, role |-> "Viewer"],
     [tenant |-> t1, user |-> u2, role |-> "Viewer"],
     [tenant |-> t2, user |-> u2, role |-> "Owner"]}

Session(u) == [user |-> u, key |-> None]
ByKey == [user |-> None, key |-> 1]

With(via, fields) == [f \in DOMAIN via \cup DOMAIN fields |->
                        IF f \in DOMAIN via THEN via[f] ELSE fields[f]]

CreateAccounts ==
    {[op |-> "create_account", tenant |-> t1, owner |-> u] : u \in Users}

ManagerRequests(t, grantable) ==
    {[op |-> "create_key", tenant |-> t, account |-> 1, scopes |-> s] :
        s \in grantable}
    \cup {[op |-> "revoke", tenant |-> t, target |-> 1]}

KeyRequests == {[op |-> "get"], [op |-> "post"]}

AllRequests ==
    {With(Session(u1), f) :
        f \in CreateAccounts \cup ManagerRequests(t1, {{"read"}, Scopes})}
    \cup {With(Session(u2), f) : f \in ManagerRequests(t2, {Scopes})}
    \cup {With(ByKey, f) : f \in KeyRequests \cup ManagerRequests(t1, {Scopes})}

MCSymmetry == Permutations(Workers)

\* What a request or a property will still use: states are identified up to the
\* rest.  "found" is the key of the request; of "dead" only that key is read.
MCView ==
    <<backend, dbVars, now, pc, principal, managed,
      [w \in Workers |->
         CASE pc[w] = "idle" -> None
           [] pc[w] = "done" -> req[w].op
           [] OTHER -> req[w]],
      [w \in Workers |-> IF pc[w] \in {"markUsed", "revoke"} THEN stamp[w] ELSE 0],
      [w \in Workers |-> /\ principal[w] # None \/ pc[w] \notin {"idle", "done"}
                         /\ req[w].key \in dead[w]]>>
=============================================================================
