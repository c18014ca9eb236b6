-------------------------- MODULE TenantMembership --------------------------
(***************************************************************************)
(* Memberships of one tenant: creating the tenant, inviting, accepting.    *)
(*                                                                         *)
(* createInvite checks the inviter and inserts in two transactions.        *)
(* acceptInvite is one transaction of several statements in Postgres: it   *)
(* selects the invite without a lock, upserts the membership (which locks  *)
(* that row until the commit) and marks the invite accepted, whatever its  *)
(* state is by then.  In memory it is one step.  An email belongs to one   *)
(* user, so an invite is addressed to a user here.                         *)
(***************************************************************************)
EXTENDS Authorization, Integers, FiniteSets

CONSTANTS
    Workers, Users,
    Backends,      \* back ends to run on: "postgres", "memory"
    InviteRoles,   \* the roles invites are made for
    InviteTtl,     \* INVITE_TOKEN_TTL_HOURS, in clock units
    None,
    MaxTime,       \* bound: the clock stops here
    MaxInvites     \* bound: invites ever created

ASSUME BackendAssumption == Backends \subseteq {"postgres", "memory"}
ASSUME WorkerAssumption == IsFiniteSet(Workers)
ASSUME RoleAssumption == InviteRoles \subseteq OrgRoles
ASSUME NumberAssumption ==
    InviteTtl \in Nat /\ MaxTime \in Nat /\ MaxInvites \in Nat

InviteIds == 1 .. MaxInvites

\* A row of tenant_invites, and what POST /:tenantId/invites asks for.
InviteRow == [email : Users, role : InviteRoles, by : Users, expires : Nat,
              accepted : BOOLEAN]
InviteBody == [email : Users, role : InviteRoles]

ASSUME NoneAssumption ==
    None \notin OrgRoles \cup Users \cup Workers \cup InviteRow \cup InviteBody

VARIABLES
    backend,   \* DATABASE_URL decides it at start-up
    creator,   \* created_by_user_id of the tenants row; None before there is one
    role,      \* memberships: user -> role or None
    invites,   \* tenant_invites: id -> InviteRow or None
    lock,      \* membership row of each user: its lock holder or None
    now,
    pc,
    caller,    \* the user making each request
    wanted,    \* the invite a request makes: InviteBody or None
    target,    \* the invite a request accepts
    at,        \* the time an acceptance took
    accepted,  \* history: how often each invite was accepted
    managed    \* history: users who have been Owner or Admin

dbVars == <<role, invites, lock>>
localVars == <<caller, wanted, target, at>>
history == <<accepted, managed>>
vars == <<backend, creator, dbVars, now, pc, localVars, history>>

Goto(w, from, to) == pc[w] = from /\ pc' = [pc EXCEPT ![w] = to]

NextInvite == Cardinality({k \in InviteIds : invites[k] # None}) + 1

\* Mutant: the transaction is never ended.
EndKeepsLock(w) ==
    /\ pc' = [pc EXCEPT ![w] = "idle"]
    /\ caller' = [caller EXCEPT ![w] = None]
    /\ wanted' = [wanted EXCEPT ![w] = None]
    /\ target' = [target EXCEPT ![w] = 0]
    /\ at' = [at EXCEPT ![w] = 0]
    /\ UNCHANGED lock

\* The request is over; its transaction has released its lock.
End(w) ==
    /\ pc' = [pc EXCEPT ![w] = "idle"]
    /\ caller' = [caller EXCEPT ![w] = None]
    /\ wanted' = [wanted EXCEPT ![w] = None]
    /\ target' = [target EXCEPT ![w] = 0]
    /\ at' = [at EXCEPT ![w] = 0]
    /\ lock' = [u \in Users |-> IF lock[u] = w THEN None ELSE lock[u]]

Init ==
    /\ backend \in Backends
    /\ creator = None
    /\ role = [u \in Users |-> None]
    /\ invites = [k \in InviteIds |-> None]
    /\ lock = [u \in Users |-> None]
    /\ now = 0
    /\ pc = [w \in Workers |-> "idle"]
    /\ caller = [w \in Workers |-> None]
    /\ wanted = [w \in Workers |-> None]
    /\ target = [w \in Workers |-> 0]
    /\ at = [w \in Workers |-> 0]
    /\ accepted = [k \in InviteIds |-> 0]
    /\ managed = {}

SetRole(u, g) ==
    /\ role' = [role EXCEPT ![u] = g]
    /\ managed' = IF g \in Managers THEN managed \cup {u} ELSE managed

(* createTenantWithOwner: tenant and Owner membership in one transaction. *)
CreateTenant(u) ==
    /\ creator = None
    /\ creator' = u
    /\ SetRole(u, "Owner")
    /\ UNCHANGED <<backend, invites, lock, now, pc, localVars, accepted>>

-----------------------------------------------------------------------------
(* POST /:tenantId/invites *)

Invite(w, u, e, g) ==
    /\ Goto(w, "idle", "checkInviter")
    /\ NextInvite + Cardinality({v \in Workers : wanted[v] # None})
           <= MaxInvites
    /\ caller' = [caller EXCEPT ![w] = u]
    /\ wanted' = [wanted EXCEPT ![w] = [email |-> e, role |-> g]]
    /\ UNCHANGED <<backend, creator, dbVars, now, target, at, history>>

(* getMembership and the permission; 404 or 403 otherwise. *)
MayInvite(u) == role[u] # None /\ Authorize("members.invite", {role[u]}, {})

CheckInviter(w) ==
    /\ Goto(w, "checkInviter", "insertInvite")
    /\ MayInvite(caller[w])
    /\ UNCHANGED <<backend, creator, dbVars, now, localVars, history>>

RefuseInviter(w) ==
    /\ pc[w] = "checkInviter"
    /\ ~MayInvite(caller[w])
    /\ End(w)
    /\ UNCHANGED <<backend, creator, role, invites, now, history>>

InsertInvite(w) ==
    /\ pc[w] = "insertInvite"
    /\ invites' = [invites EXCEPT ![NextInvite] =
                     [email |-> wanted[w].email, role |-> wanted[w].role,
                      by |-> caller[w], expires |-> now + InviteTtl,
                      accepted |-> FALSE]]
    /\ End(w)
    /\ UNCHANGED <<backend, creator, role, now, history>>

-----------------------------------------------------------------------------
(* POST /invites/accept *)

Accept(w, u, k) ==
    /\ Goto(w, "idle", "find")
    /\ invites[k] # None
    /\ caller' = [caller EXCEPT ![w] = u]
    /\ target' = [target EXCEPT ![w] = k]
    /\ at' = [at EXCEPT ![w] = now]
    /\ UNCHANGED <<backend, creator, dbVars, now, wanted, history>>

\* Mutants: any user's email will do; an accepted invite is found again.
AcceptableByAnyone(k, u, t) == ~invites[k].accepted /\ invites[k].expires >= t
AcceptableAgain(k, u, t) == invites[k].expires >= t /\ invites[k].email = u

\* accepted_at IS NULL AND expires_at >= now, and the caller's email
Acceptable(k, u, t) ==
    /\ ~invites[k].accepted
    /\ invites[k].expires >= t
    /\ invites[k].email = u

FindInvite(w) ==
    /\ backend = "postgres"
    /\ Goto(w, "find", "upsert")
    /\ Acceptable(target[w], caller[w], at[w])
    /\ UNCHANGED <<backend, creator, dbVars, now, localVars, history>>

(* 400 INVITE_INVALID *)
RefuseInvite(w) ==
    /\ pc[w] = "find"
    /\ ~Acceptable(target[w], caller[w], at[w])
    /\ End(w)
    /\ UNCHANGED <<backend, creator, role, invites, now, history>>

(* INSERT ... ON CONFLICT DO UPDATE SET role: waits for, and takes, the    *)
(* membership row.                                                         *)
UpsertMembership(w) ==
    /\ Goto(w, "upsert", "mark")
    /\ lock[caller[w]] = None
    /\ lock' = [lock EXCEPT ![caller[w]] = w]
    /\ UNCHANGED <<backend, creator, role, invites, now, localVars, history>>

\* The invite gives its role to the caller and is marked accepted.
Redeem(w) ==
    LET k == target[w] IN
    /\ SetRole(caller[w], invites[k].role)
    /\ invites' = [invites EXCEPT ![k].accepted = TRUE]
    /\ accepted' = [accepted EXCEPT ![k] = @ + 1]

(* UPDATE tenant_invites ... WHERE id, and COMMIT *)
MarkAndCommit(w) ==
    /\ pc[w] = "mark"
    /\ Redeem(w)
    /\ End(w)
    /\ UNCHANGED <<backend, creator, now>>

(* The in-memory repository checks and writes in one step. *)
AcceptInMemory(w) ==
    /\ backend = "memory"
    /\ pc[w] = "find"
    /\ Acceptable(target[w], caller[w], at[w])
    /\ Redeem(w)
    /\ End(w)
    /\ UNCHANGED <<backend, creator, now>>

(* A statement fails or the process dies: the transaction rolls back. *)
Die(w) ==
    /\ backend = "postgres"
    /\ pc[w] # "idle"
    /\ End(w)
    /\ UNCHANGED <<backend, creator, role, invites, now, history>>

Tick ==
    /\ now < MaxTime
    /\ now' = now + 1
    /\ UNCHANGED <<backend, creator, dbVars, pc, localVars, history>>

Handle(w) ==
    \/ CheckInviter(w) \/ RefuseInviter(w) \/ InsertInvite(w)
    \/ FindInvite(w) \/ RefuseInvite(w) \/ UpsertMembership(w)
    \/ MarkAndCommit(w) \/ AcceptInMemory(w)

Next ==
    \/ Tick
    \/ \E u \in Users : CreateTenant(u)
    \/ \E w \in Workers :
           \/ \E u, e \in Users, g \in InviteRoles : Invite(w, u, e, g)
           \/ \E u \in Users, k \in InviteIds : Accept(w, u, k)
           \/ Handle(w) \/ Die(w)

(* Node runs every ready continuation; Postgres queues lock waiters. *)
Fairness ==
    \A w \in Workers : WF_vars(Handle(w)) /\ SF_vars(UpsertMembership(w))

Spec == Init /\ [][Next]_vars
FairSpec == Spec /\ Fairness

-----------------------------------------------------------------------------
TypeOK ==
    /\ backend \in Backends
    /\ creator \in Users \cup {None}
    /\ role \in [Users -> OrgRoles \cup {None}]
    /\ invites \in [InviteIds -> InviteRow \cup {None}]
    /\ lock \in [Users -> Workers \cup {None}]
    /\ now \in 0 .. MaxTime
    /\ pc \in [Workers -> {"idle", "checkInviter", "insertInvite", "find",
                           "upsert", "mark"}]
    /\ caller \in [Workers -> Users \cup {None}]
    /\ wanted \in [Workers -> InviteBody \cup {None}]
    /\ target \in [Workers -> InviteIds \cup {0}]
    /\ at \in [Workers -> 0 .. MaxTime]
    /\ accepted \in [InviteIds -> Nat]
    /\ managed \subseteq Users

\* Invite k is one user u has accepted.
AcceptedFor(u, k) ==
    invites[k] # None /\ invites[k].accepted /\ invites[k].email = u

(* Every membership is earned.  Who created the tenant is its Owner until  *)
(* an accepted invite says otherwise; any other role, an Owner's included, *)
(* was given by an accepted invite to that very user, for that very role,  *)
(* made by someone who was at some time Owner or Admin; also when requests *)
(* race and the inviter's role changes under way.                          *)
MembershipsEarned ==
    \A u \in Users : role[u] # None =>
        \/ /\ role[u] = "Owner" /\ creator = u
           /\ \A k \in InviteIds : ~AcceptedFor(u, k)
        \/ \E k \in InviteIds :
               /\ AcceptedFor(u, k) /\ invites[k].role = role[u]
               /\ invites[k].by \in managed

(* "Invite token is invalid, expired, or already accepted": an invite is   *)
(* accepted once in memory.  In Postgres overlapping transactions may each *)
(* find it open, but only those: it is accepted no more often than         *)
(* requests can overlap, however often it is tried.                        *)
InviteAcceptedOnce ==
    \A k \in InviteIds :
        accepted[k] <= IF backend = "memory" THEN 1 ELSE Cardinality(Workers)

(* No acceptance waits for a membership row forever. *)
RequestsAnswered == \A w \in Workers : pc[w] = "find" ~> pc[w] = "idle"
=============================================================================
