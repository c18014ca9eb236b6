------------------------ MODULE TenantMembership_proofs ------------------------
(***************************************************************************)
(* For any users, requests and invites, on either back end: memberships    *)
(* are earned, and an invite is accepted no more often than requests can   *)
(* overlap, in memory once.                                                *)
(***************************************************************************)
EXTENDS TenantMembership, FiniteSetTheorems, TLAPS

\* Ids are given out in order.
Filled ==
    \E n \in 0 .. MaxInvites :
        \A k \in InviteIds : invites[k] # None <=> k <= n

\* Whoever has a manager's role, has made an invite, or has passed the check
\* of createInvite, is one who has been Owner or Admin.
ByManagers ==
    /\ \A u \in Users : role[u] \in Managers => u \in managed
    /\ \A k \in InviteIds : invites[k] # None => invites[k].by \in managed
    /\ \A w \in Workers : pc[w] = "insertInvite" => caller[w] \in managed

\* What a request carries: a new invite, or an invite there is, which is the
\* caller's own once it was found.
Carries(w) ==
    /\ pc[w] # "idle" => caller[w] \in Users
    /\ pc[w] \in {"checkInviter", "insertInvite"} => wanted[w] # None
    /\ pc[w] \in {"find", "upsert", "mark"} =>
           target[w] \in InviteIds /\ invites[target[w]] # None
    /\ pc[w] \in {"upsert", "mark"} => invites[target[w]].email = caller[w]

\* Before the tenant is created it has no members.
Founded ==
    creator = None => managed = {} /\ \A u \in Users : role[u] = None

\* Acceptances of invite k that found it open and have yet to mark it.
InFlight(k) == {w \in Workers : pc[w] \in {"upsert", "mark"} /\ target[w] = k}

\* An accepted invite is marked so.  Those that found it open, counted with
\* those that have marked it, were under way at once.  In memory an
\* acceptance is one step.
Counted ==
    /\ \A k \in InviteIds :
           /\ accepted[k] # 0 => invites[k] # None /\ invites[k].accepted
           /\ accepted[k] + Cardinality(InFlight(k)) <= Cardinality(Workers)
    /\ backend = "memory" =>
           /\ \A w \in Workers : pc[w] \notin {"upsert", "mark"}
           /\ \A k \in InviteIds : accepted[k] <= 1

IInv ==
    /\ TypeOK /\ Filled /\ Founded /\ ByManagers /\ MembershipsEarned /\ Counted
    /\ \A w \in Workers : Carries(w)

-----------------------------------------------------------------------------
(* The id of a new invite is not in use. *)
LEMMA NextInviteFresh ==
    ASSUME TypeOK, Filled
    PROVE  \E n \in 0 .. MaxInvites :
               /\ NextInvite = n + 1
               /\ \A k \in InviteIds : invites[k] # None <=> k <= n
  <1>1. PICK n \in 0 .. MaxInvites :
            \A k \in InviteIds : invites[k] # None <=> k <= n
    BY DEF Filled
  <1>2. {k \in InviteIds : invites[k] # None} = 1 .. n
    BY <1>1, NumberAssumption DEF InviteIds
  <1>3. Cardinality(1 .. n) = n
    BY <1>1, NumberAssumption, FS_Interval
  <1> QED BY <1>1, <1>2, <1>3 DEF NextInvite

(* A caller who may invite is a manager (POLICY_RULES["members.invite"]). *)
LEMMA InvitersManage ==
    ASSUME NEW u, MayInvite(u)
    PROVE  role[u] \in Managers
  BY DEF MayInvite, Authorize, AllowedRoles, ManagerActions, StaffActions,
         PayerActions, Managers

LEMMA InitIInv == Init => IInv
  <1> SUFFICES ASSUME Init PROVE IInv
    OBVIOUS
  <1>1. TypeOK
    BY NumberAssumption DEF Init, TypeOK, InviteIds
  <1>2. Filled
    <2>1. 0 \in 0 .. MaxInvites /\ \A k \in InviteIds : ~(k <= 0)
      BY NumberAssumption DEF InviteIds
    <2>2. \A k \in InviteIds : invites[k] = None
      BY DEF Init
    <2> QED BY <2>1, <2>2 DEF Filled
  <1>3. ByManagers
    BY NoneAssumption DEF Init, ByManagers, Managers, OrgRoles
  <1>4. MembershipsEarned
    BY DEF Init, MembershipsEarned
  <1>5. Counted
    <2>1. \A k \in InviteIds : InFlight(k) = {} /\ accepted[k] = 0
      BY DEF Init, InFlight
    <2>2. Cardinality({}) = 0 /\ Cardinality(Workers) \in Nat
      BY WorkerAssumption, FS_EmptySet, FS_CardinalityType
    <2> QED BY <2>1, <2>2 DEF Init, Counted
  <1>6. Founded /\ \A w \in Workers : Carries(w)
    BY DEF Init, Founded, Carries
  <1> QED BY <1>1, <1>2, <1>3, <1>4, <1>5, <1>6 DEF IInv

(* No more acceptances are under way than there are requests. *)
LEMMA InFlightFits ==
    ASSUME NEW k
    PROVE  /\ InFlight(k) \in SUBSET Workers /\ IsFiniteSet(InFlight(k))
           /\ InFlight(k)' \in SUBSET Workers /\ IsFiniteSet(InFlight(k)')
           /\ Cardinality(InFlight(k)) \in Nat
           /\ Cardinality(InFlight(k)') \in Nat
           /\ Cardinality(Workers) \in Nat
           /\ Cardinality(InFlight(k)') <= Cardinality(Workers)
           /\ InFlight(k)' \subseteq InFlight(k) =>
                  Cardinality(InFlight(k)') <= Cardinality(InFlight(k))
  <1>1. InFlight(k) \in SUBSET Workers /\ InFlight(k)' \in SUBSET Workers
    BY DEF InFlight
  <1>2. IsFiniteSet(InFlight(k)) /\ IsFiniteSet(InFlight(k)')
    BY <1>1, WorkerAssumption, FS_Subset
  <1>3. Cardinality(InFlight(k)') <= Cardinality(Workers)
    BY <1>1, WorkerAssumption, FS_Subset
  <1>4. InFlight(k)' \subseteq InFlight(k) =>
            Cardinality(InFlight(k)') <= Cardinality(InFlight(k))
    BY <1>2, FS_Subset
  <1> QED BY <1>1, <1>2, <1>3, <1>4, WorkerAssumption, FS_CardinalityType

(* A request that ends carries nothing; the others are as they were. *)
LEMMA EndFacts ==
    ASSUME TypeOK, NEW w \in Workers, End(w)
    PROVE  /\ pc' \in [Workers -> {"idle", "checkInviter", "insertInvite",
                                   "find", "upsert", "mark"}]
           /\ caller' \in [Workers -> Users \cup {None}]
           /\ wanted' \in [Workers -> InviteBody \cup {None}]
           /\ target' \in [Workers -> InviteIds \cup {0}]
           /\ at' \in [Workers -> 0 .. MaxTime]
           /\ lock' \in [Users -> Workers \cup {None}]
           /\ pc'[w] = "idle"
           /\ \A v \in Workers \ {w} :
                  /\ pc'[v] = pc[v] /\ caller'[v] = caller[v]
                  /\ wanted'[v] = wanted[v] /\ target'[v] = target[v]
  BY NumberAssumption DEF TypeOK, End

(* A step that changes no row and lets a request go on, or end. *)
LEMMA QuietStep ==
    ASSUME IInv, TypeOK', UNCHANGED <<backend, creator, role, invites, history>>,
           NEW w \in Workers, Carries(w)',
           pc'[w] = "insertInvite" => caller'[w] \in managed,
           pc'[w] \in {"upsert", "mark"} =>
               /\ backend = "postgres"
               /\ \/ accepted[target'[w]] = 0
                  \/ /\ pc[w] \in {"upsert", "mark"}
                     /\ target'[w] = target[w],
           \A v \in Workers \ {w} :
               /\ pc'[v] = pc[v] /\ caller'[v] = caller[v]
               /\ wanted'[v] = wanted[v] /\ target'[v] = target[v]
    PROVE  IInv'
  <1>1. Filled'
    BY DEF IInv, Filled
  <1>2. ByManagers'
    BY DEF IInv, ByManagers, history
  <1>3. MembershipsEarned'
    BY DEF IInv, MembershipsEarned, AcceptedFor, history
  <1>4. Counted'
    <2>1. ASSUME NEW k \in InviteIds
          PROVE  accepted[k] + Cardinality(InFlight(k)') <= Cardinality(Workers)
      <3>1. accepted[k] \in Nat
        BY DEF IInv, TypeOK
      <3>2. accepted[k] = 0 \/ InFlight(k)' \subseteq InFlight(k)
        BY DEF InFlight
      <3> QED BY <3>1, <3>2, InFlightFits DEF IInv, Counted
    <2> QED BY <2>1 DEF IInv, Counted, history
  <1>5. \A v \in Workers : Carries(v)'
    BY DEF IInv, Carries
  <1>6. Founded'
    BY DEF IInv, Founded, history
  <1> QED BY <1>1, <1>2, <1>3, <1>4, <1>5, <1>6 DEF IInv

(* An invite is redeemed by the user it is for. *)
LEMMA RedeemStep ==
    ASSUME IInv, NEW w \in Workers, Redeem(w), End(w),
           UNCHANGED <<backend, creator, now>>,
           pc[w] \in {"find", "mark"},
           invites[target[w]].email = caller[w],
           pc[w] = "mark" \/ ~invites[target[w]].accepted
    PROVE  IInv'
  <1> DEFINE k == target[w]
             u == caller[w]
  <1>1. /\ TypeOK /\ Carries(w)
        /\ u \in Users /\ k \in InviteIds /\ invites[k] \in InviteRow
        /\ invites[k].by \in managed
    BY DEF IInv, Carries, TypeOK, ByManagers
  <1>2. /\ role' = [role EXCEPT ![u] = invites[k].role]
        /\ managed \subseteq managed' /\ managed' \subseteq Users
        /\ invites[k].role \in Managers => u \in managed'
    BY <1>1 DEF Redeem, SetRole, TypeOK
  <1>3. /\ invites' = [invites EXCEPT ![k].accepted = TRUE]
        /\ accepted' = [accepted EXCEPT ![k] = @ + 1]
    BY DEF Redeem
  <1>4. /\ invites' \in [InviteIds -> InviteRow \cup {None}]
        /\ invites'[k] \in InviteRow /\ invites'[k].accepted
        /\ \A f \in {"email", "role", "by"} : invites'[k][f] = invites[k][f]
        /\ \A j \in InviteIds \ {k} : invites'[j] = invites[j]
    BY <1>1, <1>3 DEF TypeOK, InviteRow
  <1>5. \A j \in InviteIds :
            /\ invites'[j] # None <=> invites[j] # None
            /\ invites'[j].email = invites[j].email
            /\ invites'[j].role = invites[j].role
            /\ invites'[j].by = invites[j].by
            /\ invites[j].accepted => invites'[j].accepted
    BY <1>1, <1>4, NoneAssumption
  <1>6. TypeOK'
    <2>1. invites[k].role \in OrgRoles
      BY <1>1, RoleAssumption DEF InviteRow
    <2>2. role' \in [Users -> OrgRoles \cup {None}]
      BY <1>1, <1>2, <2>1 DEF TypeOK
    <2>3. accepted' \in [InviteIds -> Nat]
      BY <1>1, <1>3 DEF TypeOK
    <2> QED BY <1>1, <1>2, <1>4, <2>2, <2>3, EndFacts DEF TypeOK
  <1>7. Filled'
    BY <1>5 DEF IInv, Filled
  <1>8. ByManagers'
    BY <1>1, <1>2, <1>5, EndFacts DEF IInv, ByManagers, TypeOK
  <1>9. MembershipsEarned'
    <2> SUFFICES ASSUME NEW v \in Users, role'[v] # None
                 PROVE  \/ /\ role'[v] = "Owner" /\ creator' = v
                           /\ \A j \in InviteIds : ~AcceptedFor(v, j)'
                        \/ \E j \in InviteIds :
                               /\ AcceptedFor(v, j)'
                               /\ invites'[j].role = role'[v]
                               /\ invites'[j].by \in managed'
      BY DEF MembershipsEarned
    <2>1. CASE v = u
      <3>1. role'[v] = invites[k].role
        BY <1>1, <1>2, <2>1 DEF TypeOK
      <3> QED BY <1>1, <1>2, <1>4, <1>5, <2>1, <3>1, NoneAssumption
              DEF AcceptedFor
    <2>2. CASE v # u
      <3>1. role'[v] = role[v]
        BY <1>1, <1>2, <2>2 DEF TypeOK
      <3>2. \A j \in InviteIds : AcceptedFor(v, j)' <=> AcceptedFor(v, j)
        BY <1>1, <1>4, <1>5, <2>2 DEF AcceptedFor
      <3>3. CASE role[v] = "Owner" /\ creator = v
                 /\ \A j \in InviteIds : ~AcceptedFor(v, j)
        BY <3>1, <3>2, <3>3
      <3>4. CASE \E j \in InviteIds :
                     /\ AcceptedFor(v, j) /\ invites[j].role = role[v]
                     /\ invites[j].by \in managed
        BY <1>2, <1>5, <3>1, <3>2, <3>4
      <3> QED BY <3>1, <3>3, <3>4 DEF IInv, MembershipsEarned
    <2> QED BY <2>1, <2>2
  <1>10. Counted'
    <2> PICK c \in InviteIds : c = k
      BY <1>1
    <2> HIDE DEF k
    <2>0. c = target[w]
      BY DEF k
    <2>1. accepted'[c] = accepted[c] + 1 /\ accepted[c] \in Nat
      BY <1>1, <1>3 DEF TypeOK
    <2>2. ~invites[c].accepted => accepted[c] = 0
      BY <1>1 DEF IInv, Counted
    <2>3. ASSUME NEW j \in InviteIds
          PROVE  InFlight(j)' = InFlight(j) \ {w}
      BY <1>1, EndFacts DEF InFlight
    <2>4. accepted'[c] + Cardinality(InFlight(c)') <= Cardinality(Workers)
      <3>1. /\ IsFiniteSet(InFlight(c)) /\ IsFiniteSet(InFlight(c)')
            /\ Cardinality(InFlight(c)) \in Nat
            /\ Cardinality(InFlight(c)') \in Nat
            /\ InFlight(c)' \subseteq Workers /\ Cardinality(Workers) \in Nat
        BY InFlightFits
      <3>2. CASE pc[w] = "mark"
        <4>1. w \in InFlight(c)
          BY <2>0, <3>2 DEF InFlight
        <4>2. Cardinality(InFlight(c)') = Cardinality(InFlight(c)) - 1
          BY <2>3, <3>1, <4>1, FS_RemoveElement
        <4> QED BY <2>1, <3>1, <4>2 DEF IInv, Counted
      <3>3. CASE ~invites[c].accepted
        <4>1. w \notin InFlight(c)'
          BY <2>3
        <4>2. Cardinality(InFlight(c)' \cup {w}) = Cardinality(InFlight(c)') + 1
          BY <3>1, <4>1, FS_AddElement
        <4>3. Cardinality(InFlight(c)' \cup {w}) <= Cardinality(Workers)
          <5>1. InFlight(c)' \cup {w} \in SUBSET Workers
            BY <3>1
          <5> QED BY <5>1, WorkerAssumption, FS_Subset
        <4> QED BY <2>1, <2>2, <3>1, <3>3, <4>2, <4>3
      <3> QED BY <2>0, <3>2, <3>3
    <2>5. ASSUME NEW j \in InviteIds \ {c}
          PROVE  /\ accepted'[j] = accepted[j]
                 /\ accepted'[j] + Cardinality(InFlight(j)')
                        <= Cardinality(Workers)
      <3>1. accepted'[j] = accepted[j] /\ accepted[j] \in Nat
        BY <1>1, <1>3 DEF TypeOK
      <3> QED BY <2>3, <3>1, InFlightFits DEF IInv, Counted
    <2>6. \A j \in InviteIds : accepted'[j] # 0 =>
              invites'[j] # None /\ invites'[j].accepted
      <3>1. invites'[c] # None /\ invites'[c].accepted
        BY <1>4, NoneAssumption
      <3> QED BY <1>4, <2>5, <3>1 DEF IInv, Counted
    <2>7. backend = "memory" =>
              /\ \A v \in Workers : pc'[v] \notin {"upsert", "mark"}
              /\ \A j \in InviteIds : accepted'[j] <= 1
      <3> SUFFICES ASSUME backend = "memory"
                   PROVE  /\ \A v \in Workers : pc'[v] \notin {"upsert", "mark"}
                          /\ \A j \in InviteIds : accepted'[j] <= 1
        OBVIOUS
      <3>1. \A v \in Workers : pc'[v] \notin {"upsert", "mark"}
        BY <1>1, EndFacts DEF IInv, Counted
      <3>2. accepted'[c] = 1
        BY <2>0, <2>1, <2>2 DEF IInv, Counted
      <3> QED BY <2>5, <3>1, <3>2 DEF IInv, Counted
    <2>8. backend' = backend
      OBVIOUS
    <2>9. \A j \in InviteIds :
              accepted'[j] + Cardinality(InFlight(j)') <= Cardinality(Workers)
      BY <2>4, <2>5
    <2> QED BY <2>6, <2>7, <2>8, <2>9 DEF Counted
  <1>11. \A v \in Workers : Carries(v)'
    BY <1>1, <1>5, EndFacts DEF IInv, Carries
  <1>12. Founded'
    BY <1>1 DEF IInv, Founded
  <1> QED BY <1>6, <1>7, <1>8, <1>9, <1>10, <1>11, <1>12 DEF IInv

(* The row of a new invite, by a manager, where there was none. *)
LEMMA InsertStep ==
    ASSUME IInv, NEW w \in Workers, InsertInvite(w)
    PROVE  IInv'
  <1>1. PICK n \in 0 .. MaxInvites :
            /\ NextInvite = n + 1
            /\ \A k \in InviteIds : invites[k] # None <=> k <= n
    BY NextInviteFresh DEF IInv
  <1> DEFINE i == n + 1
             row == [email |-> wanted[w].email, role |-> wanted[w].role,
                     by |-> caller[w], expires |-> now + InviteTtl,
                     accepted |-> FALSE]
  <1>2. /\ TypeOK /\ pc[w] = "insertInvite"
        /\ caller[w] \in Users /\ caller[w] \in managed
        /\ wanted[w] \in InviteBody
    BY DEF IInv, InsertInvite, Carries, ByManagers, TypeOK
  <1>3. row \in InviteRow /\ row # None
    <2>1. now + InviteTtl \in Nat
      BY <1>2, NumberAssumption DEF TypeOK
    <2>2. wanted[w].email \in Users /\ wanted[w].role \in InviteRoles
      BY <1>2 DEF InviteBody
    <2>3. row \in InviteRow
      BY <1>2, <2>1, <2>2 DEF InviteRow
    <2> QED BY <2>3, NoneAssumption
  <1>4. invites' = [invites EXCEPT ![i] = row]
    BY <1>1 DEF InsertInvite
  <1>5. /\ invites' \in [InviteIds -> InviteRow \cup {None}]
        /\ \A k \in InviteIds : k = i => invites'[k] = row /\ invites[k] = None
        /\ \A k \in InviteIds : k # i => invites'[k] = invites[k]
    <2> HIDE DEF row
    <2>1. invites \in [InviteIds -> InviteRow \cup {None}]
      BY <1>2 DEF TypeOK
    <2>2. i \in InviteIds => invites[i] = None
      BY <1>1 DEF InviteIds
    <2> QED BY <1>3, <1>4, <2>1, <2>2
  <1>6. UNCHANGED <<backend, creator, role, now, accepted, managed>>
    BY DEF InsertInvite, history
  <1>7. TypeOK'
    BY <1>2, <1>5, <1>6, EndFacts DEF InsertInvite, TypeOK
  <1>8. Filled'
    <2>1. CASE n = MaxInvites
      BY <1>1, <1>5, <2>1, NumberAssumption DEF Filled, InviteIds
    <2>2. CASE n # MaxInvites
      <3>1. n + 1 \in 0 .. MaxInvites
        BY <1>1, <2>2, NumberAssumption
      <3>2. \A k \in InviteIds : invites'[k] # None <=> k <= n + 1
        BY <1>1, <1>3, <1>5 DEF InviteIds
      <3> QED BY <3>1, <3>2 DEF Filled
    <2> QED BY <2>1, <2>2
  <1>9. ByManagers'
    BY <1>2, <1>5, <1>6, EndFacts DEF IInv, InsertInvite, ByManagers
  <1>10. MembershipsEarned'
    <2>1. ASSUME NEW u \in Users, NEW k \in InviteIds
          PROVE  AcceptedFor(u, k)' <=> AcceptedFor(u, k)
      BY <1>5 DEF AcceptedFor
    <2>2. \A u \in Users, k \in InviteIds :
              AcceptedFor(u, k) => invites'[k] = invites[k]
      BY <1>5 DEF AcceptedFor
    <2> QED BY <1>6, <2>1, <2>2 DEF IInv, MembershipsEarned
  <1>11. Counted'
    <2>1. ASSUME NEW k \in InviteIds
          PROVE  accepted[k] + Cardinality(InFlight(k)') <= Cardinality(Workers)
      <3>1. InFlight(k)' \subseteq InFlight(k)
        BY <1>2, EndFacts DEF InsertInvite, InFlight
      <3>2. accepted[k] \in Nat
        BY <1>2 DEF TypeOK
      <3> QED BY <3>1, <3>2, InFlightFits DEF IInv, Counted
    <2>2. \A v \in Workers : pc'[v] = pc[v] \/ pc'[v] = "idle"
      BY <1>2, EndFacts DEF InsertInvite
    <2> QED BY <1>5, <1>6, <2>1, <2>2 DEF IInv, Counted
  <1>12. \A v \in Workers : Carries(v)'
    <2>1. \A k \in InviteIds : invites[k] # None => invites'[k] = invites[k]
      BY <1>5
    <2> SUFFICES ASSUME NEW v \in Workers \ {w} PROVE Carries(v)'
      BY <1>2, EndFacts DEF InsertInvite, Carries
    <2>2. /\ pc'[v] = pc[v] /\ caller'[v] = caller[v]
          /\ wanted'[v] = wanted[v] /\ target'[v] = target[v]
      BY <1>2, EndFacts DEF InsertInvite
    <2> QED BY <2>1, <2>2 DEF IInv, Carries
  <1>13. Founded'
    BY <1>6 DEF IInv, Founded
  <1> QED BY <1>7, <1>8, <1>9, <1>10, <1>11, <1>12, <1>13 DEF IInv

LEMMA StepIInv == IInv /\ [Next]_vars => IInv'
  <1> SUFFICES ASSUME IInv, [Next]_vars PROVE IInv'
    OBVIOUS
  <1> USE DEF IInv
  <1>1. CASE UNCHANGED vars
    <2> USE <1>1 DEF vars, dbVars, localVars, history
    <2>1. TypeOK' /\ Filled' /\ Founded' /\ ByManagers'
      BY DEF TypeOK, Filled, Founded, ByManagers
    <2>2. MembershipsEarned' /\ Counted' /\ \A w \in Workers : Carries(w)'
      BY DEF MembershipsEarned, AcceptedFor, Counted, InFlight, Carries
    <2> QED BY <2>1, <2>2
  <1>2. CASE Tick
    <2>1. TypeOK'
      BY <1>2, NumberAssumption DEF Tick, TypeOK, dbVars, localVars, history
    <2> QED BY <1>2, <2>1 DEF Tick, dbVars, localVars, history, Filled,
                Founded, ByManagers, MembershipsEarned, AcceptedFor, Counted,
                InFlight, Carries
  <1>3. ASSUME NEW u \in Users, CreateTenant(u) PROVE IInv'
    <2>1. /\ role' = [role EXCEPT ![u] = "Owner"]
          /\ managed' = managed \cup {u}
          /\ creator = None /\ creator' = u
          /\ UNCHANGED <<backend, invites, lock, now, pc, caller, wanted,
                         target, at, accepted>>
      BY <1>3 DEF CreateTenant, SetRole, Managers, localVars
    <2>2. TypeOK'
      BY <2>1 DEF TypeOK, OrgRoles
    <2>3. ByManagers'
      BY <2>1 DEF ByManagers, TypeOK
    <2>4. MembershipsEarned'
      <3>1. \A k \in InviteIds : invites'[k] = None
        BY <2>1 DEF Founded, ByManagers
      <3>2. \A v \in Users \ {u} : role'[v] = None
        BY <2>1 DEF Founded, TypeOK
      <3>3. role'[u] = "Owner" /\ creator' = u
        BY <2>1 DEF TypeOK
      <3>4. \A v \in Users, k \in InviteIds : ~AcceptedFor(v, k)'
        BY <3>1 DEF AcceptedFor
      <3> QED BY <3>2, <3>3, <3>4 DEF MembershipsEarned
    <2>5. Founded' /\ Counted'
      BY <2>1, NoneAssumption DEF Founded, Counted, InFlight
    <2> QED BY <2>1, <2>2, <2>3, <2>4, <2>5 DEF Filled, Carries
  <1>4. ASSUME NEW w \in Workers, NEW u \in Users, NEW e \in Users,
               NEW g \in InviteRoles, Invite(w, u, e, g)
        PROVE  IInv'
    <2>1. [email |-> e, role |-> g] \in InviteBody
      BY DEF InviteBody
    <2>2. TypeOK'
      BY <1>4, <2>1 DEF Invite, Goto, TypeOK, dbVars, history
    <2>3. Carries(w)'
      BY <1>4, <2>1, NoneAssumption DEF Invite, Goto, Carries, TypeOK
    <2> QED BY <1>4, <2>2, <2>3, QuietStep
            DEF Invite, Goto, TypeOK, dbVars, history
  <1>5. ASSUME NEW w \in Workers, NEW u \in Users, NEW k \in InviteIds,
               Accept(w, u, k)
        PROVE  IInv'
    <2>1. TypeOK'
      BY <1>5 DEF Accept, Goto, TypeOK, dbVars, history
    <2>2. Carries(w)'
      BY <1>5 DEF Accept, Goto, Carries, TypeOK, dbVars
    <2> QED BY <1>5, <2>1, <2>2, QuietStep
            DEF Accept, Goto, TypeOK, dbVars, history
  <1>6. ASSUME NEW w \in Workers, CheckInviter(w) PROVE IInv'
    <2>1. TypeOK'
      BY <1>6 DEF CheckInviter, Goto, TypeOK, dbVars, localVars, history
    <2>2. Carries(w)'
      BY <1>6 DEF CheckInviter, Goto, Carries, TypeOK, dbVars, localVars
    <2>3. caller[w] \in managed
      BY <1>6, InvitersManage DEF CheckInviter, Goto, Carries, ByManagers
    <2> QED BY <1>6, <2>1, <2>2, <2>3, QuietStep
            DEF CheckInviter, Goto, TypeOK, dbVars, localVars, history
  <1>7. ASSUME NEW w \in Workers, End(w),
               UNCHANGED <<backend, creator, role, invites, now, history>>
        PROVE  IInv'
    <2>1. TypeOK'
      BY <1>7, EndFacts DEF TypeOK, history
    <2>2. Carries(w)'
      BY <1>7, EndFacts DEF Carries
    <2> QED BY <1>7, <2>1, <2>2, EndFacts, QuietStep
  <1>8. ASSUME NEW w \in Workers, FindInvite(w) PROVE IInv'
    <2>1. TypeOK'
      BY <1>8 DEF FindInvite, Goto, TypeOK, dbVars, localVars, history
    <2>2. Carries(w)'
      BY <1>8 DEF FindInvite, Goto, Acceptable, Carries, TypeOK, dbVars,
                  localVars
    <2>3. accepted[target[w]] = 0 /\ target'[w] = target[w]
      BY <1>8 DEF FindInvite, Goto, Acceptable, Counted, Carries, localVars
    <2> QED BY <1>8, <2>1, <2>2, <2>3, QuietStep
            DEF FindInvite, Goto, TypeOK, dbVars, localVars, history
  <1>9. ASSUME NEW w \in Workers, UpsertMembership(w) PROVE IInv'
    <2>1. TypeOK'
      BY <1>9 DEF UpsertMembership, Goto, TypeOK, localVars, history, Carries
    <2>2. Carries(w)'
      BY <1>9 DEF UpsertMembership, Goto, Carries, TypeOK, localVars
    <2>3. backend = "postgres"
      BY <1>9, BackendAssumption DEF UpsertMembership, Goto, Counted, TypeOK
    <2> QED BY <1>9, <2>1, <2>2, <2>3, QuietStep
            DEF UpsertMembership, Goto, TypeOK, localVars, history
  <1>10. ASSUME NEW w \in Workers, MarkAndCommit(w) PROVE IInv'
    <2>1. backend # "memory" /\ invites[target[w]].email = caller[w]
      BY <1>10 DEF MarkAndCommit, Counted, Carries
    <2> QED BY <1>10, <2>1, RedeemStep DEF MarkAndCommit
  <1>11. ASSUME NEW w \in Workers, AcceptInMemory(w) PROVE IInv'
    BY <1>11, RedeemStep DEF AcceptInMemory, Acceptable
  <1> QED
    BY <1>1, <1>2, <1>3, <1>4, <1>5, <1>6, <1>7, <1>8, <1>9, <1>10, <1>11,
       InsertStep
    DEF Next, Handle, RefuseInviter, RefuseInvite, Die

LEMMA Invariance == Spec => []IInv
  BY InitIInv, StepIInv, PTL DEF Spec

(* Every reachable state is well typed (Init and every handler). *)
THEOREM MembershipsTyped == Spec => []TypeOK
  <1>1. IInv => TypeOK
    BY DEF IInv
  <1> QED BY <1>1, Invariance, PTL

(* Every membership, an Owner's included, comes from creating the tenant   *)
(* or from an invite to that user, for that role, by one who had managed   *)
(* the tenant (createTenantWithOwner, createInvite, acceptInvite).         *)
THEOREM MembershipsEarnedAlways == Spec => []MembershipsEarned
  <1>1. IInv => MembershipsEarned
    BY DEF IInv
  <1> QED BY <1>1, Invariance, PTL

(* acceptInvite accepts an invite once in memory, and in Postgres no more  *)
(* often than there are requests to overlap.                               *)
THEOREM AcceptedAsOverlapping == Spec => []InviteAcceptedOnce
  <1>1. IInv => InviteAcceptedOnce
    <2> SUFFICES ASSUME IInv, NEW k \in InviteIds
                 PROVE  accepted[k] <= IF backend = "memory" THEN 1
                                       ELSE Cardinality(Workers)
      BY DEF InviteAcceptedOnce
    <2>1. /\ accepted[k] \in Nat
          /\ accepted[k] + Cardinality(InFlight(k)) <= Cardinality(Workers)
          /\ backend = "memory" => accepted[k] <= 1
      BY DEF IInv, TypeOK, Counted
    <2> QED BY <2>1, InFlightFits
  <1> QED BY <1>1, Invariance, PTL
=============================================================================
