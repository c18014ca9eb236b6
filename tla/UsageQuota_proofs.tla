-------------------------- MODULE UsageQuota_proofs --------------------------
(***************************************************************************)
(* Proofs about UsageQuota for any set of workers and tenants, any limits  *)
(* and any window.  IInv is the inductive invariant: TypeOK, the two       *)
(* properties, and what relates a worker's local variables to the tables.  *)
(***************************************************************************)
EXTENDS UsageQuota, FiniteSetTheorems, TLAPS

\* Only a write gets as far as the check and the insert.
KindInv ==
    \A w \in Workers : pc[w] \in {"check", "insert"} => kind[w] = "write"

\* The window a worker is about to sum started no later than the current one.
SinceInv == \A w \in Workers : pc[w] = "sum" => since[w] <= now - Window

\* The sum a worker read is still covered by the rows: rows are never deleted.
UsedInv ==
    \A w \in Workers :
        /\ pc[w] \in {"check", "rejected"} =>
               used[w] <= Cardinality(EventsSince(tenant[w], since[w]))
        /\ pc[w] = "rejected" => OverLimit(w)

IInv == TypeOK /\ KindInv /\ SinceInv /\ UsedInv /\ SoftLimit

-----------------------------------------------------------------------------
(* A larger set of rows has at least as many rows. *)
LEMMA SubsetCardinality ==
    ASSUME NEW T, IsFiniteSet(T), NEW S, S \subseteq T
    PROVE  /\ IsFiniteSet(S) /\ IsFiniteSet(T)
           /\ Cardinality(S) \in Nat /\ Cardinality(T) \in Nat
           /\ Cardinality(S) <= Cardinality(T)
  <1>1. S \in SUBSET T
    OBVIOUS
  <1>2. IsFiniteSet(S) /\ Cardinality(S) <= Cardinality(T)
    BY <1>1, FS_Subset
  <1>3. QED
    BY <1>2, FS_CardinalityType

(* The requests past the check are at most all the requests. *)
LEMMA PendingBound ==
    ASSUME NEW t
    PROVE  /\ IsFiniteSet(Pending(t)) /\ Cardinality(Pending(t)) \in Nat
           /\ Cardinality(Workers) \in Nat
           /\ Cardinality(Pending(t)) <= Cardinality(Workers)
  <1>1. Pending(t) \subseteq Workers
    BY DEF Pending
  <1>2. QED
    BY <1>1, SubsetCardinality, WorkersAssumption

LEMMA InitIInv == Init => IInv
  <1> SUFFICES ASSUME Init PROVE IInv
    OBVIOUS
  <1> USE DEF Init
  <1>1. IsFiniteSet({}) /\ Cardinality({}) = 0
    BY FS_EmptySet
  <1>2. TypeOK
    BY <1>1, LimitAssumption, BoundAssumption DEF TypeOK, Kinds, PCs
  <1>3. KindInv /\ SinceInv /\ UsedInv
    BY DEF KindInv, SinceInv, UsedInv
  <1>4. SoftLimit
    <2> SUFFICES ASSUME NEW t \in Tenants
                 PROVE  Cardinality(EventsSince(t, now - Window))
                          + Cardinality(Pending(t))
                            <= MaxLimit + Cardinality(Workers) - 1
      BY DEF SoftLimit
    <2>1. EventsSince(t, now - Window) = {} /\ Pending(t) = {}
      BY DEF EventsSince, Pending
    <2>2. Cardinality(Workers) \in Nat /\ Cardinality(Workers) # 0
      BY WorkersAssumption, FS_EmptySet, FS_CardinalityType
    <2>3. /\ Cardinality(EventsSince(t, now - Window)) = 0
          /\ Cardinality(Pending(t)) = 0
      BY <1>1, <2>1
    <2>4. Cardinality(Workers) >= 1
      BY <2>2
    <2>5. QED
      BY <2>2, <2>3, <2>4, LimitAssumption
  <1>5. QED
    BY <1>2, <1>3, <1>4 DEF IInv

(* Types: every action keeps every variable in its range. *)
LEMMA TypeStep == TypeOK /\ [Next]_vars => TypeOK'
  <1> SUFFICES ASSUME TypeOK, [Next]_vars PROVE TypeOK'
    OBVIOUS
  <1> USE LimitAssumption, WindowAssumption, BoundAssumption,
          NoneAssumption DEF TypeOK, Kinds, PCs
  <1>0. \A t, f : /\ IsFiniteSet(EventsSince(t, f))
                  /\ Cardinality(EventsSince(t, f)) \in Nat
    BY SubsetCardinality DEF EventsSince
  <1>a. ASSUME NEW w \in Workers, End(w), UNCHANGED <<dbVars, now>>
        PROVE  TypeOK'
    BY <1>a DEF End, dbVars
  <1>1. ASSUME NEW w \in Workers, NEW k \in Kinds, NEW t \in Tenants,
               Request(w, k, t)
        PROVE  TypeOK'
    BY <1>1 DEF Request, Goto, dbVars, localVars
  <1>2. ASSUME NEW w \in Workers, ReadQuota(w) PROVE TypeOK'
    BY <1>2 DEF ReadQuota, Goto, dbVars, reqVars
  <1>3. ASSUME NEW w \in Workers, MissQuota(w) PROVE TypeOK'
    BY <1>3 DEF MissQuota, Goto, dbVars, reqVars, localVars
  <1>4. ASSUME NEW w \in Workers, UpsertQuota(w) PROVE TypeOK'
    BY <1>4 DEF UpsertQuota, Goto, reqVars
  <1>5. ASSUME NEW w \in Workers, OpenWindow(w) PROVE TypeOK'
    BY <1>5 DEF OpenWindow, Goto, dbVars, reqVars
  <1>6. ASSUME NEW w \in Workers, ReadUsage(w) PROVE TypeOK'
    BY <1>0, <1>6 DEF ReadUsage, SumUsage, Goto, dbVars, reqVars
  <1>7. ASSUME NEW w \in Workers, Reject(w) PROVE TypeOK'
    BY <1>7 DEF Reject, Goto, dbVars, reqVars, localVars
  <1>8. ASSUME NEW w \in Workers, Accept(w) PROVE TypeOK'
    BY <1>8 DEF Accept, Goto, dbVars, reqVars
  <1>9. ASSUME NEW w \in Workers, InsertEvent(w) PROVE TypeOK'
    <2>1. Cardinality(events) \in Nat
      BY FS_CardinalityType
    <2>2. events' \subseteq Event
      BY <1>9, <2>1 DEF InsertEvent, Goto, Event
    <2>3. IsFiniteSet(events')
      BY <1>9, FS_AddElement DEF InsertEvent
    <2>4. QED
      BY <1>9, <2>2, <2>3 DEF InsertEvent, Goto, reqVars, localVars
  <1>10. CASE Tick
    BY <1>10 DEF Tick, dbVars, reqVars, localVars
  <1>11. CASE UNCHANGED vars
    BY <1>11 DEF vars, dbVars, reqVars, localVars
  <1>12. ASSUME NEW w \in Workers, Summarise(w) \/ Finish(w) \/ Die(w)
         PROVE  TypeOK'
    BY <1>12, <1>a DEF Summarise, Finish, Die
  <1>13. QED
    BY <1>1, <1>2, <1>3, <1>4, <1>5, <1>6, <1>7, <1>8, <1>9, <1>10, <1>11,
       <1>12 DEF Next, Step

-----------------------------------------------------------------------------
(* What relates the local variables to the tables is kept by every step.   *)
LEMMA LocalStep ==
    TypeOK /\ KindInv /\ SinceInv /\ UsedInv /\ [Next]_vars
        => KindInv' /\ SinceInv' /\ UsedInv'
  <1> SUFFICES ASSUME TypeOK, KindInv, SinceInv, UsedInv, [Next]_vars
               PROVE  KindInv' /\ SinceInv' /\ UsedInv'
    OBVIOUS
  <1> USE LimitAssumption, WindowAssumption, BoundAssumption
          DEF KindInv, SinceInv, UsedInv, OverLimit
  <1>0. \A t, f : /\ IsFiniteSet(EventsSince(t, f))
                  /\ Cardinality(EventsSince(t, f)) \in Nat
    BY SubsetCardinality DEF EventsSince, TypeOK
  <1>a. ASSUME events' = events
        PROVE  \A t, f : EventsSince(t, f)' = EventsSince(t, f)
    BY <1>a DEF EventsSince
  <1>b. ASSUME NEW w \in Workers, End(w), UNCHANGED <<dbVars, now>>
        PROVE  KindInv' /\ SinceInv' /\ UsedInv'
    BY <1>a, <1>b DEF End, dbVars, TypeOK
  <1>1. ASSUME NEW w \in Workers, NEW k \in Kinds, NEW t \in Tenants,
               Request(w, k, t)
        PROVE  KindInv' /\ SinceInv' /\ UsedInv'
    BY <1>a, <1>1 DEF Request, Goto, dbVars, localVars, TypeOK
  <1>2. ASSUME NEW w \in Workers,
               ReadQuota(w) \/ MissQuota(w) \/ UpsertQuota(w)
        PROVE  KindInv' /\ SinceInv' /\ UsedInv'
    BY <1>a, <1>2 DEF ReadQuota, MissQuota, UpsertQuota, Goto, dbVars,
                      reqVars, localVars, TypeOK
  <1>3. ASSUME NEW w \in Workers, OpenWindow(w)
        PROVE  KindInv' /\ SinceInv' /\ UsedInv'
    BY <1>a, <1>3 DEF OpenWindow, Goto, dbVars, reqVars, TypeOK
  <1>4. ASSUME NEW w \in Workers, ReadUsage(w)
        PROVE  KindInv' /\ SinceInv' /\ UsedInv'
    BY <1>0, <1>a, <1>4 DEF ReadUsage, SumUsage, Goto, dbVars, reqVars, TypeOK
  <1>5. ASSUME NEW w \in Workers, Reject(w) \/ Accept(w)
        PROVE  KindInv' /\ SinceInv' /\ UsedInv'
    BY <1>a, <1>5 DEF Reject, Accept, Goto, dbVars, reqVars, localVars, TypeOK
  <1>6. ASSUME NEW w \in Workers, InsertEvent(w)
        PROVE  KindInv' /\ SinceInv' /\ UsedInv'
    <2>1. IsFiniteSet(events') /\ events \subseteq events'
      BY <1>6, FS_AddElement DEF InsertEvent, TypeOK
    <2>2. \A t, f : /\ EventsSince(t, f) \subseteq EventsSince(t, f)'
                    /\ IsFiniteSet(EventsSince(t, f)')
      BY <2>1, SubsetCardinality DEF EventsSince
    <2>3. \A t, f : /\ Cardinality(EventsSince(t, f)') \in Nat
                    /\ Cardinality(EventsSince(t, f))
                         <= Cardinality(EventsSince(t, f)')
      BY <2>2, SubsetCardinality
    <2>4. UNCHANGED <<now, reqVars, localVars>>
          /\ pc' = [pc EXCEPT ![w] = "admitted"]
      BY <1>6 DEF InsertEvent, Goto
    <2>5. ASSUME NEW v \in Workers, (pc[v] \in {"check", "rejected"})'
          PROVE  used'[v] <= Cardinality(EventsSince(tenant[v], since[v])')
      <3>1. used[v] <= Cardinality(EventsSince(tenant[v], since[v]))
        BY <2>4, <2>5 DEF TypeOK
      <3>2. QED
        BY <1>0, <2>3, <2>4, <3>1 DEF reqVars, localVars, TypeOK
    <2>6. QED
      BY <2>4, <2>5 DEF reqVars, localVars, TypeOK
  <1>7. CASE Tick
    BY <1>a, <1>7 DEF Tick, dbVars, reqVars, localVars, TypeOK
  <1>8. CASE UNCHANGED vars
    BY <1>a, <1>8 DEF vars, dbVars, reqVars, localVars
  <1>9. ASSUME NEW w \in Workers, Summarise(w) \/ Finish(w) \/ Die(w)
        PROVE  KindInv' /\ SinceInv' /\ UsedInv'
    BY <1>9, <1>b DEF Summarise, Finish, Die
  <1>10. QED
    BY <1>1, <1>2, <1>3, <1>4, <1>5, <1>6, <1>7, <1>8, <1>9 DEF Next, Step

-----------------------------------------------------------------------------
(* A step that adds no row, does not move the clock back and lets no       *)
(* request past the check keeps the bound.                                 *)
LEMMA SoftLimitFrame ==
    ASSUME TypeOK, TypeOK', SoftLimit,
           \A t \in Tenants : /\ EventsSince(t, now - Window)'
                                   \subseteq EventsSince(t, now - Window)
                              /\ Pending(t)' \subseteq Pending(t)
    PROVE  SoftLimit'
  <1> SUFFICES ASSUME NEW t \in Tenants
               PROVE  Cardinality(EventsSince(t, now - Window)')
                        + Cardinality(Pending(t)')
                          <= MaxLimit + Cardinality(Workers) - 1
    BY DEF SoftLimit
  <1> DEFINE E == EventsSince(t, now - Window)
             P == Pending(t)
  <1>1. IsFiniteSet(E) /\ IsFiniteSet(P)
    BY SubsetCardinality, PendingBound DEF EventsSince, TypeOK
  <1>2. /\ Cardinality(E') <= Cardinality(E) /\ Cardinality(P') <= Cardinality(P)
        /\ Cardinality(E) \in Nat /\ Cardinality(E') \in Nat
        /\ Cardinality(P) \in Nat /\ Cardinality(P') \in Nat
    BY <1>1, SubsetCardinality
  <1>3. Cardinality(E) + Cardinality(P) <= MaxLimit + Cardinality(Workers) - 1
    BY DEF SoftLimit
  <1>4. Cardinality(Workers) \in Nat
    BY WorkersAssumption, FS_CardinalityType
  <1> HIDE DEF E, P
  <1>5. Cardinality(E') + Cardinality(P') <= MaxLimit + Cardinality(Workers) - 1
    BY <1>2, <1>3, <1>4, LimitAssumption
  <1>6. QED
    BY <1>5 DEF E, P

(* The sum is read: whoever it lets past found room for one more write.    *)
LEMMA SoftLimitReadUsage ==
    ASSUME TypeOK, TypeOK', SinceInv, SoftLimit,
           NEW w \in Workers, ReadUsage(w)
    PROVE  SoftLimit'
  <1> USE LimitAssumption, WindowAssumption
  <1>1. UNCHANGED <<events, now, tenant, kind, limit, since>>
        /\ pc[w] = "sum" /\ pc' = [pc EXCEPT ![w] = "check"]
        /\ used' = [used EXCEPT ![w] = SumUsage(w)]
    BY DEF ReadUsage, Goto, dbVars, reqVars
  <1>2. \A t : EventsSince(t, now - Window)' = EventsSince(t, now - Window)
    BY <1>1 DEF EventsSince
  <1>3. CASE used'[w] + 1 > limit[w]
    <2>1. \A t \in Tenants : Pending(t)' \subseteq Pending(t)
      BY <1>1, <1>3 DEF Pending, OverLimit, TypeOK
    <2>2. QED
      BY <1>2, <2>1, SoftLimitFrame
  <1>4. CASE ~(used'[w] + 1 > limit[w])
    <2> SUFFICES ASSUME NEW t \in Tenants
                 PROVE  Cardinality(EventsSince(t, now - Window))
                          + Cardinality(Pending(t)')
                            <= MaxLimit + Cardinality(Workers) - 1
      BY <1>1, <1>2 DEF SoftLimit
    <2>1. CASE t # tenant[w]
      <3>1. Pending(t)' = Pending(t)
        BY <1>1, <2>1 DEF Pending, OverLimit, TypeOK
      <3>2. QED
        BY <3>1 DEF SoftLimit
    <2>2. CASE t = tenant[w]
      <3>1. EventsSince(t, now - Window) \subseteq EventsSince(t, since[w])
        BY <1>1 DEF EventsSince, Event, SinceInv, TypeOK
      <3>2. IsFiniteSet(EventsSince(t, since[w]))
        BY SubsetCardinality DEF EventsSince, TypeOK
      <3>3. /\ Cardinality(EventsSince(t, now - Window)) <= SumUsage(w)
            /\ Cardinality(EventsSince(t, now - Window)) \in Nat
            /\ SumUsage(w) \in Nat
        BY <2>2, <3>1, <3>2, SubsetCardinality DEF SumUsage
      <3>4. SumUsage(w) + 1 <= MaxLimit
        BY <1>1, <1>4, <3>3 DEF TypeOK
      <3>5. /\ Cardinality(Pending(t)') \in Nat
            /\ Cardinality(Workers) \in Nat
            /\ Cardinality(Pending(t)') <= Cardinality(Workers)
        <4>1. Pending(t)' \subseteq Workers
          BY DEF Pending
        <4>2. QED
          BY <4>1, SubsetCardinality, WorkersAssumption
      <3>6. QED
        BY <3>3, <3>4, <3>5
    <2>3. QED
      BY <2>1, <2>2
  <1>5. QED
    BY <1>3, <1>4

(* The insert adds at most one row, and the request is no longer pending.  *)
LEMMA SoftLimitInsert ==
    ASSUME TypeOK, TypeOK', KindInv, SoftLimit,
           NEW w \in Workers, InsertEvent(w)
    PROVE  SoftLimit'
  <1> DEFINE e == [id |-> Cardinality(events), tenant |-> tenant[w],
                   at |-> stamp[w]]
  <1>1. /\ UNCHANGED <<now, tenant, kind, limit, used>>
        /\ pc[w] = "insert" /\ pc' = [pc EXCEPT ![w] = "admitted"]
        /\ events' = events \cup {e}
    BY DEF InsertEvent, Goto, reqVars, localVars
  <1> SUFFICES ASSUME NEW t \in Tenants
               PROVE  Cardinality(EventsSince(t, now - Window)')
                        + Cardinality(Pending(t)')
                          <= MaxLimit + Cardinality(Workers) - 1
    BY DEF SoftLimit
  <1> DEFINE E == EventsSince(t, now - Window)
             P == Pending(t)
  <1>2. IsFiniteSet(E) /\ IsFiniteSet(P)
    BY SubsetCardinality, PendingBound DEF EventsSince, TypeOK
  <1>3. Cardinality(E) \in Nat /\ Cardinality(P) \in Nat
        /\ Cardinality(Workers) \in Nat
    BY <1>2, WorkersAssumption, FS_CardinalityType
  <1>4. Cardinality(E) + Cardinality(P) <= MaxLimit + Cardinality(Workers) - 1
    BY DEF SoftLimit
  <1>5. CASE t # tenant[w]
    <2>1. E' = E /\ P' = P
      BY <1>1, <1>5 DEF EventsSince, Pending, OverLimit, TypeOK
    <2>2. QED
      BY <1>4, <2>1
  <1>6. CASE t = tenant[w]
    <2>1. E' \subseteq E \cup {e} /\ IsFiniteSet(E \cup {e})
          /\ Cardinality(E \cup {e}) <= Cardinality(E) + 1
      <3>1. E' \subseteq E \cup {e}
        BY <1>1 DEF EventsSince
      <3> HIDE DEF E, e
      <3>2. IsFiniteSet(E \cup {e})
            /\ Cardinality(E \cup {e})
                 = IF e \in E THEN Cardinality(E) ELSE Cardinality(E) + 1
        BY <1>2, FS_AddElement
      <3>3. QED
        BY <1>3, <3>1, <3>2
    <2>2. w \in P /\ P' \subseteq P \ {w}
      BY <1>1, <1>6 DEF Pending, OverLimit, KindInv, TypeOK
    <2>3. IsFiniteSet(P \ {w}) /\ Cardinality(P \ {w}) = Cardinality(P) - 1
      BY <1>2, <2>2, FS_RemoveElement
    <2>4. /\ Cardinality(E') \in Nat /\ Cardinality(E') <= Cardinality(E \cup {e})
          /\ Cardinality(E \cup {e}) \in Nat
      BY <2>1, SubsetCardinality
    <2>5. Cardinality(P') \in Nat /\ Cardinality(P') <= Cardinality(P \ {w})
      BY <2>2, <2>3, SubsetCardinality
    <2> HIDE DEF E, P, e
    <2>6. Cardinality(E') + Cardinality(P')
            <= MaxLimit + Cardinality(Workers) - 1
      BY <1>3, <1>4, <2>1, <2>3, <2>4, <2>5, LimitAssumption
    <2>7. QED
      BY <2>6 DEF E, P
  <1>7. QED
    BY <1>5, <1>6

(* Every step keeps the bound. *)
LEMMA SoftLimitStep == IInv /\ TypeOK' /\ [Next]_vars => SoftLimit'
  <1> SUFFICES ASSUME TypeOK, TypeOK', KindInv, SinceInv, SoftLimit, [Next]_vars
               PROVE  SoftLimit'
    BY DEF IInv
  <1>0. ASSUME UNCHANGED <<events, now>>,
               \A t \in Tenants : Pending(t)' \subseteq Pending(t)
        PROVE  SoftLimit'
    <2>1. \A t : EventsSince(t, now - Window)' = EventsSince(t, now - Window)
      BY <1>0 DEF EventsSince
    <2>2. QED
      BY <1>0, <2>1, SoftLimitFrame
  <1>1. ASSUME NEW w \in Workers,
               \/ \E k \in Kinds, t \in Tenants : Request(w, k, t)
               \/ ReadQuota(w) \/ MissQuota(w) \/ UpsertQuota(w)
               \/ OpenWindow(w)
        PROVE  SoftLimit'
    <2>1. /\ pc' \in [Workers -> PCs]
          /\ \A v \in Workers \ {w} : /\ pc'[v] = pc[v] /\ kind'[v] = kind[v]
                                      /\ tenant'[v] = tenant[v]
                                      /\ limit'[v] = limit[v]
          /\ used' = used
          /\ pc'[w] \in {"quota", "upsert", "window", "sum"}
      <3> USE DEF Goto, reqVars, localVars, TypeOK
      <3>1. CASE \E k \in Kinds, t \in Tenants : Request(w, k, t)
        BY <3>1 DEF Request
      <3>2. CASE ReadQuota(w)
        BY <3>2 DEF ReadQuota
      <3>3. CASE MissQuota(w)
        BY <3>3 DEF MissQuota
      <3>4. CASE UpsertQuota(w)
        BY <3>4 DEF UpsertQuota
      <3>5. CASE OpenWindow(w)
        BY <3>5 DEF OpenWindow
      <3>6. QED
        BY <1>1, <3>1, <3>2, <3>3, <3>4, <3>5
    <2>2. \A t \in Tenants : Pending(t)' \subseteq Pending(t)
      BY <2>1 DEF Pending, OverLimit
    <2>3. UNCHANGED <<events, now>>
      BY <1>1 DEF Request, ReadQuota, MissQuota, UpsertQuota, OpenWindow, dbVars
    <2>4. QED
      BY <1>0, <2>2, <2>3
  <1>2. ASSUME NEW w \in Workers, Reject(w) \/ Accept(w)
        PROVE  SoftLimit'
    <2>1. \A t \in Tenants : Pending(t)' \subseteq Pending(t)
      BY <1>2 DEF Reject, Accept, Goto, reqVars, localVars, Pending, OverLimit,
                  TypeOK
    <2>2. UNCHANGED <<events, now>>
      BY <1>2 DEF Reject, Accept, dbVars
    <2>3. QED
      BY <1>0, <2>1, <2>2
  <1>3. ASSUME NEW w \in Workers, Summarise(w) \/ Finish(w) \/ Die(w)
        PROVE  SoftLimit'
    <2>1. End(w) /\ UNCHANGED <<dbVars, now>>
      BY <1>3 DEF Summarise, Finish, Die
    <2>2. \A t \in Tenants : Pending(t)' \subseteq Pending(t)
      BY <2>1 DEF End, Pending, OverLimit, TypeOK
    <2>3. QED
      BY <1>0, <2>1, <2>2 DEF dbVars
  <1>4. CASE Tick
    <2>1. /\ UNCHANGED <<events, pc, tenant, kind, limit, used>>
          /\ now' = now + 1
      BY <1>4 DEF Tick, dbVars, reqVars, localVars
    <2>2. \A t \in Tenants : Pending(t)' \subseteq Pending(t)
      BY <2>1 DEF Pending, OverLimit
    <2>3. \A t \in Tenants : EventsSince(t, now - Window)'
                               \subseteq EventsSince(t, now - Window)
      BY <2>1, WindowAssumption, BoundAssumption
         DEF EventsSince, Event, TypeOK
    <2>4. QED
      BY <2>2, <2>3, SoftLimitFrame
  <1>5. CASE UNCHANGED vars
    <2>1. \A t \in Tenants : Pending(t)' \subseteq Pending(t)
      BY <1>5 DEF vars, reqVars, localVars, Pending, OverLimit
    <2>2. QED
      BY <1>0, <1>5, <2>1 DEF vars, dbVars
  <1>6. QED
    BY <1>1, <1>2, <1>3, <1>4, <1>5, SoftLimitReadUsage, SoftLimitInsert
       DEF Next, Step

-----------------------------------------------------------------------------
(* IInv holds in every reachable state. *)
THEOREM Invariance == Spec => []IInv
  <1>1. Init => IInv
    BY InitIInv
  <1>2. IInv /\ [Next]_vars => IInv'
    BY TypeStep, LocalStep, SoftLimitStep DEF IInv
  <1>3. QED
    BY <1>1, <1>2, PTL DEF Spec

(* Every variable of the metering keeps its type. *)
THEOREM TypeCorrect == Spec => []TypeOK
  <1>1. IInv => TypeOK
    BY DEF IInv
  <1>2. QED
    BY <1>1, Invariance, PTL

(* The metered writes of a tenant in the window never exceed the limit by  *)
(* as many as the requests in flight, for any number of processes,         *)
(* requests, tenants and any window: consumeWriteQuota's check-then-insert *)
(* cannot overshoot by more.                                               *)
THEOREM SoftLimitHolds == Spec => []SoftLimit
  <1>1. IInv => SoftLimit
    BY DEF IInv
  <1>2. QED
    BY <1>1, Invariance, PTL

(* A 429 always rests on the tenant's own metered writes in the window.    *)
THEOREM RejectionsJustified == Spec => []RejectionJustified
  <1>1. IInv => RejectionJustified
    <2> SUFFICES ASSUME IInv, NEW w \in Workers, pc[w] = "rejected"
                 PROVE  Cardinality(EventsSince(tenant[w], since[w])) >= limit[w]
      BY DEF RejectionJustified
    <2>1. /\ used[w] <= Cardinality(EventsSince(tenant[w], since[w]))
          /\ used[w] + 1 > limit[w]
          /\ used[w] \in Nat /\ limit[w] \in Nat
      BY LimitAssumption DEF IInv, UsedInv, OverLimit, TypeOK
    <2>2. Cardinality(EventsSince(tenant[w], since[w])) \in Nat
      BY SubsetCardinality DEF EventsSince, IInv, TypeOK
    <2>3. QED
      BY <2>1, <2>2
  <1>2. QED
    BY <1>1, Invariance, PTL

(* When requests are served one at a time the limit is the one the README  *)
(* promises.                                                               *)
THEOREM StrictWhenSerial ==
    ASSUME Cardinality(Workers) = 1
    PROVE  Spec => []StrictLimit
  <1>1. IInv => StrictLimit
    <2> SUFFICES ASSUME IInv, NEW t \in Tenants
                 PROVE  Cardinality(EventsSince(t, now - Window)) <= MaxLimit
      BY DEF StrictLimit
    <2>1. Cardinality(EventsSince(t, now - Window)) + Cardinality(Pending(t))
            <= MaxLimit + Cardinality(Workers) - 1
      BY DEF IInv, SoftLimit
    <2>2. Cardinality(EventsSince(t, now - Window)) \in Nat
      BY SubsetCardinality DEF EventsSince, IInv, TypeOK
    <2>3. Cardinality(Pending(t)) \in Nat
      BY PendingBound
    <2>4. QED
      BY <2>1, <2>2, <2>3, LimitAssumption
  <1>2. QED
    BY <1>1, Invariance, PTL
=============================================================================
