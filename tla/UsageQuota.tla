----------------------------- MODULE UsageQuota -----------------------------
(***************************************************************************)
(* The metering of write requests: UsageService.consumeWriteQuota and      *)
(* UsageService.getUsageSummary over the usage repositories.               *)
(*                                                                         *)
(* Each worker is one request being served, by any of the API processes.   *)
(* Every repository call is a transaction of its own, so a worker makes    *)
(* one step per awaited call; between two of its steps the others run and  *)
(* the clock moves.  A request may die at any step (database error,        *)
(* process killed), what it has committed stays.                           *)
(***************************************************************************)
EXTENDS Integers, FiniteSets

CONSTANTS
    Workers,       \* request slots: the requests that can be in flight at once
    Tenants,
    DefaultLimit,  \* DefaultLimit[w]: USAGE_DAILY_WRITE_LIMIT of w's process
    MaxLimit,      \* an upper bound of the configured limits
    Window,        \* length of the sliding window (24 h), in clock units
    None,          \* no row in tenant_usage_quotas, no request
    MaxTime,       \* bound: the clock stops here
    MaxEvents      \* bound: no new request once so many events may exist

ASSUME WorkersAssumption == IsFiniteSet(Workers) /\ Workers # {}
ASSUME LimitAssumption ==
    /\ MaxLimit \in Nat
    /\ DefaultLimit \in [Workers -> 1 .. MaxLimit]
ASSUME WindowAssumption == Window \in Nat
ASSUME NoneAssumption == None \notin Nat /\ None \notin Tenants
ASSUME BoundAssumption == MaxTime \in Nat /\ MaxEvents \in Nat

VARIABLES
    quota,   \* tenant_usage_quotas: tenant -> daily_write_limit or None
    events,  \* usage_events of the write_request metric
    now,     \* Date.now()
    pc,      \* where each worker is in its request
    kind,    \* "write": consumeWriteQuota, "summary": getUsageSummary
    tenant,  \* the tenant of each worker's request
    limit,   \* the quota row each worker read or wrote
    since,   \* the start of the window each worker asks for
    used,    \* the sum each worker read
    stamp    \* the createdAt of the event each worker is about to insert

dbVars == <<quota, events>>
reqVars == <<kind, tenant>>
localVars == <<limit, since, used, stamp>>
vars == <<dbVars, now, pc, reqVars, localVars>>

Kinds == {"write", "summary"}
PCs == {"idle", "quota", "upsert", "window", "sum", "check", "insert",
        "admitted", "rejected"}

\* A usage event; id stands for the random UUID of the row.
Event == [id : Nat, tenant : Tenants, at : 0 .. MaxTime]

\* The rows sumUsageSince adds up for tenant t; every amount is 1.
EventsSince(t, from) == {e \in events : e.tenant = t /\ e.at >= from}

\* Mutant: the sum without its tenant filter.
SumUsageOfAll(w) == Cardinality({e \in events : e.at >= since[w]})

\* What sumUsageSince returns to worker w.
SumUsage(w) == Cardinality(EventsSince(tenant[w], since[w]))

\* Mutant: the limit check off by one.
OverLimitByOne(w) == used[w] > limit[w]

\* The limit check of consumeWriteQuota.
OverLimit(w) == used[w] + 1 > limit[w]

\* Workers whose request passed, or is about to pass, the limit check.
Pending(t) ==
    {w \in Workers : /\ tenant[w] = t
                     /\ kind[w] = "write"
                     /\ \/ pc[w] = "check" /\ ~OverLimit(w)
                        \/ pc[w] = "insert"}

Goto(w, from, to) == pc[w] = from /\ pc' = [pc EXCEPT ![w] = to]

\* The request of w is over; its local variables are gone.
End(w) ==
    /\ pc' = [pc EXCEPT ![w] = "idle"]
    /\ kind' = [kind EXCEPT ![w] = "write"]
    /\ tenant' = [tenant EXCEPT ![w] = None]
    /\ limit' = [limit EXCEPT ![w] = 0]
    /\ since' = [since EXCEPT ![w] = 0]
    /\ used' = [used EXCEPT ![w] = 0]
    /\ stamp' = [stamp EXCEPT ![w] = 0]

-----------------------------------------------------------------------------
TypeOK ==
    /\ quota \in [Tenants -> (1 .. MaxLimit) \cup {None}]
    /\ events \subseteq Event /\ IsFiniteSet(events)
    /\ now \in 0 .. MaxTime
    /\ pc \in [Workers -> PCs]
    /\ kind \in [Workers -> Kinds]
    /\ tenant \in [Workers -> Tenants \cup {None}]
    /\ \A w \in Workers : pc[w] # "idle" => tenant[w] # None
    /\ limit \in [Workers -> 0 .. MaxLimit]
    /\ since \in [Workers -> Int]
    /\ used \in [Workers -> Nat]
    /\ stamp \in [Workers -> 0 .. MaxTime]

Init ==
    /\ quota = [t \in Tenants |-> None]
    /\ events = {}
    /\ now = 0
    /\ pc = [w \in Workers |-> "idle"]
    /\ kind = [w \in Workers |-> "write"]
    /\ tenant = [w \in Workers |-> None]
    /\ limit = [w \in Workers |-> 0]
    /\ since = [w \in Workers |-> 0]
    /\ used = [w \in Workers |-> 0]
    /\ stamp = [w \in Workers |-> 0]

(* A request reaches the service: a mutating incident route, or GET /usage *)
(* by a member who may read the billing; others are refused without effect. *)
Request(w, k, t) ==
    /\ Cardinality(events) + Cardinality({v \in Workers : pc[v] # "idle"})
         < MaxEvents
    /\ Goto(w, "idle", "quota")
    /\ kind' = [kind EXCEPT ![w] = k]
    /\ tenant' = [tenant EXCEPT ![w] = t]
    /\ UNCHANGED <<dbVars, now, localVars>>

(* ensureQuota, first half: getTenantQuota finds the row ... *)
ReadQuota(w) ==
    /\ Goto(w, "quota", "window")
    /\ quota[tenant[w]] # None
    /\ limit' = [limit EXCEPT ![w] = quota[tenant[w]]]
    /\ UNCHANGED <<dbVars, now, reqVars, since, used, stamp>>

\* Mutant: a missing row is taken for a quota.
MissQuotaKeepsNull(w) ==
    /\ Goto(w, "quota", "window")
    /\ quota[tenant[w]] = None
    /\ limit' = [limit EXCEPT ![w] = None]
    /\ UNCHANGED <<dbVars, now, reqVars, since, used, stamp>>

(* ... or returns null, *)
MissQuota(w) ==
    /\ Goto(w, "quota", "upsert")
    /\ quota[tenant[w]] = None
    /\ UNCHANGED <<dbVars, now, reqVars, localVars>>

(* and the default is upserted, over whatever row is there by now. *)
UpsertQuota(w) ==
    /\ Goto(w, "upsert", "window")
    /\ quota' = [quota EXCEPT ![tenant[w]] = DefaultLimit[w]]
    /\ limit' = [limit EXCEPT ![w] = DefaultLimit[w]]
    /\ UNCHANGED <<events, now, reqVars, since, used, stamp>>

(* windowStart = Date.now() - 24 h, computed before the query is sent. *)
OpenWindow(w) ==
    /\ Goto(w, "window", "sum")
    /\ since' = [since EXCEPT ![w] = now - Window]
    /\ UNCHANGED <<dbVars, now, reqVars, limit, used, stamp>>

(* sumUsageSince. *)
ReadUsage(w) ==
    /\ kind[w] = "write"
    /\ Goto(w, "sum", "check")
    /\ used' = [used EXCEPT ![w] = SumUsage(w)]
    /\ UNCHANGED <<dbVars, now, reqVars, limit, since, stamp>>

(* getUsageSummary answers with what it read: it records nothing. *)
Summarise(w) ==
    /\ kind[w] = "summary"
    /\ pc[w] = "sum"
    /\ End(w)
    /\ UNCHANGED <<dbVars, now>>

(* used + 1 > limit: 429 QUOTA_EXCEEDED. *)
Reject(w) ==
    /\ OverLimit(w)
    /\ Goto(w, "check", "rejected")
    /\ UNCHANGED <<dbVars, now, reqVars, localVars>>

(* Otherwise the event is stamped with new Date() ... *)
Accept(w) ==
    /\ ~OverLimit(w)
    /\ Goto(w, "check", "insert")
    /\ stamp' = [stamp EXCEPT ![w] = now]
    /\ UNCHANGED <<dbVars, now, reqVars, limit, since, used>>

(* ... and createUsageEvent inserts it; the handler goes on to its write. *)
InsertEvent(w) ==
    /\ Goto(w, "insert", "admitted")
    /\ events' = events \cup {[id |-> Cardinality(events),
                               tenant |-> tenant[w], at |-> stamp[w]]}
    /\ UNCHANGED <<quota, now, reqVars, localVars>>

(* The handler has answered: with the 429, or after its own work. *)
Finish(w) ==
    /\ pc[w] \in {"admitted", "rejected"}
    /\ End(w)
    /\ UNCHANGED <<dbVars, now>>

(* A repository call throws, or the process dies: nothing is undone. *)
Die(w) ==
    /\ pc[w] \notin {"idle", "admitted", "rejected"}
    /\ End(w)
    /\ UNCHANGED <<dbVars, now>>

Tick ==
    /\ now < MaxTime
    /\ now' = now + 1
    /\ UNCHANGED <<dbVars, pc, reqVars, localVars>>

Step(w) ==
    \/ \E k \in Kinds, t \in Tenants : Request(w, k, t)
    \/ ReadQuota(w) \/ MissQuota(w) \/ UpsertQuota(w)
    \/ OpenWindow(w) \/ ReadUsage(w) \/ Summarise(w)
    \/ Reject(w) \/ Accept(w) \/ InsertEvent(w)
    \/ Finish(w) \/ Die(w)

Next == Tick \/ \E w \in Workers : Step(w)

Spec == Init /\ [][Next]_vars

-----------------------------------------------------------------------------
(* The check and the insert are two transactions, so the limit is soft.    *)
(* What the code does guarantee: the writes of a tenant metered in the     *)
(* current window, together with those already past the check, exceed the  *)
(* limit by fewer than the number of requests in flight.                   *)
SoftLimit ==
    \A t \in Tenants :
        Cardinality(EventsSince(t, now - Window)) + Cardinality(Pending(t))
            <= MaxLimit + Cardinality(Workers) - 1

(* A 429 is only given to a tenant whose own writes, since the start of    *)
(* the window the request computed, had used up the limit it was judged    *)
(* by: another tenant's writes, or ones that left the window, never count. *)
RejectionJustified ==
    \A w \in Workers :
        pc[w] = "rejected" =>
            Cardinality(EventsSince(tenant[w], since[w])) >= limit[w]

(* What the README promises of the quota ("429 QUOTA_EXCEEDED when over    *)
(* limit"): a tenant never has more metered writes in the window than the  *)
(* limit.  Two requests that both read the sum before either inserts break *)
(* it.                                                                     *)
StrictLimit ==
    \A t \in Tenants : Cardinality(EventsSince(t, now - Window)) <= MaxLimit
=============================================================================
