--------------------------- MODULE IncidentWrites ---------------------------
(***************************************************************************)
(* The mutating incident requests of one tenant, from the handler's call   *)
(* of IncidentService to its answer: create and patch an incident, add a   *)
(* timeline event, publish a status update, create and patch a task.       *)
(*                                                                         *)
(* A worker is one request being served, by any process.  It makes one     *)
(* step per transaction or awaited call; inside updateIncident and         *)
(* updateTask of the Postgres repositories it makes one step per SQL       *)
(* statement, because their SELECT takes no lock and their UPDATE writes   *)
(* every column.  The in-memory repositories do the same in one step,      *)
(* field by field.                                                         *)
(*                                                                         *)
(* Title, description and end time are merged exactly as severity is and   *)
(* are left out: a patch that names only those names, here, no field at    *)
(* all.  Incidents and tasks are never deleted.  Every row is of one       *)
(* tenant: the ids of another tenant's rows are ids not found here.  The   *)
(* handler has already consumed the write quota (UsageQuota) and parsed    *)
(* the body.                                                               *)
(***************************************************************************)
EXTENDS Authorization, FiniteSets

CONSTANTS
    Workers, Users, Incidents,
    Backends,    \* back ends to run on: "postgres", "memory"
    Requests,    \* the requests clients may send
    GrantedRoles,\* the roles invites may grant while requests run
    None

Statuses == {"declared", "investigating", "mitigating", "monitoring",
             "resolved", "closed"}
Severities == {"SEV1", "SEV2", "SEV3", "SEV4"}
TaskStatuses == {"open", "in_progress", "completed"}
ChildOps == {"timeline", "publish_internal", "publish_external", "task"}
Ops == ChildOps \cup {"create", "patch", "task_patch"}

\* The classes of response the handlers give.
Answers == {"200", "400", "403", "404"}

IncidentRow == [status : Statuses, severity : Severities]
TaskRow == [status : TaskStatuses, assignee : Users \cup {"nobody"}]

ASSUME BackendAssumption == Backends \subseteq {"postgres", "memory"}
ASSUME RequestAssumption ==
    \A r \in Requests :
        /\ r.op \in Ops /\ r.user \in Users /\ r.incident \in Incidents
        /\ r.op = "create" => r.body.severity \in Severities
        /\ r.op = "patch" => /\ r.body.status \in Statuses \cup {None}
                             /\ r.body.severity \in Severities \cup {None}
        /\ r.op = "task" => r.body.assignee \in Users \cup {"nobody"}
        /\ r.op = "task_patch" =>
               /\ r.body.status \in TaskStatuses \cup {None}
               /\ r.body.assignee \in Users \cup {"nobody", None}
ASSUME RoleAssumption == GrantedRoles \subseteq OrgRoles
ASSUME WorkersAssumption == IsFiniteSet(Workers)
ASSUME NoneAssumption ==
    /\ None \notin Statuses \cup Severities \cup TaskStatuses \cup OrgRoles
                            \cup Workers \cup Users \cup {"nobody"} \cup Answers
    /\ None \notin IncidentRow
    /\ None \notin TaskRow

VARIABLES
    backend,    \* DATABASE_URL decides it at start-up
    role,       \* memberships: user -> org role or None
    incidents,  \* incidents: id -> [status, severity] or None
    services,   \* incident_services: id -> set of service names
    tasks,      \* tasks, one slot per incident: [status, assignee] or None
    lock,       \* row locks: table, id -> the transaction holding it or None
    audit,      \* audit_log_events: [op, incident]
    pc, req,    \* each worker's step and request
    seen,       \* the membership role it read
    row,        \* the row its transaction read, then the row it writes
    dropped,    \* the incident_services rows its DELETE saw
    answer,     \* the status class of its response
    held,       \* history: every status an incident has had
    written,    \* history: every committed mutation [op, incident]
    overtaken   \* history: requests whose row another has committed to since
                \* they read it

dbVars == <<incidents, services, tasks, lock>>
localVars == <<seen, row, dropped, answer>>
history == <<held, written, overtaken>>
vars == <<backend, role, dbVars, audit, pc, req, localVars, history>>

\* What every client sees of the statuses, as an IncidentLifecycle.
Lifecycle == INSTANCE IncidentLifecycle WITH
    status <- [i \in Incidents |-> IF incidents[i] = None THEN None
                                   ELSE incidents[i].status]
Transitions == Lifecycle!Transitions

\* Mutant: only a closed incident is protected.
AnyTransitionBeforeClosed(current, next) == next = current \/ current # "closed"

\* ensureAllowedStatusTransition, for a patch that names a status
AllowedTransition(current, next) ==
    next = current \/ next \in Transitions[current]

\* The permissions the service asserts for a request.
Permissions(r) ==
    CASE r.op = "create" -> {"incidents.create"}
      [] r.op = "patch" ->
             {IF r.body.status \in {"resolved", "closed"}
              THEN "incidents.resolve" ELSE "incidents.update"}
             \cup IF r.body.severity = None THEN {}
                  ELSE {"incidents.change_severity"}
      [] r.op = "timeline" -> {"timeline.add_event"}
      [] r.op = "publish_internal" -> {"updates.publish_internal"}
      [] r.op = "publish_external" -> {"updates.publish_external"}
      [] r.op = "task" -> {"tasks.create"}
      [] r.op = "task_patch" -> {"tasks.assign"}

\* assertAuthorized with the membership role and no incident roles
MayDo(r, orgRole) ==
    \A action \in Permissions(r) : Authorize(action, {orgRole}, {})

\* input.x ?? current.x
Coalesce(new, old) == IF new = None THEN old ELSE new

\* Mutants: a status left out is cleared; a severity left out is the default.
MergedClearsStatus(body, current) ==
    [status |-> body.status,
     severity |-> Coalesce(body.severity, current.severity)]
MergedDefaultsSeverity(body, current) ==
    [status |-> Coalesce(body.status, current.status),
     severity |-> Coalesce(body.severity, "SEV1")]

MergedIncident(body, current) ==
    [status |-> Coalesce(body.status, current.status),
     severity |-> Coalesce(body.severity, current.severity)]

MergedTask(body, current) ==
    [status |-> Coalesce(body.status, current.status),
     assignee |-> Coalesce(body.assignee, current.assignee)]

\* The row a request updates, its lock, and what the update makes of it.
Table(r) == IF r.op = "task_patch" THEN "task" ELSE "incident"
Current(r) == IF r.op = "task_patch" THEN tasks[r.incident]
              ELSE incidents[r.incident]
Merged(r, current) == IF r.op = "task_patch" THEN MergedTask(r.body, current)
                      ELSE MergedIncident(r.body, current)
NamesServices(r) == r.op = "patch" /\ r.body.services # None

\* The requests that a commit of r overtakes: they have read the row it
\* updates and not written it yet.
Overtakes(r) == {v \in Workers : /\ pc[v] = "write"
                                 /\ Table(req[v]) = Table(r)
                                 /\ req[v].incident = r.incident}

Goto(w, from, to) == pc[w] = from /\ pc' = [pc EXCEPT ![w] = to]

Respond(w, code) ==
    /\ pc' = [pc EXCEPT ![w] = "done"]
    /\ answer' = [answer EXCEPT ![w] = code]

Record(w) ==
    written' = written \cup {[op |-> req[w].op, incident |-> req[w].incident]}

-----------------------------------------------------------------------------
Init ==
    /\ backend \in Backends
    /\ role \in [Users -> GrantedRoles \cup {None}]
    /\ incidents = [i \in Incidents |-> None]
    /\ services = [i \in Incidents |-> {}]
    /\ tasks = [i \in Incidents |-> None]
    /\ lock = [x \in {"incident", "task"} \X Incidents |-> None]
    /\ audit = {}
    /\ pc = [w \in Workers |-> "idle"]
    /\ req = [w \in Workers |-> None]
    /\ seen = [w \in Workers |-> None]
    /\ row = [w \in Workers |-> None]
    /\ dropped = [w \in Workers |-> {}]
    /\ answer = [w \in Workers |-> None]
    /\ held = [i \in Incidents |-> {}]
    /\ written = {}
    /\ overtaken = {}

(* The handler has parsed the request and calls the service.  An incident  *)
(* and, in this model, its task slot are created once: a request that      *)
(* creates one has a fresh id, which no row and no other request has.      *)
Receive(w, r) ==
    /\ \/ r.op \notin {"create", "task"}
       \/ r.op = "create" /\ incidents[r.incident] = None
       \/ r.op = "task" /\ tasks[r.incident] = None
    /\ r.op \in {"create", "task"} =>
           ~\E v \in Workers : /\ pc[v] # "idle"
                               /\ req[v].op = r.op
                               /\ req[v].incident = r.incident
    /\ Goto(w, "idle", "membership")
    /\ req' = [req EXCEPT ![w] = r]
    /\ UNCHANGED <<backend, role, dbVars, audit, localVars, history>>

(* requireMembership; createIncident asserts its permission right away. *)
ReadMembership(w) ==
    LET r == req[w]
        current == role[r.user] IN
    /\ pc[w] = "membership"
    /\ seen' = [seen EXCEPT ![w] = current]
    /\ \/ current = None /\ Respond(w, "404")
       \/ /\ current # None /\ r.op = "create" /\ ~MayDo(r, current)
          /\ Respond(w, "403")
       \/ /\ current # None /\ r.op = "create" /\ MayDo(r, current)
          /\ Goto(w, "membership", "insert") /\ UNCHANGED answer
       \/ /\ current # None /\ r.op # "create"
          /\ Goto(w, "membership", "find") /\ UNCHANGED answer
    /\ UNCHANGED <<backend, role, dbVars, audit, req, row, dropped, history>>

(* findIncidentById, then the checks on what it returned, in their order:  *)
(* existence, status transition, permission.                               *)
FindIncident(w) ==
    LET r == req[w]
        found == incidents[r.incident]
        legal == r.op = "patch" /\ r.body.status # None
                   => AllowedTransition(found.status, r.body.status) IN
    /\ pc[w] = "find"
    /\ \/ found = None /\ Respond(w, "404")
       \/ /\ found # None /\ r.op = "task_patch"
          /\ Goto(w, "find", "findTask") /\ UNCHANGED answer
       \/ found # None /\ ~legal /\ Respond(w, "400")
       \/ /\ found # None /\ legal /\ r.op # "task_patch" /\ ~MayDo(r, seen[w])
          /\ Respond(w, "403")
       \/ /\ found # None /\ legal /\ r.op # "task_patch" /\ MayDo(r, seen[w])
          /\ Goto(w, "find", IF r.op = "patch" THEN "update" ELSE "insert")
          /\ UNCHANGED answer
    /\ UNCHANGED <<backend, role, dbVars, audit, req, seen, row, dropped,
                   history>>

\* Mutant: the permission is asserted before the task is known to exist.
FindTaskAfterPermission(w) ==
    LET r == req[w] IN
    /\ pc[w] = "findTask"
    /\ \/ ~MayDo(r, seen[w]) /\ Respond(w, "403")
       \/ MayDo(r, seen[w]) /\ tasks[r.incident] = None /\ Respond(w, "404")
       \/ /\ MayDo(r, seen[w]) /\ tasks[r.incident] # None
          /\ Goto(w, "findTask", "update") /\ UNCHANGED answer
    /\ UNCHANGED <<backend, role, dbVars, audit, req, seen, row, dropped,
                   history>>

(* updateTask: findTaskById, then the permission. *)
FindTask(w) ==
    LET r == req[w]
        found == tasks[r.incident] IN
    /\ pc[w] = "findTask"
    /\ \/ found = None /\ Respond(w, "404")
       \/ found # None /\ ~MayDo(r, seen[w]) /\ Respond(w, "403")
       \/ /\ found # None /\ MayDo(r, seen[w])
          /\ Goto(w, "findTask", "update") /\ UNCHANGED answer
    /\ UNCHANGED <<backend, role, dbVars, audit, req, seen, row, dropped,
                   history>>

-----------------------------------------------------------------------------
(* One-transaction inserts.                                                *)

(* createIncident: the row, declared, and its services. *)
CreateIncident(w) ==
    LET r == req[w] IN
    /\ Goto(w, "insert", "audit")
    /\ r.op = "create"
    /\ incidents' = [incidents EXCEPT ![r.incident] =
                       [status |-> "declared", severity |-> r.body.severity]]
    /\ services' = [services EXCEPT ![r.incident] = r.body.services]
    /\ held' = [held EXCEPT ![r.incident] = @ \cup {"declared"}]
    /\ Record(w)
    /\ UNCHANGED <<backend, role, tasks, lock, audit, req, localVars,
                   overtaken>>

(* createTask: the task is open. *)
CreateTask(w) ==
    LET r == req[w] IN
    /\ Goto(w, "insert", "audit")
    /\ r.op = "task"
    /\ tasks' = [tasks EXCEPT ![r.incident] =
                   [status |-> "open", assignee |-> r.body.assignee]]
    /\ Record(w)
    /\ UNCHANGED <<backend, role, incidents, services, lock, audit, req,
                   localVars, held, overtaken>>

\* An entry of an append-only log, which "written" stands for.
AppendEntry(w, ops) ==
    /\ Goto(w, "insert", "audit")
    /\ req[w].op \in ops
    /\ Record(w)
    /\ UNCHANGED <<backend, role, dbVars, audit, req, localVars, held,
                   overtaken>>

AddTimelineEvent(w) == AppendEntry(w, {"timeline"})
PublishStatusUpdate(w) ==
    AppendEntry(w, {"publish_internal", "publish_external"})

-----------------------------------------------------------------------------
(* updateIncident and updateTask.                                          *)

(* The in-memory repository assigns the named fields in one go. *)
MemoryUpdateIncident(w) ==
    LET r == req[w] IN
    /\ backend = "memory"
    /\ Goto(w, "update", "audit")
    /\ r.op = "patch"
    /\ incidents' = [incidents EXCEPT ![r.incident] = MergedIncident(r.body, @)]
    /\ services' = IF NamesServices(r)
                   THEN [services EXCEPT ![r.incident] = r.body.services]
                   ELSE services
    /\ held' = [held EXCEPT ![r.incident] =
                  @ \cup {incidents'[r.incident].status}]
    /\ Record(w)
    /\ UNCHANGED <<backend, role, tasks, lock, audit, req, localVars,
                   overtaken>>

MemoryUpdateTask(w) ==
    LET r == req[w] IN
    /\ backend = "memory"
    /\ Goto(w, "update", "audit")
    /\ r.op = "task_patch"
    /\ tasks' = [tasks EXCEPT ![r.incident] = MergedTask(r.body, @)]
    /\ Record(w)
    /\ UNCHANGED <<backend, role, incidents, services, lock, audit, req,
                   localVars, held, overtaken>>

(* Postgres, first statement: SELECT without FOR UPDATE. *)
SelectRow(w) ==
    /\ backend = "postgres"
    /\ Goto(w, "update", "write")
    /\ row' = [row EXCEPT ![w] = Current(req[w])]
    /\ UNCHANGED <<backend, role, dbVars, audit, req, seen, dropped, answer,
                   history>>

\* Mutant: nothing holds the incident row while its services are replaced.
UpdateRowUnlocked(w) ==
    LET r == req[w] IN
    /\ Goto(w, "write", IF NamesServices(r) THEN "services" ELSE "commit")
    /\ row' = [row EXCEPT ![w] = Merged(r, @)]
    /\ UNCHANGED <<backend, role, dbVars, audit, req, seen, dropped, answer,
                   history>>

(* UPDATE of every column; it waits for the row lock and keeps it. *)
UpdateRow(w) ==
    LET r == req[w]
        key == <<Table(r), r.incident>> IN
    /\ Goto(w, "write", IF NamesServices(r) THEN "services" ELSE "commit")
    /\ lock[key] = None
    /\ lock' = [lock EXCEPT ![key] = w]
    /\ row' = [row EXCEPT ![w] = Merged(r, @)]
    /\ UNCHANGED <<backend, role, incidents, services, tasks, audit, req,
                   seen, dropped, answer, history>>

(* replaceIncidentServices: DELETE of the committed rows it sees, and the  *)
(* INSERTs, visible to others at the commit.                               *)
ReplaceServices(w) ==
    /\ Goto(w, "services", "commit")
    /\ dropped' = [dropped EXCEPT ![w] = services[req[w].incident]]
    /\ UNCHANGED <<backend, role, dbVars, audit, req, seen, row, answer,
                   history>>

\* Mutant: the handler goes on after a transaction that rolled back.
CommitIgnoringRollback(w) ==
    /\ Goto(w, "commit", "audit")
    /\ lock' = [lock EXCEPT ![<<Table(req[w]), req[w].incident>>] = None]
    /\ UNCHANGED <<backend, role, incidents, services, tasks, audit, req,
                   localVars, history>>

Commit(w) ==
    LET r == req[w] IN
    /\ Goto(w, "commit", "audit")
    /\ IF r.op = "patch"
       THEN /\ incidents' = [incidents EXCEPT ![r.incident] = row[w]]
            /\ held' = [held EXCEPT ![r.incident] = @ \cup {row[w].status}]
            /\ UNCHANGED tasks
       ELSE /\ tasks' = [tasks EXCEPT ![r.incident] = row[w]]
            /\ UNCHANGED <<incidents, held>>
    /\ services' = IF NamesServices(r)
                   THEN [services EXCEPT ![r.incident] =
                           (@ \ dropped[w]) \cup r.body.services]
                   ELSE services
    /\ lock' = [lock EXCEPT ![<<Table(r), r.incident>>] = None]
    /\ Record(w)
    /\ overtaken' = (overtaken \ {w}) \cup Overtakes(r)
    /\ UNCHANGED <<backend, role, audit, req, localVars>>

-----------------------------------------------------------------------------
(* recordSafely, after the mutation has committed. *)
Audit(w) ==
    /\ pc[w] = "audit"
    /\ audit' = audit \cup {[op |-> req[w].op, incident |-> req[w].incident]}
    /\ Respond(w, "200")
    /\ UNCHANGED <<backend, role, dbVars, req, seen, row, dropped, history>>

(* The audit insert fails: the error is logged and swallowed. *)
AuditLost(w) ==
    /\ backend = "postgres"
    /\ pc[w] = "audit"
    /\ Respond(w, "200")
    /\ UNCHANGED <<backend, role, dbVars, audit, req, seen, row, dropped,
                   history>>

\* Mutant: the transaction is never ended.
EndKeepsLock(w) ==
    /\ pc' = [pc EXCEPT ![w] = "idle"]
    /\ req' = [req EXCEPT ![w] = None]
    /\ seen' = [seen EXCEPT ![w] = None]
    /\ row' = [row EXCEPT ![w] = None]
    /\ dropped' = [dropped EXCEPT ![w] = {}]
    /\ answer' = [answer EXCEPT ![w] = None]
    /\ overtaken' = overtaken \ {w}
    /\ UNCHANGED lock

\* The request is over; its local variables and its transaction are gone.
End(w) ==
    /\ pc' = [pc EXCEPT ![w] = "idle"]
    /\ req' = [req EXCEPT ![w] = None]
    /\ seen' = [seen EXCEPT ![w] = None]
    /\ row' = [row EXCEPT ![w] = None]
    /\ dropped' = [dropped EXCEPT ![w] = {}]
    /\ answer' = [answer EXCEPT ![w] = None]
    /\ lock' = [x \in DOMAIN lock |-> IF lock[x] = w THEN None ELSE lock[x]]
    /\ overtaken' = overtaken \ {w}

Finish(w) ==
    /\ pc[w] = "done"
    /\ End(w)
    /\ UNCHANGED <<backend, role, incidents, services, tasks, audit, held,
                   written>>

(* A statement fails (the CHECK on end_time, a lost connection) or the     *)
(* process dies: withTransaction rolls back, the client sees a 500.        *)
Die(w) ==
    /\ backend = "postgres"
    /\ pc[w] \notin {"idle", "done"}
    /\ End(w)
    /\ UNCHANGED <<backend, role, incidents, services, tasks, audit, held,
                   written>>

(* Another request accepts an invite: it grants, or overwrites, a role. *)
Grant(u, g) ==
    /\ role[u] # g
    /\ role' = [role EXCEPT ![u] = g]
    /\ UNCHANGED <<backend, dbVars, audit, pc, req, localVars, history>>

Handle(w) ==
    \/ ReadMembership(w) \/ FindIncident(w) \/ FindTask(w)
    \/ CreateIncident(w) \/ CreateTask(w)
    \/ AddTimelineEvent(w) \/ PublishStatusUpdate(w)
    \/ MemoryUpdateIncident(w) \/ MemoryUpdateTask(w)
    \/ SelectRow(w) \/ UpdateRow(w) \/ ReplaceServices(w) \/ Commit(w)
    \/ Audit(w) \/ Finish(w)

Next ==
    \/ \E w \in Workers :
           \/ \E r \in Requests : Receive(w, r)
           \/ Handle(w) \/ AuditLost(w) \/ Die(w)
    \/ \E u \in Users, g \in GrantedRoles : Grant(u, g)

(* Node runs every ready continuation; Postgres queues lock waiters. *)
Fairness == \A w \in Workers : WF_vars(Handle(w)) /\ SF_vars(UpdateRow(w))

Spec == Init /\ [][Next]_vars
FairSpec == Spec /\ Fairness

-----------------------------------------------------------------------------
TypeOK ==
    /\ backend \in Backends
    /\ role \in [Users -> OrgRoles \cup {None}]
    /\ incidents \in [Incidents -> IncidentRow \cup {None}]
    /\ tasks \in [Incidents -> TaskRow \cup {None}]
    /\ lock \in [{"incident", "task"} \X Incidents -> Workers \cup {None}]
    /\ audit \subseteq [op : Ops, incident : Incidents]
    /\ pc \in [Workers -> {"idle", "membership", "find", "findTask", "insert",
                           "update", "write", "services", "commit", "audit",
                           "done"}]
    /\ req \in [Workers -> Requests \cup {None}]
    /\ seen \in [Workers -> OrgRoles \cup {None}]
    /\ row \in [Workers -> IncidentRow \cup TaskRow \cup {None}]
    /\ answer \in [Workers -> Answers \cup {None}]
    /\ held \in [Incidents -> SUBSET Statuses]
    /\ written \subseteq [op : Ops, incident : Incidents]
    /\ overtaken \subseteq Workers

(* The transition check is made on a read that is stale by the time the    *)
(* patch is written.  What survives any interleaving: an incident only     *)
(* ever gets a status that is a legal move from one it had before (so only *)
(* an incident that was resolved at some time is ever closed).             *)
LegalOrigin ==
    \A i \in Incidents : \A s \in held[i] \ {"declared"} :
        \E p \in held[i] : s \in Transitions[p]

(* Statuses move only along STATUS_TRANSITIONS, and an incident is         *)
(* declared once: what the 400 of the PATCH handler promises.  It holds    *)
(* when the requests on an incident do not overlap.                        *)
LifecycleKept == Lifecycle!Spec

(* An update changes only the fields its payload names, to what it names,  *)
(* whatever else is running, but for one case: a Postgres request that     *)
(* another one's commit overtook between its SELECT and its UPDATE writes  *)
(* back the columns it had read.  An update that waits for its row from    *)
(* the first statement, or any in memory, loses nothing of another's.      *)
NamedBy(w, op, i, field, value) ==
    /\ pc[w] \in {"update", "commit"}
    /\ req[w].op = op /\ req[w].incident = i
    /\ req[w].body[field] = value \/ w \in overtaken

UnnamedFieldsKept ==
    [][\A i \in Incidents :
         /\ incidents[i] # None => \A f \in DOMAIN incidents[i] :
              incidents'[i][f] # incidents[i][f] =>
                \E w \in Workers : /\ pc'[w] = "audit"
                                   /\ NamedBy(w, "patch", i, f, incidents'[i][f])
         /\ tasks[i] # None => \A f \in DOMAIN tasks[i] :
              tasks'[i][f] # tasks[i][f] =>
                \E w \in Workers : /\ pc'[w] = "audit"
                                   /\ NamedBy(w, "task_patch", i, f, tasks'[i][f])
      ]_vars

(* The service list of an incident is the list of one request, never a mix *)
(* of two: the DELETE and INSERTs of replaceIncidentServices run under the *)
(* row lock the UPDATE took before them.                                   *)
ServicesWhole ==
    \A i \in Incidents : incidents[i] # None =>
        \E r \in Requests : /\ r.op \in {"create", "patch"} /\ r.incident = i
                            /\ services[i] = r.body.services

(* Viewers and Billing members never change anything, and no Responder     *)
(* publishes an external update: the service never tells authorize() of    *)
(* incident roles, which the policy demands of Responders.                 *)
WritersAllowed ==
    [][\A w \in Workers : pc'[w] = "audit" /\ pc[w] # "audit" =>
         /\ seen[w] \in {"Owner", "Admin", "Responder"}
         /\ req[w].op = "publish_external" => seen[w] # "Responder"]_vars

(* "403 only when object existence is established": a refused request on   *)
(* an incident or a task is one whose target is there.                     *)
ForbiddenOnlyIfExists ==
    \A w \in Workers :
        answer[w] = "403" /\ req[w].op # "create" =>
            /\ incidents[req[w].incident] # None
            /\ req[w].op = "task_patch" => tasks[req[w].incident] # None

(* "Sensitive actions write audit log entries", and nothing else does: an  *)
(* entry is only written for what has been committed, also when statements *)
(* fail and processes die.  (The converse does not hold: recordSafely      *)
(* swallows a failed insert, and a crash after the commit leaves none.)    *)
AuditTrue == audit \subseteq written

(* Every request is answered: no transaction waits for a row lock forever, *)
(* whatever the others do and however they end.                            *)
RequestsAnswered == \A w \in Workers : pc[w] = "membership" ~> pc[w] = "idle"
=============================================================================
