----------------------- MODULE IncidentWrites_proofs -----------------------
(***************************************************************************)
(* Proofs about IncidentWrites for any requests, users, incidents and      *)
(* either back end.                                                        *)
(*                                                                         *)
(* IInv is what a worker knows of the row it updates: type correctness and *)
(* LegalOrigin, what is left of the lifecycle when requests overlap.       *)
(* JobInv adds what a worker has established on its way: who may write,    *)
(* who holds a lock, which ids are fresh.  Reading is that a row read is   *)
(* still so until another commit overtakes the request.  Serial is what    *)
(* overlapping requests lose, and with it the refinement of                *)
(* IncidentLifecycle.                                                      *)
(***************************************************************************)
EXTENDS IncidentWrites, FiniteSetTheorems, TLAPS

\* Incident i has had status s, or a status from which s is a legal move.
Reachable(i, s) == s \in held[i] \/ \E p \in held[i] : s \in Transitions[p]

\* The status an incident has is one of those it has had.
CurrentHeld ==
    \A i \in Incidents : incidents[i] # None => incidents[i].status \in held[i]

\* What worker w knows while it updates a row: the row exists, the status
\* its request names was checked, and so is the status it is about to write.
Updating(w) == pc[w] \in {"update", "write", "services", "commit"}

PatchKnows(w) ==
    LET i == req[w].incident IN
    /\ incidents[i] \in IncidentRow
    /\ req[w].body.status # None => Reachable(i, req[w].body.status)
    /\ pc[w] = "write" => row[w] \in IncidentRow /\ row[w].status \in held[i]
    /\ pc[w] \in {"services", "commit"} =>
           row[w] \in IncidentRow /\ Reachable(i, row[w].status)

TaskPatchKnows(w) ==
    /\ tasks[req[w].incident] \in TaskRow
    /\ pc[w] \in {"write", "services", "commit"} => row[w] \in TaskRow

Knows(w) ==
    /\ pc[w] # "idle" => req[w] \in Requests
    /\ pc[w] = "findTask" => req[w].op = "task_patch"
    /\ Updating(w) => \/ req[w].op = "patch" /\ PatchKnows(w)
                      \/ req[w].op = "task_patch" /\ TaskPatchKnows(w)

IInv == TypeOK /\ CurrentHeld /\ LegalOrigin /\ \A w \in Workers : Knows(w)

-----------------------------------------------------------------------------
(* What every step does to the rows and the statuses ever held: nothing is *)
(* deleted or forgotten.                                                   *)
Grows ==
    \A i \in Incidents :
        /\ held[i] \subseteq held'[i]
        /\ incidents[i] \in IncidentRow => incidents'[i] \in IncidentRow
        /\ tasks[i] \in TaskRow => tasks'[i] \in TaskRow

(* A worker that does not move keeps what it knows. *)
LEMMA KnowsFrame ==
    ASSUME NEW v \in Workers, Knows(v), Grows,
           pc'[v] = pc[v], req'[v] = req[v], row'[v] = row[v]
    PROVE  Knows(v)'
  <1>1. CASE Updating(v)
    <2>1. req[v] \in Requests /\ req[v].incident \in Incidents
      BY <1>1, RequestAssumption DEF Knows, Updating
    <2>2. \A s : Reachable(req[v].incident, s) => Reachable(req[v].incident, s)'
      BY <2>1 DEF Grows, Reachable
    <2>3. QED
      BY <1>1, <2>1, <2>2
         DEF Knows, Updating, PatchKnows, TaskPatchKnows, Grows, Reachable
  <1>2. CASE ~Updating(v)
    BY <1>2 DEF Knows, Updating
  <1>3. QED
    BY <1>1, <1>2

(* A merged row is a row. *)
LEMMA MergedTyped ==
    ASSUME NEW r \in Requests
    PROVE  /\ r.op = "patch" => \A c \in IncidentRow :
                 /\ MergedIncident(r.body, c) \in IncidentRow
                 /\ MergedIncident(r.body, c).status
                      = IF r.body.status = None THEN c.status ELSE r.body.status
           /\ r.op = "task_patch" => \A c \in TaskRow :
                 MergedTask(r.body, c) \in TaskRow
  BY RequestAssumption
     DEF MergedIncident, MergedTask, Coalesce, IncidentRow, TaskRow

LEMMA InitIInv == Init => IInv
  <1> SUFFICES ASSUME Init PROVE IInv
    OBVIOUS
  <1>1. TypeOK
    BY RoleAssumption DEF Init, TypeOK
  <1>2. CurrentHeld /\ LegalOrigin
    BY DEF Init, CurrentHeld, LegalOrigin
  <1>3. \A w \in Workers : Knows(w)
    BY DEF Init, Knows, Updating
  <1>4. QED
    BY <1>1, <1>2, <1>3 DEF IInv

-----------------------------------------------------------------------------
(* Type correctness of a step. *)
LEMMA TypeStep == IInv /\ [Next]_vars => TypeOK'
  <1> SUFFICES ASSUME IInv, [Next]_vars PROVE TypeOK'
    OBVIOUS
  <1>a. TypeOK /\ \A w \in Workers : Knows(w)
    BY DEF IInv
  <1> USE DEF TypeOK, Answers, Goto, Respond, localVars, dbVars, history
  <1>1. ASSUME NEW w \in Workers, NEW r \in Requests, Receive(w, r)
        PROVE  TypeOK'
    BY <1>a, <1>1 DEF Receive
  <1>2. ASSUME NEW w \in Workers, ReadMembership(w)
        PROVE  TypeOK'
    <2>1. req[w] \in Requests
      BY <1>a, <1>2 DEF ReadMembership, Knows
    <2>2. role[req[w].user] \in OrgRoles \cup {None}
      BY <2>1, <1>a, RequestAssumption
    <2>3. QED
      BY <1>a, <1>2, <2>2 DEF ReadMembership
  <1>3. ASSUME NEW w \in Workers, FindIncident(w)
        PROVE  TypeOK'
    BY <1>a, <1>3 DEF FindIncident
  <1>4. ASSUME NEW w \in Workers, FindTask(w)
        PROVE  TypeOK'
    BY <1>a, <1>4 DEF FindTask
  <1>b. ASSUME NEW w \in Workers, pc[w] # "idle", Record(w)
        PROVE  written' \subseteq [op : Ops, incident : Incidents]
    BY <1>a, <1>b, RequestAssumption DEF Record, Knows
  <1>5. ASSUME NEW w \in Workers, CreateIncident(w)
        PROVE  TypeOK'
    <2>1. req[w] \in Requests /\ req[w].op = "create"
      BY <1>a, <1>5 DEF CreateIncident, Knows
    <2>2. /\ [status |-> "declared", severity |-> req[w].body.severity]
               \in IncidentRow
          /\ "declared" \in Statuses
      BY <2>1, RequestAssumption DEF IncidentRow, Statuses
    <2>3. QED
      BY <1>a, <1>b, <1>5, <2>2 DEF CreateIncident
  <1>6. ASSUME NEW w \in Workers, CreateTask(w)
        PROVE  TypeOK'
    <2>1. req[w] \in Requests /\ req[w].op = "task"
      BY <1>a, <1>6 DEF CreateTask, Knows
    <2>2. [status |-> "open", assignee |-> req[w].body.assignee] \in TaskRow
      BY <2>1, RequestAssumption DEF TaskRow, TaskStatuses
    <2>3. QED
      BY <1>a, <1>b, <1>6, <2>2 DEF CreateTask
  <1>7. ASSUME NEW w \in Workers, AddTimelineEvent(w) \/ PublishStatusUpdate(w)
        PROVE  TypeOK'
    BY <1>a, <1>b, <1>7 DEF AddTimelineEvent, PublishStatusUpdate, AppendEntry
  <1>8. ASSUME NEW w \in Workers, MemoryUpdateIncident(w)
        PROVE  TypeOK'
    <2>1. /\ req[w] \in Requests /\ req[w].incident \in Incidents
          /\ MergedIncident(req[w].body, incidents[req[w].incident])
                 \in IncidentRow
      BY <1>a, <1>8, MergedTyped, RequestAssumption
         DEF MemoryUpdateIncident, Knows, Updating, PatchKnows
    <2>2. incidents' \in [Incidents -> IncidentRow \cup {None}]
      BY <1>a, <1>8, <2>1 DEF MemoryUpdateIncident, IncidentRow
    <2>3. incidents'[req[w].incident].status \in Statuses
      BY <1>a, <1>8, <2>1 DEF MemoryUpdateIncident, IncidentRow
    <2>4. QED
      BY <1>a, <1>b, <1>8, <2>2, <2>3 DEF MemoryUpdateIncident, IncidentRow
  <1>9. ASSUME NEW w \in Workers, MemoryUpdateTask(w)
        PROVE  TypeOK'
    <2>1. /\ req[w] \in Requests /\ req[w].incident \in Incidents
          /\ MergedTask(req[w].body, tasks[req[w].incident]) \in TaskRow
      BY <1>a, <1>9, MergedTyped, RequestAssumption
         DEF MemoryUpdateTask, Knows, Updating, TaskPatchKnows
    <2>2. tasks' \in [Incidents -> TaskRow \cup {None}]
      BY <1>a, <1>9, <2>1 DEF MemoryUpdateTask, TaskRow
    <2>3. QED
      BY <1>a, <1>b, <1>9, <2>2 DEF MemoryUpdateTask, TaskRow
  <1>10. ASSUME NEW w \in Workers, SelectRow(w) \/ ReplaceServices(w)
         PROVE  TypeOK'
    <2>1. req[w].incident \in Incidents
      BY <1>a, <1>10, RequestAssumption DEF SelectRow, ReplaceServices, Knows
    <2>2. Current(req[w]) \in IncidentRow \cup TaskRow \cup {None}
      BY <1>a, <2>1 DEF Current
    <2>3. CASE SelectRow(w)
      BY <1>a, <2>2, <2>3 DEF SelectRow
    <2>4. CASE ReplaceServices(w)
      BY <1>a, <2>4 DEF ReplaceServices
    <2>5. QED
      BY <1>10, <2>3, <2>4
  <1>11. ASSUME NEW w \in Workers, UpdateRow(w)
         PROVE  TypeOK'
    <2>1. Merged(req[w], row[w]) \in IncidentRow \cup TaskRow
      BY <1>a, <1>11, MergedTyped
         DEF UpdateRow, Merged, Knows, Updating, PatchKnows, TaskPatchKnows
    <2>2. QED
      BY <1>a, <1>11, <2>1 DEF UpdateRow
  <1>12. ASSUME NEW w \in Workers, Commit(w)
         PROVE  TypeOK'
    <2>1. /\ req[w] \in Requests /\ req[w].incident \in Incidents
          /\ req[w].op = "patch" => row[w] \in IncidentRow
          /\ req[w].op # "patch" => row[w] \in TaskRow
      BY <1>a, <1>12, RequestAssumption
         DEF Commit, Knows, Updating, PatchKnows, TaskPatchKnows
    <2>2. incidents' \in [Incidents -> IncidentRow \cup {None}]
      BY <1>a, <1>12, <2>1 DEF Commit, IncidentRow
    <2>3. tasks' \in [Incidents -> TaskRow \cup {None}]
      BY <1>a, <1>12, <2>1 DEF Commit, TaskRow
    <2>4. held' \in [Incidents -> SUBSET Statuses]
      BY <1>a, <1>12, <2>1 DEF Commit, IncidentRow
    <2>5. lock' \in [{"incident", "task"} \X Incidents -> Workers \cup {None}]
      BY <1>a, <1>12 DEF Commit
    <2>6. written' \subseteq [op : Ops, incident : Incidents]
      BY <1>b, <1>12 DEF Commit
    <2>7. QED
      BY <1>a, <1>12, <2>2, <2>3, <2>4, <2>5, <2>6
         DEF Commit, IncidentRow, TaskRow, Overtakes
  <1>13. ASSUME NEW w \in Workers, Audit(w)
         PROVE  TypeOK'
    <2>1. req[w] \in Requests
      BY <1>a, <1>13 DEF Audit, Knows
    <2>2. QED
      BY <1>a, <1>13, <2>1, RequestAssumption DEF Audit
  <1>14. ASSUME NEW w \in Workers, AuditLost(w)
         PROVE  TypeOK'
    BY <1>a, <1>14 DEF AuditLost
  <1>15. ASSUME NEW w \in Workers, Finish(w) \/ Die(w)
         PROVE  TypeOK'
    <2>1. /\ End(w)
          /\ UNCHANGED <<backend, role, incidents, services, tasks, audit, held,
                         written>>
      BY <1>15 DEF Finish, Die
    <2>2. QED
      BY <1>a, <2>1 DEF End
  <1>16. ASSUME NEW u \in Users, NEW g \in GrantedRoles, Grant(u, g)
         PROVE  TypeOK'
    BY <1>a, <1>16, RoleAssumption DEF Grant
  <1>17. CASE UNCHANGED vars
    BY <1>a, <1>17 DEF vars
  <1>18. QED
    BY <1>1, <1>2, <1>3, <1>4, <1>5, <1>6, <1>7, <1>8, <1>9, <1>10, <1>11,
       <1>12, <1>13, <1>14, <1>15, <1>16, <1>17 DEF Next, Handle

-----------------------------------------------------------------------------
(* The steps that leave rows and statuses alone. *)
LEMMA QuietStep ==
    ASSUME IInv, UNCHANGED <<incidents, tasks, held>>
    PROVE  Grows /\ CurrentHeld' /\ LegalOrigin'
  BY DEF IInv, Grows, CurrentHeld, LegalOrigin

(* An incident's row gets a status that is reachable. *)
LEMMA StatusStep ==
    ASSUME IInv, TypeOK', NEW i \in Incidents, NEW new \in IncidentRow,
           incidents' = [incidents EXCEPT ![i] = new],
           held' = [held EXCEPT ![i] = @ \cup {new.status}],
           UNCHANGED tasks,
           new.status = "declared" \/ Reachable(i, new.status)
    PROVE  Grows /\ CurrentHeld' /\ LegalOrigin'
  <1>1. /\ incidents \in [Incidents -> IncidentRow \cup {None}]
        /\ held \in [Incidents -> SUBSET Statuses]
    BY DEF IInv, TypeOK, IncidentRow
  <1>2. Grows
    BY <1>1 DEF Grows
  <1>3. CurrentHeld'
    BY <1>1 DEF IInv, CurrentHeld
  <1>4. LegalOrigin'
    <2> SUFFICES ASSUME NEW j \in Incidents, NEW s \in held'[j] \ {"declared"}
                 PROVE  \E p \in held'[j] : s \in Transitions[p]
      BY DEF LegalOrigin
    <2>1. CASE s \in held[j]
      BY <1>2, <2>1 DEF IInv, LegalOrigin, Grows
    <2>2. CASE s \notin held[j]
      <3>1. j = i /\ s = new.status
        BY <1>1, <2>2
      <3>2. \E p \in held[i] : s \in Transitions[p]
        BY <3>1, <2>2 DEF Reachable
      <3>3. QED
        BY <1>2, <3>1, <3>2 DEF Grows
    <2>3. QED
      BY <2>1, <2>2
  <1>5. QED
    BY <1>2, <1>3, <1>4

(* A task's row is written. *)
LEMMA TaskStep ==
    ASSUME IInv, NEW i \in Incidents, NEW new \in TaskRow,
           tasks' = [tasks EXCEPT ![i] = new], UNCHANGED <<incidents, held>>
    PROVE  Grows /\ CurrentHeld' /\ LegalOrigin'
  BY DEF IInv, TypeOK, Grows, CurrentHeld, LegalOrigin

(* A step that moves only worker w, which knows what it should. *)
LEMMA MoveStep ==
    ASSUME IInv, Grows, NEW w \in Workers, Knows(w)',
           \A v \in Workers \ {w} :
               pc'[v] = pc[v] /\ req'[v] = req[v] /\ row'[v] = row[v]
    PROVE  \A v \in Workers : Knows(v)'
  BY KnowsFrame DEF IInv

(* An update of the row a worker has in hand is an update with a status    *)
(* that was checked, or with the one the row had.                          *)
LEMMA MergedReachable ==
    ASSUME NEW w \in Workers, req[w] \in Requests, req[w].op = "patch",
           PatchKnows(w), NEW c \in IncidentRow,
           c.status \in held[req[w].incident]
    PROVE  /\ MergedIncident(req[w].body, c) \in IncidentRow
           /\ Reachable(req[w].incident, MergedIncident(req[w].body, c).status)
  BY MergedTyped DEF PatchKnows, Reachable

-----------------------------------------------------------------------------
LEMMA InvStep ==
    IInv /\ TypeOK' /\ [Next]_vars
        => /\ Grows
           /\ CurrentHeld' /\ LegalOrigin' /\ \A w \in Workers : Knows(w)'
  <1> DEFINE Kept == /\ Grows
                     /\ CurrentHeld' /\ LegalOrigin'
                     /\ \A v \in Workers : Knows(v)'
  <1> SUFFICES ASSUME IInv, TypeOK', [Next]_vars PROVE Kept
    OBVIOUS
  <1>a. /\ TypeOK /\ CurrentHeld /\ \A w \in Workers : Knows(w)
        /\ pc \in [Workers -> {"idle", "membership", "find", "findTask",
                               "insert", "update", "write", "services",
                               "commit", "audit", "done"}]
        /\ req \in [Workers -> Requests \cup {None}]
    BY DEF IInv, TypeOK
  <1> USE DEF Goto, Respond, localVars, dbVars, history
  \* A step of w that writes no row, after which w is not updating one.
  <1>b. ASSUME NEW w \in Workers, UNCHANGED <<incidents, tasks, held>>,
               Knows(w)',
               \A v \in Workers \ {w} :
                   pc'[v] = pc[v] /\ req'[v] = req[v] /\ row'[v] = row[v]
        PROVE  Kept
    BY <1>b, QuietStep, MoveStep
  <1>1. ASSUME NEW w \in Workers, NEW r \in Requests, Receive(w, r)
        PROVE  Kept
    <2>1. Knows(w)'
      BY <1>a, <1>1 DEF Receive, Knows, Updating
    <2>2. QED
      BY <1>a, <1>b, <1>1, <2>1 DEF Receive
  <1>2. ASSUME NEW w \in Workers, ReadMembership(w)
        PROVE  Kept
    <2>1. Knows(w)'
      BY <1>a, <1>2 DEF ReadMembership, Knows, Updating
    <2>2. QED
      BY <1>a, <1>b, <1>2, <2>1 DEF ReadMembership
  <1>3. ASSUME NEW w \in Workers, FindIncident(w)
        PROVE  Kept
    <2> DEFINE r == req[w]
               found == incidents[r.incident]
    <2>1. r \in Requests /\ r.incident \in Incidents
      BY <1>a, <1>3, RequestAssumption DEF FindIncident, Knows
    <2>2. UNCHANGED <<req, row, incidents, tasks, held>>
      BY <1>3 DEF FindIncident
    <2>3. ASSUME pc'[w] = "update" PROVE Knows(w)'
      <3>1. /\ found # None /\ r.op = "patch"
            /\ r.body.status # None
                 => AllowedTransition(found.status, r.body.status)
        BY <1>a, <1>3, <2>3 DEF FindIncident
      <3>2. found \in IncidentRow /\ found.status \in held[r.incident]
        BY <1>a, <2>1, <3>1 DEF TypeOK, IncidentRow, CurrentHeld
      <3>3. r.body.status # None => Reachable(r.incident, r.body.status)
        BY <3>1, <3>2 DEF AllowedTransition, Reachable
      <3>4. QED
        BY <2>1, <2>2, <2>3, <3>1, <3>2, <3>3
           DEF Knows, Updating, PatchKnows, Reachable
    <2>4. ASSUME pc'[w] # "update" PROVE Knows(w)'
      <3>1. /\ pc'[w] \in {"findTask", "insert", "done"}
            /\ pc'[w] = "findTask" => r.op = "task_patch"
        BY <1>a, <1>3, <2>4 DEF FindIncident
      <3>2. QED
        BY <2>1, <2>2, <3>1 DEF Knows, Updating
    <2>5. \A v \in Workers \ {w} : pc'[v] = pc[v]
      BY <1>a, <1>3 DEF FindIncident
    <2>6. QED
      BY <1>b, <2>2, <2>3, <2>4, <2>5
  <1>4. ASSUME NEW w \in Workers, FindTask(w)
        PROVE  Kept
    <2>1. /\ req[w] \in Requests /\ req[w].incident \in Incidents
          /\ req[w].op = "task_patch"
      BY <1>a, <1>4, RequestAssumption DEF FindTask, Knows
    <2>2. UNCHANGED <<req, row, incidents, tasks, held>>
      BY <1>4 DEF FindTask
    <2>3. ASSUME pc'[w] = "update" PROVE Knows(w)'
      <3>1. tasks[req[w].incident] \in TaskRow
        BY <1>a, <1>4, <2>1, <2>3 DEF FindTask, TypeOK, TaskRow
      <3>2. QED
        BY <2>1, <2>2, <2>3, <3>1 DEF Knows, Updating, TaskPatchKnows
    <2>4. ASSUME pc'[w] # "update" PROVE Knows(w)'
      <3>1. pc'[w] = "done"
        BY <1>a, <1>4, <2>4 DEF FindTask
      <3>2. QED
        BY <2>1, <2>2, <3>1 DEF Knows, Updating
    <2>5. \A v \in Workers \ {w} : pc'[v] = pc[v]
      BY <1>a, <1>4 DEF FindTask
    <2>6. QED
      BY <1>b, <2>2, <2>3, <2>4, <2>5
  \* A mutation is done: w goes on to its audit entry.
  <1>c. ASSUME NEW w \in Workers, pc[w] # "idle",
               pc' = [pc EXCEPT ![w] = "audit"], UNCHANGED <<req, row>>, Grows
        PROVE  \A v \in Workers : Knows(v)'
    <2>1. Knows(w)'
      BY <1>a, <1>c DEF Knows, Updating
    <2>2. QED
      BY <1>a, <1>c, <2>1, MoveStep
  <1>5. ASSUME NEW w \in Workers, CreateIncident(w)
        PROVE  Kept
    <2> DEFINE new == [status |-> "declared", severity |-> req[w].body.severity]
    <2>1. req[w] \in Requests /\ req[w].op = "create" /\ pc[w] # "idle"
      BY <1>a, <1>5 DEF CreateIncident, Knows
    <2>2. req[w].incident \in Incidents /\ new \in IncidentRow
      BY <2>1, RequestAssumption DEF Statuses, IncidentRow
    <2>3. /\ incidents' = [incidents EXCEPT ![req[w].incident] = new]
          /\ held' = [held EXCEPT ![req[w].incident] = @ \cup {new.status}]
          /\ UNCHANGED tasks
      BY <1>5 DEF CreateIncident
    <2> HIDE DEF new
    <2>4. new.status = "declared"
      BY DEF new
    <2>5. Grows /\ CurrentHeld' /\ LegalOrigin'
      BY <2>2, <2>3, <2>4, StatusStep
    <2>6. QED
      BY <1>5, <1>c, <2>1, <2>5 DEF CreateIncident
  <1>6. ASSUME NEW w \in Workers, CreateTask(w)
        PROVE  Kept
    <2> DEFINE new == [status |-> "open", assignee |-> req[w].body.assignee]
    <2>1. req[w] \in Requests /\ req[w].op = "task" /\ pc[w] # "idle"
      BY <1>a, <1>6 DEF CreateTask, Knows
    <2>2. req[w].incident \in Incidents /\ new \in TaskRow
      BY <2>1, RequestAssumption DEF TaskStatuses, TaskRow
    <2>3. Grows /\ CurrentHeld' /\ LegalOrigin'
      BY <1>6, <2>2, TaskStep DEF CreateTask
    <2>4. QED
      BY <1>6, <1>c, <2>1, <2>3 DEF CreateTask
  <1>7. ASSUME NEW w \in Workers, AddTimelineEvent(w) \/ PublishStatusUpdate(w)
        PROVE  Kept
    BY <1>c, <1>7, QuietStep
       DEF AddTimelineEvent, PublishStatusUpdate, AppendEntry
  <1>8. ASSUME NEW w \in Workers, MemoryUpdateIncident(w)
        PROVE  Kept
    <2> DEFINE i == req[w].incident
               new == MergedIncident(req[w].body, incidents[i])
    <2>1. /\ req[w] \in Requests /\ i \in Incidents /\ req[w].op = "patch"
          /\ PatchKnows(w) /\ pc[w] # "idle"
      BY <1>a, <1>8, RequestAssumption DEF MemoryUpdateIncident, Knows, Updating
    <2>2. incidents[i] \in IncidentRow /\ incidents[i].status \in held[i]
      BY <1>a, <2>1, NoneAssumption DEF PatchKnows, CurrentHeld
    <2>3. new \in IncidentRow /\ Reachable(i, new.status)
      BY <2>1, <2>2, MergedReachable
    <2>4. /\ incidents' = [incidents EXCEPT ![i] = new]
          /\ UNCHANGED <<tasks, req, row>>
      BY <1>8 DEF MemoryUpdateIncident
    <2>5. held' = [held EXCEPT ![i] = @ \cup {new.status}]
      <3>1. incidents'[i] = new
        BY <1>a, <2>1, <2>4 DEF TypeOK
      <3>2. QED
        BY <1>8, <3>1 DEF MemoryUpdateIncident
    <2> HIDE DEF new
    <2>6. Grows /\ CurrentHeld' /\ LegalOrigin'
      BY <2>1, <2>3, <2>4, <2>5, StatusStep
    <2>7. QED
      BY <1>8, <1>c, <2>1, <2>4, <2>6 DEF MemoryUpdateIncident
  <1>9. ASSUME NEW w \in Workers, MemoryUpdateTask(w)
        PROVE  Kept
    <2>1. /\ req[w] \in Requests /\ req[w].incident \in Incidents
          /\ req[w].op = "task_patch" /\ pc[w] # "idle"
          /\ tasks[req[w].incident] \in TaskRow
      BY <1>a, <1>9, RequestAssumption
         DEF MemoryUpdateTask, Knows, Updating, TaskPatchKnows
    <2>2. MergedTask(req[w].body, tasks[req[w].incident]) \in TaskRow
      BY <2>1, MergedTyped
    <2>3. Grows /\ CurrentHeld' /\ LegalOrigin'
      BY <1>9, <2>1, <2>2, TaskStep DEF MemoryUpdateTask
    <2>4. QED
      BY <1>9, <1>c, <2>1, <2>3 DEF MemoryUpdateTask
  <1>10. ASSUME NEW w \in Workers, SelectRow(w)
         PROVE  Kept
    <2> DEFINE i == req[w].incident
    <2>1. /\ req[w] \in Requests /\ i \in Incidents
          /\ \/ req[w].op = "patch" /\ PatchKnows(w)
             \/ req[w].op = "task_patch" /\ TaskPatchKnows(w)
      BY <1>a, <1>10, RequestAssumption DEF SelectRow, Knows, Updating
    <2>2. /\ UNCHANGED <<req, incidents, tasks, held>>
          /\ pc'[w] = "write" /\ row' = [row EXCEPT ![w] = Current(req[w])]
          /\ \A v \in Workers \ {w} : pc'[v] = pc[v] /\ row'[v] = row[v]
      BY <1>a, <1>10 DEF SelectRow
    <2>3. row'[w] = Current(req[w])
      BY <1>a, <2>2 DEF TypeOK
    <2>4. Knows(w)'
      <3>1. CASE req[w].op = "patch"
        <4>1. /\ PatchKnows(w) /\ row'[w] = incidents[i]
              /\ incidents[i] \in IncidentRow /\ incidents[i].status \in held[i]
          BY <1>a, <2>1, <2>3, <3>1, NoneAssumption
             DEF Current, PatchKnows, CurrentHeld
        <4>2. PatchKnows(w)'
          BY <2>2, <4>1 DEF PatchKnows, Reachable
        <4>3. QED
          BY <2>1, <2>2, <3>1, <4>2 DEF Knows, Updating
      <3>2. CASE req[w].op = "task_patch"
        <4>1. TaskPatchKnows(w)'
          BY <2>1, <2>2, <2>3, <3>2 DEF Current, TaskPatchKnows
        <4>2. QED
          BY <2>1, <2>2, <3>2, <4>1 DEF Knows, Updating
      <3>3. QED
        BY <2>1, <3>1, <3>2
    <2>5. QED
      BY <1>b, <2>2, <2>4
  <1>11. ASSUME NEW w \in Workers, UpdateRow(w)
         PROVE  Kept
    <2> DEFINE i == req[w].incident
    <2>1. /\ req[w] \in Requests /\ i \in Incidents /\ pc[w] = "write"
          /\ \/ req[w].op = "patch" /\ PatchKnows(w)
             \/ req[w].op = "task_patch" /\ TaskPatchKnows(w)
      BY <1>a, <1>11, RequestAssumption DEF UpdateRow, Knows, Updating
    <2>2. /\ UNCHANGED <<req, incidents, tasks, held>>
          /\ pc'[w] \in {"services", "commit"}
          /\ row'[w] = Merged(req[w], row[w])
          /\ \A v \in Workers \ {w} : pc'[v] = pc[v] /\ row'[v] = row[v]
      BY <1>a, <1>11 DEF UpdateRow, TypeOK
    <2>3. Knows(w)'
      <3>1. CASE req[w].op = "patch"
        <4>1. row'[w] \in IncidentRow /\ Reachable(i, row'[w].status)
          BY <2>1, <2>2, <3>1, MergedReachable DEF Merged, PatchKnows
        <4>2. PatchKnows(w)'
          BY <2>1, <2>2, <3>1, <4>1 DEF PatchKnows, Reachable
        <4>3. QED
          BY <2>1, <2>2, <3>1, <4>2 DEF Knows, Updating
      <3>2. CASE req[w].op = "task_patch"
        <4>1. row'[w] \in TaskRow
          BY <2>1, <2>2, <3>2, MergedTyped DEF Merged, TaskPatchKnows
        <4>2. TaskPatchKnows(w)'
          BY <2>1, <2>2, <3>2, <4>1 DEF TaskPatchKnows
        <4>3. QED
          BY <2>1, <2>2, <3>2, <4>2 DEF Knows, Updating
      <3>3. QED
        BY <2>1, <3>1, <3>2
    <2>4. QED
      BY <1>b, <2>2, <2>3
  <1>12. ASSUME NEW w \in Workers, ReplaceServices(w)
         PROVE  Kept
    <2>1. /\ UNCHANGED <<req, row, incidents, tasks, held>>
          /\ pc[w] = "services" /\ pc'[w] = "commit"
          /\ \A v \in Workers \ {w} : pc'[v] = pc[v]
      BY <1>a, <1>12 DEF ReplaceServices
    <2>2. Knows(w)'
      BY <1>a, <2>1
         DEF Knows, Updating, PatchKnows, TaskPatchKnows, Reachable
    <2>3. QED
      BY <1>b, <2>1, <2>2
  <1>13. ASSUME NEW w \in Workers, Commit(w)
         PROVE  Kept
    <2> DEFINE i == req[w].incident
    <2>1. /\ req[w] \in Requests /\ i \in Incidents /\ pc[w] # "idle"
          /\ \/ req[w].op = "patch" /\ row[w] \in IncidentRow
                /\ Reachable(i, row[w].status)
             \/ req[w].op = "task_patch" /\ row[w] \in TaskRow
      BY <1>a, <1>13, RequestAssumption
         DEF Commit, Knows, Updating, PatchKnows, TaskPatchKnows
    <2>2. Grows /\ CurrentHeld' /\ LegalOrigin'
      <3>1. CASE req[w].op = "patch"
        BY <1>13, <2>1, <3>1, StatusStep DEF Commit
      <3>2. CASE req[w].op = "task_patch"
        BY <1>13, <2>1, <3>2, TaskStep DEF Commit
      <3>3. QED
        BY <2>1, <3>1, <3>2
    <2>3. QED
      BY <1>13, <1>c, <2>1, <2>2 DEF Commit
  <1>14. ASSUME NEW w \in Workers, Audit(w) \/ AuditLost(w)
         PROVE  Kept
    <2>1. Knows(w)'
      BY <1>a, <1>14 DEF Audit, AuditLost, Knows, Updating
    <2>2. QED
      BY <1>a, <1>b, <1>14, <2>1 DEF Audit, AuditLost
  <1>15. ASSUME NEW w \in Workers, Finish(w) \/ Die(w)
         PROVE  Kept
    <2>1. /\ UNCHANGED <<incidents, tasks, held>> /\ pc'[w] = "idle"
          /\ \A v \in Workers \ {w} :
                 pc'[v] = pc[v] /\ req'[v] = req[v] /\ row'[v] = row[v]
      BY <1>a, <1>15 DEF Finish, Die, End, TypeOK
    <2>2. Knows(w)'
      BY <2>1 DEF Knows, Updating
    <2>3. QED
      BY <1>b, <2>1, <2>2
  <1>16. CASE \/ UNCHANGED vars
              \/ \E u \in Users, g \in GrantedRoles : Grant(u, g)
    <2>1. UNCHANGED <<incidents, tasks, held, pc, req, row>>
      BY <1>16 DEF vars, Grant
    <2>2. QED
      BY <1>a, <2>1, QuietStep, KnowsFrame
  <1>17. QED
    BY <1>1, <1>2, <1>3, <1>4, <1>5, <1>6, <1>7, <1>8, <1>9, <1>10, <1>11,
       <1>12, <1>13, <1>14, <1>15, <1>16 DEF Next, Handle

(* IInv holds in every state: the invariant the theorems below rest on. *)
THEOREM Invariance == Spec => []IInv
  <1>1. IInv /\ [Next]_vars => IInv'
    BY TypeStep, InvStep DEF IInv
  <1>2. QED
    BY InitIInv, <1>1, PTL DEF Spec

(* Every variable keeps its type, for any requests and either back end: in *)
(* particular what the repositories write is always a whole row.           *)
THEOREM TypeCorrect == Spec => []TypeOK
  <1>1. IInv => TypeOK
    BY DEF IInv
  <1>2. QED
    BY Invariance, <1>1, PTL

(* However requests overlap, updateIncident gives an incident only a       *)
(* status that is a legal move from one it has had.                        *)
THEOREM LegalOriginHolds == Spec => []LegalOrigin
  <1>1. IInv => LegalOrigin
    BY DEF IInv
  <1>2. QED
    BY Invariance, <1>1, PTL

-----------------------------------------------------------------------------
(* What a worker has established, besides what it knows of the row it      *)
(* updates.                                                                *)
Entry(w) == [op |-> req[w].op, incident |-> req[w].incident]

\* It will write, or is writing.
Writing(w) == pc[w] \in {"insert", "update", "write", "services", "commit"}

\* It is on its way to creating a row, with an id nobody else has.
Creating(w, op) ==
    /\ req[w].op = op
    /\ pc[w] \in {"membership", "find", "insert"}

Refused(w) ==
    /\ answer[w] = "403" => pc[w] = "done"
    /\ answer[w] = "403" /\ req[w].op # "create" =>
           /\ incidents[req[w].incident] # None
           /\ req[w].op = "task_patch" => tasks[req[w].incident] # None
    /\ pc[w] = "findTask" => incidents[req[w].incident] # None

Permitted(w) == Writing(w) => MayDo(req[w], seen[w])

Holding(w) ==
    /\ pc[w] \in {"write", "services", "commit"} => backend = "postgres"
    /\ pc[w] \in {"services", "commit"} =>
           lock[<<Table(req[w]), req[w].incident>>] = w
    /\ pc[w] = "commit" /\ NamesServices(req[w]) =>
           dropped[w] = services[req[w].incident]

Logged(w) == pc[w] = "audit" => Entry(w) \in written

FreshId(w) ==
    /\ Creating(w, "create") => incidents[req[w].incident] = None
    /\ Creating(w, "task") => tasks[req[w].incident] = None

OwnId ==
    \A v, w \in Workers : \A op \in {"create", "task"} :
        /\ Creating(v, op) /\ Creating(w, op)
        /\ req[v].incident = req[w].incident
        => v = w

Job(w) == Refused(w) /\ Permitted(w) /\ Holding(w) /\ Logged(w) /\ FreshId(w)

\* The two variables TypeOK does not mention are functions.
Shaped ==
    /\ services = [i \in Incidents |-> services[i]]
    /\ dropped = [w \in Workers |-> dropped[w]]

JobInv ==
    /\ IInv /\ Shaped /\ OwnId /\ AuditTrue /\ ServicesWhole
    /\ \A w \in Workers : Job(w)

-----------------------------------------------------------------------------
(* Every action of the service asks for a member of staff, and publishing  *)
(* externally, with no incident roles, for a manager.                      *)
LEMMA MayDoStaff ==
    ASSUME NEW r \in Requests, NEW g, MayDo(r, g)
    PROVE  /\ g \in Staff
           /\ r.op = "publish_external" => g # "Responder"
  <1>1. \E action \in Permissions(r) : action \in StaffActions
    <2>1. r.op \in Ops
      BY RequestAssumption
    <2>2. CASE r.op = "create"
      BY <2>2 DEF Permissions, StaffActions
    <2>3. CASE r.op = "patch"
      <3> DEFINE a == IF r.body.status \in {"resolved", "closed"}
                      THEN "incidents.resolve" ELSE "incidents.update"
      <3>1. a \in Permissions(r)
        BY <2>3 DEF Permissions
      <3>2. a \in StaffActions
        BY DEF StaffActions
      <3>3. QED
        BY <3>1, <3>2
    <2>4. CASE r.op \in {"timeline", "publish_internal"}
      BY <2>4 DEF Permissions, StaffActions
    <2>5. CASE r.op = "publish_external"
      BY <2>5 DEF Permissions, StaffActions
    <2>6. CASE r.op \in {"task", "task_patch"}
      BY <2>6 DEF Permissions, StaffActions
    <2>7. QED
      BY <2>1, <2>2, <2>3, <2>4, <2>5, <2>6 DEF Ops, ChildOps
  <1>2. ASSUME NEW action \in StaffActions
        PROVE  AllowedRoles(action) = Staff
    <2>1. /\ action \notin ManagerActions /\ action \notin PayerActions
          /\ action # "incidents.read" /\ action # "tenant.read"
      BY DEF StaffActions, ManagerActions, PayerActions
    <2>2. QED
      BY <2>1 DEF AllowedRoles
  <1>3. g \in Staff
    BY <1>1, <1>2 DEF MayDo, Authorize
  <1>4. ASSUME r.op = "publish_external" PROVE g # "Responder"
    <2>1. Authorize("updates.publish_external", {g}, {})
      BY <1>4 DEF MayDo, Permissions
    <2>2. ResponderIncidentRoles("updates.publish_external") = {"IC", "CL"}
      BY DEF ResponderIncidentRoles
    <2>3. QED
      BY <2>1, <2>2 DEF Authorize, HasRequiredIncidentRole
  <1>5. QED
    BY <1>3, <1>4

(* An update of a row is of one that exists, a creation of one that does   *)
(* not.                                                                    *)
LEMMA RowExists ==
    ASSUME JobInv, NEW w \in Workers
    PROVE  /\ pc[w] # "idle" => /\ req[w] \in Requests
                                /\ req[w].incident \in Incidents
           /\ Updating(w) /\ req[w].op = "patch"
                  => incidents[req[w].incident] # None
           /\ Updating(w) => req[w].op \in {"patch", "task_patch"}
           /\ Updating(w) /\ req[w].op = "task_patch"
                  => tasks[req[w].incident] # None
  BY NoneAssumption, RequestAssumption
     DEF JobInv, IInv, Knows, PatchKnows, TaskPatchKnows

-----------------------------------------------------------------------------
(* The rows a step of w may write, and when.                               *)
WritesOwn(w) ==
    \A i \in Incidents :
        /\ incidents'[i] # incidents[i] =>
               /\ i = req[w].incident
               /\ ~Updating(w) => pc[w] = "insert" /\ req[w].op = "create"
               /\ pc[w] = "insert" \/ req[w].op = "patch"
        /\ tasks'[i] # tasks[i] =>
               /\ i = req[w].incident
               /\ ~Updating(w) => pc[w] = "insert" /\ req[w].op = "task"
               /\ pc[w] = "insert" \/ req[w].op = "task_patch"
        /\ services'[i] # services[i] =>
               /\ i = req[w].incident
               /\ \/ pc[w] = "insert" /\ req[w].op = "create"
                  \/ backend = "memory"
                  \/ pc[w] = "commit" /\ req[w].op = "patch"

(* What a step leaves to a worker that does not make it.                   *)
Spares(v) ==
    /\ pc'[v] = pc[v] /\ req'[v] = req[v] /\ row'[v] = row[v]
    /\ seen'[v] = seen[v] /\ dropped'[v] = dropped[v] /\ answer'[v] = answer[v]
    /\ \A x \in {"incident", "task"} \X Incidents : lock[x] = v => lock'[x] = v

LEMMA TableTyped ==
    ASSUME NEW r, r.incident \in Incidents
    PROVE  <<Table(r), r.incident>> \in {"incident", "task"} \X Incidents
  BY DEF Table

LEMMA JobFrame ==
    ASSUME JobInv, Grows, TypeOK',
           NEW w \in Workers, NEW v \in Workers, v # w,
           WritesOwn(w), Spares(v), written \subseteq written',
           UNCHANGED backend
    PROVE  Job(v)'
  <1>a. /\ Job(v) /\ Job(w) /\ TypeOK
        /\ req'[v] = req[v] /\ pc'[v] = pc[v]
    BY DEF JobInv, IInv, Spares
  <1>1. Refused(v)'
    <2>1. answer[v] = "403" \/ pc[v] = "findTask"
              => req[v].incident \in Incidents
      <3>1. answer[v] = "403" => pc[v] = "done"
        BY <1>a DEF Job, Refused
      <3>2. QED
        BY <3>1, RowExists
    <2>2. \A i \in Incidents : /\ incidents[i] # None => incidents'[i] # None
                               /\ tasks[i] # None => tasks'[i] # None
      BY <1>a, NoneAssumption DEF Grows, TypeOK
    <2>3. Refused(v)
      BY <1>a DEF Job
    <2>4. answer'[v] = answer[v]
      BY DEF Spares
    <2>5. QED
      BY <1>a, <2>1, <2>2, <2>3, <2>4 DEF Refused
  <1>2. Permitted(v)'
    BY <1>a DEF Job, Permitted, Spares, Writing
  <1>3. Holding(v)'
    <2>1. Holding(v)
      BY <1>a DEF Job
    <2>2. pc[v] \in {"services", "commit"} =>
              /\ <<Table(req[v]), req[v].incident>>
                     \in {"incident", "task"} \X Incidents
              /\ lock'[<<Table(req[v]), req[v].incident>>] = v
      BY <2>1, RowExists, TableTyped DEF Holding, Spares
    <2>3. ASSUME pc[v] = "commit", NamesServices(req[v])
          PROVE  services'[req[v].incident] = services[req[v].incident]
      <3> DEFINE i == req[v].incident
      <3>1. i \in Incidents /\ incidents[i] # None /\ backend = "postgres"
        BY <2>1, <2>3, RowExists DEF NamesServices, Updating, Holding
      <3>2. lock[<<"incident", i>>] = v
        BY <2>1, <2>3 DEF Holding, NamesServices, Table
      <3>3. ASSUME services'[i] # services[i] PROVE FALSE
        <4>1. CASE pc[w] = "insert" /\ req[w].op = "create"
          BY <1>a, <3>1, <3>3, <4>1 DEF WritesOwn, Job, FreshId, Creating
        <4>2. CASE pc[w] = "commit" /\ req[w].op = "patch"
          BY <1>a, <3>1, <3>2, <3>3, <4>2
             DEF WritesOwn, Job, Holding, Table
        <4>3. QED
          BY <3>1, <3>3, <4>1, <4>2 DEF WritesOwn
      <3>4. QED
        BY <3>3
    <2>4. dropped'[v] = dropped[v]
      BY DEF Spares
    <2>5. QED
      BY <1>a, <2>1, <2>2, <2>3, <2>4 DEF Holding
  <1>4. Logged(v)'
    BY <1>a DEF Job, Logged, Entry
  <1>5. FreshId(v)'
    <2>1. FreshId(v) /\ OwnId
      BY <1>a DEF Job, JobInv
    <2>2. \A op : Creating(v, op)' <=> Creating(v, op)
      BY <1>a DEF Creating
    <2>3. ASSUME Creating(v, "create")
          PROVE  incidents'[req[v].incident] = None
      <3>1. req[v].incident \in Incidents /\ incidents[req[v].incident] = None
        BY <2>1, <2>3, RowExists DEF Creating, FreshId
      <3>2. ASSUME incidents'[req[v].incident] # None PROVE FALSE
        <4>1. req[v].incident = req[w].incident /\ Creating(w, "create")
          BY <3>1, <3>2, RowExists DEF WritesOwn, Creating, Updating
        <4>2. QED
          BY <2>1, <2>3, <4>1 DEF OwnId
      <3>3. QED
        BY <3>2
    <2>4. ASSUME Creating(v, "task")
          PROVE  tasks'[req[v].incident] = None
      <3>1. req[v].incident \in Incidents /\ tasks[req[v].incident] = None
        BY <2>1, <2>4, RowExists DEF Creating, FreshId
      <3>2. ASSUME tasks'[req[v].incident] # None PROVE FALSE
        <4>1. req[v].incident = req[w].incident /\ Creating(w, "task")
          BY <3>1, <3>2, RowExists DEF WritesOwn, Creating, Updating
        <4>2. QED
          BY <2>1, <2>4, <4>1 DEF OwnId
      <3>3. QED
        BY <3>2
    <2>5. QED
      BY <1>a, <2>2, <2>3, <2>4 DEF FreshId
  <1>6. QED
    BY <1>1, <1>2, <1>3, <1>4, <1>5 DEF Job

\* A step of worker w.
Moves(w) ==
    \/ \E r \in Requests : Receive(w, r)
    \/ Handle(w) \/ AuditLost(w) \/ Die(w)

(* Whatever w does, it writes its own rows and spares the other workers.   *)
LEMMA MovesFrame ==
    ASSUME JobInv, NEW w \in Workers, Moves(w)
    PROVE  WritesOwn(w) /\ \A v \in Workers \ {w} : Spares(v)
  <1>a. TypeOK /\ Shaped
    BY DEF JobInv, IInv
  <1>b. \A v \in Workers : Job(v) /\ Knows(v)
    BY DEF JobInv, IInv
  <1> USE DEF Goto, Respond, localVars, dbVars, history
  <1>1. ASSUME UNCHANGED <<incidents, tasks, services, lock>>,
               \/ \E r \in Requests : Receive(w, r)
               \/ ReadMembership(w) \/ FindIncident(w) \/ FindTask(w)
               \/ AddTimelineEvent(w) \/ PublishStatusUpdate(w)
               \/ SelectRow(w) \/ ReplaceServices(w)
               \/ Audit(w) \/ AuditLost(w)
        PROVE  WritesOwn(w) /\ \A v \in Workers \ {w} : Spares(v)
    <2>1. WritesOwn(w)
      BY <1>1 DEF WritesOwn
    <2>2. ASSUME NEW v \in Workers \ {w}
          PROVE  /\ pc'[v] = pc[v] /\ req'[v] = req[v] /\ row'[v] = row[v]
                 /\ seen'[v] = seen[v] /\ dropped'[v] = dropped[v]
                 /\ answer'[v] = answer[v]
      BY <1>a, <1>1 DEF TypeOK, Shaped, Receive, ReadMembership, FindIncident,
           FindTask, AddTimelineEvent, PublishStatusUpdate, AppendEntry,
           SelectRow, ReplaceServices, Audit, AuditLost
    <2>3. QED
      BY <1>1, <2>1, <2>2 DEF Spares
  <1>2. ASSUME UNCHANGED <<req, row, seen, dropped, answer>>,
               pc' = [pc EXCEPT ![w] = "audit"], UNCHANGED lock
        PROVE  \A v \in Workers \ {w} : Spares(v)
    BY <1>a, <1>2 DEF Spares, TypeOK
  <1>3. CASE CreateIncident(w)
    <2>1. /\ req[w].op = "create" /\ pc[w] = "insert"
          /\ \A j \in Incidents \ {req[w].incident} :
                /\ incidents'[j] = incidents[j]
                /\ services'[j] = services[j]
          /\ UNCHANGED tasks
      BY <1>3, <1>a DEF CreateIncident, TypeOK, Shaped
    <2>2. WritesOwn(w)
      BY <2>1 DEF WritesOwn
    <2>3. QED
      BY <1>2, <1>3, <2>2 DEF CreateIncident
  <1>4. CASE CreateTask(w)
    <2>1. /\ pc[w] = "insert" /\ req[w].op = "task"
          /\ \A j \in Incidents \ {req[w].incident} : tasks'[j] = tasks[j]
          /\ UNCHANGED <<incidents, services>>
      BY <1>4, <1>a DEF CreateTask, TypeOK
    <2>2. WritesOwn(w)
      BY <2>1 DEF WritesOwn
    <2>3. QED
      BY <1>2, <1>4, <2>2 DEF CreateTask
  <1>5. CASE MemoryUpdateIncident(w)
    <2>1. /\ req[w].op = "patch" /\ Updating(w) /\ backend = "memory"
          /\ \A j \in Incidents \ {req[w].incident} :
                /\ incidents'[j] = incidents[j]
                /\ services'[j] = services[j]
          /\ UNCHANGED tasks
      BY <1>5, <1>a DEF MemoryUpdateIncident, Updating, TypeOK, Shaped
    <2>2. WritesOwn(w)
      BY <2>1 DEF WritesOwn
    <2>3. QED
      BY <1>2, <1>5, <2>2 DEF MemoryUpdateIncident
  <1>6. CASE MemoryUpdateTask(w)
    <2>1. /\ Updating(w) /\ req[w].op = "task_patch"
          /\ \A j \in Incidents \ {req[w].incident} : tasks'[j] = tasks[j]
          /\ UNCHANGED <<incidents, services>>
      BY <1>6, <1>a DEF MemoryUpdateTask, Updating, TypeOK
    <2>2. WritesOwn(w)
      BY <2>1 DEF WritesOwn
    <2>3. QED
      BY <1>2, <1>6, <2>2 DEF MemoryUpdateTask
  <1>7. CASE UpdateRow(w)
    <2> DEFINE key == <<Table(req[w]), req[w].incident>>
    <2>1. /\ UNCHANGED <<incidents, tasks, services>>
          /\ lock' = [lock EXCEPT ![key] = w] /\ lock[key] = None
      BY <1>7 DEF UpdateRow
    <2>2. ASSUME NEW v \in Workers \ {w}
          PROVE  /\ pc'[v] = pc[v] /\ req'[v] = req[v] /\ row'[v] = row[v]
                 /\ seen'[v] = seen[v] /\ dropped'[v] = dropped[v]
                 /\ answer'[v] = answer[v]
      BY <1>7, <1>a DEF UpdateRow, TypeOK
    <2> HIDE DEF key
    <2>3. \A x \in {"incident", "task"} \X Incidents :
              lock[x] # None => lock'[x] = lock[x]
      BY <1>a, <2>1 DEF TypeOK
    <2>4. \A v \in Workers \ {w} : Spares(v)
      BY <2>2, <2>3, NoneAssumption DEF Spares
    <2>5. QED
      BY <2>1, <2>4 DEF WritesOwn
  <1>8. CASE Commit(w)
    <2> DEFINE i == req[w].incident
               key == <<Table(req[w]), i>>
    <2>1. /\ Updating(w) /\ req[w].op \in {"patch", "task_patch"}
          /\ pc[w] = "commit" /\ i \in Incidents /\ lock[key] = w
      BY <1>8, <1>b, RowExists DEF Commit, Updating, Job, Holding
    <2>2. /\ \A j \in Incidents \ {i} : /\ incidents'[j] = incidents[j]
                                        /\ tasks'[j] = tasks[j]
                                        /\ services'[j] = services[j]
          /\ req[w].op = "patch" => tasks' = tasks
          /\ req[w].op # "patch" => incidents' = incidents /\ services' = services
      BY <1>8, <1>a DEF Commit, NamesServices, TypeOK, Shaped
    <2>3. WritesOwn(w)
      BY <2>1, <2>2 DEF WritesOwn
    <2>4. /\ lock' = [lock EXCEPT ![key] = None]
          /\ UNCHANGED <<req, row, seen, dropped, answer>>
          /\ \A v \in Workers \ {w} : pc'[v] = pc[v]
      BY <1>8, <1>a DEF Commit, TypeOK
    <2> HIDE DEF key
    <2>5. \A v \in Workers \ {w} : Spares(v)
      BY <1>a, <2>1, <2>4 DEF Spares, TypeOK
    <2>6. QED
      BY <2>3, <2>5
  <1>9. CASE Finish(w) \/ Die(w)
    <2>1. UNCHANGED <<incidents, tasks, services>> /\ End(w)
      BY <1>9 DEF Finish, Die
    <2>2. ASSUME NEW v \in Workers \ {w}
          PROVE  /\ pc'[v] = pc[v] /\ req'[v] = req[v] /\ row'[v] = row[v]
                 /\ seen'[v] = seen[v] /\ dropped'[v] = dropped[v]
                 /\ answer'[v] = answer[v]
      BY <1>a, <2>1 DEF End, TypeOK, Shaped
    <2>3. \A x \in {"incident", "task"} \X Incidents :
              lock[x] # w => lock'[x] = lock[x]
      BY <1>a, <2>1 DEF End, TypeOK
    <2>4. QED
      BY <2>1, <2>2, <2>3 DEF WritesOwn, Spares
  <1>10. ASSUME \/ \E r \in Requests : Receive(w, r)
                \/ ReadMembership(w) \/ FindIncident(w) \/ FindTask(w)
                \/ AddTimelineEvent(w) \/ PublishStatusUpdate(w)
                \/ SelectRow(w) \/ ReplaceServices(w)
                \/ Audit(w) \/ AuditLost(w)
         PROVE  WritesOwn(w) /\ \A v \in Workers \ {w} : Spares(v)
    <2>1. UNCHANGED <<incidents, tasks, services, lock>>
      BY <1>10 DEF Receive, ReadMembership, FindIncident, FindTask,
           AddTimelineEvent, PublishStatusUpdate, AppendEntry, SelectRow,
           ReplaceServices, Audit, AuditLost
    <2>2. QED
      BY <1>1, <1>10, <2>1
  <1>11. QED
    BY <1>3, <1>4, <1>5, <1>6, <1>7, <1>8, <1>9, <1>10 DEF Moves, Handle

(* A step of worker w.                                                     *)
LEMMA JobStep ==
    ASSUME JobInv, IInv', Grows, NEW w \in Workers, Moves(w),
           written \subseteq written', UNCHANGED backend,
           Job(w)', Shaped', OwnId', AuditTrue', ServicesWhole'
    PROVE  JobInv'
  <1>1. TypeOK'
    BY DEF IInv
  <1>2. \A v \in Workers \ {w} : Job(v)'
    BY <1>1, MovesFrame, JobFrame
  <1>3. QED
    BY <1>2 DEF JobInv

(* No id is taken by a step that starts no creation. *)
LEMMA OwnIdKept ==
    ASSUME JobInv, NEW w \in Workers, Moves(w),
           pc'[w] \in {"find", "insert"} =>
               pc[w] = "membership" \/ pc[w] = "find",
           pc'[w] # "membership",
           pc'[w] \in {"find", "insert"} => req'[w] = req[w]
    PROVE  OwnId'
  <1>1. \A v \in Workers : \A op :
            Creating(v, op)' => Creating(v, op) /\ req'[v] = req[v]
    BY MovesFrame DEF Creating, Spares
  <1>2. QED
    BY <1>1 DEF JobInv, OwnId

(* A step of w that writes no row. *)
LEMMA QuietJob ==
    ASSUME JobInv, IInv', Grows, NEW w \in Workers,
           Moves(w), UNCHANGED <<backend, incidents, services>>,
           Job(w)', OwnId', Shaped', written' = written,
           \/ audit' = audit
           \/ audit' = audit \cup {Entry(w)} /\ pc[w] = "audit"
    PROVE  JobInv'
  <1>1. ServicesWhole'
    BY DEF JobInv, ServicesWhole
  <1>2. AuditTrue'
    BY DEF JobInv, Job, Logged, AuditTrue
  <1>3. QED
    BY <1>1, <1>2, JobStep

LEMMA InitJobInv == Init => JobInv
  <1> SUFFICES ASSUME Init PROVE JobInv
    OBVIOUS
  <1>1. IInv
    BY InitIInv
  <1>2. Shaped /\ OwnId /\ AuditTrue /\ ServicesWhole
    BY DEF Init, Shaped, OwnId, Creating, AuditTrue, ServicesWhole
  <1>3. ASSUME NEW w \in Workers PROVE Job(w)
    <2>1. pc[w] = "idle" /\ answer[w] # "403"
      BY NoneAssumption DEF Init, Answers
    <2>2. QED
      BY <2>1 DEF Job, Refused, Permitted, Writing, Holding, Logged, FreshId,
                  Creating
  <1>4. QED
    BY <1>1, <1>2, <1>3 DEF JobInv

-----------------------------------------------------------------------------
LEMMA JobInvStep == JobInv /\ IInv' /\ Grows /\ [Next]_vars => JobInv'
  <1> SUFFICES ASSUME JobInv, IInv', Grows, [Next]_vars PROVE JobInv'
    OBVIOUS
  <1>a. TypeOK /\ Shaped /\ OwnId /\ AuditTrue /\ ServicesWhole
    BY DEF JobInv, IInv
  <1>b. \A w \in Workers : Job(w) /\ Knows(w)
    BY DEF JobInv, IInv
  <1>c. /\ pc \in [Workers -> {"idle", "membership", "find", "findTask",
                               "insert", "update", "write", "services",
                               "commit", "audit", "done"}]
        /\ req \in [Workers -> Requests \cup {None}]
        /\ seen \in [Workers -> OrgRoles \cup {None}]
        /\ answer \in [Workers -> Answers \cup {None}]
        /\ lock \in [{"incident", "task"} \X Incidents -> Workers \cup {None}]
    BY <1>a DEF TypeOK
  <1> USE DEF Goto, Respond, localVars, dbVars, history
  <1>1. ASSUME NEW w \in Workers, NEW r \in Requests, Receive(w, r)
        PROVE  JobInv'
    <2>1. /\ UNCHANGED <<backend, incidents, tasks, services, dropped, seen,
                         answer, audit, written>>
          /\ \A v \in Workers \ {w} : pc'[v] = pc[v] /\ req'[v] = req[v]
          /\ pc[w] = "idle" /\ pc'[w] = "membership" /\ req'[w] = r
      BY <1>1, <1>c DEF Receive
    <2>2. Job(w)'
      <3>1. answer[w] # "403"
        BY <1>b, <2>1 DEF Job, Refused
      <3>2. FreshId(w)'
        BY <1>1, <2>1 DEF Receive, FreshId, Creating
      <3>3. QED
        BY <2>1, <3>1, <3>2
           DEF Job, Refused, Permitted, Writing, Holding, Logged
    <2>3. OwnId'
      <3> SUFFICES ASSUME NEW v \in Workers, NEW u \in Workers,
                          NEW op \in {"create", "task"}, Creating(v, op)',
                          Creating(u, op)', req'[v].incident = req'[u].incident
                   PROVE  v = u
        BY DEF OwnId
      <3>1. \A x \in Workers \ {w} : Creating(x, op)' => Creating(x, op)
        BY <2>1 DEF Creating
      <3>2. CASE v # w /\ u # w
        BY <1>a, <2>1, <3>1, <3>2 DEF OwnId
      <3>3. \A x \in Workers \ {w} :
              Creating(x, op)' /\ Creating(w, op)'
                => req'[x].incident # req'[w].incident
        BY <1>1, <2>1 DEF Receive, Creating
      <3>4. QED
        BY <3>2, <3>3
    <2>4. Shaped'
      BY <1>a, <2>1 DEF Shaped
    <2>5. QED
      BY <1>1, <2>1, <2>2, <2>3, <2>4, QuietJob DEF Moves
  \* A step of w that moves only its pc, its answer and what it has seen.
  <1>d. ASSUME NEW w \in Workers, Moves(w), pc[w] # "idle",
               UNCHANGED <<backend, incidents, tasks, services, dropped,
                           req, audit, written>>,
               pc'[w] \in {"find", "findTask", "insert", "update", "done"},
               pc'[w] \in {"find", "insert"} =>
                   pc[w] = "membership" \/ pc[w] = "find",
               Refused(w)', Permitted(w)'
        PROVE  JobInv'
    <2>1. OwnId'
      BY <1>d, OwnIdKept
    <2>2. FreshId(w)'
      <3>1. FreshId(w) /\ \A op : Creating(w, op)' => Creating(w, op)
        BY <1>b, <1>d DEF Job, Creating
      <3>2. QED
        BY <1>d, <3>1 DEF FreshId
    <2>3. Job(w)'
      BY <1>d, <2>2 DEF Job, Holding, Logged
    <2>4. Shaped'
      BY <1>a, <1>d DEF Shaped
    <2>5. QED
      BY <1>d, <2>1, <2>3, <2>4, QuietJob
  <1>2. ASSUME NEW w \in Workers, ReadMembership(w)
        PROVE  JobInv'
    <2>1. /\ pc[w] = "membership" /\ req[w] \in Requests
          /\ role[req[w].user] \in OrgRoles \cup {None}
          /\ answer[w] # "403"
      BY <1>2, <1>a, <1>b, RequestAssumption
         DEF ReadMembership, Knows, Job, Refused, TypeOK
    <2>2. seen'[w] = role[req[w].user] /\ UNCHANGED req
      BY <1>2, <1>c DEF ReadMembership
    <2>3. \/ /\ pc'[w] = "done"
             /\ answer'[w] # "404" => answer'[w] = "403" /\ req[w].op = "create"
          \/ /\ pc'[w] = "insert" /\ answer'[w] = answer[w]
             /\ MayDo(req[w], seen'[w])
          \/ pc'[w] = "find" /\ answer'[w] = answer[w]
      BY <1>2, <1>c, <2>2 DEF ReadMembership
    <2>4. Refused(w)' /\ Permitted(w)'
      BY <2>1, <2>2, <2>3 DEF Refused, Permitted, Writing
    <2>5. Moves(w)
      BY <1>2 DEF Moves, Handle
    <2>6. QED
      BY <1>2, <1>d, <2>1, <2>3, <2>4, <2>5 DEF ReadMembership
  <1>3. ASSUME NEW w \in Workers, FindIncident(w)
        PROVE  JobInv'
    <2>1. pc[w] = "find" /\ answer[w] # "403"
      BY <1>3, <1>b DEF FindIncident, Job, Refused
    <2>2. UNCHANGED <<req, seen, incidents, tasks>>
      BY <1>3 DEF FindIncident
    <2>3. \/ pc'[w] = "done" /\ answer'[w] \in {"404", "400"}
          \/ /\ pc'[w] = "done" /\ req[w].op # "task_patch"
             /\ incidents[req[w].incident] # None
          \/ /\ pc'[w] = "findTask" /\ answer'[w] = answer[w]
             /\ incidents[req[w].incident] # None
          \/ /\ pc'[w] \in {"insert", "update"} /\ answer'[w] = answer[w]
             /\ MayDo(req[w], seen[w])
      BY <1>3, <1>c DEF FindIncident
    <2>4. Refused(w)' /\ Permitted(w)'
      BY <2>1, <2>2, <2>3 DEF Refused, Permitted, Writing
    <2>5. Moves(w)
      BY <1>3 DEF Moves, Handle
    <2>6. QED
      BY <1>3, <1>d, <2>1, <2>3, <2>4, <2>5 DEF FindIncident
  <1>4. ASSUME NEW w \in Workers, FindTask(w)
        PROVE  JobInv'
    <2>1. /\ pc[w] = "findTask" /\ answer[w] # "403"
          /\ incidents[req[w].incident] # None
      BY <1>4, <1>b DEF FindTask, Job, Refused
    <2>2. UNCHANGED <<req, seen, incidents, tasks>>
      BY <1>4 DEF FindTask
    <2>3. \/ pc'[w] = "done" /\ answer'[w] = "404"
          \/ pc'[w] = "done" /\ tasks[req[w].incident] # None
          \/ /\ pc'[w] = "update" /\ answer'[w] = answer[w]
             /\ MayDo(req[w], seen[w])
      BY <1>4, <1>c DEF FindTask
    <2>4. Refused(w)' /\ Permitted(w)'
      BY <2>1, <2>2, <2>3 DEF Refused, Permitted, Writing
    <2>5. Moves(w)
      BY <1>4 DEF Moves, Handle
    <2>6. QED
      BY <1>4, <1>d, <2>1, <2>3, <2>4, <2>5 DEF FindTask
  \* A mutation of w is done.
  <1>e. ASSUME NEW w \in Workers, Moves(w), Writing(w),
               pc' = [pc EXCEPT ![w] = "audit"], Record(w),
               UNCHANGED <<backend, dropped, req, answer, audit>>,
               Shaped', ServicesWhole'
        PROVE  JobInv'
    <2>1. /\ pc'[w] = "audit" /\ written \subseteq written'
          /\ answer[w] # "403" /\ Entry(w)' \in written'
      BY <1>b, <1>c, <1>e DEF Record, Entry, Job, Refused, Writing
    <2>2. Job(w)'
      BY <1>e, <2>1 DEF Job, Refused, Permitted, Writing, Holding, Logged,
                        FreshId, Creating
    <2>3. OwnId'
      BY <1>e, <2>1, OwnIdKept
    <2>4. AuditTrue'
      BY <1>a, <1>e, <2>1 DEF AuditTrue
    <2>5. QED
      BY <1>e, <2>1, <2>2, <2>3, <2>4, JobStep
  <1>5. ASSUME NEW w \in Workers, CreateIncident(w)
        PROVE  JobInv'
    <2> DEFINE i == req[w].incident
    <2>1. /\ req[w] \in Requests /\ req[w].op = "create" /\ i \in Incidents
      BY <1>5, <1>b, RequestAssumption DEF CreateIncident, Knows
    <2>2. /\ pc' = [pc EXCEPT ![w] = "audit"]
          /\ UNCHANGED <<backend, dropped, req, answer, audit>>
          /\ services' = [services EXCEPT ![i] = req[w].body.services]
          /\ Record(w) /\ Writing(w) /\ Moves(w)
      BY <1>5 DEF CreateIncident, Writing, Moves, Handle
    <2>3. \A j \in Incidents \ {i} : /\ incidents'[j] = incidents[j]
                                     /\ services'[j] = services[j]
      BY <1>5, <1>a, <2>2 DEF CreateIncident, TypeOK, Shaped
    <2>4. services'[i] = req[w].body.services
      BY <1>a, <2>1, <2>2 DEF Shaped
    <2>5. Shaped'
      BY <1>a, <2>2 DEF Shaped
    <2>6. ServicesWhole'
      BY <1>a, <2>1, <2>3, <2>4 DEF ServicesWhole
    <2>7. QED
      BY <1>e, <2>2, <2>5, <2>6
  <1>6. ASSUME NEW w \in Workers,
               \/ CreateTask(w) \/ AddTimelineEvent(w) \/ PublishStatusUpdate(w)
               \/ MemoryUpdateTask(w)
        PROVE  JobInv'
    <2>1. /\ pc' = [pc EXCEPT ![w] = "audit"]
          /\ UNCHANGED <<backend, incidents, services, dropped, req, answer,
                         audit>>
          /\ Record(w) /\ Writing(w) /\ Moves(w)
      BY <1>6 DEF CreateTask, AddTimelineEvent, PublishStatusUpdate,
                  AppendEntry, MemoryUpdateTask, Writing, Moves, Handle
    <2>2. Shaped' /\ ServicesWhole'
      BY <1>a, <2>1 DEF Shaped, ServicesWhole
    <2>3. QED
      BY <1>e, <2>1, <2>2
  <1>7. ASSUME NEW w \in Workers, MemoryUpdateIncident(w)
        PROVE  JobInv'
    <2> DEFINE i == req[w].incident
    <2>1. /\ req[w] \in Requests /\ req[w].op = "patch"
          /\ i \in Incidents /\ incidents[i] # None
      BY <1>7, RowExists DEF MemoryUpdateIncident, Updating
    <2>2. /\ pc' = [pc EXCEPT ![w] = "audit"]
          /\ UNCHANGED <<backend, dropped, req, answer, audit>>
          /\ Record(w) /\ Writing(w) /\ Moves(w)
          /\ services' = IF NamesServices(req[w])
                         THEN [services EXCEPT ![i] = req[w].body.services]
                         ELSE services
      BY <1>7 DEF MemoryUpdateIncident, Writing, Moves, Handle
    <2>3. \A j \in Incidents \ {i} : /\ incidents'[j] = incidents[j]
                                     /\ services'[j] = services[j]
      BY <1>7, <1>a, <2>2 DEF MemoryUpdateIncident, TypeOK, Shaped
    <2>4. services'[i] \in {services[i], req[w].body.services}
      BY <1>a, <2>1, <2>2 DEF Shaped
    <2>5. Shaped'
      BY <1>a, <2>2 DEF Shaped
    <2>6. ServicesWhole'
      BY <1>a, <2>1, <2>3, <2>4 DEF ServicesWhole
    <2>7. QED
      BY <1>e, <2>2, <2>5, <2>6
  \* A step of w inside its transaction.
  <1>f. ASSUME NEW w \in Workers, Moves(w), Writing(w), Writing(w)',
               pc[w] # "insert", pc'[w] # "insert",
               UNCHANGED <<backend, incidents, tasks, services,
                           req, seen, answer, audit, written>>,
               Holding(w)', Shaped'
        PROVE  JobInv'
    <2>1. answer[w] # "403" /\ MayDo(req[w], seen[w])
      BY <1>b, <1>f DEF Job, Refused, Permitted, Writing
    <2>2. Job(w)'
      BY <1>f, <2>1 DEF Job, Refused, Permitted, Writing, Logged, FreshId,
                        Creating
    <2>3. OwnId'
      BY <1>f, OwnIdKept DEF Writing
    <2>4. QED
      BY <1>f, <2>2, <2>3, QuietJob
  <1>8. ASSUME NEW w \in Workers, SelectRow(w)
        PROVE  JobInv'
    <2>1. /\ UNCHANGED <<backend, incidents, tasks, services, lock, dropped,
                         req, seen, answer, audit, written>>
          /\ pc[w] = "update" /\ pc'[w] = "write" /\ backend = "postgres"
      BY <1>8, <1>c DEF SelectRow
    <2>2. Moves(w)
      BY <1>8 DEF Moves, Handle
    <2>3. Holding(w)' /\ Shaped'
      BY <1>a, <2>1 DEF Holding, Shaped
    <2>4. QED
      BY <1>f, <2>1, <2>2, <2>3 DEF Writing
  <1>9. ASSUME NEW w \in Workers, UpdateRow(w)
        PROVE  JobInv'
    <2> DEFINE key == <<Table(req[w]), req[w].incident>>
    <2>1. /\ UNCHANGED <<backend, incidents, tasks, services, dropped,
                         req, seen, answer, audit, written>>
          /\ pc[w] = "write" /\ pc'[w] \in {"services", "commit"}
          /\ pc'[w] = "commit" => ~NamesServices(req[w])
          /\ lock' = [lock EXCEPT ![key] = w]
      BY <1>9, <1>a, <1>c DEF UpdateRow, TypeOK
    <2>2. key \in {"incident", "task"} \X Incidents
      BY <2>1, RowExists, TableTyped
    <2> HIDE DEF key
    <2>3. lock'[key] = w
      BY <1>c, <2>1, <2>2
    <2>4. backend = "postgres"
      BY <1>b, <2>1 DEF Job, Holding
    <2>5. Holding(w)' /\ Shaped'
      BY <1>a, <2>1, <2>3, <2>4 DEF Holding, Shaped, key
    <2>6. Moves(w)
      BY <1>9 DEF Moves, Handle
    <2>7. QED
      BY <1>f, <2>1, <2>5, <2>6 DEF Writing
  <1>10. ASSUME NEW w \in Workers, ReplaceServices(w)
         PROVE  JobInv'
    <2>1. /\ UNCHANGED <<backend, incidents, tasks, services, lock, row,
                         req, seen, answer, audit, written>>
          /\ pc[w] = "services" /\ pc'[w] = "commit"
          /\ dropped' = [dropped EXCEPT ![w] = services[req[w].incident]]
      BY <1>10, <1>c DEF ReplaceServices
    <2>2. dropped'[w] = services[req[w].incident]
      BY <1>a, <2>1 DEF Shaped
    <2>3. Holding(w) /\ Moves(w)
      BY <1>b, <1>10 DEF Job, Moves, Handle
    <2>4. Holding(w)' /\ Shaped'
      BY <1>a, <2>1, <2>2, <2>3 DEF Holding, Shaped
    <2>5. QED
      BY <1>f, <2>1, <2>3, <2>4 DEF Writing
  <1>11. ASSUME NEW w \in Workers, Commit(w)
         PROVE  JobInv'
    <2> DEFINE i == req[w].incident
    <2>1. /\ req[w] \in Requests /\ pc[w] = "commit" /\ i \in Incidents
          /\ req[w].op \in {"patch", "task_patch"}
          /\ req[w].op = "patch" => incidents[i] # None
      BY <1>11, RowExists DEF Commit, Updating
    <2>2. /\ pc' = [pc EXCEPT ![w] = "audit"]
          /\ UNCHANGED <<backend, dropped, req, answer, audit>>
          /\ Record(w) /\ Writing(w) /\ Moves(w)
          /\ services' = IF NamesServices(req[w])
                         THEN [services EXCEPT ![i] =
                                 (@ \ dropped[w]) \cup req[w].body.services]
                         ELSE services
      BY <1>11 DEF Commit, Writing, Moves, Handle
    <2>3. \A j \in Incidents \ {i} : /\ incidents'[j] = incidents[j]
                                     /\ services'[j] = services[j]
      BY <1>11, <1>a, <2>2 DEF Commit, TypeOK, Shaped
    <2>4. req[w].op # "patch" => incidents' = incidents /\ services' = services
      BY <1>11, <2>2 DEF Commit, NamesServices
    <2>5. services'[i] # services[i] =>
            services'[i] = req[w].body.services /\ req[w].op = "patch"
      <3>1. NamesServices(req[w]) => dropped[w] = services[i]
        BY <1>b, <2>1 DEF Job, Holding
      <3>2. NamesServices(req[w]) =>
              services'[i] = (services[i] \ dropped[w]) \cup req[w].body.services
        BY <1>a, <2>1, <2>2 DEF Shaped
      <3>3. NamesServices(req[w]) => services'[i] = req[w].body.services
        BY <3>1, <3>2
      <3>4. QED
        BY <2>2, <3>3 DEF NamesServices
    <2>6. Shaped'
      BY <1>a, <2>2 DEF Shaped
    <2>7. ServicesWhole'
      BY <1>a, <2>1, <2>3, <2>4, <2>5 DEF ServicesWhole
    <2>8. QED
      BY <1>e, <2>2, <2>6, <2>7
  <1>12. ASSUME NEW w \in Workers, Audit(w) \/ AuditLost(w)
         PROVE  JobInv'
    <2>1. /\ UNCHANGED <<backend, incidents, services, dropped, req, written>>
          /\ pc[w] = "audit" /\ pc'[w] = "done" /\ answer'[w] = "200"
          /\ \/ audit' = audit
             \/ audit' = audit \cup {Entry(w)}
      BY <1>12, <1>c DEF Audit, AuditLost, Entry
    <2>2. Moves(w)
      BY <1>12 DEF Moves, Handle
    <2>3. Job(w)'
      BY <2>1 DEF Job, Refused, Permitted, Writing, Holding, Logged, FreshId,
                  Creating
    <2>4. OwnId'
      BY <2>1, <2>2, OwnIdKept
    <2>5. Shaped'
      BY <1>a, <2>1 DEF Shaped
    <2>6. QED
      BY <2>1, <2>2, <2>3, <2>4, <2>5, QuietJob
  <1>13. ASSUME NEW w \in Workers, Finish(w) \/ Die(w)
         PROVE  JobInv'
    <2>1. /\ UNCHANGED <<backend, incidents, services, audit, written>>
          /\ End(w) /\ Moves(w)
      BY <1>13 DEF Finish, Die, Moves, Handle
    <2>2. pc'[w] = "idle" /\ answer'[w] = None
      BY <1>c, <2>1 DEF End
    <2>3. Job(w)'
      BY <2>2, NoneAssumption
         DEF Job, Refused, Permitted, Writing, Holding, Logged, FreshId,
             Creating, Answers
    <2>4. OwnId'
      BY <2>1, <2>2, OwnIdKept
    <2>5. Shaped'
      BY <1>a, <2>1 DEF Shaped, End
    <2>6. QED
      BY <2>1, <2>3, <2>4, <2>5, QuietJob
  <1>14. CASE \/ UNCHANGED vars
              \/ \E u \in Users, g \in GrantedRoles : Grant(u, g)
    <2>1. UNCHANGED <<backend, incidents, services, tasks, lock, audit, pc, req,
                      seen, row, dropped, answer, held, written>>
      BY <1>14 DEF vars, Grant
    <2>2. \A w \in Workers : Job(w)'
      BY <1>b, <2>1 DEF Job, Refused, Permitted, Writing, Holding, Logged,
                        FreshId, Creating, Entry
    <2>3. Shaped' /\ OwnId' /\ AuditTrue' /\ ServicesWhole'
      BY <1>a, <2>1 DEF Shaped, OwnId, Creating, AuditTrue, ServicesWhole
    <2>4. QED
      BY <2>2, <2>3 DEF JobInv
  <1>15. QED
    BY <1>1, <1>2, <1>3, <1>4, <1>5, <1>6, <1>7, <1>8, <1>9, <1>10, <1>11,
       <1>12, <1>13, <1>14 DEF Next, Handle

(* JobInv holds in every state: the invariant of the theorems below.       *)
THEOREM JobInvariance == Spec => []JobInv
  <1>1. JobInv /\ [Next]_vars => JobInv'
    <2> SUFFICES ASSUME JobInv, [Next]_vars PROVE JobInv'
      OBVIOUS
    <2>1. IInv
      BY DEF JobInv
    <2>2. TypeOK'
      BY <2>1, TypeStep
    <2>3. IInv' /\ Grows
      BY <2>1, <2>2, InvStep DEF IInv
    <2>4. QED
      BY <2>3, JobInvStep
  <1>2. QED
    BY InitJobInv, <1>1, PTL DEF Spec

(* A worker that has just committed something was writing.                 *)
LEMMA CommittedStep ==
    ASSUME JobInv, [Next]_vars, NEW w \in Workers,
           pc'[w] = "audit", pc[w] # "audit"
    PROVE  Writing(w)
  <1>a. pc \in [Workers -> {"idle", "membership", "find", "findTask",
                            "insert", "update", "write", "services",
                            "commit", "audit", "done"}]
    BY DEF JobInv, IInv, TypeOK
  <1> USE DEF Goto, Respond
  <1>1. ASSUME NEW v \in Workers, Moves(v) PROVE Writing(w)
    <2>1. CASE v = w
      <3>1. ~\E r \in Requests : Receive(w, r)
        BY <1>a DEF Receive
      <3>2. ~(ReadMembership(w) \/ FindIncident(w) \/ FindTask(w))
        BY <1>a DEF ReadMembership, FindIncident, FindTask
      <3>3. ~(AuditLost(w) \/ Audit(w) \/ Finish(w) \/ Die(w))
        BY <1>a DEF AuditLost, Audit, Finish, Die, End
      <3>4. QED
        BY <1>1, <2>1, <3>1, <3>2, <3>3
           DEF Moves, Handle, Writing, CreateIncident, CreateTask,
               AddTimelineEvent, PublishStatusUpdate, AppendEntry,
               MemoryUpdateIncident, MemoryUpdateTask, SelectRow, UpdateRow,
               ReplaceServices, Commit
    <2>2. CASE v # w
      BY <1>1, <2>2, MovesFrame DEF Spares
    <2>3. QED
      BY <2>1, <2>2
  <1>2. CASE \/ UNCHANGED vars
             \/ \E u \in Users, g \in GrantedRoles : Grant(u, g)
    BY <1>2 DEF vars, Grant
  <1>3. QED
    BY <1>1, <1>2 DEF Next, Moves

(* Nobody but staff ever commits a change, and no Responder an external    *)
(* update: the permission asserted before the transaction is the one that  *)
(* counts, whatever happens to the membership meanwhile.                   *)
THEOREM WritersAllowedHolds == Spec => WritersAllowed
  <1>1. JobInv /\ [Next]_vars =>
          [\A w \in Workers : pc'[w] = "audit" /\ pc[w] # "audit" =>
         /\ seen[w] \in {"Owner", "Admin", "Responder"}
         /\ req[w].op = "publish_external" => seen[w] # "Responder"]_vars
    <2> SUFFICES ASSUME JobInv, [Next]_vars, NEW w \in Workers,
                        pc'[w] = "audit", pc[w] # "audit"
                 PROVE  /\ seen[w] \in {"Owner", "Admin", "Responder"}
                        /\ req[w].op = "publish_external"
                             => seen[w] # "Responder"
      OBVIOUS
    <2>1. Writing(w)
      BY CommittedStep
    <2>2. MayDo(req[w], seen[w])
      BY <2>1 DEF JobInv, Job, Permitted
    <2>3. req[w] \in Requests
      BY <2>1, RowExists DEF Writing
    <2>4. QED
      BY <2>2, <2>3, MayDoStaff DEF Staff, Managers
  <1>2. QED
    BY JobInvariance, <1>1, PTL DEF Spec, WritersAllowed

(* The services of an incident are those of one request, however the       *)
(* requests that replace them interleave, fail and roll back.              *)
THEOREM ServicesWholeHolds == Spec => []ServicesWhole
  <1>1. JobInv => ServicesWhole
    BY DEF JobInv
  <1>2. QED
    BY JobInvariance, <1>1, PTL

(* recordSafely writes an entry only for what has been committed.          *)
THEOREM AuditTrueHolds == Spec => []AuditTrue
  <1>1. JobInv => AuditTrue
    BY DEF JobInv
  <1>2. QED
    BY JobInvariance, <1>1, PTL

(* A 403 on an incident or a task is given only where there is one.        *)
THEOREM ForbiddenOnlyIfExistsHolds == Spec => []ForbiddenOnlyIfExists
  <1>1. JobInv => ForbiddenOnlyIfExists
    BY DEF JobInv, Job, Refused, ForbiddenOnlyIfExists
  <1>2. QED
    BY JobInvariance, <1>1, PTL

-----------------------------------------------------------------------------
(* What a request that no commit overtook knows of the row it updates.     *)
RowRead(w) ==
    /\ pc[w] = "write" => row[w] = Current(req[w])
    /\ pc[w] \in {"services", "commit"} =>
           row[w] = Merged(req[w], Current(req[w]))

Reading == \A w \in Workers \ overtaken : RowRead(w)

(* The steps that write a row.                                             *)
LEMMA WhoWrites ==
    ASSUME JobInv, NEW w \in Workers, Moves(w)
    PROVE  /\ incidents' # incidents =>
                \/ CreateIncident(w) \/ MemoryUpdateIncident(w)
                \/ Commit(w) /\ req[w].op = "patch"
           /\ tasks' # tasks =>
                \/ CreateTask(w) \/ MemoryUpdateTask(w)
                \/ Commit(w) /\ req[w].op = "task_patch"
  <1> USE DEF dbVars
  <1>1. ASSUME \/ \E r \in Requests : Receive(w, r)
               \/ ReadMembership(w) \/ FindIncident(w) \/ FindTask(w)
               \/ AddTimelineEvent(w) \/ PublishStatusUpdate(w)
               \/ SelectRow(w) \/ UpdateRow(w) \/ ReplaceServices(w)
               \/ Audit(w) \/ AuditLost(w) \/ Finish(w) \/ Die(w)
        PROVE  UNCHANGED <<incidents, tasks>>
    BY <1>1 DEF Receive, ReadMembership, FindIncident, FindTask,
         AddTimelineEvent, PublishStatusUpdate, AppendEntry, SelectRow,
         UpdateRow, ReplaceServices, Audit, AuditLost, Finish, Die
  <1>2. CreateIncident(w) \/ MemoryUpdateIncident(w) => UNCHANGED tasks
    BY DEF CreateIncident, MemoryUpdateIncident
  <1>3. CreateTask(w) \/ MemoryUpdateTask(w) => UNCHANGED incidents
    BY DEF CreateTask, MemoryUpdateTask
  <1>4. Commit(w) => /\ req[w].op \in {"patch", "task_patch"}
                     /\ req[w].op = "patch" => UNCHANGED tasks
                     /\ req[w].op # "patch" => UNCHANGED incidents
    BY RowExists DEF Commit, Goto, Updating
  <1>5. QED
    BY <1>1, <1>2, <1>3, <1>4 DEF Moves, Handle

(* What an update of incident i's row by w makes of it, when what w read   *)
(* of the row is still so.                                                 *)
LEMMA IncidentUpdated ==
    ASSUME JobInv, NEW w \in Workers,
           RowRead(w),
           MemoryUpdateIncident(w) \/ Commit(w), req[w].op = "patch",
           NEW i \in Incidents, i = req[w].incident
    PROVE  /\ req[w] \in Requests /\ incidents[i] \in IncidentRow
           /\ pc[w] \in {"update", "commit"} /\ pc'[w] = "audit"
           /\ Updating(w)
           /\ incidents' = [incidents EXCEPT ![i] =
                              MergedIncident(req[w].body, incidents[i])]
           /\ incidents'[i] = MergedIncident(req[w].body, incidents[i])
           /\ MergedIncident(req[w].body, incidents[i]) \in IncidentRow
  <1>a. /\ pc \in [Workers -> {"idle", "membership", "find", "findTask",
                               "insert", "update", "write", "services",
                               "commit", "audit", "done"}]
        /\ incidents \in [Incidents -> IncidentRow \cup {None}]
    BY DEF JobInv, IInv, TypeOK
  <1>1. /\ pc[w] \in {"update", "commit"} /\ pc'[w] = "audit"
        /\ Updating(w)
    BY <1>a DEF MemoryUpdateIncident, Commit, Goto, Updating
  <1>2. req[w] \in Requests /\ incidents[i] \in IncidentRow
    BY <1>a, <1>1, RowExists
  <1>3. incidents' = [incidents EXCEPT ![i] =
                        MergedIncident(req[w].body, incidents[i])]
    <2>1. CASE MemoryUpdateIncident(w)
      BY <2>1 DEF MemoryUpdateIncident
    <2>2. CASE Commit(w)
      <3>2. row[w] = Merged(req[w], Current(req[w]))
        BY <2>2 DEF Commit, Goto, RowRead
      <3>3. row[w] = MergedIncident(req[w].body, incidents[i])
        BY <3>2 DEF Merged, Current
      <3>4. QED
        BY <2>2, <3>3 DEF Commit
    <2>3. QED
      BY <2>1, <2>2
  <1>4. MergedIncident(req[w].body, incidents[i]) \in IncidentRow
    BY <1>2, MergedTyped
  <1>5. incidents'[i] = MergedIncident(req[w].body, incidents[i])
    BY <1>a, <1>3
  <1>6. QED
    BY <1>1, <1>2, <1>3, <1>4, <1>5

LEMMA TaskUpdated ==
    ASSUME JobInv, NEW w \in Workers,
           RowRead(w),
           MemoryUpdateTask(w) \/ Commit(w), req[w].op = "task_patch",
           NEW i \in Incidents, i = req[w].incident
    PROVE  /\ req[w] \in Requests /\ tasks[i] \in TaskRow
           /\ pc[w] \in {"update", "commit"} /\ pc'[w] = "audit"
           /\ tasks'[i] = MergedTask(req[w].body, tasks[i])
  <1>a. /\ pc \in [Workers -> {"idle", "membership", "find", "findTask",
                               "insert", "update", "write", "services",
                               "commit", "audit", "done"}]
        /\ tasks \in [Incidents -> TaskRow \cup {None}]
    BY DEF JobInv, IInv, TypeOK
  <1>1. /\ pc[w] \in {"update", "commit"} /\ pc'[w] = "audit"
        /\ Updating(w)
    BY <1>a DEF MemoryUpdateTask, Commit, Goto, Updating
  <1>2. req[w] \in Requests /\ tasks[i] \in TaskRow
    BY <1>a, <1>1, RowExists
  <1>3. tasks' = [tasks EXCEPT ![i] = MergedTask(req[w].body, tasks[i])]
    <2>1. CASE MemoryUpdateTask(w)
      BY <2>1 DEF MemoryUpdateTask
    <2>2. CASE Commit(w)
      <3>2. row[w] = Merged(req[w], Current(req[w]))
        BY <2>2 DEF Commit, Goto, RowRead
      <3>3. row[w] = MergedTask(req[w].body, tasks[i])
        BY <3>2 DEF Merged, Current
      <3>4. QED
        BY <2>2, <3>3 DEF Commit
    <2>3. QED
      BY <2>1, <2>2
  <1>4. tasks'[i] = MergedTask(req[w].body, tasks[i])
    BY <1>a, <1>3
  <1>5. QED
    BY <1>1, <1>2, <1>4

(* A merge changes only the fields the body names. *)
LEMMA MergedFields ==
    ASSUME NEW body
    PROVE  /\ \A c \in IncidentRow : \A f \in DOMAIN c :
                MergedIncident(body, c)[f] # c[f]
                  => body[f] = MergedIncident(body, c)[f]
           /\ \A c \in TaskRow : \A f \in DOMAIN c :
                MergedTask(body, c)[f] # c[f] => body[f] = MergedTask(body, c)[f]
  <1>1. ASSUME NEW c \in IncidentRow, NEW f \in DOMAIN c,
               MergedIncident(body, c)[f] # c[f]
        PROVE  body[f] = MergedIncident(body, c)[f]
    <2>1. f \in {"status", "severity"}
      BY <1>1 DEF IncidentRow
    <2>2. CASE f = "status"
      BY <1>1, <2>2 DEF MergedIncident, Coalesce
    <2>3. CASE f = "severity"
      BY <1>1, <2>3 DEF MergedIncident, Coalesce
    <2>4. QED
      BY <2>1, <2>2, <2>3
  <1>2. ASSUME NEW c \in TaskRow, NEW f \in DOMAIN c,
               MergedTask(body, c)[f] # c[f]
        PROVE  body[f] = MergedTask(body, c)[f]
    <2>1. f \in {"status", "assignee"}
      BY <1>2 DEF TaskRow
    <2>2. CASE f = "status"
      BY <1>2, <2>2 DEF MergedTask, Coalesce
    <2>3. CASE f = "assignee"
      BY <1>2, <2>3 DEF MergedTask, Coalesce
    <2>4. QED
      BY <2>1, <2>2, <2>3
  <1>3. QED
    BY <1>1, <1>2

LEMMA UnnamedStep ==
    ASSUME JobInv, [Next]_vars, Reading, NEW i \in Incidents
    PROVE  /\ incidents[i] # None => \A f \in DOMAIN incidents[i] :
              incidents'[i][f] # incidents[i][f] =>
                \E w \in Workers : /\ pc'[w] = "audit"
                                   /\ NamedBy(w, "patch", i, f, incidents'[i][f])
           /\ tasks[i] # None => \A f \in DOMAIN tasks[i] :
              tasks'[i][f] # tasks[i][f] =>
                \E w \in Workers : /\ pc'[w] = "audit"
                                   /\ NamedBy(w, "task_patch", i, f, tasks'[i][f])
  <1>a. pc \in [Workers -> {"idle", "membership", "find", "findTask",
                            "insert", "update", "write", "services",
                            "commit", "audit", "done"}]
    BY DEF JobInv, IInv, TypeOK
  <1>1. CASE UNCHANGED <<incidents, tasks>>
    BY <1>1
  <1>2. ASSUME NEW w \in Workers, Moves(w), incidents[i] # None,
               NEW f \in DOMAIN incidents[i],
               incidents'[i][f] # incidents[i][f]
        PROVE  /\ pc'[w] = "audit"
               /\ NamedBy(w, "patch", i, f, incidents'[i][f])
    <2>1. i = req[w].incident
      BY <1>2, MovesFrame DEF WritesOwn
    <2>2. ~CreateIncident(w)
      BY <1>2, <2>1 DEF JobInv, Job, FreshId, Creating, CreateIncident, Goto
    <2>3. \/ MemoryUpdateIncident(w)
          \/ Commit(w) /\ req[w].op = "patch"
      BY <1>2, <2>2, WhoWrites
    <2>4. /\ req[w].op = "patch"
          /\ pc[w] \in {"update", "commit"} /\ pc'[w] = "audit"
      BY <1>a, <2>3 DEF MemoryUpdateIncident, Commit, Goto
    <2>5. CASE w \in overtaken
      BY <2>1, <2>4, <2>5 DEF NamedBy
    <2>6. CASE w \notin overtaken
      <3>1. RowRead(w)
        BY <2>6 DEF Reading
      <3>2. /\ incidents[i] \in IncidentRow
            /\ incidents'[i] = MergedIncident(req[w].body, incidents[i])
        BY <2>1, <2>3, <2>4, <3>1, IncidentUpdated
      <3>3. req[w].body[f] = incidents'[i][f]
        BY <1>2, <3>2, MergedFields
      <3>4. QED
        BY <2>1, <2>4, <3>3 DEF NamedBy
    <2>7. QED
      BY <2>4, <2>5, <2>6
  <1>3. ASSUME NEW w \in Workers, Moves(w), tasks[i] # None,
               NEW f \in DOMAIN tasks[i],
               tasks'[i][f] # tasks[i][f]
        PROVE  /\ pc'[w] = "audit"
               /\ NamedBy(w, "task_patch", i, f, tasks'[i][f])
    <2>1. i = req[w].incident
      BY <1>3, MovesFrame DEF WritesOwn
    <2>2. ~CreateTask(w)
      BY <1>3, <2>1 DEF JobInv, Job, FreshId, Creating, CreateTask, Goto
    <2>3. \/ MemoryUpdateTask(w)
          \/ Commit(w) /\ req[w].op = "task_patch"
      BY <1>3, <2>2, WhoWrites
    <2>4. /\ req[w].op = "task_patch"
          /\ pc[w] \in {"update", "commit"} /\ pc'[w] = "audit"
      BY <1>a, <2>3 DEF MemoryUpdateTask, Commit, Goto
    <2>5. CASE w \in overtaken
      BY <2>1, <2>4, <2>5 DEF NamedBy
    <2>6. CASE w \notin overtaken
      <3>1. RowRead(w)
        BY <2>6 DEF Reading
      <3>2. /\ tasks[i] \in TaskRow
            /\ tasks'[i] = MergedTask(req[w].body, tasks[i])
        BY <2>1, <2>3, <2>4, <3>1, TaskUpdated
      <3>3. req[w].body[f] = tasks'[i][f]
        BY <1>3, <3>2, MergedFields
      <3>4. QED
        BY <2>1, <2>4, <3>3 DEF NamedBy
    <2>7. QED
      BY <2>4, <2>5, <2>6
  <1>4. UNCHANGED <<incidents, tasks>> \/ \E w \in Workers : Moves(w)
    BY DEF Next, Moves, Grant, vars, dbVars
  <1>5. QED
    BY <1>1, <1>2, <1>3, <1>4

(* A step of w leaves the row of another worker that it does not overtake: *)
(* a commit overtakes those that have read the row, and the row lock keeps *)
(* it from those that are writing it.                                      *)
LEMMA ReadingFrame ==
    ASSUME JobInv, NEW w \in Workers, Moves(w), NEW v \in Workers, v # w,
           v \notin overtaken', RowRead(v)
    PROVE  RowRead(v)'
  <1>a. /\ WritesOwn(w) /\ Spares(v)
        /\ Job(v) /\ FreshId(w) /\ (pc[w] = "commit" => Holding(w))
    BY MovesFrame DEF JobInv, Job
  <1>1. CASE pc[v] \in {"write", "services", "commit"}
    <2> DEFINE i == req[v].incident
    <2>1. /\ i \in Incidents /\ req[v].op \in {"patch", "task_patch"}
          /\ req[v].op = "patch" => incidents[i] # None
          /\ req[v].op = "task_patch" => tasks[i] # None
      BY <1>1, RowExists DEF Updating
    <2>2. backend = "postgres"
      BY <1>a, <1>1 DEF Job, Holding
    <2>3. ~MemoryUpdateIncident(w) /\ ~MemoryUpdateTask(w)
      BY <2>2 DEF MemoryUpdateIncident, MemoryUpdateTask
    <2>4. ASSUME Commit(w), Table(req[w]) = Table(req[v]), req[w].incident = i
          PROVE  FALSE
      <3>1. pc[w] = "commit" /\ overtaken' = (overtaken \ {w}) \cup Overtakes(req[w])
        BY <2>4 DEF Commit, Goto
      <3>2. pc[v] # "write"
        BY <2>4, <3>1 DEF Overtakes
      <3>3. lock[<<Table(req[v]), i>>] = v
        BY <1>a, <1>1, <3>2 DEF Job, Holding
      <3>4. lock[<<Table(req[w]), req[w].incident>>] = w
        BY <1>a, <3>1 DEF Holding
      <3>5. QED
        BY <2>4, <3>3, <3>4
    <2>5. ASSUME req[v].op = "patch", incidents'[i] # incidents[i]
          PROVE  FALSE
      <3>1. i = req[w].incident
        BY <1>a, <2>1, <2>5 DEF WritesOwn
      <3>2. ~CreateIncident(w)
        BY <1>a, <2>1, <2>5, <3>1 DEF CreateIncident, Goto, FreshId, Creating
      <3>3. Commit(w) /\ req[w].op = "patch"
        BY <2>3, <2>5, <3>2, WhoWrites
      <3>4. QED
        BY <2>4, <2>5, <3>1, <3>3 DEF Table
    <2>6. ASSUME req[v].op = "task_patch", tasks'[i] # tasks[i]
          PROVE  FALSE
      <3>1. i = req[w].incident
        BY <1>a, <2>1, <2>6 DEF WritesOwn
      <3>2. ~CreateTask(w)
        BY <1>a, <2>1, <2>6, <3>1 DEF CreateTask, Goto, FreshId, Creating
      <3>3. Commit(w) /\ req[w].op = "task_patch"
        BY <2>3, <2>6, <3>2, WhoWrites
      <3>4. QED
        BY <2>4, <2>6, <3>1, <3>3 DEF Table
    <2>7. Current(req[v])' = Current(req[v])
      BY <1>a, <2>1, <2>5, <2>6 DEF Current, Spares
    <2>8. QED
      BY <1>a, <2>7 DEF RowRead, Spares
  <1>2. CASE pc[v] \notin {"write", "services", "commit"}
    BY <1>a, <1>2 DEF RowRead, Spares
  <1>3. QED
    BY <1>1, <1>2

\* Nobody is spared the mark of a commit but by the end of its own request.
LEMMA OvertakenKept ==
    ASSUME NEW w \in Workers, Moves(w)
    PROVE  overtaken \ {w} \subseteq overtaken'
  BY DEF Moves, Handle, Receive, ReadMembership, FindIncident, FindTask,
     CreateIncident, CreateTask, AddTimelineEvent, PublishStatusUpdate,
     AppendEntry, MemoryUpdateIncident, MemoryUpdateTask, SelectRow, UpdateRow,
     ReplaceServices, Commit, Audit, Finish, AuditLost, Die, End, history

LEMMA ReadingStep == JobInv /\ Reading /\ [Next]_vars => Reading'
  <1> SUFFICES ASSUME JobInv, Reading, [Next]_vars PROVE Reading'
    OBVIOUS
  <1>a. /\ pc \in [Workers -> {"idle", "membership", "find", "findTask",
                            "insert", "update", "write", "services",
                            "commit", "audit", "done"}]
        /\ row \in [Workers -> IncidentRow \cup TaskRow \cup {None}]
    BY DEF JobInv, IInv, TypeOK
  <1> USE DEF Goto, Respond, dbVars, localVars
  <1>1. ASSUME NEW w \in Workers, Moves(w),
               w \notin overtaken' => RowRead(w)'
        PROVE  Reading'
    BY <1>1, ReadingFrame, OvertakenKept DEF Reading
  <1>2. ASSUME NEW w \in Workers, SelectRow(w) PROVE Reading'
    <2>1. /\ UNCHANGED <<incidents, tasks, req>> /\ Moves(w)
          /\ pc'[w] = "write" /\ row'[w] = Current(req[w])
      BY <1>a, <1>2 DEF SelectRow, Moves, Handle
    <2>2. RowRead(w)'
      BY <2>1 DEF RowRead, Current
    <2>3. QED
      BY <1>1, <2>1, <2>2
  <1>3. ASSUME NEW w \in Workers, UpdateRow(w) PROVE Reading'
    <2>1. /\ UNCHANGED <<incidents, tasks, req, overtaken>> /\ Moves(w)
          /\ pc[w] = "write" /\ pc'[w] \in {"services", "commit"}
          /\ row'[w] = Merged(req[w], row[w])
      BY <1>a, <1>3 DEF UpdateRow, Moves, Handle, history
    <2>2. w \notin overtaken => RowRead(w)'
      BY <2>1 DEF Reading, RowRead, Current, Merged
    <2>3. QED
      BY <1>1, <2>1, <2>2
  <1>4. ASSUME NEW w \in Workers, ReplaceServices(w) PROVE Reading'
    <2>1. /\ UNCHANGED <<incidents, tasks, req, row, overtaken>> /\ Moves(w)
          /\ pc[w] = "services" /\ pc'[w] = "commit"
      BY <1>a, <1>4 DEF ReplaceServices, Moves, Handle, history
    <2>2. w \notin overtaken => RowRead(w)'
      BY <2>1 DEF Reading, RowRead, Current, Merged
    <2>3. QED
      BY <1>1, <2>1, <2>2
  <1>5. ASSUME NEW w \in Workers,
               \/ \E r \in Requests : Receive(w, r)
               \/ ReadMembership(w) \/ FindIncident(w) \/ FindTask(w)
               \/ CreateIncident(w) \/ CreateTask(w)
               \/ AddTimelineEvent(w) \/ PublishStatusUpdate(w)
               \/ MemoryUpdateIncident(w) \/ MemoryUpdateTask(w)
               \/ Commit(w) \/ Audit(w) \/ Finish(w) \/ AuditLost(w) \/ Die(w)
        PROVE  Reading'
    <2>1. pc'[w] \notin {"write", "services", "commit"}
      BY <1>a, <1>5
         DEF Receive, ReadMembership, FindIncident, FindTask, CreateIncident,
             CreateTask, AddTimelineEvent, PublishStatusUpdate, AppendEntry,
             MemoryUpdateIncident, MemoryUpdateTask, Commit, Audit, Finish,
             AuditLost, Die, End
    <2>2. Moves(w)
      BY <1>5 DEF Moves, Handle
    <2>3. RowRead(w)'
      BY <2>1 DEF RowRead
    <2>4. QED
      BY <1>1, <2>2, <2>3
  <1>6. CASE \/ UNCHANGED vars
             \/ \E u \in Users, g \in GrantedRoles : Grant(u, g)
    <2>1. UNCHANGED <<incidents, tasks, pc, req, row, overtaken>>
      BY <1>6 DEF vars, Grant, history
    <2>2. QED
      BY <2>1 DEF Reading, RowRead, Current, Merged
  <1>7. QED
    BY <1>2, <1>3, <1>4, <1>5, <1>6 DEF Next, Handle

(* An update changes only the fields it names, however many others run, on *)
(* either back end; the one exception is a Postgres request that another's *)
(* commit overtook between its SELECT and its UPDATE.                      *)
THEOREM UnnamedFieldsKeptHolds == Spec => UnnamedFieldsKept
  <1>1. Init => Reading
    BY DEF Init, Reading, RowRead
  <1>2. JobInv /\ Reading /\ [Next]_vars =>
    [\A i \in Incidents :
         /\ incidents[i] # None => \A f \in DOMAIN incidents[i] :
              incidents'[i][f] # incidents[i][f] =>
                \E w \in Workers : /\ pc'[w] = "audit"
                                   /\ NamedBy(w, "patch", i, f, incidents'[i][f])
         /\ tasks[i] # None => \A f \in DOMAIN tasks[i] :
              tasks'[i][f] # tasks[i][f] =>
                \E w \in Workers : /\ pc'[w] = "audit"
                                   /\ NamedBy(w, "task_patch", i, f, tasks'[i][f])
      ]_vars
    BY UnnamedStep
  <1>3. QED
    BY JobInvariance, ReadingStep, <1>1, <1>2, PTL DEF Spec, UnnamedFieldsKept

-----------------------------------------------------------------------------
(* Requests that do not overlap.                                           *)
Row(w) == <<Table(req[w]), req[w].incident>>

\* No two workers are between the check and the commit of the same row.
OneEach ==
    \A v, w \in Workers :
        Updating(v) /\ Updating(w) /\ Row(v) = Row(w) => v = w

\* What was checked or read of the row is still so.
UpToDate(w) ==
    LET r == req[w] IN
    /\ Updating(w) /\ r.op = "patch" /\ r.body.status # None =>
           AllowedTransition(incidents[r.incident].status, r.body.status)
    /\ RowRead(w)

Serial == \A w \in Workers : UpToDate(w)

LEMMA UpToDateFrame ==
    ASSUME JobInv, OneEach, NEW w \in Workers, NEW v \in Workers, v # w,
           WritesOwn(w), Spares(v), UpToDate(v)
    PROVE  UpToDate(v)'
  <1>1. CASE Updating(v)
    <2> DEFINE i == req[v].incident
    <2>1. /\ i \in Incidents /\ req[v].op \in {"patch", "task_patch"}
          /\ req[v].op = "patch" => incidents[i] # None
          /\ req[v].op = "task_patch" => tasks[i] # None
      BY <1>1, RowExists DEF Updating
    <2>2. ~(Updating(w) /\ req[w].op = req[v].op /\ req[w].incident = i)
      BY <1>1 DEF OneEach, Row, Table
    <2>3. FreshId(w)
      BY DEF JobInv, Job
    <2>4. req[v].op = "patch" => incidents'[i] = incidents[i]
      BY <2>1, <2>2, <2>3, RowExists
         DEF WritesOwn, FreshId, Creating, Updating
    <2>5. req[v].op = "task_patch" => tasks'[i] = tasks[i]
      BY <2>1, <2>2, <2>3, RowExists
         DEF WritesOwn, FreshId, Creating, Updating
    <2>6. Current(req[v])' = Current(req[v])
      BY <2>1, <2>4, <2>5 DEF Current, Spares
    <2>7. QED
      BY <1>1, <2>1, <2>4, <2>6
         DEF UpToDate, RowRead, Spares, Updating, AllowedTransition
  <1>2. CASE ~Updating(v)
    BY <1>2 DEF UpToDate, RowRead, Updating, Spares
  <1>3. QED
    BY <1>1, <1>2

LEMMA SerialStep == JobInv /\ OneEach /\ Serial /\ [Next]_vars => Serial'
  <1> SUFFICES ASSUME JobInv, OneEach, Serial, [Next]_vars PROVE Serial'
    OBVIOUS
  <1>a. /\ pc \in [Workers -> {"idle", "membership", "find", "findTask",
                            "insert", "update", "write", "services",
                            "commit", "audit", "done"}]
        /\ row \in [Workers -> IncidentRow \cup TaskRow \cup {None}]
        /\ req \in [Workers -> Requests \cup {None}]
    BY DEF JobInv, IInv, TypeOK
  <1> USE DEF Goto, Respond, dbVars, localVars
  <1>1. ASSUME NEW w \in Workers, Moves(w), UpToDate(w)'
        PROVE  Serial'
    BY <1>1, MovesFrame, UpToDateFrame DEF Serial
  <1>2. ASSUME NEW w \in Workers, Moves(w), ~Updating(w)'
        PROVE  Serial'
    <2>1. UpToDate(w)'
      BY <1>2 DEF UpToDate, RowRead, Updating
    <2>2. QED
      BY <1>1, <1>2, <2>1
  <1>3. ASSUME NEW w \in Workers, FindIncident(w) PROVE Serial'
    <2>1. UNCHANGED <<incidents, tasks, req>>
      BY <1>3 DEF FindIncident
    <2>2. Moves(w)
      BY <1>3 DEF Moves, Handle
    <2>3. CASE Updating(w)'
      <3>1. /\ pc'[w] = "update"
            /\ req[w].op = "patch" /\ req[w].body.status # None =>
                 AllowedTransition(incidents[req[w].incident].status,
                                   req[w].body.status)
        BY <1>a, <1>3, <2>3 DEF FindIncident, Updating
      <3>2. UpToDate(w)'
        BY <2>1, <3>1 DEF UpToDate, RowRead, AllowedTransition
      <3>3. QED
        BY <1>1, <2>2, <3>2
    <2>4. QED
      BY <1>2, <2>2, <2>3
  <1>4. ASSUME NEW w \in Workers, FindTask(w) PROVE Serial'
    <2>1. /\ UNCHANGED <<incidents, tasks, req>>
          /\ req[w].op = "task_patch" /\ pc'[w] \in {"done", "update"}
          /\ Moves(w)
      BY <1>a, <1>4 DEF FindTask, JobInv, IInv, Knows, Moves, Handle
    <2>2. UpToDate(w)'
      BY <2>1 DEF UpToDate, RowRead
    <2>3. QED
      BY <1>1, <2>1, <2>2
  <1>5. ASSUME NEW w \in Workers, SelectRow(w) PROVE Serial'
    <2>1. /\ UNCHANGED <<incidents, tasks, req>>
          /\ pc[w] = "update" /\ pc'[w] = "write" /\ Moves(w)
          /\ row'[w] = Current(req[w])
      BY <1>a, <1>5 DEF SelectRow, Moves, Handle
    <2>2. UpToDate(w)'
      BY <2>1 DEF Serial, UpToDate, RowRead, Updating, Current, AllowedTransition
    <2>3. QED
      BY <1>1, <2>1, <2>2
  <1>6. ASSUME NEW w \in Workers, UpdateRow(w) PROVE Serial'
    <2>1. /\ UNCHANGED <<incidents, tasks, req>>
          /\ pc[w] = "write" /\ pc'[w] \in {"services", "commit"} /\ Moves(w)
          /\ row'[w] = Merged(req[w], row[w])
      BY <1>a, <1>6 DEF UpdateRow, Moves, Handle
    <2>2. UpToDate(w)'
      BY <2>1 DEF Serial, UpToDate, RowRead, Updating, Current, AllowedTransition,
                  Merged
    <2>3. QED
      BY <1>1, <2>1, <2>2
  <1>7. ASSUME NEW w \in Workers, ReplaceServices(w) PROVE Serial'
    <2>1. /\ UNCHANGED <<incidents, tasks, req, row>>
          /\ pc[w] = "services" /\ pc'[w] = "commit" /\ Moves(w)
      BY <1>a, <1>7 DEF ReplaceServices, Moves, Handle
    <2>2. UpToDate(w)'
      BY <2>1 DEF Serial, UpToDate, RowRead, Updating, Current, AllowedTransition,
                  Merged
    <2>3. QED
      BY <1>1, <2>1, <2>2
  <1>8. ASSUME NEW w \in Workers,
               \/ \E r \in Requests : Receive(w, r)
               \/ ReadMembership(w) \/ CreateIncident(w) \/ CreateTask(w)
               \/ AddTimelineEvent(w) \/ PublishStatusUpdate(w)
               \/ MemoryUpdateIncident(w) \/ MemoryUpdateTask(w)
               \/ Commit(w) \/ Audit(w) \/ Finish(w) \/ AuditLost(w) \/ Die(w)
        PROVE  Serial'
    <2>1. ~Updating(w)'
      <3>1. pc'[w] \in {"membership", "find", "insert", "audit", "done", "idle"}
        BY <1>a, <1>8
           DEF Receive, ReadMembership, CreateIncident, CreateTask,
               AddTimelineEvent, PublishStatusUpdate, AppendEntry,
               MemoryUpdateIncident, MemoryUpdateTask, Commit, Audit, Finish,
               AuditLost, Die, End
      <3>2. QED
        BY <3>1 DEF Updating
    <2>2. Moves(w)
      BY <1>8 DEF Moves, Handle
    <2>3. QED
      BY <1>2, <2>1, <2>2
  <1>9. CASE \/ UNCHANGED vars
             \/ \E u \in Users, g \in GrantedRoles : Grant(u, g)
    <2>1. UNCHANGED <<incidents, tasks, pc, req, row>>
      BY <1>9 DEF vars, Grant
    <2>2. QED
      BY <2>1 DEF Serial, UpToDate, RowRead, Updating, Current, AllowedTransition,
                  Merged
  <1>10. QED
    BY <1>3, <1>4, <1>5, <1>6, <1>7, <1>8, <1>9 DEF Next, Handle

LEMMA SerialInvariance == Spec /\ []OneEach => []Serial
  <1>1. Init => Serial
    BY DEF Init, Serial, UpToDate, RowRead, Updating
  <1>2. QED
    BY <1>1, JobInvariance, SerialStep, PTL DEF Spec

(* A single worker never overlaps with itself. *)
LEMMA OneWorker == Cardinality(Workers) = 1 => OneEach
  <1>1. Cardinality(Workers) = 1 => \E x : Workers = {x}
    BY WorkersAssumption, FS_Singleton
  <1>2. QED
    BY <1>1 DEF OneEach

-----------------------------------------------------------------------------
(* Refinement: what clients see of the statuses is an IncidentLifecycle.   *)
StatusOf == [i \in Incidents |-> IF incidents[i] = None THEN None
                                 ELSE incidents[i].status]

LEMMA StatusWritten ==
    ASSUME incidents \in [Incidents -> IncidentRow \cup {None}],
           NEW i \in Incidents, NEW new \in IncidentRow,
           incidents' = [incidents EXCEPT ![i] = new]
    PROVE  StatusOf' = [StatusOf EXCEPT ![i] = new.status]
  <1>1. new # None
    BY NoneAssumption
  <1>2. QED
    BY <1>1 DEF StatusOf

LEMMA LifecycleStep ==
    JobInv /\ Serial /\ [Next]_vars => [Lifecycle!Next]_StatusOf
  <1> SUFFICES ASSUME JobInv, Serial, [Next]_vars
               PROVE  [Lifecycle!Next]_StatusOf
    OBVIOUS
  <1>a. incidents \in [Incidents -> IncidentRow \cup {None}]
    BY DEF JobInv, IInv, TypeOK
  <1>1. CASE UNCHANGED incidents
    BY <1>1 DEF StatusOf
  <1>2. ASSUME NEW w \in Workers, CreateIncident(w)
        PROVE  Lifecycle!Next
    <2> DEFINE new == [status |-> "declared", severity |-> req[w].body.severity]
    <2> PICK i \in Incidents : i = req[w].incident
      BY <1>2, RowExists DEF CreateIncident, Goto
    <2>1. /\ req[w] \in Requests /\ req[w].op = "create"
          /\ incidents[i] = None
      BY <1>2, RowExists
         DEF CreateIncident, Goto, JobInv, Job, FreshId, Creating
    <2>2. new \in IncidentRow
      BY <2>1, RequestAssumption DEF IncidentRow, Statuses
    <2>3. incidents' = [incidents EXCEPT ![i] = new] /\ new.status = "declared"
      BY <1>2 DEF CreateIncident
    <2> HIDE DEF new
    <2>4. StatusOf' = [StatusOf EXCEPT ![i] = "declared"]
      BY <1>a, <2>2, <2>3, StatusWritten
    <2>5. Lifecycle!Declare(i)
      BY <2>1, <2>4 DEF Lifecycle!Declare, StatusOf
    <2>6. QED
      BY <2>5 DEF Lifecycle!Next
  <1>3. ASSUME NEW w \in Workers, MemoryUpdateIncident(w) \/ Commit(w),
               req[w].op = "patch"
        PROVE  [Lifecycle!Next]_StatusOf
    <2> PICK i \in Incidents : i = req[w].incident
      BY <1>3, RowExists DEF MemoryUpdateIncident, Commit, Goto
    <2> DEFINE new == MergedIncident(req[w].body, incidents[i])
    <2>2. /\ req[w] \in Requests /\ incidents[i] \in IncidentRow
          /\ Updating(w) /\ new \in IncidentRow
          /\ incidents' = [incidents EXCEPT ![i] = new]
      BY <1>3, IncidentUpdated DEF Serial, UpToDate
    <2>3. /\ new.status = IF req[w].body.status = None
                          THEN incidents[i].status ELSE req[w].body.status
          /\ new.status \in Statuses
      BY <1>3, <2>2, MergedTyped DEF IncidentRow
    <2>4. req[w].body.status # None =>
              AllowedTransition(incidents[i].status, req[w].body.status)
      BY <1>3, <2>2 DEF Serial, UpToDate
    <2> HIDE DEF new
    <2>5. StatusOf' = [StatusOf EXCEPT ![i] = new.status]
      BY <1>a, <2>2, StatusWritten
    <2>6. StatusOf[i] = incidents[i].status /\ incidents[i].status # None
      BY <2>2, NoneAssumption DEF StatusOf, IncidentRow
    <2>7. CASE new.status = incidents[i].status
      BY <2>5, <2>6, <2>7 DEF StatusOf
    <2>8. CASE new.status # incidents[i].status
      <3> PICK s \in Statuses : s = new.status
        BY <2>3
      <3>1. s \in Transitions[StatusOf[i]]
        BY <2>3, <2>4, <2>6, <2>8 DEF AllowedTransition
      <3>2. Lifecycle!Move(i, s)
        BY <2>5, <2>6, <3>1 DEF Lifecycle!Move, Transitions, StatusOf
      <3>3. QED
        BY <3>2 DEF Lifecycle!Next, Lifecycle!Statuses, Statuses
    <2>9. QED
      BY <2>7, <2>8
  <1>4. UNCHANGED incidents \/ \E w \in Workers : Moves(w)
    BY DEF Next, Moves, Grant, vars, dbVars
  <1>5. QED
    BY <1>1, <1>2, <1>3, <1>4, WhoWrites DEF MemoryUpdateIncident

(* Requests on an incident that do not overlap keep it in its lifecycle:   *)
(* the 400 of the PATCH handler is then all it takes.                      *)
THEOREM LifecycleRefined == Spec /\ []OneEach => LifecycleKept
  <1>1. Init => Lifecycle!Init
    BY DEF Init, Lifecycle!Init
  <1>2. JobInv /\ Serial /\ [Next]_vars
          => [Lifecycle!Next]_([i \in Incidents |-> IF incidents[i] = None THEN None
                                   ELSE incidents[i].status])
    BY LifecycleStep DEF StatusOf
  <1>3. QED
    BY JobInvariance, SerialInvariance, <1>1, <1>2, PTL
       DEF Spec, LifecycleKept, Lifecycle!Spec

(* One request at a time, as in the run incident_serial. *)
COROLLARY LifecycleOneWorker ==
    ASSUME Cardinality(Workers) = 1
    PROVE  Spec => LifecycleKept
  <1>1. OneEach
    BY OneWorker
  <1>2. QED
    BY <1>1, LifecycleRefined, PTL
=============================================================================
