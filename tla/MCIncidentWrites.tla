-------------------------- MODULE MCIncidentWrites --------------------------
(***************************************************************************)
(* Instances of IncidentWrites: each run takes the requests its question   *)
(* needs.  The statuses they name include every shape of transition:       *)
(* forward, skipping, terminal and illegal.                                *)
(***************************************************************************)
EXTENDS IncidentWrites

CONSTANTS i1, u1, u2

Create(u, i) == [op |-> "create", user |-> u, incident |-> i,
                 body |-> [severity |-> "SEV1", services |-> {"api"}]]
Patch(u, i, st, sev, svc) ==
    [op |-> "patch", user |-> u, incident |-> i,
     body |-> [status |-> st, severity |-> sev, services |-> svc]]
Simple(o, u, i) == [op |-> o, user |-> u, incident |-> i]
NewTask(u, i) == [op |-> "task", user |-> u, incident |-> i,
                  body |-> [assignee |-> "nobody"]]
PatchTask(u, i, st, a) == [op |-> "task_patch", user |-> u, incident |-> i,
                           body |-> [status |-> st, assignee |-> a]]

\* Patches of any status, of a severity, and of both; tasks; log entries.
SerialRequests ==
    UNION {{Create(u, i), NewTask(u, i), PatchTask(u, i, "completed", None),
            PatchTask(u, i, None, u), Simple("publish_external", u, i),
            Simple("timeline", u, i)}
           \cup {Patch(u, i, st, None, None) : st \in Statuses}
           \cup {Patch(u, i, None, "SEV2", None),
                 Patch(u, i, "mitigating", "SEV2", None)}
           : u \in Users, i \in Incidents}

\* Overlapping patches along and against the lifecycle, one of them of no
\* status, some replacing the services.
RaceRequests ==
    {Create(u1, i1), Patch(u1, i1, "resolved", None, {"db"}),
     Patch(u1, i1, "closed", "SEV2", None), Patch(u1, i1, None, None, {"web"})}

\* Two patches that are both legal moves of an incident just declared.
LifecycleRequests ==
    {Create(u1, i1), Patch(u1, i1, "investigating", None, None),
     Patch(u1, i1, "resolved", None, None)}
=============================================================================
