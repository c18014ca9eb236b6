-------------------------- MODULE IncidentLifecycle --------------------------
(***************************************************************************)
(* What the API promises of an incident's status: it is declared once and  *)
(* then moves only along STATUS_TRANSITIONS.                               *)
(***************************************************************************)
CONSTANTS
    Incidents,
    None        \* the incident does not exist (yet); not a status

Statuses == {"declared", "investigating", "mitigating", "monitoring",
             "resolved", "closed"}

\* STATUS_TRANSITIONS
Transitions ==
    [declared      |-> {"investigating", "mitigating", "monitoring", "resolved"},
     investigating |-> {"mitigating", "monitoring", "resolved"},
     mitigating    |-> {"monitoring", "resolved"},
     monitoring    |-> {"resolved"},
     resolved      |-> {"closed"},
     closed        |-> {}]

VARIABLE status

Init == status = [i \in Incidents |-> None]

Declare(i) ==
    /\ status[i] = None
    /\ status' = [status EXCEPT ![i] = "declared"]

Move(i, s) ==
    /\ status[i] # None
    /\ s \in Transitions[status[i]]
    /\ status' = [status EXCEPT ![i] = s]

Next == \E i \in Incidents : Declare(i) \/ \E s \in Statuses : Move(i, s)

Spec == Init /\ [][Next]_status
=============================================================================
