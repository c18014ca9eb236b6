---------------------------- MODULE Authorization ----------------------------
(***************************************************************************)
(* The RBAC policy engine: POLICY_RULES and authorize(action, ctx,         *)
(* resource).  It is a pure function of the caller's roles; the services   *)
(* call it with one org role and, everywhere in this code base, with no    *)
(* incident roles.                                                         *)
(***************************************************************************)

OrgRoles == {"Owner", "Admin", "Responder", "Viewer", "Billing"}
IncidentRoles == {"IC", "CL", "OL", "SME"}

Managers == {"Owner", "Admin"}
Staff == Managers \cup {"Responder"}
Readers == Staff \cup {"Viewer"}
Payers == {"Owner", "Billing"}

ManagerActions ==
    {"tenant.update_settings", "members.invite", "members.remove",
     "members.change_role", "api_keys.manage", "webhooks.manage",
     "exports.create"}

StaffActions ==
    {"services.create", "services.update", "services.archive",
     "incidents.create", "incidents.update", "incidents.change_severity",
     "incidents.resolve", "incidents.close",
     "incidents.assign_incident_roles", "timeline.add_event",
     "updates.publish_internal", "updates.publish_external", "tasks.create",
     "tasks.assign", "postmortems.create", "postmortems.edit",
     "postmortems.publish", "audit_log.read"}

PayerActions == {"billing.read", "billing.manage_plan"}

PolicyActions ==
    ManagerActions \cup StaffActions \cup PayerActions
        \cup {"tenant.read", "incidents.read"}

\* POLICY_RULES[action].allowedRoles
AllowedRoles(action) ==
    CASE action \in ManagerActions -> Managers
      [] action \in StaffActions -> Staff
      [] action \in PayerActions -> Payers
      [] action = "incidents.read" -> Readers
      [] action = "tenant.read" -> OrgRoles

\* POLICY_RULES[action].responderIncidentRoles; {} where the rule has none.
ResponderIncidentRoles(action) ==
    CASE action \in {"incidents.assign_incident_roles",
                     "postmortems.publish"} -> {"IC"}
      [] action = "updates.publish_external" -> {"IC", "CL"}
      [] OTHER -> {}

\* Mutant: no incident roles count as the required one.
IncidentRoleOptional(role, action, incidentRoles) ==
    (role = "Responder" /\ ResponderIncidentRoles(action) # {})
        => \/ incidentRoles = {}
           \/ incidentRoles \cap ResponderIncidentRoles(action) # {}

\* Only a Responder, and only where the rule says so, needs an incident role.
HasRequiredIncidentRole(role, action, incidentRoles) ==
    (role = "Responder" /\ ResponderIncidentRoles(action) # {})
        => incidentRoles \cap ResponderIncidentRoles(action) # {}

Authorize(action, orgRoles, incidentRoles) ==
    \E role \in orgRoles :
        /\ role \in AllowedRoles(action)
        /\ HasRequiredIncidentRole(role, action, incidentRoles)
=============================================================================
