SPECIFICATION Spec
CONSTANTS
    None = None
    w1 = w1
    u1 = u1
    u2 = u2
    i1 = i1
    Workers = {w1}
    Users = {u1}
    Incidents = {i1}
    Backends = {"postgres", "memory"}
    GrantedRoles = {"Responder", "Viewer"}
    Requests <- SerialRequests
INVARIANTS
    TypeOK
    ForbiddenOnlyIfExists
PROPERTIES
    LifecycleKept
    UnnamedFieldsKept
    WritersAllowed
