SPECIFICATION Spec
CONSTANTS
    None = None
    w1 = w1
    w2 = w2
    u1 = u1
    u2 = u2
    i1 = i1
    Workers = {w1, w2}
    Users = {u1}
    Incidents = {i1}
    Backends = {"postgres"}
    GrantedRoles = {"Responder"}
    Requests <- LifecycleRequests
PROPERTY LifecycleKept
