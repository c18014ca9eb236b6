SPECIFICATION FairSpec
CONSTANTS
    None = None
    Workers = {w1, w2}
    Users = {u1, u2}
    Backends = {"postgres", "memory"}
    InviteRoles = {"Owner", "Viewer"}
    InviteTtl = 0
    MaxTime = 1
    MaxInvites = 2
    w1 = w1
    w2 = w2
    u1 = u1
    u2 = u2
INVARIANTS
    MembershipsEarned
    InviteAcceptedOnce
PROPERTY RequestsAnswered
