SPECIFICATION Spec
CONSTANTS
    None = None
    Workers = {w1, w2}
    Users = {u1, u2}
    Tenants = {t1, t2}
    Backends = {"postgres", "memory"}
    Grants <- SomeGrants
    Requests <- AllRequests
    MaxAccounts = 1
    MaxKeys = 2
    MaxTime = 1
    w1 = w1
    w2 = w2
    u1 = u1
    u2 = u2
    t1 = t1
    t2 = t2
INVARIANTS
    KeysServeAsGranted
    RevocationTakesEffect
PROPERTIES
    RevocationStands
    RevokedByItsTenant
    ManagedBySessions
SYMMETRY MCSymmetry
VIEW MCView
