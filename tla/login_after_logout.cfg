SPECIFICATION Spec
CONSTANTS
    None = None
    f1 = f1
    f2 = f2
    u1 = u1
    u2 = u2
    t1 = t1
    t2 = t2
    Requests = {f1}
    Users = {u1, u2}
    Tenants = {t1, t2}
    Founders <- MCFounders
    MaxSessions = 8
    Persistent = FALSE
    Pages = {"incidents", "apiKeys"}
INVARIANT LoginServed
VIEW MCView
