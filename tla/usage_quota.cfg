SPECIFICATION Spec
CONSTANTS
    w1 = w1
    w2 = w2
    t1 = t1
    t2 = t2
    Workers = {w1, w2}
    Tenants = {t1, t2}
    SmallLimit = 1
    MaxLimit = 2
    DefaultLimit <- MCDefaultLimit
    Window = 1
    None = None
    MaxTime = 2
    MaxEvents = 4
SYMMETRY MCSymmetry
INVARIANTS
    TypeOK
    SoftLimit
    RejectionJustified
CHECK_DEADLOCK FALSE
