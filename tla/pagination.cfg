SPECIFICATION Spec
CONSTANTS
    None = None
    w1 = w1
    w2 = w2
    Backends = {"memory", "postgres"}
    Writers = {w1, w2}
    Ids = {1, 2, 3, 4}
    MaxMs = 1
    PerMs = 2
    Limits <- MCLimits
    DefaultLimit = 2
    MaxLimit = 2
INVARIANTS
    NewestFirst
    NothingSkipped
PROPERTY WalkEnds
