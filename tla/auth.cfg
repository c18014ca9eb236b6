SPECIFICATION Spec
CONSTANTS
    None = None
    l1 = l1
    l2 = l2
    r1 = r1
    r2 = r2
    LoginWorkers = {l1, l2}
    ResetWorkers = {r1, r2}
    Passwords = {"old", "new"}
    Original = "old"
    LockoutAttempts = 2
    LockoutTime = 2
    TokenTtl = 1
    MaxTime = 3
    MaxFailures = 3
    MaxTokens = 1
INVARIANTS
    TypeOK
    NeverLockedEarly
    TokenUsedOnce
    LockedAfterFailures
PROPERTY LockoutSticks
SYMMETRY MCSymmetry
VIEW MCView
