SPECIFICATION Spec
CONSTANTS
    None = None
    r1 = r1
    r2 = r2
    c1 = c1
    c2 = c2
    Runners = {r1, r2}
    FileCount = 3
    Checksums = {c1, c2}
    Builds <- MCBuilds
INVARIANTS
    RanOnce
    InOrder
    DoneMigrated
    FailsForCause
PROPERTY RunEnds
