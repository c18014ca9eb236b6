SPECIFICATION Spec
CONSTANTS
    None = None
    l1 = l1
    l2 = l2
    r1 = r1
    r2 = r2
    LoginWorkers = {l1, l2}
    ResetWorkers = {r1}
    Passwords = {"old", "new"}
    Original = "old"
    LockoutAttempts = 2
    LockoutTime = 2
    TokenTtl = 1
    MaxTime = 4
    MaxFailures = 4
    MaxTokens = 2
INVARIANT LockoutProtected
