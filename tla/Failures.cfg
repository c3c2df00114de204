\* Two requests at a time, with every failure of queue, database and processes at any await.
SPECIFICATION Spec
CONSTANTS
    Users = {"u1"}
    User = "u1"
    Generations = {g1, g2}
    Grants = {1}
    NULL = NULL
    Owner <- MCOwner
    Source <- MCSource
    Total <- MCTotal
    ValidFrom <- MCZero
    ExpiresAt <- MCExpiresAt
    CreatedAt <- MCZero
    MaxSafeInteger = 1000
    Credits1 = 1
    Reports = {r1}
    Keys = {k1, k2}
    Callers = {c1, c2}
    Workers = {w1}
    Faults = {"queue", "ackLost", "apiCrash", "workerCrash", "db", "commitAck"}
    Cancels = TRUE
    JobTimeout = 1
    MaxAttempts = 1
    MaxStalled = 1
    FailLimit = 1
    FailWindow = 0
    FailLock = 0
    MaxClaims = 1
    MaxCrashes = 1
SYMMETRY Symmetry
INVARIANT SettlementMatchesOutcome
CHECK_DEADLOCK FALSE
