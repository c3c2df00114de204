\* A worker claims a generation between the read and the writes of its compensation.
SPECIFICATION Spec
CONSTANTS
    Users = {"u1"}
    User = "u1"
    Generations = {g1}
    Grants = {1}
    NULL = NULL
    Owner <- MCOwner
    Source <- MCSource
    Total <- MCTotal
    ValidFrom <- MCZero
    ExpiresAt <- MCExpiresAt
    CreatedAt <- MCZero
    MaxSafeInteger = 1000
    Credits1 = 1
    Reports = {r1}
    Keys = {k1}
    Callers = {c1}
    Workers = {w1}
    Faults = {"queue", "ackLost"}
    Cancels = TRUE
    JobTimeout = 1
    MaxAttempts = 2
    MaxStalled = 1
    FailLimit = 1
    FailWindow = 0
    FailLock = 0
    MaxClaims = 3
    MaxCrashes = 0
SYMMETRY Symmetry
PROPERTY CompensationRestoresPrior
CHECK_DEADLOCK FALSE
