\* Two workers take a paused or slow generation over from one another.
SPECIFICATION Spec
CONSTANTS
    Users = {"u1"}
    User = "u1"
    Generations = {g1}
    Grants = {1}
    NULL = NULL
    Owner <- MCOwner
    Source <- MCSource
    Total <- MCTotal
    ValidFrom <- MCZero
    ExpiresAt <- MCExpiresAt
    CreatedAt <- MCZero
    MaxSafeInteger = 1000
    Credits1 = 1
    Reports = {r1}
    Keys = {k1}
    Callers = {c1}
    Workers = {w1, w2}
    Faults = {"pause", "provider", "s3"}
    Cancels = TRUE
    JobTimeout = 1
    MaxAttempts = 2
    MaxStalled = 1
    FailLimit = 1
    FailWindow = 0
    FailLock = 0
    MaxClaims = 3
    MaxCrashes = 0
SYMMETRY Symmetry
PROPERTY HistoryImmutable
INVARIANT TypeOK
INVARIANT OneOwner
INVARIANT PublishedObjectKept
INVARIANT NoForgottenObject
CHECK_DEADLOCK FALSE
