\* Generations settle one after the other; a worker that crashes leaves a dead lease behind.
SPECIFICATION FairSpec
CONSTANTS
    Users = {"u1"}
    User = "u1"
    Generations = {g1, g2}
    Grants = {1}
    NULL = NULL
    Owner <- MCOwner
    Source <- MCSource
    Total <- MCTotal
    ValidFrom <- MCZero
    ExpiresAt <- MCExpiresAt
    CreatedAt <- MCZero
    MaxSafeInteger = 1000
    Credits1 = 2
    Reports = {r1}
    Keys = {k1, k2}
    Callers = {c1}
    Workers = {w1, w2}
    Faults = {"workerCrash", "provider"}
    Cancels = FALSE
    JobTimeout = 1
    MaxAttempts = 2
    MaxStalled = 1
    FailLimit = 2
    FailWindow = 1
    FailLock = 1
    MaxClaims = 3
    MaxCrashes = 1
INVARIANT ProcessingHasJob
INVARIANT ReportMirrorsGeneration
INVARIANT ThrottleConsistent
PROPERTY EveryGenerationSettles
CHECK_DEADLOCK FALSE
