\* Two generations, two workers that may be suspended, three claims.
SPECIFICATION Spec
CONSTANTS
    Generations = {g1, g2}
    Audio = {a1}
    Workers = {w1, w2}
    Faults = {"crash", "pause", "db", "commitAck"}
    JobTimeout = 2
    MaxTranscriptions = 2
    MaxCalls = 2
    Batches = 2
    NULL = NULL
    MaxClaims = 3
SYMMETRY Symmetry
INVARIANT TypeOK
INVARIANT BudgetKept
INVARIANT OwnerUntilDeadline
INVARIANT TakeoverNotBlocked
INVARIANT ResultsMatchAttempts
INVARIANT ModeratedFirst
PROPERTY ResumesCompleted
CHECK_DEADLOCK FALSE
