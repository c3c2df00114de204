SPECIFICATION Spec
CONSTANTS
    Assets = {a1, a2}
    Reports = {r1, r2}
    Calls = {c1, c2}
    Operations = {"request", "confirm", "delete", "duplicate", "generate"}
    Faults = {"s3", "badUpload", "overlap", "db", "commitAck", "abort"}
    Kind <- OneKind
    Size <- Sizes
    MaxCount <- CountLimitTwo
    MaxBytes = 2
    PendingTtl = 0
    NULL = NULL
SYMMETRY Symmetry
INVARIANT KeysOwned
INVARIANT SourcesReady
PROPERTY VerdictFinal
CHECK_DEADLOCK FALSE
