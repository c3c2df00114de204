SPECIFICATION Spec
CONSTANTS
    Assets = {a1, a2}
    Reports = {r1, r2}
    Calls = {c1, c2}
    Operations = {"request", "confirm", "delete", "duplicate", "generate", "purge"}
    Faults = {"abort", "abortCopy", "copy"}
    Kind <- OneKind
    Size <- Sizes
    MaxCount <- CountLimit
    MaxBytes = 1
    PendingTtl = 0
    NULL = NULL
SYMMETRY Symmetry
INVARIANT TypeOK
INVARIANT ReadyAssetHasObject
INVARIANT CleanupSparesUsed
INVARIANT LimitsHold
CHECK_DEADLOCK FALSE
