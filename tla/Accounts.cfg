SPECIFICATION Spec
CONSTANTS
    Calls = {c1, c2}
    Codes = {k1, k2, k3}
    Tokens = {t1, t2, t3}
    MaxAttempts = 2
    CodeTtl = 1
    Cooldown = 1
    PendingTtl = 2
    MaxTime = 2
    Faults = {"mail", "abort"}
    NULL = NULL
SYMMETRY Symmetry
INVARIANT TypeOK
INVARIANT RotatedOnce
INVARIANT SessionsFollowPassword
PROPERTY AccountByCurrentCode
PROPERTY PasswordByOpenCode
PROPERTY CooldownKept
PROPERTY ExhaustedForGood
PROPERTY NewerCodeSurvives
CHECK_DEADLOCK FALSE
