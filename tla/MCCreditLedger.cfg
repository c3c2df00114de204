\* Three generations compete for the credits through two open transactions.
SPECIFICATION Spec
CONSTANTS
    Users = {"u1", "u2"}
    Generations = {g1, g2, g3}
    Grants = {1, 2, 3, 4}
    NULL = NULL
    Owner <- MCOwner
    Source <- MCSource
    Total <- MCTotal
    ValidFrom <- MCValidFrom
    ExpiresAt <- MCExpiresAt
    CreatedAt <- MCCreatedAt
    MaxSafeInteger = 1000
    Transactions = {t1, t2}
    GrantKey <- MCGrantKey
    MaxTime = 3
SYMMETRY Symmetry
INVARIANT TypeOK
INVARIANT Conservation
INVARIANT OneGrantPerKey
PROPERTY NearestExpiryFirst
PROPERTY ImplementsContract
CHECK_DEADLOCK FALSE
