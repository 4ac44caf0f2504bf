SPECIFICATION FairLocksSpec
CONSTANTS
    p1 = p1
    r1 = r1
    d1 = d1
    d2 = d2
    k1 = k1
    Transactions <- MCTransactions
    Kind <- MCKind
    MaxAttempts = 2
PROPERTIES LockedAuthorityStands EveryRequestEnds
