SPECIFICATION FSpec
CONSTANTS
    a1 = a1
    a2 = a2
    Accounts <- MCAccounts
    Amounts <- MCOneAmount
    Balances <- MCBalances
    MaxNonce = 2
    AccountSlots = 1
    GlobalSlots = 2
    AccountQueue = 1
    GlobalQueue = 1
    Lifetime = 0
    NoLocals = FALSE
    MaxTime = 1
    MaxBatch = 1
    MaxReinject = 2
    MaxHeads = 1
    MaxInFlight = 3
INVARIANTS
    FeedTypeOK
    NoDuplicateNonce
    PendingHeadExecutable
    PendingCapRespected
    QueuedNotExecutable
    StatusAgreesWithContent
PROPERTY
    LocalsKept
SYMMETRY MCSymmetry
