SPECIFICATION FSpec
CONSTANTS
    a1 = a1
    a2 = a2
    Accounts <- MCAccounts
    Amounts <- MCOneAmount
    Balances <- MCBalances
    MaxNonce = 1
    AccountSlots = 1
    GlobalSlots = 2
    AccountQueue = 1
    GlobalQueue = 1
    Lifetime = 0
    NoLocals = FALSE
    MaxTime = 0
    MaxBatch = 1
    MaxReinject = 2
    MaxHeads = 0
    MaxInFlight = 2
PROPERTY
    EventsInEmitOrder
SYMMETRY MCSymmetry
