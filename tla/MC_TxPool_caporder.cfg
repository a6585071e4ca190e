SPECIFICATION Spec
CONSTANTS
    a1 = a1
    a2 = a2
    Accounts <- MCAccounts
    Amounts <- MCAmounts
    Balances <- MCBalances
    MaxNonce = 2
    AccountSlots = 1
    GlobalSlots = 2
    AccountQueue = 1
    GlobalQueue = 1
    Lifetime = 0
    NoLocals = FALSE
    MaxTime = 1
    MaxBatch = 1
    MaxReinject = 2
    MaxHeads = 2
INVARIANT
    QueueCapOrder
