SPECIFICATION PSpec
CONSTANTS
    a1 = a1
    a2 = a2
    Torn = Torn
    Accounts <- MCAccounts
    Amounts <- MCAmounts
    Balances <- MCAmounts
    Records <- MCRecordsTx
    MaxNonce = 1
    AccountSlots = 1
    GlobalSlots = 2
    AccountQueue = 1
    GlobalQueue = 1
    Lifetime = 0
    NoLocals = FALSE
    MaxTime = 0
    MaxBatch = 1
    MaxReinject = 2
    MaxHeads = 1
    MaxRecords = 4
    MaxInsertFaults = 0
    MaxRotateFaults = 0
    MaxCloseFaults = 0
    MaxCrashes = 2
PROPERTY LocalTxsSurviveRestart
