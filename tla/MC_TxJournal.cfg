SPECIFICATION JSpec
CONSTANTS
    r1 = r1
    r2 = r2
    Torn = Torn
    Records <- MCRecords
    MaxRecords = 3
    MaxInsertFaults = 0
    MaxRotateFaults = 2
    MaxCloseFaults = 1
PROPERTY JournalRefinesLog
