---------------------------- MODULE MC_TxJournal ----------------------------
EXTENDS TxJournal

CONSTANTS r1, r2

MCRecords == {r1, r2}

=============================================================================
