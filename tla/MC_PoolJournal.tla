--------------------------- MODULE MC_PoolJournal ---------------------------
(* Model-checking instance of PoolJournal: two senders, journal records   *)
(* that are the pool's transactions, and one amount and one balance for   *)
(* runs in which no tx can replace another.                               *)
EXTENDS PoolJournal

CONSTANTS a1, a2

MCAccounts == {a1, a2}
MCAmounts == {1, 2}
MCOneAmount == {1}
MCOneBalance == {1}
MCRecordsTx == Tx

\* Senders are interchangeable: Init and every action treat them alike.
MCSymmetry == Permutations(MCAccounts)
=============================================================================
