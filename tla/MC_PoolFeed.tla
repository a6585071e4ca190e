----------------------------- MODULE MC_PoolFeed -----------------------------
(* Model-checking instance of PoolFeed: two senders, and one amount for   *)
(* runs in which no tx can replace another (a direct replacement sends no *)
(* event, see the replace finding of the journal).                         *)
EXTENDS PoolFeed

CONSTANTS a1, a2

MCAccounts == {a1, a2}
MCAmounts == {1, 2}
MCBalances == {1, 2}
MCOneAmount == {1}

\* Senders are interchangeable: Init and every action treat them alike.
MCSymmetry == Permutations(MCAccounts)
=============================================================================
