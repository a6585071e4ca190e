----------------------------- MODULE MC_TxPool ------------------------------
(* Model-checking instance of TxPool: two senders, nonces 0..2, two       *)
(* amounts against two balances (so a head can make a tx unpayable), and  *)
(* caps of one or two slots so that every cap is reached with a handful of *)
(* transactions.                                                          *)
EXTENDS TxPool

CONSTANTS a1, a2

MCAccounts == {a1, a2}
MCAmounts == {1, 2}
MCBalances == {1, 2}

\* Senders are interchangeable: Init and every action treat them alike.
MCSymmetry == Permutations(MCAccounts)
=============================================================================
