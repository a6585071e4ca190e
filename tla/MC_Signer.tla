------------------------------ MODULE MC_Signer ------------------------------
(* Model-checking instance of Signer.  TLC's integers are 32 bits wide, so *)
(* the uint64 arithmetic is checked at width 16: chain id 32750 puts V    *)
(* for recovery id 1 at 2^16 and so drives deriveChainId's big.Int branch, *)
(* as chain ids near 2^63 do at width 64.                                  *)
EXTENDS Signer

MCChainIds == {0, 1, 2, 32750}
=============================================================================
