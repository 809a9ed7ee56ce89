--------------------------- MODULE MCAccountRisk ---------------------------
(* AccountRisk for TLC: market d is borrowed from, c holds the collateral,  *)
(* and x is a third market that fails.                                      *)
EXTENDS AccountRisk, TLC

CONSTANTS c, d, x

MCCollateralFactor == c :> 7 @@ d :> 5 @@ x :> 5
MCPrices == c :> {2, 3} @@ d :> {3} @@ x :> {2}
MCFaults == c :> {} @@ d :> {} @@ x :> {"balance", "debt", "accrual", "token", "rate"}
MCMaxPTokens == c :> 5 @@ d :> 1 @@ x :> 2
MCMaxRate == c :> 10 @@ d :> 11 @@ x :> 11
MCMaxDebt == c :> 0 @@ d :> 4 @@ x :> 1

=============================================================================
