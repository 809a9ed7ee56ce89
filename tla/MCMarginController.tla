------------------------ MODULE MCMarginController ------------------------
(* MarginController for TLC: a stable asset and a volatile one, and a second *)
(* vault of the stable one that the admin may map it to.                     *)
EXTENDS MarginController, TLC

CONSTANTS u1, usd, xlm, va, vb, vc

MCAssetOf == [v \in Vaults |-> IF v = vb THEN xlm ELSE usd]
MCFirstMarket == usd :> va @@ xlm :> vb
\* Where the admin may map each asset: nowhere else; to a second vault of it, or by
\* mistake to the other asset's.
MCMappings == usd :> {va} @@ xlm :> {vb}
MCRemappings == usd :> {va, vb, vc} @@ xlm :> {vb}
MCPrices == usd :> {2} @@ xlm :> {1, 2}

=============================================================================
