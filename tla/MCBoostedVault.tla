-------------------------- MODULE MCBoostedVault --------------------------
(* BoostedVault with values for its constants. *)
EXTENDS BoostedVault

CONSTANTS shared, own

\* One boosted vault has another depositor, the other is the market's alone.
MCFirstPool ==
    [v \in Vaults |-> IF v = shared THEN [assets |-> 1, total |-> 1, ours |-> 0]
                                    ELSE [assets |-> 0, total |-> 0, ours |-> 0]]

=============================================================================
