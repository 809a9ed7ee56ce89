----------------------------- MODULE MCRewards -----------------------------
(* Rewards for TLC: two users of one market.                                *)
EXTENDS Rewards, TLC

CONSTANTS u1, u2

Symmetry == Permutations(Users)

=============================================================================
