-------------------------- MODULE MCReceiptVault --------------------------
(* Instances of ReceiptVault for TLC. *)
EXTENDS ReceiptVault, TLC

\* The positions a user may hold elsewhere: none, safe ones, and unsafe ones.
MCOtherPositions == {[collateral |-> 0, borrows |-> 0], [collateral |-> 0, borrows |-> 1]}

MCSymmetry == Permutations(Users)

=============================================================================
