------------------------------ MODULE MCPrices ------------------------------
(* Prices for TLC: two oracles with the same interval, the token known by   *)
(* its address or by a symbol.                                              *)
EXTENDS Prices, TLC

CONSTANTS o1, o2, token, symbol

Interval == [o \in Oracles |-> 1]
Symmetry == Permutations(Oracles) \cup Permutations(Assets)

=============================================================================
