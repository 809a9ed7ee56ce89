------------------------- MODULE MCMarketRegistry -------------------------
(* MarketRegistry with values for its constants: all markets lend the same *)
(* token, the case in which a delisting must keep it allowed.              *)
EXTENDS MarketRegistry, TLC, SequencesExt

CONSTANT token

MCTokens == {token}
MCTokenOf == [m \in Markets |-> token]
MCOrder == SetToSeq(Markets)
MCRank == [m \in Markets |-> CHOOSE i \in DOMAIN MCOrder : MCOrder[i] = m]

\* Markets differ by nothing but their positions, users by nothing but theirs.
MCSymmetry == Permutations(Users) \cup Permutations(Markets)

=============================================================================
