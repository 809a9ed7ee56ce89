SPECIFICATION Spec
CONSTANTS
    Markets = {m1, m2}
    Users = {u1, u2}
    token = token
    Tokens <- MCTokens
    TokenOf <- MCTokenOf
    BoostedVaults = {v1}
    None = None
    MaxUserMarkets = 2
    PauseDuration = 1
    ProofAge = 1
    Rank <- MCRank
    Upgraded = FALSE
    Limits = {}
    UsedPauses = {"borrow", "deposit"}
SYMMETRY MCSymmetry
INVARIANTS CountsMatchEntrants DebtsAreVisible BoostedVaultsExclusive
