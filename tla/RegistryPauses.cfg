SPECIFICATION FairSpec
CONSTANTS
    Markets = {m1, m2}
    Users = {}
    token = token
    Tokens <- MCTokens
    TokenOf <- MCTokenOf
    BoostedVaults = {}
    None = None
    MaxUserMarkets = 2
    PauseDuration = 1
    ProofAge = 0
    Rank <- MCRank
    Upgraded = TRUE
    Limits = {1}
    UsedPauses = {"liquidation", "redeem", "deposit"}
INVARIANTS TypeOK
PROPERTIES MigrationMissesNone AllowlistMatchesMarkets PausesLapse DelistedMarketsThaw
