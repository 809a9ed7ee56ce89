SPECIFICATION Spec
CONSTANTS
    u1 = u1
    u2 = u2
    Users = {u1, u2}
    Scale = 2
    MaxWord = 3
    MaxSupply = 2
    MaxElapsed = 2
    MaxIndex = 4
    MaxHeld = 2
    MaxInterest = 1
    MaxEarned = 2
    MaxRewarded = 1
    Speeds = {0, 1}
    Amounts = {1}
SYMMETRY Symmetry
INVARIANT TypeOK
PROPERTIES EmissionBoundsClaims EntitlementKept NewLiquidatorsStartNow
CHECK_DEADLOCK FALSE
