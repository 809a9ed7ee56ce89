SPECIFICATION Spec
CONSTANTS
    Users = {u1, u2}
    Scale = 10
    IndexScale = 10
    YearDenominator = 2
    BorrowRates = {5}
    ReserveFactors = {10}
    AdminFees = {10}
    FlashFees = {5}
    CollateralFactors = {2}
    SupplyCaps = {2}
    BorrowCaps = {2}
    Controllers = {c1}
    OtherPositions <- MCOtherPositions
    Amounts = {1, 3}
    PTokenAmounts = {3}
    FlashAmounts = {2}
    Extras = {0, 1}
    MaxAssets = 3
    MaxIndex = 10
    MaxPending = 1
    MaxDonation = 1
SYMMETRY MCSymmetry
INVARIANTS TypeOK ManagedCashBacked ZeroSupplyIsEmpty DebtsCovered SupplyIsHeld
PROPERTIES NoHiddenDeficit RateNeverFalls NoSelfInflictedShortfall
CHECK_DEADLOCK FALSE
