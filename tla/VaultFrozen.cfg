SPECIFICATION Spec
CONSTANTS
    Users = {u1, u2}
    Scale = 10
    IndexScale = 10
    YearDenominator = 2
    BorrowRates = {1}
    ReserveFactors = {}
    AdminFees = {}
    FlashFees = {}
    CollateralFactors = {}
    SupplyCaps = {}
    BorrowCaps = {}
    Controllers = {c1}
    OtherPositions <- MCOtherPositions
    Amounts = {0, 1, 4}
    PTokenAmounts = {1, 3}
    FlashAmounts = {}
    Extras = {}
    MaxAssets = 8
    MaxIndex = 10
    MaxPending = 1
    MaxDonation = 0
SYMMETRY MCSymmetry
INVARIANT HoldersCanAct
CHECK_DEADLOCK FALSE
