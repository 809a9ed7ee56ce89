SPECIFICATION Spec
CONSTANTS
    shared = shared
    own = own
    Vaults = {shared, own}
    None = None
    Scale = 10
    BpsScale = 2
    MinDeploy = 2
    ReserveFactor = 5
    FlashFee = 5
    FirstPool <- MCFirstPool
    Amounts = {4}
    PTokenAmounts = {4}
    Extras = {2}
    Interests = {0, 2}
    Buffers = {1}
    MaxAssets = 9
    MaxSupply = 8
    MaxDonation = 4
    MaxReserves = 2
    MaxShares = 9
    MaxEvents = 3
INVARIANTS TypeOK AvailableIsPayable
PROPERTIES HoldersKeepWorth
CHECK_DEADLOCK FALSE
