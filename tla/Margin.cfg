SPECIFICATION Spec
CONSTANTS
    usd = usd
    xlm = xlm
    va = va
    vb = vb
    vc = vc
    u1 = u1
    Users = {u1}
    Assets = {usd, xlm}
    Vaults = {va, vb}
    AssetOf <- MCAssetOf
    FirstMarket <- MCFirstMarket
    CollateralFactor = 100
    CloseFactor = 50
    Incentive = 108
    Bonus = 108
    LiquidationFee = 50
    MaxBorrowSteps = 2
    MaxSlippage = 50
    MaxLeverage = 3
    MaxUserPositions = 2
    VaultCallsBack = TRUE
    MaxPositions = 2
    MaxPTokens = 2
    MaxCustody = 0
    MaxDebt = 2
    MaxMarginDebt = 0
    MaxInterest = 1
    MaxOutput = 2
    Mappings <- MCMappings
    Prices <- MCPrices
    Amounts = {1}
INVARIANTS TypeOK SharesMatch
PROPERTIES LocksKept CloseRepaysItsShares
CHECK_DEADLOCK FALSE
