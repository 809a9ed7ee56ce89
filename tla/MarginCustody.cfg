SPECIFICATION Spec
CONSTANTS
    usd = usd
    xlm = xlm
    va = va
    vb = vb
    vc = vc
    u1 = u1
    Users = {u1}
    Assets = {usd, xlm}
    Vaults = {va, vb, vc}
    AssetOf <- MCAssetOf
    FirstMarket <- MCFirstMarket
    CollateralFactor = 100
    CloseFactor = 50
    Incentive = 108
    Bonus = 108
    LiquidationFee = 50
    MaxBorrowSteps = 2
    MaxSlippage = 50
    MaxLeverage = 2
    MaxUserPositions = 2
    VaultCallsBack = FALSE
    MaxPositions = 1
    MaxPTokens = 1
    MaxCustody = 3
    MaxDebt = 0
    MaxMarginDebt = 2
    MaxInterest = 1
    MaxOutput = 2
    Mappings <- MCRemappings
    Prices <- MCPrices
    Amounts = {1}
PROPERTIES OnlyLiquidationStrands SettledOwesNothing
CHECK_DEADLOCK FALSE
