SPECIFICATION Spec
CONSTANTS
    c = c
    d = d
    x = x
    Markets = {c, d, x}
    Scale = 10
    PriceScale = 2
    CollateralFactor <- MCCollateralFactor
    CloseFactor = 5
    Incentive = 11
    LiquidationFee = 5
    FeeRecipient = TRUE
    Prices <- MCPrices
    Unquoted = {x}
    Faults <- MCFaults
    MaxPTokens <- MCMaxPTokens
    MaxDebt <- MCMaxDebt
    MaxRate <- MCMaxRate
    Amounts = {1, 2}
    PTokenAmounts = {1, 2}
    MarginCaps = {1}
INVARIANTS TypeOK BorrowPreviewHonoured RedeemPreviewNearlyHonoured OnlyShortAreLiquidatable
PROPERTIES OwnStepsLeaveCovered SeizedWithinIncentive
