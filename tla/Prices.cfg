SPECIFICATION Spec
CONSTANTS
    o1 = o1
    o2 = o2
    Oracles = {o1, o2}
    Resolution <- Interval
    token = token
    symbol = symbol
    Assets = {token, symbol}
    Multipliers = {0, 1, 2, 3}
    FallbackMaxAge = 1
    MaxMultiplier = 2
    Delay = 1
    Unset = Unset
    None = None
    MaxAge = 3
    MaxSources = 2
SYMMETRY Symmetry
INVARIANT TypeOK
PROPERTIES QuotesAreRecent QuotesAdvance FallbackIsVouchedFor
