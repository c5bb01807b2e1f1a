SPECIFICATION Spec
CONSTANTS
    Symbol = {s1, s2}
    Price <- Prices
    sma_period = 3
    ema_period = 2
    rsi_period = 2
    NoPrice = NoPrice
    MaxUpdates = 5
CHECK_DEADLOCK FALSE
INVARIANTS
    WarmupExact
    SmaIsMean
    EmaIsWeighted
    RsiIsWilder
