SPECIFICATION Spec
CONSTANTS
    Symbol = {s1}
    Price <- RisingPrices
    sma_period = 14
    ema_period = 14
    rsi_period = 3
    NoPrice = NoPrice
    MaxUpdates = 5
CHECK_DEADLOCK FALSE
INVARIANTS
    RisingMeansHigh
