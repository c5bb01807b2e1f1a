SPECIFICATION StrategySpec
CONSTANTS
    Symbol = {s1, s2}
    Price <- Prices
    sma_period = 4
    ema_period = 2
    rsi_period = 1
    MaxUpdates = 5
    NoPrice = NoPrice
    NoOrder = NoOrder
    NoFill = NoFill
    rsi_oversold = 30
    rsi_overbought = 70
    order_qty = 1
    enabled = TRUE
    max_position = 2
    max_total_exposure = 3
    max_trade = 2
    FillNotional <- NotionalsOfAnySign
    MaxQueue = 1
    MaxFills = 2
SYMMETRY Symmetry
INVARIANTS
    SymbolLimitKept
    PortfolioLimitKept
    OrdersAlternate
    OrdersAfterWarmup
