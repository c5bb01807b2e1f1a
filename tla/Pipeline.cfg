SPECIFICATION FairSpec
CONSTANTS
    symbols <- OneSymbol
    Price = {1}
    max_retries = 2
    MaxTicks = 2
    sma_period = 1
    ema_period = 1
    rsi_period = 1
    NoPrice = NoPrice
    NoOrder = NoOrder
    NoFill = NoFill
    rsi_oversold = 60
    rsi_overbought = 70
    order_qty = 1
    enabled = TRUE
    max_position = 2
    max_total_exposure = 2
    max_trade = 2
    ClientPrice = {1}
    ClientQuantity = {1}
    MaxQuantity = 1
    MaxClient = 1
    MaxOrders = 3
    MaxLag = 1
INVARIANTS
    NoClientNoTrade
    OnlyLateOrdersDropped
    LateFetchesBounded
PROPERTIES
    ImplementsStrategy
    OrdersGetMatched
    SignalEnds
CHECK_DEADLOCK FALSE
