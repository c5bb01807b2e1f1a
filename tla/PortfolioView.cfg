SPECIFICATION ViewSpec
CONSTANTS
    Symbol = {s1, s2}
    Price <- PricesOfAnySign
    Quantity = {2}
    InitialCash = 10
    MaxTrades = 3
    MaxFills = 3
INVARIANTS
    AccountsBalance
    RoundTrips
    ExposureIsCost
    RecentTradesAreLast
PROPERTIES
    TradesGetBooked
    TotalPnlIsReal
