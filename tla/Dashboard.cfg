SPECIFICATION PageFairSpec
CONSTANTS
    Id = {b1, b2}
    max_trades = 3
    FeedLength = 3
    MaxPolls = 2
    MaxFills = 2
    MaxClicks = 2
INVARIANTS
    FeedWithinBooked
    OrdersAccountedFor
PROPERTIES
    FillsGetShown
CHECK_DEADLOCK FALSE
