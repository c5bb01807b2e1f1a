SPECIFICATION Spec
CONSTANTS
    Producer = {p1, p2}
    Symbol = {s1}
    Price <- Prices
    Quantity <- QuantitiesOfAnySign
    MaxOrders = 3
    MaxClock = 1
    NoOrder = NoOrder
SYMMETRY Symmetry
INVARIANTS
    TypeOK
    NoCrossedBook
    BookHoldsArrivals
    TradesWithinLimits
    PricePriority
    SharesConserved
