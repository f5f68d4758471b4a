\* The paper engine alone: every order of engine calls, two orders at most.
SPECIFICATION Spec
CONSTANTS
    NumMarkets = 2
    Sides = {1, 2}
    Prices <- MCPrices
    Sizes <- MCSizes
    Depths <- MCDepths
    Payout = 3
    InitialCash = 5
    AllowNegativeCash = FALSE
    MaxOrders = 2
    NoPosition = NoPosition
INVARIANTS
    TypeOK
    ReserveMatchesOpenOrders
    PositionsAccountForFills
    NoMoneyCreated
PROPERTIES
    ClosedOrdersAreFinal
    ImplementsAccount
CHECK_DEADLOCK FALSE
