\* Early exits (EXIT_AT_FLAT) and the fills that come after them.
SPECIFICATION BotSpec
CONSTANTS
    NumMarkets = 1
    Sides = {1, 2}
    Prices <- MCPrices
    Sizes <- MCSizes
    Depths <- MCDepths
    Payout = 5
    InitialCash = 3
    AllowNegativeCash = TRUE
    MaxOrders = 8
    NoPosition = NoPosition
    End <- MCEndSoon
    WatchWindow = 2
    EntryWindow = 2
    OrderExpiry = 1
    MaxTradesPerMarket = 2
    EntryPrice = 1
    StakeSize = 2
    MinDepth = 0
    MinOrderSize = 1
    MaxDedupe = 1
    ExitEnabled = TRUE
    ExitMultiple = 3
    Bids <- MCBids
    MaxNow = 3
    MaxCrashes = 0
    Pending = Pending
    NoWinner = NoWinner
    NoToken = NoToken
    NoBook = NoBook
    NoPoll = NoPoll
    NoSnapshot = NoSnapshot
INVARIANTS
    NoMoneyCreated
