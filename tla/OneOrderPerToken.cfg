\* signal.py:59 says that a token gets one order only.
SPECIFICATION BotSpec
CONSTANTS
    NumMarkets = 1
    Sides = {1, 2}
    Prices <- MCPrices
    Sizes <- MCSizes
    Depths <- MCDepths
    Payout = 5
    InitialCash = 3
    AllowNegativeCash = TRUE
    MaxOrders = 8
    NoPosition = NoPosition
    End <- MCEnd
    WatchWindow = 3
    EntryWindow = 3
    OrderExpiry = 1
    MaxTradesPerMarket = 1
    EntryPrice = 1
    StakeSize = 2
    MinDepth = 0
    MinOrderSize = 1
    MaxDedupe = 2
    ExitEnabled = FALSE
    ExitMultiple = 3
    Bids <- MCNoBid
    MaxNow = 4
    MaxCrashes = 0
    Pending = Pending
    NoWinner = NoWinner
    NoToken = NoToken
    NoBook = NoBook
    NoPoll = NoPoll
    NoSnapshot = NoSnapshot
INVARIANT
    OneOrderPerToken
