\* storage.py:142 says that the snapshot lets a restarted bot resume.
SPECIFICATION BotSpec
CONSTANTS
    NumMarkets = 1
    Sides = {1, 2}
    Prices <- MCPrices
    Sizes <- MCSizes
    Depths <- MCDepths
    Payout = 5
    InitialCash = 3
    AllowNegativeCash = TRUE
    MaxOrders = 8
    NoPosition = NoPosition
    End <- MCEndSoon
    WatchWindow = 2
    EntryWindow = 2
    OrderExpiry = 1
    MaxTradesPerMarket = 1
    EntryPrice = 1
    StakeSize = 2
    MinDepth = 0
    MinOrderSize = 1
    MaxDedupe = 2
    ExitEnabled = FALSE
    ExitMultiple = 3
    Bids <- MCNoBid
    MaxNow = 3
    MaxCrashes = 1
    Pending = Pending
    NoWinner = NoWinner
    NoToken = NoToken
    NoBook = NoBook
    NoPoll = NoPoll
    NoSnapshot = NoSnapshot
PROPERTY
    RestartResumes
