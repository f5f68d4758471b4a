SPECIFICATION ClobSpec
CONSTANTS
    Callers = {c1, c2}
    MaxFaults = 2
    NoRequest = NoRequest
    Pages = 3
    o1 = o1
    o2 = o2
    o3 = o3
    Orders = {o1, o2, o3}
    Nonces = {0, 1}
    NoCreds = NoCreds
    OrdersPerPage = 1
    MaxSessionFaults = 2
    TickSizes = {1, 10}
    FeeRates = {0, 5}
    CallerArguments <- MCCallerArguments
    BookPrices = {5, 40}
    One = 100
    NoTick = NoTick
    NoOrder = NoOrder
    Unknown = Unknown
    Ttl = 2
    MaxTime = 3
    MaxMarketChanges = 2
    PriceScale = 10
    Guard = 10
    Fine = 3
    AmountTokens = 2
    MaxSize = 20
    DepthBooks <- MCDepthBooks
    Outcomes = {yes, no}
    RfqSizes = {2, 5}
    RfqOne = 3
    QuoteIds = {1, 2}
    NoRfq = NoRfq
    MaxRfqFaults = 1
SYMMETRY MCSymmetry
INVARIANTS
    ClobTypeOK
    DeliveriesExplained
    CredsObtained
    ListingComplete
    SignedUnderMarketRules
    AmountsAndPrices
    RfqOrdersMatch
CHECK_DEADLOCK FALSE
