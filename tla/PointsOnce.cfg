SPECIFICATION ProgramsSpec
CONSTANTS
    a = a
    b = b
    Tokens = {a, b}
    NoToken = NoToken
    Torn = Torn
    ListedMarkets <- MCListed
    Midpoints = {3, 7}
    BuyBelow = 4
    SellAbove = 6
    MaxLosses = 2
    PageLimit = 2
    PageSize = 1
    MaxStrategyCrashes = 2
    i1 = i1
    i2 = i2
    Items = {i1, i2}
    Payloads <- MCPayloads
    Missing = Missing
    StartingCapital = 10000
    MinAllocation = 25
    ProfitTarget = 7
    SimulationDays = 2
    MaxAutopilotCycles = 3
    MaxAutopilotCrashes = 1
    m1 = m1
    m2 = m2
    Pairs = {m1, m2}
    RawMarkets <- MCRawMarkets
    Books <- MCMakerBooks
    Absent = Absent
    MaxInventory = 1
    MaxGlobalInventory = 1
    MaxFillsPerSide = 1
    MinSpread = 2
    QuoteOffset = 1
    MinUpdates = 1
    RowsPerCycle = 2
    MaxFilled = 2
    MaxLaunches = 2
    MaxRepeats = 1
    x1 = x1
    x2 = x2
    x3 = x3
    EngineTokens = {x1, x2, x3}
    RawCatalogs <- MCRawCatalogs
    PriceHistories <- MCHistories
    BookSnapshots <- MCBookSnapshots
    NoSnapshot = NoSnapshot
    IncoherenceThreshold = 8
    TailThreshold = 92
    MaxSpread = 10
    MaxPositionPerMarket = 100
    MaxGlobalExposure = 130
    MaxOpenPositions = 2
    MaxEngineRuns = 2
    MaxEngineCrashes = 1
    k1 = k1
    KMarkets = {k1}
    KSides = {1, 2}
    KEnd <- MCKEnd
    KWatchWindow = 3
    KEntryWindow = 2
    KMaxTrades = 1
    KPrice = 1
    KPayout = 2
    KStakeSize = 2
    KMinDepth = 1
    KOrderExpiry = 1
    KDepths = {0, 1, 3}
    KMaxNow = 4
    KMaxCrashes = 2
    KPending = KPending
    KNoWinner = KNoWinner
    KNoPosition = KNoPosition
    Events = {1, 2, 3, 4, 5}
    MarketsOf <- MCMarketsOf
    Listings <- MCListings
    SeedEvent = 1
    EventsPerPage = 2
    MaxPages = 3
    RetryMax = 2
    MaxListChanges = 2
    NoRecords = NoRecords
    o1 = o1
    o2 = o2
    MmMarkets = {o1, o2}
    MmTicks <- MCMmTicks
    MmCycles = 2
    MmSkew = 2000
    MmSpreadFloor = 60
    MmBuffers = 32
    MmFeeRate = 35
    MmMergeEdge = 25
    MmSplitEdge = 30
    MmCash = 100000
    MmMaxCycles = 4
    MmMaxStops = 2
    p1 = p1
    p2 = p2
    RlThreads = {p1, p2}
    RlLimit = 1
    RlWindow = 2
    RlAttempts = 2
    RlRetryAfters = {0, 1}
    RlMaxClock = 4
    RlNobody = RlNobody
    PvRawLists <- MCRawLists
    PvBooks <- MCPvBooks
    PvUnderlyings <- MCPvUnderlyings
    PvFairs = {10}
    PvSamples = {20, 40}
    PvNows = {0, 1}
    PvExpiryWindow = 2
    PvTtl = 5
    PvMaxSpread = 5
    PvMinDepth = 50
    PvMinEdge = 3
    PvMinLiquidity = 25
    PvMinBucket = 30
    PvMinPremium = 4
    PvMaxSkew = 3
    PvMaxNotional = 2500
    PvFeeBps = 500
    PvNone = PvNone
    q1 = q1
    q2 = q2
    q3 = q3
    Keys = {q1, q2, q3}
    TypeOf <- MCTypeOf
    MaxAttempts = 2
    RetryThreshold = 2
    MaxIterations = 2
    MaxCalls = 2
    MaxStarts = 2
    NoEvent = NoEvent
INVARIANT
    PointsOnce
CHECK_DEADLOCK FALSE
