CONSTANTS
    p1 = p1
    p2 = p2
    k1 = k1
    k2 = k2
    m1 = m1
    Pair <- TwoPairs
    ClusterOf <- OneCluster
    Edges = {0, 1}
    MaxConcurrent = 1
    Cooldown = 2
    Diversity = 2
    SizeOf <- SizeOfPair
    SoftLimit = 4
    HardLimit = 6
    AggregateLimit = 8
    ShutdownWait = 1
    ReturnsAtOnce = FALSE
    MaxTime = 2
    MaxRows = 2
    Scale = 4
    Quantities = {1, 3}
    MaxLevels = 2
    Unit = 20
    PositionSize = 10
    Gas = 1
    Fee = 3
    Settings <- EdgeSettings
    Reloads = {0, 2, 30}
    DaysLeft <- EdgeDays
    Ticks = 4
    Parts = 20
    Contracts = 1
    ExitFee = 1
    InitialEdges = {2}
    EvapMultiplier = 20
    CaptureRatio = 10
    DecayTrigger = 16
    Horizon = 168
    HoursLeft <- ExitHours
    ShadowCap = 1
    Monitored = {x1, x2}
    EntryFill = 3
    BreakAfter = 3
    FeedPair = {p1, p2}
    Ticker = {k1, k2}
    LegsOf <- OwnAndShared
    FeedRetries = 1
    PriceLevel = {1, 2, 3}
    FeedDepth = 2
    BookAt <- NumberedBooks
    MaxOpens = 1
    MaxMoves = 3
    MaxSids = 3
    MaxLost = 1
    MaxChannel = 2
SPECIFICATION Spec
INVARIANTS
    PairGatesHeld
    ClusterLimitExplained
    EdgeSound
    ExitVerdictsSound
    MonitorSound
    FeedsSound
CHECK_DEADLOCK FALSE
