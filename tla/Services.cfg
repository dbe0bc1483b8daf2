CONSTANTS
    MaxEntries = 4
    MaxQueued = 2
    LastInstant = 3
    Caller = {a1, a2}
    Burst = 2
    MaxElapsed = 5
    MaxIssued = 8
    A = A
    B = B
    C = C
    r1 = r1
    r2 = r2
    Runs <- TwoRuns
    Chunks = 1
    MaxRuns = 1
    MaxFaults = 1
    SimPairs <- PairOrder
    Quotes <- QuotesOfStep
    Unit = 20
    LastStep = 3
    ChunkLength = 2
    TrainEnd = 2
    Bankroll = 40
    Size = 1
    Cost = 0
    Threshold = 1
    MaxPairs = 2
    CapturePct = 80
    Evaporation = 0
    TimeLimit = 1
    Resolution <- ResolvesAt
    Day = 3
    LastHour = 8
    MaxList = 4
    GapHours = 2
    MatchPair = {A}
    MatchScores = {30, 60, 90}
    AutoApprove = 85
    MinReview = 40
    MaxStarts = 3
    MaxReviews = 3
    DueMatches <- OldestFirst
    ScoreOf <- BestFirst
    PollBatch = 1
    UpperTier = 85
    LowerTier = 40
    MinimumData = 2
    MaxPolls = 4
    ClusterMatch = {A, B, C}
    CategoryOf <- Categories
    RiskCluster = {"nfl", "nhl"}
    MaxQuestions = 3
    WordLength <- LettersOf
    PassScore = 300
    WindowDays = 7
    MaxCandidates = 1
    TitleMatch = 50
    GrayFrom = 60
    GrayTo = 84
    Targets <- ListedTargets
    LastMoment = 4
    DateRanges <- AskedRanges
    HistoryChunk = 2
    LiveChunk = 1
    PageSize = 2
    MaxIngestions = 2
    MaxFailures = 1
    LastRefresh = 3
    ChunkSpan = 1
    PageRows = 2
    FlushSize = 2
    MaxRefreshes = 1
    MaxTroubles = 1
    PolyWords <- PolymarketTitles
    KalshiWords <- KalshiTitles
    OurLists <- OurMatches
    PairLists <- ExternalPairs
    MatchThreshold = 60
    MaxValidations = 1
    Attempts = 3
    GapAfter = 3
    Hour = 2
    LowTrades = 2
    LastTime = 6
    MaxRecords = 4
SYMMETRY RunsAlike
SPECIFICATION Spec
INVARIANTS
    TrailSound
    LimiterSound
    RunsSound
    SimulationSound
    ReportsSound
    MatchingSound
    HistorySound
CHECK_DEADLOCK FALSE
