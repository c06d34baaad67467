SPECIFICATION MCSpec
CONSTANTS
    w1 = w1
    w2 = w2
    c1 = c1
    u1 = u1
    u2 = u2
    p1 = p1
    p2 = p2
    r1 = r1
    r2 = r2
    Workers = {w1, w2}
    Events <- OneEvent
    Bars <- SomeBars
    Horizon = 2
    Window = 2
    Lag = 3
    LastBar = 3
    SwingSymbols = {1, 2, 3}
    SwingShapes <- MCSwingShapes
    Discovery = {3}
    Fields = {"oi", "funding"}
    CompactLimit = 1
    AnswerLimit = 2
    ScanLimit = 2
    WatchLimit = 1
    EnrichLimit = 2
    MaxPasses = 1
    DayCost = 2
    DayUniverse = {1, 2}
    DayCore = {1}
    DayAnalyses <- MCDayAnalyses
    DayEffects <- MCDayEffects
    DeepLimit = 2
    TargetLimit = 1
    OutputLimit = 1
    RetryPasses = 1
    MaxDayPasses = 2
    Collectors = {u1, u2, c1}
    Guarded = {c1}
    LastHour = 5
    LastBuild = 2
    MinConsecutive = 2
    TriggerKeys = {1, 2}
    Candidates4h <- MCCandidates
    BarCloses <- MCCloses
    LastSlot4h = 9
    BarSlots = 3
    MaxSnapshotAge = 2
    OutcomeHorizon = 3
    KlineLimit = 2
    DevelopmentSize = 1
    MaxSnapshots = 2
    PolicyCaptures = {p1, p2}
    Pages = {1, 2, 3}
    SourceOf <- MCSourceOf
    HtmlSources = {2}
    OldDates = {1}
    ClockErrors = {0}
    FirstMoment = 3
    LastMoment = 6
    MaxSkew = 1
    EventLookback = 3
    CaptureFresh = 1
    Requests = {r1, r2}
    CacheTtl = 2
    PolicyMaxAge = 2
    ActiveWindow = 2
    RecentWindow = 3
    RecentLimit = 2
    VisibleLimit = 1
    GeoMaxAge = 1
    GeoWindow = 2
    GeoBaseline = 1
    GeoShapes <- MCGeo
    Ratios = {0, 1, 2, 3}
    ElevatedRatio = 2
    HighRatio = 3
SYMMETRY MCSymmetry
CHECK_DEADLOCK FALSE
INVARIANTS
    DerivativesAreNoGate
