SPECIFICATION MCSpec
CONSTANTS
    w1 = w1
    w2 = w2
    s1 = s1
    s2 = s2
    Workers = {w1, w2}
    Symbols <- MCSymbols
    BatchSize = 1
    SignalCount <- MCSignalCount
    MaxJobs = 2
    MaxSlot = 1
    MaxResets = 1
    MaxCrashes = 1
    Runs = {w1, w2}
    DiagSymbols <- MCSymbols
    DiagBatches = {1, 2}
    DiagEventCount <- MCDiagEventCount
    MaxLost = 2
    DayCost = 2
    EventRowsOf <- MCEventRowsOf
    Slices <- MCSlices
    ShortMode = "technical_only"
    ClientBatches = 2
    Moves <- MCMoves
    Slots = 6
    PageLimit = 2
    OutcomeBars = 2
    Warmup = 1
    NoOverlap = TRUE
    EventMarkets <- MCEventMarkets
    SweepEvents <- MCSweepEvents
    MaxEvents = 3
    EventHorizons = {1, 2}
    RangeStart = 2
    RangeEnd = 6
    DevelopmentEnd = 5
    MaxConfirmBars = 2
    FlowRuns = {w1, w2}
    FlowSymbols = {s1, s2}
    SetupMaxAge = 2
    SpotMaxAge = 1
    FlowMaxAge = 0
    LastTime = 3
SYMMETRY MCSymmetry
CHECK_DEADLOCK FALSE
INVARIANTS
    SignalsAreWhole
    NoDoubleWork
    ReportIsHonest
    DiagnosticsAreExact
    ReportsAreTrue
    ReplayIsFaithful
    EventSamplesAreSound
    FlowIsSound
