SPECIFICATION MCSpec
CONSTANTS
    a = a
    b = b
    e1 = e1
    e2 = e2
    e3 = e3
    i1 = i1
    b1 = b1
    b2 = b2
    i2 = i2
    j1 = j1
    j2 = j2
    f1 = f1
    None = None
    Recorders = {a, b}
    Transactional = {a}
    Builds = {b1, b2}
    EventIds = {e1, e2, e3}
    Idents = {i1}
    Last = 2
    MaxCrashes = 1
    Jobs = {j1, j2}
    Freezers = {f1}
    Deployments <- MCDeployments
    LastTick = 2
    MaxCaptures = 3
    MaxSignals = 1
    BatchLimit = 1
    HourTicks = 2
    DayTicks = 4
    LiquidationMaxAge = 1
    CrossMaxAge = 1
    BarrierEvents <- MCBarrierEvents
    Sweeps <- MCSweeps
    Bars <- MCBars
    Workers = {"sidecar", "parents"}
    LastBar = 3
    Window = 1
    Activation = 2
    DevelopmentTarget = 1
    ValidationTarget = 1
    PerSide = 1
    MinGroup = 0
    MaxSweepAge = 4
    MaxRuns = 3
SYMMETRY MCSymmetry
CHECK_DEADLOCK FALSE
INVARIANTS
    LedgerIsWhole
    ContextIsSound
    CohortIsComplete
    StudyIsSound
