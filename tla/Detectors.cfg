SPECIFICATION MCSpec
CONSTANTS
    Prices <- MCPrices
    Lookback = 2
    Window = 4
    LastBar = 6
    Shapes <- MCShapes
    LiquidityLookback = 2
    StructureLookback = 1
    MinDepth = 1
    MaxDepth = 2
    Reclaim = 1
    MaxConfirm = 2
    GroupBars = 2
    Lookback15 = 1
    SliceBars = 6
    LastSlot = 7
    MaxGaps = 1
    DayShapes <- MCDayShapes
    DaySnapshots <- MCDaySnapshots
    DayLookback = 2
    DayWindow = 5
    ActiveBars = 2
    MaxExtension = 1
    DayCost = 2
    DayLastBar = 6
    TrainEnd = 1
    HoldoutEnd = 2
    LastDay = 3
    Scores = {1, 2}
    Nets <- LossOrGain
    MinTrain = 1
    MinHoldout = 1
    MaxRows = 3
    Levels = {0, 1, 2, 3, 4, 5}
    MinProfile = 2
    Unit = 6
    Hypotheses = {1, 2, 3}
    Blocks = 4
    Configs = 3
    Returns = {0, 1}
    Axis = {1, 2, 4}
INVARIANTS
    ContextIsTrue
    OneDetector
    BreakoutsAreTraded
    GatesMatchDecision
PROPERTIES
    OriginNeverGoesBack
    ConfirmedIsFinal
    StatisticsAreExact
