SPECIFICATION MCFairSpec
CONSTANTS
    w1 = w1
    w2 = w2
    Subjects = {"journal", "study"}
    Workers = {w1}
    Events <- OneEvent
    Bars <- TwoBars
    Horizon = 2
    Window = 2
    Lag = 5
    LastBar = 5
    StudySymbols = {"BTC", "ETH"}
    BarBuckets = 1
    Lookback = 2
    Windows = {1, 2}
    MinTotal = 2
    MinPerSymbol = 1
    MinSpan = 1
    MinContinuity = 80
    MinBookReady = 30
    MinBookMessage = 30
    MaxAge = 2
    LastTime = 3
    Fragile <- FirstBuckets
    BookUnready <- WithoutBook
    BookSilent <- WithoutBook
    MaxSignals = 3
PROPERTIES
    ClosedIsFinal
    OpenRowsAreResolved
    BucketStudyIsSound
