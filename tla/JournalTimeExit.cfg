SPECIFICATION MCSpec
CONSTANTS
    w1 = w1
    w2 = w2
    Subjects = {"journal"}
    Workers = {w1}
    Events <- OneEvent
    Bars <- SomeBars
    Horizon = 2
    Window = 3
    Lag = 1
    LastBar = 4
    StudySymbols = {"BTC", "ETH"}
    BarBuckets = 1
    Lookback = 2
    Windows = {1, 2}
    MinTotal = 2
    MinPerSymbol = 1
    MinSpan = 1
    MinContinuity = 80
    MinBookReady = 30
    MinBookMessage = 30
    MaxAge = 2
    LastTime = 3
    Fragile <- FirstBuckets
    BookUnready <- WithoutBook
    BookSilent <- WithoutBook
    MaxSignals = 3
INVARIANTS
    TimeExitMeansNoTouch
