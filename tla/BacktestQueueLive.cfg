SPECIFICATION FairSpec
CONSTANTS
    w1 = w1
    w2 = w2
    Workers = {w1, w2}
    Symbols <- MCSymbols
    BatchSize = 1
    SignalCount <- MCSignalCount
    MaxJobs = 2
    MaxSlot = 1
    MaxResets = 0
    MaxCrashes = 1
PROPERTIES
    JobsAreFinished
