SPECIFICATION Spec
CONSTANTS
    old = old
    new = new
    Recorders = {old, new}
    Msgs <- TwoMessages
    LastBucket = 1
INVARIANTS
    WritesAreExclusive
    InTimeIsKept
PROPERTIES
    RowIsWrittenOnce
    RecorderLetsGo
