SPECIFICATION Spec
CONSTANTS
    old = old
    new = new
    Recorders = {old, new}
    Msgs <- OneMessage
    LastBucket = 1
PROPERTIES
    FlushFailureIsExposed
