SPECIFICATION Spec
CONSTANTS
    k = k
    l = l
    Rows <- MCRows
    Keys = {k, l}
    NoKey = NoKey
    NoValue = NoValue
    Frames <- MCFrames
    Threshold = 2
    Buckets = 2
    MaxStages = 1
INVARIANTS SaltedEqualsPlain StagesCountedOnce
CHECK_DEADLOCK FALSE
