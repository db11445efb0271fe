SPECIFICATION Spec
CONSTANTS
    a = a
    b = b
    c = c
    Runs <- MCTwoRuns
    Dates <- MCDates
    Clock = {0, 1}
    Counts <- MCCounts
    Frames <- MCFrames
    NoTable = none
    Unknown = unknown
    MinRows = 9
    FloorNum = 9
    FloorDen = 10
    Lower <- MCLower
    Upper <- MCUpper
    MaxActive = 1
    Faults = {"read", "record", "write", "delete"}
    MaxFaults = 1
SYMMETRY RunSymmetry
INVARIANTS TypeOK RefusalsAreAudited OnlySoundTables
PROPERTIES SharedPartitionsKeepFloor
