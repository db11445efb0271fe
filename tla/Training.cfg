SPECIFICATION Spec
CONSTANTS
    a = a
    b = b
    Jobs = {a, b}
    Options <- MCOptions
    Dates <- MCDates
    NoDate = NoDate
    Ids <- MCIds
    NoId = NoId
    Tables <- MCTables
    Window <- MCWindow
    Losses = {1, 2}
    Divergent = {NaN}
    Patience = 2
    Absent = Absent
    Torn = Torn
    LatestRuns = {{}, {r}}
    r = r
    MaxFaults = 1
INVARIANTS TypeOK BestEpochIsReturned SplitIsTemporal RegisteredIsOnDisk MetadataIsLast
