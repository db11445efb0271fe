SPECIFICATION FairSpec
CONSTANTS
    a = a
    b = b
    c = c
    p = p
    q = q
    Seed = seed
    NoTable = none
    Unknown = unknown
    Jobs <- MCTwoJobs
    Parts <- MCParts
    Attempts = 1
    MaxActive = 1
    DeleteFaults = {"raise"}
    MaxFaults = 1
    MaxCrashes = 1
PROPERTIES FailureRestoresOld
