SPECIFICATION FairSpec
CONSTANTS
    a = a
    b = b
    c = c
    p = p
    q = q
    Seed = seed
    NoTable = none
    Unknown = unknown
    Jobs <- MCTwoJobs
    Parts <- MCOnePart
    Attempts = 2
    MaxActive = 2
    DeleteFaults = {"raise", "partial", "silent"}
    MaxFaults = 1
    MaxCrashes = 1
PROPERTIES RerunHeals JobsEnd ImplementsTableWrite
