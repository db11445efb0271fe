SPECIFICATION Spec
CONSTANTS
    a = a
    b = b
    c = c
    p = p
    q = q
    Seed = seed
    NoTable = none
    Unknown = unknown
    Jobs <- MCJobs
    Parts <- MCParts
    Attempts = 2
    MaxActive = 1
    DeleteFaults = {"raise"}
    MaxFaults = 3
    MaxCrashes = 2
SYMMETRY JobSymmetry
INVARIANTS TypeOK NeverMixed Durable
PROPERTIES DonePublished ImplementsTableSwap
