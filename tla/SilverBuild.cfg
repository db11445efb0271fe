SPECIFICATION FairSpec
CONSTANTS
    a = a
    b = b
    c = c
    sha1 = sha1
    sha2 = sha2
    Mains <- MCMains
    Launches <- MCLaunches
    NoVersion = none
    Unknown = unknown
    MaxActive = 2
    MaxGenerations = 2
    Faults = {"stop", "write", "delete", "registry"}
    MaxFaults = 1
INVARIANTS TypeOK  OneGeneration
PROPERTIES GroupsKeepPromise RerunCompletes
