SPECIFICATION FairSpec
CONSTANTS
    a = a
    b = b
    c = c
    t = t
    sha1 = sha1
    sha2 = sha2
    NoVersion = none
    Unknown = unknown
    Runs <- MCRuns
    Trainers <- MCTrainers
    Codes <- MCCodes
    Modes = {"plain", "force", "unregistered"}
    Launches <- MCLaunches
    MaxActive = 2
    MaxGenerations = 2
    Faults = {"gate", "statement", "connection", "write", "delete", "crash"}
    MaxFaults = 1
INVARIANTS SuccessWasPublished OnlyGatedTables OneSuccessPerKey IndexNeverBites FailedRunsAreRecorded
PROPERTIES CompletedIsNoOp RerunRebuilds ImplementsFeatureGroup
