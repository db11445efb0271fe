SPECIFICATION Spec
CONSTANTS
    a = a
    b = b
    c = c
    t = t
    sha1 = sha1
    sha2 = sha2
    NoVersion = none
    Unknown = unknown
    Runs <- MCTwoRuns
    Trainers <- MCTrainers
    Codes <- MCCodes
    Modes = {"plain"}
    Launches <- MCPlain
    MaxActive = 2
    MaxGenerations = 1
    Faults = {}
    MaxFaults = 0
INVARIANTS LineageIsTrue
