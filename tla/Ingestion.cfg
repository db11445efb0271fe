SPECIFICATION Spec
CONSTANTS
    f1 = f1
    f2 = f2
    i1 = i1
    i2 = i2
    Fetchers = {f1, f2}
    Fetches <- MCFetches
    Ingestions = {i1, i2}
    Ingests <- MCIngests
    Months <- MCMonths
    NoLimit = NoLimit
    NoTable = NoTable
    Unknown = Unknown
    MaxFaults = 1
INVARIANTS TypeOK FetchedRangeIsWhole BronzeIsOfWholeFiles
SYMMETRY Symmetry
