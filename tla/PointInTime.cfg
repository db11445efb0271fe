SPECIFICATION Spec
CONSTANTS
    a = a
    b = b
    z = z
    v = v
    Ids <- MCTrips
    Zones = {z}
    Vendors = {v}
    Null = null
    Times <- MCTimes
    Tick = 2
    Day = 2
    ZoneWindows <- MCZoneWindows
    DriverWindows <- MCDriverWindows
    ZoneTolerance = 1
    DriverTolerance = 2
    MaxGenerations = 2
SYMMETRY TripSymmetry
INVARIANTS TypeOK NoLeak DuplicatesAgree
PROPERTIES JoinIsBackwardAsOf FeaturesAreExact
