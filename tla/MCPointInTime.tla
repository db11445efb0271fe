--------------------------- MODULE MCPointInTime ---------------------------
EXTENDS PointInTime, TLC

CONSTANTS a, b, z, v

MCTrips == {a, b}

\* Half seconds: four of them make a day; the first lies before 1970.
MCTimes == {-1, 0, 1, 3, 4}

MCZoneWindows == {[first |-> -1, last |-> -1], [first |-> -3, last |-> -1]}
MCDriverWindows == {[first |-> -4, last |-> -2]}

TripSymmetry == Permutations(MCTrips)
=============================================================================
