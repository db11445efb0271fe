---------------------------- MODULE MCIngestion ----------------------------
EXTENDS Ingestion, TLC

CONSTANTS f1, f2, i1, i2

Nov == <<2022, 11>>
Dec == <<2022, 12>>
Jan == <<2023, 1>>
Feb == <<2023, 2>>
MCMonths == {Nov, Dec, Jan, Feb}

Fetch(start, end, limit, force) ==
    [start |-> start, end |-> end, limit |-> limit, force |-> force]

\* Across the end of the year, with and without a limit (of none is of one) or
\* --force; a range without months.
MCFetches ==
    {Fetch(Dec, Feb, NoLimit, FALSE), Fetch(Dec, Feb, 2, TRUE),
     Fetch(Jan, Jan, NoLimit, TRUE), Fetch(Nov, Jan, 0, FALSE),
     Fetch(Feb, Dec, NoLimit, FALSE)}

\* Both ingestions leave out a month that may have been fetched.
MCIngests == {[start |-> Nov, end |-> Jan]}
\* Only invariants are checked; fetchers are alike, and so are ingestions.
Symmetry == Permutations({f1, f2}) \cup Permutations({i1, i2})
=============================================================================
