--------------------------- MODULE MCQualityGates ---------------------------
EXTENDS QualityGates, TLC

CONSTANTS a, b, c

\* 9 of 10 rows keep the floor of 9/10, 8 do not; a partition may vanish.
MCCounts == {0, 8, 9, 10}
MCDates == 1..3
MCTwoDates == 1..2
MCLower == [date |-> 1, time |-> 0]
MCUpper == [date |-> 2, time |-> 0]

Clean(rows, time) ==
    [schema |-> "ok", dirty |-> FALSE, sparse |-> FALSE, doubled |-> FALSE,
     rows |-> rows, time |-> time]
CleanFrames(dates, clock) == {Clean(rows, time) : rows \in [dates -> MCCounts], time \in clock}

\* Frames with one defect.
Defective(rows) ==
    {[Clean(rows, 1) EXCEPT !.schema = "wrong"],
     [Clean(rows, 1) EXCEPT !.schema = "unreadable"],
     [Clean(rows, 1) EXCEPT !.dirty = TRUE],
     [Clean(rows, 1) EXCEPT !.sparse = TRUE],
     [Clean(rows, 1) EXCEPT !.doubled = TRUE]}

MCFrames == CleanFrames(MCDates, {1}) \cup Defective(<<10, 9, 0>>) \cup Defective(<<0, 10, 0>>)
MCCleanFrames == CleanFrames(MCTwoDates, {0, 1})
MCNoonFrames == CleanFrames(MCTwoDates, {1})

MCTwoRuns == {a, b}
MCThreeRuns == {a, b, c}

RunSymmetry == Permutations(MCTwoRuns)
ThreeRunSymmetry == Permutations(MCThreeRuns)
=============================================================================
