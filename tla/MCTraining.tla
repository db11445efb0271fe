----------------------------- MODULE MCTraining -----------------------------
EXTENDS Training, TLC

CONSTANTS a, b, r

\* The windows are days 1-2, 3-4 and 5-6; days 0 and 7 are outside.
MCDates == 0..7
MCWindow == [train |-> [lo |-> 1, hi |-> 3],
             val   |-> [lo |-> 3, hi |-> 5],
             test  |-> [lo |-> 5, hi |-> 7]]

MCIds == -1..1

RowsOf(date, id) == [date |-> date, labelled |-> TRUE, id |-> id]

\* A row of every date, and rows without date, label or category, or with a
\* negative one.
Everything ==
    {RowsOf(d, 0) : d \in MCDates}
    \cup {RowsOf(NoDate, 0), RowsOf(4, NoId), RowsOf(3, -1),
          [RowsOf(4, 0) EXCEPT !.labelled = FALSE]}
OnlyTrain == {RowsOf(1, 0), RowsOf(7, 0)}
NewInVal == {RowsOf(2, 0), RowsOf(3, 1), RowsOf(6, 0)}
NewInTest == {RowsOf(2, 0), RowsOf(4, 0), RowsOf(5, 1)}
MCTables == {Everything, OnlyTrain, NewInVal, NewInTest}

Option(framework, id, epochs, register) ==
    [framework |-> framework, id |-> id, epochs |-> epochs, register |-> register]
\* One long torch run; beside it a job of the other framework with the same or
\* another run id, one with the same path, and one that trains no epoch.
MCOptions ==
    a :> {Option("sklearn", 1, 0, TRUE), Option("sklearn", 2, 0, FALSE),
          Option("torch", 1, 1, TRUE), Option("torch", 2, 0, TRUE)}
    @@ b :> {Option("torch", 1, 4, TRUE)}
=============================================================================
