---------------------------- MODULE QualityGates ----------------------------
(***************************************************************************)
(* run_gates of quality/checks.py between the computation of a frame and   *)
(* the write that replaces the table (build_and_register, bronze's run):   *)
(* all checks are evaluated, then recorded in quality_results one          *)
(* transaction at a time, and only then does a failed one raise.           *)
(*                                                                         *)
(* The gates are those of driver_trip_history, the group that has them     *)
(* all.  A run whose exception is a DataQualityError ends "refused", one   *)
(* with any other exception "error".                                       *)
(***************************************************************************)
EXTENDS Integers, FiniteSets, FiniteSetsExt

CONSTANTS
    Runs,
    Dates,              \* event_date partitions, in order
    Clock,              \* times of the day
    Counts,             \* row counts of a partition, 0 when there is none
    Frames,             \* the frames a run may compute
    NoTable, Unknown,   \* no table, and what spoilt writes left, see TableWrite
    MinRows,            \* row count floor
    FloorNum, FloorDen, \* the partition floor, as a fraction
    Lower, Upper,       \* the freshness window
    MaxActive,          \* how many runs may be under way at a time
    Faults, MaxFaults   \* what may go wrong, and bound: how often

\* What the gates can tell of a frame.  schema: "wrong" is a type mismatch or a
\* missing column no other gate reads, "unreadable" a missing column that one
\* of them reads; dirty: nulls or values out of range; sparse: a null rate above
\* its ceiling; doubled: a primary key occurs twice; time: of the newest row.
Frame == [schema : {"ok", "wrong", "unreadable"}, dirty : BOOLEAN, sparse : BOOLEAN,
          doubled : BOOLEAN, rows : [Dates -> Counts], time : Clock]
Stamp == [date : Dates, time : Clock]

ASSUME RunsAssumption ==
    IsFiniteSet(Runs) /\ {NoTable, Unknown} \cap Runs = {} /\ NoTable # Unknown
ASSUME DatesAssumption == Dates \subseteq Int /\ IsFiniteSet(Dates) /\ Clock \subseteq Nat
ASSUME CountsAssumption == Counts \subseteq Nat /\ 0 \in Counts
ASSUME FramesAssumption == Frames \subseteq Frame
ASSUME FloorAssumption == MinRows \in Nat /\ FloorNum \in Nat /\ FloorDen \in Nat \ {0}
ASSUME FreshnessAssumption == Lower \in Stamp /\ Upper \in Stamp
ASSUME BoundsAssumption == MaxActive \in Nat \ {0} /\ MaxFaults \in Nat
\* "read": the prior table cannot be read for some other reason than its
\* absence; "record": a statement of the registry fails; "write": the write
\* raises or the process is killed during it; "delete": a delete of the write
\* does not delete.
ASSUME FaultsAssumption == Faults \subseteq {"read", "record", "write", "delete"}

VARIABLES
    disk,       \* the run whose frame is in place, and in the trash, see TableWrite
    pc, frame,
    conn,       \* whether the run has a registry connection
    verdict,    \* what each check of the run said
    recorded,   \* the results of the run in quality_results, in check order
    lastGood,   \* history: the last run that finished
    faults

vars == <<disk, pc, frame, conn, verdict, recorded, lastGood, faults>>

\* The order of the checks.
Checks == {"contract", "null_rate", "primary_key", "row_count", "partition_floor", "freshness"}
Order == <<"contract", "null_rate", "primary_key", "row_count", "partition_floor", "freshness">>
Position == [c \in Checks |-> CHOOSE i \in 1..6 : Order[i] = c]

Ended == {"done", "refused", "error"}
Steps == {"evaluate", "record", "judge", "write", "writing"}

Init ==
    /\ disk = [table |-> NoTable, trash |-> NoTable, spoilt |-> {}]
    /\ pc = [r \in Runs |-> "idle"]
    /\ frame \in [Runs -> Frames]
    /\ conn \in [Runs -> BOOLEAN]
    /\ verdict = [r \in Runs |-> [c \in Checks |-> TRUE]]
    /\ recorded = [r \in Runs |-> 0]
    /\ lastGood = NoTable
    /\ faults = 0

Goto(r, step) == pc' = [pc EXCEPT ![r] = step]
Fault(kind) == kind \in Faults /\ faults < MaxFaults /\ faults' = faults + 1

-----------------------------------------------------------------------------
(* The checks. *)

Partitions(rows) == {d \in Dates : rows[d] > 0}
Size(rows) == MapThenSumSet(LAMBDA d : rows[d], Dates)

\* max(ts_col), as the set of that timestamp: empty for a frame without rows.
Newest(f) ==
    {[date |-> d, time |-> f.time] :
        d \in {e \in Partitions(f.rows) : \A p \in Partitions(f.rows) : p <= e}}

\* check_partition_floor: an inner join on the date.
FloorKept(rows, prior) ==
    \A d \in Partitions(rows) \cap Partitions(prior) :
        FloorDen * rows[d] >= FloorNum * prior[d]

\* check_freshness compares text: str() puts a blank between date and time, the
\* bounds of conf/features.yaml a "T", and the blank sorts first; the times
\* are reached on no pair.
TextBelow(stamp, bound) == stamp.date <= bound.date
Fresh(f) == \E newest \in Newest(f) : ~TextBelow(newest, Lower) /\ TextBelow(newest, Upper)

Passes(c, f, floor) ==
    /\ c = "contract" => f.schema = "ok" /\ ~f.dirty
    /\ c = "null_rate" => ~f.sparse
    /\ c = "primary_key" => ~f.doubled
    /\ c = "row_count" => Size(f.rows) >= MinRows
    /\ c = "partition_floor" => floor
    /\ c = "freshness" => Fresh(f)
Verdict(f, floor) == [c \in Checks |-> Passes(c, f, floor)]

\* What check_partition_floor may say of f: the frame in place decides, and
\* what is Unknown may keep any part of the rows.
Floors(f) ==
    CASE disk.table = NoTable -> {TRUE}
      [] disk.table \in Runs -> {FloorKept(f.rows, frame[disk.table].rows)}
      [] OTHER -> BOOLEAN

\* check_null_rates averages over no rows to None, and None <= ceiling raises;
\* so does the aggregate of a column that is not there.
EvaluationRaises(f) == f.schema = "unreadable" \/ Partitions(f.rows) = {}

-----------------------------------------------------------------------------
(* run_gates and the write *)

Start(r) ==
    /\ pc[r] = "idle"
    /\ Cardinality({s \in Runs : pc[s] \in Steps}) < MaxActive
    /\ Goto(r, "evaluate")
    /\ UNCHANGED <<disk, frame, conn, verdict, recorded, lastGood, faults>>

\* Mutant of Evaluate: the verdict is judged before it is recorded.
EvaluateThenJudge(r) ==
    /\ pc[r] = "evaluate"
    /\ \E floor \in Floors(frame[r]) : verdict' = [verdict EXCEPT ![r] = Verdict(frame[r], floor)]
    /\ Goto(r, IF EvaluationRaises(frame[r]) THEN "error" ELSE "judge")
    /\ UNCHANGED <<disk, frame, conn, recorded, lastGood, faults>>

\* A prior table that cannot be read counts as none.
Evaluate(r) ==
    /\ pc[r] = "evaluate"
    /\ \/ /\ EvaluationRaises(frame[r])
          /\ Goto(r, "error")
          /\ UNCHANGED <<verdict, faults>>
       \/ /\ ~EvaluationRaises(frame[r])
          /\ \/ /\ \E floor \in Floors(frame[r]) :
                      verdict' = [verdict EXCEPT ![r] = Verdict(frame[r], floor)]
                /\ UNCHANGED faults
             \/ /\ Fault("read")
                /\ verdict' = [verdict EXCEPT ![r] = Verdict(frame[r], TRUE)]
          /\ Goto(r, IF conn[r] THEN "record" ELSE "judge")
    /\ UNCHANGED <<disk, frame, conn, recorded, lastGood>>

\* Mutant of Record: the loop runs once more than there are checks.
RecordOnceMore(r) ==
    /\ pc[r] = "record"
    /\ recorded' = [recorded EXCEPT ![r] = @ + 1]
    /\ Goto(r, IF recorded[r] = 6 THEN "judge" ELSE "record")
    /\ UNCHANGED <<disk, frame, conn, verdict, lastGood, faults>>

\* record_result: one INSERT and its commit.
Record(r) ==
    /\ pc[r] = "record"
    /\ \/ /\ recorded' = [recorded EXCEPT ![r] = @ + 1]
          /\ Goto(r, IF recorded[r] + 1 = 6 THEN "judge" ELSE "record")
          /\ UNCHANGED faults
       \/ /\ Fault("record")
          /\ Goto(r, "error")
          /\ UNCHANGED recorded
    /\ UNCHANGED <<disk, frame, conn, verdict, lastGood>>

\* Mutants of Judge: a failed contract, or a failed floor, is only a warning.
JudgeWithout(r, warning) ==
    /\ pc[r] = "judge"
    /\ Goto(r, IF \A c \in Checks \ {warning} : verdict[r][c] THEN "write" ELSE "refused")
    /\ UNCHANGED <<disk, frame, conn, verdict, recorded, lastGood, faults>>
JudgeWithoutContract(r) == JudgeWithout(r, "contract")
JudgeWithoutFloor(r) == JudgeWithout(r, "partition_floor")

Judge(r) ==
    /\ pc[r] = "judge"
    /\ Goto(r, IF \A c \in Checks : verdict[r][c] THEN "write" ELSE "refused")
    /\ UNCHANGED <<disk, frame, conn, verdict, recorded, lastGood, faults>>

\* atomic_write_parquet.
Table == INSTANCE TableWrite WITH
    Writers <- Runs, Old <- {}, None <- NoTable,
    writing <- {r \in Runs : pc[r] = "writing"}

Write(r) ==
    /\ pc[r] = "write"
    /\ Goto(r, "writing")
    /\ disk' = Table!Begun(r)
    /\ UNCHANGED <<frame, conn, verdict, recorded, lastGood, faults>>

\* What others may see of a write, also of one that fails.
WriteMoves(r) ==
    /\ pc[r] = "writing"
    /\ \/ disk' \in Table!Moved(r) /\ UNCHANGED faults
       \/ disk' = Table!HalfDeleted(r) /\ Fault("delete")
    /\ UNCHANGED <<pc, frame, conn, verdict, recorded, lastGood>>

WriteEnds(r) ==
    /\ pc[r] = "writing"
    /\ \/ /\ Goto(r, "done")
          /\ disk' = Table!Returned(r)
          /\ lastGood' = r
          /\ UNCHANGED faults
       \/ /\ (r \in disk.spoilt /\ UNCHANGED faults) \/ Fault("write")
          /\ Goto(r, "error")
          /\ UNCHANGED <<disk, lastGood>>
    /\ UNCHANGED <<frame, conn, verdict, recorded>>

Step(r) == Evaluate(r) \/ Record(r) \/ Judge(r) \/ Write(r) \/ WriteMoves(r) \/ WriteEnds(r)

Settled == (\A r \in Runs : pc[r] \in Ended) /\ UNCHANGED vars

Next == (\E r \in Runs : Start(r) \/ Step(r)) \/ Settled

Spec == Init /\ [][Next]_vars

-----------------------------------------------------------------------------
(* Properties *)

Versions == Runs \cup {NoTable, Unknown}

TypeOK ==
    /\ disk \in [table : Versions, trash : Versions, spoilt : SUBSET Runs]
    /\ pc \in [Runs -> {"idle"} \cup Steps \cup Ended]
    /\ frame \in [Runs -> Frames]
    /\ conn \in [Runs -> BOOLEAN]
    /\ verdict \in [Runs -> [Checks -> BOOLEAN]]
    /\ recorded \in [Runs -> 0..6]
    /\ lastGood \in Runs \cup {NoTable}
    /\ faults \in 0..MaxFaults

\* A DataQualityError comes only after its failing check is in quality_results,
\* when there is a registry: "every failed gate that blocked a write is
\* auditable", whatever else fails in between.
RefusalsAreAudited ==
    \A r \in Runs : pc[r] = "refused" /\ conn[r] =>
        \E c \in Checks : ~verdict[r][c] /\ Position[c] <= recorded[r]

NotBefore(stamp, bound) ==
    bound.date < stamp.date \/ (bound.date = stamp.date /\ bound.time <= stamp.time)

\* Only data that every absolute gate accepts is ever written: the frame has
\* its schema, its rows and no duplicates, and its newest row is in the window,
\* at the upper end of it to the day only: of that day check_freshness accepts
\* every hour, see PublishedIsInWindow.  So a reader finds a sound table or
\* none, or what spoilt writes left of sound ones.
Sound(f) ==
    /\ f.schema = "ok" /\ ~f.dirty /\ ~f.sparse /\ ~f.doubled
    /\ Size(f.rows) >= MinRows
    /\ \E newest \in Newest(f) : NotBefore(newest, Lower) /\ newest.date <= Upper.date
OnlySoundTables ==
    /\ \A r \in Runs : pc[r] \in {"write", "writing", "done"} => Sound(frame[r])
    /\ disk.table \in Runs => Sound(frame[disk.table])
    /\ disk.table = Unknown => disk.spoilt # {}

\* From one published table to the next, a partition that both have keeps the
\* floor, though the check and the write are far apart; until a fault has left
\* a run without a table to compare with.
SharedPartitionsKeepFloor ==
    [][faults = 0 /\ lastGood' # lastGood /\ lastGood # NoTable
       => FloorKept(frame[lastGood'].rows, frame[lastGood].rows)]_vars

\* Every partition keeps the floor, gone ones included: "every event_date
\* partition keeps >= 90% of its prior row count".
PartitionsKeepFloor ==
    [][lastGood' # lastGood /\ lastGood # NoTable =>
          \A d \in Dates :
              FloorDen * frame[lastGood'].rows[d] >= FloorNum * frame[lastGood].rows[d]]_vars

\* "max(ts_col) must fall inside the expected window."
InWindow(stamp) == NotBefore(stamp, Lower) /\ NotBefore(Upper, stamp)
PublishedIsInWindow ==
    \A r \in Runs : pc[r] = "done" => \A newest \in Newest(frame[r]) : InWindow(newest)
=============================================================================
