------------------------------ MODULE SkewBench ------------------------------
(***************************************************************************)
(* Salting of hot keys (features/skew.py) and the benchmarks that measure  *)
(* it: bench/skew_bench.py runs four actions, reads for each the stages    *)
(* Spark's REST API lists since a watermark (bench/metrics.py), compares   *)
(* the salted aggregates with the plain ones and only then appends its     *)
(* rows; bench/partition_sweep.py measures one action and compares         *)
(* nothing.                                                                *)
(*                                                                         *)
(* Spark numbers its stages from 0 and tells the REST API of them late.    *)
(* Sums are exact: the last digit of a floating point sum is left out.     *)
(***************************************************************************)
EXTENDS Integers, Sequences, FiniteSetsExt

CONSTANTS
    Rows, Keys, NoKey,      \* the rows of bronze; what pu_location_id may be
    NoValue,                \* a fare that is null
    Frames,                 \* what bronze may hold: the key and value of each row
    Threshold, Buckets,     \* --threshold, --salt-buckets
    MaxStages               \* bound: the stages of one action

ASSUME RowsAssumption == IsFiniteSet(Rows)
ASSUME KeysAssumption == NoKey \notin Keys
ASSUME ValueAssumption == NoValue \notin Int
ASSUME FramesAssumption ==
    Frames \subseteq [Rows -> [key : Keys \cup {NoKey}, value : Int \cup {NoValue}]]
ASSUME BucketsAssumption == Buckets \in Nat \ {0}
ASSUME StagesAssumption == MaxStages \in Nat \ {0}

VARIABLES
    bench,          \* the program that runs
    pc,
    frame,          \* bronze
    hot,            \* the hot keys
    submitted,      \* stages 0 .. submitted - 1 have been submitted
    listed,         \* stages 0 .. listed - 1 are in the list of the REST API
    complete,       \* ... and 0 .. complete - 1 are COMPLETE there
    watermark,      \* what max_completed_stage_id returned
    results,        \* the rows measured: their mode, watermark and stages
    aggregates,     \* the two maps of the check
    appended        \* the rows this run added to its file

restVars == <<listed, complete>>
vars == <<bench, pc, frame, hot, submitted, restVars, watermark, results, aggregates, appended>>

Benches == {"skew", "sweep"}
Modes(b) == IF b = "skew"
            THEN <<"unsalted_groupby", "salted_groupby", "unsalted_shuffle", "salted_shuffle">>
            ELSE <<"sweep">>

-----------------------------------------------------------------------------
(* Aggregation.  Functions of the database skip nulls, and are null of      *)
(* nothing else.                                                            *)

SumOf(values) ==
    LET known == {v \in DOMAIN values : values[v] # NoValue}
    IN  IF known = {} THEN NoValue ELSE SumFunctionOnSet(values, known)

\* A quotient is kept as the pair of its parts; null divided by anything is null.
Quotient(sum, n) == IF sum = NoValue THEN NoValue ELSE <<sum, n>>

KeysOf(rows) == {frame[r].key : r \in rows}
RowsWith(rows, k) == {r \in rows : frame[r].key = k}
ValuesOf(rows) == [r \in rows |-> frame[r].value]
Known(rows) == Cardinality({r \in rows : frame[r].value # NoValue})

Plain(rows) ==
    [k \in KeysOf(rows) |->
        LET group == RowsWith(rows, k)
            sum == SumOf(ValuesOf(group))
        IN  [count |-> Cardinality(group), sum |-> sum, avg |-> Quotient(sum, Known(group))]]

\* NULL IN (...) is null, which is not true; neither is k IN a list without k
\* but with null.
IsHot(k) == k # NoKey /\ k \in hot

\* The salts the rows may get: rand is drawn anew whenever the plan is run.
Salts(rows) ==
    {salt \in [rows -> 0..(Buckets - 1)] : \A r \in rows : ~IsHot(frame[r].key) => salt[r] = 0}

\* Mutant of Part: the count skips nulls as well.
PartOfKnown(rows) ==
    [count |-> Known(rows), sum |-> SumOf(ValuesOf(rows)), known |-> Known(rows)]

Part(rows) ==
    [count |-> Cardinality(rows), sum |-> SumOf(ValuesOf(rows)), known |-> Known(rows)]

Salted(rows, salt) ==
    [k \in KeysOf(rows) |->
        LET shards == {salt[r] : r \in RowsWith(rows, k)}
            part == [s \in shards |-> Part({r \in RowsWith(rows, k) : salt[r] = s})]
            sum == SumOf([s \in shards |-> part[s].sum])
        IN  [count |-> SumFunction([s \in shards |-> part[s].count]),
             sum |-> sum,
             avg |-> Quotient(sum, SumFunction([s \in shards |-> part[s].known]))]]

-----------------------------------------------------------------------------
Init ==
    /\ bench \in Benches
    /\ pc = "start"
    /\ frame \in Frames
    /\ hot = {}
    /\ submitted = 0 /\ listed = 0 /\ complete = 0
    /\ watermark = -1
    /\ results = <<>>
    /\ aggregates = <<>>
    /\ appended = <<>>

Goto(step) == pc' = step

\* An action submits its stages; it returns when they have run.
RunsStages == \E n \in 1..MaxStages : submitted' = submitted + n

\* The rows with a key; the sweep does not look at them.
Bronze == {r \in Rows : frame[r].key # NoKey}

\* detect_hot_keys, of the whole frame: the benchmark does not sample.
HotKeys == {k \in KeysOf(Bronze) : Cardinality(RowsWith(Bronze, k)) >= Threshold}

Read ==
    /\ pc = "start"
    /\ RunsStages
    /\ hot' = IF bench = "skew" THEN HotKeys ELSE {}
    /\ Goto("watermark")
    /\ UNCHANGED <<bench, frame, restVars, watermark, results, aggregates, appended>>

Mode == Modes(bench)[Len(results) + 1]

\* max_completed_stage_id: of all stages listed, completed or not.
Watermark ==
    /\ pc = "watermark"
    /\ watermark' \in {listed - 1, -1}
    /\ Goto("count")
    /\ UNCHANGED <<bench, frame, hot, submitted, restVars, results, aggregates, appended>>

Count ==
    /\ pc = "count"
    /\ RunsStages
    /\ Goto("metrics")
    /\ UNCHANGED <<bench, frame, hot, restVars, watermark, results, aggregates, appended>>

\* Mutant of After: the stage of the watermark is counted again.
AfterOrAt(id) == id >= watermark

After(id) == id > watermark

\* collect_stage_metrics, and the result's row.
Metrics ==
    /\ pc = "metrics"
    /\ results' = Append(results,
           [mode |-> Mode, after |-> watermark, stages |-> {id \in 0..(complete - 1) : After(id)}])
    /\ Goto(IF Len(results') < Len(Modes(bench)) THEN "watermark"
            ELSE IF bench = "skew" THEN "check" ELSE "append")
    /\ UNCHANGED <<bench, frame, hot, submitted, restVars, watermark, aggregates, appended>>

\* Both frames are collected and compared.
Check ==
    /\ pc = "check"
    /\ \E salt \in Salts(Bronze) :
           aggregates' = [plain |-> Plain(Bronze), salted |-> Salted(Bronze, salt)]
    /\ Goto(IF aggregates'.plain = aggregates'.salted THEN "append" ELSE "failed")
    /\ UNCHANGED <<bench, frame, hot, submitted, restVars, watermark, results, appended>>

AppendResults ==
    /\ pc = "append"
    /\ appended' = results
    /\ Goto("done")
    /\ UNCHANGED <<bench, frame, hot, submitted, restVars, watermark, results, aggregates>>

\* The list of stages cannot be fetched, something else raises, or a kill.
Stop ==
    /\ pc \notin {"done", "failed"}
    /\ Goto("failed")
    /\ UNCHANGED <<bench, frame, hot, submitted, restVars, watermark, results, aggregates, appended>>

\* The listener of the REST API hears of the next stage, and of its completion;
\* the stages of these plans run one after another.
Listen ==
    /\ \/ complete = listed /\ listed < submitted /\ listed' = listed + 1 /\ UNCHANGED complete
       \/ complete < listed /\ complete' = complete + 1 /\ UNCHANGED listed
    /\ UNCHANGED <<bench, pc, frame, hot, submitted, watermark, results, aggregates, appended>>

Next == Read \/ Watermark \/ Count \/ Metrics \/ Check \/ AppendResults \/ Stop \/ Listen

Spec == Init /\ [][Next]_vars

-----------------------------------------------------------------------------
(* Properties *)

ModeNames ==
    {"unsalted_groupby", "salted_groupby", "unsalted_shuffle", "salted_shuffle", "sweep"}
Measured == [mode : ModeNames, after : Nat \cup {-1}, stages : SUBSET Nat]

TypeOK ==
    /\ bench \in Benches
    /\ pc \in {"start", "watermark", "count", "metrics", "check", "append", "done", "failed"}
    /\ frame \in Frames
    /\ hot \subseteq Keys
    /\ submitted \in Nat /\ listed \in Nat /\ complete \in Nat
    /\ watermark \in Nat \cup {-1}
    /\ results \in Seq(Measured)
    /\ appended \in Seq(Measured)

\* "Two-phase salted aggregation that matches the unsalted result exactly":
\* whatever salts the rows draw, and whatever is null, counts, sums and averages
\* of every key are those of the plain aggregation.
SaltedEqualsPlain == aggregates # <<>> => aggregates.salted = aggregates.plain

\* No stage is counted for two modes, however late the REST API hears of it,
\* unless the later watermark could not be asked for and is -1.
StagesCountedOnce ==
    \A i, j \in 1..Len(results) :
        i < j /\ results[j].after # -1 => results[i].stages \cap results[j].stages = {}
=============================================================================
