----------------------------- MODULE FeatureRuns -----------------------------
(***************************************************************************)
(* One silver feature group: the runs that build it                        *)
(* (features/build_silver.py), the feature_runs rows they keep in Postgres *)
(* (features/registry.py), the table they replace, and the training jobs   *)
(* that read the table and link a model to the rows (training/).           *)
(*                                                                         *)
(* The table is written as TableWrite says, by runs whose writes may meet.  *)
(* A run's row, version and process share its name.                        *)
(***************************************************************************)
EXTENDS Integers, FiniteSets

CONSTANTS
    Runs,            \* invocations of build_and_register
    Trainers,        \* invocations of the training jobs
    Codes,           \* git revisions: with the input paths, the run_key
    Modes,           \* "plain", "force" (--force), "unregistered" (--no-registry)
    Launches,        \* which of them there may be, and how they are invoked
    NoVersion,       \* the table is absent
    Unknown,         \* whatever spoilt writes left, see TableWrite
    MaxActive,       \* how many processes may be under way at a time
    MaxGenerations,  \* bound: contents of the bronze table
    Faults,          \* what may go wrong, see FaultsAssumption
    MaxFaults        \* bound: how often

ASSUME RunsAssumption ==
    IsFiniteSet(Runs) /\ {NoVersion, Unknown} \cap Runs = {} /\ NoVersion # Unknown
ASSUME TrainersAssumption == IsFiniteSet(Trainers)
ASSUME ModesAssumption == Modes \subseteq {"plain", "force", "unregistered"}
ASSUME LaunchesAssumption ==
    Launches \subseteq [present : SUBSET (Runs \cup Trainers), as : [Runs -> Codes \X Modes],
                       ingestions : 0..MaxGenerations - 1]
ASSUME BoundsAssumption ==
    MaxActive \in Nat \ {0} /\ MaxGenerations \in Nat \ {0} /\ MaxFaults \in Nat
\* "gate": a quality gate is violated; "statement": Postgres rejects a
\* statement; "connection": the connection breaks; "write": the table write
\* raises; "delete": a delete of the write does not delete; "crash": the process
\* is killed.
ASSUME FaultsAssumption ==
    Faults \subseteq {"gate", "statement", "connection", "write", "delete", "crash"}

VARIABLES
    bronze,   \* which content the bronze table has
    disk,     \* the run whose version is in place, and in the trash, see TableWrite
    rows,     \* feature_runs, one row per run
    pc, code, mode, conn, built,   \* of each run; built is what its DataFrame holds
    tpc, read, links,              \* of each training job
    published,                     \* history: the runs whose version was once in place
    gated,                         \* history: the runs that passed their gates
    together,                      \* history: the runs that another was under way beside
    faults

runVars == <<pc, code, mode, conn, built>>
trainVars == <<tpc, read, links>>
vars == <<bronze, disk, rows, runVars, trainVars, published, gated, together, faults>>

Ended == {"absent", "done", "skipped", "failed", "crashed"}
Steps == {"decide", "supersede", "insert", "compute", "gates", "write", "writing",
          "finish", "record"}
Statuses == {"none", "running", "success", "failed", "superseded"}

Init ==
    /\ disk = [table |-> NoVersion, trash |-> NoVersion, spoilt |-> {}]
    /\ rows = [r \in Runs |-> [status |-> "none", at |-> 0]]
    /\ \E launch \in Launches :
          /\ bronze = MaxGenerations - launch.ingestions
          /\ pc = [r \in Runs |-> IF r \in launch.present THEN "idle" ELSE "absent"]
          /\ code = [r \in Runs |-> launch.as[r][1]]
          /\ mode = [r \in Runs |-> launch.as[r][2]]
          /\ tpc = [t \in Trainers |-> IF t \in launch.present THEN "idle" ELSE "absent"]
    /\ conn = [r \in Runs |-> "none"]
    /\ built = [r \in Runs |-> 0]
    /\ read = [t \in Trainers |-> NoVersion]
    /\ links = [t \in Trainers |-> {}]
    /\ published = {}
    /\ gated = {}
    /\ together = {}
    /\ faults = 0

Active == Cardinality({r \in Runs : pc[r] \in Steps})
            + Cardinality({t \in Trainers : tpc[t] = "loaded"})

Goto(r, step) == pc' = [pc EXCEPT ![r] = step]
Fault(kind) == kind \in Faults /\ faults < MaxFaults /\ faults' = faults + 1

-----------------------------------------------------------------------------
(* The registry. *)

\* The rows of r's run_key, a hash of the group, the revision and the paths.
SameKey(r) == {s \in Runs : code[s] = code[r]}
Completed(r) == \E s \in SameKey(r) : rows[s].status = "success"

\* finished_at orders the rows; only that of a success is ever read.
Now == 1 + Cardinality({r \in Runs : rows[r].at > 0})
Finished(r, status) == [rows EXCEPT ![r] = [status |-> status, at |-> Now]]
Superseded(S) ==
    [s \in Runs |-> IF s \in S THEN [status |-> "superseded", at |-> rows[s].at] ELSE rows[s]]

\* A statement of r's connection and its commit.  An error leaves psycopg's
\* transaction aborted, and nothing rolls it back: every later statement of
\* the run raises too, its retries included.  When the connection breaks, the
\* commit may or may not have reached the server.
Execute(r, after, succeeds, raises) ==
    \/ /\ conn[r] = "ok"
       /\ rows' = after
       /\ Goto(r, succeeds)
       /\ UNCHANGED <<conn, faults>>
    \/ /\ conn[r] = "ok"
       /\ Fault("statement")
       /\ conn' = [conn EXCEPT ![r] = "aborted"]
       /\ Goto(r, raises)
       /\ UNCHANGED rows
    \/ /\ conn[r] = "ok"
       /\ Fault("connection")
       /\ conn' = [conn EXCEPT ![r] = "closed"]
       /\ rows' \in {rows, after}
       /\ Goto(r, raises)
    \/ /\ conn[r] \in {"aborted", "closed"}
       /\ Goto(r, raises)
       /\ UNCHANGED <<rows, conn, faults>>

-----------------------------------------------------------------------------
(* build_and_register *)

Start(r) ==
    /\ pc[r] = "idle"
    /\ Active < MaxActive
    /\ conn' = [conn EXCEPT ![r] = IF mode[r] = "unregistered" THEN "none" ELSE "ok"]
    /\ Goto(r, "decide")
    /\ LET others == {s \in Runs : pc[s] \in Steps}
       IN  together' = together \cup IF others = {} THEN {} ELSE others \cup {r}
    /\ UNCHANGED <<bronze, disk, rows, code, mode, built, trainVars, published, gated, faults>>

\* main and build_and_register both ask is_completed; either way out is a no-op.
DecideBy(r, completed) ==
    /\ pc[r] = "decide"
    /\ \/ /\ mode[r] = "plain"
          /\ Execute(r, rows, IF completed THEN "skipped" ELSE "insert", "failed")
       \/ /\ mode[r] = "force"
          /\ Goto(r, "supersede")
          /\ UNCHANGED <<rows, conn, faults>>
       \/ /\ mode[r] = "unregistered"
          /\ Goto(r, "compute")
          /\ UNCHANGED <<rows, conn, faults>>
    /\ UNCHANGED <<bronze, disk, code, mode, built, trainVars, published, gated, together>>

\* Mutants of Decide: nothing is looked up; any row of the key will do.
DecideToBuild(r) == DecideBy(r, FALSE)
DecideByAnyRow(r) == DecideBy(r, \E s \in SameKey(r) : rows[s].status # "none")

Decide(r) == DecideBy(r, Completed(r))

\* Mutants of Supersede: --force leaves the previous success as it is; the
\* UPDATE has no WHERE run_key.
SupersedeEverything(r) ==
    /\ pc[r] = "supersede"
    /\ Execute(r, Superseded({s \in Runs : rows[s].status = "success"}), "insert", "failed")
    /\ UNCHANGED <<bronze, disk, code, mode, built, trainVars, published, gated, together>>

SupersedeNothing(r) ==
    /\ pc[r] = "supersede"
    /\ Execute(r, rows, "insert", "failed")
    /\ UNCHANGED <<bronze, disk, code, mode, built, trainVars, published, gated, together>>

Supersede(r) ==
    /\ pc[r] = "supersede"
    /\ LET previous == {s \in SameKey(r) : rows[s].status = "success"}
       IN  Execute(r, Superseded(previous), "insert", "failed")
    /\ UNCHANGED <<bronze, disk, code, mode, built, trainVars, published, gated, together>>

\* start_run, still outside the try.
Insert(r) ==
    /\ pc[r] = "insert"
    /\ Execute(r, [rows EXCEPT ![r] = [status |-> "running", at |-> 0]], "compute", "failed")
    /\ UNCHANGED <<bronze, disk, code, mode, built, trainVars, published, gated, together>>

\* df.cache() and df.count() materialise what the write will write.
Compute(r) ==
    /\ pc[r] = "compute"
    /\ built' = [built EXCEPT ![r] = bronze]
    /\ Goto(r, "gates")
    /\ UNCHANGED <<bronze, disk, rows, code, mode, conn, trainVars, published, gated, together, faults>>

\* Mutants of Gates: the success is on record before the write; the gates run
\* before the try; a failed gate is only logged.
GatesThenFinish(r) ==
    /\ pc[r] = "gates"
    /\ conn[r] # "none"
    /\ Execute(r, rows, "finish", "record")
    /\ gated' = gated \cup {r}
    /\ UNCHANGED <<bronze, disk, code, mode, built, trainVars, published, together>>

GatesOutsideTry(r) ==
    /\ pc[r] = "gates"
    /\ \/ Goto(r, "write") /\ gated' = gated \cup {r} /\ UNCHANGED faults
       \/ Fault("gate") /\ Goto(r, "failed") /\ UNCHANGED gated
    /\ UNCHANGED <<bronze, disk, rows, code, mode, conn, built, trainVars, published, together>>

GatesLogged(r) ==
    /\ pc[r] = "gates"
    /\ \/ Goto(r, "write") /\ gated' = gated \cup {r} /\ UNCHANGED faults
       \/ Fault("gate") /\ Goto(r, "write") /\ UNCHANGED gated
    /\ UNCHANGED <<bronze, disk, rows, code, mode, conn, built, trainVars, published, together>>

\* run_gates records every result, then raises if one failed.
Gates(r) ==
    /\ pc[r] = "gates"
    /\ \/ /\ IF conn[r] = "none"
             THEN Goto(r, "write") /\ UNCHANGED <<rows, conn, faults>>
             ELSE Execute(r, rows, "write", "record")
          /\ gated' = IF pc'[r] = "write" THEN gated \cup {r} ELSE gated
       \/ /\ Fault("gate")
          /\ Goto(r, "record")
          /\ UNCHANGED <<rows, conn, gated>>
    /\ UNCHANGED <<bronze, disk, code, mode, built, trainVars, published, together>>

\* atomic_write_parquet, on the table of one group.
Table == INSTANCE TableWrite WITH
    Writers <- Runs, Old <- {}, None <- NoVersion,
    writing <- {r \in Runs : pc[r] = "writing"}

Write(r) ==
    /\ pc[r] = "write"
    /\ Goto(r, "writing")
    /\ disk' = Table!Begun(r)
    /\ UNCHANGED <<bronze, rows, code, mode, conn, built, trainVars, published, gated,
                   together, faults>>

Publish == published' = published \cup ({disk'.table} \cap Runs)

\* What others may see of a write, also of one that fails.
WriteMoves(r) ==
    /\ pc[r] = "writing"
    /\ \/ disk' \in Table!Moved(r) /\ UNCHANGED faults
       \/ disk' = Table!HalfDeleted(r) /\ Fault("delete")
    /\ Publish
    /\ UNCHANGED <<bronze, rows, runVars, trainVars, gated, together>>

\* It returns or raises; that of a spoilt run raises without a fault too.
WriteEnds(r) ==
    /\ pc[r] = "writing"
    /\ \/ /\ Goto(r, IF conn[r] = "none" THEN "done" ELSE "finish")
          /\ disk' = Table!Returned(r)
          /\ UNCHANGED faults
       \/ /\ (r \in disk.spoilt /\ UNCHANGED faults) \/ Fault("write")
          /\ Goto(r, "record")
          /\ UNCHANGED disk
    /\ Publish
    /\ UNCHANGED <<bronze, rows, code, mode, conn, built, trainVars, gated, together>>

\* Mutant of Finish: no unique index.
FinishUnchecked(r) ==
    /\ pc[r] = "finish"
    /\ Execute(r, Finished(r, "success"), "done", "record")
    /\ UNCHANGED <<bronze, disk, code, mode, built, trainVars, published, gated, together>>

\* finish_run("success"); the partial unique index lets one success per key in.
Finish(r) ==
    /\ pc[r] = "finish"
    /\ \/ /\ \A s \in SameKey(r) \ {r} : rows[s].status # "success"
          /\ Execute(r, Finished(r, "success"), "done", "record")
       \/ /\ \E s \in SameKey(r) \ {r} : rows[s].status = "success"
          /\ conn' = [conn EXCEPT ![r] = IF @ = "ok" THEN "aborted" ELSE @]
          /\ Goto(r, "record")
          /\ UNCHANGED <<rows, faults>>
    /\ UNCHANGED <<bronze, disk, code, mode, built, trainVars, published, gated, together>>

\* The except branch: finish_run("failed"), whose own exception is logged.
Record(r) ==
    /\ pc[r] = "record"
    /\ IF conn[r] = "none"
       THEN Goto(r, "failed") /\ UNCHANGED <<rows, conn, faults>>
       ELSE Execute(r, Finished(r, "failed"), "failed", "failed")
    /\ UNCHANGED <<bronze, disk, code, mode, built, trainVars, published, gated, together>>

Crash(r) ==
    /\ pc[r] \in Steps
    /\ Fault("crash")
    /\ Goto(r, "crashed")
    /\ UNCHANGED <<bronze, disk, rows, code, mode, conn, built, trainVars, published, gated, together>>

-----------------------------------------------------------------------------
(* The neighbours: ingestion and training. *)

\* ingest/bronze.py replaces the bronze table; its path stays the same.
Ingest ==
    /\ bronze < MaxGenerations
    /\ bronze' = bronze + 1
    /\ UNCHANGED <<disk, rows, runVars, trainVars, published, gated, together, faults>>

\* load_training_data reads the table when training starts ...
Load(t) ==
    /\ tpc[t] = "idle"
    /\ Active < MaxActive
    /\ disk.table # NoVersion
    /\ read' = [read EXCEPT ![t] = disk.table]
    /\ tpc' = [tpc EXCEPT ![t] = "loaded"]
    /\ UNCHANGED <<bronze, disk, rows, runVars, links, published, gated, together, faults>>

\* ... and when the model is fitted, fetch_latest_feature_runs and
\* register_model_run link it to the group's latest successful row.
Latest == {r \in Runs : /\ rows[r].status = "success"
                        /\ \A s \in Runs : rows[s].status = "success" => rows[s].at <= rows[r].at}
Register(t) ==
    /\ tpc[t] = "loaded"
    /\ links' = [links EXCEPT ![t] = Latest]
    /\ tpc' = [tpc EXCEPT ![t] = "registered"]
    /\ UNCHANGED <<bronze, disk, rows, runVars, read, published, gated, together, faults>>

-----------------------------------------------------------------------------
Step(r) ==
    Decide(r) \/ Supersede(r) \/ Insert(r) \/ Compute(r) \/ Gates(r) \/ Write(r)
        \/ WriteEnds(r) \/ Finish(r) \/ Record(r)

Settled ==
    /\ \A r \in Runs : pc[r] \in Ended
    /\ UNCHANGED vars

Next ==
    \/ \E r \in Runs : Start(r) \/ Step(r) \/ WriteMoves(r) \/ Crash(r)
    \/ \E t \in Trainers : Load(t) \/ Register(t)
    \/ Ingest
    \/ Settled

Spec == Init /\ [][Next]_vars

\* A started run keeps running until it ends or is killed.
FairSpec == Spec /\ \A r \in Runs : WF_vars(Step(r))

-----------------------------------------------------------------------------
(* Properties *)

Versions == Runs \cup {NoVersion, Unknown}

TypeOK ==
    /\ bronze \in 1..MaxGenerations
    /\ disk \in [table : Versions, trash : Versions, spoilt : SUBSET Runs]
    /\ rows \in [Runs -> [status : Statuses, at : Nat]]
    /\ pc \in [Runs -> {"idle"} \cup Steps \cup Ended]
    /\ code \in [Runs -> Codes]
    /\ mode \in [Runs -> Modes]
    /\ conn \in [Runs -> {"none", "ok", "aborted", "closed"}]
    /\ built \in [Runs -> 0..MaxGenerations]
    /\ tpc \in [Trainers -> {"absent", "idle", "loaded", "registered"}]
    /\ read \in [Trainers -> Versions]
    /\ links \in [Trainers -> SUBSET Runs]
    /\ published \subseteq Runs /\ gated \subseteq Runs /\ together \subseteq Runs
    /\ faults \in 0..MaxFaults

\* A row says success only of a version that passed its gates and was put in
\* place whole; where its write met another's, or a delete of it did not
\* delete, a version that passed its gates is all the row stands for.
SuccessWasPublished ==
    \A r \in Runs : rows[r].status \in {"success", "superseded"} =>
        r \in gated /\ r \in published \cup disk.spoilt

\* Only gated data is ever written: "on violation a DataQualityError aborts
\* promotion and the previous good table stays untouched".  A reader finds a
\* version that passed or none, and, once a write is spoilt, what is left of
\* writes that had all passed.
OnlyGatedTables ==
    /\ \A r \in Runs : pc[r] \in {"writing", "finish"} => r \in gated
    /\ {disk.table, disk.trash} \subseteq gated \cup {NoVersion, Unknown}
    /\ Unknown \in {disk.table, disk.trash} => disk.spoilt # {}

\* At most one successful run per (group, code, inputs), even between runs
\* that overlap: is_completed alone would let both through.
OneSuccessPerKey ==
    \A r, s \in Runs :
        rows[r].status = "success" /\ rows[s].status = "success" /\ s \in SameKey(r) => r = s

\* A run that no other was under way beside never finds, once it has replaced
\* the table, that the unique index refuses its row: is_completed and supersede
\* made room.  Of two that overlap the later one does find it.
IndexNeverBites ==
    \A r \in Runs \ together : pc[r] = "finish" =>
        \A s \in SameKey(r) \ {r} : rows[s].status # "success"

\* Re-running a completed run_key is a no-op: a run without --force, and that
\* no other was under way beside, never begins to replace the table while a
\* success of its key is on record.  One that overlaps another may.
CompletedIsNoOp ==
    [][\A r \in Runs \ together :
          mode[r] = "plain" /\ pc[r] # "writing" /\ pc'[r] = "writing" => ~Completed(r)]_vars

\* What the row of a registered run that raised says.  With its connection in
\* order, 'failed'.  After a rejected statement, the unique index's included,
\* the transaction is aborted, finish_run("failed") raises as well, and the
\* row, if there is one, goes on saying 'running'.  Only a lost connection
\* leaves it open.
FailedRunsAreRecorded ==
    \A r \in Runs : pc[r] = "failed" =>
        /\ conn[r] = "ok" => rows[r].status = "failed"
        /\ conn[r] = "aborted" => rows[r].status \in {"none", "running"}

\* A model that was trained on the features of one run is linked to no other:
\* "the feature_runs rows that produced the input features".  The table that
\* is loaded and the row that is looked up later need not belong together, also
\* when no writes meet.
LineageIsTrue ==
    \A t \in Trainers : tpc[t] = "registered" /\ read[t] \in Runs => links[t] \subseteq {read[t]}

\* A skipped run leaves the group as it would have built it.
SkippedIsCurrent ==
    [][\A r \in Runs : pc[r] # "skipped" /\ pc'[r] = "skipped" =>
          disk.table \in Runs /\ built[disk.table] = bronze]_vars

\* Whatever became of earlier runs, overlapping ones included (failed, killed
\* between the write and the registry, left 'running', the table in pieces), a run
\* that finds no success of its key, comes after all the others and meets no
\* more trouble puts its version in place and is on record.
RerunRebuilds ==
    \A r \in Runs :
        (/\ pc[r] = "decide" /\ mode[r] = "plain" /\ conn[r] = "ok" /\ ~Completed(r)
         /\ \A s \in Runs \ {r} : pc[s] \in Ended
         /\ faults = MaxFaults)
        ~> (pc[r] = "done" /\ rows[r].status = "success" /\ disk.table = r)

\* One feature group as everything else relies on it: what is on record was in
\* place, one success per key, and nothing but a forced rebuild of its key ends
\* a success, however runs overlap and fail.
Group == INSTANCE FeatureGroup
    WITH Versions <- Runs, shown <- disk.table, spoilt <- disk.spoilt, key <- code,
         onRecord <- {r \in Runs : rows[r].status = "success"}
ImplementsFeatureGroup == Group!Spec
=============================================================================
