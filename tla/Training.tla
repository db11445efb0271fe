------------------------------ MODULE Training ------------------------------
(***************************************************************************)
(* The training jobs (training/sklearn_job.py, training/torch_job.py): the *)
(* silver table is loaded and split by date (training/data.py), a model is *)
(* fitted -- torch stops early on the validation loss --, evaluated, saved *)
(* file by file under artifacts/<framework>/<run_id>, registered in        *)
(* model_runs, and described by metadata.json last (training/artifacts.py).*)
(* Nothing is retried: an exception or a kill ends the job where it is.    *)
(***************************************************************************)
EXTENDS Integers, Sequences, FiniteSets, FiniteSetsExt

CONSTANTS
    Jobs,
    Options,            \* command lines per job: framework, --run-id, --epochs, --no-register
    Dates, NoDate,      \* event_date, null for junk timestamps
    Ids, NoId,          \* one categorical column, null or not
    Tables,             \* contents trip_features may have
    Window,             \* SPLIT_WINDOWS
    Losses, Divergent,  \* an epoch's validation loss: a number, or inf or NaN
    Patience,
    Absent, Torn,       \* contents of a file: none, and half of one
    LatestRuns,         \* what the latest successes of the three feature groups may be
    MaxFaults

Splits == {"train", "val", "test"}
Frameworks == {"sklearn", "torch"}
RunIds == {o.id : o \in UNION {Options[j] : j \in Jobs}}

Row == [date : Dates \cup {NoDate}, labelled : BOOLEAN, id : Ids \cup {NoId}]

ASSUME DatesAssumption == Dates \subseteq Int /\ NoDate \notin Int
ASSUME IdsAssumption == Ids \subseteq Int /\ NoId \notin Int
ASSUME TablesAssumption == Tables \subseteq SUBSET Row
ASSUME LossesAssumption == Losses \subseteq Int /\ Divergent \cap Int = {}
ASSUME PatienceAssumption == Patience \in Nat \ {0}
ASSUME FilesAssumption == Absent \notin Jobs /\ Torn \notin Jobs /\ Absent # Torn
ASSUME BoundsAssumption == MaxFaults \in Nat
ASSUME OptionsAssumption ==
    \A j \in Jobs : \A o \in Options[j] :
        o.framework \in Frameworks /\ o.epochs \in Int /\ o.register \in BOOLEAN
\* The half-open windows follow each other.
ASSUME WindowAssumption ==
    /\ Window \in [Splits -> [lo : Int, hi : Int]]
    /\ \A s \in Splits : Window[s].lo < Window[s].hi
    /\ Window["train"].hi = Window["val"].lo
    /\ Window["val"].hi = Window["test"].lo

VARIABLES
    args,       \* the command line of each job
    pc,
    frame,      \* the rows of each split
    losses,     \* history: the validation losses, by epoch
    best, stale,\* train()'s best epoch, and epochs_without_improvement
    weights,    \* the epoch whose weights the model has
    finite,     \* whether every metric is a finite number
    linked,     \* feature_run_ids
    disk,       \* artifacts: per path and file, the job that wrote it
    models,     \* model_runs with their model_run_features
    faults

fitVars == <<frame, losses, best, stale, weights, finite>>
vars == <<args, pc, fitVars, linked, disk, models, faults>>

-----------------------------------------------------------------------------
(* load_training_data.  Dates are compared as text: ISO dates sort by date, *)
(* and the text of a null date sorts above every digit.                     *)

AtLeast(date, bound) == date = NoDate \/ date >= bound
Before(date, bound) == date # NoDate /\ date < bound

FirstStart == Min({Window[s].lo : s \in Splits})

Kept(rows) == {r \in rows : AtLeast(r.date, FirstStart) /\ r.labelled /\ r.id # NoId}

\* Mutant of In: the windows are closed on both sides.
InClosed(r, s) == AtLeast(r.date, Window[s].lo) /\ Before(r.date, Window[s].hi + 1)

In(r, s) == AtLeast(r.date, Window[s].lo) /\ Before(r.date, Window[s].hi)

Load(rows) == [s \in Splits |-> {r \in Kept(rows) : In(r, s)}]

-----------------------------------------------------------------------------
(* TripsDataset and TipMLP: the embedding is as large as the largest id of *)
(* the training frame, and each dataset maps what it calls unknown to 0.   *)

CatSize(rows) == Max({r.id : r \in rows}) + 1

\* __getitem__: the size a dataset compares with is its own.
Item(r, rows) == IF r.id >= CatSize(rows) \/ r.id < 0 THEN 0 ELSE r.id

LookupRaises(train, rows) == \E r \in rows : Item(r, rows) >= CatSize(train)

-----------------------------------------------------------------------------
(* The artifact files in the order they are written, and the steps of a job *)

Files == {"model", "metrics", "features", "hyperparams", "metadata"}
AfterFile == [model |-> "metrics", metrics |-> "features", features |-> "hyperparams"]

Ended == {"done", "failed", "unknownId"}
Running == {"load", "fit", "restore", "predict", "connect", "register"} \cup Files

Path(j) == <<args[j].framework, args[j].id>>
Torch(j) == args[j].framework = "torch"

Init ==
    /\ args \in [Jobs -> UNION {Options[j] : j \in Jobs}] /\ \A j \in Jobs : args[j] \in Options[j]
    /\ pc = [j \in Jobs |-> "idle"]
    /\ frame = [j \in Jobs |-> Load({})]
    /\ losses = [j \in Jobs |-> <<>>]
    /\ best = [j \in Jobs |-> 0]
    /\ stale = [j \in Jobs |-> 0]
    /\ weights = [j \in Jobs |-> 0]
    /\ finite = [j \in Jobs |-> TRUE]
    /\ linked = [j \in Jobs |-> {}]
    /\ disk = [p \in Frameworks \X RunIds |-> [f \in Files |-> Absent]]
    /\ models = {}
    /\ faults = 0

Goto(j, step) == pc' = [pc EXCEPT ![j] = step]

Start(j) ==
    /\ pc[j] = "idle"
    /\ Goto(j, "load")
    /\ UNCHANGED <<args, fitVars, linked, disk, models, faults>>

\* An empty split raises: in the assertion on the total, in the maximum of no
\* ids (torch), in fit, predict or the error of no rows (sklearn).
LoadData(j) ==
    /\ pc[j] = "load"
    /\ \E rows \in Tables :
          /\ frame' = [frame EXCEPT ![j] = Load(rows)]
          /\ Goto(j, IF \E s \in Splits : Load(rows)[s] = {} THEN "failed" ELSE "fit")
    /\ UNCHANGED <<args, losses, best, stale, weights, finite, linked,
                   disk, models, faults>>

Fit(j) ==
    /\ pc[j] = "fit"
    /\ ~Torch(j)
    /\ Goto(j, "predict")
    /\ UNCHANGED <<args, fitVars, linked, disk, models, faults>>

\* val_loss < best_val: best_val starts at inf, and NaN compares false.
Improves(j, loss) == loss \in Losses /\ (best[j] # 0 => loss < losses[j][best[j]])

\* One epoch: fit, evaluate, clone the weights when the loss is the best so far.
\* The first batch of the validation frame with an id the embedding does not
\* have raises an IndexError.
EpochWith(j, patience) ==
    /\ pc[j] = "fit"
    /\ Torch(j)
    /\ Len(losses[j]) < args[j].epochs
    /\ \/ /\ LookupRaises(frame[j]["train"], frame[j]["val"])
          /\ Goto(j, "unknownId")
          /\ UNCHANGED <<losses, best, stale, weights>>
       \/ /\ ~LookupRaises(frame[j]["train"], frame[j]["val"])
          /\ weights' = [weights EXCEPT ![j] = Len(losses[j]) + 1]
          /\ \E loss \in Losses \cup Divergent :
                /\ losses' = [losses EXCEPT ![j] = Append(@, loss)]
                /\ \/ /\ Improves(j, loss)
                      /\ best' = [best EXCEPT ![j] = Len(losses[j]) + 1]
                      /\ stale' = [stale EXCEPT ![j] = 0]
                      /\ UNCHANGED pc
                   \/ /\ ~Improves(j, loss)
                      /\ stale' = [stale EXCEPT ![j] = @ + 1]
                      /\ Goto(j, IF stale[j] + 1 >= patience THEN "restore" ELSE "fit")
                      /\ UNCHANGED best
    /\ UNCHANGED <<args, frame, finite, linked, disk, models, faults>>

\* Mutant of Epoch: > instead of >=.
EpochMorePatient(j) == EpochWith(j, Patience + 1)

Epoch(j) == EpochWith(j, Patience)

\* The loop is over: max_epochs were run, or none when --epochs is not positive.
LastEpoch(j) ==
    /\ pc[j] = "fit"
    /\ Torch(j)
    /\ Len(losses[j]) >= args[j].epochs
    /\ Goto(j, "restore")
    /\ UNCHANGED <<args, fitVars, linked, disk, models, faults>>

\* Mutant of Restore: the weights of the last epoch are kept.
RestoreNothing(j) ==
    /\ pc[j] = "restore"
    /\ Goto(j, IF best[j] = 0 THEN "failed" ELSE "predict")
    /\ UNCHANGED <<args, fitVars, linked, disk, models, faults>>

\* assert best_state is not None; load_state_dict.
Restore(j) ==
    /\ pc[j] = "restore"
    /\ \/ /\ best[j] = 0
          /\ Goto(j, "failed")
          /\ UNCHANGED weights
       \/ /\ best[j] # 0
          /\ weights' = [weights EXCEPT ![j] = best[j]]
          /\ Goto(j, "predict")
    /\ UNCHANGED <<args, frame, losses, best, stale, finite, linked, disk,
                   models, faults>>

\* The metrics; r2 of a single row, or of equal labels, is not a number.
Predict(j) ==
    /\ pc[j] = "predict"
    /\ \/ /\ Torch(j) /\ LookupRaises(frame[j]["train"], frame[j]["test"])
          /\ Goto(j, "unknownId")
          /\ UNCHANGED finite
       \/ /\ ~(Torch(j) /\ LookupRaises(frame[j]["train"], frame[j]["test"]))
          /\ \E ok \in BOOLEAN : finite' = [finite EXCEPT ![j] = ok]
          /\ Goto(j, "model")
    /\ UNCHANGED <<args, frame, losses, best, stale, weights, linked, disk,
                   models, faults>>

AfterSave(j) ==
    \/ pc[j] \in DOMAIN AfterFile /\ Goto(j, AfterFile[pc[j]])
    \/ pc[j] = "hyperparams" /\ Goto(j, IF args[j].register THEN "connect" ELSE "metadata")
    \/ pc[j] = "metadata" /\ Goto(j, "done")

\* Mutant of Save: the model's file is left for later.
SaveButModel(j) ==
    /\ pc[j] \in Files
    /\ disk' = IF pc[j] = "model" THEN disk ELSE [disk EXCEPT ![Path(j)][pc[j]] = j]
    /\ AfterSave(j)
    /\ UNCHANGED <<args, fitVars, linked, models, faults>>

\* save_model, write_json, write_metadata: a file of the same path is replaced.
Save(j) ==
    /\ pc[j] \in Files
    /\ disk' = [disk EXCEPT ![Path(j)][pc[j]] = j]
    /\ AfterSave(j)
    /\ UNCHANGED <<args, fitVars, linked, models, faults>>

\* connect, ensure_table, fetch_latest_feature_runs: the latest
\* success of each group there is one of.
Connect(j) ==
    /\ pc[j] = "connect"
    /\ \E runs \in LatestRuns : linked' = [linked EXCEPT ![j] = runs]
    /\ Goto(j, "register")
    /\ UNCHANGED <<args, fitVars, disk, models, faults>>

\* The transaction is accepted: run_id is the primary key, of all frameworks,
\* and JSON has no NaN or Infinity.
Accepted(j) == finite[j] /\ \A m \in models : m.id # args[j].id
ModelRun(j) == [id |-> args[j].id, job |-> j, links |-> linked[j]]

\* Mutant of Register: a rejected registration is logged, and metadata follows.
RegisterBestEffort(j) ==
    /\ pc[j] = "register"
    /\ models' = IF Accepted(j) THEN models \cup {ModelRun(j)} ELSE models
    /\ Goto(j, "metadata")
    /\ UNCHANGED <<args, fitVars, linked, disk, faults>>

\* register_model_run: the row and its links in one transaction.
Register(j) ==
    /\ pc[j] = "register"
    /\ \/ /\ Accepted(j)
          /\ models' = models \cup {ModelRun(j)}
          /\ Goto(j, "metadata")
       \/ /\ ~Accepted(j)
          /\ Goto(j, "failed")
          /\ UNCHANGED models
    /\ UNCHANGED <<args, fitVars, linked, disk, faults>>

\* Any call raises, or the process is killed: the file at hand is as it was or
\* torn, the transaction at hand rolled back or, its answer lost, committed.
Fail(j) ==
    /\ pc[j] \in Running
    /\ faults < MaxFaults
    /\ faults' = faults + 1
    /\ Goto(j, "failed")
    /\ \/ UNCHANGED <<disk, models>>
       \/ /\ pc[j] \in Files
          /\ disk' = [disk EXCEPT ![Path(j)][pc[j]] = Torn]
          /\ UNCHANGED models
       \/ /\ pc[j] = "register" /\ Accepted(j)
          /\ models' = models \cup {ModelRun(j)}
          /\ UNCHANGED disk
    /\ UNCHANGED <<args, fitVars, linked>>

Step(j) ==
    \/ LoadData(j) \/ Fit(j) \/ Epoch(j) \/ LastEpoch(j) \/ Restore(j) \/ Predict(j)
    \/ Save(j) \/ Connect(j) \/ Register(j)

Settled == (\A j \in Jobs : pc[j] \in Ended) /\ UNCHANGED vars

Next ==
    \/ \E j \in Jobs : Start(j) \/ Step(j) \/ Fail(j)
    \/ Settled

Spec == Init /\ [][Next]_vars

-----------------------------------------------------------------------------
(* Properties *)

TypeOK ==
    /\ args \in [Jobs -> UNION {Options[j] : j \in Jobs}] /\ \A j \in Jobs : args[j] \in Options[j]
    /\ pc \in [Jobs -> {"idle"} \cup Running \cup Ended]
    /\ frame \in [Jobs -> [Splits -> SUBSET Row]]
    /\ losses \in [Jobs -> Seq(Losses \cup Divergent)]
    /\ best \in [Jobs -> Nat] /\ stale \in [Jobs -> 0..Patience] /\ weights \in [Jobs -> Nat]
    /\ finite \in [Jobs -> BOOLEAN]
    /\ linked \in [Jobs -> LatestRuns \cup {{}}]
    /\ disk \in [Frameworks \X RunIds -> [Files -> Jobs \cup {Absent, Torn}]]
    /\ models \subseteq [id : RunIds, job : Jobs, links : LatestRuns \cup {{}}]
    /\ faults \in 0..MaxFaults

\* train() returns the weights of the first epoch with the smallest loss that is
\* a number, whatever infinities or NaNs come before or after it, and stops
\* only when the epochs are used up or Patience of them did not improve on it.
Trained == {"predict", "connect", "register", "done"} \cup Files
BestEpochIsReturned ==
    \A j \in Jobs : Torch(j) /\ pc[j] \in Trained =>
        LET loss == losses[j] IN
        /\ weights[j] \in 1..Len(loss)
        /\ loss[weights[j]] \in Losses
        /\ \A e \in 1..Len(loss) : loss[e] \in Losses =>
              IF e < weights[j] THEN loss[e] > loss[weights[j]] ELSE loss[e] >= loss[weights[j]]
        /\ Len(loss) = args[j].epochs \/ Len(loss) = weights[j] + Patience

\* "test rows always come from the last days, val from the days before, and
\* train strictly before that", and no labelled row of the period is lost: the
\* half-open windows, compared as text, part the rows.
Usable(rows) ==
    {r \in rows : /\ r.labelled /\ r.id # NoId /\ r.date # NoDate
                  /\ r.date >= Window["train"].lo /\ r.date < Window["test"].hi}
Parted(f, rows) ==
    /\ \A r \in f["train"], s \in f["val"] : r.date < s.date
    /\ \A r \in f["val"], s \in f["test"] : r.date < s.date
    /\ \A r \in f["train"], s \in f["test"] : r.date < s.date
    /\ f["train"] \cup f["val"] \cup f["test"] = Usable(rows)
SplitIsTemporal ==
    \A j \in Jobs : pc[j] \in {"fit", "restore"} \cup Trained => \E rows \in Tables : Parted(frame[j], rows)

\* A row of model_runs describes what is on disk: the model and the three files
\* of the very job, unless another job was given the same framework and run id.
OwnPath(j) == \A k \in Jobs \ {j} : Path(k) # Path(j)
RegisteredIsOnDisk ==
    \A m \in models : OwnPath(m.job) =>
        \A f \in Files \ {"metadata"} : disk[Path(m.job)][f] = m.job

\* metadata.json comes last: where it is, the other files are, and a job that
\* registers has its row, with the links the file names.
MetadataIsLast ==
    \A j \in Jobs : OwnPath(j) /\ disk[Path(j)]["metadata"] = j =>
        /\ \A f \in Files : disk[Path(j)][f] = j
        /\ args[j].register => \E m \in models : m.job = j /\ m.links = linked[j]

\* "unknown id -> embedding 0": an id of the validation or test frame that the
\* training frame does not have is looked up as 0.
UnknownIdsAreEmbedded == \A j \in Jobs : pc[j] # "unknownId"
=============================================================================
