# SparkFeatureStore in TLA+

A verification development of SparkFeatureStore: what the code promises about
its tables, its registry, its features, its quality gates and its models, as
TLA+ modules checked with TLC and, for every value of their constants, proved
with TLAPS. `PROJECT.json` ties each definition to the source lines it models,
each run to its properties, each property to a mistake in the code that would
break it, and each theorem to its property.

## 1. The system and its parts

```text
scripts/fetch_data -> raw/*.parquet, *.parquet.part
                         |
                   ingest/bronze -> bronze/trips     (the path never changes)
                                        |
   conf/features.yaml -> features/build_silver: pickup_zone_demand, driver_trip_history
                                        |            \
   features/point_in_time (windows, as-of join)       trip_features
                                        |                   |
   quality/checks -> quality_results    |  common/atomic    v
   features/registry -> feature_runs <- one row per run -> training/* -> artifacts/, model_runs
```

| Part | State it keeps | Operations | What is hard |
|---|---|---|---|
| Table writer, `common/atomic.py` | `<table>`, `<table>.staging/<run_id>`, `<table>.trash/table` | staged write, promote by rename-aside, rollback, clean | a failing call or a kill between any two file system calls, the debris it leaves, overlapping writers |
| Retry loop, `common/retry.py` | the attempt | call again after a transient-looking exception | a retry starts on what the failed attempt left |
| Feature registry, `features/registry.py` | rows of `feature_runs`, a partial unique index, the connection's transaction | `start_run`, `is_completed`, `supersede`, `finish_run` | the table and the row are two systems; overlap; aborted transactions |
| Silver build, `features/build_silver.py` | the DataFrames a main has built | three groups in order: decide, register, compute, gate, write, finish | order of the steps, failure of each, groups of one main built by several, inputs replaced meanwhile |
| Point-in-time features, `features/point_in_time.py` | - | trailing windows, as-of join | leaks of future data, buckets, rounding, duplicates, stale feature tables |
| Quality gates, `quality/` | rows of `quality_results` | evaluate all checks, record each, raise | the registry fails half-way, the prior table is absent, empty frames, text comparison |
| Raw data download, `scripts/fetch_data.py` | the month files and their `.part` files | month range, skip, stream, rename | a stop at any chunk, the next download finding what is left, forced downloads |
| Bronze ingestion, `ingest/bronze.py` | bronze table | count, clean, gate, write, read back | reads a directory twice while a download changes it; replaces what running builds list |
| Training, `training/` | `artifacts/<framework>/<run_id>`, `model_runs`, `model_run_features` | load and split, fit with early stopping, save file by file, register, describe | features read before the fit and their run looked up after it, losses that are not numbers, a job that ends between two files, run ids given twice |
| Skew salting and benchmarks, `features/skew.py`, `bench/` | result files, a watermark | hot keys, two-phase aggregates, stage metrics | nulls and random salts; the list of stages lags behind Spark |
| Configuration, Spark session, logging, Parquet I/O, deployment | see section 8 | | |

They interact by shared state only: a table is found by its path, a run by its
`run_key`, a raw file by being in the directory. Nothing locks; the daily job
forbids overlap (`k8s/cron-features.yaml`, `concurrencyPolicy: Forbid`) but
`make silver`, a training job, a download or an ingestion may run beside it.
This is the constant `MaxActive` of the modules: 1 where a promise needs
processes one after another, 2 where it must survive overlap.

What makes each part correct is the comment above its properties; in short: a
reader of a table never sees half of one while writers do not overlap, what the
registry calls a success was gated and in place, features know nothing of the future, a refused table
leaves a trace, a range that was downloaded is whole, and a registered model
is the one on disk, with a row of its own before it is described.

## 2. Modules

| Module | Models |
|---|---|
| `TableSwap` | abstract: what a reader of a table path is promised, whatever becomes of the writers |
| `TableWrite` | abstract: what the modules that write tables may take a write for, overlapping writers and half-done deletes included |
| `AtomicTable` | `write_parquet_staged`, `promote_staged`, `_rollback_table` under `retry`, one action per file system call |
| `FeatureGroup` | abstract: what one group promises of its table and its rows together |
| `FeatureRuns` | `build_and_register` for one group, `feature_runs` behind psycopg connections, the training jobs' link |
| `SilverBuild` | `main` of the silver build: three groups, each a `FeatureGroup`, over one listing of bronze |
| `PointInTime` | the three feature computations and the order they are built in |
| `QualityGates` | `run_gates` and the write that follows it |
| `Ingestion` | `fetch_data` and `bronze` around the raw directory they share |
| `Training` | the two training jobs, from `load_training_data` to `write_metadata` |
| `SkewBench` | salted aggregation, `skew_bench`, `partition_sweep`, the stage metrics |
| `MC*` | instances for TLC: model values, sets, symmetry |
| `*Proofs` | theorems about the module named |

How they compose. `AtomicTable` implements `TableSwap` for writers one after
another, and `TableWrite` for any. `FeatureRuns`, `SilverBuild`, `QualityGates`
and `Ingestion` write their tables as `TableWrite` says: `Write` begins,
`WriteMoves` is whatever a reader may find meanwhile, `WriteEnds` returns or
raises, and a kill comes between any two of them. None of them assumes that a
write is one step, that writes do not meet, or that a failing one leaves the
table it found. `FeatureRuns` implements `FeatureGroup`; `SilverBuild` takes
each group of a main as one `FeatureGroup` and is shown to keep that promise for
all three at once. `PointInTime` computes what the groups of one main contain.

**AtomicTable.** A job is one `retry.retry(lambda: atomic_write_parquet(...))`;
its `run_id` names its staging directory and the version it writes. A directory
is whether it exists, its data files (a version and a partition each) and
whether `_SUCCESS` is at its top. `pc` is the next call: `Clean`, which lists,
and `CleanOne`, which deletes one directory (`_clean_stale_staging`),
`BeginWrite`, `WritePart`, `CommitWrite` (Spark's write), `Check`,
`DropOldTrash`, `MoveAside`, `Promote`, `Mark`, `DropTrash`, `CleanRoot`,
`RemoveRoot` (`promote_staged`), `Rollback`, `RollbackDelete`,
`RollbackRename`, then `Retry` or `GiveUp`. A call may raise without effect
(`CallRaises`); a recursive delete may also raise half-way or return false, as
`DeleteFaults` says; any process may be killed (`Crash`). `Renamed` has the
file system's rule that a rename onto an existing directory nests. `good`,
`before`, `spoilt` and `known` are history variables: the acceptable versions,
the table an attempt found, the jobs that met another one or a delete that did
not delete, and whether one that was not spoilt has returned since. The bronze
job makes a new `run_id` per attempt where the silver job keeps one; staging is
emptied by the next attempt either way.

**TableSwap** has a `shown` content and the `good` ones: a writer may withdraw,
put a whole content in the empty place, restore an acceptable one, acknowledge
the one shown. `AtomicTable` implements it with `shown <- final.files`,
`good` mapped to whole contents: a reader never sees a mix, and may see the
table absent between the two renames of the swap, also without any failure.

**TableWrite** has, of a table, the version in place, the version in the trash
and the writers that are `spoilt`. A writer that is alone moves the versions it
finds, and its own, between the two places, or loses them, in any order: so a
write that raises or is killed may leave the new version, the old one, none, or
an older one from a stale trash. It returns only with its own version in place
and no trash. Writers that meet are spoilt, and so is one of which a delete goes
half-way or returns false: both places are then `Unknown` (files of several
versions, one version inside another, nothing), even if such a writer returns,
until a later writer that is not spoilt does. `AtomicTable` implements it call
by call; `Content` is the mapping, which says `Unknown` from the first spoilt
writer to the return of one that is not. What a reader makes of `Unknown` is
open in every module: gates compare with any rows, a join or a reading back may
raise or not.

**FeatureRuns.** A run's process, row and version share its name. `Execute` is
one SQL statement with its commit: it may succeed, be rejected (which leaves
the transaction aborted, and no handler rolls back, so every later statement
raises), or lose the connection before or after the commit. The step order is
the code's: `Decide` (`is_completed`), `Supersede` (`--force`), `Insert`
(`start_run`, outside the try), `Compute`, `Gates`, the write, `Finish`
(`finish_run("success")` under the unique index), and `Record`
(`finish_run("failed")`) on any exception of the try. A trainer `Load`s the
table and later `Register`s a link to the latest success. `together` is the
history of the runs that another was under way beside: what holds only for a run
that is alone is said of all other runs, whatever overlapped before and after.

**FeatureGroup** has the version `shown`, the versions ever `published`, those
whose write was `spoilt`, those `onRecord` as a success, and the `key` of each.
A step shows a version, restores an older one or none, leaves something unknown
(which only a spoilt write does), acknowledges a published or spoilt version
whose key has no other success, or supersedes the successes of a key. Table and
record move in separate steps: it does not promise that the version on record is
the one in place, because the code does not.

**SilverBuild.** `Start` lists the bronze files once. Per group, in the order
of `main`: `Decide` skips a group that is not wanted or completed, `Build` is
`start_run`, the computation and the gates, then comes the write, `Finish` is
the success under the unique index; then the next group. Any exception or kill
ends the main (`Stop`, or the failing branches), also during a write.
`trip_features` joins the DataFrames this main built (`inMemory`), and otherwise
what is on disk at that time; `joined` is the history of what it took. `Ingest`
replaces bronze, after which the files a main listed are gone and its next
evaluation raises.

**PointInTime.** A windowed aggregate is the set of trips it aggregates; count
and mean are functions of it, and a vendor's daily partials are disjoint, so
adding them is the union. Timestamps are ticks, finer than the seconds that
`unix_timestamp` yields; `Bucket` cuts quotients off towards zero as the cast
to long does. Bronze may be replaced between builds, so `trip_features` may
join tables of other generations. `Deduplicated` is any outcome of
`dropDuplicates`.

**QualityGates.** A frame is what the gates can tell of it: schema, dirt,
sparsity, duplicates, rows per date partition, time of the newest row. The six
checks are those of `driver_trip_history`, the group that configures them all.
`Evaluate` computes every verdict (or raises, on an empty frame or an absent
column), `Record` inserts one result per step, `Judge` raises or goes on to the
write. `Floors` is what the partition floor may say, which is anything
when the table in place is unknown.

**Ingestion.** Of each month the raw directory has a file and a `.part` file,
absent, empty, half or whole. A fetcher takes the months of `MonthRange` one by
one (`NextMonth` skips a file that is there, unless forced), empties the
`.part` (`Open`), fills it in chunks (`Stream`) and renames it (`Replace`); it
may stop before any of these. An ingestion counts the directory (`Read`, which
lists every file, `.part` files too, and raises on half a file), evaluates the
listed files again into the cache (`Transform`, which raises when one is no
longer what was listed), gates, writes and reads back. A frame is how often
each month is in it.

**Training.** A job has a command line (framework, `--run-id`, `--epochs`,
`--no-register`) and the steps `LoadData`, `Fit` (sklearn) or `Epoch`,
`LastEpoch`, `Restore` (torch), `Predict`, `Save` for each file in order,
`Connect`, `Register`, and `Save` of `metadata.json`; `Fail` ends it anywhere,
with the file at hand torn, or the commit made and its answer lost. A
validation loss is a number or diverges; the table is a set of rows with date,
label and id, each possibly null, and dates compare as their text does (a null
above all). `Item` and `LookupRaises` are the dataset's vocabulary and the
embedding's size.

**SkewBench.** `Plain` and `Salted` are the aggregations over a frame with null
keys and values, `Salts` every draw of salts that `add_salt` can make. The
benchmark reads, then per mode asks for a watermark, runs an action and
collects the completed stages after it, checks, and appends its rows. `Listen`
is the REST API hearing of a stage or its completion at any later time;
`Watermark` may also be -1, which is what the code makes of a failed request.

## 3. Properties and runs

Run with `tlc -workers 2 -config <name>.cfg <MC module>`.

| Run | Checks | Instance |
|---|---|---|
| `AtomicTable` | `NeverMixed`, `Durable`, `DonePublished`, `ImplementsTableSwap` | 3 writers in turn, 2 partitions, 2 attempts, 3 failing calls, 2 kills |
| `AtomicTableLive` | `RerunHeals`, `JobsEnd`, `ImplementsTableWrite` | 2 overlapping writers, 1 partition, raising, half-done and silently failing deletes, 1 fault, 1 kill |
| `FeatureRuns` | `SuccessWasPublished`, `OnlyGatedTables`, `OneSuccessPerKey`, `IndexNeverBites`, `CompletedIsNoOp`, `FailedRunsAreRecorded`, `RerunRebuilds`, `ImplementsFeatureGroup` | 3 runs, plain and forced, of 1 or 2 revisions, or 2, one unregistered, with a trainer and an ingestion; 2 at a time, 1 fault of any kind |
| `SilverBuild` | `InputsWerePublished`, `OneGeneration`, `GroupsKeepPromise`, `RerunCompletes` | a plain and a forced main and an ingestion, or 3 mains (partial, unregistered, forced, plain), 2 at a time, 1 fault of any kind |
| `PointInTime` | `NoLeak`, `DuplicatesAgree`, `JoinIsBackwardAsOf`, `FeaturesAreExact` | 2 trips, keys or null, 5 half-second times on 3 days, 2 generations |
| `QualityGates` | `RefusalsAreAudited`, `OnlySoundTables`, `SharedPartitionsKeepFloor` | 2 runs, 3 dates, counts 0, 8, 9, 10 around a floor of 9/10, defective frames, one run after another, 1 fault |
| `Ingestion` | `FetchedRangeIsWhole`, `BronzeIsOfWholeFiles` | 4 months across a year's end, 2 downloads in turn beside 2 overlapping ingestions, 1 fault |
| `Training` | `BestEpochIsReturned`, `SplitIsTemporal`, `RegisteredIsOnDisk`, `MetadataIsLast` | 2 jobs, 4 tables, patience 2, up to 4 epochs with losses 1, 2, NaN, 1 fault |
| `SkewBench` | `SaltedEqualsPlain`, `StagesCountedOnce` | 4 rows, 2 keys, nulls, 2 salt buckets, one stage per action, any delay of its listing |

Every module also has its type invariant; those of `FeatureRuns` and `SkewBench`
are proved and not among the runs. Why the bounds are enough:

* *Writers.* Three are the fewest in which one leaves debris, a second fails
  on it and a third is served; the third does nothing the second does not. Two
  partitions are the fewest that can be mixed. Three faults cover a failing
  call, a failing rollback and one more in the retry. Kills are bounded by two
  since a job is killed at most once and the last has to finish.
* *Overlapping writers.* Two are the fewest that meet; with a retry each they
  delete each other's staging at any call. One partition is enough for
  `ImplementsTableWrite`, which promises nothing of what they leave; that it
  may be a mix takes two.
* *Runs and mains.* Three are the fewest for "completed, forced, plain again",
  for a re-run after two that met, and for a main that joins the tables of two
  others. The launches (`MCLaunches`) are chosen so that each mode meets each
  other; who starts first and who overlaps is left open. Two generations of
  bronze are the fewest for an input that is replaced under a main.
* *Trips.* Two give every order and distance of spine and feature row, and with
  a second generation of bronze a spine may have two older feature rows of its
  key. The times include one before 1970, where the bucket is doubled, half
  seconds, equal times and three different days.
* *Counts.* 8 and 9 of 10 lie on the two sides of the floor, 0 is a vanished
  partition; the rows of the frames are all combinations on three dates, of
  which the first and last lie at the bounds of the freshness window.
* *Months.* November to February has the turn of the year and a range with two
  months on either side of any stop; a `--months` of 0 is the one that the loop
  does not take at its word. Two downloads are the fewest in which one
  finds what another left; a third finds nothing else, since a `.part` file is
  emptied or untouched. Two ingestions are the fewest for a floor.
* *Epochs.* Four with patience 2 allow to improve, tie, diverge and stop, in
  each order, and to be cut off by the number of epochs. The four tables have a
  row of every date in and out of the windows, rows without date, label or id
  and with a negative one, an empty split, and an id new to validation or to test.
* *Salts.* A hot key of three rows in two buckets has uneven shards, a shard of
  nothing but nulls, and a bucket nobody drew.

A process is not restarted in place: a re-run is another job, run or main, as
in the code, where it gets a new `run_id`. `Finished` and `Settled` let a
behaviour end when every process has, so that deadlock stays checked; only
`SkewBench`, one program that simply ends, has `CHECK_DEADLOCK FALSE`.
Symmetry is used where only safety is checked.

**Fairness.** `FairSpec` is weak fairness of each started job's, run's or
main's own step: a running process goes on, its calls return or raise. Nothing
is assumed about starts, kills or faults. `RerunHeals`, `RerunRebuilds` and
`RerunCompletes` speak of behaviours in which the bounded number of faults is
used up and the re-run is alone. `RerunCompletes` has one premise more, that
the table of each completed group is there: a skip looks at the row alone, so a
main that finds a success whose table a killed writer took away fails at
`trip_features` until somebody gives `--force`.

## 4. Where code and documentation disagree

Three runs end in a counterexample, each against a sentence of the repository
(quoted in `PROJECT.json`):

| Run | What happens |
|---|---|
| `AtomicTableStaleTrash` | `_rollback_table` renames back whatever is in the trash. A process is killed before it deletes its trash; the next promotion raises when it deletes that old trash; its rollback deletes the current table and puts the older one in place |
| `FeatureRunsLineage` | "a foreign key to the `feature_runs` rows that produced the input features": the job takes the latest success of the moment, after the fit. A build that has replaced the table and is not on record yet, or one that finishes during the fit, makes it link the model to a run whose features it never read |
| `TrainingUnknownIds` | "unknown id -> embedding 0": the size an id is compared with is that of the dataset it is in, not of the training frame, so an unknown id of the validation or test frame raises an `IndexError` in the embedding |

Four more configurations are kept beside them. They too end in a
counterexample, the first three of them to sentences of the repository:

| Configuration | Sentence | What happens |
|---|---|---|
| `AtomicTablePartialDelete` | "either the complete old table or the complete new table -- never a mix" (`common/atomic.py:113-114`) | deleting the trash is inside the try: when it fails half-way, the complete new table is deleted and what is left of the old one renamed back |
| `QualityGatesVanished` | "every `event_date` partition keeps >= 90% of its prior row count" (`README.md:151`) | the floor is an inner join: a partition that vanished altogether passes |
| `QualityGatesFresh` | "max(ts_col) must fall inside the expected window" (`quality/checks.py:100`) | `str(timestamp)` has a blank where the bounds have a `T`: any time on the upper bound's date passes |
| `FeatureRunsStale` | none: what one may expect of a skip | the `run_key` hashes paths, so the daily refresh after an ingestion is a no-op until the revision changes |

Beyond these, the models show what a promise depends on. `NeverMixed` fails for
two overlapping writers (one cleans the other's staging directory while its
tasks write, and half a table is promoted; or a rename finds the other's table
and nests) and for half-done deletes. The properties of the modules above the
writer hold in spite of it, and say where it shows: a success may be of a
version whose write met another (`SuccessWasPublished`), `trip_features` may
join what two writers left (`InputsWerePublished`), a floor may be compared with
it. Their other premises:

* *A run alone.* `CompletedIsNoOp` and `IndexNeverBites` are about runs that no
  other was under way beside, whatever overlapped before and after. Of two that
  overlap, the later one replaces the table of a key that was completed
  meanwhile, and only then meets the index: `is_completed` is asked before the
  build.
* *What a failed row says.* A rejected statement, or the unique index, aborts
  psycopg's transaction; nothing rolls it back, so `finish_run("failed")` raises
  too and the row goes on saying `running`. `FailedRunsAreRecorded` states both
  cases.
* *The floor* is about partitions that both tables have, and about runs one
  after another until something fails: a killed write leaves no table to
  compare with.
* *The window* of `OnlySoundTables` is exact at the lower bound and to the day
  at the upper one, see `QualityGatesFresh`.
* *Refusals.* When the registry itself fails, a run ends with that error and its
  verdicts may be lost; `RefusalsAreAudited` is about refusals.
* *Generations.* `OneGeneration` is about the groups a main built. Those it
  skipped, or was not asked for, it takes from disk as they are.
* *A month twice.* A forced download that is stopped after its last chunk
  leaves a whole `.part` file beside the month's file, and Spark reads both.
  The next honest ingestion has half the rows of that month and is refused by
  the floor. Half a `.part` file makes every ingestion fail until the month is
  downloaded again.
* *Month ranges.* `--months 0` fetches one month; a range that ends before it
  starts raises an `IndexError` in the log line at `scripts/fetch_data.py:115`.
* *A run id given twice* replaces the files of the earlier job before the
  primary key of `model_runs` rejects the later one: the registered row then
  describes another model. `RegisteredIsOnDisk` is about jobs whose path nobody
  else has.
* *Metrics that are no numbers* (`r2` of one row) are rejected by `jsonb`: the
  job ends after its files, without a row and without `metadata.json`.
* *Stage metrics.* A stage that the REST API lists late is measured for the
  next mode, and after a watermark of -1 all earlier stages count again.

## 5. What is proved

For every number of jobs, runs, mains, downloads, partitions, months, trips,
rows, dates, epochs and stages, every tolerance, frame, table and bound, from
the assumptions named in the modules:

| Theorem | Under | Says |
|---|---|---|
| `AtomicTableProofs!TypeCorrect` | - | `TypeOK` |
| `...!WriterCorrect` | `SoleWriter` | the inductive invariant |
| `...!ReadersNeverSeeAMix`, `TableIsDurable`, `ReturnsPublished` | `SoleWriter` | `NeverMixed`, `Durable`, `DonePublished` |
| `...!WriterImplementsTableSwap` | `SoleWriter` | refinement of `TableSwap` |
| `...!WriterImplementsTableWrite` | - | refinement of `TableWrite` |
| `...!NoJobGoesOnForever` | - | `StepsRunOut`: every step takes one job nearer to its end and no other further from it |
| `...!RerunMeetsNoObstacle` | - | `RerunStaysOnCourse`: the re-run of `RerunHeals` neither raises, rolls back nor dies |
| `FeatureRunsProofs!TypeCorrect`, `SuccessMeansPublished`, `TableIsGated`, `OneSuccess` | - | `TypeOK`, `SuccessWasPublished`, `OnlyGatedTables`, `OneSuccessPerKey`, writes that meet included |
| `...!RunsImplementFeatureGroup` | - | refinement of `FeatureGroup` |
| `...!NoIndexConflict`, `CompletedStays`, `FailuresAreRecorded` | - | `IndexNeverBites`, `CompletedIsNoOp`, `FailedRunsAreRecorded` |
| `...!RerunMeetsNoObstacle` | - | `RerunStaysOnCourse`: the run of `RerunRebuilds` gets nearer to its success with each step |
| `SilverBuildProofs!TypeCorrect`, `InputsPublished`, `SameGeneration` | - | `TypeOK`, `InputsWerePublished`, `OneGeneration` |
| `...!PromisesAreKept` | - | each of the three groups refines `FeatureGroup` |
| `...!RerunMeetsNoObstacle` | - | `RerunStaysOnCourse`: the main of `RerunCompletes` gets nearer to all groups completed with each step |
| `PointInTimeProofs!TypeCorrect`, `FeaturesNeverLeak`, `DeduplicationIsHarmless`, `BucketsLoseNothing`, `FeaturesExact` | - | `TypeOK`, `NoLeak`, `DuplicatesAgree`, `JoinIsBackwardAsOf`, `FeaturesAreExact` |
| `QualityGatesProofs!TypeCorrect`, `RefusedMeansRecorded`, `TablesAreSound` | - | `TypeOK`, `RefusalsAreAudited`, `OnlySoundTables` |
| `...!FloorIsKept` | `OneAtATime` | `SharedPartitionsKeepFloor` |
| `TrainingProofs!TypeCorrect`, `EarlyStopping`, `SplitParts`, `RegisteredModelsAreStored`, `MetadataComesLast` | - | `TypeOK`, `BestEpochIsReturned`, `SplitIsTemporal`, `RegisteredIsOnDisk`, `MetadataIsLast` |
| `IngestionProofs!TypeCorrect`, `FetchedIsWhole`, `BronzeIsWhole` | - | `TypeOK`, `FetchedRangeIsWhole`, `BronzeIsOfWholeFiles` |
| `...!MonthRangeIsCorrect` | - | `month_range` returns what was asked for, cut by `--months`, each month once and in order |
| `SkewBenchProofs!TypeCorrect`, `StagesCountedOnceHolds`, `SaltedAggregatesMatch` | - | `TypeOK`, `StagesCountedOnce`, `SaltedEqualsPlain` |

`SoleWriter` is `MaxActive = 1 /\ DeleteFaults \subseteq {"raise"}`,
`OneAtATime` is `MaxActive = 1`. They are what section 4 shows to be necessary,
and the modules that take writes as `TableWrite` says need neither for it.
Of the assumptions on constants, two are there for the proofs. `PartsAssumption`:
a table has finitely many partition files. `MonthsAssumption`: the months of the
model are finitely many and have no gap, as a calendar has none; the code knows
no such set, it is the bound on the months anybody asks for.

*The writer.* `NeverMixed` and `Durable` are not inductive: that a rename puts
a whole version in place depends on what the staging directory holds at that
call, that a rollback is harmless on what the trash holds. `DiskInvariant` says
what the disk looks like at every call of the one running job: its staging
directory is complete from `check` on, the place is empty at `promote` and
`rbrename`, the trash is empty at `aside`, and whatever is in the trash is a
whole acceptable version. Each action keeps it; the refinement follows, since
only `MoveAside`, `RollbackDelete`, `Promote`, `RollbackRename` and the two
ways to return touch what `TableSwap` sees.

*The writer, whoever else writes.* `WriterImplementsTableWrite` has no premise:
overlap and half-done deletes make writers spoilt, and of those nothing has to
be shown. `Trusted` says that a job that is not spoilt is alone, and that nothing
is known of the disk while a spoilt one is under way; `DiskFits` is what an unspoilt job finds at each call, also on the debris of
spoilt ones: its own staging directory is complete from `check` on, and from
`mark` on its own version is in place, so that its return makes the disk known
again.

*What liveness leaves to prove.* `JobsEnd` and the three `Rerun...` properties
say that something happens, which takes fairness; that nothing stands in its
way is safety, and proved. `StepsLeft` counts for each job the attempts left
and, within one, the calls and the partitions still to write; a retry gives up
an attempt, and the calls of a rollback count less than those it undoes, so
every step of any job makes its own count smaller and leaves the others.
`OnCourse` is, for each of the three modules, what is true of the re-run at
each of its calls, and follows from the premise of the property. For the writer it says that the
directories a call needs are there; for a run that no row, transaction or index
entry is in its way; for a main that the groups
it has passed are completed with their tables in place, and that it lists the
last bronze content, so that its files are there. What remains for TLC is
that a fair process takes the steps it can.

*The registry.* `SuccessWasPublished` needs what a run has done at each step
(`Progress`: gated from `write` on, published or spoilt from `finish` on) and
that a version in place or in the trash is one that was written after its gates
(`Places`, `OnlyGatedTables`). `OneSuccessPerKey` rests on the index alone;
`IndexNeverBites` and `CompletedIsNoOp` on `RoomIsKept`: while a run that no
other is beside is under way, `Decide` or `Supersede` has left no success of its
key and nobody is there to add one. `OwnRow` says what a run's own row says at
each step for each state of its connection: with an aborted transaction it
stays where it was, which is the second half of `FailedRunsAreRecorded`, and a
run still under way has no success on record, unless the answer to its commit
was lost, which the refinement needs.

*The mains.* `Backed` says that what is in place or in the trash, or in a main's
memory, was published or is of a spoilt write, `InOrder` that a main publishes `trip_features` last and has in
memory whatever else it published, `JoinedWell` that a main past the build of
`trip_features` has joined such versions, its own where there is one.
`OneGeneration` follows because a main lists bronze once.

*The features.* `BucketsLoseNothing` rests on `TwoBuckets`: for
`0 <= T - t <= tolerance`, cutting off towards zero puts `t` into the bucket of
`T` or the one before it, also across 1970. `FeaturesExact` then needs that
every trip's own row is in the deduplicated table and no later row is valid,
and that the union of the day partials in a frame is the set of trips of those
days. These are facts about the state in which trips are joined, kept by an
invariant saying that `demand` and `history` are what their builds computed.

*The gates.* `RunAgrees` says what a run's verdict and records are worth at
each step, `SoundDisk` that place and trash hold sound frames; `FloorIsKept` adds that the table a verdict was computed against is
still the one in place while nothing has failed.

*The raw directory.* `Num` numbers the months, twelve a year, so that
`Following` adds one and `UpTo` is `<=`; a range is then an interval, its size
a difference, and `--months` an interval of the same start. That the recursive
function `MonthsFrom` has the `i`-th month there is an induction over the
numbers. The invariant has `OneAtATime`; `FilesAreWhole`, since only a whole
`.part` file is renamed; `WholeOrToCome`, that a wanted month is in place or
still in `todo`; and, for the ingestions, `BesideOnlyIfForced`: a `.part` file
lies beside a month's file only if that month was wanted by force, so a listing
that has both names a forced month (`ListedTwiceIfForced`). `FrameIsOfListed`
carries that from the listing to the table written: between the two readings a
rename can take the `.part` entry away, which raises, but no month silently.

*The models.* `BestSoFar` is the loop invariant of `train`: `best` is the first
epoch of the smallest loss that is a number, `stale` the number of epochs since;
`FitOrder` says at which steps the model has which weights. `SplitParts` is
arithmetic on half-open windows that follow each other, with nulls above every
bound. `Stored` says which files a job has written at each step, and `RowFirst`
that the row is there before `metadata.json`.

*The benchmark.* `CountedAreListed` says that the stages counted so far are
among those listed, `WatermarkIsAbove` that a watermark that was answered is at
or above all of them until its own mode is measured; that mode's stages lie
above it. `SaltedAggregatesMatch` is about finite sums: the rows of a key are
parted by salt, so the sum over a key's shards of the sum over a shard is the
sum over the key (`SumOfSums`), and a null adds to neither count nor sum.

*Induction.* The library's induction theorems take an operator as a parameter,
which the installed provers cannot instantiate. Where a proof needs induction
over numbers or finite sets (`SkewBenchProofs`, `IngestionProofs`), the lemma
`Counting` takes a set in place of the predicate; it follows from the
well-foundedness of `<` on `Nat`.

## 6. What is only model-checked

Every invariant and every action property that a run checks is also proved.
Only model-checked is liveness, which TLAPS cannot prove here: `RerunHeals`,
`JobsEnd`, `RerunRebuilds`, `RerunCompletes`; section 5 says which part of them
is safety and proved. So are the counterexamples of section 4, which are about
single behaviours. No module uses RECURSIVE operators, which the provers cannot
handle.

## 7. Abstractions

The text of exceptions decides whether they are retried; the model lets any
exception be retried or not. Delays and log lines are left out. The temporary
trash directory and the `table` inside it are one directory. `listStatus` of
the staged directory only counts and can only raise. Contracts are checked by
outcome, not column by column, and the cleaning and casting of columns in the
ingestion is left out, as a file has one row, of its month. A crash of Postgres
is a lost connection. `ensure_table` is idempotent DDL run before everything
else. That a body shorter than announced raises is taken from the HTTP client;
downloads run one after another. Sums and averages are exact, so that the last
digit of a floating point sum does not tell the salted aggregate from the plain
one; the benchmark's header line and timings are left out, and so is
`detect_hot_keys` on a sample, which it does not use. What is in an artifact is
the job that wrote it. In `SilverBuild` a group's registration, computation and
gates are one step, as `FeatureRuns` has them statement by statement.

## 8. Plan

Done: the modules above and their proofs. Next, in this order:

1. `ObjectTable`: `promote_staged` on S3A, where rename is copy and delete
   (`common/atomic.py:141`): what readers who gate on `_SUCCESS` can rely on.
2. `Contracts`: `quality/contracts.py` column by column, and the other groups'
   sets of gates.
3. The column mapping of `ingest/bronze.py` for vendors' schema versions.

Each of them with its theorems, in one of the proof modules there are.

Not modelled and not planned: `common/config.py`, `common/io.py`,
`common/spark.py`, `common/logging.py` (no state), the timings of `bench/`, the
numerics of scikit-learn and PyTorch, the re-evaluation of
`monotonically_increasing_id` after a lost shuffle block (Spark's lineage), the
manifests of `k8s/` and `docker/` except that the daily job forbids overlap.
