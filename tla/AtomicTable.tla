----------------------------- MODULE AtomicTable -----------------------------
(***************************************************************************)
(* The table writer of common/atomic.py under the retry loop of            *)
(* common/retry.py, on a file system whose rename is one atomic step (the  *)
(* local file system and HDFS, not S3A).                                   *)
(*                                                                         *)
(* A job is one retry.retry(lambda: atomic_write_parquet(..., run_id)): it *)
(* carries a run_id, so its retries share a staging directory, and the     *)
(* version of the table it writes.  Each file system call is a step, since *)
(* another process, a reader or a crash can come between any two of them.  *)
(***************************************************************************)
EXTENDS Integers, FiniteSets

CONSTANTS
    Jobs,          \* writers of the one table; a re-run is a new job
    Seed,          \* the version an earlier run published
    NoTable,       \* no version, in the eyes of a reader
    Unknown,       \* whatever a spoilt writer leaves, see TableWrite
    Parts,         \* the partition files that make up one version
    Attempts,      \* retry(attempts=...)
    MaxActive,     \* how many jobs may run at a time
    DeleteFaults,  \* how a recursive delete may go wrong
    MaxFaults,     \* bound: file system calls that go wrong
    MaxCrashes     \* bound: processes that are killed

ASSUME JobsAssumption == IsFiniteSet(Jobs) /\ Seed \notin Jobs
ASSUME NamesAssumption == NoTable # Unknown /\ {NoTable, Unknown} \cap (Jobs \cup {Seed}) = {}
ASSUME PartsAssumption == Parts # {} /\ IsFiniteSet(Parts)
ASSUME AttemptsAssumption == Attempts \in Nat \ {0}
ASSUME MaxActiveAssumption == MaxActive \in Nat \ {0}
\* "raise": nothing is deleted and the call raises; "partial": some files are
\* deleted and the call raises; "silent": nothing is deleted and the call
\* returns false, which no caller looks at.
ASSUME DeleteFaultsAssumption == DeleteFaults \subseteq {"raise", "partial", "silent"}
ASSUME BoundsAssumption == MaxFaults \in Nat /\ MaxCrashes \in Nat

VARIABLES
    pc,        \* the next call of each job
    attempt,   \* retry's loop variable
    stale,     \* the staging directories _clean_stale_staging has yet to delete
    had,       \* promote_staged's had_existing
    written,   \* the partitions whose Spark tasks have reported success
    staging,   \* <table>.staging/<run_id> of each job
    final,     \* <table>
    trash,     \* <table>.trash/table
    good,      \* history: the last acknowledged version and those promoted since
    before,    \* history: the table each job's attempt found in place
    spoilt,    \* history: the jobs that met another one or a delete that did not delete
    known,     \* history: no job was spoilt, or one that was not has returned since
    faults, crashes

jobVars == <<pc, attempt, stale, had, written>>
diskVars == <<staging, final, trash>>
trust == <<spoilt, known>>
vars == <<jobVars, diskVars, good, before, trust, faults, crashes>>

Versions == Jobs \cup {Seed}
Full(v) == {v} \X Parts

\* A directory: whether it exists, the data files anywhere below it, and
\* whether _SUCCESS is at its top.
Directory == [exists : BOOLEAN, files : SUBSET (Versions \X Parts), marker : BOOLEAN]
Absent == [exists |-> FALSE, files |-> {}, marker |-> FALSE]
Table(v) == [exists |-> TRUE, files |-> Full(v), marker |-> TRUE]

Ended == {"done", "failed", "crashed"}
Phases == {"idle", "clean", "stale", "begin", "tasks", "check", "droptrash", "aside",
           "promote", "mark", "drop", "cleanroot", "rmroot", "rollback",
           "rbdelete", "rbrename", "raised"} \cup Ended
Active(j) == pc[j] \notin {"idle"} \cup Ended

Init ==
    /\ pc = [j \in Jobs |-> "idle"]
    /\ attempt = [j \in Jobs |-> 1]
    /\ stale = [j \in Jobs |-> {}]
    /\ had = [j \in Jobs |-> FALSE]
    /\ written = [j \in Jobs |-> {}]
    /\ staging = [j \in Jobs |-> Absent]
    /\ trash = Absent
    /\ before = [j \in Jobs |-> Absent]
    /\ spoilt = {}
    /\ known = TRUE
    /\ faults = 0
    /\ crashes = 0
    /\ \/ final = Table(Seed) /\ good = {Seed}
       \/ final = Absent /\ good = {}

-----------------------------------------------------------------------------
(* The file system. *)

Goto(j, phase) == pc' = [pc EXCEPT ![j] = phase]
Works == UNCHANGED faults
GoesWrong == faults < MaxFaults /\ faults' = faults + 1

\* rename onto a directory that exists moves the source inside it.
Renamed(src, dst) ==
    IF dst.exists THEN [dst EXCEPT !.files = @ \cup src.files] ELSE src

\* creating dir/_SUCCESS makes dir where it is missing.
Marked(dir) == [exists |-> TRUE, files |-> dir.files, marker |-> TRUE]

Leavings(dir) == {Absent, dir} \cup {[dir EXCEPT !.files = kept] : kept \in SUBSET dir.files}

\* Nothing is promised of the jobs S and of what they leave.
Spoil(S) == spoilt' = spoilt \cup S /\ known' = (known /\ S = {})

\* A write returns.
Acknowledge(j) ==
    /\ good' = {j}
    /\ known' = (known \/ j \notin spoilt)
    /\ UNCHANGED spoilt

\* The outcomes of delete(dir, recursive): what is left, and where job j goes
\* when the call returns and when it raises.
Delete(j, dir, left, returns, raises) ==
    \/ Works /\ left = Absent /\ Goto(j, returns) /\ UNCHANGED trust
    \/ "raise" \in DeleteFaults /\ GoesWrong /\ left = dir /\ Goto(j, raises)
          /\ UNCHANGED trust
    \/ /\ GoesWrong
       /\ Spoil({j})
       /\ \/ "silent" \in DeleteFaults /\ left = dir /\ Goto(j, returns)
          \/ /\ "partial" \in DeleteFaults
             /\ \E kept \in SUBSET dir.files : left = [dir EXCEPT !.files = kept]
             /\ Goto(j, raises)

\* A call that raises without an effect; inside promote_staged's try the
\* rollback runs next.
CallRaises(j) ==
    /\ \/ pc[j] \in {"clean", "begin", "tasks", "check"} /\ Goto(j, "raised")
       \/ pc[j] \in {"droptrash", "aside", "promote", "mark", "drop", "cleanroot"}
          /\ Goto(j, "rollback")
       \/ pc[j] \in {"rollback", "rbdelete", "rbrename"} /\ Goto(j, "raised")
       \/ pc[j] = "rmroot" /\ Goto(j, "done")
    /\ GoesWrong
    /\ IF pc[j] = "rmroot" THEN Acknowledge(j) ELSE UNCHANGED <<good, trust>>
    /\ UNCHANGED <<attempt, stale, had, written, diskVars, before, crashes>>

-----------------------------------------------------------------------------
(* write_parquet_staged *)

Start(j) ==
    /\ pc[j] = "idle"
    /\ Cardinality({i \in Jobs : Active(i)}) < MaxActive
    /\ Goto(j, "clean")
    /\ LET others == {i \in Jobs : Active(i)}
       IN  Spoil(IF others = {} THEN {} ELSE others \cup {j})
    /\ UNCHANGED <<attempt, stale, had, written, diskVars, good, before, faults, crashes>>

\* _clean_stale_staging lists the directories of other runs ...
Clean(j) ==
    /\ pc[j] = "clean"
    /\ stale' = [stale EXCEPT ![j] = {i \in Jobs \ {j} : staging[i].exists}]
    /\ Goto(j, "stale")
    /\ UNCHANGED <<attempt, had, written, diskVars, good, before, trust, faults, crashes>>

\* ... and deletes them one by one.
CleanOne(j) ==
    /\ pc[j] = "stale"
    /\ \/ /\ stale[j] = {}
          /\ Goto(j, "begin")
          /\ UNCHANGED <<stale, staging, trust, faults>>
       \/ \E i \in stale[j] : \E left \in Leavings(staging[i]) :
             /\ Delete(j, staging[i], left, "stale", "raised")
             /\ staging' = [staging EXCEPT ![i] = left]
             /\ stale' = [stale EXCEPT ![j] = @ \ {i}]
    /\ UNCHANGED <<attempt, had, written, final, trash, good, before, crashes>>

\* Spark's overwrite mode empties the target before the tasks start.
BeginWrite(j) ==
    /\ pc[j] = "begin"
    /\ staging' = [staging EXCEPT ![j] = [Absent EXCEPT !.exists = TRUE]]
    /\ written' = [written EXCEPT ![j] = {}]
    /\ Goto(j, "tasks")
    /\ UNCHANGED <<attempt, stale, had, final, trash, good, before, trust, faults, crashes>>

\* A task commits its file, creating the directories it needs.
WritePart(j, p) ==
    /\ pc[j] = "tasks"
    /\ p \notin written[j]
    /\ written' = [written EXCEPT ![j] = @ \cup {p}]
    /\ staging' = [staging EXCEPT ![j] =
          [exists |-> TRUE, files |-> @.files \cup {<<j, p>>}, marker |-> @.marker]]
    /\ UNCHANGED <<pc, attempt, stale, had, final, trash, good, before, trust, faults, crashes>>

\* The job commit merges the committed tasks it finds and writes _SUCCESS; it
\* lists a directory, and raises when that directory is gone.
CommitWrite(j) ==
    /\ pc[j] = "tasks"
    /\ written[j] = Parts
    /\ \/ /\ staging[j].exists
          /\ staging' = [staging EXCEPT ![j] = Marked(@)]
          /\ Goto(j, "check")
       \/ /\ ~staging[j].exists
          /\ Goto(j, "raised")
          /\ UNCHANGED staging
    /\ UNCHANGED <<attempt, stale, had, written, final, trash, good, before, trust, faults, crashes>>

-----------------------------------------------------------------------------
(* promote_staged *)

\* Mutants of Check: the table that exists is not moved aside; a table that
\* does not exist is.
CheckNeverAside(j) ==
    /\ pc[j] = "check"
    /\ staging[j].exists
    /\ before' = [before EXCEPT ![j] = final]
    /\ Goto(j, "promote")
    /\ UNCHANGED <<attempt, stale, had, written, diskVars, good, trust, faults, crashes>>

CheckAlwaysAside(j) ==
    /\ pc[j] = "check"
    /\ staging[j].exists
    /\ had' = [had EXCEPT ![j] = TRUE]
    /\ before' = [before EXCEPT ![j] = final]
    /\ Goto(j, "droptrash")
    /\ UNCHANGED <<attempt, stale, written, diskVars, good, trust, faults, crashes>>

\* The check of the staged directory is before the try: no rollback.
Check(j) ==
    /\ pc[j] = "check"
    /\ \/ /\ ~staging[j].exists
          /\ Goto(j, "raised")
          /\ UNCHANGED <<had, before>>
       \/ /\ staging[j].exists
          /\ had' = [had EXCEPT ![j] = final.exists]
          /\ before' = [before EXCEPT ![j] = final]
          /\ Goto(j, IF final.exists THEN "droptrash" ELSE "promote")
    /\ UNCHANGED <<attempt, stale, written, diskVars, good, trust, faults, crashes>>

DropOldTrash(j) ==
    /\ pc[j] = "droptrash"
    /\ \/ trash.exists /\ Delete(j, trash, trash', "aside", "rollback")
       \/ ~trash.exists /\ Works /\ Goto(j, "aside") /\ UNCHANGED <<trash, trust>>
    /\ UNCHANGED <<attempt, stale, had, written, staging, final, good, before, crashes>>

\* Mutant of MoveAside: the old table is deleted to make room.
DeleteInstead(j) ==
    /\ pc[j] = "aside"
    /\ final' = Absent
    /\ Goto(j, "promote")
    /\ UNCHANGED <<attempt, stale, had, written, staging, trash, good, before, trust, faults, crashes>>

\* mkdirs(trash) and rename(final, trash/table).
MoveAside(j) ==
    /\ pc[j] = "aside"
    /\ \/ /\ final.exists
          /\ trash' = Renamed(final, trash)
          /\ final' = Absent
          /\ Goto(j, "promote")
       \/ /\ ~final.exists
          /\ Goto(j, "rollback")
          /\ UNCHANGED <<final, trash>>
    /\ UNCHANGED <<attempt, stale, had, written, staging, good, before, trust, faults, crashes>>

Promote(j) ==
    /\ pc[j] = "promote"
    /\ \/ /\ staging[j].exists
          /\ final' = Renamed(staging[j], final)
          /\ staging' = [staging EXCEPT ![j] = Absent]
          /\ good' = good \cup {j}
          /\ Goto(j, "mark")
       \/ /\ ~staging[j].exists
          /\ Goto(j, "rollback")
          /\ UNCHANGED <<final, staging, good>>
    /\ UNCHANGED <<attempt, stale, had, written, trash, before, trust, faults, crashes>>

\* The marker comes only after the swap is in place, where Spark's own is already.
Mark(j) ==
    /\ pc[j] = "mark"
    /\ final' = Marked(final)
    /\ Goto(j, "drop")
    /\ UNCHANGED <<attempt, stale, had, written, staging, trash, good, before, trust, faults, crashes>>

\* Mutant of DropTrash: only a trash of this promotion's own is deleted.
DropOwnTrash(j) ==
    /\ pc[j] = "drop"
    /\ IF had[j] THEN Delete(j, trash, trash', "cleanroot", "rollback")
                 ELSE Works /\ Goto(j, "cleanroot") /\ UNCHANGED <<trash, trust>>
    /\ UNCHANGED <<attempt, stale, had, written, staging, final, good, before, crashes>>

DropTrash(j) ==
    /\ pc[j] = "drop"
    /\ Delete(j, trash, trash', "cleanroot", "rollback")
    /\ UNCHANGED <<attempt, stale, had, written, staging, final, good, before, crashes>>

\* _remove_empty_parent looks, then deletes recursively what it saw empty.
CleanRoot(j) ==
    /\ pc[j] = "cleanroot"
    /\ \/ /\ \A i \in Jobs : ~staging[i].exists
          /\ Goto(j, "rmroot")
          /\ UNCHANGED <<good, trust>>
       \/ /\ \E i \in Jobs : staging[i].exists
          /\ Goto(j, "done")
          /\ Acknowledge(j)
    /\ UNCHANGED <<attempt, stale, had, written, diskVars, before, faults, crashes>>

RemoveRoot(j) ==
    /\ pc[j] = "rmroot"
    /\ staging' = [i \in Jobs |-> Absent]
    /\ Goto(j, "done")
    /\ Acknowledge(j)
    /\ UNCHANGED <<attempt, stale, had, written, final, trash, before, faults, crashes>>

-----------------------------------------------------------------------------
(* _rollback_table and retry *)

\* Mutant of Rollback: what is in the place of the table is not removed first.
RollbackOnto(j) ==
    /\ pc[j] = "rollback"
    /\ Goto(j, IF ~had[j] \/ ~trash.exists THEN "raised" ELSE "rbrename")
    /\ UNCHANGED <<attempt, stale, had, written, diskVars, good, before, trust, faults, crashes>>

Rollback(j) ==
    /\ pc[j] = "rollback"
    /\ Goto(j, IF ~had[j] \/ ~trash.exists THEN "raised"
               ELSE IF final.exists THEN "rbdelete" ELSE "rbrename")
    /\ UNCHANGED <<attempt, stale, had, written, diskVars, good, before, trust, faults, crashes>>

RollbackDelete(j) ==
    /\ pc[j] = "rbdelete"
    /\ Delete(j, final, final', "rbrename", "raised")
    /\ UNCHANGED <<attempt, stale, had, written, staging, trash, good, before, crashes>>

\* The rename's result is not looked at; its exception is only logged.
RollbackRename(j) ==
    /\ pc[j] = "rbrename"
    /\ \/ /\ trash.exists
          /\ final' = Renamed(trash, final)
          /\ trash' = Absent
       \/ ~trash.exists /\ UNCHANGED <<final, trash>>
    /\ Goto(j, "raised")
    /\ UNCHANGED <<attempt, stale, had, written, staging, good, before, trust, faults, crashes>>

\* Mutants of Retry: one attempt too many; attempts that are not counted.
RetryOnceMore(j) ==
    /\ pc[j] = "raised"
    /\ attempt[j] <= Attempts
    /\ attempt' = [attempt EXCEPT ![j] = @ + 1]
    /\ Goto(j, "clean")
    /\ UNCHANGED <<stale, had, written, diskVars, good, before, trust, faults, crashes>>

RetryForever(j) ==
    /\ pc[j] = "raised"
    /\ Goto(j, "clean")
    /\ UNCHANGED <<attempt, stale, had, written, diskVars, good, before, trust, faults, crashes>>

\* Whether the exception looks transient depends on its text alone, so any
\* exception may be either.
Retry(j) ==
    /\ pc[j] = "raised"
    /\ attempt[j] < Attempts
    /\ attempt' = [attempt EXCEPT ![j] = @ + 1]
    /\ Goto(j, "clean")
    /\ UNCHANGED <<stale, had, written, diskVars, good, before, trust, faults, crashes>>

GiveUp(j) ==
    /\ pc[j] = "raised"
    /\ Goto(j, "failed")
    /\ UNCHANGED <<attempt, stale, had, written, diskVars, good, before, trust, faults, crashes>>

\* The process is killed: nothing of it survives but the disk.
Crash(j) ==
    /\ Active(j)
    /\ crashes < MaxCrashes
    /\ crashes' = crashes + 1
    /\ Goto(j, "crashed")
    /\ UNCHANGED <<attempt, stale, had, written, diskVars, good, before, trust, faults>>

-----------------------------------------------------------------------------
\* What job j does once started, faults of its calls included.
Step(j) ==
    \/ Clean(j) \/ CleanOne(j) \/ BeginWrite(j) \/ (\E p \in Parts : WritePart(j, p)) \/ CommitWrite(j)
    \/ Check(j) \/ DropOldTrash(j) \/ MoveAside(j) \/ Promote(j) \/ Mark(j)
    \/ DropTrash(j) \/ CleanRoot(j) \/ RemoveRoot(j)
    \/ Rollback(j) \/ RollbackDelete(j) \/ RollbackRename(j)
    \/ CallRaises(j) \/ Retry(j) \/ GiveUp(j)

Finished == (\A j \in Jobs : pc[j] \in Ended) /\ UNCHANGED vars

Next == (\E j \in Jobs : Start(j) \/ Step(j) \/ Crash(j)) \/ Finished

Spec == Init /\ [][Next]_vars

\* A started process keeps running until it ends or is killed.
FairSpec == Spec /\ \A j \in Jobs : WF_vars(Step(j))

-----------------------------------------------------------------------------
(* Properties *)

TypeOK ==
    /\ pc \in [Jobs -> Phases]
    /\ attempt \in [Jobs -> 1..Attempts]
    /\ stale \in [Jobs -> SUBSET Jobs]
    /\ had \in [Jobs -> BOOLEAN]
    /\ written \in [Jobs -> SUBSET Parts]
    /\ staging \in [Jobs -> Directory]
    /\ final \in Directory
    /\ trash \in Directory
    /\ good \subseteq Versions
    /\ before \in [Jobs -> Directory]
    /\ spoilt \subseteq Jobs
    /\ known \in BOOLEAN
    /\ faults \in 0..MaxFaults
    /\ crashes \in 0..MaxCrashes

CompleteAndGood(dir) == \E v \in good : dir.files = Full(v)

\* A reader that finds a table finds all the files of one version, and never
\* of a version that an acknowledged write has replaced: the promise of
\* promote_staged ("never a mix").
NeverMixed == final.exists => CompleteAndGood(final)

\* Once there has been a table, a complete copy of an acceptable version is on
\* disk, at its place or in the trash, whatever fails and wherever the writer
\* is killed: rename-aside never gives up the old copy before the new one.
Durable ==
    good # {} => \/ final.exists /\ CompleteAndGood(final)
                 \/ trash.exists /\ CompleteAndGood(trash)

\* atomic_write_parquet returns only with its own complete, marked version in
\* place and none of anybody's debris (trash, staging) left behind.
DonePublished ==
    [][\A j \in Jobs : pc[j] # "done" /\ pc'[j] = "done" =>
          /\ final' = Table(j)
          /\ ~trash'.exists
          /\ \A i \in Jobs : ~staging'[i].exists]_vars

\* A failed attempt that found a table leaves that table, its own version, or
\* (when the rollback itself fails) nothing in its place: "On any failure the
\* old table is restored (best effort)".
FailureRestoresOld ==
    [][\A j \in Jobs : pc[j] \in {"rollback", "rbdelete", "rbrename"} /\ pc'[j] = "raised"
          /\ had[j] /\ final'.exists
          => final'.files \in {before[j].files, Full(j)}]_vars

\* The writer keeps the promise of TableSwap: a reader of the path sees whole
\* versions replaced by whole versions, with nothing in between but an absent
\* table, and an acknowledged version is never taken back.
Promise == INSTANCE TableSwap WITH
    Contents <- {Full(v) : v \in Versions}, NoTable <- {},
    shown <- final.files, good <- {Full(v) : v \in good}
ImplementsTableSwap == Promise!Spec

\* What a reader of a directory takes it for.
Content(dir) ==
    IF ~known THEN Unknown
    ELSE IF ~dir.exists THEN NoTable
    ELSE IF \E v \in Versions : dir.files = Full(v)
         THEN CHOOSE v \in Versions : dir.files = Full(v)
         ELSE Unknown

\* Overlapping writers, half-done deletes and retries on the debris of all of
\* them included, the writer is what the modules that write tables take it for:
\* one that met no other and whose deletes deleted shows, trashes, restores and
\* loses nothing but the versions it found and its own, and returns, also after
\* writers that did not keep this promise, with its own whole version in place.
Promised == INSTANCE TableWrite WITH
    Writers <- Jobs, Old <- {Seed}, None <- NoTable,
    disk <- [table |-> Content(final), trash |-> Content(trash), spoilt |-> spoilt],
    writing <- {j \in Jobs : Active(j)}
ImplementsTableWrite == Promised!Spec

\* What the disk must look like at each call of a running job: this is why the
\* calls may fail in any order and the properties above still hold.
DiskAgrees(j) ==
    /\ pc[j] = "tasks" => staging[j].exists /\ staging[j].files = {j} \X written[j]
    /\ pc[j] \in {"check", "droptrash", "aside", "promote"} => staging[j] = Table(j)
    /\ pc[j] \in {"droptrash", "aside"} => had[j] /\ final.exists
    /\ pc[j] = "aside" => ~trash.exists
    /\ pc[j] \in {"promote", "rbrename"} => final = Absent
    /\ pc[j] \in {"mark", "drop", "cleanroot", "rmroot"} => final = Table(j)
    /\ pc[j] \in {"cleanroot", "rmroot"} => trash = Absent
    /\ pc[j] \in {"rbdelete", "rbrename"} => trash.exists
    /\ pc[j] = "stale" => \A i \in Jobs \ {j} : staging[i].exists => i \in stale[j]
    /\ pc[j] \in {"begin", "tasks", "check", "droptrash", "aside", "promote",
                  "mark", "drop", "cleanroot", "rmroot"}
          => \A i \in Jobs \ {j} : ~staging[i].exists
    /\ pc[j] \in {"mark", "drop", "cleanroot", "rmroot"} => ~staging[j].exists

OneActive == \A i, j \in Jobs : Active(i) /\ Active(j) => i = j

\* Whatever is in the trash is a whole acceptable version too, so that a
\* rollback that finds it (a crashed job's, perhaps) may put it in place.
DiskInvariant ==
    /\ OneActive
    /\ final.exists \/ final = Absent
    /\ trash.exists => CompleteAndGood(trash)
    /\ \A j \in Jobs : DiskAgrees(j)

\* Whatever other jobs left on disk, together or one after another, a job that
\* starts or retries when they have ended and nothing goes wrong any more
\* publishes its version: a re-run needs no manual cleaning.
RerunHeals ==
    \A j \in Jobs :
        (/\ pc[j] = "clean"
         /\ \A i \in Jobs \ {j} : pc[i] \in Ended
         /\ faults = MaxFaults /\ crashes = MaxCrashes) ~> pc[j] = "done"

\* The retry loop is left: a started job returns, raises or dies, though two
\* jobs may delete each other's staging directories over and over.
JobsEnd == \A j \in Jobs : Active(j) ~> pc[j] \in Ended
=============================================================================
