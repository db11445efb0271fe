-------------------------- MODULE FeatureRunsProofs --------------------------
(***************************************************************************)
(* Theorems of FeatureRuns, for every set of runs, revisions, launches and *)
(* training jobs, any number of processes at a time and any number of      *)
(* faults of any kind.                                                     *)
(***************************************************************************)
EXTENDS FeatureRuns, FiniteSetTheorems, TLAPS

USE DEF Ended, Steps, Statuses, Goto, Fault, vars, runVars, trainVars

-----------------------------------------------------------------------------
(* Types *)

Row == [status : Statuses, at : Nat]
Disk == [table : Versions, trash : Versions, spoilt : SUBSET Runs]

\* The rows a statement leaves are rows.
LEMMA RowsType ==
    ASSUME TypeOK, NEW r \in Runs
    PROVE  /\ Finished(r, "success") \in [Runs -> Row]
           /\ Finished(r, "failed") \in [Runs -> Row]
           /\ [rows EXCEPT ![r] = [status |-> "running", at |-> 0]] \in [Runs -> Row]
           /\ \A S \in SUBSET Runs : Superseded(S) \in [Runs -> Row]
           /\ rows \in [Runs -> Row]
<1>1. Now \in Nat
  <2>1. IsFiniteSet({s \in Runs : rows[s].at > 0})
    BY RunsAssumption, FS_Subset
  <2> QED BY <2>1, FS_CardinalityType DEF Now
<1> QED BY <1>1 DEF TypeOK, Row, Finished, Superseded

\* A statement leaves rows and connection well typed whatever becomes of it.
LEMMA ExecuteType ==
    ASSUME TypeOK, NEW r \in Runs, NEW after \in [Runs -> Row],
           NEW succeeds \in Steps \cup Ended, NEW raises \in Steps \cup Ended,
           Execute(r, after, succeeds, raises)
    PROVE  /\ rows' \in [Runs -> Row]
           /\ conn' \in [Runs -> {"none", "ok", "aborted", "closed"}]
           /\ pc' \in [Runs -> {"idle"} \cup Steps \cup Ended]
           /\ faults' \in 0..MaxFaults
<1>1. rows' \in [Runs -> Row]
  BY DEF Execute, TypeOK, Row
<1>2. conn' \in [Runs -> {"none", "ok", "aborted", "closed"}]
  <2>1. conn' = conn \/ \E state \in {"aborted", "closed"} : conn' = [conn EXCEPT ![r] = state]
    BY DEF Execute
  <2> QED BY <2>1 DEF TypeOK
<1>3. pc' \in [Runs -> {"idle"} \cup Steps \cup Ended]
  BY DEF Execute, TypeOK
<1>4. faults' \in 0..MaxFaults
  BY BoundsAssumption DEF Execute, TypeOK
<1> QED BY <1>1, <1>2, <1>3, <1>4

\* What a write makes of the disk: before it is spoilt, in the steps of a run
\* that is not, and once it is.
LEMMA DiskMoves ==
    ASSUME TypeOK, NEW r \in Runs
    PROVE  /\ disk \in Disk
           /\ Table!Begun(r) \in Disk
           /\ \/ Table!Begun(r) = disk
              \/ /\ Table!Begun(r).table = Unknown /\ Table!Begun(r).trash = Unknown
                 /\ \E S \in SUBSET {s \in Runs : pc[s] = "writing"} :
                       Table!Begun(r).spoilt = disk.spoilt \cup S \cup {r}
           /\ Table!HalfDeleted(r) \in Disk
           /\ Table!HalfDeleted(r).table = Unknown /\ Table!HalfDeleted(r).trash = Unknown
           /\ Table!HalfDeleted(r).spoilt = disk.spoilt \cup {r}
           /\ Table!Returned(r) \in Disk
           /\ Table!Returned(r).spoilt = disk.spoilt
           /\ IF r \in disk.spoilt THEN Table!Returned(r) = disk
              ELSE Table!Returned(r).table = r /\ Table!Returned(r).trash = NoVersion
           /\ \A d \in Table!Moved(r) :
                 /\ d \in Disk /\ d.spoilt = disk.spoilt
                 /\ IF r \in disk.spoilt THEN d = disk
                    ELSE {d.table, d.trash} \subseteq {r, disk.table, disk.trash, NoVersion}
<1>1. disk \in Disk
  BY DEF TypeOK, Disk
<1>2. ASSUME NEW S \in SUBSET Runs
      PROVE  /\ Table!Spoilt(S) \in Disk /\ Table!Spoilt(S).spoilt = disk.spoilt \cup S
             /\ Table!Spoilt(S).table = Unknown /\ Table!Spoilt(S).trash = Unknown
  BY <1>1 DEF Table!Spoilt, Disk, Versions
<1>3. \/ Table!Begun(r) = disk
      \/ Table!Begun(r) = Table!Spoilt({s \in Runs : pc[s] = "writing"} \cup {r})
  BY DEF Table!Begun
<1>4. /\ Table!Begun(r) \in Disk
      /\ \/ Table!Begun(r) = disk
         \/ /\ Table!Begun(r).table = Unknown /\ Table!Begun(r).trash = Unknown
            /\ \E S \in SUBSET {s \in Runs : pc[s] = "writing"} :
                  Table!Begun(r).spoilt = disk.spoilt \cup S \cup {r}
  <2>1. CASE Table!Begun(r) = disk
    BY <1>1, <2>1
  <2>2. CASE Table!Begun(r) = Table!Spoilt({s \in Runs : pc[s] = "writing"} \cup {r})
    <3> DEFINE S == {s \in Runs : pc[s] = "writing"}
    <3>1. S \cup {r} \in SUBSET Runs
      OBVIOUS
    <3>2. disk.spoilt \cup (S \cup {r}) = disk.spoilt \cup S \cup {r}
      OBVIOUS
    <3>3. Table!Begun(r).spoilt = disk.spoilt \cup S \cup {r}
      BY <1>2, <2>2, <3>1, <3>2
    <3> QED BY <1>2, <2>2, <3>1, <3>3
  <2> QED BY <1>3, <2>1, <2>2
<1>5. /\ Table!HalfDeleted(r) \in Disk
      /\ Table!HalfDeleted(r).table = Unknown /\ Table!HalfDeleted(r).trash = Unknown
      /\ Table!HalfDeleted(r).spoilt = disk.spoilt \cup {r}
  BY <1>2 DEF Table!HalfDeleted
<1>6. /\ Table!Returned(r) \in Disk
      /\ Table!Returned(r).spoilt = disk.spoilt
      /\ IF r \in disk.spoilt THEN Table!Returned(r) = disk
         ELSE Table!Returned(r).table = r /\ Table!Returned(r).trash = NoVersion
  BY <1>1 DEF Table!Returned, Disk, Versions
<1>7. ASSUME NEW d \in Table!Moved(r)
      PROVE  /\ d \in Disk /\ d.spoilt = disk.spoilt
             /\ IF r \in disk.spoilt THEN d = disk
                ELSE {d.table, d.trash} \subseteq {r, disk.table, disk.trash, NoVersion}
  <2>1. CASE r \in disk.spoilt
    BY <1>1, <2>1 DEF Table!Moved
  <2>2. CASE r \notin disk.spoilt
    <3>1. PICK v \in {r, disk.table, disk.trash, NoVersion},
               w \in {r, disk.table, disk.trash, NoVersion} :
               d = [table |-> v, trash |-> w, spoilt |-> disk.spoilt]
      BY <2>2 DEF Table!Moved
    <3> QED BY <1>1, <2>2, <3>1 DEF Disk, Versions
  <2> QED BY <2>1, <2>2
<1> QED BY <1>1, <1>4, <1>5, <1>6, <1>7

LEMMA InitType == Init => TypeOK
<1> SUFFICES ASSUME Init PROVE TypeOK
  OBVIOUS
<1>1. PICK launch \in Launches :
          /\ bronze = MaxGenerations - launch.ingestions
          /\ pc = [r \in Runs |-> IF r \in launch.present THEN "idle" ELSE "absent"]
          /\ code = [r \in Runs |-> launch.as[r][1]]
          /\ mode = [r \in Runs |-> launch.as[r][2]]
          /\ tpc = [t \in Trainers |-> IF t \in launch.present THEN "idle" ELSE "absent"]
  BY DEF Init
<1>2. launch.as \in [Runs -> Codes \X Modes] /\ launch.ingestions \in 0..MaxGenerations - 1
  BY LaunchesAssumption
<1>3. code \in [Runs -> Codes] /\ mode \in [Runs -> Modes]
  BY <1>1, <1>2
<1>4. bronze \in 1..MaxGenerations
  BY <1>1, <1>2, BoundsAssumption
<1> QED BY <1>1, <1>3, <1>4, BoundsAssumption DEF Init, TypeOK, Versions

\* What a write does to the disk is well typed, whichever of its steps it is.
LEMMA WriteType ==
    ASSUME TypeOK, NEW r \in Runs, Write(r) \/ WriteMoves(r) \/ WriteEnds(r)
    PROVE  disk' \in Disk /\ (UNCHANGED published \/ Publish) /\ faults' \in 0..MaxFaults
<1>1. disk' \in Disk
  BY DiskMoves DEF Write, WriteMoves, WriteEnds
<1>2. faults' \in 0..MaxFaults
  BY BoundsAssumption DEF TypeOK, Write, WriteMoves, WriteEnds
<1> QED BY <1>1, <1>2 DEF Write, WriteMoves, WriteEnds

LEMMA StepType == TypeOK /\ [Next]_vars => TypeOK'
<1> SUFFICES ASSUME TypeOK, [Next]_vars PROVE TypeOK'
  OBVIOUS
<1> USE DEF TypeOK
<1>1. ASSUME NEW r \in Runs, Start(r) PROVE TypeOK'
  BY <1>1 DEF Start, Versions
<1>2. ASSUME NEW r \in Runs, Decide(r) PROVE TypeOK'
  <2>1. CASE mode[r] = "plain"
    BY <1>2, <2>1, RowsType, ExecuteType DEF Decide, DecideBy, Row, Versions
  <2>2. CASE mode[r] # "plain"
    BY <1>2, <2>2 DEF Decide, DecideBy, Versions
  <2> QED BY <2>1, <2>2
<1>3. ASSUME NEW r \in Runs, Supersede(r) PROVE TypeOK'
  <2> DEFINE previous == {s \in SameKey(r) : rows[s].status = "success"}
  <2>1. Superseded(previous) \in [Runs -> Row]
    BY RowsType DEF SameKey
  <2> QED BY <1>3, <2>1, ExecuteType DEF Supersede, Row, Versions
<1>4. ASSUME NEW r \in Runs, Insert(r) PROVE TypeOK'
  BY <1>4, RowsType, ExecuteType DEF Insert, Row, Versions
<1>5. ASSUME NEW r \in Runs, Compute(r) PROVE TypeOK'
  BY <1>5 DEF Compute, Versions
<1>6. ASSUME NEW r \in Runs, Gates(r) PROVE TypeOK'
  <2>1. gated' \subseteq Runs
    BY <1>6 DEF Gates
  <2>2. CASE Execute(r, rows, "write", "record")
    BY <1>6, <2>1, <2>2, RowsType, ExecuteType DEF Gates, Row, Versions
  <2>3. CASE UNCHANGED <<rows, conn>> /\ (Goto(r, "write") \/ Goto(r, "record"))
    BY <1>6, <2>1, <2>3, BoundsAssumption DEF Gates, Execute, Versions
  <2> QED BY <1>6, <2>2, <2>3 DEF Gates
<1>7. ASSUME NEW r \in Runs, Write(r) \/ WriteMoves(r) \/ WriteEnds(r) PROVE TypeOK'
  <2>1. disk' \in [table : Versions', trash : Versions', spoilt : SUBSET Runs] /\ faults' \in 0..MaxFaults
    BY <1>7, WriteType DEF Disk, Versions
  <2>2. published' \subseteq Runs
    BY <1>7, WriteType DEF Publish
  <2>3. pc' \in [Runs -> {"idle"} \cup Steps \cup Ended]
    BY <1>7 DEF Write, WriteMoves, WriteEnds
  <2>4. UNCHANGED <<bronze, rows, code, mode, conn, built, trainVars, gated, together>>
    BY <1>7 DEF Write, WriteMoves, WriteEnds
  <2> QED BY <2>1, <2>2, <2>3, <2>4 DEF Versions
<1>8. ASSUME NEW r \in Runs, Finish(r) PROVE TypeOK'
  <2>1. /\ rows' \in [Runs -> Row] /\ conn' \in [Runs -> {"none", "ok", "aborted", "closed"}]
        /\ pc' \in [Runs -> {"idle"} \cup Steps \cup Ended] /\ faults' \in 0..MaxFaults
    <3>1. CASE Execute(r, Finished(r, "success"), "done", "record")
      BY <3>1, RowsType, ExecuteType
    <3>2. CASE /\ conn' = [conn EXCEPT ![r] = IF @ = "ok" THEN "aborted" ELSE @]
               /\ Goto(r, "record") /\ UNCHANGED <<rows, faults>>
      BY <3>2, RowsType
    <3> QED BY <1>8, <3>1, <3>2 DEF Finish
  <2>2. UNCHANGED <<bronze, disk, code, mode, built, trainVars, published, gated, together>>
    BY <1>8 DEF Finish
  <2> QED BY <2>1, <2>2 DEF Row, Versions
<1>9. ASSUME NEW r \in Runs, Record(r) PROVE TypeOK'
  <2>1. /\ rows' \in [Runs -> Row] /\ conn' \in [Runs -> {"none", "ok", "aborted", "closed"}]
        /\ pc' \in [Runs -> {"idle"} \cup Steps \cup Ended] /\ faults' \in 0..MaxFaults
    <3>1. CASE Execute(r, Finished(r, "failed"), "failed", "failed")
      BY <3>1, RowsType, ExecuteType
    <3>2. CASE Goto(r, "failed") /\ UNCHANGED <<rows, conn, faults>>
      BY <3>2, RowsType
    <3> QED BY <1>9, <3>1, <3>2 DEF Record
  <2>2. UNCHANGED <<bronze, disk, code, mode, built, trainVars, published, gated, together>>
    BY <1>9 DEF Record
  <2> QED BY <2>1, <2>2 DEF Row, Versions
<1>10. ASSUME NEW r \in Runs, Crash(r) PROVE TypeOK'
  BY <1>10, BoundsAssumption DEF Crash, Versions
<1>11. ASSUME NEW t \in Trainers, Load(t) \/ Register(t) PROVE TypeOK'
  <2>1. CASE Load(t)
    BY <2>1 DEF Load, Versions
  <2>2. CASE Register(t)
    <3>1. Latest \in SUBSET Runs
      BY DEF Latest
    <3> QED BY <2>2, <3>1 DEF Register, Versions
  <2> QED BY <1>11, <2>1, <2>2
<1>12. CASE Ingest
  BY <1>12, BoundsAssumption DEF Ingest, Versions
<1>13. CASE UNCHANGED vars
  BY <1>13 DEF Versions
<1> QED
  BY <1>1, <1>2, <1>3, <1>4, <1>5, <1>6, <1>7, <1>8, <1>9, <1>10, <1>11, <1>12, <1>13
  DEF Next, Step, Settled

\* Every reachable state is well typed.
THEOREM TypeCorrect == Spec => []TypeOK
BY InitType, StepType, PTL DEF Spec

-----------------------------------------------------------------------------
(* What a row's success means, and what a reader of the table finds. *)

\* The calls of a run come in order: gates, then the write, then the registry;
\* only a version that passed is put anywhere, and what is in place was noted.
Progress ==
    \A r \in Runs : /\ pc[r] \in {"write", "writing", "finish"} => r \in gated
                    /\ pc[r] = "finish" => r \in published \cup disk.spoilt

\* No spoilt version is where a reader could take it for a whole one.
Places ==
    /\ published \subseteq gated
    /\ disk.table \in Runs => disk.table \in published
    /\ {disk.table, disk.trash} \cap disk.spoilt = {}

RunsInvariant == TypeOK /\ OnlyGatedTables /\ Progress /\ Places /\ SuccessWasPublished

\* A statement whose rows stay as they are changes no row, whatever happens.
LEMMA ExecuteMoves ==
    ASSUME TypeOK, NEW r \in Runs, NEW after, NEW succeeds, NEW raises,
           Execute(r, after, succeeds, raises)
    PROVE  /\ rows' \in {rows, after}
           /\ (Goto(r, succeeds) /\ rows' = after) \/ Goto(r, raises)
BY DEF Execute

Ever(r) == rows[r].status \in {"success", "superseded"}

\* What a step of run r that leaves the disk alone owes the invariant.
LEMMA KeepsRuns ==
    ASSUME RunsInvariant, TypeOK', NEW r \in Runs, NEW step, Goto(r, step),
           gated \subseteq gated', UNCHANGED <<disk, published>>,
           step = "writing" => FALSE,
           step = "write" => r \in gated',
           step = "finish" => r \in gated' /\ r \in published \cup disk.spoilt,
           \A s \in Runs : Ever(s)' => Ever(s) \/ s \in (published \cup disk.spoilt) \cap gated
    PROVE  RunsInvariant'
<1>1. \A s \in Runs : pc'[s] = IF s = r THEN step ELSE pc[s]
  BY DEF RunsInvariant, TypeOK
<1>2. Progress'
  BY <1>1 DEF RunsInvariant, Progress
<1>3. OnlyGatedTables'
  BY <1>2 DEF RunsInvariant, OnlyGatedTables, Progress
<1>4. SuccessWasPublished'
  BY DEF RunsInvariant, SuccessWasPublished, Ever
<1> QED BY <1>2, <1>3, <1>4 DEF RunsInvariant, Places

\* What a step of a write owes it.
LEMMA WriteKeepsRuns ==
    ASSUME RunsInvariant, TypeOK', NEW r \in Runs, NEW step \in {"writing", "finish", "done", "record"},
           Goto(r, step), r \in gated, UNCHANGED <<gated, rows>>, disk' \in Disk,
           \/ disk' = disk
           \/ /\ disk.spoilt \subseteq disk'.spoilt /\ disk'.spoilt # {}
              /\ disk'.table = Unknown /\ disk'.trash = Unknown
           \/ /\ disk'.spoilt = disk.spoilt /\ r \notin disk.spoilt
              /\ {disk'.table, disk'.trash} \subseteq {r, disk.table, disk.trash, NoVersion},
           Publish \/ (UNCHANGED published /\ disk'.table \in {disk.table, Unknown}),
           step = "finish" => r \in published' \cup disk'.spoilt
    PROVE  RunsInvariant'
<1>0. TypeOK /\ published \subseteq gated /\ disk \in Disk
  BY DEF RunsInvariant, Places, TypeOK, Disk
<1>1. \A s \in Runs : pc'[s] = IF s = r THEN step ELSE pc[s]
  BY <1>0 DEF TypeOK
<1>2. {disk'.table, disk'.trash} \subseteq gated \cup {NoVersion, Unknown}
  BY DEF RunsInvariant, OnlyGatedTables
<1>3. published \subseteq published' /\ published' \subseteq gated
  BY <1>0, <1>2, RunsAssumption DEF Publish
<1>4. disk.spoilt \subseteq disk'.spoilt
  OBVIOUS
<1>5. Progress'
  BY <1>1, <1>3, <1>4 DEF RunsInvariant, Progress
<1>6. Places'
  <2>1. disk'.table \in Runs => disk'.table \in published'
    BY <1>0, RunsAssumption DEF RunsInvariant, Places, Publish
  <2>2. {disk'.table, disk'.trash} \cap disk'.spoilt = {}
    <3>1. Unknown \notin disk'.spoilt /\ NoVersion \notin disk'.spoilt
      BY RunsAssumption DEF Disk
    <3> QED BY <3>1 DEF RunsInvariant, Places
  <2> QED BY <1>3, <2>1, <2>2 DEF Places
<1>7. OnlyGatedTables'
  BY <1>2, <1>5, RunsAssumption DEF RunsInvariant, OnlyGatedTables, Progress
<1>8. SuccessWasPublished'
  BY <1>3, <1>4 DEF RunsInvariant, SuccessWasPublished
<1> QED BY <1>5, <1>6, <1>7, <1>8 DEF RunsInvariant

LEMMA StepKeepsRuns == RunsInvariant /\ [Next]_vars => RunsInvariant'
<1> SUFFICES ASSUME RunsInvariant, [Next]_vars PROVE RunsInvariant'
  OBVIOUS
<1>0. TypeOK /\ TypeOK'
  BY StepType DEF RunsInvariant
<1>1. ASSUME NEW r \in Runs, Start(r) \/ Crash(r) \/ Compute(r) PROVE RunsInvariant'
  <2>1. UNCHANGED <<rows, disk, published, gated>>
    BY <1>1 DEF Start, Crash, Compute
  <2>2. PICK step \in {"decide", "crashed", "gates"} : Goto(r, step)
    BY <1>1 DEF Start, Crash, Compute
  <2> QED BY <1>0, <2>1, <2>2, KeepsRuns DEF Ever
<1>2. ASSUME NEW r \in Runs, Decide(r) PROVE RunsInvariant'
  <2>1. rows' = rows /\ UNCHANGED <<disk, published, gated>>
    BY <1>0, <1>2, ExecuteMoves DEF Decide, DecideBy
  <2>2. PICK step \in {"skipped", "insert", "failed", "supersede", "compute"} : Goto(r, step)
    BY <1>0, <1>2, ExecuteMoves DEF Decide, DecideBy
  <2> QED BY <1>0, <2>1, <2>2, KeepsRuns DEF Ever
<1>3. ASSUME NEW r \in Runs, Supersede(r) PROVE RunsInvariant'
  <2> DEFINE previous == {s \in SameKey(r) : rows[s].status = "success"}
  <2>1. rows' \in {rows, Superseded(previous)} /\ UNCHANGED <<disk, published, gated>>
    BY <1>0, <1>3, ExecuteMoves DEF Supersede
  <2>2. \A s \in Runs : Ever(s)' => Ever(s)
    BY <1>0, <2>1 DEF Superseded, TypeOK, Ever
  <2>3. PICK step \in {"insert", "failed"} : Goto(r, step)
    BY <1>0, <1>3, ExecuteMoves DEF Supersede
  <2>4. UNCHANGED <<disk, published, gated>>
    BY <2>1
  <2> QED BY <1>0, <2>2, <2>3, <2>4, KeepsRuns
<1>4. ASSUME NEW r \in Runs, Insert(r) PROVE RunsInvariant'
  <2>1. /\ rows' \in {rows, [rows EXCEPT ![r] = [status |-> "running", at |-> 0]]}
        /\ UNCHANGED <<disk, published, gated>>
    BY <1>0, <1>4, ExecuteMoves DEF Insert
  <2>2. \A s \in Runs : Ever(s)' => Ever(s)
    BY <1>0, <2>1 DEF TypeOK, Ever
  <2>3. PICK step \in {"compute", "failed"} : Goto(r, step)
    BY <1>0, <1>4, ExecuteMoves DEF Insert
  <2>4. UNCHANGED <<disk, published, gated>>
    BY <2>1
  <2> QED BY <1>0, <2>2, <2>3, <2>4, KeepsRuns
<1>5. ASSUME NEW r \in Runs, Gates(r) PROVE RunsInvariant'
  <2>1. rows' = rows /\ UNCHANGED <<disk, published>>
    BY <1>0, <1>5, ExecuteMoves DEF Gates
  <2>2. PICK step \in {"write", "record"} : Goto(r, step)
    BY <1>0, <1>5, ExecuteMoves DEF Gates
  <2>3. gated \subseteq gated' /\ (pc'[r] = "write" => r \in gated')
    BY <1>0, <1>5, <2>2 DEF Gates, TypeOK
  <2>4. step = "write" => r \in gated'
    BY <1>0, <2>2, <2>3 DEF TypeOK
  <2> QED BY <1>0, <2>1, <2>2, <2>3, <2>4, KeepsRuns DEF Ever
<1>6. ASSUME NEW r \in Runs, Write(r) \/ WriteMoves(r) \/ WriteEnds(r) PROVE RunsInvariant'
  <2>1. r \in gated /\ UNCHANGED <<rows, gated>> /\ disk' \in Disk
    BY <1>0, <1>6, WriteType DEF Write, WriteMoves, WriteEnds, RunsInvariant, Progress
  <2>2. CASE Write(r)
    <3>1. \/ disk' = disk
          \/ /\ disk.spoilt \subseteq disk'.spoilt /\ disk'.spoilt # {}
             /\ disk'.table = Unknown /\ disk'.trash = Unknown
      BY <1>0, <2>2, DiskMoves DEF Write
    <3> QED BY <1>0, <2>1, <2>2, <3>1, WriteKeepsRuns DEF Write
  <2>3. CASE WriteMoves(r)
    <3>1. Goto(r, "writing")
      BY <1>0, <2>3 DEF WriteMoves, TypeOK
    <3>2. \/ disk' = disk
          \/ /\ disk.spoilt \subseteq disk'.spoilt /\ disk'.spoilt # {}
             /\ disk'.table = Unknown /\ disk'.trash = Unknown
          \/ /\ disk'.spoilt = disk.spoilt /\ r \notin disk.spoilt
             /\ {disk'.table, disk'.trash} \subseteq {r, disk.table, disk.trash, NoVersion}
      BY <1>0, <2>3, DiskMoves DEF WriteMoves
    <3> QED BY <1>0, <2>1, <2>3, <3>1, <3>2, WriteKeepsRuns DEF WriteMoves
  <2>4. CASE WriteEnds(r)
    <3>1. PICK step \in {"done", "finish", "record"} :
              /\ Goto(r, step)
              /\ disk' = Table!Returned(r) \/ (step = "record" /\ disk' = disk)
      BY <2>4 DEF WriteEnds
    <3>2. \/ disk' = disk
          \/ /\ disk'.spoilt = disk.spoilt /\ r \notin disk.spoilt
             /\ {disk'.table, disk'.trash} \subseteq {r, disk.table, disk.trash, NoVersion}
      BY <1>0, <3>1, DiskMoves
    <3>3. step = "finish" => r \in published' \cup disk'.spoilt
      BY <1>0, <2>4, <3>1, DiskMoves DEF WriteEnds, Publish
    <3> QED BY <1>0, <2>1, <2>4, <3>1, <3>2, <3>3, WriteKeepsRuns DEF WriteEnds
  <2> QED BY <1>6, <2>2, <2>3, <2>4
<1>7. ASSUME NEW r \in Runs, Finish(r) PROVE RunsInvariant'
  <2>1. rows' \in {rows, Finished(r, "success")} /\ UNCHANGED <<disk, published, gated>>
    BY <1>0, <1>7, ExecuteMoves DEF Finish
  <2>2. r \in (published \cup disk.spoilt) \cap gated
    BY <1>0, <1>7 DEF Finish, RunsInvariant, Progress
  <2>3. PICK step \in {"done", "record"} : Goto(r, step)
    BY <1>0, <1>7, ExecuteMoves DEF Finish
  <2>4. \A s \in Runs : Ever(s)' => Ever(s) \/ s = r
    BY <1>0, <2>1 DEF TypeOK, Finished, Ever
  <2> QED BY <1>0, <2>1, <2>2, <2>3, <2>4, KeepsRuns
<1>8. ASSUME NEW r \in Runs, Record(r) PROVE RunsInvariant'
  <2>1. rows' \in {rows, Finished(r, "failed")} /\ UNCHANGED <<disk, published, gated>>
    BY <1>0, <1>8, ExecuteMoves DEF Record
  <2>2. PICK step \in {"failed"} : Goto(r, step)
    BY <1>0, <1>8, ExecuteMoves DEF Record
  <2>3. \A s \in Runs : Ever(s)' => Ever(s)
    BY <1>0, <2>1 DEF TypeOK, Finished, Ever
  <2>4. UNCHANGED <<disk, published, gated>>
    BY <2>1
  <2> QED BY <1>0, <2>2, <2>3, <2>4, KeepsRuns
<1>9. CASE Ingest \/ (\E t \in Trainers : Load(t) \/ Register(t)) \/ UNCHANGED vars
  <2>1. UNCHANGED <<pc, rows, disk, published, gated>>
    BY <1>9 DEF Ingest, Load, Register
  <2> QED BY <1>0, <2>1 DEF RunsInvariant, OnlyGatedTables, Progress, Places, SuccessWasPublished
<1> QED BY <1>1, <1>2, <1>3, <1>4, <1>5, <1>6, <1>7, <1>8, <1>9 DEF Next, Step, Settled

LEMMA InitRuns == Init => RunsInvariant
BY InitType, RunsAssumption
   DEF Init, RunsInvariant, OnlyGatedTables, Progress, Places, SuccessWasPublished

\* A row that says success is of a version that passed its gates and was put in
\* place whole, or of a write that met another one or a delete that did not
\* delete; no other write ends in one.
THEOREM SuccessMeansPublished == Spec => []SuccessWasPublished
<1>1. RunsInvariant => SuccessWasPublished
  BY DEF RunsInvariant
<1> QED BY <1>1, InitRuns, StepKeepsRuns, PTL DEF Spec

\* No run begins to write a version that did not pass its gates, and neither
\* place holds one, also where a failed write puts back what it finds in the
\* trash; only spoilt writes leave anything else there.
THEOREM TableIsGated == Spec => []OnlyGatedTables
<1>1. RunsInvariant => OnlyGatedTables
  BY DEF RunsInvariant
<1> QED BY <1>1, InitRuns, StepKeepsRuns, PTL DEF Spec

-----------------------------------------------------------------------------
(* At most one success per run_key. *)

Success(r) == rows[r].status = "success"
KeysInvariant == TypeOK /\ OneSuccessPerKey

Writes(r) == Write(r) \/ WriteMoves(r) \/ WriteEnds(r)

\* Nothing but finish_run("success") adds a success.
LEMMA NoNewSuccess ==
    ASSUME TypeOK, NEW r \in Runs,
           \/ Start(r) \/ Crash(r) \/ Decide(r) \/ Supersede(r) \/ Insert(r)
           \/ Compute(r) \/ Gates(r) \/ Writes(r) \/ Record(r)
    PROVE  \A s \in Runs : Success(s)' => Success(s)
<1>1. CASE Start(r) \/ Crash(r) \/ Compute(r) \/ Writes(r) \/ Decide(r) \/ Gates(r)
  <2>1. UNCHANGED rows
    BY <1>1, ExecuteMoves DEF Start, Crash, Compute, Writes, Write, WriteMoves, WriteEnds, Decide,
                              DecideBy, Gates
  <2> QED BY <2>1 DEF Success
<1>2. CASE Supersede(r)
  <2> DEFINE previous == {s \in SameKey(r) : rows[s].status = "success"}
  <2>1. rows' \in {rows, Superseded(previous)}
    BY <1>2, ExecuteMoves DEF Supersede
  <2> QED BY <2>1 DEF Superseded, Success, TypeOK
<1>3. CASE Insert(r)
  <2>1. rows' \in {rows, [rows EXCEPT ![r] = [status |-> "running", at |-> 0]]}
    BY <1>3, ExecuteMoves DEF Insert
  <2> QED BY <2>1, SMTT(30) DEF Success, TypeOK
<1>4. CASE Record(r)
  <2>1. rows' \in {rows, Finished(r, "failed")}
    BY <1>4, ExecuteMoves DEF Record
  <2> QED BY <2>1 DEF Success, TypeOK, Finished
<1> QED BY <1>1, <1>2, <1>3, <1>4

\* A statement adds at most the success of the run that executes Finish, which
\* the unique index lets in only when its key has none.
LEMMA NewSuccesses ==
    ASSUME TypeOK, [Next]_vars
    PROVE  /\ UNCHANGED code
           /\ \/ \A s \in Runs : Success(s)' => Success(s)
              \/ \E r \in Runs :
                    /\ pc[r] = "finish"
                    /\ \A s \in SameKey(r) \ {r} : ~Success(s)
                    /\ \A s \in Runs : Success(s)' => Success(s) \/ s = r
<1>1. UNCHANGED code
  BY DEF Next, Step, Settled, Start, Crash, Decide, DecideBy, Supersede, Insert, Compute, Gates,
         Write, WriteMoves, WriteEnds, Finish, Record, Load, Register, Ingest
<1>2. UNCHANGED rows => \A s \in Runs : Success(s)' => Success(s)
  BY DEF Success
<1>3. ASSUME NEW r \in Runs, Finish(r)
      PROVE  \/ UNCHANGED rows
             \/ /\ pc[r] = "finish"
                /\ \A s \in SameKey(r) \ {r} : ~Success(s)
                /\ \A s \in Runs : Success(s)' => Success(s) \/ s = r
  <2>1. CASE \E s \in SameKey(r) \ {r} : Success(s)
    BY <1>3, <2>1 DEF Finish, Success
  <2>2. CASE \A s \in SameKey(r) \ {r} : ~Success(s)
    <3>1. pc[r] = "finish" /\ rows' \in {rows, Finished(r, "success")}
      BY <1>3, <2>2, ExecuteMoves DEF Finish, Success
    <3> QED BY <2>2, <3>1 DEF Finished, Success, TypeOK
  <2> QED BY <2>1, <2>2
<1>4. Ingest \/ (\E t \in Trainers : Load(t) \/ Register(t)) \/ UNCHANGED vars => UNCHANGED rows
  BY DEF Ingest, Load, Register
<1> QED BY <1>1, <1>2, <1>3, <1>4, NoNewSuccess DEF Next, Step, Settled, Writes

LEMMA StepKeepsKeys == KeysInvariant /\ [Next]_vars => KeysInvariant'
<1> SUFFICES ASSUME KeysInvariant, [Next]_vars PROVE KeysInvariant'
  OBVIOUS
<1>1. TypeOK /\ TypeOK'
  BY StepType DEF KeysInvariant
<1>2. OneSuccessPerKey'
  BY <1>1, NewSuccesses DEF KeysInvariant, OneSuccessPerKey, SameKey, Success
<1> QED BY <1>1, <1>2 DEF KeysInvariant

\* The partial unique index holds its promise between any number of
\* overlapping runs, forced or not.
THEOREM OneSuccess == Spec => []OneSuccessPerKey
<1>1. Init => KeysInvariant
  BY InitType DEF Init, KeysInvariant, OneSuccessPerKey
<1>2. KeysInvariant => OneSuccessPerKey
  BY DEF KeysInvariant
<1> QED BY <1>1, <1>2, StepKeepsKeys, PTL DEF Spec

-----------------------------------------------------------------------------
(* Runs that no other is under way beside never meet the index. *)

Registering == {"insert", "compute", "gates", "write", "writing", "finish"}

\* Between is_completed (or supersede) and finish_run, nobody else succeeds.
RoomIsKept ==
    /\ \A r \in Runs \ together : \A s \in Runs : pc[r] \in Steps /\ pc[s] \in Steps => r = s
    /\ \A r \in Runs : pc[r] \in Steps => (conn[r] = "none") = (mode[r] = "unregistered")
    /\ \A r \in Runs : pc[r] \in {"supersede", "insert", "finish"} => mode[r] # "unregistered"
    /\ \A r \in Runs \ together : pc[r] \in Registering /\ mode[r] # "unregistered"
                                    => \A s \in SameKey(r) : ~Success(s)

RoomInvariant == TypeOK /\ RoomIsKept

\* What a step of a running run owes the invariant.
LEMMA OneRunMoves ==
    ASSUME RoomInvariant, TypeOK', NEW r \in Runs, pc[r] \in Steps,
           NEW step \in Steps \cup Ended, Goto(r, step), UNCHANGED <<code, mode, together>>,
           conn'[r] = "none" <=> conn[r] = "none",
           \A s \in Runs \ {r} : conn'[s] = conn[s],
           step \in {"supersede", "insert", "finish"} => mode[r] # "unregistered",
           r \notin together /\ step \in Registering /\ mode[r] # "unregistered"
              => \A s \in SameKey(r) : ~Success(s)'
    PROVE  RoomInvariant'
<1>1. \A s \in Runs : pc'[s] = IF s = r THEN step ELSE pc[s]
  BY DEF RoomInvariant, TypeOK
<1>2. \A s \in Runs \ together : pc'[s] \in Steps => s = r
  BY <1>1 DEF RoomInvariant, RoomIsKept
<1>3. \A s \in Runs \ together : pc'[s] \in Registering => s = r
  BY <1>2 DEF Registering
<1>4. \A s \in Runs \ together : \A q \in Runs : pc'[s] \in Steps /\ pc'[q] \in Steps => s = q
  BY <1>1 DEF RoomInvariant, RoomIsKept
<1>5. RoomIsKept'
  <2>1. \A s \in Runs : pc'[s] \in Steps => (conn'[s] = "none") = (mode'[s] = "unregistered")
    BY <1>1 DEF RoomInvariant, RoomIsKept
  <2>2. \A s \in Runs : pc'[s] \in {"supersede", "insert", "finish"} => mode'[s] # "unregistered"
    BY <1>1 DEF RoomInvariant, RoomIsKept
  <2>3. \A s \in Runs \ together' : pc'[s] \in Registering /\ mode'[s] # "unregistered"
                                      => \A q \in SameKey(s)' : ~Success(q)'
    BY <1>1, <1>3 DEF SameKey
  <2> QED BY <1>4, <2>1, <2>2, <2>3 DEF RoomIsKept
<1> QED BY <1>5 DEF RoomInvariant

LEMMA ExecuteKeepsConn ==
    ASSUME TypeOK, NEW r \in Runs, NEW after, NEW succeeds, NEW raises,
           Execute(r, after, succeeds, raises)
    PROVE  /\ conn'[r] # "none" /\ conn[r] # "none"
           /\ \A s \in Runs \ {r} : conn'[s] = conn[s]
           /\ (Goto(r, succeeds) /\ rows' = after) \/ Goto(r, raises)
BY DEF Execute, TypeOK

\* Whoever starts beside others marks them and itself.
LEMMA StartKeepsRoom ==
    ASSUME RoomInvariant, TypeOK', NEW r \in Runs, Start(r)
    PROVE  RoomInvariant'
<1>1. \A s \in Runs : pc'[s] = IF s = r THEN "decide" ELSE pc[s]
  BY DEF Start, RoomInvariant, TypeOK
<1>2. together \subseteq together' /\ UNCHANGED <<code, mode, rows>> /\ pc[r] = "idle"
  BY DEF Start
<1>3. \A s \in Runs \ {r} : pc[s] \in Steps => s \in together' /\ r \in together'
  BY DEF Start
<1>4. \A s \in Runs \ together' : \A q \in Runs : pc'[s] \in Steps /\ pc'[q] \in Steps => s = q
  BY <1>1, <1>2, <1>3 DEF RoomInvariant, RoomIsKept
<1>5. \A s \in Runs : conn'[s] = IF s = r THEN IF mode[r] = "unregistered" THEN "none" ELSE "ok"
                                 ELSE conn[s]
  BY DEF Start, RoomInvariant, TypeOK
<1>6. \A s \in Runs : pc'[s] \in Steps => (conn'[s] = "none") = (mode'[s] = "unregistered")
  BY <1>1, <1>2, <1>5 DEF RoomInvariant, RoomIsKept
<1>7. \A s \in Runs \ together' : pc'[s] \in Registering /\ mode'[s] # "unregistered"
                                      => \A q \in SameKey(s)' : ~Success(q)'
  <2>1. \A s \in Runs : (Success(s)' <=> Success(s)) /\ SameKey(s)' = SameKey(s)
    BY <1>2 DEF Success, SameKey
  <2> QED BY <1>1, <1>2, <2>1 DEF RoomInvariant, RoomIsKept, Registering, SameKey
<1>8. \A s \in Runs : pc'[s] \in {"supersede", "insert", "finish"} => mode'[s] # "unregistered"
  BY <1>1, <1>2 DEF RoomInvariant, RoomIsKept
<1>9. RoomIsKept'
  BY <1>4, <1>6, <1>7, <1>8 DEF RoomIsKept
<1> QED BY <1>9 DEF RoomInvariant

LEMMA RunKeepsRoom ==
    ASSUME RoomInvariant, TypeOK', NEW r \in Runs, Step(r) \/ WriteMoves(r) \/ Crash(r)
    PROVE  RoomInvariant'
<1>0. TypeOK /\ (pc[r] \in Steps => (conn[r] = "none" <=> mode[r] = "unregistered"))
  BY DEF RoomInvariant, RoomIsKept
<1>1. CASE Decide(r)
  <2>1. pc[r] = "decide" /\ UNCHANGED <<code, mode, rows, together>>
    BY <1>0, <1>1, ExecuteMoves DEF Decide, DecideBy
  <2>2. CASE mode[r] = "plain"
    <3>1. Execute(r, rows, IF Completed(r) THEN "skipped" ELSE "insert", "failed")
      BY <1>1, <2>2 DEF Decide, DecideBy
    <3>2. conn'[r] # "none" /\ conn[r] # "none" /\ \A s \in Runs \ {r} : conn'[s] = conn[s]
      BY <1>0, <3>1, ExecuteKeepsConn
    <3>3. Goto(r, "skipped") \/ Goto(r, "failed") \/ (~Completed(r) /\ Goto(r, "insert"))
      BY <1>0, <3>1, ExecuteKeepsConn
    <3>4. ~Completed(r) => \A s \in SameKey(r) : ~Success(s)'
      BY <2>1 DEF Completed, Success
    <3> QED BY <2>1, <2>2, <3>2, <3>3, <3>4, OneRunMoves DEF Registering
  <2>3. CASE mode[r] = "force"
    <3>1. Goto(r, "supersede") /\ UNCHANGED conn
      BY <1>1, <2>3 DEF Decide, DecideBy
    <3> QED BY <2>1, <2>3, <3>1, OneRunMoves DEF Registering
  <2>4. CASE mode[r] = "unregistered"
    <3>1. Goto(r, "compute") /\ UNCHANGED conn
      BY <1>1, <2>4 DEF Decide, DecideBy
    <3> QED BY <2>1, <2>4, <3>1, OneRunMoves DEF Registering
  <2> QED BY <1>0, <2>2, <2>3, <2>4, ModesAssumption DEF TypeOK
<1>2. CASE Supersede(r)
  <2> DEFINE previous == {s \in SameKey(r) : rows[s].status = "success"}
  <2>1. pc[r] = "supersede" /\ UNCHANGED <<code, mode, together>>
    BY <1>2 DEF Supersede
  <2>2. conn'[r] # "none" /\ conn[r] # "none" /\ \A s \in Runs \ {r} : conn'[s] = conn[s]
    BY <1>0, <1>2, ExecuteKeepsConn DEF Supersede
  <2>3. (Goto(r, "insert") /\ rows' = Superseded(previous)) \/ Goto(r, "failed")
    BY <1>0, <1>2, ExecuteKeepsConn DEF Supersede
  <2>4. rows' = Superseded(previous) => \A s \in SameKey(r) : ~Success(s)'
    BY DEF Superseded, Success, SameKey
  <2> QED BY <1>0, <2>1, <2>2, <2>3, <2>4, OneRunMoves DEF Registering
<1>3. CASE Insert(r)
  <2>1. pc[r] = "insert" /\ UNCHANGED <<code, mode, together>>
    BY <1>3 DEF Insert
  <2>2. conn'[r] # "none" /\ conn[r] # "none" /\ \A s \in Runs \ {r} : conn'[s] = conn[s]
    BY <1>0, <1>3, ExecuteKeepsConn DEF Insert
  <2>3. \/ Goto(r, "compute") /\ rows' = [rows EXCEPT ![r] = [status |-> "running", at |-> 0]]
        \/ Goto(r, "failed")
    BY <1>0, <1>3, ExecuteKeepsConn DEF Insert
  <2>4. r \notin together /\ mode[r] # "unregistered" => \A s \in SameKey(r) : ~Success(s)
    BY <2>1 DEF RoomInvariant, RoomIsKept, Registering
  <2>5. rows' = [rows EXCEPT ![r] = [status |-> "running", at |-> 0]]
          => \A s \in SameKey(r) : Success(s)' => Success(s)
    BY <1>0 DEF Success, SameKey, TypeOK
  <2> QED BY <2>1, <2>2, <2>3, <2>4, <2>5, OneRunMoves DEF Registering
<1>4. CASE Compute(r) \/ Gates(r) \/ Writes(r)
  <2>1. pc[r] \in {"compute", "gates", "write", "writing"} /\ UNCHANGED <<code, mode, rows, together>>
    BY <1>0, <1>4, ExecuteMoves DEF Compute, Gates, Writes, Write, WriteMoves, WriteEnds
  <2>2. /\ conn'[r] = "none" <=> conn[r] = "none"
        /\ \A s \in Runs \ {r} : conn'[s] = conn[s]
    BY <1>0, <1>4, ExecuteKeepsConn DEF Compute, Gates, Writes, Write, WriteMoves, WriteEnds
  <2>3. PICK step \in {"gates", "write", "writing", "finish", "record", "done"} : Goto(r, step)
    <3>1. CASE Compute(r) \/ Gates(r) \/ Write(r) \/ WriteEnds(r)
      BY <1>0, <3>1, ExecuteMoves DEF Compute, Gates, Write, WriteEnds
    <3>2. CASE WriteMoves(r)
      BY <1>0, <3>2 DEF WriteMoves, TypeOK
    <3> QED BY <1>4, <3>1, <3>2 DEF Writes
  <2>4. step = "finish" => mode[r] # "unregistered"
    BY <1>0, <1>4, <2>1, <2>3, ExecuteMoves
       DEF Compute, Gates, Writes, Write, WriteMoves, WriteEnds, TypeOK
  <2>5. r \notin together /\ mode[r] # "unregistered" => \A s \in SameKey(r) : ~Success(s)'
    BY <2>1 DEF RoomInvariant, RoomIsKept, Registering, Success
  <2> QED BY <2>1, <2>2, <2>3, <2>4, <2>5, OneRunMoves
<1>5. CASE Finish(r) \/ Record(r) \/ Crash(r)
  <2>1. pc[r] \in Steps /\ UNCHANGED <<code, mode, together>>
    BY <1>5 DEF Finish, Record, Crash
  <2>2. /\ conn'[r] = "none" <=> conn[r] = "none"
        /\ \A s \in Runs \ {r} : conn'[s] = conn[s]
    <3>1. CASE Finish(r)
      <4>1. CASE \A s \in SameKey(r) \ {r} : rows[s].status # "success"
        BY <1>0, <3>1, <4>1, ExecuteKeepsConn DEF Finish
      <4>2. CASE conn' = [conn EXCEPT ![r] = IF @ = "ok" THEN "aborted" ELSE @]
        BY <1>0, <4>2 DEF TypeOK
      <4> QED BY <3>1, <4>1, <4>2 DEF Finish
    <3>2. CASE Record(r)
      BY <1>0, <3>2, ExecuteKeepsConn DEF Record
    <3>3. CASE Crash(r)
      BY <3>3 DEF Crash
    <3> QED BY <1>5, <3>1, <3>2, <3>3
  <2>3. PICK step \in {"done", "record", "failed", "crashed"} : Goto(r, step)
    BY <1>0, <1>5, ExecuteMoves DEF Finish, Record, Crash
  <2> QED BY <2>1, <2>2, <2>3, OneRunMoves DEF Registering
<1> QED BY <1>1, <1>2, <1>3, <1>4, <1>5 DEF Step, Writes

LEMMA InitRoom == Init => RoomInvariant
<1> SUFFICES ASSUME Init PROVE RoomInvariant
  OBVIOUS
<1>1. \A r \in Runs : pc[r] \in {"idle", "absent"}
  BY DEF Init
<1> QED BY <1>1, InitType DEF RoomInvariant, RoomIsKept, Registering

LEMMA StepKeepsRoom == RoomInvariant /\ [Next]_vars => RoomInvariant'
<1> SUFFICES ASSUME RoomInvariant, [Next]_vars PROVE RoomInvariant'
  OBVIOUS
<1>1. TypeOK'
  BY StepType DEF RoomInvariant
<1>2. CASE \E r \in Runs : Start(r) \/ Step(r) \/ WriteMoves(r) \/ Crash(r)
  BY <1>1, <1>2, StartKeepsRoom, RunKeepsRoom
<1>3. CASE Ingest \/ (\E t \in Trainers : Load(t) \/ Register(t)) \/ UNCHANGED vars
  <2>1. UNCHANGED <<pc, conn, mode, code, rows, together>>
    BY <1>3 DEF Ingest, Load, Register
  <2> QED BY <1>1, <2>1 DEF RoomInvariant, RoomIsKept, Success, SameKey
<1> QED BY <1>2, <1>3 DEF Next, Settled

\* A run that no other was under way beside never loses its work to the unique
\* index, whatever the runs before it left behind.
THEOREM NoIndexConflict == Spec => []IndexNeverBites
<1>1. RoomInvariant => IndexNeverBites
  BY DEF RoomInvariant, RoomIsKept, IndexNeverBites, Registering, Success
<1> QED BY <1>1, InitRoom, StepKeepsRoom, PTL DEF Spec

\* Such a run, without --force, leaves the table alone while a success of its
\* key is on record, whatever failed before.
THEOREM CompletedStays == Spec => CompletedIsNoOp
<1> DEFINE NoOp == \A r \in Runs \ together :
                      mode[r] = "plain" /\ pc[r] # "writing" /\ pc'[r] = "writing" => ~Completed(r)
<1>1. RoomInvariant /\ [Next]_vars => [NoOp]_vars
  <2> SUFFICES ASSUME RoomInvariant, Next, NEW r \in Runs \ together,
                      mode[r] = "plain", pc[r] # "writing", pc'[r] = "writing"
               PROVE  ~Completed(r)
    OBVIOUS
  <2>1. TypeOK
    BY DEF RoomInvariant
  <2>2. ASSUME NEW s \in Runs, Start(s) \/ Step(s) \/ WriteMoves(s) \/ Crash(s)
        PROVE  pc[r] = "write"
    <3>1. s = r
      BY <2>1, <2>2 DEF Step, Start, Crash, Decide, DecideBy, Supersede, Insert, Compute, Gates,
                        Write, WriteMoves, WriteEnds, Finish, Record, Execute, TypeOK
    <3> QED BY <2>1, <2>2, <3>1
            DEF Step, Start, Crash, Decide, DecideBy, Supersede, Insert, Compute, Gates,
                Write, WriteMoves, WriteEnds, Finish, Record, Execute, TypeOK
  <2>3. pc[r] = "write"
    BY <2>2 DEF Next, Settled, Load, Register, Ingest
  <2> QED BY <2>3 DEF RoomInvariant, RoomIsKept, Registering, Completed, Success
<1> QED BY <1>1, InitRoom, StepKeepsRoom, PTL DEF Spec, CompletedIsNoOp

-----------------------------------------------------------------------------
(* The rows of runs that failed. *)

\* Until finish_run a run's row is its INSERT's, and after it only a lost
\* connection leads to the except branch.  Where the transaction is aborted
\* nothing more is written, and in the except branch nothing else is lost.
OwnRow(r) ==
    /\ /\ pc[r] \in {"idle"} \cup Steps
       /\ pc[r] = "record" => conn[r] # "closed"
       => rows[r].status \in {"none", "running"}
    /\ pc[r] = "failed" =>
          /\ conn[r] = "ok" => rows[r].status = "failed"
          /\ conn[r] = "aborted" => rows[r].status \in {"none", "running"}

RecordInvariant == TypeOK /\ \A r \in Runs : OwnRow(r)

\* The others' steps change a row only from success to superseded.
LEMMA OwnRowMoves ==
    ASSUME RecordInvariant, TypeOK', NEW r \in Runs, OwnRow(r)',
           \A s \in Runs \ {r} :
              /\ pc'[s] = pc[s] /\ conn'[s] = conn[s]
              /\ rows'[s] = rows[s]
                    \/ (rows[s].status = "success" /\ rows'[s].status = "superseded")
    PROVE  RecordInvariant'
<1>1. \A s \in Runs \ {r} : OwnRow(s)'
  BY DEF RecordInvariant, OwnRow
<1> QED BY <1>1 DEF RecordInvariant

\* What a statement does to a run and to the other rows.
LEMMA ExecuteCases ==
    ASSUME TypeOK, NEW r \in Runs, NEW after, NEW succeeds, NEW raises,
           Execute(r, after, succeeds, raises)
    PROVE  /\ \/ conn'[r] = "ok" /\ conn[r] = "ok" /\ rows' = after /\ pc'[r] = succeeds
              \/ conn'[r] \in {"aborted", "closed"} /\ pc'[r] = raises
                    /\ (rows' = rows \/ (conn'[r] = "closed" /\ rows' = after))
           /\ conn[r] \in {"aborted", "closed"} => rows' = rows
           /\ \A s \in Runs \ {r} : pc'[s] = pc[s] /\ conn'[s] = conn[s]
<1>1. \A s \in Runs \ {r} : pc'[s] = pc[s] /\ conn'[s] = conn[s]
  BY DEF Execute, TypeOK
<1>2. \A step : Goto(r, step) => pc'[r] = step
  BY DEF TypeOK
<1>3. \/ conn'[r] = "ok" /\ conn[r] = "ok" /\ rows' = after /\ Goto(r, succeeds)
      \/ conn'[r] \in {"aborted", "closed"} /\ Goto(r, raises)
            /\ (rows' = rows \/ (conn'[r] = "closed" /\ rows' = after))
  <2>1. CASE conn[r] = "ok" /\ rows' = after /\ Goto(r, succeeds) /\ UNCHANGED conn
    BY <2>1
  <2>2. CASE conn' = [conn EXCEPT ![r] = "aborted"] /\ Goto(r, raises) /\ UNCHANGED rows
    BY <2>2 DEF TypeOK
  <2>3. CASE conn' = [conn EXCEPT ![r] = "closed"] /\ rows' \in {rows, after} /\ Goto(r, raises)
    BY <2>3 DEF TypeOK
  <2>4. CASE conn[r] \in {"aborted", "closed"} /\ Goto(r, raises) /\ UNCHANGED <<rows, conn>>
    BY <2>4
  <2> QED BY <2>1, <2>2, <2>3, <2>4 DEF Execute
<1>4. conn[r] \in {"aborted", "closed"} => rows' = rows
  BY DEF Execute
<1> QED BY <1>1, <1>2, <1>3, <1>4

LEMMA StepKeepsRecord == RecordInvariant /\ [Next]_vars => RecordInvariant'
<1> SUFFICES ASSUME RecordInvariant, [Next]_vars PROVE RecordInvariant'
  OBVIOUS
<1>0. TypeOK /\ TypeOK'
  BY StepType DEF RecordInvariant
<1>1. ASSUME NEW r \in Runs, Start(r) \/ Crash(r) \/ Compute(r) \/ Writes(r) PROVE RecordInvariant'
  <2>1. /\ UNCHANGED rows
        /\ \A s \in Runs \ {r} : pc'[s] = pc[s] /\ conn'[s] = conn[s]
    BY <1>0, <1>1 DEF Start, Crash, Compute, Writes, Write, WriteMoves, WriteEnds, TypeOK
  <2>2. /\ pc[r] \in {"idle"} \cup Steps
        /\ pc'[r] = "crashed" \/ (pc'[r] # "failed" /\ pc[r] # "record")
    BY <1>0, <1>1 DEF Start, Crash, Compute, Writes, Write, WriteMoves, WriteEnds, TypeOK
  <2>3. OwnRow(r)'
    BY <2>1, <2>2 DEF RecordInvariant, OwnRow
  <2> QED BY <1>0, <2>1, <2>3, OwnRowMoves
<1>2. ASSUME NEW r \in Runs, Decide(r) \/ Gates(r) PROVE RecordInvariant'
  <2>1. UNCHANGED rows /\ pc[r] \in {"decide", "gates"}
    BY <1>0, <1>2, ExecuteMoves DEF Decide, DecideBy, Gates
  <2>2. /\ pc'[r] = "failed" => conn'[r] # "ok"
        /\ \A s \in Runs \ {r} : pc'[s] = pc[s] /\ conn'[s] = conn[s]
    <3>1. CASE Decide(r)
      <4>1. CASE mode[r] = "plain"
        BY <1>0, <3>1, <4>1, ExecuteCases DEF Decide, DecideBy
      <4>2. CASE mode[r] # "plain"
        BY <1>0, <3>1, <4>2 DEF Decide, DecideBy, TypeOK
      <4> QED BY <4>1, <4>2
    <3>2. CASE Gates(r)
      <4>1. CASE Execute(r, rows, "write", "record")
        BY <1>0, <4>1, ExecuteCases
      <4>2. CASE UNCHANGED conn /\ (Goto(r, "write") \/ Goto(r, "record"))
        BY <1>0, <4>2 DEF TypeOK
      <4> QED BY <3>2, <4>1, <4>2 DEF Gates
    <3> QED BY <1>2, <3>1, <3>2
  <2>3. OwnRow(r)'
    BY <2>1, <2>2 DEF RecordInvariant, OwnRow
  <2> QED BY <1>0, <2>1, <2>2, <2>3, OwnRowMoves
<1>3. ASSUME NEW r \in Runs, Supersede(r) PROVE RecordInvariant'
  <2> DEFINE previous == {s \in SameKey(r) : rows[s].status = "success"}
  <2>1. pc[r] = "supersede" /\ Execute(r, Superseded(previous), "insert", "failed")
    BY <1>3 DEF Supersede
  <2>2. \A s \in Runs : \/ Superseded(previous)[s] = rows[s]
                        \/ /\ rows[s].status = "success"
                           /\ Superseded(previous)[s].status = "superseded"
    BY <1>0 DEF Superseded
  <2>3. rows'[r] = rows[r] /\ rows[r].status \in {"none", "running"}
    BY <1>0, <2>1, <2>2, ExecuteMoves DEF RecordInvariant, OwnRow
  <2>4. OwnRow(r)'
    BY <1>0, <2>1, <2>3, ExecuteCases DEF OwnRow
  <2> QED BY <1>0, <2>1, <2>2, <2>4, ExecuteCases, OwnRowMoves
<1>4. ASSUME NEW r \in Runs, Insert(r) PROVE RecordInvariant'
  <2> DEFINE after == [rows EXCEPT ![r] = [status |-> "running", at |-> 0]]
  <2>1. pc[r] = "insert" /\ Execute(r, after, "compute", "failed")
    BY <1>4 DEF Insert
  <2>2. after[r].status = "running" /\ \A s \in Runs \ {r} : after[s] = rows[s]
    BY <1>0 DEF TypeOK
  <2>3. rows[r].status \in {"none", "running"}
    BY <2>1 DEF RecordInvariant, OwnRow
  <2> HIDE DEF after
  <2>4. OwnRow(r)'
    BY <1>0, <2>1, <2>2, <2>3, ExecuteCases DEF OwnRow
  <2> QED BY <1>0, <2>1, <2>2, <2>4, ExecuteCases, OwnRowMoves
<1>5. ASSUME NEW r \in Runs, Finish(r) PROVE RecordInvariant'
  <2>1. pc[r] = "finish" /\ rows[r].status \in {"none", "running"}
    BY <1>5 DEF Finish, RecordInvariant, OwnRow
  <2>2. CASE \A s \in SameKey(r) \ {r} : rows[s].status # "success"
    <3> DEFINE after == Finished(r, "success")
    <3>1. Execute(r, after, "done", "record")
      BY <1>5, <2>2 DEF Finish
    <3>2. \A s \in Runs \ {r} : after[s] = rows[s]
      BY <1>0 DEF TypeOK, Finished
    <3> HIDE DEF after
    <3>3. OwnRow(r)'
      BY <1>0, <2>1, <3>1, ExecuteCases DEF OwnRow
    <3> QED BY <1>0, <3>1, <3>2, <3>3, ExecuteCases, OwnRowMoves
  <2>3. CASE \E s \in SameKey(r) \ {r} : rows[s].status = "success"
    <3>1. pc'[r] = "record" /\ UNCHANGED rows
             /\ \A s \in Runs \ {r} : pc'[s] = pc[s] /\ conn'[s] = conn[s]
      BY <1>0, <1>5, <2>3 DEF Finish, TypeOK
    <3> QED BY <1>0, <2>1, <3>1, OwnRowMoves DEF OwnRow
  <2> QED BY <2>2, <2>3
<1>6. ASSUME NEW r \in Runs, Record(r) PROVE RecordInvariant'
  <2>1. CASE conn[r] = "none"
    <3>1. pc'[r] = "failed" /\ UNCHANGED <<rows, conn>> /\ \A s \in Runs \ {r} : pc'[s] = pc[s]
      BY <1>0, <1>6, <2>1 DEF Record, TypeOK
    <3> QED BY <1>0, <2>1, <3>1, OwnRowMoves DEF OwnRow
  <2>2. CASE conn[r] # "none"
    <3> DEFINE after == Finished(r, "failed")
    <3>1. pc[r] = "record" /\ Execute(r, after, "failed", "failed")
      BY <1>6, <2>2 DEF Record
    <3>2. after[r].status = "failed" /\ \A s \in Runs \ {r} : after[s] = rows[s]
      BY <1>0 DEF TypeOK, Finished
    <3>3. conn[r] # "closed" => rows[r].status \in {"none", "running"}
      BY <3>1 DEF RecordInvariant, OwnRow
    <3>4. conn[r] = "closed" => conn'[r] = "closed"
      BY <1>0, <3>1 DEF Execute, TypeOK
    <3> HIDE DEF after
    <3>5. OwnRow(r)'
      BY <1>0, <3>1, <3>2, <3>3, <3>4, ExecuteCases DEF OwnRow
    <3> QED BY <1>0, <3>1, <3>2, <3>5, ExecuteCases, OwnRowMoves
  <2> QED BY <2>1, <2>2
<1>7. ASSUME Ingest \/ (\E t \in Trainers : Load(t) \/ Register(t)) \/ UNCHANGED vars
      PROVE  RecordInvariant'
  <2>1. UNCHANGED <<pc, conn, rows>>
    BY <1>7 DEF Ingest, Load, Register
  <2> QED BY <1>0, <2>1 DEF RecordInvariant, OwnRow
<1> QED BY <1>1, <1>2, <1>3, <1>4, <1>5, <1>6, <1>7 DEF Next, Step, Settled, Writes

LEMMA InitRecord == Init => RecordInvariant
BY InitType DEF Init, RecordInvariant, OwnRow

\* Whatever goes wrong, rejected statements and lost races for the unique index
\* included, a run that raised with its connection in order has 'failed' in its
\* row, and one whose transaction was aborted has 'running' or no row at all.
THEOREM FailuresAreRecorded == Spec => []FailedRunsAreRecorded
<1>1. RecordInvariant => FailedRunsAreRecorded
  BY DEF RecordInvariant, OwnRow, FailedRunsAreRecorded
<1> QED BY <1>1, InitRecord, StepKeepsRecord, PTL DEF Spec

-----------------------------------------------------------------------------
(* The group as FeatureGroup has it. *)

Acknowledged == {r \in Runs : rows[r].status = "success"}

GroupInvariant == RunsInvariant /\ RecordInvariant

\* What a step of a write does to the group: it shows its own version, one that
\* was in place before or one that never was, none, or whatever is left of
\* writes that are spoilt.
LEMMA WriteRefinesGroup ==
    ASSUME GroupInvariant, TypeOK', UNCHANGED <<code, rows>>, NEW r \in Runs,
           Write(r) \/ WriteMoves(r) \/ WriteEnds(r)
    PROVE  Group!Next \/ UNCHANGED Group!vars
<1> USE DEF Group!vars
<1>0. TypeOK /\ Places /\ {r} \cap Acknowledged = {}
  <2>1. TypeOK /\ Places /\ OwnRow(r)
    BY DEF GroupInvariant, RunsInvariant, RecordInvariant
  <2>2. pc[r] \in {"write", "writing"}
    BY DEF Write, WriteMoves, WriteEnds
  <2> QED BY <2>1, <2>2 DEF OwnRow, Acknowledged
<1>1. Acknowledged' = Acknowledged
  BY DEF Acknowledged
<1>2. ASSUME disk' = disk, UNCHANGED published \/ Publish PROVE UNCHANGED Group!vars
  BY <1>0, <1>2 DEF Places, Publish
<1>3. ASSUME disk'.table = Unknown, disk'.spoilt \in SUBSET Runs, disk'.spoilt # {},
             disk.spoilt \subseteq disk'.spoilt, UNCHANGED published
      PROVE  Group!Next
  <2>1. disk'.spoilt = disk.spoilt \cup (disk'.spoilt)
    BY <1>3
  <2>2. Group!Spoil(disk'.spoilt)
    BY <1>1, <1>3, <2>1 DEF Group!Spoil, Acknowledged
  <2> QED BY <1>3, <2>2 DEF Group!Next
<1>4. ASSUME disk'.spoilt = disk.spoilt, Publish, r \notin disk.spoilt,
             disk'.table \in {r, disk.table, disk.trash, NoVersion}
      PROVE  Group!Next \/ UNCHANGED Group!vars
  <2>1. ASSUME NEW v \in Runs, v \notin Acknowledged, disk'.table = v PROVE Group!Next
    <3>1. published' = published \cup {v}
      BY <1>4, <2>1 DEF Publish
    <3>2. Group!Show(v)
      BY <1>1, <1>4, <2>1, <3>1 DEF Group!Show, Acknowledged
    <3> QED BY <2>1, <3>2 DEF Group!Next
  <2>2. ASSUME disk'.table \in published \cup {NoVersion} PROVE Group!Next
    <3>1. UNCHANGED published
      BY <1>4, <2>2, RunsAssumption DEF Publish
    <3>2. Group!Restore
      BY <1>1, <1>4, <2>2, <3>1 DEF Group!Restore, Acknowledged
    <3> QED BY <3>2 DEF Group!Next
  <2>3. CASE disk'.table = r
    BY <1>0, <2>1, <2>3
  <2>4. CASE disk'.table = NoVersion
    BY <2>2, <2>4
  <2>5. CASE disk'.table = disk.table
    <3>1. UNCHANGED published
      BY <1>0, <1>4, <2>5 DEF Places, Publish
    <3> QED BY <1>1, <1>4, <2>5, <3>1 DEF Acknowledged
  <2>6. CASE disk'.table = disk.trash
    <3>1. disk.trash \in Runs \cup {NoVersion, Unknown}
      BY <1>0 DEF TypeOK, Versions
    <3>2. CASE disk.trash = Unknown
      <4>1. disk'.spoilt # {} /\ disk'.spoilt \in SUBSET Runs
        BY <1>0, <1>4, <3>2 DEF GroupInvariant, RunsInvariant, OnlyGatedTables, TypeOK
      <4>2. UNCHANGED published
        BY <1>4, <2>6, <3>2, RunsAssumption DEF Publish
      <4> QED BY <1>3, <1>4, <2>6, <3>2, <4>1, <4>2
    <3>3. CASE disk.trash \in published \cup {NoVersion}
      BY <2>2, <2>6, <3>3
    <3>4. CASE disk.trash \in Runs \ published
      <4>1. disk.trash \notin Acknowledged
        BY <1>0, <3>4 DEF Places, Acknowledged, GroupInvariant, RunsInvariant, SuccessWasPublished
      <4> QED BY <2>1, <2>6, <3>4, <4>1
    <3> QED BY <3>1, <3>2, <3>3, <3>4
  <2> QED BY <1>4, <2>3, <2>4, <2>5, <2>6
<1>5. disk'.spoilt \in SUBSET Runs
  BY DEF TypeOK
<1>6. CASE Write(r)
  <2>1. UNCHANGED published /\ disk' = Table!Begun(r)
    BY <1>6 DEF Write
  <2>2. \/ disk' = disk
        \/ disk'.table = Unknown /\ disk'.spoilt # {} /\ disk.spoilt \subseteq disk'.spoilt
    BY <1>0, <2>1, DiskMoves
  <2> QED BY <1>2, <1>3, <1>5, <2>1, <2>2
<1>7. CASE WriteMoves(r)
  <2>1. CASE disk' = Table!HalfDeleted(r)
    <3>1. /\ disk'.table = Unknown /\ disk'.spoilt # {} /\ disk.spoilt \subseteq disk'.spoilt
      BY <1>0, <2>1, DiskMoves
    <3>2. UNCHANGED published
      BY <1>7, <3>1, RunsAssumption DEF WriteMoves, Publish
    <3> QED BY <1>3, <1>5, <3>1, <3>2
  <2>2. CASE disk' \in Table!Moved(r)
    <3>1. \/ disk' = disk
          \/ /\ disk'.spoilt = disk.spoilt /\ r \notin disk.spoilt
             /\ disk'.table \in {r, disk.table, disk.trash, NoVersion}
      BY <1>0, <2>2, DiskMoves
    <3> QED BY <1>2, <1>4, <1>7, <3>1 DEF WriteMoves
  <2> QED BY <1>7, <2>1, <2>2 DEF WriteMoves
<1>8. CASE WriteEnds(r)
  <2>1. disk' = disk \/ disk' = Table!Returned(r)
    BY <1>8 DEF WriteEnds
  <2>2. \/ disk' = disk
        \/ disk'.spoilt = disk.spoilt /\ r \notin disk.spoilt /\ disk'.table = r
    BY <1>0, <2>1, DiskMoves
  <2> QED BY <1>2, <1>4, <1>8, <2>2 DEF WriteEnds
<1> QED BY <1>6, <1>7, <1>8

\* Every step is a step of FeatureGroup, or none.
LEMMA StepRefinesGroup == GroupInvariant /\ [Next]_vars => [Group!Next]_(Group!vars)
<1> SUFFICES ASSUME GroupInvariant, [Next]_vars PROVE Group!Next \/ UNCHANGED Group!vars
  OBVIOUS
<1> USE DEF Group!vars
<1>0. TypeOK /\ TypeOK'
  BY StepType DEF GroupInvariant, RunsInvariant
<1>1. UNCHANGED code
  BY <1>0, NewSuccesses
<1>2. ASSUME UNCHANGED <<rows, disk, published>> PROVE UNCHANGED Group!vars
  BY <1>1, <1>2
<1>3. ASSUME NEW r \in Runs, Start(r) \/ Crash(r) \/ Compute(r) \/ Decide(r) \/ Gates(r)
      PROVE  UNCHANGED Group!vars
  BY <1>0, <1>2, <1>3, ExecuteMoves DEF Start, Crash, Compute, Decide, DecideBy, Gates
<1>4. ASSUME NEW r \in Runs, Supersede(r) PROVE Group!Next \/ UNCHANGED Group!vars
  <2> DEFINE previous == {s \in SameKey(r) : rows[s].status = "success"}
  <2>1. rows' \in {rows, Superseded(previous)} /\ UNCHANGED <<disk, published>>
    BY <1>0, <1>4, ExecuteMoves DEF Supersede
  <2>2. CASE UNCHANGED rows
    BY <1>2, <2>1, <2>2
  <2>3. CASE rows' = Superseded(previous)
    <3>1. Acknowledged' = {s \in Acknowledged : code[s] # code[r]}
      BY <1>0, <2>3 DEF Superseded, Acknowledged, SameKey
    <3>2. Group!Supersede(r)
      BY <1>1, <2>1, <3>1 DEF Group!Supersede, Acknowledged
    <3> QED BY <3>2 DEF Group!Next
  <2> QED BY <2>1, <2>2, <2>3
<1>5. ASSUME NEW r \in Runs, Insert(r) \/ Record(r) PROVE UNCHANGED Group!vars
  <2>1. UNCHANGED <<disk, published>>
    BY <1>5 DEF Insert, Record
  <2>2. CASE UNCHANGED rows
    BY <1>2, <2>1, <2>2
  <2>3. CASE ~UNCHANGED rows
    <3>1. pc[r] \in {"insert", "record"} /\ conn[r] = "ok"
      BY <1>5, <2>3 DEF Insert, Record, Execute
    <3>2. rows[r].status # "success"
      BY <3>1 DEF GroupInvariant, RecordInvariant, OwnRow
    <3>3. /\ \A s \in Runs \ {r} : rows'[s] = rows[s]
          /\ rows'[r].status # "success"
      <4>1. CASE Insert(r)
        <5>1. rows' = [rows EXCEPT ![r] = [status |-> "running", at |-> 0]]
          BY <1>0, <2>3, <4>1, ExecuteMoves DEF Insert
        <5> QED BY <1>0, <5>1 DEF TypeOK
      <4>2. CASE Record(r)
        <5>1. rows' = Finished(r, "failed")
          BY <1>0, <2>3, <4>2, ExecuteMoves DEF Record
        <5> QED BY <1>0, <5>1 DEF Finished, TypeOK
      <4> QED BY <1>5, <4>1, <4>2
    <3>4. Acknowledged' = Acknowledged
      BY <3>2, <3>3 DEF Acknowledged
    <3> QED BY <1>1, <2>1, <3>4 DEF Acknowledged
  <2> QED BY <2>2, <2>3
<1>6. ASSUME NEW r \in Runs, Writes(r) PROVE Group!Next \/ UNCHANGED Group!vars
  <2>1. UNCHANGED rows
    BY <1>6 DEF Writes, Write, WriteMoves, WriteEnds
  <2> QED BY <1>0, <1>1, <1>6, <2>1, WriteRefinesGroup DEF Writes
<1>7. ASSUME NEW r \in Runs, Finish(r) PROVE Group!Next \/ UNCHANGED Group!vars
  <2>1. UNCHANGED <<disk, published>> /\ r \in published \cup disk.spoilt
    BY <1>7 DEF Finish, GroupInvariant, RunsInvariant, Progress
  <2>2. CASE UNCHANGED rows
    BY <1>2, <2>1, <2>2
  <2>3. CASE ~UNCHANGED rows
    <3>1. /\ \A s \in SameKey(r) \ {r} : rows[s].status # "success"
          /\ rows' = Finished(r, "success")
      BY <1>0, <1>7, <2>3, ExecuteMoves DEF Finish
    <3>2. Acknowledged' = Acknowledged \cup {r}
      BY <1>0, <3>1 DEF Acknowledged, Finished, TypeOK
    <3>3. \A s \in Acknowledged : code[s] = code[r] => s = r
      BY <3>1 DEF Acknowledged, SameKey
    <3>4. Group!Acknowledge(r)
      BY <1>1, <2>1, <3>2, <3>3 DEF Group!Acknowledge, Acknowledged
    <3> QED BY <3>4 DEF Group!Next
  <2> QED BY <2>2, <2>3
<1>8. Ingest \/ (\E t \in Trainers : Load(t) \/ Register(t)) \/ UNCHANGED vars
          => UNCHANGED Group!vars
  BY <1>2 DEF Ingest, Load, Register
<1> QED BY <1>3, <1>4, <1>5, <1>6, <1>7, <1>8 DEF Next, Step, Settled, Writes

\* The runs of a group, with every statement of build_and_register and every
\* outcome of the table write, keep what FeatureGroup promises, however they
\* overlap, fail and die.
THEOREM RunsImplementFeatureGroup == Spec => ImplementsFeatureGroup
<1>1. Init => GroupInvariant
  BY InitRuns, InitRecord DEF GroupInvariant
<1>2. Init => Group!Init
  BY DEF Init, Group!Init
<1>3. GroupInvariant /\ [Next]_vars => GroupInvariant'
  BY StepKeepsRuns, StepKeepsRecord DEF GroupInvariant
<1> QED BY <1>1, <1>2, <1>3, StepRefinesGroup, PTL
        DEF Spec, ImplementsFeatureGroup, Group!Spec

-----------------------------------------------------------------------------
(* A re-run of a key without a success, the last and with no more trouble.  *)

CallsLeft(r) ==
    CASE pc[r] = "decide" -> 7 [] pc[r] = "insert" -> 6 [] pc[r] = "compute" -> 5
      [] pc[r] = "gates" -> 4 [] pc[r] = "write" -> 3 [] pc[r] = "writing" -> 2
      [] pc[r] = "finish" -> 1 [] OTHER -> 0

Comes(r) ==
    /\ pc[r] = "decide" /\ mode[r] = "plain" /\ conn[r] = "ok" /\ ~Completed(r)
    /\ \A s \in Runs \ {r} : pc[s] \in Ended
    /\ faults = MaxFaults

OnCourse(r) ==
    /\ faults = MaxFaults /\ mode[r] = "plain" /\ conn[r] = "ok" /\ r \notin disk.spoilt
    /\ \A s \in Runs \ {r} : pc[s] \in Ended
    /\ pc[r] \in {"decide", "insert", "compute", "gates", "write", "writing", "finish", "done"}
    /\ pc[r] # "done" => \A s \in SameKey(r) \ {r} : ~Success(s)
    /\ pc[r] = "decide" => ~Completed(r)
    /\ pc[r] \in {"finish", "done"} => disk.table = r
    /\ pc[r] = "done" => Success(r)

\* Such a run does not leave its way to RerunRebuilds, on which each step is one
\* nearer: whatever is on the disk, its write is alone, and the index has room
\* for its success.
RerunStaysOnCourse ==
    [][\A r \in Runs : OnCourse(r) =>
          OnCourse(r)' /\ (Step(r) => CallsLeft(r)' < CallsLeft(r))]_vars

\* Nobody is spoilt before it writes.
SpoiltHasWritten ==
    \A r \in disk.spoilt : pc[r] \in {"writing", "finish", "record"} \cup Ended

WrittenInvariant == TypeOK /\ SpoiltHasWritten

LEMMA StepKeepsWritten == WrittenInvariant /\ [Next]_vars => WrittenInvariant'
<1> SUFFICES ASSUME WrittenInvariant, [Next]_vars PROVE WrittenInvariant'
  OBVIOUS
<1> DEFINE Late == {"writing", "finish", "record"} \cup Ended
<1>0. TypeOK /\ TypeOK'
  BY StepType DEF WrittenInvariant
<1>1. ASSUME NEW r \in Runs,
             Start(r) \/ Crash(r) \/ Step(r) \/ WriteMoves(r)
      PROVE  /\ \A s \in Runs \ {r} : pc'[s] = pc[s]
             /\ pc[r] \in Late => pc'[r] \in Late
  <2>1. CASE Start(r) \/ Crash(r) \/ Compute(r) \/ Writes(r)
    BY <1>0, <2>1 DEF Start, Crash, Compute, Writes, Write, WriteMoves, WriteEnds, TypeOK
  <2>2. CASE Decide(r) \/ Supersede(r) \/ Insert(r) \/ Gates(r)
    BY <1>0, <2>2 DEF Decide, DecideBy, Supersede, Insert, Gates, Execute, TypeOK
  <2>3. CASE Finish(r) \/ Record(r)
    BY <1>0, <2>3 DEF Finish, Record, Execute, TypeOK
  <2> QED BY <1>1, <2>1, <2>2, <2>3 DEF Step, Writes
<1>2. CASE disk'.spoilt = disk.spoilt
  <2>1. CASE \E r \in Runs : Start(r) \/ Crash(r) \/ Step(r) \/ WriteMoves(r)
    <3>1. \A s \in Runs : pc[s] \in Late => pc'[s] \in Late
      BY <1>1, <2>1
    <3> QED BY <1>0, <1>2, <3>1 DEF WrittenInvariant, SpoiltHasWritten, TypeOK
  <2>2. CASE UNCHANGED pc
    BY <1>0, <1>2, <2>2 DEF WrittenInvariant, SpoiltHasWritten
  <2> QED BY <2>1, <2>2 DEF Next, Settled, Ingest, Load, Register
<1>3. ASSUME NEW r \in Runs, Writes(r) PROVE WrittenInvariant'
  <2>1. \A s \in Runs : pc[s] \in Late => pc'[s] \in Late
    BY <1>1, <1>3 DEF Step, Writes
  <2>2. pc'[r] \in Late
    BY <1>0, <1>3 DEF Writes, Write, WriteMoves, WriteEnds, TypeOK
  <2>3. \A s \in disk'.spoilt : s \in disk.spoilt \/ s = r \/ (s \in Runs /\ pc[s] = "writing")
    BY <1>0, <1>3, DiskMoves DEF Writes, Write, WriteMoves, WriteEnds
  <2> QED BY <1>0, <2>1, <2>2, <2>3 DEF WrittenInvariant, SpoiltHasWritten, TypeOK
<1>4. (\A r \in Runs : ~Writes(r)) => disk'.spoilt = disk.spoilt
  BY DEF Next, Step, Settled, Start, Crash, Decide, DecideBy, Supersede, Insert, Compute, Gates,
         Writes, Finish, Record, Load, Register, Ingest
<1> QED BY <1>2, <1>3, <1>4

LEMMA CourseKept ==
    ASSUME TypeOK, TypeOK', NEW r \in Runs, OnCourse(r), Step(r) \/ WriteMoves(r)
    PROVE  OnCourse(r)' /\ (Step(r) => CallsLeft(r)' < CallsLeft(r))
<1>1. mode[r] = "plain" /\ conn[r] = "ok" /\ \A kind : ~Fault(kind)
  BY BoundsAssumption DEF OnCourse, TypeOK
<1>2. ASSUME NEW after, NEW succeeds, NEW raises, Execute(r, after, succeeds, raises)
      PROVE  /\ pc'[r] = succeeds /\ rows' = after /\ UNCHANGED <<conn, faults>>
             /\ \A s \in Runs \ {r} : pc'[s] = pc[s]
  BY <1>1, <1>2 DEF Execute, TypeOK
<1>3. CASE Decide(r)
  <2>1. pc[r] = "decide" /\ ~Completed(r) /\ Execute(r, rows, "insert", "failed")
    BY <1>1, <1>3 DEF Decide, DecideBy, OnCourse
  <2>2. /\ pc'[r] = "insert" /\ UNCHANGED <<mode, conn, code, rows, disk, faults>>
        /\ \A s \in Runs \ {r} : pc'[s] = pc[s]
    BY <1>1, <1>2, <1>3, <2>1 DEF Decide, DecideBy
  <2> QED BY <2>1, <2>2 DEF OnCourse, CallsLeft, Success, SameKey
<1>4. CASE Insert(r)
  <2>1. /\ pc[r] = "insert" /\ pc'[r] = "compute" /\ UNCHANGED <<mode, conn, code, disk, faults>>
        /\ rows' = [rows EXCEPT ![r] = [status |-> "running", at |-> 0]]
        /\ \A s \in Runs \ {r} : pc'[s] = pc[s]
    BY <1>1, <1>2, <1>4 DEF Insert
  <2>2. \A s \in Runs \ {r} : Success(s)' <=> Success(s)
    BY <2>1 DEF TypeOK, Success
  <2> QED BY <2>1, <2>2 DEF OnCourse, CallsLeft, SameKey
<1>5. CASE Compute(r)
  <2>1. /\ pc[r] = "compute" /\ pc'[r] = "gates" /\ UNCHANGED <<mode, conn, code, rows, disk, faults>>
        /\ \A s \in Runs \ {r} : pc'[s] = pc[s]
    BY <1>5 DEF Compute, TypeOK
  <2> QED BY <2>1 DEF OnCourse, CallsLeft, Success, SameKey
<1>6. CASE Gates(r)
  <2>1. Execute(r, rows, "write", "record") /\ pc[r] = "gates" /\ UNCHANGED <<mode, code, disk>>
    BY <1>1, <1>6 DEF Gates
  <2>2. /\ pc'[r] = "write" /\ UNCHANGED <<rows, conn, faults>>
        /\ \A s \in Runs \ {r} : pc'[s] = pc[s]
    BY <1>1, <1>2, <2>1
  <2> QED BY <2>1, <2>2 DEF OnCourse, CallsLeft, Success, SameKey
<1>7. CASE Write(r)
  <2>1. /\ pc[r] = "write" /\ pc'[r] = "writing" /\ UNCHANGED <<mode, conn, code, rows, faults>>
        /\ \A s \in Runs \ {r} : pc'[s] = pc[s]
    BY <1>7 DEF Write, TypeOK
  <2>2. {s \in Runs : pc[s] = "writing"} = {}
    BY <2>1 DEF OnCourse
  <2>3. disk' = disk
    BY <1>7, <2>2 DEF Write, Table!Begun
  <2> QED BY <2>1, <2>3 DEF OnCourse, CallsLeft, Success, SameKey
<1>8. CASE WriteMoves(r)
  <2>1. /\ pc[r] = "writing" /\ UNCHANGED <<pc, mode, conn, code, rows, faults>>
        /\ disk' \in Table!Moved(r)
    BY <1>1, <1>8 DEF WriteMoves
  <2>2. disk'.spoilt = disk.spoilt
    BY <2>1, DiskMoves
  <2>3. OnCourse(r)'
    BY <2>1, <2>2 DEF OnCourse, Success, SameKey
  <2>4. ~Step(r)
    <3>1. ~WriteEnds(r)
      BY <2>1 DEF WriteEnds, TypeOK
    <3> QED BY <2>1, <3>1 DEF Step, Decide, DecideBy, Supersede, Insert, Compute, Gates, Write, Finish, Record
  <2> QED BY <2>3, <2>4
<1>9. CASE WriteEnds(r)
  <2>1. /\ pc[r] = "writing" /\ pc'[r] = "finish" /\ UNCHANGED <<mode, conn, code, rows, faults>>
        /\ \A s \in Runs \ {r} : pc'[s] = pc[s]
        /\ disk' = Table!Returned(r)
    BY <1>1, <1>9 DEF WriteEnds, OnCourse, TypeOK
  <2>2. disk'.table = r /\ disk'.spoilt = disk.spoilt
    BY <2>1, DiskMoves DEF OnCourse
  <2> QED BY <2>1, <2>2 DEF OnCourse, CallsLeft, Success, SameKey
<1>10. CASE Finish(r)
  <2>1. pc[r] = "finish" /\ \A s \in SameKey(r) \ {r} : rows[s].status # "success"
    BY <1>10 DEF Finish, OnCourse, Success
  <2>2. Execute(r, Finished(r, "success"), "done", "record") /\ UNCHANGED <<mode, code, disk>>
    BY <1>10, <2>1 DEF Finish
  <2>3. /\ pc'[r] = "done" /\ UNCHANGED <<conn, faults>> /\ rows' = Finished(r, "success")
        /\ \A s \in Runs \ {r} : pc'[s] = pc[s]
    BY <1>1, <1>2, <2>2
  <2>4. Success(r)'
    BY <2>3 DEF Finished, TypeOK, Success
  <2> QED BY <2>1, <2>2, <2>3, <2>4 DEF OnCourse, CallsLeft
<1>11. ~Supersede(r) /\ ~Record(r)
  BY DEF Supersede, Record, OnCourse
<1> QED BY <1>3, <1>4, <1>5, <1>6, <1>7, <1>8, <1>9, <1>10, <1>11 DEF Step

\* The safety that RerunRebuilds rests on: nothing that earlier runs left behind,
\* rows, trash and what is in place, keeps the last run, once there are no more
\* failures, from completing its key.
THEOREM RerunMeetsNoObstacle ==
    Spec => RerunStaysOnCourse /\ [](\A r \in Runs : Comes(r) => OnCourse(r))
<1>1. TypeOK /\ [Next]_vars => \A r \in Runs :
         OnCourse(r) => OnCourse(r)' /\ (Step(r) => CallsLeft(r)' < CallsLeft(r))
  <2> SUFFICES ASSUME TypeOK, [Next]_vars, NEW r \in Runs, OnCourse(r)
               PROVE  OnCourse(r)' /\ (Step(r) => CallsLeft(r)' < CallsLeft(r))
    OBVIOUS
  <2>0. TypeOK' /\ \A kind : ~Fault(kind)
    BY StepType, BoundsAssumption DEF OnCourse, TypeOK
  <2>1. CASE Step(r) \/ WriteMoves(r)
    BY <2>0, <2>1, CourseKept
  <2>2. ASSUME NEW s \in Runs, s # r, Start(s) \/ Step(s) \/ WriteMoves(s) \/ Crash(s) PROVE FALSE
    <3>1. pc[s] \notin Ended
      BY <2>2 DEF Start, Step, Crash, Decide, DecideBy, Supersede, Insert, Compute, Gates, Write,
                  WriteMoves, WriteEnds, Finish, Record
    <3> QED BY <2>2, <3>1 DEF OnCourse
  <2>3. ~Start(r) /\ ~Crash(r)
    BY <2>0 DEF Start, Crash, OnCourse
  <2>4. ASSUME UNCHANGED <<pc, mode, conn, code, rows, disk, faults>>, ~Step(r)
        PROVE  OnCourse(r)' /\ (Step(r) => CallsLeft(r)' < CallsLeft(r))
    BY <2>4 DEF OnCourse, Completed, SameKey, Success
  <2> QED BY <2>1, <2>2, <2>3, <2>4 DEF Next, Settled, Ingest, Load, Register
<1>2. Init => WrittenInvariant
  BY InitType DEF Init, WrittenInvariant, SpoiltHasWritten
<1>3. WrittenInvariant => TypeOK /\ \A r \in Runs : Comes(r) => OnCourse(r)
  BY DEF WrittenInvariant, SpoiltHasWritten, Comes, OnCourse, Completed, SameKey, Success
<1> QED BY <1>1, <1>2, <1>3, StepKeepsWritten, PTL DEF Spec, RerunStaysOnCourse
=============================================================================
