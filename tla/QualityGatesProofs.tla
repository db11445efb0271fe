------------------------- MODULE QualityGatesProofs -------------------------
(***************************************************************************)
(* What run_gates promises for any frames, tables, bounds and faults.      *)
(* What a run's verdict is worth at each of its steps is one predicate     *)
(* (RunAgrees), what the versions on disk are is another (SoundDisk); only *)
(* the floor needs to know that nobody else writes.                        *)
(***************************************************************************)
EXTENDS QualityGates, FiniteSetTheorems, TLAPS

\* A verdict without a failure: what the absolute gates have ruled out.
LEMMA AllPassed ==
    ASSUME NEW f \in Frame, ~EvaluationRaises(f), NEW floor,
           \A c \in Checks : Verdict(f, floor)[c]
    PROVE  Sound(f) /\ floor
<1>1. \A c \in Checks : Passes(c, f, floor)
  BY DEF Verdict
<1>2. /\ Passes("contract", f, floor) /\ Passes("null_rate", f, floor)
      /\ Passes("primary_key", f, floor) /\ Passes("row_count", f, floor)
      /\ Passes("partition_floor", f, floor) /\ Passes("freshness", f, floor)
  BY <1>1 DEF Checks
<1>3. f.schema = "ok" /\ ~f.dirty /\ ~f.sparse /\ ~f.doubled /\ Size(f.rows) >= MinRows
  BY <1>2 DEF Passes
<1>4. floor
  BY <1>2 DEF Passes
<1>5. PICK newest \in Newest(f) : ~(newest.date <= Lower.date) /\ newest.date <= Upper.date
  BY <1>2 DEF Passes, Fresh, TextBelow
<1>6. newest.date \in Int /\ Lower.date \in Int /\ Upper.date \in Int
  <2>1. PICK d \in Partitions(f.rows) : newest = [date |-> d, time |-> f.time]
    BY <1>5 DEF Newest
  <2>2. newest.date \in Dates
    BY <2>1 DEF Partitions
  <2>3. Lower.date \in Dates /\ Upper.date \in Dates
    BY FreshnessAssumption DEF Stamp
  <2> QED BY <2>2, <2>3, DatesAssumption
<1>7. NotBefore(newest, Lower) /\ newest.date <= Upper.date
  BY <1>5, <1>6 DEF NotBefore
<1> QED
  BY <1>3, <1>4, <1>7 DEF Sound

-----------------------------------------------------------------------------
(* Types *)

LEMMA VerdictType ==
    ASSUME NEW f \in Frame, NEW floor \in BOOLEAN
    PROVE  Verdict(f, floor) \in [Checks -> BOOLEAN]
BY DEF Verdict, Passes

LEMMA FloorsType ==
    ASSUME NEW f
    PROVE  Floors(f) \subseteq BOOLEAN
<1>1. \A rows, prior : FloorKept(rows, prior) \in BOOLEAN
  BY DEF FloorKept
<1> QED BY <1>1 DEF Floors

LEMMA RowsType ==
    ASSUME NEW f \in Frames
    PROVE  f \in Frame /\ f.rows \in [Dates -> Counts]
BY FramesAssumption DEF Frame

LEMMA InitTypeOK == Init => TypeOK
BY BoundsAssumption DEF Init, TypeOK, Versions

LEMMA GotoType ==
    ASSUME TypeOK, NEW r \in Runs, NEW step \in {"idle"} \cup Steps \cup Ended, Goto(r, step)
    PROVE  pc' \in [Runs -> {"idle"} \cup Steps \cup Ended]
BY DEF TypeOK, Goto

LEMMA FaultType ==
    ASSUME TypeOK, NEW kind, Fault(kind) \/ UNCHANGED faults
    PROVE  faults' \in 0..MaxFaults
BY BoundsAssumption DEF TypeOK, Fault

\* What a write makes of the disk: before it is spoilt, in the steps of a run
\* that is not, and once it is.
Disk == [table : Versions, trash : Versions, spoilt : SUBSET Runs]

Found(r, d) ==
    /\ d \in Disk /\ disk.spoilt \subseteq d.spoilt
    /\ \/ {d.table, d.trash} \subseteq {r, disk.table, disk.trash, NoTable}
       \/ d.table = Unknown /\ d.trash = Unknown /\ d.spoilt # {}

LEMMA DiskMoves ==
    ASSUME TypeOK, NEW r \in Runs
    PROVE  /\ Found(r, Table!Begun(r)) /\ Found(r, Table!HalfDeleted(r))
           /\ Found(r, Table!Returned(r))
           /\ \A d \in Table!Moved(r) : Found(r, d)
<1>1. disk \in Disk
  BY DEF TypeOK, Disk
<1>2. ASSUME NEW S \in SUBSET Runs, S # {}
      PROVE  Found(r, Table!Spoilt(S))
  BY <1>1, <1>2 DEF Table!Spoilt, Disk, Versions, Found
<1>3. Found(r, disk)
  BY <1>1 DEF Found
<1>4. Found(r, Table!Begun(r))
  <2> DEFINE S == {s \in Runs : pc[s] = "writing"} \cup {r}
  <2>1. Table!Begun(r) = disk \/ Table!Begun(r) = Table!Spoilt(S)
    BY DEF Table!Begun
  <2>2. S \in SUBSET Runs /\ S # {}
    OBVIOUS
  <2> QED BY <1>2, <1>3, <2>1, <2>2
<1>5. Found(r, Table!HalfDeleted(r))
  BY <1>2 DEF Table!HalfDeleted
<1>6. ASSUME NEW v \in {r, disk.table, disk.trash, NoTable},
             NEW w \in {r, disk.table, disk.trash, NoTable}
      PROVE  Found(r, [table |-> v, trash |-> w, spoilt |-> disk.spoilt])
  BY <1>1 DEF Found, Disk, Versions
<1>7. Found(r, Table!Returned(r))
  BY <1>3, <1>6 DEF Table!Returned
<1>8. ASSUME NEW d \in Table!Moved(r) PROVE Found(r, d)
  BY <1>3, <1>6 DEF Table!Moved
<1> QED BY <1>4, <1>5, <1>7, <1>8

Writing(r) == Write(r) \/ WriteMoves(r) \/ WriteEnds(r)

LEMMA WriteFinds ==
    ASSUME TypeOK, NEW r \in Runs, Writing(r)
    PROVE  Found(r, disk')
<1>1. Found(r, disk)
  BY DEF TypeOK, Disk, Found
<1> QED BY <1>1, DiskMoves DEF Writing, Write, WriteMoves, WriteEnds

\* A run that is recording has results left to record.
Recording == \A r \in Runs : pc[r] = "record" => recorded[r] < 6

LEMMA StepTypeOK == TypeOK /\ Recording /\ [Next]_vars => TypeOK'
<1> SUFFICES ASSUME TypeOK, Recording, [Next]_vars PROVE TypeOK'
  OBVIOUS
<1>1. ASSUME NEW r \in Runs, Start(r) PROVE TypeOK'
  <2>1. pc' \in [Runs -> {"idle"} \cup Steps \cup Ended]
    BY <1>1, GotoType DEF Start, Steps
  <2> QED
    BY <1>1, <2>1 DEF Start, TypeOK, Versions
<1>2. ASSUME NEW r \in Runs, Evaluate(r) PROVE TypeOK'
  <2>1. pc' \in [Runs -> {"idle"} \cup Steps \cup Ended]
    BY <1>2, GotoType DEF Evaluate, Steps, Ended
  <2>2. faults' \in 0..MaxFaults
    BY <1>2, FaultType DEF Evaluate
  <2>3. frame[r] \in Frame
    BY RowsType DEF TypeOK
  <2>4. UNCHANGED verdict
        \/ \E floor \in BOOLEAN : verdict' = [verdict EXCEPT ![r] = Verdict(frame[r], floor)]
    BY <1>2, FloorsType DEF Evaluate
  <2>5. verdict' \in [Runs -> [Checks -> BOOLEAN]]
    <3>1. CASE UNCHANGED verdict
      BY <3>1 DEF TypeOK
    <3>2. ASSUME NEW floor \in BOOLEAN,
                 verdict' = [verdict EXCEPT ![r] = Verdict(frame[r], floor)]
          PROVE  verdict' \in [Runs -> [Checks -> BOOLEAN]]
      <4>1. Verdict(frame[r], floor) \in [Checks -> BOOLEAN]
        BY <2>3, VerdictType
      <4> QED BY <3>2, <4>1 DEF TypeOK
    <3> QED BY <2>4, <3>1, <3>2
  <2>6. UNCHANGED <<disk, frame, conn, recorded, lastGood>>
    BY <1>2 DEF Evaluate
  <2> QED
    BY <2>1, <2>2, <2>5, <2>6 DEF TypeOK, Versions
<1>3. ASSUME NEW r \in Runs, Record(r) PROVE TypeOK'
  <2>0. recorded[r] < 6
    BY <1>3 DEF Record, Recording
  <2>1. pc' \in [Runs -> {"idle"} \cup Steps \cup Ended]
    BY <1>3, GotoType DEF Record, Steps, Ended
  <2>2. faults' \in 0..MaxFaults
    BY <1>3, FaultType DEF Record
  <2>3. recorded' \in [Runs -> 0..6]
    BY <1>3, <2>0 DEF Record, TypeOK
  <2> QED
    BY <1>3, <2>1, <2>2, <2>3 DEF Record, TypeOK, Versions
<1>4. ASSUME NEW r \in Runs, Judge(r) PROVE TypeOK'
  <2>1. pc' \in [Runs -> {"idle"} \cup Steps \cup Ended]
    BY <1>4, GotoType DEF Judge, Steps, Ended
  <2> QED
    BY <1>4, <2>1 DEF Judge, TypeOK, Versions
<1>5. ASSUME NEW r \in Runs, Writing(r) PROVE TypeOK'
  <2>1. pc' \in [Runs -> {"idle"} \cup Steps \cup Ended]
    <3>1. Goto(r, "writing") \/ Goto(r, "done") \/ Goto(r, "error") \/ UNCHANGED pc
      BY <1>5 DEF Writing, Write, WriteMoves, WriteEnds
    <3>2. CASE UNCHANGED pc
      BY <3>2 DEF TypeOK
    <3> QED BY <3>1, <3>2, GotoType DEF Steps, Ended
  <2>2. faults' \in 0..MaxFaults
    <3>1. UNCHANGED faults \/ Fault("write") \/ Fault("delete")
      BY <1>5 DEF Writing, Write, WriteMoves, WriteEnds
    <3> QED BY <3>1, FaultType
  <2>3. disk' \in Disk
    BY <1>5, WriteFinds DEF Found
  <2>4. /\ lastGood' \in Runs \cup {NoTable}
        /\ UNCHANGED <<frame, conn, verdict, recorded>>
    BY <1>5 DEF Writing, Write, WriteMoves, WriteEnds, TypeOK
  <2> QED
    BY <2>1, <2>2, <2>3, <2>4 DEF TypeOK, Disk, Versions
<1>6. CASE UNCHANGED vars
  BY <1>6 DEF vars, TypeOK, Versions
<1> QED
  BY <1>1, <1>2, <1>3, <1>4, <1>5, <1>6 DEF Next, Step, Writing, Settled

-----------------------------------------------------------------------------
(* The audit trail and the absolute gates *)

\* What a run's verdict and records are worth at each step.
RunAgrees(r) ==
    /\ pc[r] \in {"idle", "evaluate"} => recorded[r] = 0
    /\ pc[r] = "record" => recorded[r] < 6
    /\ pc[r] \in {"judge", "refused"} /\ conn[r] => recorded[r] = 6
    /\ pc[r] = "refused" => \E c \in Checks : ~verdict[r][c]
    /\ pc[r] \in {"record", "judge"} =>
          /\ ~EvaluationRaises(frame[r])
          /\ \E floor \in BOOLEAN : verdict[r] = Verdict(frame[r], floor)
    /\ pc[r] \in {"write", "writing", "done"} => Sound(frame[r])

\* Wherever a version is, in place or aside, it is one that was gated; what is
\* Unknown is what spoilt writes left.
SoundDisk ==
    /\ \A v \in {disk.table, disk.trash} \cap Runs : Sound(frame[v])
    /\ Unknown \in {disk.table, disk.trash} => disk.spoilt # {}

GateInvariant == TypeOK /\ SoundDisk /\ \A r \in Runs : RunAgrees(r)

\* Only the run that moves has anything to show for it.
LEMMA OneMoves ==
    ASSUME GateInvariant, TypeOK', NEW r \in Runs, RunAgrees(r)', SoundDisk',
           \A s \in Runs \ {r} :
               /\ pc'[s] = pc[s] /\ frame'[s] = frame[s] /\ conn'[s] = conn[s]
               /\ verdict'[s] = verdict[s] /\ recorded'[s] = recorded[s]
    PROVE  GateInvariant'
<1>1. ASSUME NEW s \in Runs \ {r} PROVE RunAgrees(s)'
  BY <1>1 DEF GateInvariant, RunAgrees
<1> QED
  BY <1>1 DEF GateInvariant

LEMMA GateStep == GateInvariant /\ [Next]_vars => GateInvariant'
<1> SUFFICES ASSUME GateInvariant, [Next]_vars PROVE GateInvariant'
  OBVIOUS
<1>t. TypeOK' /\ TypeOK
  <2>1. Recording
    BY DEF GateInvariant, RunAgrees, Recording
  <2> QED
    BY <2>1, StepTypeOK DEF GateInvariant
<1>d. ASSUME UNCHANGED <<disk, frame>> PROVE SoundDisk'
  BY <1>d DEF GateInvariant, SoundDisk
<1>1. ASSUME NEW r \in Runs, Start(r) PROVE GateInvariant'
  <2>1. RunAgrees(r)'
    BY <1>t, <1>1 DEF Start, Goto, GateInvariant, RunAgrees, TypeOK
  <2>2. SoundDisk'
    BY <1>1, <1>d DEF Start
  <2>3. \A s \in Runs \ {r} : pc'[s] = pc[s]
    BY <1>t, <1>1 DEF Start, Goto, TypeOK
  <2> QED
    BY <1>t, <1>1, <2>1, <2>2, <2>3, OneMoves DEF Start
<1>2. ASSUME NEW r \in Runs, Evaluate(r) PROVE GateInvariant'
  <2>1. RunAgrees(r)'
    <3>1. CASE EvaluationRaises(frame[r]) /\ Goto(r, "error")
      BY <1>t, <1>2, <3>1 DEF Goto, RunAgrees, TypeOK
    <3>2. CASE /\ ~EvaluationRaises(frame[r])
               /\ Goto(r, IF conn[r] THEN "record" ELSE "judge")
               /\ \E floor \in BOOLEAN :
                     verdict' = [verdict EXCEPT ![r] = Verdict(frame[r], floor)]
      <4>1. PICK floor \in BOOLEAN :
                verdict' = [verdict EXCEPT ![r] = Verdict(frame[r], floor)]
        BY <3>2
      <4>2. verdict'[r] = Verdict(frame[r], floor)
        BY <1>t, <4>1 DEF TypeOK
      <4>3. recorded[r] = 0 /\ UNCHANGED <<recorded, conn, frame>>
        BY <1>2 DEF Evaluate, GateInvariant, RunAgrees
      <4>4. pc'[r] = (IF conn[r] THEN "record" ELSE "judge")
        BY <1>t, <3>2 DEF Goto, TypeOK
      <4>5. \E b \in BOOLEAN : verdict'[r] = Verdict(frame'[r], b)
        BY <4>2, <4>3
      <4>6. ~EvaluationRaises(frame'[r])
        BY <3>2, <4>3
      <4> QED
        BY <4>3, <4>4, <4>5, <4>6 DEF RunAgrees
    <3> QED
      BY <1>2, <3>1, <3>2, FloorsType DEF Evaluate
  <2>2. SoundDisk'
    BY <1>2, <1>d DEF Evaluate
  <2>3. \A s \in Runs \ {r} : pc'[s] = pc[s] /\ verdict'[s] = verdict[s]
    <3>1. UNCHANGED verdict
          \/ \E floor : verdict' = [verdict EXCEPT ![r] = Verdict(frame[r], floor)]
      BY <1>2 DEF Evaluate
    <3> QED BY <1>t, <1>2, <3>1 DEF Evaluate, Goto, TypeOK
  <2> QED
    BY <1>t, <1>2, <2>1, <2>2, <2>3, OneMoves DEF Evaluate
<1>3. ASSUME NEW r \in Runs, Record(r) PROVE GateInvariant'
  <2>1. RunAgrees(r)'
    <3>1. /\ recorded[r] < 6 /\ recorded[r] \in Nat /\ UNCHANGED <<frame, conn, verdict>>
          /\ ~EvaluationRaises(frame[r])
          /\ \E floor \in BOOLEAN : verdict[r] = Verdict(frame[r], floor)
      BY <1>t, <1>3 DEF Record, GateInvariant, RunAgrees, TypeOK
    <3>2. CASE /\ recorded' = [recorded EXCEPT ![r] = @ + 1]
               /\ Goto(r, IF recorded[r] + 1 = 6 THEN "judge" ELSE "record")
      <4>1. /\ recorded'[r] = recorded[r] + 1
            /\ pc'[r] = (IF recorded[r] + 1 = 6 THEN "judge" ELSE "record")
        BY <1>t, <3>2 DEF Goto, TypeOK
      <4> QED
        BY <3>1, <4>1 DEF RunAgrees
    <3>3. CASE Goto(r, "error")
      BY <1>t, <3>3 DEF Goto, RunAgrees, TypeOK
    <3> QED
      BY <1>3, <3>2, <3>3 DEF Record
  <2>2. SoundDisk'
    BY <1>3, <1>d DEF Record
  <2>3. \A s \in Runs \ {r} : pc'[s] = pc[s] /\ recorded'[s] = recorded[s]
    BY <1>t, <1>3 DEF Record, Goto, TypeOK
  <2> QED
    BY <1>t, <1>3, <2>1, <2>2, <2>3, OneMoves DEF Record
<1>4. ASSUME NEW r \in Runs, Judge(r) PROVE GateInvariant'
  <2>1. RunAgrees(r)'
    <3>1. /\ UNCHANGED <<frame, conn, verdict, recorded>>
          /\ conn[r] => recorded[r] = 6
          /\ ~EvaluationRaises(frame[r])
      BY <1>4 DEF Judge, GateInvariant, RunAgrees
    <3>2. PICK floor : verdict[r] = Verdict(frame[r], floor)
      BY <1>4 DEF Judge, GateInvariant, RunAgrees
    <3>3. pc'[r] = IF \A c \in Checks : verdict[r][c] THEN "write" ELSE "refused"
      BY <1>t, <1>4 DEF Judge, Goto, TypeOK
    <3>4. frame[r] \in Frame
      BY <1>t, RowsType DEF TypeOK
    <3>5. CASE \A c \in Checks : verdict[r][c]
      <4>1. Sound(frame[r])
        BY <3>1, <3>2, <3>4, <3>5, AllPassed
      <4> QED
        BY <3>1, <3>3, <3>5, <4>1 DEF RunAgrees
    <3>6. CASE \E c \in Checks : ~verdict[r][c]
      BY <3>1, <3>3, <3>6 DEF RunAgrees
    <3> QED
      BY <3>5, <3>6
  <2>2. SoundDisk'
    BY <1>4, <1>d DEF Judge
  <2>3. \A s \in Runs \ {r} : pc'[s] = pc[s]
    BY <1>t, <1>4 DEF Judge, Goto, TypeOK
  <2> QED
    BY <1>t, <1>4, <2>1, <2>2, <2>3, OneMoves DEF Judge
<1>5. ASSUME NEW r \in Runs, Writing(r) PROVE GateInvariant'
  <2>1. Sound(frame[r]) /\ UNCHANGED <<frame, conn, verdict, recorded>>
    BY <1>5 DEF Writing, Write, WriteMoves, WriteEnds, GateInvariant, RunAgrees
  <2>2. pc' = pc \/ \E step \in {"writing", "done", "error"} : Goto(r, step)
    BY <1>5 DEF Writing, Write, WriteMoves, WriteEnds
  <2>3. RunAgrees(r)'
    <3>1. pc'[r] \in {"writing", "done", "error"}
      BY <1>t, <1>5, <2>2 DEF Writing, Write, WriteMoves, WriteEnds, Goto, TypeOK
    <3> QED BY <2>1, <3>1 DEF RunAgrees
  <2>4. SoundDisk'
    <3>1. Found(r, disk')
      BY <1>t, <1>5, WriteFinds
    <3> QED BY <2>1, <3>1, RunsAssumption DEF Found, Disk, SoundDisk, GateInvariant
  <2>5. \A s \in Runs \ {r} : pc'[s] = pc[s]
    BY <1>t, <2>2 DEF Goto, TypeOK
  <2> QED
    BY <1>t, <2>1, <2>3, <2>4, <2>5, OneMoves
<1>6. CASE UNCHANGED vars
  BY <1>t, <1>6, <1>d DEF vars, GateInvariant, RunAgrees
<1> QED
  BY <1>1, <1>2, <1>3, <1>4, <1>5, <1>6 DEF Next, Step, Writing, Settled

LEMMA InitGates == Init => GateInvariant
BY InitTypeOK, RunsAssumption DEF Init, GateInvariant, SoundDisk, RunAgrees

\* The inductive invariant of the gates holds in every reachable state.
THEOREM GatesCorrect == Spec => []GateInvariant
BY InitGates, GateStep, PTL DEF Spec

\* Every value of every variable is of its type.
THEOREM TypeCorrect == Spec => []TypeOK
BY GatesCorrect, PTL DEF GateInvariant

LEMMA PositionBound == \A c \in Checks : Position[c] \in 1..6
<1>1. \A c \in Checks : \E i \in 1..6 : Order[i] = c
  BY DEF Checks, Order
<1> QED
  BY <1>1 DEF Position

\* A run that was refused has its failing check in quality_results.
THEOREM RefusedMeansRecorded == Spec => []RefusalsAreAudited
<1>1. GateInvariant => RefusalsAreAudited
  BY PositionBound DEF GateInvariant, RunAgrees, RefusalsAreAudited
<1> QED
  BY <1>1, GatesCorrect, PTL

\* Only sound frames are ever written, and a sound table or none is in place
\* until writers have met or a delete has failed, whatever else overlaps,
\* stops or fails.
THEOREM TablesAreSound == Spec => []OnlySoundTables
<1>1. GateInvariant => OnlySoundTables
  BY DEF GateInvariant, RunAgrees, SoundDisk, OnlySoundTables
<1> QED
  BY <1>1, GatesCorrect, PTL

-----------------------------------------------------------------------------
(* The partition floor, which reads a table that others might replace *)

\* One run at a time.
OneAtATime == MaxActive = 1

OneRun == \A r, s \in Runs : pc[r] \in Steps /\ pc[s] \in Steps => r = s

\* The floor against the last published frame.
AboveLast(r) == lastGood # NoTable => FloorKept(frame[r].rows, frame[lastGood].rows)

\* The last published frame is in place but while a run is writing, and a run's
\* verdict is one on that frame.
FloorAgrees(r) ==
    /\ pc[r] \in {"record", "judge"} =>
          \E floor \in BOOLEAN :
              verdict[r] = Verdict(frame[r], floor) /\ (floor => AboveLast(r))
    /\ pc[r] \in {"write", "writing"} => AboveLast(r)

FloorInvariant ==
    /\ GateInvariant
    /\ OneRun
    /\ (\A r \in Runs : pc[r] # "writing") => disk.table = lastGood
    /\ disk.spoilt = {}
    /\ \A r \in Runs : FloorAgrees(r)

\* The run that moves is the only one under way.
LEMMA OthersRest ==
    ASSUME FloorInvariant, GateInvariant', NEW r \in Runs, pc[r] \in Steps,
           \A s \in Runs \ {r} : pc'[s] = pc[s],
           pc'[r] # "writing" => disk'.table = lastGood', disk'.spoilt = {},
           FloorAgrees(r)'
    PROVE  FloorInvariant'
<1>1. \A s \in Runs \ {r} : pc'[s] \notin Steps
  BY DEF FloorInvariant, OneRun
<1>2. \A s \in Runs \ {r} : FloorAgrees(s)'
  BY <1>1 DEF FloorAgrees, Steps
<1> QED
  BY <1>1, <1>2 DEF FloorInvariant, OneRun

LEMMA NobodyRuns ==
    ASSUME OneAtATime, NEW r \in Runs, Start(r)
    PROVE  \A s \in Runs : pc[s] \notin Steps
<1> DEFINE Running == {s \in Runs : pc[s] \in Steps}
<1>1. IsFiniteSet(Running)
  BY RunsAssumption, FS_Subset
<1>2. Cardinality(Running) \in Nat /\ Cardinality(Running) < 1
  BY <1>1, FS_CardinalityType DEF Start, OneAtATime
<1>3. Running = {}
  BY <1>1, <1>2, FS_EmptySet
<1> QED
  BY <1>3

\* Faults are only counted up: none so far, none in this step.
LEMMA NoFaultYet ==
    ASSUME GateInvariant, [Next]_vars, faults' = 0
    PROVE  faults = 0 /\ \A kind \in {"read", "record", "write", "delete"} : ~Fault(kind)
<1>1. faults \in Nat
  BY BoundsAssumption DEF GateInvariant, TypeOK
<1>2. \A kind \in {"read", "record", "write", "delete"} : Fault(kind) => faults' = faults + 1
  BY DEF Fault
<1>3. faults' = faults \/ faults' = faults + 1
  BY <1>2 DEF Next, Step, Start, Evaluate, Record, Judge, Write, WriteMoves, WriteEnds,
              Settled, vars
<1> QED
  BY <1>1, <1>2, <1>3

LEMMA FloorStep ==
    OneAtATime /\ FloorInvariant /\ [Next]_vars /\ faults' = 0 => FloorInvariant'
<1> SUFFICES ASSUME OneAtATime, FloorInvariant, [Next]_vars, faults' = 0
             PROVE  FloorInvariant'
  OBVIOUS
<1>g. GateInvariant' /\ TypeOK
  BY GateStep DEF FloorInvariant, GateInvariant
<1>f. ~Fault("read") /\ ~Fault("write") /\ ~Fault("delete")
  BY NoFaultYet DEF FloorInvariant
<1>o. ASSUME NEW r \in Runs, pc[r] \in Steps PROVE \A s \in Runs \ {r} : pc[s] \notin Steps
  BY <1>o DEF FloorInvariant, OneRun
<1>p. ASSUME NEW r \in Runs, pc[r] \in Steps \ {"writing"} PROVE disk.table = lastGood
  BY <1>o, <1>p DEF FloorInvariant, Steps
<1>1. ASSUME NEW r \in Runs, Start(r) PROVE FloorInvariant'
  <2>1. pc'[r] = "evaluate" /\ \A s \in Runs \ {r} : pc'[s] = pc[s]
    BY <1>g, <1>1 DEF Start, Goto, TypeOK
  <2>2. \A s \in Runs : pc[s] \notin Steps
    BY <1>1, NobodyRuns
  <2>3. \A s \in Runs : FloorAgrees(s)'
    BY <2>1, <2>2 DEF FloorAgrees, Steps
  <2>4. disk.table = lastGood
    BY <2>2 DEF FloorInvariant, Steps
  <2> QED
    BY <1>g, <1>1, <2>1, <2>2, <2>3, <2>4 DEF Start, FloorInvariant, OneRun
<1>2. ASSUME NEW r \in Runs, Evaluate(r) PROVE FloorInvariant'
  <2>0. pc[r] \in Steps \ {"writing"}
    BY <1>2 DEF Evaluate, Steps
  <2>1. disk'.table = lastGood' /\ disk'.spoilt = {}
    BY <1>2, <1>p, <2>0 DEF Evaluate, FloorInvariant
  <2>2. CASE EvaluationRaises(frame[r]) /\ Goto(r, "error")
    <3>1. pc'[r] = "error" /\ \A s \in Runs \ {r} : pc'[s] = pc[s]
      BY <1>g, <2>2 DEF Goto, TypeOK
    <3> QED
      BY <1>g, <2>0, <2>1, <3>1, OthersRest DEF FloorAgrees
  <2>3. CASE /\ \E floor \in Floors(frame[r]) :
                    verdict' = [verdict EXCEPT ![r] = Verdict(frame[r], floor)]
             /\ Goto(r, IF conn[r] THEN "record" ELSE "judge")
    <3>1. PICK floor \in Floors(frame[r]) :
              verdict' = [verdict EXCEPT ![r] = Verdict(frame[r], floor)]
      BY <2>3
    <3>2. /\ pc'[r] \in {"record", "judge"} /\ \A s \in Runs \ {r} : pc'[s] = pc[s]
          /\ verdict'[r] = Verdict(frame[r], floor)
      BY <1>g, <2>3, <3>1 DEF Goto, TypeOK
    <3>3. UNCHANGED <<frame, lastGood>> /\ floor \in BOOLEAN
      BY <1>2, FloorsType DEF Evaluate
    <3>4. floor => AboveLast(r)
      <4>1. disk.table = lastGood
        BY <1>p, <2>0
      <4>2. lastGood \in Runs => floor = FloorKept(frame[r].rows, frame[lastGood].rows)
        BY <3>1, <4>1, RunsAssumption DEF Floors
      <4> QED BY <4>2, <1>g DEF AboveLast, TypeOK
    <3>5. AboveLast(r)' = AboveLast(r)
      BY <3>3 DEF AboveLast
    <3>6. verdict'[r] = Verdict(frame'[r], floor)
      BY <3>2, <3>3
    <3>7. FloorAgrees(r)'
      BY <3>2, <3>3, <3>4, <3>5, <3>6 DEF FloorAgrees
    <3> QED
      BY <1>g, <2>0, <2>1, <3>2, <3>7, OthersRest
  <2> QED
    BY <1>2, <1>f, <2>2, <2>3 DEF Evaluate
<1>3. ASSUME NEW r \in Runs, Record(r) PROVE FloorInvariant'
  <2>0. pc[r] \in Steps \ {"writing"}
    BY <1>3 DEF Record, Steps
  <2>1. disk'.table = lastGood' /\ disk'.spoilt = {}
    BY <1>3, <1>p, <2>0 DEF Record, FloorInvariant
  <2>2. pc'[r] \in {"record", "judge", "error"} /\ \A s \in Runs \ {r} : pc'[s] = pc[s]
    BY <1>g, <1>3 DEF Record, Goto, TypeOK
  <2>3. UNCHANGED <<frame, lastGood, verdict>>
    BY <1>3 DEF Record
  <2>4. \E floor \in BOOLEAN : verdict[r] = Verdict(frame[r], floor) /\ (floor => AboveLast(r))
    BY <1>3 DEF Record, FloorInvariant, FloorAgrees
  <2>5. FloorAgrees(r)'
    BY <2>2, <2>3, <2>4 DEF FloorAgrees, AboveLast
  <2> QED
    BY <1>g, <2>0, <2>1, <2>2, <2>5, OthersRest
<1>4. ASSUME NEW r \in Runs, Judge(r) PROVE FloorInvariant'
  <2>0. pc[r] \in Steps \ {"writing"}
    BY <1>4 DEF Judge, Steps
  <2>1. disk'.table = lastGood' /\ disk'.spoilt = {}
    BY <1>4, <1>p, <2>0 DEF Judge, FloorInvariant
  <2>2. /\ pc'[r] = (IF \A c \in Checks : verdict[r][c] THEN "write" ELSE "refused")
        /\ \A s \in Runs \ {r} : pc'[s] = pc[s]
    BY <1>g, <1>4 DEF Judge, Goto, TypeOK
  <2>3. PICK floor \in BOOLEAN :
            verdict[r] = Verdict(frame[r], floor) /\ (floor => AboveLast(r))
    BY <1>4 DEF Judge, FloorInvariant, FloorAgrees
  <2>4. ~EvaluationRaises(frame[r]) /\ frame[r] \in Frame
    BY <1>4, RowsType DEF Judge, FloorInvariant, GateInvariant, RunAgrees, TypeOK
  <2>5. (\A c \in Checks : verdict[r][c]) => AboveLast(r)
    BY <2>3, <2>4, AllPassed
  <2>6. UNCHANGED <<frame, lastGood>>
    BY <1>4 DEF Judge
  <2>7. AboveLast(r)' = AboveLast(r)
    BY <2>6 DEF AboveLast
  <2>8. FloorAgrees(r)'
    BY <2>2, <2>5, <2>7 DEF FloorAgrees
  <2> QED
    BY <1>g, <2>0, <2>1, <2>2, <2>8, OthersRest
<1>5. ASSUME NEW r \in Runs, Write(r) PROVE FloorInvariant'
  <2>1. pc'[r] = "writing" /\ \A s \in Runs \ {r} : pc'[s] = pc[s]
    BY <1>g, <1>5 DEF Write, Goto, TypeOK
  <2>2. pc[r] \in Steps
    BY <1>5 DEF Write, Steps
  <2>3. {s \in Runs : pc[s] = "writing"} = {}
    BY <1>o, <2>2, <1>5 DEF Write, Steps
  <2>4. disk' = disk
    BY <1>5, <2>3 DEF Write, Table!Begun
  <2>5. FloorAgrees(r)'
    BY <1>5, <2>1 DEF Write, FloorInvariant, FloorAgrees, AboveLast
  <2> QED
    BY <1>g, <2>1, <2>2, <2>4, <2>5, OthersRest DEF FloorInvariant
<1>6. ASSUME NEW r \in Runs, WriteMoves(r) PROVE FloorInvariant'
  <2>1. pc' = pc /\ pc[r] = "writing" /\ UNCHANGED <<frame, lastGood>>
    BY <1>6 DEF WriteMoves
  <2>2. disk'.spoilt = {}
    BY <1>6, <1>f DEF WriteMoves, Table!Moved, FloorInvariant
  <2>3. FloorAgrees(r)'
    BY <2>1 DEF FloorInvariant, FloorAgrees, AboveLast
  <2> QED
    BY <1>g, <2>1, <2>2, <2>3, OthersRest DEF Steps
<1>7. ASSUME NEW r \in Runs, WriteEnds(r) PROVE FloorInvariant'
  <2>1. /\ Goto(r, "done") /\ disk' = Table!Returned(r) /\ lastGood' = r /\ pc[r] = "writing"
    BY <1>7, <1>f DEF WriteEnds, FloorInvariant
  <2>2. pc'[r] = "done" /\ \A s \in Runs \ {r} : pc'[s] = pc[s]
    BY <1>g, <2>1 DEF Goto, TypeOK
  <2>3. disk'.table = r /\ disk'.spoilt = {}
    BY <2>1 DEF Table!Returned, FloorInvariant
  <2> QED
    BY <1>g, <2>1, <2>2, <2>3, OthersRest DEF Steps, FloorAgrees
<1>8. CASE UNCHANGED vars
  BY <1>g, <1>8 DEF vars, FloorInvariant, OneRun, FloorAgrees, AboveLast
<1> QED
  BY <1>1, <1>2, <1>3, <1>4, <1>5, <1>6, <1>7, <1>8 DEF Next, Step, Settled

LEMMA FloorAction ==
    (faults = 0 => FloorInvariant) /\ [Next]_vars
    => [faults = 0 /\ lastGood' # lastGood /\ lastGood # NoTable
        => FloorKept(frame[lastGood'].rows, frame[lastGood].rows)]_vars
<1> SUFFICES ASSUME faults = 0, FloorInvariant, Next,
                    lastGood' # lastGood, lastGood # NoTable
             PROVE  FloorKept(frame[lastGood'].rows, frame[lastGood].rows)
  BY DEF vars
<1>1. PICK r \in Runs : WriteEnds(r) /\ lastGood' = r
  BY DEF Next, Step, Start, Evaluate, Record, Judge, Write, WriteMoves, WriteEnds, Settled, vars
<1> QED
  BY <1>1 DEF WriteEnds, FloorInvariant, FloorAgrees, AboveLast

\* From one published table to the next, for any frames and any number of runs
\* one after another, the partitions both have keep the floor until a fault.
THEOREM FloorIsKept == ASSUME OneAtATime PROVE Spec => SharedPartitionsKeepFloor
<1> DEFINE Inv == GateInvariant /\ (faults = 0 => FloorInvariant)
<1>1. Init => Inv
  BY InitGates DEF Init, FloorInvariant, OneRun, FloorAgrees, Steps
<1>2. Inv /\ [Next]_vars => Inv'
  <2> SUFFICES ASSUME Inv, [Next]_vars PROVE Inv'
    OBVIOUS
  <2>1. GateInvariant'
    BY GateStep
  <2>2. ASSUME faults' = 0 PROVE FloorInvariant'
    BY <2>2, NoFaultYet, FloorStep
  <2> QED
    BY <2>1, <2>2
<1>3. Inv /\ [Next]_vars
      => [faults = 0 /\ lastGood' # lastGood /\ lastGood # NoTable
          => FloorKept(frame[lastGood'].rows, frame[lastGood].rows)]_vars
  BY FloorAction
<1> QED
  BY <1>1, <1>2, <1>3, PTL DEF Spec, SharedPartitionsKeepFloor
=============================================================================
