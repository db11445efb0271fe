-------------------------- MODULE AtomicTableProofs --------------------------
(***************************************************************************)
(* Theorems of AtomicTable, for every set of jobs and of partitions, any   *)
(* number of attempts, faults and crashes: that it implements TableWrite,  *)
(* whatever overlaps and whichever deletes go wrong; for a sole writer     *)
(* whose deletes are all or nothing its safety, and that it implements     *)
(* TableSwap; and the safety that the liveness properties rest on.         *)
(***************************************************************************)
EXTENDS AtomicTable, FiniteSetTheorems, TLAPS

USE DEF Phases, Ended, Goto, Works, GoesWrong, Full, Versions, Absent, Table,
        vars, jobVars, diskVars, trust

-----------------------------------------------------------------------------
(* Directories *)

\* The directories the writer builds are directories.
LEMMA DirectoryFacts ==
    /\ Absent \in Directory
    /\ [Absent EXCEPT !.exists = TRUE] \in Directory
    /\ \A v \in Versions : Table(v) \in Directory
BY DEF Directory

\* A directory stays one with other files, and with a marker.
LEMMA DirectoryUpdates ==
    ASSUME NEW d \in Directory, NEW F \in SUBSET (Versions \X Parts)
    PROVE  /\ d.exists \in BOOLEAN
           /\ d.files \in SUBSET (Versions \X Parts)
           /\ [d EXCEPT !.files = F] \in Directory
           /\ Marked(d) \in Directory
BY DEF Directory, Marked

\* rename, nesting or not, makes a directory of two directories.
LEMMA RenamedType ==
    ASSUME NEW src \in Directory, NEW dst \in Directory
    PROVE  Renamed(src, dst) \in Directory
<1> DEFINE F == dst.files \cup src.files
<1>1. F \in SUBSET (Versions \X Parts)
  BY DEF Directory
<1>2. [dst EXCEPT !.files = F] \in Directory
  BY <1>1, DirectoryUpdates
<1> QED BY <1>2 DEF Renamed

\* A delete leaves a directory behind it and sends the job to one of the two
\* places its caller names.
LEMMA DeleteType ==
    ASSUME NEW j \in Jobs, NEW dir \in Directory, NEW left,
           NEW returns \in Phases, NEW raises \in Phases, TypeOK,
           Delete(j, dir, left, returns, raises)
    PROVE  /\ left \in Directory
           /\ pc' \in [Jobs -> Phases]
           /\ faults' \in 0..MaxFaults
           /\ spoilt' \subseteq Jobs /\ known' \in BOOLEAN
<1>1. left \in Directory
  <2>1. ASSUME NEW kept \in SUBSET dir.files, left = [dir EXCEPT !.files = kept]
        PROVE  left \in Directory
    <3>1. kept \in SUBSET (Versions \X Parts)
      BY DEF Directory
    <3> QED BY <2>1, <3>1, DirectoryUpdates
  <2>2. CASE left = Absent \/ left = dir
    BY <2>2, DirectoryFacts
  <2> QED BY <2>1, <2>2 DEF Delete
<1>2. pc' \in [Jobs -> Phases]
  BY DEF Delete, TypeOK
<1>3. faults' \in 0..MaxFaults
  BY BoundsAssumption DEF Delete, TypeOK
<1>4. spoilt' \subseteq Jobs /\ known' \in BOOLEAN
  BY DEF Delete, Spoil, TypeOK
<1> QED BY <1>1, <1>2, <1>3, <1>4

-----------------------------------------------------------------------------
(* Types *)

\* Every call keeps the state well typed, whatever fails.
LEMMA StepType == TypeOK /\ [Next]_vars => TypeOK'
<1> SUFFICES ASSUME TypeOK, [Next]_vars PROVE TypeOK'
  OBVIOUS
<1> USE DEF TypeOK
<1>1. ASSUME NEW j \in Jobs, Start(j) PROVE TypeOK'
  <2>1. spoilt' \subseteq Jobs /\ known' \in BOOLEAN
    BY <1>1 DEF Start, Spoil
  <2> QED BY <1>1, <2>1 DEF Start
<1>2. ASSUME NEW j \in Jobs, Clean(j) PROVE TypeOK'
  BY <1>2 DEF Clean
<1>22. ASSUME NEW j \in Jobs, CleanOne(j) PROVE TypeOK'
  <2>1. /\ staging' \in [Jobs -> Directory] /\ stale' \in [Jobs -> SUBSET Jobs]
        /\ pc' \in [Jobs -> Phases] /\ faults' \in 0..MaxFaults
        /\ spoilt' \subseteq Jobs /\ known' \in BOOLEAN
    <3>1. CASE stale[j] = {} /\ Goto(j, "begin") /\ UNCHANGED <<stale, staging, trust, faults>>
      BY <3>1
    <3>2. ASSUME NEW i \in stale[j], NEW left, Delete(j, staging[i], left, "stale", "raised"),
                 staging' = [staging EXCEPT ![i] = left],
                 stale' = [stale EXCEPT ![j] = @ \ {i}]
          PROVE  /\ staging' \in [Jobs -> Directory] /\ stale' \in [Jobs -> SUBSET Jobs]
                 /\ pc' \in [Jobs -> Phases] /\ faults' \in 0..MaxFaults
                 /\ spoilt' \subseteq Jobs /\ known' \in BOOLEAN
      <4>1. staging[i] \in Directory
        OBVIOUS
      <4>2. /\ left \in Directory /\ pc' \in [Jobs -> Phases] /\ faults' \in 0..MaxFaults
            /\ spoilt' \subseteq Jobs /\ known' \in BOOLEAN
        BY <3>2, <4>1, DeleteType
      <4> QED BY <3>2, <4>2
    <3> QED BY <1>22, <3>1, <3>2 DEF CleanOne
  <2> QED BY <1>22, <2>1 DEF CleanOne
<1>3. ASSUME NEW j \in Jobs, BeginWrite(j) PROVE TypeOK'
  <2>1. staging' \in [Jobs -> Directory]
    BY <1>3, DirectoryFacts DEF BeginWrite
  <2>2. pc' \in [Jobs -> Phases] /\ written' \in [Jobs -> SUBSET Parts]
    BY <1>3 DEF BeginWrite
  <2> QED BY <1>3, <2>1, <2>2 DEF BeginWrite
<1>4. ASSUME NEW j \in Jobs, NEW p \in Parts, WritePart(j, p) PROVE TypeOK'
  <2>1. staging' \in [Jobs -> Directory]
    <3> DEFINE F == staging[j].files \cup {<<j, p>>}
    <3>1. staging[j] \in Directory /\ <<j, p>> \in Versions \X Parts
      OBVIOUS
    <3>2. F \in SUBSET (Versions \X Parts)
      BY <3>1 DEF Directory
    <3>3. [exists |-> TRUE, files |-> F, marker |-> staging[j].marker] \in Directory
      BY <3>1, <3>2 DEF Directory
    <3> QED BY <1>4, <3>3 DEF WritePart
  <2>2. written' \in [Jobs -> SUBSET Parts]
    BY <1>4 DEF WritePart
  <2> QED BY <1>4, <2>1, <2>2 DEF WritePart
<1>5. ASSUME NEW j \in Jobs, CommitWrite(j) PROVE TypeOK'
  <2>1. staging' \in [Jobs -> Directory]
    <3>1. Marked(staging[j]) \in Directory
      BY DirectoryUpdates
    <3> QED BY <1>5, <3>1 DEF CommitWrite
  <2> QED BY <1>5, <2>1 DEF CommitWrite
<1>6. ASSUME NEW j \in Jobs, Check(j) PROVE TypeOK'
  <2>1. final.exists \in BOOLEAN
    BY DirectoryUpdates
  <2>2. had' \in [Jobs -> BOOLEAN]
    BY <1>6, <2>1 DEF Check
  <2>3. before' \in [Jobs -> Directory]
    BY <1>6 DEF Check
  <2>4. pc' \in [Jobs -> Phases]
    BY <1>6 DEF Check
  <2> QED BY <1>6, <2>2, <2>3, <2>4 DEF Check
<1>7. ASSUME NEW j \in Jobs, DropOldTrash(j) PROVE TypeOK'
  BY <1>7, DeleteType DEF DropOldTrash
<1>8. ASSUME NEW j \in Jobs, MoveAside(j) PROVE TypeOK'
  <2>1. Renamed(final, trash) \in Directory
    BY RenamedType
  <2>2. final' \in Directory /\ trash' \in Directory
    BY <1>8, <2>1, DirectoryFacts DEF MoveAside
  <2>3. pc' \in [Jobs -> Phases]
    <3>1. Goto(j, "promote") \/ Goto(j, "rollback")
      BY <1>8 DEF MoveAside
    <3> QED BY <3>1
  <2>4. UNCHANGED <<attempt, stale, had, written, staging, good, before, trust, faults, crashes>>
    BY <1>8 DEF MoveAside
  <2>5. /\ attempt' \in [Jobs -> 1..Attempts] /\ stale' \in [Jobs -> SUBSET Jobs]
        /\ had' \in [Jobs -> BOOLEAN] /\ written' \in [Jobs -> SUBSET Parts]
        /\ staging' \in [Jobs -> Directory] /\ before' \in [Jobs -> Directory]
    BY <2>4
  <2>6. /\ good' \subseteq Versions /\ spoilt' \subseteq Jobs /\ known' \in BOOLEAN
        /\ faults' \in 0..MaxFaults /\ crashes' \in 0..MaxCrashes
    BY <2>4 DEF trust
  <2> QED BY <2>2, <2>3, <2>5, <2>6
<1>9. ASSUME NEW j \in Jobs, Promote(j) PROVE TypeOK'
  <2>1. Renamed(staging[j], final) \in Directory
    BY RenamedType
  <2> QED BY <1>9, <2>1, DirectoryFacts DEF Promote
<1>10. ASSUME NEW j \in Jobs, Mark(j) PROVE TypeOK'
  <2>1. final' \in Directory
    BY <1>10, DirectoryUpdates DEF Mark
  <2> QED BY <1>10, <2>1 DEF Mark
<1>11. ASSUME NEW j \in Jobs, DropTrash(j) PROVE TypeOK'
  BY <1>11, DeleteType DEF DropTrash
<1>12. ASSUME NEW j \in Jobs, CleanRoot(j) PROVE TypeOK'
  BY <1>12 DEF CleanRoot, Acknowledge
<1>13. ASSUME NEW j \in Jobs, RemoveRoot(j) PROVE TypeOK'
  BY <1>13, DirectoryFacts DEF RemoveRoot, Acknowledge
<1>14. ASSUME NEW j \in Jobs, Rollback(j) PROVE TypeOK'
  BY <1>14 DEF Rollback
<1>15. ASSUME NEW j \in Jobs, RollbackDelete(j) PROVE TypeOK'
  BY <1>15, DeleteType DEF RollbackDelete
<1>16. ASSUME NEW j \in Jobs, RollbackRename(j) PROVE TypeOK'
  <2>1. Renamed(trash, final) \in Directory
    BY RenamedType
  <2> QED BY <1>16, <2>1, DirectoryFacts DEF RollbackRename
<1>17. ASSUME NEW j \in Jobs, CallRaises(j) PROVE TypeOK'
  <2>1. pc' \in [Jobs -> Phases] /\ faults' \in 0..MaxFaults
    BY <1>17, BoundsAssumption DEF CallRaises
  <2>2. good' \subseteq Versions /\ spoilt' \subseteq Jobs /\ known' \in BOOLEAN
    <3>1. CASE Acknowledge(j)
      BY <3>1 DEF Acknowledge
    <3>2. CASE UNCHANGED <<good, trust>>
      BY <3>2
    <3> QED BY <1>17, <3>1, <3>2 DEF CallRaises
  <2> QED BY <1>17, <2>1, <2>2 DEF CallRaises
<1>18. ASSUME NEW j \in Jobs, Retry(j) PROVE TypeOK'
  BY <1>18, AttemptsAssumption DEF Retry
<1>19. ASSUME NEW j \in Jobs, GiveUp(j) PROVE TypeOK'
  BY <1>19 DEF GiveUp
<1>20. ASSUME NEW j \in Jobs, Crash(j) PROVE TypeOK'
  BY <1>20, BoundsAssumption DEF Crash
<1>21. CASE UNCHANGED vars
  BY <1>21
<1> QED
  BY <1>1, <1>2, <1>3, <1>4, <1>5, <1>6, <1>7, <1>8, <1>9, <1>10, <1>11, <1>12,
     <1>13, <1>14, <1>15, <1>16, <1>17, <1>18, <1>19, <1>20, <1>21, <1>22
  DEF Next, Step, Finished

\* The initial states are well typed.
LEMMA InitType == Init => TypeOK
<1> SUFFICES ASSUME Init PROVE TypeOK
  OBVIOUS
<1>1. Absent \in Directory /\ Table(Seed) \in Directory
  BY DirectoryFacts
<1>2. attempt \in [Jobs -> 1..Attempts] /\ faults \in 0..MaxFaults /\ crashes \in 0..MaxCrashes
  BY BoundsAssumption, AttemptsAssumption DEF Init
<1>3. final \in Directory /\ good \subseteq Versions
  BY <1>1 DEF Init
<1> USE DEF Init
<1>4. /\ pc \in [Jobs -> Phases]
      /\ had \in [Jobs -> BOOLEAN]
      /\ written \in [Jobs -> SUBSET Parts]
      /\ stale \in [Jobs -> SUBSET Jobs]
      /\ spoilt \subseteq Jobs /\ known \in BOOLEAN
  OBVIOUS
<1>5. staging \in [Jobs -> Directory] /\ before \in [Jobs -> Directory] /\ trash \in Directory
  BY <1>1
<1> QED BY <1>2, <1>3, <1>4, <1>5 DEF TypeOK

\* Every reachable state is well typed, for any mixture of overlapping jobs,
\* delete faults, failed calls and crashes.
THEOREM TypeCorrect == Spec => []TypeOK
BY InitType, StepType, PTL DEF Spec

-----------------------------------------------------------------------------
(* Safety of a writer that is alone, on a file system whose deletes are    *)
(* all or nothing.                                                         *)

SoleWriter == MaxActive = 1 /\ DeleteFaults \subseteq {"raise"}

Copies ==
    /\ NeverMixed
    /\ Durable
    /\ final.exists \/ final = Absent
    /\ trash.exists => CompleteAndGood(trash)

WriterInvariant == TypeOK /\ Copies /\ DiskInvariant

\* Such a delete empties the directory and returns, or leaves it and raises.
LEMMA DeleteCleanly ==
    ASSUME SoleWriter, NEW j, NEW dir, NEW left, NEW returns, NEW raises,
           Delete(j, dir, left, returns, raises)
    PROVE  \/ left = Absent /\ Goto(j, returns)
           \/ left = dir /\ Goto(j, raises)
BY DEF Delete, SoleWriter

\* A step of the one active job moves no other job, so what the disk owes the
\* others, which are not running, is kept.
LEMMA OneMoves ==
    ASSUME WriterInvariant, TypeOK', NEW j \in Jobs, Active(j),
           NEW phase \in Phases, Goto(j, phase), Copies', DiskAgrees(j)'
    PROVE  WriterInvariant'
<1>1. ASSUME NEW i \in Jobs, i # j PROVE ~Active(i) /\ pc'[i] = pc[i]
  BY <1>1 DEF WriterInvariant, DiskInvariant, OneActive, TypeOK
<1>2. OneActive'
  BY <1>1 DEF OneActive, Active
<1>3. ASSUME NEW i \in Jobs, i # j PROVE DiskAgrees(i)'
  <2>1. pc'[i] \in {"idle", "done", "failed", "crashed"}
    BY <1>1, <1>3 DEF Active
  <2> QED BY <2>1 DEF DiskAgrees
<1> QED BY <1>2, <1>3 DEF WriterInvariant, DiskInvariant, Copies

\* A job starts only when no other is active.
LEMMA StartsAlone ==
    ASSUME SoleWriter, WriterInvariant, TypeOK', NEW j \in Jobs, Start(j)
    PROVE  WriterInvariant'
<1> DEFINE Running == {i \in Jobs : Active(i)}
<1>1. \A i \in Jobs : ~Active(i)
  <2>1. IsFiniteSet(Running)
    BY JobsAssumption, FS_Subset
  <2>2. Cardinality(Running) \in Nat /\ Cardinality(Running) < 1
    BY <2>1, FS_CardinalityType DEF Start, SoleWriter
  <2>3. Running = {}
    BY <2>1, <2>2, FS_EmptySet
  <2> QED BY <2>3
<1>2. \A i \in Jobs : pc'[i] # pc[i] => i = j /\ pc'[i] = "clean"
  BY DEF Start, WriterInvariant, TypeOK
<1>3. OneActive'
  BY <1>1, <1>2 DEF OneActive, Active
<1>4. ASSUME NEW i \in Jobs PROVE DiskAgrees(i)'
  <2>1. pc'[i] \in {"clean", "idle", "done", "failed", "crashed"}
    BY <1>1, <1>2 DEF Active, WriterInvariant, TypeOK
  <2> QED BY <2>1 DEF DiskAgrees
<1>5. Copies' /\ (trash.exists => CompleteAndGood(trash))'
  BY DEF Start, WriterInvariant, Copies, NeverMixed, Durable, CompleteAndGood
<1> QED BY <1>3, <1>4, <1>5 DEF WriterInvariant, DiskInvariant, Copies

\* The staged write touches neither the table nor the trash.
LEMMA WritingKeepsInvariant ==
    ASSUME SoleWriter, WriterInvariant, TypeOK', NEW j \in Jobs,
           \/ Clean(j) \/ CleanOne(j) \/ BeginWrite(j) \/ CommitWrite(j)
           \/ \E p \in Parts : WritePart(j, p)
    PROVE  WriterInvariant'
<1> USE DEF WriterInvariant, DiskInvariant
<1>1. Copies'
  BY DEF Clean, CleanOne, BeginWrite, CommitWrite, WritePart, Copies, NeverMixed, Durable,
         CompleteAndGood
<1>2. CASE Clean(j)
  <2>1. DiskAgrees(j)'
    BY <1>2 DEF Clean, DiskAgrees, TypeOK
  <2>2. Active(j) /\ \E phase \in Phases : Goto(j, phase)
    BY <1>2 DEF Clean, Active
  <2> QED BY <1>1, <2>1, <2>2, OneMoves
<1>6. CASE CleanOne(j)
  <2>1. CASE stale[j] = {} /\ Goto(j, "begin") /\ UNCHANGED staging
    <3>1. DiskAgrees(j)'
      BY <1>6, <2>1 DEF CleanOne, DiskAgrees, TypeOK
    <3>2. Active(j)
      BY <1>6 DEF CleanOne, Active
    <3> QED BY <1>1, <2>1, <3>1, <3>2, OneMoves
  <2>2. ASSUME NEW i \in stale[j], NEW left, Delete(j, staging[i], left, "stale", "raised"),
               staging' = [staging EXCEPT ![i] = left],
               stale' = [stale EXCEPT ![j] = @ \ {i}]
        PROVE  WriterInvariant'
    <3>1. (left = Absent /\ Goto(j, "stale")) \/ (left = staging[i] /\ Goto(j, "raised"))
      BY <2>2 DEF Delete, SoleWriter
    <3>2. DiskAgrees(j)'
      <4>1. CASE Goto(j, "raised")
        BY <4>1 DEF DiskAgrees, TypeOK
      <4>2. CASE left = Absent /\ Goto(j, "stale")
        <5>1. \A k \in Jobs \ {j} : staging[k].exists => k \in stale[j]
          BY <1>6 DEF CleanOne, DiskAgrees
        <5>2. \A k \in Jobs \ {j} : staging'[k].exists => k \in stale'[j]
          BY <2>2, <4>2, <5>1 DEF TypeOK
        <5>3. pc'[j] = "stale"
          BY <4>2 DEF TypeOK
        <5> QED BY <5>2, <5>3 DEF DiskAgrees
      <4> QED BY <3>1, <4>1, <4>2
    <3>3. Active(j)
      BY <1>6 DEF CleanOne, Active
    <3>4. PICK phase \in Phases : Goto(j, phase)
      BY <3>1
    <3> QED BY <1>1, <3>2, <3>3, <3>4, OneMoves
  <2> QED BY <1>6, <2>1, <2>2 DEF CleanOne
<1>3. CASE BeginWrite(j)
  <2>1. DiskAgrees(j)'
    BY <1>3 DEF BeginWrite, DiskAgrees, TypeOK
  <2>2. Active(j) /\ Goto(j, "tasks")
    BY <1>3 DEF BeginWrite, Active
  <2> QED BY <1>1, <2>1, <2>2, OneMoves
<1>4. CASE CommitWrite(j)
  <2>1. staging[j].exists => Marked(staging[j]) = Table(j)
    BY <1>4 DEF CommitWrite, DiskAgrees, Marked
  <2>2. DiskAgrees(j)'
    BY <1>4, <2>1 DEF CommitWrite, DiskAgrees, TypeOK
  <2>3. Active(j) /\ \E phase \in Phases : Goto(j, phase)
    BY <1>4 DEF CommitWrite, Active
  <2> QED BY <1>1, <2>2, <2>3, OneMoves
<1>5. ASSUME NEW p \in Parts, WritePart(j, p) PROVE WriterInvariant'
  <2>1. DiskAgrees(j)'
    <3>1. staging'[j].files = {j} \X written[j] \cup {<<j, p>>}
      BY <1>5 DEF WritePart, DiskAgrees, TypeOK
    <3>2. staging'[j].files = {j} \X written'[j]
      BY <1>5, <3>1 DEF WritePart, TypeOK
    <3>3. staging'[j].exists /\ \A i \in Jobs \ {j} : staging'[i] = staging[i]
      BY <1>5 DEF WritePart, TypeOK
    <3> QED BY <1>5, <3>2, <3>3 DEF WritePart, DiskAgrees
  <2>2. Active(j) /\ Goto(j, "tasks")
    BY <1>5 DEF WritePart, Active, TypeOK
  <2> QED BY <1>1, <2>1, <2>2, OneMoves
<1> QED BY <1>2, <1>3, <1>4, <1>5, <1>6

\* promote_staged: between moving the old table aside and putting the new one
\* in place the old one is whole in the trash, and the trash goes only when
\* the new one is whole in place.
LEMMA PromotingKeepsInvariant ==
    ASSUME SoleWriter, WriterInvariant, TypeOK', NEW j \in Jobs,
           \/ Check(j) \/ DropOldTrash(j) \/ MoveAside(j) \/ Promote(j)
           \/ Mark(j) \/ DropTrash(j) \/ CleanRoot(j) \/ RemoveRoot(j)
    PROVE  WriterInvariant'
<1> USE DEF WriterInvariant, DiskInvariant
<1>0. DiskAgrees(j) /\ pc[j] \in Phases
  BY DEF TypeOK
<1>1. CASE Check(j)
  <2>1. Copies'
    BY <1>1 DEF Check, Copies, NeverMixed, Durable, CompleteAndGood
  <2>2. DiskAgrees(j)'
    <3>1. final.exists \/ final = Absent
      BY DEF Copies
    <3>2. CASE staging[j].exists /\ final.exists
      BY <1>0, <1>1, <3>2 DEF Check, DiskAgrees, TypeOK
    <3>3. CASE ~final.exists \/ ~staging[j].exists
      BY <1>0, <1>1, <3>1, <3>3 DEF Check, DiskAgrees, TypeOK
    <3> QED BY <3>2, <3>3
  <2>3. Active(j) /\ \E phase \in Phases : Goto(j, phase)
    BY <1>1 DEF Check, Active
  <2> QED BY <2>1, <2>2, <2>3, OneMoves
<1>2. CASE DropOldTrash(j)
  <2>1. \/ trash' = Absent /\ Goto(j, "aside")
        \/ trash' = trash /\ Goto(j, "rollback")
        \/ ~trash.exists /\ trash' = trash /\ Goto(j, "aside")
    BY <1>2, DeleteCleanly DEF DropOldTrash
  <2>2. Copies'
    BY <1>0, <1>2, <2>1 DEF DropOldTrash, DiskAgrees, Copies, NeverMixed, Durable, CompleteAndGood
  <2>3. DiskAgrees(j)'
    BY <1>0, <1>2, <2>1 DEF DropOldTrash, DiskAgrees, TypeOK
  <2>4. Active(j) /\ \E phase \in Phases : Goto(j, phase)
    BY <1>2, <2>1 DEF DropOldTrash, Active
  <2> QED BY <2>2, <2>3, <2>4, OneMoves
<1>3. CASE MoveAside(j)
  <2>1. trash' = final /\ final' = Absent /\ Goto(j, "promote") /\ final.exists
    BY <1>0, <1>3 DEF MoveAside, DiskAgrees, Renamed
  <2>2. Copies'
    BY <1>3, <2>1 DEF MoveAside, Copies, NeverMixed, Durable, CompleteAndGood
  <2>3. DiskAgrees(j)'
    BY <1>0, <1>3, <2>1 DEF MoveAside, DiskAgrees, TypeOK
  <2>4. Active(j)
    BY <1>3 DEF MoveAside, Active
  <2> QED BY <2>1, <2>2, <2>3, <2>4, OneMoves
<1>4. CASE Promote(j)
  <2>1. final' = Table(j) /\ staging' = [staging EXCEPT ![j] = Absent] /\ Goto(j, "mark")
    BY <1>0, <1>4 DEF Promote, DiskAgrees, Renamed
  <2>2. good' = good \cup {j}
    BY <1>0, <1>4 DEF Promote, DiskAgrees
  <2>3. Copies'
    BY <1>4, <2>1, <2>2 DEF Promote, Copies, NeverMixed, Durable, CompleteAndGood
  <2>4. DiskAgrees(j)'
    BY <1>0, <1>4, <2>1 DEF Promote, DiskAgrees, TypeOK
  <2>5. Active(j)
    BY <1>4 DEF Promote, Active
  <2> QED BY <2>1, <2>3, <2>4, <2>5, OneMoves
<1>5. CASE Mark(j)
  <2>1. final' = final /\ final = Table(j)
    BY <1>0, <1>5 DEF Mark, DiskAgrees, Marked
  <2>2. Copies'
    BY <1>5, <2>1 DEF Mark, Copies, NeverMixed, Durable, CompleteAndGood
  <2>3. DiskAgrees(j)'
    <3>1. pc'[j] = "drop" /\ pc[j] = "mark" /\ UNCHANGED <<staging, trash>>
      BY <1>5 DEF Mark, TypeOK
    <3> QED BY <1>0, <2>1, <3>1 DEF DiskAgrees
  <2>4. Active(j) /\ Goto(j, "drop")
    BY <1>5 DEF Mark, Active
  <2> QED BY <2>2, <2>3, <2>4, OneMoves
<1>6. CASE DropTrash(j)
  <2>1. \/ trash' = Absent /\ Goto(j, "cleanroot")
        \/ trash' = trash /\ Goto(j, "rollback")
    BY <1>6, DeleteCleanly DEF DropTrash
  <2>2. Copies'
    BY <1>0, <1>6, <2>1 DEF DropTrash, DiskAgrees, Copies, NeverMixed, Durable, CompleteAndGood
  <2>3. DiskAgrees(j)'
    BY <1>0, <1>6, <2>1 DEF DropTrash, DiskAgrees, TypeOK
  <2>4. Active(j) /\ \E phase \in Phases : Goto(j, phase)
    BY <1>6, <2>1 DEF DropTrash, Active
  <2> QED BY <2>2, <2>3, <2>4, OneMoves
<1>7. CASE CleanRoot(j)
  <2>1. final = Table(j) /\ trash = Absent /\ final' = final /\ trash' = trash
    BY <1>0, <1>7 DEF CleanRoot, DiskAgrees
  <2>2. good' = good \/ good' = {j}
    BY <1>7 DEF CleanRoot, Acknowledge
  <2>3. Copies'
    BY <2>1, <2>2 DEF Copies, NeverMixed, Durable, CompleteAndGood
  <2>4. DiskAgrees(j)'
    BY <1>0, <1>7, <2>1 DEF CleanRoot, DiskAgrees, TypeOK
  <2>5. Active(j) /\ \E phase \in Phases : Goto(j, phase)
    BY <1>7 DEF CleanRoot, Active
  <2> QED BY <2>3, <2>4, <2>5, OneMoves
<1>8. CASE RemoveRoot(j)
  <2>1. final = Table(j) /\ trash = Absent /\ final' = final /\ trash' = trash /\ good' = {j}
    BY <1>0, <1>8 DEF RemoveRoot, Acknowledge, DiskAgrees
  <2>2. Copies'
    BY <2>1 DEF Copies, NeverMixed, Durable, CompleteAndGood
  <2>3. Active(j) /\ Goto(j, "done")
    BY <1>8 DEF RemoveRoot, Active
  <2>4. DiskAgrees(j)'
    BY <2>3 DEF DiskAgrees, TypeOK
  <2> QED BY <2>2, <2>3, <2>4, OneMoves
<1> QED BY <1>1, <1>2, <1>3, <1>4, <1>5, <1>6, <1>7, <1>8

\* _rollback_table deletes what is in place only while a whole copy is in the
\* trash, and restores that copy.
LEMMA RollbackKeepsInvariant ==
    ASSUME SoleWriter, WriterInvariant, TypeOK', NEW j \in Jobs,
           Rollback(j) \/ RollbackDelete(j) \/ RollbackRename(j)
    PROVE  WriterInvariant'
<1> USE DEF WriterInvariant, DiskInvariant
<1>0. DiskAgrees(j) /\ pc[j] \in Phases
  BY DEF TypeOK
<1>1. CASE Rollback(j)
  <2>1. Copies'
    BY <1>1 DEF Rollback, Copies, NeverMixed, Durable, CompleteAndGood
  <2>2. final.exists \/ final = Absent
    BY DEF Copies
  <2>3. DiskAgrees(j)'
    BY <1>0, <1>1, <2>2 DEF Rollback, DiskAgrees, TypeOK
  <2>4. Active(j) /\ \E phase \in Phases : Goto(j, phase)
    BY <1>1 DEF Rollback, Active
  <2> QED BY <2>1, <2>3, <2>4, OneMoves
<1>2. CASE RollbackDelete(j)
  <2>1. \/ final' = Absent /\ Goto(j, "rbrename")
        \/ final' = final /\ Goto(j, "raised")
    BY <1>2, DeleteCleanly DEF RollbackDelete
  <2>2. Copies'
    BY <1>0, <1>2, <2>1 DEF RollbackDelete, DiskAgrees, Copies, NeverMixed, Durable, CompleteAndGood
  <2>3. DiskAgrees(j)'
    BY <1>0, <1>2, <2>1 DEF RollbackDelete, DiskAgrees, TypeOK
  <2>4. Active(j) /\ \E phase \in Phases : Goto(j, phase)
    BY <1>2, <2>1 DEF RollbackDelete, Active
  <2> QED BY <2>2, <2>3, <2>4, OneMoves
<1>3. CASE RollbackRename(j)
  <2>1. trash.exists /\ final' = trash /\ trash' = Absent /\ Goto(j, "raised")
    BY <1>0, <1>3 DEF RollbackRename, DiskAgrees, Renamed
  <2>2. Copies'
    BY <1>3, <2>1 DEF RollbackRename, Copies, NeverMixed, Durable, CompleteAndGood
  <2>3. Active(j)
    BY <1>3 DEF RollbackRename, Active
  <2>4. DiskAgrees(j)'
    BY <2>1 DEF DiskAgrees, TypeOK
  <2> QED BY <2>1, <2>2, <2>3, <2>4, OneMoves
<1> QED BY <1>1, <1>2, <1>3

\* A call that raises, a retry, giving up and a crash leave the disk alone.
LEMMA FailingKeepsInvariant ==
    ASSUME WriterInvariant, TypeOK', NEW j \in Jobs,
           CallRaises(j) \/ Retry(j) \/ GiveUp(j) \/ Crash(j)
    PROVE  WriterInvariant'
<1> USE DEF WriterInvariant, DiskInvariant
<1>0. DiskAgrees(j) /\ pc[j] \in Phases
  BY DEF TypeOK
<1>1. CASE CallRaises(j)
  <2>1. Copies'
    BY <1>0, <1>1 DEF CallRaises, Acknowledge, DiskAgrees, Copies, NeverMixed, Durable, CompleteAndGood
  <2>2. Active(j) /\ \E phase \in {"raised", "rollback", "done"} : Goto(j, phase)
    BY <1>1 DEF CallRaises, Active
  <2>3. DiskAgrees(j)'
    BY <2>2 DEF DiskAgrees, TypeOK
  <2> QED BY <2>1, <2>2, <2>3, OneMoves
<1>2. CASE Retry(j) \/ GiveUp(j) \/ Crash(j)
  <2>1. Copies'
    BY <1>2 DEF Retry, GiveUp, Crash, Copies, NeverMixed, Durable, CompleteAndGood
  <2>2. Active(j) /\ \E phase \in {"clean", "failed", "crashed"} : Goto(j, phase)
    BY <1>2 DEF Retry, GiveUp, Crash, Active
  <2>3. DiskAgrees(j)'
    BY <2>2 DEF DiskAgrees, TypeOK
  <2> QED BY <2>1, <2>2, <2>3, OneMoves
<1> QED BY <1>1, <1>2

LEMMA StepKeepsInvariant ==
    ASSUME SoleWriter, WriterInvariant, [Next]_vars PROVE WriterInvariant'
<1>1. TypeOK'
  BY StepType DEF WriterInvariant
<1>2. CASE UNCHANGED vars
  BY <1>2 DEF WriterInvariant, TypeOK, Copies, DiskInvariant, NeverMixed, Durable,
              CompleteAndGood, OneActive, Active, DiskAgrees
<1>3. CASE Finished
  BY <1>2, <1>3 DEF Finished
<1>4. ASSUME NEW j \in Jobs, Start(j) \/ Step(j) \/ Crash(j) PROVE WriterInvariant'
  BY <1>1, <1>4, StartsAlone, WritingKeepsInvariant, PromotingKeepsInvariant,
     RollbackKeepsInvariant, FailingKeepsInvariant DEF Step
<1> QED BY <1>2, <1>3, <1>4 DEF Next

LEMMA InitInvariant == Init => WriterInvariant
<1> SUFFICES ASSUME Init PROVE WriterInvariant
  OBVIOUS
<1>1. TypeOK
  BY InitType
<1>2. Copies
  <2>1. final.exists => good = {Seed} /\ final.files = Full(Seed)
    BY DEF Init
  <2>2. final.exists \/ (final = Absent /\ good = {})
    BY DEF Init
  <2>3. ~trash.exists
    BY DEF Init
  <2> QED BY <2>1, <2>2, <2>3 DEF Copies, NeverMixed, Durable, CompleteAndGood
<1>3. DiskInvariant
  BY DEF Init, DiskInvariant, OneActive, Active, DiskAgrees
<1> QED BY <1>1, <1>2, <1>3 DEF WriterInvariant

\* The whole invariant: a sole writer with all-or-nothing deletes, however many
\* of its calls fail, whenever it is killed and re-run.
THEOREM WriterCorrect == ASSUME SoleWriter PROVE Spec => []WriterInvariant
<1>1. WriterInvariant /\ [Next]_vars => WriterInvariant'
  BY StepKeepsInvariant
<1> QED BY <1>1, InitInvariant, PTL DEF Spec

\* Readers never see a mix of versions, nor a version an acknowledged write
\* has replaced.
THEOREM ReadersNeverSeeAMix == ASSUME SoleWriter PROVE Spec => []NeverMixed
<1>1. WriterInvariant => NeverMixed
  BY DEF WriterInvariant, Copies
<1> QED BY <1>1, WriterCorrect, PTL

\* Once there is a table, a whole acceptable copy of it survives every failure
\* and every crash.
THEOREM TableIsDurable == ASSUME SoleWriter PROVE Spec => []Durable
<1>1. WriterInvariant => Durable
  BY DEF WriterInvariant, Copies
<1> QED BY <1>1, WriterCorrect, PTL

\* A job returns only with its own version in place and nobody's debris left.
THEOREM ReturnsPublished == ASSUME SoleWriter PROVE Spec => DonePublished
<1>1. ASSUME WriterInvariant, [Next]_vars, NEW j \in Jobs, pc[j] # "done", pc'[j] = "done"
      PROVE  /\ final' = Table(j)
             /\ ~trash'.exists
             /\ \A i \in Jobs : ~staging'[i].exists
  <2>1. pc[j] \in {"cleanroot", "rmroot"} /\ UNCHANGED <<final, trash>>
             /\ \A i \in Jobs : staging'[i] = staging[i] \/ staging'[i] = Absent
    <3> USE DEF WriterInvariant, TypeOK
    <3>1. PICK i \in Jobs : Start(i) \/ Step(i) \/ Crash(i)
      BY <1>1 DEF Next, Finished
    <3>2. i = j
      BY <1>1, <3>1 DEF Start, Step, Crash, Clean, CleanOne, BeginWrite, WritePart, CommitWrite, Check,
            DropOldTrash, MoveAside, Promote, Mark, DropTrash, Delete, CleanRoot, RemoveRoot,
            Rollback, RollbackDelete, RollbackRename, CallRaises, Retry, GiveUp
    <3>3. CleanRoot(j) \/ RemoveRoot(j) \/ (CallRaises(j) /\ pc[j] = "rmroot")
      BY <1>1, <3>1, <3>2 DEF Start, Step, Crash, Clean, CleanOne, BeginWrite, WritePart, CommitWrite, Check,
            DropOldTrash, MoveAside, Promote, Mark, DropTrash, Delete,
            Rollback, RollbackDelete, RollbackRename, CallRaises, Retry, GiveUp
    <3> QED BY <3>3 DEF CleanRoot, RemoveRoot, CallRaises
  <2>2. final = Table(j) /\ trash = Absent /\ \A i \in Jobs : ~staging[i].exists
    BY <1>1, <2>1 DEF WriterInvariant, DiskInvariant, DiskAgrees
  <2> QED BY <2>1, <2>2
<1>2. WriterInvariant /\ [Next]_vars
        => [\A j \in Jobs : pc[j] # "done" /\ pc'[j] = "done" =>
              /\ final' = Table(j)
              /\ ~trash'.exists
              /\ \A i \in Jobs : ~staging'[i].exists]_vars
  BY <1>1
<1> QED BY <1>2, WriterCorrect, PTL DEF Spec, DonePublished

-----------------------------------------------------------------------------
(* Refinement: the writer's steps seen by a reader are TableSwap's. *)

shownFiles == final.files
goodTables == {Full(v) : v \in good}

\* Every step puts a whole version in the empty place, takes what is there
\* away, restores an acceptable version, acknowledges the one shown, or shows
\* the reader nothing new.
LEMMA StepRefines ==
    ASSUME SoleWriter, WriterInvariant, [Next]_vars
    PROVE  Promise!Next \/ UNCHANGED <<shownFiles, goodTables>>
<1> USE DEF Promise!Next, shownFiles, goodTables
<1>1. UNCHANGED <<final, good>> => UNCHANGED <<shownFiles, goodTables>>
  OBVIOUS
<1>2. final' = Absent /\ good' = good => Promise!Withdraw
  BY DEF Promise!Withdraw
<1>3. ASSUME NEW j \in Jobs, good' = {j}, final' = final, final = Table(j)
      PROVE  Promise!Acknowledge
  BY <1>3 DEF Promise!Acknowledge
<1>4. \A j \in Jobs : DiskAgrees(j)
  BY DEF WriterInvariant, DiskInvariant
<1>5. ASSUME NEW j \in Jobs, MoveAside(j) PROVE final' = Absent /\ good' = good
  BY <1>4, <1>5 DEF MoveAside, DiskAgrees
<1>6. ASSUME NEW j \in Jobs, Promote(j) PROVE Promise!PutInPlace(Full(j)) /\ Full(j) \in {Full(v) : v \in Versions}
  <2>1. final = Absent /\ staging[j] = Table(j)
    BY <1>4, <1>6 DEF Promote, DiskAgrees
  <2>2. final' = Table(j) /\ good' = good \cup {j}
    BY <1>6, <2>1 DEF Promote, Renamed
  <2> QED BY <2>1, <2>2 DEF Promise!PutInPlace
<1>7. ASSUME NEW j \in Jobs, Mark(j) PROVE UNCHANGED <<shownFiles, goodTables>>
  BY <1>7 DEF Mark, Marked
<1>8. ASSUME NEW j \in Jobs, RollbackDelete(j) PROVE good' = good /\ (final' = final \/ final' = Absent)
  BY <1>8, DeleteCleanly DEF RollbackDelete
<1>9. ASSUME NEW j \in Jobs, RollbackRename(j) PROVE Promise!Restore
  <2>1. final = Absent /\ trash.exists /\ CompleteAndGood(trash)
    BY <1>4, <1>9 DEF RollbackRename, DiskAgrees, WriterInvariant, Copies
  <2>2. final' = trash /\ good' = good
    BY <1>9, <2>1 DEF RollbackRename, Renamed
  <2> QED BY <2>1, <2>2 DEF Promise!Restore, CompleteAndGood
<1>10. ASSUME NEW j \in Jobs, CleanRoot(j) \/ RemoveRoot(j) \/ CallRaises(j)
       PROVE  /\ final' = final
              /\ good' = good \/ (good' = {j} /\ final = Table(j))
  BY <1>4, <1>10 DEF CleanRoot, RemoveRoot, CallRaises, Acknowledge, DiskAgrees
<1>11. ASSUME NEW j \in Jobs,
              \/ Start(j) \/ Clean(j) \/ CleanOne(j) \/ BeginWrite(j) \/ CommitWrite(j) \/ Check(j)
              \/ DropOldTrash(j) \/ DropTrash(j) \/ Rollback(j) \/ Retry(j) \/ GiveUp(j)
              \/ Crash(j) \/ \E p \in Parts : WritePart(j, p)
       PROVE  UNCHANGED <<final, good>>
  BY <1>11 DEF Start, Clean, CleanOne, BeginWrite, CommitWrite, Check, DropOldTrash, DropTrash, Rollback,
               Retry, GiveUp, Crash, WritePart
<1>12. CASE UNCHANGED vars
  BY <1>1, <1>12
<1> QED
  BY <1>1, <1>2, <1>3, <1>5, <1>6, <1>7, <1>8, <1>9, <1>10, <1>11, <1>12 DEF Next, Step, Finished

\* A sole writer with all-or-nothing deletes keeps the promise of TableSwap.
THEOREM WriterImplementsTableSwap == ASSUME SoleWriter PROVE Spec => ImplementsTableSwap
<1>1. Init => Promise!Init
  <2>1. ASSUME Init, final = Table(Seed), good = {Seed}
        PROVE  final.files = Full(Seed) /\ {Full(v) : v \in good} = {Full(Seed)}
    BY <2>1
  <2>2. ASSUME Init, final = Absent, good = {}
        PROVE  final.files = {} /\ {Full(v) : v \in good} = {}
    BY <2>2
  <2> QED BY <2>1, <2>2 DEF Init, Promise!Init
<1>2. WriterInvariant /\ [Next]_vars => [Promise!Next]_<<final.files, {Full(v) : v \in good}>>
  BY StepRefines DEF shownFiles, goodTables
<1> QED BY <1>1, <1>2, WriterCorrect, PTL DEF Spec, ImplementsTableSwap, Promise!Spec

-----------------------------------------------------------------------------
(* What the writer is to the modules that write tables: TableWrite, however *)
(* many jobs overlap and whichever deletes go wrong.                        *)

\* What the disk looks like at the calls of a job that is not spoilt.
DiskFits(j) ==
    /\ pc[j] = "tasks" => staging[j].exists /\ staging[j].files = {j} \X written[j]
    /\ pc[j] \in {"check", "droptrash", "aside", "promote"} => staging[j] = Table(j)
    /\ pc[j] = "aside" => ~trash.exists
    /\ pc[j] \in {"promote", "rbrename"} => ~final.exists
    /\ pc[j] \in {"mark", "drop", "cleanroot", "rmroot"} => final = Table(j)
    /\ pc[j] \in {"cleanroot", "rmroot"} => ~trash.exists

\* A job that is not spoilt is alone, from its start on; while a spoilt one is
\* under way nothing is known of the disk.
Trusted ==
    /\ \A j \in Jobs \ spoilt : Active(j) => DiskFits(j) /\ \A i \in Jobs : Active(i) => i = j
    /\ \A j \in spoilt : pc[j] # "idle" /\ (Active(j) => ~known)

TrustInvariant == TypeOK /\ Trusted

\* The steps of job j leave the other jobs where they are.
LEMMA OthersStay ==
    ASSUME TypeOK, NEW j \in Jobs, Start(j) \/ Step(j) \/ Crash(j)
    PROVE  \A i \in Jobs \ {j} : pc'[i] = pc[i]
BY DEF TypeOK, Start, Step, Crash, Clean, CleanOne, BeginWrite, WritePart, CommitWrite, Check,
       DropOldTrash, MoveAside, Promote, Mark, DropTrash, CleanRoot, RemoveRoot, Rollback,
       RollbackDelete, RollbackRename, CallRaises, Retry, GiveUp, Delete

\* A delete that deletes, or raises having deleted nothing, spoils nobody.
LEMMA DeleteTrusted ==
    ASSUME TypeOK, NEW j \in Jobs, NEW dir, NEW left, NEW returns, NEW raises,
           Delete(j, dir, left, returns, raises)
    PROVE  \/ UNCHANGED trust /\ pc'[j] = returns /\ left = Absent
           \/ UNCHANGED trust /\ pc'[j] = raises /\ left = dir
           \/ spoilt' = spoilt \cup {j} /\ known' = FALSE /\ pc'[j] \in {returns, raises}
<1>1. \A phase : Goto(j, phase) => pc'[j] = phase
  BY DEF TypeOK
<1>2. Spoil({j}) => spoilt' = spoilt \cup {j} /\ known' = FALSE
  BY DEF Spoil, TypeOK
<1> QED BY <1>1, <1>2 DEF Delete

\* What a step of an active job does to whom we trust: nothing, or it is spoilt,
\* or, when it returns unspoilt, all is known again.
LEMMA TrustMoves ==
    ASSUME TypeOK, NEW j \in Jobs, Step(j) \/ Crash(j)
    PROVE  \/ UNCHANGED trust
           \/ spoilt' = spoilt \cup {j} /\ known' = FALSE
           \/ /\ spoilt' = spoilt /\ pc'[j] = "done"
              /\ known' = (known \/ j \notin spoilt)
<1>1. CASE CleanRoot(j) \/ RemoveRoot(j) \/ CallRaises(j)
  <2>1. UNCHANGED trust \/ (Acknowledge(j) /\ pc'[j] = "done")
    BY <1>1 DEF CleanRoot, RemoveRoot, CallRaises, TypeOK
  <2> QED BY <2>1 DEF Acknowledge
<1>2. CASE CleanOne(j) \/ DropOldTrash(j) \/ DropTrash(j) \/ RollbackDelete(j)
  BY <1>2, DeleteTrusted DEF CleanOne, DropOldTrash, DropTrash, RollbackDelete
<1>3. CASE \/ Clean(j) \/ BeginWrite(j) \/ CommitWrite(j) \/ Check(j) \/ MoveAside(j) \/ Promote(j)
           \/ Mark(j) \/ Rollback(j) \/ RollbackRename(j) \/ Retry(j) \/ GiveUp(j) \/ Crash(j)
           \/ \E p \in Parts : WritePart(j, p)
  BY <1>3 DEF Clean, BeginWrite, CommitWrite, Check, MoveAside, Promote, Mark, Rollback,
              RollbackRename, Retry, GiveUp, Crash, WritePart
<1> QED BY <1>1, <1>2, <1>3 DEF Step

\* A job that is not spoilt finds the disk as its own calls left it.
LEMMA FitsKept ==
    ASSUME TypeOK, TypeOK', NEW j \in Jobs, DiskFits(j), Step(j) \/ Crash(j), j \notin spoilt'
    PROVE  DiskFits(j)'
<1>0. spoilt' # spoilt \cup {j} /\ ~Absent.exists
  OBVIOUS
<1>1. CASE \/ Clean(j) \/ CleanOne(j) \/ Rollback(j) \/ RollbackRename(j)
           \/ CallRaises(j) \/ Retry(j) \/ GiveUp(j) \/ Crash(j) \/ RemoveRoot(j)
  <2>1. \/ pc'[j] \in {"stale", "begin", "raised", "rollback", "rbdelete", "clean"} \cup Ended
        \/ pc'[j] = "rbrename" /\ ~final'.exists
    BY <1>1 DEF Clean, CleanOne, Rollback, RollbackRename, CallRaises, Retry, GiveUp, Crash,
                RemoveRoot, Delete, TypeOK, Directory
  <2> QED BY <2>1 DEF DiskFits
<1>2. CASE BeginWrite(j)
  <2>1. /\ pc'[j] = "tasks" /\ written'[j] = {} /\ staging'[j] = [Absent EXCEPT !.exists = TRUE]
    BY <1>2 DEF BeginWrite, TypeOK
  <2> QED BY <2>1 DEF DiskFits
<1>3. ASSUME NEW p \in Parts, WritePart(j, p) PROVE DiskFits(j)'
  <2>1. /\ pc[j] = "tasks" /\ pc'[j] = "tasks" /\ written'[j] = written[j] \cup {p}
        /\ staging'[j].exists /\ staging'[j].files = staging[j].files \cup {<<j, p>>}
    BY <1>3 DEF WritePart, TypeOK
  <2>2. staging'[j].files = {j} \X written'[j]
    BY <2>1 DEF DiskFits
  <2> QED BY <2>1, <2>2 DEF DiskFits
<1>4. CASE CommitWrite(j)
  <2>1. \/ pc'[j] = "raised"
        \/ /\ pc'[j] = "check" /\ staging'[j] = Marked(staging[j])
           /\ staging[j].files = {j} \X Parts
    BY <1>4 DEF CommitWrite, DiskFits, TypeOK
  <2> QED BY <2>1 DEF DiskFits, Marked
<1>5. CASE Check(j)
  <2>1. /\ pc[j] = "check" /\ UNCHANGED diskVars
        /\ \/ pc'[j] \in {"raised", "droptrash"}
           \/ pc'[j] = "promote" /\ ~final.exists
    BY <1>5 DEF Check, TypeOK
  <2> QED BY <2>1 DEF DiskFits
<1>6. CASE DropOldTrash(j)
  <2>1. pc[j] = "droptrash" /\ UNCHANGED <<staging, final>>
    BY <1>6 DEF DropOldTrash
  <2>2. CASE Delete(j, trash, trash', "aside", "rollback")
    <3>1. pc'[j] = "rollback" \/ (pc'[j] = "aside" /\ trash' = Absent)
      BY <1>0, <2>2, DeleteTrusted
    <3> QED BY <2>1, <3>1 DEF DiskFits
  <2>3. CASE ~trash.exists /\ Goto(j, "aside") /\ UNCHANGED <<trash, trust>>
    <3>1. pc'[j] = "aside" /\ ~trash'.exists
      BY <2>3 DEF TypeOK
    <3> QED BY <2>1, <3>1 DEF DiskFits
  <2> QED BY <1>6, <2>2, <2>3 DEF DropOldTrash
<1>7. CASE MoveAside(j)
  <2>1. /\ pc[j] = "aside" /\ UNCHANGED staging
        /\ pc'[j] = "rollback" \/ (pc'[j] = "promote" /\ ~final'.exists)
    BY <1>7 DEF MoveAside, TypeOK
  <2> QED BY <2>1 DEF DiskFits
<1>8. CASE Promote(j)
  <2>1. pc[j] = "promote" /\ ~final.exists /\ staging[j] = Table(j)
    BY <1>8 DEF Promote, DiskFits
  <2>2. pc'[j] = "mark" /\ final' = Table(j)
    BY <1>8, <2>1 DEF Promote, Renamed, TypeOK
  <2> QED BY <2>2 DEF DiskFits
<1>9. CASE Mark(j)
  <2>1. pc[j] = "mark" /\ final = Table(j)
    BY <1>9 DEF Mark, DiskFits
  <2>2. pc'[j] = "drop" /\ final' = Table(j)
    BY <1>9, <2>1 DEF Mark, Marked, TypeOK
  <2> QED BY <2>2 DEF DiskFits
<1>10. CASE DropTrash(j)
  <2>1. pc[j] = "drop" /\ UNCHANGED final
    BY <1>10 DEF DropTrash
  <2>2. Delete(j, trash, trash', "cleanroot", "rollback")
    BY <1>10 DEF DropTrash
  <2>3. pc'[j] = "rollback" \/ (pc'[j] = "cleanroot" /\ trash' = Absent)
    BY <1>0, <2>2, DeleteTrusted
  <2> QED BY <2>1, <2>3 DEF DiskFits
<1>11. CASE CleanRoot(j)
  <2>1. pc[j] = "cleanroot" /\ pc'[j] \in {"rmroot", "done"} /\ UNCHANGED diskVars
    BY <1>11 DEF CleanRoot, TypeOK
  <2> QED BY <2>1 DEF DiskFits
<1>12. CASE RollbackDelete(j)
  <2>1. Delete(j, final, final', "rbrename", "raised")
    BY <1>12 DEF RollbackDelete
  <2>2. pc'[j] = "raised" \/ (pc'[j] = "rbrename" /\ final' = Absent)
    BY <1>0, <2>1, DeleteTrusted
  <2> QED BY <2>2 DEF DiskFits
<1> QED BY <1>1, <1>2, <1>3, <1>4, <1>5, <1>6, <1>7, <1>8, <1>9, <1>10, <1>11, <1>12 DEF Step

LEMMA StepKeepsTrust == TrustInvariant /\ [Next]_vars => TrustInvariant'
<1> SUFFICES ASSUME TrustInvariant, [Next]_vars PROVE TrustInvariant'
  OBVIOUS
<1>0. TypeOK /\ TypeOK' /\ Trusted
  BY StepType DEF TrustInvariant
<1>1. ASSUME NEW j \in Jobs, Start(j) PROVE Trusted'
  <2> DEFINE others == {i \in Jobs : Active(i)}
  <2>1. /\ \A i \in Jobs : pc'[i] = IF i = j THEN "clean" ELSE pc[i]
        /\ pc[j] = "idle" /\ j \notin spoilt
    BY <1>0, <1>1 DEF Start, TypeOK, Trusted
  <2>2. \A i \in Jobs : Active(i)' <=> i \in others \/ i = j
    BY <2>1 DEF Active
  <2>3. CASE others = {}
    <3>1. UNCHANGED trust
      BY <1>0, <1>1, <2>3 DEF Start, Spoil, TypeOK
    <3>2. DiskFits(j)'
      BY <2>1 DEF DiskFits
    <3>3. \A i \in spoilt : pc'[i] # "idle" /\ ~Active(i)'
      BY <1>0, <2>1, <2>2, <2>3 DEF Trusted, TypeOK
    <3> QED BY <2>2, <2>3, <3>1, <3>2, <3>3 DEF Trusted
  <2>4. CASE others # {}
    <3>1. spoilt' = spoilt \cup others \cup {j} /\ known' = FALSE
      BY <1>0, <1>1, <2>4 DEF Start, Spoil, TypeOK
    <3>2. \A i \in Jobs \ spoilt' : ~Active(i)'
      BY <2>2, <3>1
    <3>3. \A i \in spoilt' : pc'[i] # "idle"
      BY <1>0, <2>1, <3>1 DEF Trusted, TypeOK, Active
    <3> QED BY <3>1, <3>2, <3>3 DEF Trusted
  <2> QED BY <2>3, <2>4
<1>2. ASSUME NEW j \in Jobs, Step(j) \/ Crash(j) PROVE Trusted'
  <2>1. /\ Active(j) /\ pc'[j] # "idle"
        /\ \A i \in Jobs \ {j} : pc'[i] = pc[i]
    <3>1. Active(j) /\ pc'[j] # "idle"
      BY <1>0, <1>2 DEF Active, TypeOK, Step, Crash, Clean, CleanOne, BeginWrite, WritePart,
             CommitWrite, Check, DropOldTrash, MoveAside, Promote, Mark, DropTrash, CleanRoot,
             RemoveRoot, Rollback, RollbackDelete, RollbackRename, CallRaises, Retry, GiveUp, Delete
    <3> QED BY <1>0, <1>2, <3>1, OthersStay
  <2>2. \A i \in Jobs : Active(i)' => Active(i)
    BY <2>1 DEF Active
  <2>3. /\ spoilt \subseteq spoilt' /\ spoilt' \subseteq spoilt \cup {j}
        /\ known' => known \/ (j \notin spoilt /\ pc'[j] = "done" /\ spoilt' = spoilt)
        /\ j \in spoilt' => j \in spoilt \/ ~known'
    BY <1>0, <1>2, TrustMoves DEF TypeOK
  <2>4. ASSUME NEW i \in Jobs \ spoilt', Active(i)'
        PROVE  DiskFits(i)' /\ \A k \in Jobs : Active(k)' => k = i
    <3>1. i \in Jobs \ spoilt /\ Active(i)
      BY <2>2, <2>3, <2>4
    <3>2. i = j /\ \A k \in Jobs : Active(k)' => k = i
      BY <1>0, <2>1, <2>2, <3>1 DEF Trusted
    <3>3. DiskFits(j)'
      BY <1>0, <1>2, <2>4, <3>1, <3>2, FitsKept DEF Trusted
    <3> QED BY <3>2, <3>3
  <2>5. ASSUME NEW i \in spoilt' PROVE pc'[i] # "idle" /\ (Active(i)' => ~known')
    <3>1. CASE i = j
      <4>1. pc'[j] = "done" => ~Active(j)'
        BY DEF Active
      <4> QED BY <1>0, <2>1, <2>3, <3>1, <4>1 DEF Trusted
    <3>2. CASE i # j
      <4>1. i \in spoilt /\ i \in Jobs /\ pc'[i] = pc[i]
        BY <1>0, <2>1, <2>3, <2>5, <3>2 DEF TypeOK
      <4>2. Active(i)' => Active(i) /\ ~known /\ j \in spoilt
        BY <1>0, <2>1, <2>2, <3>2, <4>1 DEF Trusted
      <4> QED BY <1>0, <2>3, <4>1, <4>2 DEF Trusted
    <3> QED BY <3>1, <3>2
  <2> QED BY <2>4, <2>5 DEF Trusted
<1>3. CASE UNCHANGED vars
  <2>1. UNCHANGED <<pc, written, staging, final, trash, spoilt, known>>
    BY <1>3
  <2>2. \A i \in Jobs : (Active(i)' <=> Active(i)) /\ (DiskFits(i)' <=> DiskFits(i))
    BY <2>1 DEF Active, DiskFits
  <2>3. \A j \in Jobs \ spoilt' : Active(j)' => DiskFits(j)' /\ \A i \in Jobs : Active(i)' => i = j
    BY <1>0, <2>1, <2>2 DEF Trusted
  <2>4. \A j \in spoilt' : pc'[j] # "idle" /\ (Active(j)' => ~known')
    <3>1. spoilt \subseteq Jobs
      BY <1>0 DEF TypeOK
    <3> QED BY <1>0, <2>1, <2>2, <3>1 DEF Trusted
  <2> QED BY <1>0, <2>3, <2>4 DEF Trusted, TrustInvariant
<1> QED BY <1>0, <1>1, <1>2, <1>3 DEF TrustInvariant, Next, Finished

LEMMA InitTrust == Init => TrustInvariant
<1> SUFFICES ASSUME Init PROVE TrustInvariant
  OBVIOUS
<1>1. spoilt = {} /\ \A j \in Jobs : ~Active(j)
  BY DEF Init, Active
<1> QED BY <1>1, InitType DEF TrustInvariant, Trusted

\* A reader takes a version's table for that version.
LEMMA ContentOf ==
    ASSUME NEW v \in Versions, known
    PROVE  Content(Table(v)) = v /\ Content(Absent) = NoTable
<1>1. ASSUME NEW w \in Versions, Full(v) = Full(w) PROVE v = w
  <2>1. PICK p \in Parts : TRUE
    BY PartsAssumption
  <2>2. <<v, p>> \in {w} \X Parts
    BY <1>1, <2>1
  <2> QED BY <2>2
<1>2. (CHOOSE w \in Versions : Full(v) = Full(w)) = v
  BY <1>1
<1> QED BY <1>2 DEF Content

seen == [table |-> Content(final), trash |-> Content(trash), spoilt |-> spoilt]
underWay == {j \in Jobs : Active(j)}

\* Until it is spoilt, a job's calls move the table and the trash they find,
\* put its own version in place, or delete.
LEMMA TrustedMoves ==
    ASSUME TypeOK, NEW j \in Jobs, DiskFits(j), Step(j), j \notin spoilt'
    PROVE  /\ final' = final \/ final' = Absent \/ (final' = trash /\ trash.exists) \/ final' = Table(j)
           /\ trash' = trash \/ trash' = Absent \/ trash' = final
<1>1. ASSUME NEW dir, NEW left, NEW returns, NEW raises, Delete(j, dir, left, returns, raises)
      PROVE  left \in {dir, Absent}
  BY <1>1, DeleteTrusted
<1>2. CASE DropOldTrash(j)
  BY <1>1, <1>2 DEF DropOldTrash
<1>3. CASE DropTrash(j)
  BY <1>1, <1>3 DEF DropTrash
<1>4. CASE RollbackDelete(j)
  BY <1>1, <1>4 DEF RollbackDelete
<1>5. CASE MoveAside(j)
  BY <1>5 DEF MoveAside, DiskFits, Renamed
<1>6. CASE Promote(j)
  BY <1>6 DEF Promote, DiskFits, Renamed
<1>7. CASE Mark(j)
  <2>1. final = Table(j) /\ final' = Marked(final) /\ trash' = trash
    BY <1>7 DEF Mark, DiskFits
  <2> QED BY <2>1 DEF Marked
<1>8. CASE RollbackRename(j)
  BY <1>8 DEF RollbackRename, DiskFits, Renamed
<1>9. CASE \/ Clean(j) \/ CleanOne(j) \/ BeginWrite(j) \/ CommitWrite(j) \/ Check(j) \/ CleanRoot(j)
           \/ RemoveRoot(j) \/ Rollback(j) \/ CallRaises(j) \/ Retry(j) \/ GiveUp(j)
           \/ \E p \in Parts : WritePart(j, p)
  BY <1>9 DEF Clean, CleanOne, BeginWrite, CommitWrite, Check, CleanRoot, RemoveRoot, Rollback,
              CallRaises, Retry, GiveUp, WritePart
<1> QED BY <1>2, <1>3, <1>4, <1>5, <1>6, <1>7, <1>8, <1>9 DEF Step

\* How the calls of a job end it: it returns from its last two, and raises or dies
\* leaving the table as it is.
LEMMA LastCalls ==
    ASSUME TypeOK, NEW j \in Jobs, Step(j) \/ Crash(j)
    PROVE  /\ Active(j) /\ pc'[j] # "idle"
           /\ pc'[j] = "done" => pc[j] \in {"cleanroot", "rmroot"} /\ Acknowledge(j) /\ UNCHANGED <<final, trash>>
           /\ pc'[j] \in {"failed", "crashed"} => UNCHANGED <<final, trash, trust>>
<1>1. CASE CleanRoot(j) \/ RemoveRoot(j) \/ CallRaises(j)
  BY <1>1 DEF CleanRoot, RemoveRoot, CallRaises, Active, TypeOK
<1>2. CASE CleanOne(j) \/ DropOldTrash(j) \/ DropTrash(j) \/ RollbackDelete(j)
  BY <1>2 DEF CleanOne, DropOldTrash, DropTrash, RollbackDelete, Delete, Active, TypeOK
<1>3. CASE \/ Clean(j) \/ BeginWrite(j) \/ CommitWrite(j) \/ Check(j) \/ MoveAside(j) \/ Promote(j)
           \/ Mark(j) \/ Rollback(j) \/ RollbackRename(j) \/ Retry(j)
           \/ \E p \in Parts : WritePart(j, p)
  BY <1>3 DEF Clean, BeginWrite, CommitWrite, Check, MoveAside, Promote, Mark, Rollback,
              RollbackRename, Retry, WritePart, Active, TypeOK
<1>4. CASE GiveUp(j) \/ Crash(j)
  BY <1>4 DEF GiveUp, Crash, Active, TypeOK
<1> QED BY <1>1, <1>2, <1>3, <1>4 DEF Step

\* Each step of a job is a step of the promise, or shows nothing new.
LEMMA StepKeepsPromise ==
    ASSUME TrustInvariant, [Next]_vars
    PROVE  Promised!Next \/ UNCHANGED <<seen, underWay>>
<1> USE DEF seen, underWay
<1>0. TypeOK /\ TypeOK' /\ Trusted
  BY StepType DEF TrustInvariant
<1>1. ASSUME NEW j \in Jobs, Start(j) PROVE Promised!Begin(j)
  <2>1. /\ \A i \in Jobs : pc'[i] = IF i = j THEN "clean" ELSE pc[i]
        /\ pc[j] = "idle"
        /\ UNCHANGED <<final, trash>>
    BY <1>0, <1>1 DEF Start, TypeOK
  <2>2. underWay' = underWay \cup {j} /\ j \notin underWay
    BY <2>1 DEF Active
  <2>3. CASE underWay = {}
    <3>1. UNCHANGED trust
      BY <1>0, <1>1, <2>3 DEF Start, Spoil, TypeOK
    <3>2. seen' = seen
      BY <2>1, <3>1 DEF Content
    <3> QED BY <2>2, <2>3, <3>2 DEF Promised!Begin, Promised!Begun
  <2>4. CASE underWay # {}
    <3>1. spoilt' = spoilt \cup (underWay \cup {j}) /\ known' = FALSE
      BY <1>0, <1>1, <2>4 DEF Start, Spoil, TypeOK
    <3>2. seen' = Promised!Spoilt(underWay \cup {j})
      BY <3>1 DEF Content, Promised!Spoilt
    <3> QED BY <2>2, <2>4, <3>2 DEF Promised!Begin, Promised!Begun
  <2> QED BY <2>3, <2>4
<1>2. ASSUME NEW j \in Jobs, Step(j) \/ Crash(j) PROVE Promised!Next \/ UNCHANGED <<seen, underWay>>
  <2>1. /\ Active(j) /\ pc'[j] # "idle"
        /\ pc'[j] = "done" => pc[j] \in {"cleanroot", "rmroot"} /\ Acknowledge(j) /\ UNCHANGED <<final, trash>>
        /\ pc'[j] \in {"failed", "crashed"} => UNCHANGED <<final, trash, trust>>
        /\ \A i \in Jobs \ {j} : pc'[i] = pc[i]
    BY <1>0, <1>2, LastCalls, OthersStay
  <2>2. j \in underWay /\ underWay' = IF pc'[j] \in Ended THEN underWay \ {j} ELSE underWay
    BY <2>1 DEF Active
  <2>3. \/ UNCHANGED trust
        \/ spoilt' = spoilt \cup {j} /\ known' = FALSE
        \/ /\ spoilt' = spoilt /\ pc'[j] = "done"
           /\ known' = (known \/ j \notin spoilt)
    BY <1>0, <1>2, TrustMoves
  <2>4. CASE j \in spoilt
    <3>1. ~known /\ ~known' /\ spoilt' = spoilt
      <4>1. ~known
        BY <1>0, <2>1, <2>4 DEF Trusted
      <4>2. spoilt' = spoilt
        BY <2>3, <2>4
      <4>3. (known \/ j \notin spoilt) = FALSE
        BY <2>4, <4>1
      <4>4. ~known'
        BY <2>3, <4>1, <4>3
      <4> QED BY <4>1, <4>2, <4>4
    <3>2. seen' = seen
      BY <3>1 DEF Content
    <3>3. pc'[j] \in Ended => Promised!Stop(j)
      BY <2>2, <3>2 DEF Promised!Stop
    <3> QED BY <2>2, <3>2, <3>3 DEF Promised!Next
  <2>5. CASE j \notin spoilt /\ j \in spoilt'
    <3>1. spoilt' = spoilt \cup {j} /\ known' = FALSE /\ pc'[j] \notin Ended
      BY <2>1, <2>3, <2>5 DEF Acknowledge, Ended
    <3>2. seen' = Promised!HalfDeleted(j)
      BY <3>1 DEF Content, Promised!HalfDeleted, Promised!Spoilt
    <3> QED BY <2>2, <3>1, <3>2 DEF Promised!Next, Promised!Move
  <2>6. CASE j \notin spoilt'
    <3>1. j \notin spoilt /\ spoilt' = spoilt /\ DiskFits(j)
      BY <1>0, <2>1, <2>3, <2>6 DEF Trusted, TypeOK
    <3>2. CASE pc'[j] = "done"
      <4>1. final = Table(j) /\ ~trash.exists /\ UNCHANGED <<final, trash>>
        BY <2>1, <3>1, <3>2 DEF DiskFits
      <4>2. known' = TRUE
        BY <1>0, <2>1, <3>1, <3>2 DEF Acknowledge, TypeOK
      <4>3. Content(final)' = j /\ Content(trash)' = NoTable
        BY <4>1, <4>2, ContentOf DEF Content
      <4>4. seen' = Promised!Returned(j)
        BY <3>1, <4>3 DEF Promised!Returned
      <4> QED BY <2>2, <3>2, <4>4 DEF Promised!Next, Promised!Return, Ended
    <3>3. CASE pc'[j] \in {"failed", "crashed"}
      <4>1. seen' = seen
        <5>1. UNCHANGED <<final, trash, spoilt, known>>
          BY <2>1, <3>3
        <5> QED BY <5>1 DEF Content
      <4> QED BY <2>2, <3>3, <4>1 DEF Promised!Next, Promised!Stop, Ended
    <3>4. CASE pc'[j] \notin Ended
      <4>1. UNCHANGED trust /\ Step(j) /\ underWay' = underWay
        <5>1. UNCHANGED trust
          BY <2>3, <2>6, <3>4 DEF Ended
        <5>2. ~Crash(j)
          BY <1>0, <3>4 DEF Crash, TypeOK, Ended
        <5> QED BY <1>2, <2>2, <3>4, <5>1, <5>2
      <4>2. CASE known
        <5>1. /\ final' = final \/ final' = Absent \/ (final' = trash /\ trash.exists) \/ final' = Table(j)
              /\ trash' = trash \/ trash' = Absent \/ trash' = final
          BY <1>0, <2>6, <3>1, <4>1, TrustedMoves
        <5>2. known' /\ Content(Table(j)) = j /\ Content(Absent) = NoTable
          BY <4>1, <4>2, ContentOf
        <5>3. Content(final)' \in {j, Content(final), Content(trash), NoTable}
          BY <4>2, <5>1, <5>2 DEF Content
        <5>4. Content(trash)' \in {j, Content(final), Content(trash), NoTable}
          BY <4>2, <5>1, <5>2 DEF Content
        <5>5. PICK v \in {j, Content(final), Content(trash), NoTable},
                   w \in {j, Content(final), Content(trash), NoTable} :
                   Content(final)' = v /\ Content(trash)' = w
          BY <5>3, <5>4
        <5>6. seen' \in Promised!Moved(j)
          <6>1. seen' = [table |-> v, trash |-> w, spoilt |-> spoilt]
            BY <4>1, <5>5
          <6> QED BY <3>1, <5>5, <6>1 DEF Promised!Moved
        <5> QED BY <2>2, <4>1, <5>6 DEF Promised!Next, Promised!Move
      <4>3. CASE ~known
        <5>1. seen' = seen
          BY <4>1, <4>3 DEF Content
        <5> QED BY <4>1, <5>1
      <4> QED BY <4>2, <4>3
    <3> QED BY <3>2, <3>3, <3>4 DEF Ended
  <2> QED BY <2>4, <2>5, <2>6
<1>3. CASE UNCHANGED vars
  <2>1. UNCHANGED <<pc, final, trash, spoilt, known>>
    BY <1>3
  <2> QED BY <2>1 DEF Content, Active
<1> QED BY <1>1, <1>2, <1>3 DEF Next, Finished, Promised!Next

\* For any number of overlapping jobs, any deletes that go half-way or are not
\* done, any failed calls and kills, the writer is what TableWrite says.
THEOREM WriterImplementsTableWrite == Spec => ImplementsTableWrite
<1>1. Init => Promised!Init
  <2> SUFFICES ASSUME Init PROVE Promised!Init
    OBVIOUS
  <2>1. known /\ spoilt = {} /\ trash = Absent /\ underWay = {}
    BY DEF Init, underWay, Active
  <2>2. Content(trash) = NoTable
    BY <2>1 DEF Content
  <2>3. \E v \in {Seed} \cup {NoTable} : Content(final) = v
    <3>1. Content(Table(Seed)) = Seed /\ Content(Absent) = NoTable
      BY <2>1, ContentOf
    <3> QED BY <3>1 DEF Init
  <2> QED BY <2>1, <2>2, <2>3 DEF Promised!Init, Promised!Fresh, underWay
<1>2. TrustInvariant /\ [Next]_vars
        => [Promised!Next]_(Promised!vars)
  BY StepKeepsPromise DEF seen, underWay, Promised!vars
<1> QED BY <1>1, <1>2, InitTrust, StepKeepsTrust, PTL DEF Spec, ImplementsTableWrite, Promised!Spec

-----------------------------------------------------------------------------
(* Towards the ends of jobs.  What is left to do of the calls of a job: of  *)
(* the attempt it is in, and of those retry still grants.                   *)

CallsLeft(j) ==
    LET phase == pc[j]
    IN  CASE phase = "idle" -> 19 + Cardinality(Parts) + Cardinality(Jobs)
          [] phase = "clean" -> 18 + Cardinality(Parts) + Cardinality(Jobs)
          [] phase = "stale" -> 17 + Cardinality(Parts) + Cardinality(stale[j])
          [] phase = "begin" -> 16 + Cardinality(Parts)
          [] phase = "tasks" -> 15 + Cardinality(Parts \ written[j])
          [] phase = "check" -> 14
          [] phase = "droptrash" -> 13
          [] phase = "aside" -> 12
          [] phase = "promote" -> 11
          [] phase = "mark" -> 10
          [] phase = "drop" -> 9
          [] phase = "cleanroot" -> 8
          [] phase = "rmroot" -> 7
          [] phase = "rollback" -> 4
          [] phase = "rbdelete" -> 3
          [] phase = "rbrename" -> 2
          [] phase = "raised" -> 1
          [] OTHER -> 0

PerAttempt == 20 + Cardinality(Parts) + Cardinality(Jobs)
StepsLeft(j) == (Attempts - attempt[j]) * PerAttempt + CallsLeft(j)

LEMMA PartsLeft ==
    ASSUME TypeOK, NEW j \in Jobs
    PROVE  /\ Cardinality(Parts) \in Nat
           /\ Cardinality(Parts \ written[j]) \in 0..Cardinality(Parts)
           /\ \A p \in Parts \ written[j] :
                 Cardinality(Parts \ (written[j] \cup {p})) = Cardinality(Parts \ written[j]) - 1
<1>1. Parts \ written[j] \in SUBSET Parts
  OBVIOUS
<1>2. IsFiniteSet(Parts \ written[j]) /\ Cardinality(Parts \ written[j]) <= Cardinality(Parts)
  BY <1>1, PartsAssumption, FS_Subset
<1>3. ASSUME NEW p \in Parts \ written[j]
      PROVE  Cardinality(Parts \ (written[j] \cup {p})) = Cardinality(Parts \ written[j]) - 1
  <2>1. Parts \ (written[j] \cup {p}) = (Parts \ written[j]) \ {p}
    OBVIOUS
  <2> QED BY <1>2, <2>1, FS_RemoveElement
<1>4. Cardinality(Parts) \in Nat /\ Cardinality(Parts \ written[j]) \in Nat
  BY <1>2, PartsAssumption, FS_CardinalityType
<1> QED BY <1>2, <1>3, <1>4

LEMMA StaleLeft ==
    ASSUME TypeOK, NEW j \in Jobs
    PROVE  /\ Cardinality(Jobs) \in Nat
           /\ Cardinality(stale[j]) \in 0..Cardinality(Jobs)
           /\ \A i \in stale[j] : Cardinality(stale[j] \ {i}) = Cardinality(stale[j]) - 1
<1>1. stale[j] \in SUBSET Jobs
  BY DEF TypeOK
<1>2. IsFiniteSet(stale[j]) /\ Cardinality(stale[j]) <= Cardinality(Jobs)
  BY <1>1, JobsAssumption, FS_Subset
<1>3. \A i \in stale[j] : Cardinality(stale[j] \ {i}) = Cardinality(stale[j]) - 1
  BY <1>2, FS_RemoveElement
<1>4. Cardinality(Jobs) \in Nat /\ Cardinality(stale[j]) \in Nat
  BY <1>2, JobsAssumption, FS_CardinalityType
<1> QED BY <1>2, <1>3, <1>4

LEMMA AttemptsLeft ==
    ASSUME TypeOK, NEW j \in Jobs
    PROVE  /\ attempt[j] \in Nat /\ Attempts \in Nat /\ Attempts - attempt[j] \in Nat
           /\ PerAttempt \in Nat /\ (Attempts - attempt[j]) * PerAttempt \in Nat
<1>1. attempt[j] \in 1..Attempts
  BY DEF TypeOK
<1>2. Attempts - attempt[j] \in Nat
  BY <1>1, AttemptsAssumption
<1>3. PerAttempt \in Nat
  <2>1. Cardinality(Parts) \in Nat /\ Cardinality(Jobs) \in Nat
    BY PartsAssumption, JobsAssumption, FS_CardinalityType
  <2> QED BY <2>1 DEF PerAttempt
<1>4. \A m, n \in Nat : m * n \in Nat
  OBVIOUS
<1> QED BY <1>1, <1>2, <1>3, <1>4, AttemptsAssumption

LEMMA StepsLeftType == ASSUME TypeOK, NEW j \in Jobs PROVE CallsLeft(j) \in Nat /\ StepsLeft(j) \in Nat
<1>1. CallsLeft(j) \in Nat
  BY PartsLeft, StaleLeft DEF CallsLeft
<1> QED BY <1>1, AttemptsLeft DEF StepsLeft

\* A call that does not start another attempt leaves fewer calls of this one.
LEMMA FewerCalls ==
    ASSUME TypeOK, NEW j \in Jobs, Start(j) \/ Step(j) \/ Crash(j), ~Retry(j)
    PROVE  CallsLeft(j)' < CallsLeft(j) /\ attempt'[j] = attempt[j]
<1> DEFINE n == Cardinality(Parts)
           k == Cardinality(Parts \ written[j])
           m == Cardinality(Jobs)
           c == Cardinality(stale[j])
<1>0. n \in Nat /\ k \in 0..n /\ m \in Nat /\ c \in 0..m
  BY PartsLeft, StaleLeft
<1>1. ASSUME NEW p \in Parts, WritePart(j, p) PROVE CallsLeft(j)' < CallsLeft(j) /\ attempt'[j] = attempt[j]
  <2>1. /\ pc[j] = "tasks" /\ pc'[j] = "tasks" /\ written'[j] = written[j] \cup {p}
        /\ p \in Parts \ written[j] /\ attempt'[j] = attempt[j]
    BY <1>1 DEF WritePart, TypeOK
  <2>2. Cardinality(Parts \ written'[j]) = k - 1
    BY <2>1, PartsLeft
  <2>3. CallsLeft(j) = 15 + k /\ CallsLeft(j)' = 15 + (k - 1)
    BY <2>1, <2>2 DEF CallsLeft
  <2> HIDE DEF n, k, m, c
  <2> QED BY <1>0, <2>1, <2>3
<1>2. ASSUME BeginWrite(j) PROVE CallsLeft(j)' < CallsLeft(j) /\ attempt'[j] = attempt[j]
  <2>1. /\ pc[j] = "begin" /\ pc'[j] = "tasks" /\ written'[j] = {} /\ attempt'[j] = attempt[j]
    BY <1>2 DEF BeginWrite, TypeOK
  <2>2. Parts \ written'[j] = Parts
    BY <2>1
  <2>3. CallsLeft(j) = 16 + n /\ CallsLeft(j)' = 15 + n
    BY <2>1, <2>2 DEF CallsLeft
  <2> HIDE DEF n, k, m, c
  <2> QED BY <1>0, <2>1, <2>3
<1>3. ASSUME Start(j) \/ Clean(j) PROVE CallsLeft(j)' < CallsLeft(j) /\ attempt'[j] = attempt[j]
  <2>1. CASE Start(j)
    <3>1. pc[j] = "idle" /\ pc'[j] = "clean" /\ attempt'[j] = attempt[j]
      BY <2>1 DEF Start, TypeOK
    <3>2. CallsLeft(j) = 19 + n + m /\ CallsLeft(j)' = 18 + n + m
      BY <3>1 DEF CallsLeft
    <3> HIDE DEF n, m
    <3> QED BY <1>0, <3>1, <3>2
  <2>2. CASE Clean(j)
    <3> DEFINE S == {i \in Jobs \ {j} : staging[i].exists}
    <3>1. pc[j] = "clean" /\ pc'[j] = "stale" /\ attempt'[j] = attempt[j] /\ stale'[j] = S
      BY <2>2 DEF Clean, TypeOK
    <3>2. IsFiniteSet(S) /\ Cardinality(S) <= m
      BY JobsAssumption, FS_Subset
    <3>3. Cardinality(S) \in 0..m
      BY <1>0, <3>2, FS_CardinalityType
    <3>4. CallsLeft(j) = 18 + n + m /\ CallsLeft(j)' = 17 + n + Cardinality(S)
      BY <3>1 DEF CallsLeft
    <3> HIDE DEF n, m, S
    <3> QED BY <1>0, <3>1, <3>3, <3>4
  <2> QED BY <1>3, <2>1, <2>2
<1>6. ASSUME CleanOne(j) PROVE CallsLeft(j)' < CallsLeft(j) /\ attempt'[j] = attempt[j]
  <2>1. pc[j] = "stale" /\ attempt'[j] = attempt[j] /\ CallsLeft(j) = 17 + n + c
    BY <1>6 DEF CleanOne, CallsLeft
  <2>2. \/ pc'[j] = "begin" \/ pc'[j] = "raised"
        \/ pc'[j] = "stale" /\ \E i \in stale[j] : stale'[j] = stale[j] \ {i}
    BY <1>6 DEF CleanOne, Delete, TypeOK
  <2>3. CASE pc'[j] = "begin" \/ pc'[j] = "raised"
    <3>1. CallsLeft(j)' \in {16 + n, 1}
      BY <2>3 DEF CallsLeft
    <3> HIDE DEF n, m, c
    <3> QED BY <1>0, <2>1, <3>1
  <2>4. CASE pc'[j] = "stale" /\ \E i \in stale[j] : stale'[j] = stale[j] \ {i}
    <3>1. Cardinality(stale'[j]) = c - 1
      BY <2>4, StaleLeft
    <3>2. CallsLeft(j)' = 17 + n + (c - 1)
      BY <2>4, <3>1 DEF CallsLeft
    <3> HIDE DEF n, m, c
    <3> QED BY <1>0, <2>1, <3>2
  <2> QED BY <2>2, <2>3, <2>4
<1>4. ASSUME \/ CommitWrite(j) \/ Check(j) \/ DropOldTrash(j) \/ MoveAside(j) \/ Promote(j)
             \/ Mark(j) \/ DropTrash(j) \/ CleanRoot(j) \/ RemoveRoot(j)
             \/ Rollback(j) \/ RollbackDelete(j) \/ RollbackRename(j) \/ GiveUp(j)
      PROVE  CallsLeft(j)' < CallsLeft(j) /\ attempt'[j] = attempt[j]
  <2>1. /\ attempt'[j] = attempt[j]
        /\ \/ pc[j] = "tasks" /\ pc'[j] \in {"check", "raised"}
           \/ pc[j] = "check" /\ pc'[j] \in {"raised", "droptrash", "promote"}
           \/ pc[j] = "droptrash" /\ pc'[j] \in {"aside", "rollback"}
           \/ pc[j] = "aside" /\ pc'[j] \in {"promote", "rollback"}
           \/ pc[j] = "promote" /\ pc'[j] \in {"mark", "rollback"}
           \/ pc[j] = "mark" /\ pc'[j] = "drop"
           \/ pc[j] = "drop" /\ pc'[j] \in {"cleanroot", "rollback"}
           \/ pc[j] = "cleanroot" /\ pc'[j] \in {"rmroot", "done"}
           \/ pc[j] = "rmroot" /\ pc'[j] = "done"
           \/ pc[j] = "rollback" /\ pc'[j] \in {"raised", "rbdelete", "rbrename"}
           \/ pc[j] = "rbdelete" /\ pc'[j] \in {"rbrename", "raised"}
           \/ pc[j] = "rbrename" /\ pc'[j] = "raised"
           \/ pc[j] = "raised" /\ pc'[j] = "failed"
    BY <1>4 DEF CommitWrite, Check, DropOldTrash, MoveAside, Promote, Mark, DropTrash, CleanRoot,
                RemoveRoot, Rollback, RollbackDelete, RollbackRename, GiveUp, Delete, TypeOK
  <2> QED BY <1>0, <2>1 DEF CallsLeft
<1>5. ASSUME CallRaises(j) \/ Crash(j) PROVE CallsLeft(j)' < CallsLeft(j) /\ attempt'[j] = attempt[j]
  <2>1. /\ attempt'[j] = attempt[j]
        /\ \/ pc[j] \in Phases \ ({"idle"} \cup Ended) /\ pc'[j] = "crashed"
           \/ pc[j] = "rmroot" /\ pc'[j] = "done"
           \/ pc[j] \in {"clean", "begin", "tasks", "check", "rollback", "rbdelete", "rbrename"} /\ pc'[j] = "raised"
           \/ pc[j] \in {"droptrash", "aside", "promote", "mark", "drop", "cleanroot"} /\ pc'[j] = "rollback"
    <3>1. CASE CallRaises(j)
      BY <3>1 DEF CallRaises, TypeOK
    <3>2. CASE Crash(j)
      BY <3>2 DEF Crash, Active, TypeOK
    <3> QED BY <1>5, <3>1, <3>2
  <2> QED BY <1>0, <2>1 DEF CallsLeft
<1> QED BY <1>1, <1>2, <1>3, <1>4, <1>5, <1>6 DEF Step

LEMMA FewerAttempts ==
    ASSUME TypeOK, NEW j \in Jobs, Retry(j)
    PROVE  StepsLeft(j)' < StepsLeft(j)
<1> DEFINE k == Attempts - attempt[j]
           q == Cardinality(Parts) + Cardinality(Jobs)
<1>1. k \in Nat /\ k >= 1 /\ q \in Nat /\ Attempts - attempt'[j] = k - 1
  <2>1. attempt[j] < Attempts /\ attempt'[j] = attempt[j] + 1
    BY DEF Retry, TypeOK
  <2>2. attempt[j] \in Nat /\ Attempts \in Nat
    BY AttemptsLeft
  <2>3. q \in Nat
    <3>1. Cardinality(Parts) \in Nat /\ Cardinality(Jobs) \in Nat
      BY PartsAssumption, JobsAssumption, FS_CardinalityType
    <3> QED BY <3>1
  <2> HIDE DEF q
  <2> QED BY <2>1, <2>2, <2>3
<1>2. pc[j] = "raised" /\ pc'[j] = "clean"
  BY DEF Retry, TypeOK
<1>3. PerAttempt = 20 + q /\ CallsLeft(j) = 1 /\ CallsLeft(j)' = 18 + q
  <2>1. Cardinality(Parts) \in Nat /\ Cardinality(Jobs) \in Nat
    BY PartsAssumption, JobsAssumption, FS_CardinalityType
  <2> QED BY <1>2, <2>1 DEF CallsLeft, PerAttempt
<1>4. PerAttempt' = PerAttempt
  BY DEF PerAttempt
<1>5. StepsLeft(j) = k * (20 + q) + 1 /\ StepsLeft(j)' = (k - 1) * (20 + q) + (18 + q)
  BY <1>1, <1>3, <1>4 DEF StepsLeft
<1> HIDE DEF k, q
<1>6. (k - 1) * (20 + q) = k * (20 + q) - (20 + q) /\ k * (20 + q) \in Int
  BY <1>1
<1> QED BY <1>1, <1>5, <1>6

\* No job goes on for ever: of every step some job has fewer left than before
\* and no job more, whatever fails, overlaps and is retried.
StepsRunOut ==
    [][\E j \in Jobs : /\ StepsLeft(j) \in Nat /\ StepsLeft(j)' \in Nat
                       /\ StepsLeft(j)' < StepsLeft(j)
                       /\ \A i \in Jobs \ {j} : StepsLeft(i)' = StepsLeft(i)]_vars

\* So a job that keeps taking steps ends: the part of JobsEnd that is not fairness.
THEOREM NoJobGoesOnForever == Spec => StepsRunOut
<1>a. TypeOK => \A j \in Jobs : StepsLeft(j) \in Nat /\ CallsLeft(j) \in Nat
  BY StepsLeftType
<1>0. TypeOK' => (\A j \in Jobs : StepsLeft(j) \in Nat /\ CallsLeft(j) \in Nat)'
  BY <1>a, PTL
<1>1. ASSUME TypeOK, TypeOK', NEW j \in Jobs, Start(j) \/ Step(j) \/ Crash(j)
      PROVE  /\ StepsLeft(j) \in Nat /\ StepsLeft(j)' \in Nat
             /\ StepsLeft(j)' < StepsLeft(j)
             /\ \A i \in Jobs \ {j} : StepsLeft(i)' = StepsLeft(i)
  <2>1. StepsLeft(j) \in Nat /\ CallsLeft(j) \in Nat
    BY <1>1, StepsLeftType
  <2>2. StepsLeft(j)' \in Nat /\ CallsLeft(j)' \in Nat
    BY <1>0, <1>1
  <2>3. StepsLeft(j)' < StepsLeft(j)
    <3>1. CASE Retry(j)
      BY <1>1, <3>1, FewerAttempts
    <3>2. CASE ~Retry(j)
      <4>1. CallsLeft(j)' < CallsLeft(j) /\ attempt'[j] = attempt[j]
        BY <1>1, <3>2, FewerCalls
      <4>2. (Attempts - attempt[j]) * PerAttempt \in Int
        BY <1>1, AttemptsLeft
      <4> QED BY <2>1, <2>2, <4>1, <4>2 DEF StepsLeft, PerAttempt
    <3> QED BY <3>1, <3>2
  <2>4. ASSUME NEW i \in Jobs \ {j}
        PROVE  /\ pc'[i] = pc[i] /\ attempt'[i] = attempt[i]
               /\ written'[i] = written[i] /\ stale'[i] = stale[i]
    BY <1>1 DEF TypeOK, Start, Step, Crash, Clean, CleanOne, BeginWrite, WritePart, CommitWrite, Check,
                DropOldTrash, MoveAside, Promote, Mark, DropTrash, CleanRoot, RemoveRoot, Rollback,
                RollbackDelete, RollbackRename, CallRaises, Retry, GiveUp, Delete
  <2>5. \A i \in Jobs \ {j} : StepsLeft(i)' = StepsLeft(i)
    BY <2>4 DEF StepsLeft, CallsLeft, PerAttempt
  <2> QED BY <2>1, <2>2, <2>3, <2>5
<1>2. TypeOK /\ TypeOK' /\ Next => UNCHANGED vars \/
        \E j \in Jobs : /\ StepsLeft(j) \in Nat /\ StepsLeft(j)' \in Nat
                        /\ StepsLeft(j)' < StepsLeft(j)
                        /\ \A i \in Jobs \ {j} : StepsLeft(i)' = StepsLeft(i)
  BY <1>1 DEF Next, Finished
<1> QED BY <1>2, TypeCorrect, PTL DEF Spec, StepsRunOut

-----------------------------------------------------------------------------
(* A re-run that is alone and meets no more trouble: each call finds what   *)
(* it needs, whatever was on disk when it began.                            *)

OnCourse(j) ==
    /\ \A i \in Jobs \ {j} : pc[i] \in Ended
    /\ faults = MaxFaults /\ crashes = MaxCrashes
    /\ pc[j] \in {"clean", "stale", "begin", "tasks", "check", "droptrash", "aside", "promote", "mark",
                  "drop", "cleanroot", "rmroot", "done"}
    /\ pc[j] \in {"tasks", "check", "droptrash", "aside", "promote"} => staging[j].exists
    /\ pc[j] \in {"droptrash", "aside"} => final.exists

\* A re-run that is on its way to RerunHeals stays on it: it neither raises nor
\* rolls back nor dies, until it is done.
RerunStaysOnCourse == [][\A j \in Jobs : OnCourse(j) => OnCourse(j)']_vars

LEMMA CourseKept ==
    ASSUME TypeOK, NEW j \in Jobs, OnCourse(j), Step(j)
    PROVE  OnCourse(j)'
<1>1. ~GoesWrong /\ faults \in Nat
  BY BoundsAssumption DEF OnCourse, TypeOK
<1>2. ~CallRaises(j) /\ ~Rollback(j) /\ ~RollbackDelete(j) /\ ~RollbackRename(j) /\ ~Retry(j) /\ ~GiveUp(j)
  BY <1>1 DEF CallRaises, Rollback, RollbackDelete, RollbackRename, Retry, GiveUp, OnCourse
<1>3. faults' = faults /\ crashes' = crashes /\ \A i \in Jobs \ {j} : pc'[i] = pc[i]
  BY <1>1, <1>2 DEF Step, Clean, CleanOne, BeginWrite, WritePart, CommitWrite, Check, DropOldTrash, MoveAside,
                    Promote, Mark, DropTrash, CleanRoot, RemoveRoot, Delete, TypeOK
<1>4. ASSUME Clean(j) \/ CleanOne(j) \/ BeginWrite(j) \/ CommitWrite(j) \/ \E p \in Parts : WritePart(j, p)
      PROVE  OnCourse(j)'
  BY <1>1, <1>3, <1>4 DEF OnCourse, TypeOK, Clean, CleanOne, BeginWrite,
                          CommitWrite, WritePart, Marked, Delete
<1>5. ASSUME Check(j) \/ DropOldTrash(j) \/ MoveAside(j) \/ Promote(j) PROVE OnCourse(j)'
  BY <1>1, <1>3, <1>5 DEF OnCourse, TypeOK, Check, DropOldTrash, MoveAside, Promote, Delete
<1>6. ASSUME Mark(j) \/ DropTrash(j) \/ CleanRoot(j) \/ RemoveRoot(j) PROVE OnCourse(j)'
  BY <1>1, <1>3, <1>6 DEF OnCourse, TypeOK, Mark, DropTrash, CleanRoot, RemoveRoot, Delete
<1> QED BY <1>2, <1>4, <1>5, <1>6 DEF Step

\* The safety that RerunHeals rests on: a re-run that is alone, with no failure to
\* come, never leaves its way to a whole table, whatever earlier jobs left behind.
THEOREM RerunMeetsNoObstacle ==
    /\ Spec => RerunStaysOnCourse
    /\ \A j \in Jobs :
          (/\ pc[j] = "clean"
           /\ \A i \in Jobs \ {j} : pc[i] \in Ended
           /\ faults = MaxFaults /\ crashes = MaxCrashes) => OnCourse(j)
<1>1. TypeOK /\ [Next]_vars => \A j \in Jobs : OnCourse(j) => OnCourse(j)'
  <2> SUFFICES ASSUME TypeOK, [Next]_vars, NEW j \in Jobs, OnCourse(j) PROVE OnCourse(j)'
    OBVIOUS
  <2>1. CASE Step(j)
    BY <2>1, CourseKept
  <2>2. CASE UNCHANGED vars
    BY <2>2 DEF OnCourse
  <2>3. ASSUME NEW i \in Jobs, Start(i) \/ Step(i) \/ Crash(i) PROVE i = j /\ Step(j)
    <3>1. pc[i] \notin Ended
      BY <2>3 DEF Start, Step, Crash, Active, Clean, CleanOne, BeginWrite, WritePart, CommitWrite, Check,
                  DropOldTrash, MoveAside, Promote, Mark, DropTrash, CleanRoot, RemoveRoot, Rollback,
                  RollbackDelete, RollbackRename, CallRaises, Retry, GiveUp
    <3>2. i = j
      BY <3>1 DEF OnCourse
    <3>3. ~Start(j) /\ ~Crash(j)
      BY BoundsAssumption DEF Start, Crash, OnCourse, TypeOK
    <3> QED BY <2>3, <3>2, <3>3
  <2> QED BY <2>1, <2>2, <2>3 DEF Next, Finished
<1>2. Spec => RerunStaysOnCourse
  BY <1>1, TypeCorrect, PTL DEF Spec, RerunStaysOnCourse
<1>3. \A j \in Jobs :
         (/\ pc[j] = "clean"
          /\ \A i \in Jobs \ {j} : pc[i] \in Ended
          /\ faults = MaxFaults /\ crashes = MaxCrashes) => OnCourse(j)
  BY DEF OnCourse
<1> QED BY <1>2, <1>3
=============================================================================
