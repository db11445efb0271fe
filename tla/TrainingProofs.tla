--------------------------- MODULE TrainingProofs ---------------------------
(***************************************************************************)
(* Theorems of Training, for any jobs, command lines, tables, windows,     *)
(* losses and patience, and any number of faults.                          *)
(***************************************************************************)
EXTENDS Training, SequenceTheorems, TLAPS

USE DEF Ended, Running, Files, Goto, vars, fitVars

-----------------------------------------------------------------------------
(* load_training_data *)

LEMMA FirstStartIsTrain == FirstStart = Window["train"].lo
<1> DEFINE starts == {Window[s].lo : s \in Splits}
<1>1. starts \subseteq Int /\ Window["train"].lo \in starts
  BY WindowAssumption DEF Splits
<1>2. \A x \in starts : Window["train"].lo <= x
  BY WindowAssumption DEF Splits
<1>3. PICK x \in starts : x = FirstStart /\ \A y \in starts : x <= y
  BY <1>1, <1>2 DEF FirstStart, Min
<1>4. x \in Int /\ Window["train"].lo \in Int
  BY <1>1
<1>5. x <= Window["train"].lo /\ Window["train"].lo <= x
  BY <1>1, <1>2, <1>3
<1> QED BY <1>3, <1>4, <1>5

\* What load_training_data makes of any table parts its labelled rows by date.
LEMMA LoadParts ==
    ASSUME NEW rows \in Tables
    PROVE  Load(rows) \in [Splits -> SUBSET Row] /\ Parted(Load(rows), rows)
<1> DEFINE f == Load(rows)
<1>1. /\ rows \subseteq Row
      /\ \A r \in rows : r.date \in Int \/ r.date = NoDate
  BY TablesAssumption, DatesAssumption DEF Row
<1>2. \A s \in Splits : Window[s].lo \in Int /\ Window[s].hi \in Int
  BY WindowAssumption
<1>3. \A s \in Splits : f[s] =
          {r \in rows : /\ r.labelled /\ r.id # NoId /\ r.date # NoDate
                        /\ r.date >= Window["train"].lo
                        /\ r.date >= Window[s].lo /\ r.date < Window[s].hi}
  <2> SUFFICES ASSUME NEW s \in Splits, NEW r \in rows
               PROVE  (r \in Kept(rows) /\ In(r, s)) <=>
                         /\ r.labelled /\ r.id # NoId /\ r.date # NoDate
                         /\ r.date >= Window["train"].lo
                         /\ r.date >= Window[s].lo /\ r.date < Window[s].hi
    BY DEF Load, Kept
  <2> QED BY <1>1, <1>2, FirstStartIsTrain DEF Kept, In, AtLeast, Before
<1>4. f \in [Splits -> SUBSET Row]
  BY <1>1 DEF Load, Kept
<1>5. /\ \A r \in f["train"], s \in f["val"] : r.date < s.date
      /\ \A r \in f["val"], s \in f["test"] : r.date < s.date
      /\ \A r \in f["train"], s \in f["test"] : r.date < s.date
  BY <1>1, <1>2, <1>3, WindowAssumption DEF Splits
<1>6. f["train"] \cup f["val"] \cup f["test"] = Usable(rows)
  <2> SUFFICES ASSUME NEW r \in rows
               PROVE  (r \in f["train"] \/ r \in f["val"] \/ r \in f["test"]) <=> r \in Usable(rows)
    BY <1>3 DEF Splits, Usable
  <2> QED BY <1>1, <1>2, <1>3, WindowAssumption DEF Splits, Usable
<1> QED BY <1>4, <1>5, <1>6 DEF Parted

-----------------------------------------------------------------------------
(* Types, and the early stopping of train() *)

\* best is the first epoch with the least number so far, stale counts the epochs
\* since, and the loop ends for one of two reasons.
BestSoFar(j) ==
    /\ best[j] <= Len(losses[j])
    /\ best[j] # 0 => losses[j][best[j]] \in Losses
    /\ \A e \in 1..Len(losses[j]) : losses[j][e] \in Losses =>
          /\ best[j] # 0
          /\ IF e < best[j] THEN losses[j][e] > losses[j][best[j]]
                            ELSE losses[j][e] >= losses[j][best[j]]
    /\ stale[j] = Len(losses[j]) - best[j]
    /\ Len(losses[j]) # 0 => Len(losses[j]) <= args[j].epochs

Stopped(j) == Len(losses[j]) >= args[j].epochs \/ stale[j] = Patience

FitOrder(j) ==
    /\ pc[j] \in {"idle", "load"} => losses[j] = <<>>
    /\ pc[j] = "fit" => stale[j] < Patience
    /\ pc[j] = "restore" => Stopped(j)
    /\ Torch(j) /\ pc[j] \in Trained => best[j] # 0 /\ weights[j] = best[j] /\ Stopped(j)
    /\ pc[j] \in {"fit", "restore"} \cup Trained => \E rows \in Tables : frame[j] = Load(rows)

FitInvariant == TypeOK /\ \A j \in Jobs : BestSoFar(j) /\ FitOrder(j)

\* An epoch more: its loss is the new best or it is not.
LEMMA EpochKeepsBest ==
    ASSUME FitInvariant, NEW j \in Jobs, NEW loss \in Losses \cup Divergent,
           Len(losses[j]) < args[j].epochs, UNCHANGED args,
           losses'[j] = Append(losses[j], loss),
           \/ Improves(j, loss) /\ best'[j] = Len(losses[j]) + 1 /\ stale'[j] = 0
           \/ ~Improves(j, loss) /\ best'[j] = best[j] /\ stale'[j] = stale[j] + 1
    PROVE  BestSoFar(j)'
<1> DEFINE n == Len(losses[j])
<1>0. /\ losses[j] \in Seq(Losses \cup Divergent) /\ best[j] \in Nat /\ BestSoFar(j)
      /\ args[j].epochs \in Int /\ n \in Nat
  <2>1. args[j].epochs \in Int
    BY OptionsAssumption DEF FitInvariant, TypeOK
  <2> QED BY <2>1, LenProperties DEF FitInvariant, TypeOK
<1>1. /\ Len(losses'[j]) = n + 1 /\ losses'[j][n + 1] = loss
      /\ \A e \in 1..n : losses'[j][e] = losses[j][e]
  BY <1>0, AppendProperties
<1>2. CASE Improves(j, loss)
  <2>1. best'[j] = n + 1 /\ stale'[j] = 0 /\ loss \in Losses
    BY <1>2 DEF Improves
  <2>2. \A e \in 1..n : losses[j][e] \in Losses => losses[j][e] > loss
    <3> SUFFICES ASSUME NEW e \in 1..n, losses[j][e] \in Losses PROVE losses[j][e] > loss
      OBVIOUS
    <3> DEFINE x == losses[j][e]
               least == losses[j][best[j]]
    <3>1. best[j] # 0 /\ least \in Losses /\ IF e < best[j] THEN x > least ELSE x >= least
      BY <1>0 DEF BestSoFar
    <3>2. loss < least
      BY <1>2, <3>1 DEF Improves
    <3>3. x \in Int /\ least \in Int /\ loss \in Int
      BY <2>1, <3>1, LossesAssumption
    <3> HIDE DEF x, least
    <3>4. x >= least
      BY <1>0, <3>1, <3>3
    <3>5. x > loss
      BY <3>2, <3>3, <3>4
    <3> QED BY <3>5 DEF x
  <2>3. \A e \in 1..(n + 1) : losses'[j][e] \in Losses =>
           IF e < n + 1 THEN losses'[j][e] > loss ELSE losses'[j][e] >= loss
    <3>1. loss \in Int
      BY <2>1, LossesAssumption
    <3> QED BY <1>0, <1>1, <2>2, <3>1
  <2>4. n + 1 # 0 /\ n + 1 <= args[j].epochs /\ 0 = n + 1 - (n + 1)
    BY <1>0
  <2> HIDE DEF n
  <2> QED BY <1>0, <1>1, <2>1, <2>3, <2>4 DEF BestSoFar
<1>3. CASE ~Improves(j, loss)
  <2>1. best'[j] = best[j] /\ stale'[j] = stale[j] + 1
    BY <1>3
  <2>2. loss \in Losses => best[j] # 0 /\ loss >= losses[j][best[j]]
    <3> SUFFICES ASSUME loss \in Losses
                 PROVE  best[j] # 0 /\ loss >= losses[j][best[j]]
      OBVIOUS
    <3>1. best[j] # 0 /\ ~(loss < losses[j][best[j]])
      BY <1>3 DEF Improves
    <3>2. losses[j][best[j]] \in Int /\ loss \in Int
      BY <1>0, <3>1, LossesAssumption DEF BestSoFar
    <3> QED BY <3>1, <3>2
  <2>3. best[j] # 0 => losses'[j][best[j]] = losses[j][best[j]]
    BY <1>0, <1>1 DEF BestSoFar
  <2>4. \A e \in 1..(n + 1) : losses'[j][e] \in Losses =>
           /\ best[j] # 0
           /\ IF e < best[j] THEN losses'[j][e] > losses[j][best[j]]
                             ELSE losses'[j][e] >= losses[j][best[j]]
    <3> SUFFICES ASSUME NEW e \in 1..(n + 1), losses'[j][e] \in Losses
                 PROVE  /\ best[j] # 0
                        /\ IF e < best[j] THEN losses'[j][e] > losses[j][best[j]]
                                          ELSE losses'[j][e] >= losses[j][best[j]]
      OBVIOUS
    <3>1. CASE e \in 1..n
      BY <1>0, <1>1, <3>1 DEF BestSoFar
    <3>2. CASE e = n + 1
      BY <1>0, <1>1, <2>2, <3>2 DEF BestSoFar
    <3> QED BY <1>0, <3>1, <3>2
  <2>5. /\ best[j] <= n + 1 /\ n + 1 <= args[j].epochs
        /\ stale[j] + 1 = n + 1 - best[j]
        /\ best[j] # 0 => losses'[j][best[j]] \in Losses
    BY <1>0, <2>3 DEF BestSoFar
  <2>6. UNCHANGED args[j].epochs
    OBVIOUS
  <2> HIDE DEF n
  <2> QED BY <1>0, <1>1, <2>1, <2>3, <2>4, <2>5, <2>6, SMTT(30) DEF BestSoFar
<1> QED BY <1>2, <1>3

JobStep(j) == Start(j) \/ Step(j) \/ Fail(j)

\* A job's step leaves the others' variables alone.
LEMMA OthersStay ==
    ASSUME TypeOK, NEW j \in Jobs, JobStep(j)
    PROVE  /\ UNCHANGED args
           /\ \A k \in Jobs \ {j} : UNCHANGED <<pc[k], frame[k], losses[k], best[k], stale[k],
                                                weights[k], linked[k]>>
<1> USE DEF TypeOK
<1>1. CASE Start(j) \/ Fit(j) \/ LastEpoch(j)
  BY <1>1 DEF Start, Fit, LastEpoch
<1>2. CASE LoadData(j)
  BY <1>2 DEF LoadData
<1>3. CASE Epoch(j)
  BY <1>3, ZenonT(30) DEF Epoch, EpochWith
<1>4. CASE Restore(j) \/ Predict(j)
  BY <1>4 DEF Restore, Predict
<1>5. CASE Save(j)
  BY <1>5 DEF Save, AfterSave
<1>6. CASE Connect(j) \/ Register(j)
  BY <1>6 DEF Connect, Register
<1>7. CASE Fail(j)
  BY <1>7 DEF Fail
<1> QED BY <1>1, <1>2, <1>3, <1>4, <1>5, <1>6, <1>7 DEF JobStep, Step

\* The steps that neither load nor train.
LEMMA LaterStepKeepsFit ==
    ASSUME FitInvariant, TypeOK', NEW j \in Jobs, JobStep(j),
           UNCHANGED <<frame[j], losses[j], best[j], stale[j]>>,
           FitOrder(j)'
    PROVE  FitInvariant'
<1>1. /\ UNCHANGED args
      /\ \A k \in Jobs \ {j} : UNCHANGED <<pc[k], frame[k], losses[k], best[k], stale[k], weights[k]>>
  BY OthersStay DEF FitInvariant
<1>2. \A k \in Jobs : BestSoFar(k)'
  BY <1>1 DEF FitInvariant, BestSoFar
<1>3. \A k \in Jobs \ {j} : FitOrder(k)'
  BY <1>1 DEF FitInvariant, FitOrder, Torch, Stopped
<1> QED BY <1>2, <1>3 DEF FitInvariant

LEMMA InitFit == Init => FitInvariant
<1> SUFFICES ASSUME Init PROVE FitInvariant
  OBVIOUS
<1>1. Load({}) \in [Splits -> SUBSET Row]
  BY DEF Load, Kept
<1>2. TypeOK
  <2>1. <<>> \in Seq(Losses \cup Divergent)
    BY EmptySeq
  <2> QED BY <1>1, <2>1, PatienceAssumption, BoundsAssumption DEF Init, TypeOK
<1>3. \A j \in Jobs : BestSoFar(j) /\ FitOrder(j)
  BY EmptySeq DEF Init, BestSoFar, FitOrder, Trained
<1> QED BY <1>2, <1>3 DEF FitInvariant

LEMMA PathType ==
    ASSUME TypeOK, NEW j \in Jobs
    PROVE  args[j].id \in RunIds /\ Path(j) \in Frameworks \X RunIds
BY OptionsAssumption DEF TypeOK, RunIds, Path

\* The order of the files.
LEMMA AfterSaveGoes ==
    ASSUME NEW j \in Jobs, Save(j)
    PROVE  \/ pc[j] = "model" /\ Goto(j, "metrics")
           \/ pc[j] = "metrics" /\ Goto(j, "features")
           \/ pc[j] = "features" /\ Goto(j, "hyperparams")
           \/ pc[j] = "hyperparams" /\ args[j].register /\ Goto(j, "connect")
           \/ pc[j] = "hyperparams" /\ ~args[j].register /\ Goto(j, "metadata")
           \/ pc[j] = "metadata" /\ Goto(j, "done")
<1>1. /\ DOMAIN AfterFile = {"model", "metrics", "features"}
      /\ AfterFile["model"] = "metrics" /\ AfterFile["metrics"] = "features"
      /\ AfterFile["features"] = "hyperparams"
  BY DEF AfterFile
<1>2. AfterSave(j)
  BY DEF Save
<1> QED BY <1>1, <1>2 DEF AfterSave

LEMMA StepType == FitInvariant /\ [Next]_vars => TypeOK'
<1> SUFFICES ASSUME FitInvariant, [Next]_vars PROVE TypeOK'
  OBVIOUS
<1>0. TypeOK
  BY DEF FitInvariant
<1> USE DEF TypeOK
<1>1. ASSUME NEW j \in Jobs, Start(j) \/ Fit(j) \/ LastEpoch(j) PROVE TypeOK'
  BY <1>0, <1>1 DEF Start, Fit, LastEpoch
<1>2. ASSUME NEW j \in Jobs, LoadData(j) PROVE TypeOK'
  <2>1. PICK rows \in Tables : frame' = [frame EXCEPT ![j] = Load(rows)]
    BY <1>2 DEF LoadData
  <2>2. frame' \in [Jobs -> [Splits -> SUBSET Row]]
    BY <1>0, <2>1, LoadParts
  <2>3. pc' \in [Jobs -> {"idle"} \cup Running \cup Ended]
    BY <1>0, <1>2 DEF LoadData
  <2> QED BY <1>0, <1>2, <2>2, <2>3 DEF LoadData
<1>3. ASSUME NEW j \in Jobs, Epoch(j) PROVE TypeOK'
  <2>1. losses[j] \in Seq(Losses \cup Divergent) /\ Len(losses[j]) \in Nat /\ stale[j] < Patience
        /\ stale[j] \in 0..Patience
    BY <1>0, <1>3, LenProperties DEF FitInvariant, FitOrder, Epoch, EpochWith
  <2>2. CASE UNCHANGED <<losses, best, stale, weights>>
    BY <1>0, <1>3, <2>2 DEF Epoch, EpochWith
  <2>3. CASE ~UNCHANGED <<losses, best, stale, weights>>
    <3>1. PICK loss \in Losses \cup Divergent : losses' = [losses EXCEPT ![j] = Append(@, loss)]
      BY <1>3, <2>3 DEF Epoch, EpochWith
    <3>2. losses' \in [Jobs -> Seq(Losses \cup Divergent)]
      BY <1>0, <2>1, <3>1, AppendProperties
    <3>3. weights' \in [Jobs -> Nat] /\ best' \in [Jobs -> Nat]
      <4>1. /\ weights' = [weights EXCEPT ![j] = Len(losses[j]) + 1]
            /\ best' = best \/ best' = [best EXCEPT ![j] = Len(losses[j]) + 1]
        BY <1>3, <2>3 DEF Epoch, EpochWith
      <4>2. \A n \in Nat : /\ [weights EXCEPT ![j] = n] \in [Jobs -> Nat]
                           /\ [best EXCEPT ![j] = n] \in [Jobs -> Nat]
        BY <1>0
      <4>3. Len(losses[j]) + 1 \in Nat
        BY <2>1
      <4>4. weights' \in [Jobs -> Nat]
        BY <4>1, <4>2, <4>3
      <4>5. best' \in [Jobs -> Nat]
        BY <1>0, <4>1, <4>2, <4>3, ZenonT(30)
      <4> QED BY <4>4, <4>5
    <3>4. stale' = [stale EXCEPT ![j] = 0] \/ stale' = [stale EXCEPT ![j] = @ + 1]
      BY <1>3, <2>3 DEF Epoch, EpochWith
    <3>5. stale' \in [Jobs -> 0..Patience]
      <4>1. 0 \in 0..Patience /\ stale[j] + 1 \in 0..Patience
        BY <2>1, PatienceAssumption
      <4>2. \A n \in 0..Patience : [stale EXCEPT ![j] = n] \in [Jobs -> 0..Patience]
        BY <1>0
      <4>3. PICK n \in 0..Patience : stale' = [stale EXCEPT ![j] = n]
        BY <3>4, <4>1
      <4> QED BY <4>2, <4>3
    <3>6. pc' \in [Jobs -> {"idle"} \cup Running \cup Ended]
      BY <1>0, <1>3, <2>3 DEF Epoch, EpochWith
    <3> QED BY <1>0, <1>3, <3>2, <3>3, <3>5, <3>6 DEF Epoch, EpochWith
  <2> QED BY <2>2, <2>3
<1>4. ASSUME NEW j \in Jobs, Restore(j) \/ Predict(j) PROVE TypeOK'
  BY <1>0, <1>4 DEF Restore, Predict
<1>5. ASSUME NEW j \in Jobs, Save(j) PROVE TypeOK'
  <2>1. disk' \in [Frameworks \X RunIds -> [Files -> Jobs \cup {Absent, Torn}]]
    BY <1>0, <1>5, PathType DEF Save
  <2>2. pc' \in [Jobs -> {"idle"} \cup Running \cup Ended]
    <3>1. PICK step \in Running \cup Ended : Goto(j, step)
      BY <1>5, AfterSaveGoes
    <3> QED BY <1>0, <3>1
  <2> QED BY <1>0, <1>5, <2>1, <2>2 DEF Save
<1>6. ASSUME NEW j \in Jobs, Connect(j) PROVE TypeOK'
  BY <1>0, <1>6, ZenonT(30) DEF Connect
<1>7. ASSUME NEW j \in Jobs, Register(j) PROVE TypeOK'
  <2>1. ModelRun(j) \in [id : RunIds, job : Jobs, links : LatestRuns \cup {{}}]
    BY <1>0, PathType DEF ModelRun
  <2> QED BY <1>0, <1>7, <2>1 DEF Register
<1>8. ASSUME NEW j \in Jobs, Fail(j) PROVE TypeOK'
  <2>1. ModelRun(j) \in [id : RunIds, job : Jobs, links : LatestRuns \cup {{}}]
    BY <1>0, PathType DEF ModelRun
  <2>2. disk' \in [Frameworks \X RunIds -> [Files -> Jobs \cup {Absent, Torn}]]
    <3>1. disk' = disk \/ (pc[j] \in Files /\ disk' = [disk EXCEPT ![Path(j)][pc[j]] = Torn])
      BY <1>8 DEF Fail
    <3>2. Path(j) \in Frameworks \X RunIds
      BY <1>0, PathType
    <3>3. ASSUME pc[j] \in Files, disk' = [disk EXCEPT ![Path(j)][pc[j]] = Torn]
          PROVE  disk' \in [Frameworks \X RunIds -> [Files -> Jobs \cup {Absent, Torn}]]
      <4>1. disk[Path(j)] \in [Files -> Jobs \cup {Absent, Torn}]
        BY <1>0, <3>2
      <4>2. [disk[Path(j)] EXCEPT ![pc[j]] = Torn] \in [Files -> Jobs \cup {Absent, Torn}]
        BY <3>3, <4>1
      <4> QED BY <1>0, <3>2, <3>3, <4>2
    <3> QED BY <1>0, <3>1, <3>3
  <2>3. models' \subseteq [id : RunIds, job : Jobs, links : LatestRuns \cup {{}}]
    <3>1. models' = models \/ models' = models \cup {ModelRun(j)}
      BY <1>8 DEF Fail
    <3>2. models \subseteq [id : RunIds, job : Jobs, links : LatestRuns \cup {{}}]
      BY <1>0
    <3> HIDE DEF TypeOK
    <3> QED BY <2>1, <3>1, <3>2
  <2>4. pc' \in [Jobs -> {"idle"} \cup Running \cup Ended] /\ faults' \in 0..MaxFaults
    BY <1>0, <1>8, BoundsAssumption DEF Fail
  <2> QED BY <1>0, <1>8, <2>2, <2>3, <2>4 DEF Fail
<1>9. CASE UNCHANGED vars
  BY <1>0, <1>9
<1> QED BY <1>1, <1>2, <1>3, <1>4, <1>5, <1>6, <1>7, <1>8, <1>9 DEF Next, Step, Settled

LEMMA StepKeepsFit == FitInvariant /\ [Next]_vars => FitInvariant'
<1> SUFFICES ASSUME FitInvariant, [Next]_vars PROVE FitInvariant'
  OBVIOUS
<1>0. TypeOK /\ TypeOK' /\ \A j \in Jobs : BestSoFar(j) /\ FitOrder(j)
  BY StepType DEF FitInvariant
<1>1. ASSUME NEW j \in Jobs, LoadData(j) PROVE FitInvariant'
  <2>1. PICK rows \in Tables : frame' = [frame EXCEPT ![j] = Load(rows)]
    BY <1>1 DEF LoadData
  <2>2. UNCHANGED <<args, losses, best, stale, weights>> /\ pc'[j] \in {"fit", "failed"}
    BY <1>0, <1>1 DEF LoadData, TypeOK
  <2>3. losses[j] = <<>> /\ stale[j] < Patience
    BY <1>0, <1>1, EmptySeq, PatienceAssumption, SMTT(30)
    DEF LoadData, FitOrder, BestSoFar, TypeOK
  <2>4. FitOrder(j)'
    BY <1>0, <2>1, <2>2, <2>3 DEF FitOrder, Trained, TypeOK
  <2>5. \A k \in Jobs : BestSoFar(k)'
    BY <1>0, <2>2 DEF BestSoFar
  <2>6. \A k \in Jobs \ {j} : FitOrder(k)'
    BY <1>0, <1>1, OthersStay DEF FitOrder, JobStep, Step, Torch, Stopped
  <2> QED BY <1>0, <2>4, <2>5, <2>6 DEF FitInvariant
<1>2. ASSUME NEW j \in Jobs, Epoch(j) PROVE FitInvariant'
  <2>1. UNCHANGED <<args, frame>> /\ pc[j] = "fit" /\ Len(losses[j]) < args[j].epochs
    BY <1>2 DEF Epoch, EpochWith
  <2>2. CASE UNCHANGED <<losses, best, stale, weights>> /\ pc'[j] = "unknownId"
    BY <1>0, <1>2, <2>1, <2>2, LaterStepKeepsFit DEF FitOrder, Trained, JobStep, Step
  <2>3. CASE ~(UNCHANGED <<losses, best, stale, weights>> /\ pc'[j] = "unknownId")
    <3>1. PICK loss \in Losses \cup Divergent :
              /\ losses'[j] = Append(losses[j], loss)
              /\ \/ /\ Improves(j, loss) /\ best'[j] = Len(losses[j]) + 1 /\ stale'[j] = 0
                    /\ pc'[j] = "fit"
                 \/ /\ ~Improves(j, loss) /\ best'[j] = best[j] /\ stale'[j] = stale[j] + 1
                    /\ pc'[j] = IF stale[j] + 1 >= Patience THEN "restore" ELSE "fit"
      BY <1>0, <1>2, <2>3 DEF Epoch, EpochWith, TypeOK
    <3>2. BestSoFar(j)'
      BY <2>1, <3>1, EpochKeepsBest
    <3>3. stale[j] < Patience /\ stale[j] \in Nat
      BY <1>0, <2>1 DEF FitOrder, TypeOK
    <3>4. /\ pc'[j] \in {"fit", "restore"}
          /\ pc'[j] = "fit" => stale'[j] < Patience
          /\ pc'[j] = "restore" => stale'[j] = Patience
      BY <3>1, <3>3, PatienceAssumption
    <3>5. FitOrder(j)'
      BY <1>0, <2>1, <3>4 DEF FitOrder, Stopped, Trained
    <3>6. \A k \in Jobs \ {j} : BestSoFar(k)' /\ FitOrder(k)'
      BY <1>0, <1>2, OthersStay DEF FitOrder, BestSoFar, JobStep, Step, Torch, Stopped
    <3> QED BY <1>0, <3>2, <3>5, <3>6 DEF FitInvariant
  <2> QED BY <2>2, <2>3
<1>3. ASSUME NEW j \in Jobs,
             \/ Start(j) \/ Fit(j) \/ LastEpoch(j) \/ Restore(j) \/ Predict(j)
             \/ Save(j) \/ Connect(j) \/ Register(j) \/ Fail(j)
      PROVE  FitInvariant'
  <2>1. UNCHANGED <<args, frame, losses, best, stale>>
    BY <1>3 DEF Start, Fit, LastEpoch, Restore, Predict, Save, Connect, Register, Fail
  <2>2. FitOrder(j)'
    <3>1. CASE Start(j) \/ Fail(j)
      BY <1>0, <2>1, <3>1, ZenonT(30) DEF Start, Fail, FitOrder, Trained, TypeOK
    <3>2. CASE Fit(j) \/ LastEpoch(j)
      BY <1>0, <2>1, <3>2 DEF Fit, LastEpoch, FitOrder, Trained, Torch, Stopped, TypeOK
    <3>3. CASE Restore(j)
      <4>1. /\ pc[j] = "restore"
            /\ \/ pc'[j] = "failed"
               \/ pc'[j] = "predict" /\ best[j] # 0 /\ weights'[j] = best[j]
        BY <1>0, <3>3 DEF Restore, TypeOK
      <4> QED BY <1>0, <2>1, <4>1 DEF FitOrder, Trained, Torch, Stopped
    <3>4. CASE Predict(j) \/ Save(j) \/ Connect(j) \/ Register(j)
      <4>1. /\ pc[j] \in Trained /\ UNCHANGED weights
            /\ pc'[j] \in Trained \cup {"failed", "unknownId"}
        <5>1. CASE Save(j)
          BY <1>0, <5>1, AfterSaveGoes, ZenonT(30) DEF Save, Trained, TypeOK
        <5>2. CASE ~Save(j)
          BY <1>0, <3>4, <5>2 DEF Predict, Connect, Register, Trained, TypeOK
        <5> QED BY <5>1, <5>2
      <4> QED BY <1>0, <2>1, <4>1 DEF FitOrder, Trained, Torch, Stopped
    <3> QED BY <1>3, <3>1, <3>2, <3>3, <3>4
  <2> QED BY <1>0, <1>3, <2>1, <2>2, LaterStepKeepsFit DEF JobStep, Step
<1>4. CASE UNCHANGED vars
  BY <1>0, <1>4 DEF FitInvariant, BestSoFar, FitOrder, Torch, Stopped
<1> QED BY <1>1, <1>2, <1>3, <1>4 DEF Next, Step, Settled

\* Every reachable state is well typed.
THEOREM TypeCorrect == Spec => []TypeOK
<1>1. FitInvariant => TypeOK
  BY DEF FitInvariant
<1> QED BY <1>1, InitFit, StepKeepsFit, PTL DEF Spec

\* For any losses, patience and number of epochs, train() returns the first of
\* the best epochs and stops only when it may.
THEOREM EarlyStopping == Spec => []BestEpochIsReturned
<1>1. FitInvariant => BestEpochIsReturned
  <2> SUFFICES ASSUME FitInvariant, NEW j \in Jobs, Torch(j), pc[j] \in Trained
               PROVE  /\ weights[j] \in 1..Len(losses[j])
                      /\ losses[j][weights[j]] \in Losses
                      /\ \A e \in 1..Len(losses[j]) : losses[j][e] \in Losses =>
                            IF e < weights[j] THEN losses[j][e] > losses[j][weights[j]]
                                              ELSE losses[j][e] >= losses[j][weights[j]]
                      /\ \/ Len(losses[j]) = args[j].epochs
                         \/ Len(losses[j]) = weights[j] + Patience
    BY DEF BestEpochIsReturned
  <2>1. /\ weights[j] = best[j] /\ best[j] # 0 /\ best[j] \in Nat /\ stale[j] \in Nat
        /\ BestSoFar(j) /\ Stopped(j) /\ Len(losses[j]) \in Nat /\ args[j].epochs \in Int
    <3>1. args[j].epochs \in Int /\ losses[j] \in Seq(Losses \cup Divergent)
      BY OptionsAssumption DEF FitInvariant, TypeOK
    <3> QED BY <3>1, LenProperties DEF FitInvariant, TypeOK, FitOrder
  <2> QED BY <2>1, PatienceAssumption DEF BestSoFar, Stopped
<1> QED BY <1>1, InitFit, StepKeepsFit, PTL DEF Spec

\* For any table and any windows that follow each other, the rows a model is
\* fitted, tuned and tested on are parted by date, and no usable row is lost.
THEOREM SplitParts == Spec => []SplitIsTemporal
<1>1. FitInvariant => SplitIsTemporal
  BY LoadParts DEF FitInvariant, FitOrder, SplitIsTemporal
<1> QED BY <1>1, InitFit, StepKeepsFit, PTL DEF Spec

-----------------------------------------------------------------------------
(* What is on disk, and in model_runs. *)

\* The files a job has written when it is at a step.
Saved(step) ==
    CASE step = "metrics" -> {"model"}
      [] step = "features" -> {"model", "metrics"}
      [] step = "hyperparams" -> {"model", "metrics", "features"}
      [] step \in {"connect", "register", "metadata"} -> Files \ {"metadata"}
      [] step = "done" -> Files
      [] OTHER -> {}

Own(j, f) == disk[Path(j)][f] = j
Registered(j) == \E m \in models : m.job = j

\* Of a job whose framework and run id no other job has; and of every job, that
\* a row comes before metadata.json.
Stored(j) ==
    /\ \A f \in Saved(pc[j]) : Own(j, f)
    /\ Registered(j) => \A f \in Files \ {"metadata"} : Own(j, f)
    /\ Own(j, "metadata") => pc[j] = "done"
RowFirst(j) ==
    /\ Registered(j) => pc[j] \in {"metadata", "done", "failed"}
    /\ args[j].register /\ pc[j] \in {"metadata", "done"}
          => \E m \in models : m.job = j /\ m.links = linked[j]

DiskInvariant ==
    /\ FitInvariant
    /\ \A j \in Jobs : RowFirst(j) /\ (OwnPath(j) => Stored(j))

\* What a step of job j leaves of the files and the rows of the others.
LEMMA OthersKeepDisk ==
    ASSUME DiskInvariant, NEW j \in Jobs, JobStep(j), NEW k \in Jobs \ {j}
    PROVE  RowFirst(k)' /\ (OwnPath(k)' => Stored(k)')
<1>0. TypeOK
  BY DEF DiskInvariant, FitInvariant
<1>1. UNCHANGED <<args, pc[k], linked[k]>> /\ UNCHANGED Path(k) /\ OwnPath(k)' = OwnPath(k)
  BY <1>0, OthersStay DEF Path, OwnPath
<1>2. models' = models \/ models' = models \cup {ModelRun(j)}
  BY DEF JobStep, Step, Start, LoadData, Fit, Epoch, EpochWith, LastEpoch, Restore, Predict, Save,
         Connect, Register, Fail
<1>3. Registered(k)' = Registered(k) /\ models \subseteq models'
  BY <1>2 DEF Registered, ModelRun
<1>4. ASSUME OwnPath(k) PROVE disk'[Path(k)] = disk[Path(k)]
  <2>1. Path(j) # Path(k)
    BY <1>4 DEF OwnPath
  <2>2. disk' = disk \/ \E file : disk' = [disk EXCEPT ![Path(j)] = file]
    BY DEF JobStep, Step, Start, LoadData, Fit, Epoch, EpochWith, LastEpoch, Restore, Predict, Save,
           Connect, Register, Fail
  <2>3. Path(k) \in DOMAIN disk
    BY <1>0, PathType DEF TypeOK
  <2> QED BY <2>1, <2>2, <2>3
<1>5. RowFirst(k)'
  BY <1>1, <1>3 DEF DiskInvariant, RowFirst
<1>6. OwnPath(k)' => Stored(k)'
  <2> SUFFICES ASSUME OwnPath(k) PROVE Stored(k)'
    BY <1>1
  <2>1. \A f \in Files : Own(k, f)' = Own(k, f)
    BY <1>1, <1>4 DEF Own
  <2>2. Stored(k) /\ Saved(pc[k]) \subseteq Files
    BY DEF DiskInvariant, Saved
  <2> QED BY <1>1, <1>3, <2>1, <2>2 DEF Stored
<1> QED BY <1>5, <1>6

LEMMA StepKeepsDisk == DiskInvariant /\ [Next]_vars => DiskInvariant'
<1> SUFFICES ASSUME DiskInvariant, [Next]_vars PROVE DiskInvariant'
  OBVIOUS
<1>0. /\ TypeOK /\ FitInvariant'
      /\ \A j \in Jobs : RowFirst(j) /\ (OwnPath(j) => Stored(j))
  BY StepKeepsFit DEF DiskInvariant, FitInvariant
<1>1. ASSUME NEW j \in Jobs, JobStep(j)
      PROVE  RowFirst(j)' /\ (OwnPath(j) => Stored(j)')
  <2>0. UNCHANGED args /\ UNCHANGED Path(j) /\ j \notin {Absent, Torn}
    BY <1>0, <1>1, OthersStay, FilesAssumption DEF Path
  <2>1. CASE /\ UNCHANGED <<disk, models>>
             /\ pc[j] \notin Files \cup {"connect", "register", "done", "failed"}
             /\ pc'[j] \notin Files \ {"model"} /\ pc'[j] \notin {"connect", "register", "done"}
    <3>1. ~Registered(j)
      BY <1>0, <2>1 DEF RowFirst
    <3>2. ~Registered(j)' /\ Saved(pc'[j]) = {}
      BY <2>1, <3>1 DEF Registered, Saved
    <3> QED BY <1>0, <2>0, <2>1, <3>1, <3>2 DEF RowFirst, Stored, Own
  <2>2. CASE Save(j)
    <3>0. \/ pc[j] = "model" /\ pc'[j] = "metrics"
          \/ pc[j] = "metrics" /\ pc'[j] = "features"
          \/ pc[j] = "features" /\ pc'[j] = "hyperparams"
          \/ pc[j] = "hyperparams" /\ args[j].register /\ pc'[j] = "connect"
          \/ pc[j] = "hyperparams" /\ ~args[j].register /\ pc'[j] = "metadata"
          \/ pc[j] = "metadata" /\ pc'[j] = "done"
      BY <1>0, <2>2, AfterSaveGoes DEF TypeOK
    <3>1. UNCHANGED <<models, linked>> /\ pc[j] \in Files
      BY <2>2 DEF Save
    <3> PICK file \in Files : file = pc[j]
      BY <3>1
    <3>2. /\ Own(j, file)'
          /\ \A f \in Files \ {file} : Own(j, f)' = Own(j, f)
      <4>1. disk' = [disk EXCEPT ![Path(j)][pc[j]] = j]
        BY <2>2 DEF Save
      <4>2. Path(j) \in DOMAIN disk /\ DOMAIN disk[Path(j)] = Files
        BY <1>0, PathType DEF TypeOK
      <4>3. disk'[Path(j)] = [disk[Path(j)] EXCEPT ![pc[j]] = j]
        BY <4>1, <4>2
      <4> QED BY <2>0, <3>1, <4>2, <4>3 DEF Own
    <3>3. Saved(pc'[j]) \subseteq Saved(pc[j]) \cup {pc[j]}
      BY <3>0 DEF Saved
    <3>4. pc[j] = "metadata" <=> pc'[j] = "done"
      BY <3>0
    <3>5. RowFirst(j)'
      <4>1. Registered(j)' => pc[j] = "metadata"
        BY <1>0, <3>0, <3>1 DEF RowFirst, Registered
      <4> QED BY <1>0, <2>0, <3>0, <3>1, <4>1 DEF RowFirst
    <3>6. Saved(pc[j]) \subseteq Files /\ Saved(pc[j]) \subseteq Files \ {pc[j]}
      BY <3>1 DEF Saved
    <3>7. OwnPath(j) => Stored(j)'
      <4> SUFFICES ASSUME OwnPath(j) PROVE Stored(j)'
        OBVIOUS
      <4>1. Registered(j)' => Registered(j) /\ pc[j] = "metadata"
        BY <1>0, <3>0, <3>1 DEF RowFirst, Registered
      <4>2. \A f \in Saved(pc'[j]) : Own(j, f)'
        BY <1>0, <3>2, <3>3, <3>6 DEF Stored
      <4>3. Registered(j)' => \A f \in Files \ {"metadata"} : Own(j, f)'
        BY <1>0, <3>2, <4>1 DEF Stored
      <4>4. Own(j, "metadata")' => pc'[j] = "done"
        BY <1>0, <3>0, <3>2, <3>4 DEF Stored
      <4> QED BY <4>2, <4>3, <4>4 DEF Stored
    <3> QED BY <3>5, <3>7
  <2>3. CASE Connect(j)
    <3>1. /\ pc[j] = "connect" /\ pc'[j] = "register" /\ UNCHANGED <<disk, models>>
      BY <1>0, <2>3 DEF Connect, TypeOK
    <3> QED BY <1>0, <2>0, <3>1 DEF RowFirst, Stored, Own, Registered, Saved
  <2>4. CASE Register(j)
    <3>1. /\ pc[j] = "register" /\ UNCHANGED <<disk, linked>>
          /\ \/ pc'[j] = "metadata" /\ models' = models \cup {ModelRun(j)}
             \/ pc'[j] = "failed" /\ UNCHANGED models
      BY <1>0, <2>4 DEF Register, TypeOK
    <3>2. RowFirst(j)'
      <4>1. CASE pc'[j] = "metadata" /\ models' = models \cup {ModelRun(j)}
        <5>1. ModelRun(j) \in models' /\ ModelRun(j).job = j /\ ModelRun(j).links = linked'[j]
          BY <3>1, <4>1 DEF ModelRun
        <5> QED BY <4>1, <5>1 DEF RowFirst
      <4>2. CASE pc'[j] = "failed"
        BY <4>2 DEF RowFirst
      <4> QED BY <3>1, <4>1, <4>2
    <3>3. OwnPath(j) => Stored(j)'
      BY <1>0, <2>0, <3>1 DEF Stored, Own, Saved
    <3> QED BY <3>2, <3>3
  <2>5. CASE Fail(j)
    <3>1. pc[j] \in Running /\ pc'[j] = "failed" /\ UNCHANGED linked
      BY <1>0, <2>5 DEF Fail, TypeOK
    <3>2. \/ UNCHANGED <<disk, models>>
          \/ /\ pc[j] \in Files
             /\ disk' = [disk EXCEPT ![Path(j)][pc[j]] = Torn]
             /\ UNCHANGED models
          \/ /\ pc[j] = "register"
             /\ UNCHANGED disk
      BY <2>5 DEF Fail
    <3>3. RowFirst(j)'
      BY <3>1 DEF RowFirst
    <3>4. \A f \in Files : Own(j, f)' => Own(j, f)
      <4>1. CASE UNCHANGED disk
        BY <2>0, <4>1 DEF Own
      <4>2. CASE pc[j] \in Files /\ disk' = [disk EXCEPT ![Path(j)][pc[j]] = Torn]
        <5>1. Path(j) \in DOMAIN disk /\ pc[j] \in DOMAIN disk[Path(j)]
          BY <1>0, <4>2, PathType DEF TypeOK
        <5>2. disk'[Path(j)] = [disk[Path(j)] EXCEPT ![pc[j]] = Torn]
          BY <4>2, <5>1
        <5> QED BY <2>0, <5>1, <5>2 DEF Own
      <4> QED BY <3>2, <4>1, <4>2
    <3>5. OwnPath(j) => Stored(j)'
      <4>1. CASE UNCHANGED <<disk, models>>
        BY <1>0, <2>0, <3>1, <4>1 DEF Stored, Own, Saved, Registered
      <4>2. CASE pc[j] = "register" /\ UNCHANGED disk
        BY <1>0, <2>0, <3>1, <4>2 DEF Stored, Own, Saved
      <4>3. CASE /\ pc[j] \in Files /\ UNCHANGED models
                 /\ disk' = [disk EXCEPT ![Path(j)][pc[j]] = Torn]
        <5>1. Registered(j)' => Registered(j) /\ pc[j] = "metadata"
          BY <1>0, <4>3 DEF RowFirst, Registered
        <5>2. \A f \in Files \ {pc[j]} : Own(j, f)' = Own(j, f)
          BY <1>0, <2>0, <4>3, PathType DEF Own, TypeOK
        <5> QED BY <1>0, <3>1, <3>4, <5>1, <5>2 DEF Stored, Saved
      <4> QED BY <3>2, <4>1, <4>2, <4>3
    <3> QED BY <3>3, <3>5
  <2> QED
    <3>1. CASE \/ Start(j) \/ LoadData(j) \/ Fit(j) \/ Epoch(j) \/ LastEpoch(j) \/ Restore(j)
               \/ Predict(j)
      <4>1. UNCHANGED <<disk, models>>
        BY <3>1 DEF Start, LoadData, Fit, Epoch, EpochWith, LastEpoch, Restore, Predict
      <4>2. /\ pc[j] \in {"idle", "load", "fit", "restore", "predict"}
            /\ pc'[j] \in {"load", "fit", "restore", "predict", "model", "failed", "unknownId"}
        BY <1>0, <3>1 DEF Start, LoadData, Fit, Epoch, EpochWith, LastEpoch, Restore, Predict, TypeOK
      <4> QED BY <2>1, <4>1, <4>2
    <3> QED BY <1>1, <2>2, <2>3, <2>4, <2>5, <3>1 DEF JobStep, Step
<1>2. ASSUME NEW j \in Jobs, JobStep(j) PROVE DiskInvariant'
  <2>1. OwnPath(j)' = OwnPath(j)
    BY <1>0, <1>2, OthersStay DEF OwnPath, Path
  <2> QED BY <1>0, <1>1, <1>2, <2>1, OthersKeepDisk DEF DiskInvariant
<1>3. CASE UNCHANGED vars
  BY <1>0, <1>3 DEF DiskInvariant, RowFirst, Stored, Own, Registered, OwnPath, Path
<1> QED BY <1>2, <1>3 DEF Next, Settled, JobStep

LEMMA InitDisk == Init => DiskInvariant
<1> SUFFICES ASSUME Init PROVE DiskInvariant
  OBVIOUS
<1>1. FitInvariant
  BY InitFit
<1>2. \A j \in Jobs : RowFirst(j)
  BY DEF Init, RowFirst, Registered
<1>3. ASSUME NEW j \in Jobs PROVE Stored(j)
  <2>1. ~Own(j, "metadata")
    BY <1>1, PathType, FilesAssumption DEF Init, Own, FitInvariant
  <2> QED BY <2>1 DEF Init, Stored, Registered, Saved
<1> QED BY <1>1, <1>2, <1>3 DEF DiskInvariant

\* However jobs fail, and whatever rows Postgres rejects: a row of model_runs is
\* of files that are on disk.
THEOREM RegisteredModelsAreStored == Spec => []RegisteredIsOnDisk
<1>1. DiskInvariant => RegisteredIsOnDisk
  <2> SUFFICES ASSUME DiskInvariant, NEW m \in models, OwnPath(m.job),
                      NEW f \in Files \ {"metadata"}
               PROVE  disk[Path(m.job)][f] = m.job
    BY DEF RegisteredIsOnDisk
  <2>1. m.job \in Jobs /\ Registered(m.job)
    BY DEF DiskInvariant, FitInvariant, TypeOK, Registered
  <2> QED BY <2>1 DEF DiskInvariant, Stored, Own
<1> QED BY <1>1, InitDisk, StepKeepsDisk, PTL DEF Spec

\* A job's metadata.json stands for everything else: its files and its row.
THEOREM MetadataComesLast == Spec => []MetadataIsLast
<1>1. DiskInvariant => MetadataIsLast
  <2> SUFFICES ASSUME DiskInvariant, NEW j \in Jobs, OwnPath(j), Own(j, "metadata")
               PROVE  /\ \A f \in Files : Own(j, f)
                      /\ args[j].register => \E m \in models : m.job = j /\ m.links = linked[j]
    BY DEF MetadataIsLast, Own
  <2>1. Stored(j) /\ RowFirst(j) /\ pc[j] = "done"
    BY DEF DiskInvariant, Stored
  <2> QED BY <2>1 DEF Stored, Saved, RowFirst
<1> QED BY <1>1, InitDisk, StepKeepsDisk, PTL DEF Spec
=============================================================================
