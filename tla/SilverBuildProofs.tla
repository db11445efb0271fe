-------------------------- MODULE SilverBuildProofs --------------------------
(***************************************************************************)
(* Theorems of SilverBuild, for any mains, revisions, command lines and    *)
(* overlap, any bronze contents and any number of faults.                  *)
(***************************************************************************)
EXTENDS SilverBuild, TLAPS

USE DEF Steps, Ended, Goto, Fault, groupVars, vars

LEMMA OrderIs ==
    /\ Len(Order) = 3
    /\ Order[1] = "pickup_zone_demand" /\ Order[2] = "driver_trip_history"
    /\ Order[3] = "trip_features"
BY DEF Order

LEMMA GroupType ==
    ASSUME TypeOK, NEW m \in Mains
    PROVE  /\ Group(m) \in Groups
           /\ at[m] = 3 <=> Group(m) = "trip_features"
           /\ args[m].mode \in {"plain", "force", "unregistered"}
           /\ args[m].want \subseteq Groups
<1>1. at[m] \in 1..3 /\ \E launch \in Launches : args[m] = launch.args[m]
  BY DEF TypeOK
<1> QED BY <1>1, OrderIs, LaunchesAssumption DEF Group, Groups

-----------------------------------------------------------------------------
(* Types *)

Disk == [table : Versions, trash : Versions, spoilt : SUBSET Mains]

LEMMA InitType == Init => TypeOK
<1> SUFFICES ASSUME Init PROVE TypeOK
  OBVIOUS
<1>1. PICK launch \in Launches :
          /\ bronze = MaxGenerations - launch.ingestions
          /\ args = launch.args
          /\ pc = [m \in Mains |-> IF m \in launch.present THEN "idle" ELSE "absent"]
  BY DEF Init
<1>2. bronze \in 1..MaxGenerations
  BY <1>1, LaunchesAssumption, BoundsAssumption
<1>3. disk \in [Groups -> [table : Versions, trash : Versions, spoilt : SUBSET Mains]]
  BY DEF Init, Versions
<1>4. joined \in [Mains -> [Joined -> Versions]]
  BY DEF Init, Versions
<1> QED BY <1>1, <1>2, <1>3, <1>4, BoundsAssumption DEF Init, TypeOK

LEMMA AdvanceType ==
    ASSUME TypeOK, NEW m \in Mains, Advance(m)
    PROVE  /\ pc' \in [Mains -> {"idle"} \cup Steps \cup Ended] /\ at' \in [Mains -> 1..3]
           /\ \/ pc'[m] = "done" /\ at[m] = 3 /\ UNCHANGED at
              \/ pc'[m] = "decide" /\ at[m] # 3 /\ at'[m] = at[m] + 1
           /\ \A k \in Mains \ {m} : UNCHANGED <<pc[k], at[k]>>
<1>1. at \in [Mains -> 1..3] /\ pc \in [Mains -> {"idle"} \cup Steps \cup Ended]
  BY DEF TypeOK
<1>2. CASE at[m] = 3
  BY <1>1, <1>2, OrderIs DEF Advance
<1>3. CASE at[m] # 3
  <2>1. at' = [at EXCEPT ![m] = at[m] + 1] /\ pc' = [pc EXCEPT ![m] = "decide"]
    BY <1>3, OrderIs DEF Advance
  <2>2. at[m] + 1 \in 1..3
    BY <1>1, <1>3
  <2> QED BY <1>1, <1>3, <2>1, <2>2
<1> QED BY <1>2, <1>3

\* The steps of one write.
Writes(m) == Write(m) \/ WriteMoves(m) \/ WriteEnds(m)

\* What a step of a write of group g may make of its table.
Outcome(m, g, d) ==
    \/ d = disk[g]
    \/ /\ disk[g].spoilt \subseteq d.spoilt /\ m \in d.spoilt
       /\ d.spoilt \subseteq disk[g].spoilt \cup Writing(g) \cup {m}
       /\ d.table = Unknown /\ d.trash = Unknown
    \/ /\ d.spoilt = disk[g].spoilt /\ m \notin disk[g].spoilt
       /\ {d.table, d.trash} \subseteq {m, disk[g].table, disk[g].trash, NoVersion}

LEMMA DiskMoves ==
    ASSUME TypeOK, NEW m \in Mains, NEW g \in Groups,
           NEW d \in {Table(g)!Begun(m), Table(g)!HalfDeleted(m), Table(g)!Returned(m)}
                         \cup Table(g)!Moved(m)
    PROVE  /\ d \in Disk /\ Outcome(m, g, d)
           /\ Writing(g) = {} => Table(g)!Begun(m) = disk[g]
           /\ d = Table(g)!Returned(m) => m = d.table \/ (m \in disk[g].spoilt /\ d = disk[g])
<1>1. disk[g] \in Disk /\ Writing(g) \subseteq Mains
  BY DEF TypeOK, Disk, Writing
<1>2. Writing(g) = {} => Table(g)!Begun(m) = disk[g]
  BY DEF Table!Begun
<1>3. ASSUME NEW S \in SUBSET Mains, S \subseteq Writing(g) \cup {m}, m \in S, d = Table(g)!Spoilt(S)
      PROVE  d \in Disk /\ Outcome(m, g, d)
  <2>1. d = [table |-> Unknown, trash |-> Unknown, spoilt |-> disk[g].spoilt \cup S]
    BY <1>3 DEF Table!Spoilt
  <2> QED BY <1>1, <1>3, <2>1 DEF Disk, Versions, Outcome
<1>4. ASSUME d = Table(g)!Begun(m) PROVE d \in Disk /\ Outcome(m, g, d)
  <2>1. d = disk[g] \/ d = Table(g)!Spoilt(Writing(g) \cup {m})
    BY <1>4 DEF Table!Begun
  <2>2. Writing(g) \cup {m} \in SUBSET Mains
    BY <1>1
  <2> QED BY <1>1, <1>3, <2>1, <2>2 DEF Outcome
<1>5. ASSUME d = Table(g)!HalfDeleted(m) PROVE d \in Disk /\ Outcome(m, g, d)
  BY <1>3, <1>5 DEF Table!HalfDeleted
<1>6. ASSUME d = Table(g)!Returned(m)
      PROVE  /\ d \in Disk /\ Outcome(m, g, d)
             /\ m = d.table \/ (m \in disk[g].spoilt /\ d = disk[g])
  <2>1. CASE m \in disk[g].spoilt
    BY <1>1, <1>6, <2>1 DEF Table!Returned, Outcome
  <2>2. CASE m \notin disk[g].spoilt
    <3>1. d = [table |-> m, trash |-> NoVersion, spoilt |-> disk[g].spoilt]
      BY <1>6, <2>2 DEF Table!Returned
    <3> QED BY <1>1, <2>2, <3>1 DEF Disk, Versions, Outcome
  <2> QED BY <2>1, <2>2
<1>7. ASSUME d \in Table(g)!Moved(m) PROVE d \in Disk /\ Outcome(m, g, d)
  <2>1. CASE m \in disk[g].spoilt
    BY <1>1, <1>7, <2>1 DEF Table!Moved, Outcome
  <2>2. CASE m \notin disk[g].spoilt
    <3>1. PICK v \in {m, disk[g].table, disk[g].trash, NoVersion},
               w \in {m, disk[g].table, disk[g].trash, NoVersion} :
               d = [table |-> v, trash |-> w, spoilt |-> disk[g].spoilt]
      BY <1>7, <2>2 DEF Table!Moved
    <3> QED BY <1>1, <2>2, <3>1 DEF Disk, Versions, Outcome
  <2> QED BY <2>1, <2>2
<1> QED BY <1>2, <1>4, <1>5, <1>6, <1>7

\* A step of a write moves one table, and what it puts there is noted.
LEMMA WriteMovesOne ==
    ASSUME TypeOK, NEW m \in Mains, Writes(m)
    PROVE  LET g == Group(m)
           IN  /\ g \in Groups /\ disk'[g] \in Disk /\ Outcome(m, g, disk'[g])
               /\ \A h \in Groups \ {g} : disk'[h] = disk[h] /\ published'[h] = published[h]
               /\ \/ published'[g] = published[g] \cup ({disk'[g].table} \cap Mains)
                  \/ disk'[g] = disk[g] /\ published'[g] = published[g]
               /\ disk' \in [Groups -> Disk] /\ published' \in [Groups -> SUBSET Mains]
               /\ UNCHANGED <<bronze, onRecord, args, listed, joined>>
<1> DEFINE g == Group(m)
<1>1. /\ g \in Groups /\ disk \in [Groups -> Disk] /\ published \in [Groups -> SUBSET Mains]
      /\ disk[g] \in Disk
  BY GroupType DEF TypeOK, Disk
<1>2. ASSUME NEW d, d \in Disk, Outcome(m, g, d),
             disk' = [disk EXCEPT ![g] = d],
             published' = [published EXCEPT ![g] = @ \cup ({d.table} \cap Mains)]
      PROVE  /\ disk'[g] \in Disk /\ Outcome(m, g, disk'[g])
             /\ \A h \in Groups \ {g} : disk'[h] = disk[h] /\ published'[h] = published[h]
             /\ published'[g] = published[g] \cup ({disk'[g].table} \cap Mains)
             /\ disk' \in [Groups -> Disk] /\ published' \in [Groups -> SUBSET Mains]
  <2>1. disk'[g] = d /\ published'[g] = published[g] \cup ({d.table} \cap Mains)
    BY <1>1, <1>2
  <2>2. disk' \in [Groups -> Disk] /\ published' \in [Groups -> SUBSET Mains]
    <3>1. published[g] \cup ({d.table} \cap Mains) \in SUBSET Mains
      BY <1>1
    <3> QED BY <1>1, <1>2, <3>1
  <2> QED BY <1>1, <1>2, <2>1, <2>2
<1>3. UNCHANGED <<bronze, onRecord, args, listed, joined>>
  BY DEF Writes, Write, WriteMoves, WriteEnds
<1>4. \/ UNCHANGED <<disk, published>>
      \/ \E d \in {Table(g)!Begun(m), Table(g)!HalfDeleted(m), Table(g)!Returned(m)}
                      \cup Table(g)!Moved(m) :
            /\ disk' = [disk EXCEPT ![g] = d]
            /\ published' = [published EXCEPT ![g] = @ \cup ({d.table} \cap Mains)]
  BY DEF Writes, Write, WriteMoves, WriteEnds, Becomes
<1>5. CASE UNCHANGED <<disk, published>>
  BY <1>1, <1>3, <1>5 DEF Outcome
<1>6. CASE ~UNCHANGED <<disk, published>>
  <2>1. PICK d \in {Table(g)!Begun(m), Table(g)!HalfDeleted(m), Table(g)!Returned(m)}
                      \cup Table(g)!Moved(m) :
            /\ disk' = [disk EXCEPT ![g] = d]
            /\ published' = [published EXCEPT ![g] = @ \cup ({d.table} \cap Mains)]
    BY <1>4, <1>6
  <2>2. d \in Disk /\ Outcome(m, g, d)
    BY <1>1, DiskMoves
  <2> QED BY <1>1, <1>2, <1>3, <2>1, <2>2
<1> QED BY <1>5, <1>6

LEMMA StepType == TypeOK /\ [Next]_vars => TypeOK'
<1> SUFFICES ASSUME TypeOK, [Next]_vars PROVE TypeOK'
  OBVIOUS
<1> USE DEF TypeOK
<1>1. ASSUME NEW m \in Mains, Start(m) \/ Stop(m) PROVE TypeOK'
  <2>1. CASE Start(m)
    BY <2>1 DEF Start, Versions
  <2>2. CASE Stop(m)
    BY <2>2, BoundsAssumption DEF Stop, Versions
  <2> QED BY <1>1, <2>1, <2>2
<1>2. ASSUME NEW m \in Mains, Decide(m) PROVE TypeOK'
  <2>1. pc' \in [Mains -> {"idle"} \cup Steps \cup Ended] /\ at' \in [Mains -> 1..3]
    BY <1>2, AdvanceType DEF Decide, DecideBy
  <2>2. onRecord' \in [Groups -> SUBSET Mains]
    <3>1. \/ onRecord' = onRecord
          \/ onRecord' = [onRecord EXCEPT ![Group(m)] = {k \in @ : Key[k] # Key[m]}]
      BY <1>2 DEF Decide, DecideBy
    <3>2. CASE onRecord' = [onRecord EXCEPT ![Group(m)] = {k \in @ : Key[k] # Key[m]}]
      <4>1. {k \in onRecord[Group(m)] : Key[k] # Key[m]} \in SUBSET Mains
        BY GroupType
      <4> QED BY <3>2, <4>1
    <3> QED BY <3>1, <3>2
  <2>3. UNCHANGED <<bronze, disk, published, args, listed, inMemory, joined, faults>>
    BY <1>2 DEF Decide, DecideBy
  <2> QED BY <2>1, <2>2, <2>3 DEF Versions
<1>3. ASSUME NEW m \in Mains, Build(m) PROVE TypeOK'
  <2>1. \A g \in Joined : Source(m, g) \in Versions
    BY DEF Source, Joined, Groups, Versions
  <2>2. joined' = joined \/ joined' = [joined EXCEPT ![m] = [g \in Joined |-> Source(m, g)]]
    BY <1>3 DEF Build
  <2>3. joined' \in [Mains -> [Joined -> Versions]]
    BY <2>1, <2>2
  <2>4. pc' \in [Mains -> {"idle"} \cup Steps \cup Ended]
    BY <1>3 DEF Build
  <2> QED BY <1>3, <2>3, <2>4 DEF Build, Versions
<1>4. ASSUME NEW m \in Mains, Writes(m) PROVE TypeOK'
  <2>1. /\ disk' \in [Groups -> [table : Versions, trash : Versions, spoilt : SUBSET Mains]]
        /\ published' \in [Groups -> SUBSET Mains]
        /\ UNCHANGED <<bronze, onRecord, args, listed, joined>>
    BY <1>4, WriteMovesOne DEF Disk
  <2>2. inMemory' = inMemory \/ inMemory' = [inMemory EXCEPT ![m] = @ \cup {Group(m)}]
    BY <1>4 DEF Writes, Write, WriteMoves, WriteEnds
  <2>3. inMemory' \in [Mains -> SUBSET Groups]
    <3>1. inMemory[m] \cup {Group(m)} \in SUBSET Groups
      BY GroupType
    <3> QED BY <2>2, <3>1
  <2>4. \/ Advance(m)
        \/ UNCHANGED at /\ \E step \in Steps \cup Ended : Goto(m, step)
        \/ UNCHANGED <<at, pc>>
    BY <1>4 DEF Writes, Write, WriteMoves, WriteEnds
  <2>5. pc' \in [Mains -> {"idle"} \cup Steps \cup Ended] /\ at' \in [Mains -> 1..3]
    <3>1. CASE Advance(m)
      BY <3>1, AdvanceType
    <3>2. CASE UNCHANGED at /\ \E step \in Steps \cup Ended : Goto(m, step)
      BY <3>2
    <3>3. CASE UNCHANGED <<at, pc>>
      BY <3>3
    <3> QED BY <2>4, <3>1, <3>2, <3>3
  <2>6. faults' \in 0..MaxFaults
    BY <1>4, BoundsAssumption DEF Writes, Write, WriteMoves, WriteEnds
  <2>7. /\ bronze' \in 1..MaxGenerations /\ onRecord' \in [Groups -> SUBSET Mains]
        /\ (\E launch \in Launches : args' = launch.args) /\ listed' \in [Mains -> 0..MaxGenerations]
    BY <2>1
  <2>8. joined' \in [Mains -> [Joined -> Versions]]
    BY <2>1
  <2> QED BY <2>1, <2>3, <2>5, <2>6, <2>7, <2>8
<1>5. ASSUME NEW m \in Mains, Finish(m) PROVE TypeOK'
  <2>1. onRecord' \in [Groups -> SUBSET Mains] /\ inMemory' \in [Mains -> SUBSET Groups]
    <3>1. /\ onRecord' \in {onRecord, [onRecord EXCEPT ![Group(m)] = @ \cup {m}]}
          /\ inMemory' \in {inMemory, [inMemory EXCEPT ![m] = @ \cup {Group(m)}]}
      BY <1>5 DEF Finish
    <3>2. /\ onRecord[Group(m)] \cup {m} \in SUBSET Mains
          /\ inMemory[m] \cup {Group(m)} \in SUBSET Groups
      BY GroupType
    <3>3. onRecord' \in [Groups -> SUBSET Mains]
      BY <3>1, <3>2
    <3>4. inMemory' \in [Mains -> SUBSET Groups]
      BY <3>1, <3>2
    <3> QED BY <3>3, <3>4
  <2>2. pc' \in [Mains -> {"idle"} \cup Steps \cup Ended] /\ at' \in [Mains -> 1..3]
    BY <1>5, AdvanceType DEF Finish
  <2>3. faults' \in 0..MaxFaults
    BY <1>5, BoundsAssumption DEF Finish
  <2> QED BY <1>5, <2>1, <2>2, <2>3 DEF Finish, Versions
<1>6. CASE Ingest \/ UNCHANGED vars
  BY <1>6, BoundsAssumption DEF Ingest, Versions
<1> QED BY <1>1, <1>2, <1>3, <1>4, <1>5, <1>6 DEF Next, Step, Settled, Writes

\* Every reachable state is well typed.
THEOREM TypeCorrect == Spec => []TypeOK
BY InitType, StepType, PTL DEF Spec

-----------------------------------------------------------------------------
(* Where trip_features gets its inputs. *)

\* The versions of a group that were in place, or still may come there.
Kept(g) == published[g] \cup ({disk[g].trash} \cap Mains)

\* What is in place was published, and so was what a main has in memory or is
\* about to acknowledge, unless its write was spoilt; no spoilt version is where
\* a reader could take it for a whole one.
Backed ==
    /\ \A g \in Groups :
          /\ disk[g].table \in Mains => disk[g].table \in published[g]
          /\ {disk[g].table, disk[g].trash} \cap disk[g].spoilt = {}
          /\ Unknown \in {disk[g].table, disk[g].trash} => disk[g].spoilt # {}
    /\ \A m \in Mains, g \in Groups : g \in inMemory[m] => m \in published[g] \cup disk[g].spoilt
    /\ \A m \in Mains : pc[m] = "finish" => m \in published[Group(m)] \cup disk[Group(m)].spoilt

\* trip_features is the last group of its main, which has in memory whatever
\* else it built ...
InOrder(m) ==
    /\ m \in Kept("trip_features") => at[m] = 3 /\ pc[m] \in {"writing", "finish", "done", "failed"}
    /\ \A g \in Joined : m \in Kept(g) /\ pc[m] \in {"idle"} \cup Steps
          => g \in inMemory[m] \/ (pc[m] \in {"writing", "finish"} /\ Group(m) = g)

\* ... and joined published versions, its own of a group where there is one.
Certified(g) == published[g] \cup disk[g].spoilt \cup (IF disk[g].spoilt = {} THEN {} ELSE {Unknown})
JoinedWell(m) ==
    m \in Kept("trip_features") \/ (at[m] = 3 /\ pc[m] \in {"write", "writing", "finish"})
        => \A g \in Joined : /\ joined[m][g] \in Certified(g)
                             /\ m \in Kept(g) => joined[m][g] = m

MainInvariant == TypeOK /\ Backed /\ \A m \in Mains : InOrder(m) /\ JoinedWell(m)

\* A step of m leaves the other mains' variables alone.
LEMMA OthersStay ==
    ASSUME TypeOK, NEW m \in Mains, Start(m) \/ Step(m) \/ WriteMoves(m) \/ Stop(m)
    PROVE  /\ UNCHANGED args
           /\ \A k \in Mains \ {m} : UNCHANGED <<pc[k], at[k], inMemory[k], joined[k], Group(k)>>
<1> USE DEF TypeOK
<1>1. CASE Start(m) \/ Stop(m) \/ WriteMoves(m) \/ Write(m)
  BY <1>1 DEF Start, Stop, WriteMoves, Write, Group
<1>2. CASE Decide(m)
  BY <1>2, AdvanceType DEF Decide, DecideBy, Group
<1>3. CASE Build(m)
  BY <1>3 DEF Build, Group
<1>4. CASE WriteEnds(m)
  <2>1. (Advance(m) \/ (UNCHANGED at /\ \E step : Goto(m, step))) /\ UNCHANGED <<args, joined>>
    BY <1>4 DEF WriteEnds
  <2>2. inMemory' = inMemory \/ inMemory' = [inMemory EXCEPT ![m] = @ \cup {Group(m)}]
    BY <1>4 DEF WriteEnds
  <2>3. \A k \in Mains \ {m} : UNCHANGED <<pc[k], at[k]>>
    BY <2>1, AdvanceType
  <2> QED BY <2>1, <2>2, <2>3 DEF Group
<1>5. CASE Finish(m)
  <2>1. (Advance(m) \/ (UNCHANGED at /\ Goto(m, "failed"))) /\ UNCHANGED <<args, joined>>
    BY <1>5 DEF Finish
  <2>2. inMemory' = inMemory \/ inMemory' = [inMemory EXCEPT ![m] = @ \cup {Group(m)}]
    BY <1>5 DEF Finish
  <2>3. \A k \in Mains \ {m} : UNCHANGED <<pc[k], at[k]>>
    BY <2>1, AdvanceType
  <2> QED BY <2>1, <2>2, <2>3 DEF Group
<1> QED BY <1>1, <1>2, <1>3, <1>4, <1>5 DEF Step

\* A step that writes nothing and builds no frame.
LEMMA QuietStep ==
    ASSUME MainInvariant, TypeOK', NEW m \in Mains, Start(m) \/ Step(m) \/ WriteMoves(m) \/ Stop(m),
           UNCHANGED <<disk, published, joined>>,
           \A g \in Groups : g \in inMemory'[m] => m \in published[g] \cup disk[g].spoilt,
           inMemory[m] \subseteq inMemory'[m],
           pc'[m] \in {"decide", "build", "failed", "done"},
           m \in Kept("trip_features") => UNCHANGED at[m] /\ pc'[m] \in {"failed", "done"},
           pc[m] \in {"writing", "finish"} /\ pc'[m] \in Steps => Group(m) \in inMemory'[m],
           pc[m] \in {"idle"} \cup Steps
    PROVE  MainInvariant'
<1>1. /\ \A k \in Mains \ {m} : UNCHANGED <<pc[k], at[k], inMemory[k], joined[k], Group(k)>>
      /\ TypeOK /\ Backed /\ \A k \in Mains : InOrder(k) /\ JoinedWell(k)
  BY OthersStay DEF MainInvariant
<1>2. Backed'
  BY <1>1 DEF Backed
<1>3. \A g : Kept(g)' = Kept(g) /\ Certified(g)' = Certified(g)
  BY DEF Kept, Certified
<1>4. \A k \in Mains \ {m} : InOrder(k)' /\ JoinedWell(k)'
  BY <1>1, <1>3 DEF InOrder, JoinedWell
<1>5. InOrder(m)'
  BY <1>1, <1>3 DEF InOrder
<1>6. JoinedWell(m)'
  BY <1>1, <1>3 DEF JoinedWell
<1> QED BY <1>2, <1>4, <1>5, <1>6 DEF MainInvariant

\* What a step of a write of m does to the table and the noted versions.
LEMMA WriteKeepsTables ==
    ASSUME MainInvariant, TypeOK', NEW m \in Mains, Writes(m), NEW own, own = Group(m)
    PROVE  /\ own \in Groups
           /\ published'[own] = published[own] \cup ({disk'[own].table} \cap Mains)
           /\ \A g \in Groups :
                 /\ disk'[g].table \in Mains => disk'[g].table \in published'[g]
                 /\ {disk'[g].table, disk'[g].trash} \cap disk'[g].spoilt = {}
                 /\ Unknown \in {disk'[g].table, disk'[g].trash} => disk'[g].spoilt # {}
                 /\ published[g] \subseteq published'[g] /\ disk[g].spoilt \subseteq disk'[g].spoilt
                 /\ Certified(g) \subseteq Certified(g)'
                 /\ Kept(g)' \subseteq Kept(g) \cup (IF g = own THEN {m} ELSE {})
           /\ \A g \in Groups \ {own} : UNCHANGED <<disk[g], published[g]>>
<1>1. /\ own \in Groups /\ Outcome(m, own, disk'[own]) /\ disk'[own] \in Disk
      /\ \A g \in Groups \ {own} : disk'[g] = disk[g] /\ published'[g] = published[g]
      /\ \/ published'[own] = published[own] \cup ({disk'[own].table} \cap Mains)
         \/ disk'[own] = disk[own] /\ published'[own] = published[own]
  BY WriteMovesOne DEF MainInvariant
<1>2. \A g \in Groups :
          /\ disk[g].table \in Mains => disk[g].table \in published[g]
          /\ {disk[g].table, disk[g].trash} \cap disk[g].spoilt = {}
          /\ Unknown \in {disk[g].table, disk[g].trash} => disk[g].spoilt # {}
          /\ disk[g] \in Disk
  BY DEF MainInvariant, Backed, TypeOK, Disk
<1>3. published'[own] = published[own] \cup ({disk'[own].table} \cap Mains)
  <2>1. CASE disk'[own] = disk[own] /\ published'[own] = published[own]
    BY <1>1, <1>2, <2>1
  <2> QED BY <1>1, <2>1
<1>4. /\ disk[own].spoilt \subseteq disk'[own].spoilt /\ published[own] \subseteq published'[own]
      /\ disk'[own].table \in Mains => disk'[own].table \in published'[own]
  BY <1>1, <1>3 DEF Outcome
<1>5. /\ {disk'[own].table, disk'[own].trash} \cap disk'[own].spoilt = {}
      /\ Unknown \in {disk'[own].table, disk'[own].trash} => disk'[own].spoilt # {}
  <2>1. Unknown \notin disk'[own].spoilt /\ NoVersion \notin disk'[own].spoilt
    BY <1>1, MainsAssumption DEF Disk
  <2>2. disk[own].table \notin disk[own].spoilt /\ disk[own].trash \notin disk[own].spoilt
    BY <1>1, <1>2
  <2>3. m # Unknown /\ NoVersion # Unknown
    BY MainsAssumption
  <2> QED BY <1>1, <1>2, <2>1, <2>2, <2>3 DEF Outcome
<1>6. Kept(own)' \subseteq Kept(own) \cup {m}
  <2> SUFFICES ASSUME NEW k \in Mains, k \in {disk'[own].table, disk'[own].trash}
               PROVE  k \in Kept(own) \cup {m}
    BY <1>3 DEF Kept
  <2>1. k \in {m, disk[own].table, disk[own].trash}
    BY <1>1, MainsAssumption DEF Outcome
  <2> QED BY <1>1, <1>2, <2>1 DEF Kept
<1>7. Certified(own) \subseteq Certified(own)'
  BY <1>4 DEF Certified
<1>8. \A g \in Groups \ {own} : Kept(g)' = Kept(g) /\ Certified(g)' = Certified(g)
  BY <1>1 DEF Kept, Certified
<1> QED BY <1>1, <1>2, <1>3, <1>4, <1>5, <1>6, <1>7, <1>8

\* Where a step of a write takes its main.
LEMMA WriteGoes ==
    ASSUME TypeOK, NEW m \in Mains, Writes(m), NEW own, own = Group(m)
    PROVE  /\ pc[m] \in {"write", "writing"}
           /\ \/ pc'[m] = "writing" /\ UNCHANGED <<at, inMemory>>
              \/ pc'[m] = "failed" /\ pc[m] = "writing" /\ UNCHANGED <<at, inMemory>>
              \/ /\ pc[m] = "writing" /\ (disk'[own].table = m \/ m \in disk[own].spoilt)
                 /\ \/ pc'[m] = "finish" /\ UNCHANGED <<at, inMemory>>
                    \/ /\ inMemory'[m] = inMemory[m] \cup {own}
                       /\ \/ pc'[m] = "done" /\ at[m] = 3 /\ UNCHANGED at
                          \/ pc'[m] = "decide" /\ at[m] # 3 /\ at'[m] = at[m] + 1
<1>0. own \in Groups /\ disk[own] \in Disk
  BY GroupType DEF TypeOK, Disk
<1>1. CASE Write(m) \/ WriteMoves(m)
  BY <1>1 DEF Write, WriteMoves, TypeOK
<1>2. CASE WriteEnds(m)
  <2>1. CASE Goto(m, "failed") /\ UNCHANGED <<disk, published, at, inMemory>>
    BY <1>2, <2>1 DEF WriteEnds, TypeOK
  <2>2. CASE Becomes(m, {Table(own)!Returned(m)})
    <3>1. disk' = [disk EXCEPT ![own] = Table(own)!Returned(m)]
      BY <2>2 DEF Becomes
    <3>2. disk'[own].table = m \/ m \in disk[own].spoilt
      BY <1>0, <3>1, DiskMoves DEF TypeOK
    <3>3. \/ Goto(m, "failed") /\ UNCHANGED <<disk, published, at, inMemory>>
          \/ Goto(m, "finish") /\ UNCHANGED <<at, inMemory>>
          \/ Advance(m) /\ inMemory' = [inMemory EXCEPT ![m] = @ \cup {own}]
      BY <1>2 DEF WriteEnds
    <3>4. CASE Goto(m, "finish") /\ UNCHANGED <<at, inMemory>>
      BY <1>2, <3>2, <3>4 DEF WriteEnds, TypeOK
    <3>5. CASE Advance(m) /\ inMemory' = [inMemory EXCEPT ![m] = @ \cup {own}]
      BY <1>2, <3>2, <3>5, AdvanceType DEF WriteEnds, TypeOK
    <3> QED BY <2>1, <3>3, <3>4, <3>5
  <2> QED BY <1>2, <2>1, <2>2 DEF WriteEnds
<1> QED BY <1>1, <1>2 DEF Writes

LEMMA WriteKeepsMains ==
    ASSUME MainInvariant, TypeOK', NEW m \in Mains, Writes(m)
    PROVE  MainInvariant'
<1>0. TypeOK /\ Backed /\ \A k \in Mains : InOrder(k) /\ JoinedWell(k)
  BY DEF MainInvariant
<1>1. PICK own \in Groups : own = Group(m)
  BY <1>0, GroupType
<1>2. /\ published'[own] = published[own] \cup ({disk'[own].table} \cap Mains)
      /\ \A g \in Groups :
            /\ disk'[g].table \in Mains => disk'[g].table \in published'[g]
            /\ {disk'[g].table, disk'[g].trash} \cap disk'[g].spoilt = {}
            /\ Unknown \in {disk'[g].table, disk'[g].trash} => disk'[g].spoilt # {}
            /\ published[g] \subseteq published'[g] /\ disk[g].spoilt \subseteq disk'[g].spoilt
            /\ Certified(g) \subseteq Certified(g)'
            /\ Kept(g)' \subseteq Kept(g) \cup (IF g = own THEN {m} ELSE {})
  BY <1>1, WriteKeepsTables
<1>3. /\ pc[m] \in {"write", "writing"}
      /\ \/ pc'[m] = "writing" /\ UNCHANGED <<at, inMemory>>
         \/ pc'[m] = "failed" /\ pc[m] = "writing" /\ UNCHANGED <<at, inMemory>>
         \/ /\ pc[m] = "writing" /\ (disk'[own].table = m \/ m \in disk[own].spoilt)
            /\ \/ pc'[m] = "finish" /\ UNCHANGED <<at, inMemory>>
               \/ /\ inMemory'[m] = inMemory[m] \cup {own}
                  /\ \/ pc'[m] = "done" /\ at[m] = 3 /\ UNCHANGED at
                     \/ pc'[m] = "decide" /\ at[m] # 3 /\ at'[m] = at[m] + 1
  BY <1>0, <1>1, WriteGoes
<1>4. /\ \A k \in Mains \ {m} : UNCHANGED <<pc[k], at[k], inMemory[k], joined[k], Group(k)>>
      /\ UNCHANGED joined
      /\ UNCHANGED at[m] => Group(m)' = own
      /\ at[m] = 3 <=> own = "trip_features"
  <2>1. \A k \in Mains \ {m} : UNCHANGED <<pc[k], at[k], inMemory[k], joined[k], Group(k)>>
    BY <1>0, OthersStay DEF Step, Writes
  <2> QED BY <1>0, <1>1, <2>1, GroupType, WriteMovesOne DEF Group
<1>5. m \in published'[own] \cup disk'[own].spoilt \/ pc'[m] \in {"writing", "failed"}
  BY <1>2, <1>3
<1>6. Backed'
  <2>1. \A k \in Mains, g \in Groups : g \in inMemory'[k] => k \in published'[g] \cup disk'[g].spoilt
    <3> SUFFICES ASSUME NEW k \in Mains, NEW g \in Groups, g \in inMemory'[k]
                 PROVE  k \in published'[g] \cup disk'[g].spoilt
      OBVIOUS
    <3>1. CASE g \in inMemory[k]
      <4>1. k \in published[g] \cup disk[g].spoilt
        BY <1>0, <3>1 DEF Backed
      <4> QED BY <1>2, <4>1
    <3>2. CASE g \notin inMemory[k]
      <4>1. k = m /\ g = own /\ pc'[m] \notin {"writing", "failed"}
        BY <1>3, <1>4, <3>2
      <4> QED BY <1>5, <4>1
    <3> QED BY <3>1, <3>2
  <2>2. \A k \in Mains : pc'[k] = "finish" => k \in published'[Group(k)'] \cup disk'[Group(k)'].spoilt
    <3> SUFFICES ASSUME NEW k \in Mains, pc'[k] = "finish"
                 PROVE  k \in published'[Group(k)'] \cup disk'[Group(k)'].spoilt
      OBVIOUS
    <3>1. CASE k = m
      BY <1>3, <1>4, <1>5, <3>1
    <3>2. CASE k # m
      <4>1. pc[k] = "finish" /\ Group(k)' = Group(k) /\ Group(k) \in Groups
        BY <1>0, <1>4, <3>2, GroupType
      <4>2. k \in published[Group(k)] \cup disk[Group(k)].spoilt
        BY <1>0, <4>1 DEF Backed
      <4> QED BY <1>2, <4>1, <4>2
    <3> QED BY <3>1, <3>2
  <2> QED BY <1>2, <2>1, <2>2 DEF Backed
<1>7. "trip_features" \in Groups /\ Joined \subseteq Groups \ {"trip_features"}
  BY DEF Groups, Joined
<1>8. \A k \in Mains \ {m}, g \in Groups : k \in Kept(g)' => k \in Kept(g)
  BY <1>2
<1>9. \A k \in Mains \ {m} : InOrder(k)' /\ JoinedWell(k)'
  <2> SUFFICES ASSUME NEW k \in Mains \ {m} PROVE InOrder(k)' /\ JoinedWell(k)'
    OBVIOUS
  <2>1. UNCHANGED <<pc[k], at[k], inMemory[k], joined[k], Group(k)>> /\ InOrder(k) /\ JoinedWell(k)
    BY <1>0, <1>4
  <2>2. InOrder(k)'
    BY <1>7, <1>8, <2>1 DEF InOrder
  <2>3. JoinedWell(k)'
    BY <1>2, <1>7, <1>8, <2>1 DEF JoinedWell
  <2> QED BY <2>2, <2>3
<1>10. /\ m \in Kept("trip_features")' => at[m] = 3
       /\ at[m] = 3 => \A g \in Joined : m \in Kept(g)' => m \in Kept(g)
  BY <1>0, <1>2, <1>4, <1>7 DEF InOrder
<1>11. InOrder(m)'
  <2>1. m \in Kept("trip_features")' => at'[m] = 3 /\ pc'[m] \in {"writing", "finish", "done", "failed"}
    BY <1>3, <1>10
  <2>2. ASSUME NEW g \in Joined, m \in Kept(g)', pc'[m] \in {"idle"} \cup Steps
        PROVE  g \in inMemory'[m] \/ (pc'[m] \in {"writing", "finish"} /\ Group(m)' = g)
    <3>1. CASE g = own
      BY <1>3, <1>4, <2>2, <3>1
    <3>2. CASE g # own
      <4>1. m \in Kept(g)
        BY <1>2, <1>7, <2>2, <3>2
      <4>2. g \in inMemory[m]
        BY <1>0, <1>1, <1>3, <3>2, <4>1 DEF InOrder
      <4> QED BY <1>3, <4>2
    <3> QED BY <3>1, <3>2
  <2> QED BY <2>1, <2>2 DEF InOrder
<1>12. JoinedWell(m)'
  <2> SUFFICES ASSUME m \in Kept("trip_features")' \/ (at'[m] = 3 /\ pc'[m] \in {"write", "writing", "finish"}),
                      NEW g \in Joined
               PROVE  joined'[m][g] \in Certified(g)' /\ (m \in Kept(g)' => joined'[m][g] = m)
    BY DEF JoinedWell
  <2>1. at[m] = 3
    BY <1>3, <1>10
  <2>2. joined[m][g] \in Certified(g) /\ (m \in Kept(g) => joined[m][g] = m)
    BY <1>0, <1>3, <2>1 DEF JoinedWell
  <2> QED BY <1>2, <1>4, <1>7, <1>10, <2>1, <2>2
<1> QED BY <1>6, <1>9, <1>11, <1>12 DEF MainInvariant

LEMMA StepKeepsMains == MainInvariant /\ [Next]_vars => MainInvariant'
<1> SUFFICES ASSUME MainInvariant, [Next]_vars PROVE MainInvariant'
  OBVIOUS
<1>0. TypeOK /\ TypeOK' /\ Backed /\ \A m \in Mains : InOrder(m) /\ JoinedWell(m)
  BY StepType DEF MainInvariant
<1>1. ASSUME NEW m \in Mains, Start(m) \/ Stop(m) PROVE MainInvariant'
  <2>1. /\ UNCHANGED <<disk, published, joined, inMemory, at>>
        /\ \/ pc[m] = "idle" /\ pc'[m] = "decide"
           \/ pc[m] \in Steps /\ pc'[m] = "failed"
    <3>1. CASE Start(m)
      BY <1>0, <3>1 DEF Start, TypeOK
    <3>2. CASE Stop(m)
      BY <1>0, <3>2 DEF Stop, TypeOK
    <3> QED BY <1>1, <3>1, <3>2
  <2> QED BY <1>0, <1>1, <2>1, QuietStep DEF Backed, InOrder
<1>2. ASSUME NEW m \in Mains, Decide(m) PROVE MainInvariant'
  <2>1. /\ UNCHANGED <<disk, published, joined, inMemory>>
        /\ pc[m] = "decide" /\ pc'[m] \in {"done", "decide", "build"}
    BY <1>0, <1>2, AdvanceType DEF Decide, DecideBy, TypeOK
  <2> QED BY <1>0, <1>2, <2>1, QuietStep DEF Backed, InOrder, Step
<1>3. ASSUME NEW m \in Mains, Build(m) PROVE MainInvariant'
  <2>1. pc[m] = "build" /\ UNCHANGED <<disk, published, inMemory, at>>
    BY <1>3 DEF Build
  <2>2. m \notin Kept("trip_features")
    BY <1>0, <2>1 DEF InOrder
  <2>3. CASE pc' = [pc EXCEPT ![m] = "failed"] /\ UNCHANGED joined
    <3>1. pc'[m] = "failed"
      BY <1>0, <2>3 DEF TypeOK
    <3> QED BY <1>0, <1>3, <2>1, <2>2, <2>3, <3>1, QuietStep DEF Backed, Step
  <2>4. CASE /\ Computable(m) /\ Goto(m, "write")
             /\ joined' = IF Group(m) = "trip_features"
                          THEN [joined EXCEPT ![m] = [g \in Joined |-> Source(m, g)]]
                          ELSE joined
    <3>1. pc'[m] = "write" /\ Group(m)' = Group(m)
      BY <1>0, <2>1, <2>4 DEF TypeOK, Group
    <3>2. \A k \in Mains \ {m} : UNCHANGED <<pc[k], at[k], inMemory[k], joined[k], Group(k)>>
      BY <1>0, <1>3, OthersStay DEF Step
    <3>3. Backed'
      BY <1>0, <2>1, <3>1, <3>2 DEF Backed
    <3>4. \A g : Kept(g)' = Kept(g) /\ Certified(g)' = Certified(g)
      BY <2>1 DEF Kept, Certified
    <3>5. \A k \in Mains : InOrder(k)'
      BY <1>0, <2>1, <2>2, <3>1, <3>2, <3>4 DEF InOrder
    <3>6. JoinedWell(m)'
      <4> SUFFICES ASSUME at[m] = 3, NEW g \in Joined
                   PROVE  /\ joined'[m][g] \in Certified(g)
                          /\ m \in Kept(g) => joined'[m][g] = m
        BY <2>1, <2>2, <3>4 DEF JoinedWell
      <4>1. Group(m) = "trip_features"
        BY <1>0, GroupType
      <4>2. joined'[m][g] = Source(m, g)
        BY <1>0, <2>4, <4>1 DEF TypeOK
      <4>3. Source(m, g) # NoVersion /\ g \in Groups
        BY <2>4, <4>1 DEF Computable, Joined, Groups
      <4>4. m \in Kept(g) => g \in inMemory[m]
        BY <1>0, <2>1 DEF InOrder
      <4>5. CASE g \in inMemory[m]
        <5>1. m \in published[g] \cup disk[g].spoilt
          BY <1>0, <4>3, <4>5 DEF Backed
        <5> QED BY <4>2, <4>5, <5>1 DEF Source, Certified
      <4>6. CASE g \notin inMemory[m]
        <5>1. joined'[m][g] = disk[g].table /\ disk[g].table \in Mains \cup {Unknown}
          BY <1>0, <4>2, <4>3, <4>6 DEF Source, TypeOK, Versions
        <5>2. /\ disk[g].table \in Mains => disk[g].table \in published[g]
              /\ disk[g].table = Unknown => disk[g].spoilt # {}
          BY <1>0, <4>3 DEF Backed
        <5> QED BY <4>4, <4>6, <5>1, <5>2 DEF Certified
      <4> QED BY <4>5, <4>6
    <3>7. \A k \in Mains \ {m} : JoinedWell(k)'
      BY <1>0, <3>2, <3>4 DEF JoinedWell
    <3> QED BY <1>0, <3>3, <3>5, <3>6, <3>7 DEF MainInvariant
  <2> QED BY <1>3, <2>3, <2>4 DEF Build
<1>4. ASSUME NEW m \in Mains, Writes(m) PROVE MainInvariant'
  BY <1>0, <1>4, WriteKeepsMains
<1>5. ASSUME NEW m \in Mains, Finish(m) PROVE MainInvariant'
  <2>1. /\ UNCHANGED <<disk, published, joined>> /\ pc[m] = "finish" /\ Group(m) \in Groups
        /\ m \in published[Group(m)] \cup disk[Group(m)].spoilt
    BY <1>0, <1>5, GroupType DEF Finish, Backed
  <2>2. \/ /\ inMemory' = [inMemory EXCEPT ![m] = @ \cup {Group(m)}]
           /\ \/ pc'[m] = "done" /\ UNCHANGED at
              \/ pc'[m] = "decide" /\ at[m] # 3
        \/ UNCHANGED <<at, inMemory>> /\ pc'[m] = "failed"
    BY <1>0, <1>5, AdvanceType DEF Finish, TypeOK
  <2>3. /\ inMemory[m] \subseteq inMemory'[m]
        /\ \A g \in Groups : g \in inMemory'[m] => m \in published[g] \cup disk[g].spoilt
        /\ pc'[m] # "failed" => Group(m) \in inMemory'[m]
    BY <1>0, <2>1, <2>2 DEF Backed, TypeOK
  <2>4. m \in Kept("trip_features") => at[m] = 3
    BY <1>0 DEF InOrder
  <2> QED BY <1>0, <1>5, <2>1, <2>2, <2>3, <2>4, QuietStep DEF Step
<1>6. CASE Ingest \/ UNCHANGED vars
  <2>1. UNCHANGED <<disk, published, joined, inMemory, at, pc>>
    BY <1>6 DEF Ingest
  <2>2. \A g : Kept(g)' = Kept(g) /\ Certified(g)' = Certified(g)
    BY <2>1 DEF Kept, Certified
  <2>3. Backed'
    BY <1>0, <2>1 DEF Backed, Group
  <2>4. \A m \in Mains : InOrder(m)' /\ JoinedWell(m)'
    BY <1>0, <2>1, <2>2 DEF InOrder, JoinedWell, Group
  <2> QED BY <1>0, <2>3, <2>4 DEF MainInvariant
<1> QED BY <1>1, <1>2, <1>3, <1>4, <1>5, <1>6 DEF Next, Step, Settled, Writes

LEMMA InitMains == Init => MainInvariant
<1> SUFFICES ASSUME Init PROVE MainInvariant
  OBVIOUS
<1>1. TypeOK /\ \A m \in Mains : Group(m) \in Groups
  BY InitType, GroupType
<1>2. /\ \A g \in Groups : disk[g].table = NoVersion /\ Kept(g) = {}
      /\ \A m \in Mains : pc[m] \in {"idle", "absent"} /\ inMemory[m] = {}
  BY MainsAssumption DEF Init, Kept
<1>3. Backed
  BY <1>2, MainsAssumption DEF Backed, Init
<1> QED BY <1>1, <1>2, <1>3 DEF MainInvariant, InOrder, JoinedWell, Joined, Groups

\* trip_features joins only what was in place, or what spoilt writes made, in
\* whatever way mains overlap, skip groups, fail or leave an older table.
THEOREM InputsPublished == Spec => []InputsWerePublished
<1>1. MainInvariant => InputsWerePublished
  <2> SUFFICES ASSUME MainInvariant, NEW m \in published["trip_features"], NEW g \in Joined
               PROVE  joined[m][g] \in Certified(g)
    BY DEF InputsWerePublished, Certified
  <2>1. m \in Mains /\ m \in Kept("trip_features")
    BY DEF MainInvariant, TypeOK, Kept, Groups
  <2> QED BY <2>1 DEF MainInvariant, JoinedWell
<1> QED BY <1>1, InitMains, StepKeepsMains, PTL DEF Spec

\* What a main builds, it builds from one bronze content.
THEOREM SameGeneration == Spec => []OneGeneration
<1>1. MainInvariant => OneGeneration
  <2> SUFFICES ASSUME MainInvariant, NEW m \in published["trip_features"], NEW g \in Joined,
                      m \in published[g]
               PROVE  joined[m][g] \in Mains /\ listed[joined[m][g]] = listed[m]
    BY DEF OneGeneration
  <2>1. m \in Mains /\ m \in Kept("trip_features") /\ m \in Kept(g)
    BY DEF MainInvariant, TypeOK, Kept, Groups
  <2>2. joined[m][g] = m
    BY <2>1 DEF MainInvariant, JoinedWell
  <2> QED BY <2>1, <2>2
<1> QED BY <1>1, InitMains, StepKeepsMains, PTL DEF Spec

-----------------------------------------------------------------------------
(* Each group as FeatureGroup has it. *)

\* Main m has come past group g, or is at one of these steps of it.
Past(m, g, steps) ==
    /\ pc[m] # "idle"
    /\ \E i \in 1..3 : /\ Order[i] = g
                       /\ i < at[m] \/ (i = at[m] /\ pc[m] \in steps \cup Ended)

\* Only a main that came to write a group is spoilt there, and only one that is
\* past it is on record.
Reached ==
    \A m \in Mains, g \in Groups :
        /\ m \in disk[g].spoilt => Past(m, g, {"writing", "finish"})
        /\ m \in onRecord[g] => Past(m, g, {}) /\ m \in published[g] \cup disk[g].spoilt

LEMMA OrderIsOnce ==
    /\ \A i, j \in 1..3 : Order[i] = Order[j] => i = j
    /\ \A i \in 1..3 : Order[i] \in Groups
    /\ \A g \in Groups : \E i \in 1..3 : Order[i] = g
BY OrderIs DEF Groups

\* A main only ever goes on.
LEMMA PastStays ==
    ASSUME TypeOK, TypeOK', NEW m \in Mains, NEW g, NEW steps \in {{}, {"writing", "finish"}},
           \/ UNCHANGED <<pc[m], at[m]>>
           \/ /\ pc[m] \in {"idle"} \cup Steps /\ pc'[m] # "idle"
              /\ \/ at'[m] = at[m] + 1
                 \/ /\ at'[m] = at[m]
                    /\ pc[m] \in {"writing", "finish"} => pc'[m] \in {"writing", "finish"} \cup Ended,
           Past(m, g, steps)
    PROVE  Past(m, g, steps)'
<1>1. PICK i \in 1..3 : Order[i] = g /\ (i < at[m] \/ (i = at[m] /\ pc[m] \in steps \cup Ended))
  BY DEF Past
<1>2. at[m] \in 1..3 /\ at'[m] \in 1..3
  BY DEF TypeOK
<1>3. pc'[m] # "idle"
  BY DEF Past
<1>4. i < at'[m] \/ (i = at'[m] /\ pc'[m] \in steps \cup Ended)
  BY <1>1, <1>2
<1> QED BY <1>1, <1>3, <1>4 DEF Past

\* Where the steps take a main.
LEMMA MainsGoOn ==
    ASSUME TypeOK, NEW m \in Mains, Start(m) \/ Step(m) \/ WriteMoves(m) \/ Stop(m), NEW k \in Mains
    PROVE  \/ UNCHANGED <<pc[k], at[k]>>
           \/ /\ pc[k] \in {"idle"} \cup Steps /\ pc'[k] # "idle"
              /\ \/ at'[k] = at[k] + 1
                 \/ /\ at'[k] = at[k]
                    /\ pc[k] \in {"writing", "finish"} => pc'[k] \in {"writing", "finish"} \cup Ended
<1>1. CASE k # m
  BY <1>1, OthersStay
<1>2. CASE k = m
  <2>1. CASE Start(m) \/ Stop(m)
    BY <1>2, <2>1 DEF Start, Stop, TypeOK
  <2>2. CASE Decide(m)
    BY <1>2, <2>2, AdvanceType DEF Decide, DecideBy, TypeOK
  <2>3. CASE Build(m)
    BY <1>2, <2>3 DEF Build, TypeOK
  <2>4. CASE Writes(m)
    BY <1>2, <2>4, WriteGoes
  <2>5. CASE Finish(m)
    BY <1>2, <2>5, AdvanceType DEF Finish, TypeOK
  <2> QED BY <2>1, <2>2, <2>3, <2>4, <2>5 DEF Step, Writes
<1> QED BY <1>1, <1>2

LEMMA StepKeepsReached == MainInvariant /\ Reached /\ [Next]_vars => Reached'
<1> SUFFICES ASSUME MainInvariant, Reached, [Next]_vars PROVE Reached'
  OBVIOUS
<1>0. TypeOK /\ TypeOK'
  BY StepType DEF MainInvariant
<1>1. ASSUME NEW m \in Mains, Start(m) \/ Step(m) \/ WriteMoves(m) \/ Stop(m) PROVE Reached'
  <2>1. \A k \in Mains, g \in Groups, steps \in {{}, {"writing", "finish"}} :
           Past(k, g, steps) => Past(k, g, steps)'
    BY <1>0, <1>1, MainsGoOn, PastStays
  <2>2. ASSUME UNCHANGED disk, NEW k \in Mains, NEW g \in Groups, k \in disk'[g].spoilt
        PROVE  Past(k, g, {"writing", "finish"})'
    BY <2>1, <2>2 DEF Reached
  <2>3. ASSUME UNCHANGED <<disk, published>>, NEW k \in Mains, NEW g \in Groups, k \in onRecord[g]
        PROVE  Past(k, g, {})' /\ k \in published'[g] \cup disk'[g].spoilt
    BY <2>1, <2>3 DEF Reached
  <2>4. CASE Start(m) \/ Decide(m) \/ Build(m) \/ Stop(m)
    <3>1. /\ UNCHANGED <<disk, published>>
          /\ \/ UNCHANGED onRecord
             \/ onRecord' = [onRecord EXCEPT ![Group(m)] = {k \in @ : Key[k] # Key[m]}]
      BY <2>4 DEF Start, Decide, DecideBy, Build, Stop
    <3>2. \A g \in Groups : onRecord'[g] \subseteq onRecord[g]
      <4>1. onRecord \in [Groups -> SUBSET Mains]
        BY <1>0 DEF TypeOK
      <4> QED BY <3>1, <4>1
    <3>3. ASSUME NEW k \in Mains, NEW g \in Groups, k \in onRecord'[g]
          PROVE  Past(k, g, {})' /\ k \in published'[g] \cup disk'[g].spoilt
      BY <2>3, <3>1, <3>2, <3>3
    <3>4. ASSUME NEW k \in Mains, NEW g \in Groups, k \in disk'[g].spoilt
          PROVE  Past(k, g, {"writing", "finish"})'
      BY <2>2, <3>1, <3>4
    <3> QED BY <3>3, <3>4 DEF Reached
  <2>5. CASE Finish(m)
    <3>1. /\ UNCHANGED <<disk, published>> /\ pc[m] = "finish" /\ Group(m) \in Groups
          /\ \A g \in Groups : onRecord'[g] \subseteq onRecord[g] \cup (IF g = Group(m) THEN {m} ELSE {})
      BY <1>0, <2>5, GroupType DEF Finish, TypeOK
    <3>2. ASSUME NEW g \in Groups, g = Group(m) PROVE Past(m, g, {})'
      <4>1. /\ at[m] \in 1..3 /\ Order[at[m]] = g
            /\ \/ at'[m] = at[m] + 1 /\ pc'[m] = "decide"
               \/ at'[m] = at[m] /\ pc'[m] \in {"done", "failed"}
        BY <1>0, <2>5, <3>2, AdvanceType DEF Finish, TypeOK, Group
      <4>2. at[m] < at'[m] \/ (at[m] = at'[m] /\ pc'[m] \in {} \cup Ended)
        BY <4>1
      <4>3. pc'[m] # "idle"
        BY <4>1
      <4> QED BY <4>1, <4>2, <4>3 DEF Past
    <3>3. \A g \in Groups : g = Group(m) => m \in published[g] \cup disk[g].spoilt
      BY <3>1 DEF MainInvariant, Backed
    <3> QED BY <2>2, <2>3, <3>1, <3>2, <3>3 DEF Reached
  <2>6. CASE Writes(m)
    <3>1. PICK own \in Groups : own = Group(m)
      BY <1>0, GroupType
    <3>2. /\ UNCHANGED onRecord /\ Outcome(m, own, disk'[own])
          /\ \A g \in Groups : g # own => disk'[g] = disk[g]
      BY <1>0, <2>6, <3>1, WriteMovesOne
    <3>3. \A g \in Groups : published[g] \subseteq published'[g] /\ disk[g].spoilt \subseteq disk'[g].spoilt
      BY <1>0, <2>6, <3>1, WriteKeepsTables
    <3>4. \A k \in Mains, g \in Groups :
             k \in onRecord'[g] => Past(k, g, {})' /\ k \in published'[g] \cup disk'[g].spoilt
      BY <2>1, <3>2, <3>3 DEF Reached
    <3>5. ASSUME NEW k \in Mains, k \in disk'[own].spoilt PROVE Past(k, own, {"writing", "finish"})'
      <4>1. CASE k \in disk[own].spoilt
        BY <2>1, <4>1 DEF Reached
      <4>2. CASE k \in Writing(own) /\ k # m
        <5>1. /\ at[k] \in 1..3 /\ Order[at[k]] = own /\ pc[k] = "writing"
          BY <1>0, <4>2 DEF Writing, TypeOK, Group
        <5>2. Past(k, own, {"writing", "finish"})
          BY <5>1 DEF Past
        <5> QED BY <2>1, <5>2
      <4>3. CASE k = m
        <5>1. at[m] \in 1..3 /\ Order[at[m]] = own
          BY <1>0, <3>1 DEF TypeOK, Group
        <5>2. pc'[m] # "idle" /\ (at[m] < at'[m] \/ (at[m] = at'[m] /\ pc'[m] \in {"writing", "finish"} \cup Ended))
          BY <1>0, <2>6, <3>1, <5>1, WriteGoes
        <5> QED BY <4>3, <5>1, <5>2 DEF Past
      <4> QED BY <3>2, <3>5, <4>1, <4>2, <4>3 DEF Outcome
    <3>6. ASSUME NEW k \in Mains, NEW g \in Groups, k \in disk'[g].spoilt
          PROVE  Past(k, g, {"writing", "finish"})'
      <4>1. CASE g = own
        BY <3>5, <3>6, <4>1
      <4>2. CASE g # own
        BY <2>1, <3>2, <3>6, <4>2 DEF Reached
      <4> QED BY <4>1, <4>2
    <3> QED BY <3>4, <3>6 DEF Reached
  <2> QED BY <1>1, <2>4, <2>5, <2>6 DEF Step, Writes
<1>2. CASE Ingest \/ UNCHANGED vars
  <2>1. UNCHANGED <<disk, published, onRecord, pc, at>>
    BY <1>2 DEF Ingest
  <2>2. \A k, g, steps : Past(k, g, steps)' <=> Past(k, g, steps)
    BY <2>1 DEF Past
  <2> QED BY <2>1, <2>2 DEF Reached
<1> QED BY <1>1, <1>2 DEF Next, Settled

\* A step of a write, to those who see the group through FeatureGroup.
LEMMA WriteRefinesGroup ==
    ASSUME MainInvariant, Reached, TypeOK', UNCHANGED Key, NEW m \in Mains, Writes(m), NEW g \in Groups
    PROVE  Promise(g)!Next \/ UNCHANGED Promise(g)!vars
<1> USE DEF Promise!vars
<1>0. TypeOK /\ UNCHANGED onRecord
  BY WriteMovesOne DEF MainInvariant
<1>1. PICK own \in Groups : own = Group(m)
  BY <1>0, GroupType
<1>2. CASE g # own
  <2>1. UNCHANGED <<disk[g], published[g], onRecord[g]>>
    BY <1>0, <1>1, <1>2, WriteKeepsTables
  <2> QED BY <2>1
<1>3. CASE g = own
  <2>1. /\ Outcome(m, g, disk'[g]) /\ disk'[g] \in Disk /\ disk[g] \in Disk
        /\ published'[g] = published[g] \cup ({disk'[g].table} \cap Mains)
        /\ UNCHANGED onRecord[g]
    BY <1>0, <1>1, <1>3, WriteMovesOne, WriteKeepsTables DEF TypeOK, Disk
  <2>2. /\ disk[g].table \in Mains => disk[g].table \in published[g]
        /\ {disk[g].table, disk[g].trash} \cap disk[g].spoilt = {}
        /\ Unknown \in {disk[g].table, disk[g].trash} => disk[g].spoilt # {}
        /\ published[g] \subseteq Mains
    BY <1>0 DEF MainInvariant, Backed, TypeOK
  <2>3. m \notin onRecord[g]
    <3>1. pc[m] \in {"write", "writing"} /\ at[m] \in 1..3 /\ Order[at[m]] = g
      BY <1>0, <1>1, <1>3, WriteGoes DEF TypeOK, Group
    <3>2. ~Past(m, g, {})
      BY <3>1, OrderIsOnce DEF Past
    <3> QED BY <3>2 DEF Reached
  <2>4. ASSUME disk'[g] = disk[g] PROVE UNCHANGED Promise(g)!vars
    <3>1. published'[g] = published[g]
      BY <2>1, <2>2, <2>4
    <3> QED BY <2>1, <2>4, <3>1
  <2>5. ASSUME disk'[g].table = Unknown, disk'[g].spoilt # {}, disk[g].spoilt \subseteq disk'[g].spoilt
        PROVE  Promise(g)!Next
    <3>1. published'[g] = published[g]
      BY <2>1, <2>5, MainsAssumption
    <3>2. disk'[g].spoilt \in SUBSET Mains /\ disk'[g].spoilt = disk[g].spoilt \cup disk'[g].spoilt
      BY <2>1, <2>5 DEF Disk
    <3>3. Promise(g)!Spoil(disk'[g].spoilt)
      BY <2>1, <2>5, <3>1, <3>2 DEF Promise!Spoil
    <3> QED BY <3>2, <3>3 DEF Promise!Next
  <2>6. ASSUME disk'[g].spoilt = disk[g].spoilt, NEW v \in Mains, v \notin onRecord[g],
               disk'[g].table = v
        PROVE  Promise(g)!Next
    <3>1. published'[g] = published[g] \cup {v}
      BY <2>1, <2>6
    <3>2. Promise(g)!Show(v)
      BY <2>1, <2>6, <3>1 DEF Promise!Show
    <3> QED BY <2>6, <3>2 DEF Promise!Next
  <2>7. ASSUME disk'[g].spoilt = disk[g].spoilt, disk'[g].table \in published[g] \cup {NoVersion}
        PROVE  Promise(g)!Next
    <3>1. published'[g] = published[g]
      BY <2>1, <2>7, MainsAssumption
    <3>2. Promise(g)!Restore
      BY <2>1, <2>7, <3>1 DEF Promise!Restore
    <3> QED BY <3>2 DEF Promise!Next
  <2>8. CASE /\ disk'[g].spoilt = disk[g].spoilt /\ m \notin disk[g].spoilt
             /\ {disk'[g].table, disk'[g].trash} \subseteq {m, disk[g].table, disk[g].trash, NoVersion}
    <3>1. CASE disk'[g].table = m
      BY <2>3, <2>6, <2>8, <3>1
    <3>2. CASE disk'[g].table = NoVersion
      BY <2>7, <2>8, <3>2
    <3>3. CASE disk'[g].table \in {disk[g].table, disk[g].trash}
      <4>1. disk'[g].table \in Mains \cup {NoVersion, Unknown}
        BY <2>1 DEF Disk, Versions
      <4>2. CASE disk'[g].table = Unknown
        BY <2>2, <2>5, <2>8, <3>3, <4>2
      <4>3. CASE disk'[g].table \in Mains \ published[g]
        <5>1. disk'[g].table \notin disk[g].spoilt
          BY <2>2, <3>3
        <5>2. disk'[g].table \notin onRecord[g]
          BY <4>3, <5>1 DEF Reached
        <5> QED BY <2>6, <2>8, <4>3, <5>2
      <4>4. CASE disk'[g].table \in published[g] \cup {NoVersion}
        BY <2>7, <2>8, <4>4
      <4> QED BY <4>1, <4>2, <4>3, <4>4
    <3> QED BY <2>8, <3>1, <3>2, <3>3
  <2>9. CASE /\ disk[g].spoilt \subseteq disk'[g].spoilt /\ m \in disk'[g].spoilt
             /\ disk'[g].table = Unknown
    BY <2>5, <2>9
  <2> QED BY <2>1, <2>4, <2>8, <2>9 DEF Outcome
<1> QED BY <1>2, <1>3

LEMMA StepKeepsPromises ==
    ASSUME MainInvariant, Reached, [Next]_vars, NEW g \in Groups
    PROVE  Promise(g)!Next \/ UNCHANGED Promise(g)!vars
<1> USE DEF Promise!vars
<1>0. TypeOK /\ TypeOK' /\ Backed
  BY StepType DEF MainInvariant
<1>1. UNCHANGED args
  BY DEF Next, Step, Start, Stop, Decide, DecideBy, Build, Write, WriteMoves, WriteEnds, Finish,
         Ingest, Settled
<1>2. UNCHANGED Key
  BY <1>1 DEF Key
<1>3. ASSUME UNCHANGED <<disk, published>>, UNCHANGED onRecord[g] PROVE UNCHANGED Promise(g)!vars
  BY <1>2, <1>3
<1>4. ASSUME NEW m \in Mains, Decide(m) PROVE Promise(g)!Next \/ UNCHANGED Promise(g)!vars
  <2>1. /\ UNCHANGED <<disk, published>>
        /\ \/ UNCHANGED onRecord
           \/ onRecord' = [onRecord EXCEPT ![Group(m)] = {k \in @ : Key[k] # Key[m]}]
    BY <1>4 DEF Decide, DecideBy
  <2>2. CASE UNCHANGED onRecord[g]
    BY <1>3, <2>1, <2>2
  <2>3. CASE ~UNCHANGED onRecord[g]
    <3>1. onRecord'[g] = {k \in onRecord[g] : Key[k] # Key[m]}
      BY <1>0, <2>1, <2>3 DEF TypeOK
    <3>2. Promise(g)!Supersede(m)
      BY <1>2, <2>1, <3>1 DEF Promise!Supersede
    <3> QED BY <3>2 DEF Promise!Next
  <2> QED BY <2>2, <2>3
<1>5. ASSUME NEW m \in Mains, Writes(m) PROVE Promise(g)!Next \/ UNCHANGED Promise(g)!vars
  BY <1>0, <1>2, <1>5, WriteRefinesGroup
<1>6. ASSUME NEW m \in Mains, Finish(m) PROVE Promise(g)!Next \/ UNCHANGED Promise(g)!vars
  <2>1. /\ UNCHANGED <<disk, published>> /\ m \in published[Group(m)] \cup disk[Group(m)].spoilt
        /\ \/ UNCHANGED onRecord
           \/ /\ onRecord' = [onRecord EXCEPT ![Group(m)] = @ \cup {m}]
              /\ ~Completed(m)
    BY <1>0, <1>6 DEF Finish, Backed
  <2>2. CASE UNCHANGED onRecord[g]
    BY <1>3, <2>1, <2>2
  <2>3. CASE ~UNCHANGED onRecord[g]
    <3>1. /\ g = Group(m) /\ onRecord'[g] = onRecord[g] \cup {m}
          /\ \A k \in onRecord[g] : Key[k] # Key[m]
      BY <1>0, <2>1, <2>3 DEF TypeOK, Completed
    <3>2. Promise(g)!Acknowledge(m)
      BY <1>2, <2>1, <3>1 DEF Promise!Acknowledge
    <3> QED BY <3>2 DEF Promise!Next
  <2> QED BY <2>2, <2>3
<1>7. (\E m \in Mains : Start(m) \/ Build(m) \/ Stop(m)) \/ Ingest \/ UNCHANGED vars
          => UNCHANGED <<disk, published, onRecord>>
  BY DEF Start, Build, Stop, Ingest
<1> QED BY <1>3, <1>4, <1>5, <1>6, <1>7 DEF Next, Step, Settled, Writes

\* main keeps for each of its groups what one feature group promises, for every
\* outcome of a table write.
THEOREM PromisesAreKept == Spec => GroupsKeepPromise
<1>1. Init => \A g \in Groups : Promise(g)!Init
  BY DEF Init, Promise!Init
<1>2. MainInvariant /\ Reached /\ [Next]_vars
        => [\A g \in Groups : [Promise(g)!Next]_(Promise(g)!vars)]_vars
  BY StepKeepsPromises
<1>3. Init => Reached
  BY DEF Init, Reached
<1> QED BY <1>1, <1>2, <1>3, InitMains, StepKeepsMains, StepKeepsReached, PTL DEF Spec, GroupsKeepPromise

-----------------------------------------------------------------------------
(* A plain main of all groups, alone and with no more trouble.              *)

\* The groups that are completed for the main's revision.
Done(m) == {g \in Groups : \E k \in onRecord[g] : Key[k] = Key[m]}

\* The premise of RerunCompletes.
Comes(m) ==
    /\ pc[m] = "decide" /\ at[m] = 1
    /\ args[m].mode = "plain" /\ args[m].want = Groups
    /\ listed[m] = MaxGenerations /\ faults = MaxFaults
    /\ \A k \in Mains \ {m} : pc[k] \in Ended
    /\ \A g \in Groups : (\E k \in onRecord[g] : Key[k] = Key[m]) => disk[g].table \in Mains

\* The groups it has passed are completed, and the tables of those are there.
OnCourse(m) ==
    /\ \A k \in Mains \ {m} : pc[k] \in Ended
    /\ faults = MaxFaults /\ listed[m] = MaxGenerations
    /\ args[m].mode = "plain" /\ args[m].want = Groups
    /\ pc[m] \in Steps \cup {"done"}
    /\ \A g \in Done(m) : disk[g].table \in Mains
    /\ \A i \in 1..3 : i < at[m] => Order[i] \in Done(m)
    /\ pc[m] \in {"build", "write", "writing", "finish"} => Group(m) \notin Done(m)
    /\ pc[m] = "writing" => m \notin disk[Group(m)].spoilt
    /\ pc[m] = "finish" => disk[Group(m)].table \in Mains
    /\ pc[m] = "done" => Groups \subseteq Done(m)

CallsLeft(m) ==
    5 * (3 - at[m]) + (CASE pc[m] = "decide" -> 5 [] pc[m] = "build" -> 4
                         [] pc[m] = "write" -> 3 [] pc[m] = "writing" -> 2
                         [] pc[m] = "finish" -> 1 [] OTHER -> 0)

\* Such a main does not leave its way to what RerunCompletes promises: each of
\* its steps leaves fewer, and when it is done all groups are completed.
RerunStaysOnCourse ==
    [][\A m \in Mains : OnCourse(m) =>
          /\ OnCourse(m)'
          /\ Step(m) => CallsLeft(m)' < CallsLeft(m)
          /\ pc[m] = "done" => AllCompleted(m)]_vars

ListedBefore == \A m \in Mains : listed[m] <= bronze

LEMMA StepKeepsListed == TypeOK /\ ListedBefore /\ [Next]_vars => ListedBefore'
<1> SUFFICES ASSUME TypeOK, ListedBefore, [Next]_vars PROVE ListedBefore'
  OBVIOUS
<1>1. bronze \in Int /\ \A m \in Mains : listed[m] \in Int
  BY BoundsAssumption DEF TypeOK
<1>2. ASSUME NEW m \in Mains, Start(m) PROVE ListedBefore'
  BY <1>1, <1>2 DEF ListedBefore, Start, TypeOK
<1>3. ASSUME UNCHANGED listed, bronze' = bronze \/ bronze' = bronze + 1 PROVE ListedBefore'
  BY <1>1, <1>3 DEF ListedBefore
<1>4. \/ \E m \in Mains : Start(m)
      \/ UNCHANGED listed /\ (bronze' = bronze \/ bronze' = bronze + 1)
  BY DEF Next, Step, Decide, DecideBy, Build, Write, WriteMoves, WriteEnds, Finish, Stop, Ingest, Settled
<1> QED BY <1>2, <1>3, <1>4

\* Past a group that is completed.
LEMMA AdvanceKeepsCourse ==
    ASSUME TypeOK, NEW m \in Mains, OnCourse(m), pc[m] \in {"decide", "finish"}, Advance(m),
           UNCHANGED <<faults, listed, args, disk>>,
           Done(m)' = Done(m) \cup {Group(m)}, disk[Group(m)].table \in Mains
    PROVE  OnCourse(m)' /\ CallsLeft(m)' < CallsLeft(m)
<1>1. /\ \/ pc'[m] = "done" /\ at[m] = 3 /\ UNCHANGED at
         \/ pc'[m] = "decide" /\ at[m] # 3 /\ at'[m] = at[m] + 1
      /\ \A k \in Mains \ {m} : UNCHANGED <<pc[k], at[k]>>
  BY AdvanceType
<1>2. at[m] \in 1..3 /\ Group(m) = Order[at[m]]
  BY DEF TypeOK, Group
<1>3. \A i \in 1..3 : i < at'[m] => Order[i] \in Done(m)'
  <2> SUFFICES ASSUME NEW i \in 1..3, i < at'[m] PROVE Order[i] \in Done(m) \cup {Group(m)}
    OBVIOUS
  <2>1. i < at[m] \/ i = at[m]
    BY <1>1, <1>2
  <2> QED BY <1>2, <2>1 DEF OnCourse
<1>4. pc'[m] = "done" => Groups \subseteq Done(m)'
  <2> SUFFICES ASSUME pc'[m] = "done" PROVE Groups \subseteq Done(m) \cup {Group(m)}
    OBVIOUS
  <2>1. at[m] = 3
    BY <1>1
  <2>2. Order[1] \in Done(m) /\ Order[2] \in Done(m) /\ Group(m) = Order[3]
    BY <1>2, <2>1 DEF OnCourse
  <2> QED BY <2>2, OrderIs DEF Groups
<1>5. \A g \in Done(m)' : disk'[g].table \in Mains
  BY DEF OnCourse
<1>6. OnCourse(m)'
  BY <1>1, <1>3, <1>4, <1>5 DEF OnCourse
<1>7. CallsLeft(m)' < CallsLeft(m)
  BY <1>1, <1>2 DEF CallsLeft
<1> QED BY <1>6, <1>7

\* On to the next call of the same group.
LEMMA CallKeepsCourse ==
    ASSUME TypeOK, NEW m \in Mains, OnCourse(m), UNCHANGED <<faults, listed, args, at, onRecord>>,
           NEW step, Goto(m, step), Group(m) \notin Done(m),
           \A g \in Groups : g # Group(m) => disk'[g] = disk[g],
           \/ pc[m] = "decide" /\ step = "build"
           \/ pc[m] = "build" /\ step = "write"
           \/ /\ pc[m] = "write" /\ step = "writing"
              /\ m \notin disk[Group(m)].spoilt /\ disk'[Group(m)] = disk[Group(m)]
           \/ pc[m] = "writing" /\ step = "finish" /\ disk'[Group(m)].table \in Mains
    PROVE  OnCourse(m)' /\ CallsLeft(m)' < CallsLeft(m)
<1>1. pc'[m] = step /\ \A k \in Mains \ {m} : pc'[k] = pc[k]
  BY DEF TypeOK
<1>2. Done(m)' = Done(m) /\ Group(m)' = Group(m) /\ Group(m) \in Groups /\ Done(m) \subseteq Groups
  BY GroupType DEF Done, Key, Group
<1>3. \A g \in Done(m) : disk'[g].table \in Mains
  BY <1>2 DEF OnCourse
<1>4. OnCourse(m)'
  BY <1>1, <1>2, <1>3 DEF OnCourse
<1>5. CallsLeft(m)' < CallsLeft(m)
  <2>1. at[m] \in 1..3
    BY DEF TypeOK
  <2> QED BY <1>1, <2>1 DEF CallsLeft
<1> QED BY <1>4, <1>5

\* A main that has come to the write of a group and is alone is not spoilt there.
LEMMA AloneIsTrusted ==
    ASSUME TypeOK, Reached, NEW m \in Mains, OnCourse(m), pc[m] = "write"
    PROVE  m \notin disk[Group(m)].spoilt /\ Writing(Group(m)) = {}
<1>1. at[m] \in 1..3 /\ Group(m) = Order[at[m]] /\ Group(m) \in Groups
  BY GroupType DEF TypeOK, Group
<1>2. ~Past(m, Group(m), {"writing", "finish"})
  BY <1>1, OrderIsOnce DEF Past
<1>3. Writing(Group(m)) = {}
  BY DEF Writing, OnCourse
<1> QED BY <1>1, <1>2, <1>3 DEF Reached

LEMMA CourseKept ==
    ASSUME TypeOK, Reached, ListedBefore, NEW m \in Mains, OnCourse(m), Step(m)
    PROVE  OnCourse(m)' /\ CallsLeft(m)' < CallsLeft(m)
<1>1. /\ at[m] \in 1..3 /\ Group(m) \in Groups /\ Group(m) \in args[m].want
      /\ args[m].mode = "plain"
      /\ Completed(m) <=> Group(m) \in Done(m)
  BY GroupType DEF TypeOK, OnCourse, Completed, Done
<1>2. \A kind : ~Fault(kind)
  BY BoundsAssumption DEF OnCourse
<1>3. bronze = listed[m]
  <2>1. bronze \in 1..MaxGenerations /\ MaxGenerations <= bronze /\ listed[m] = MaxGenerations
    BY DEF TypeOK, ListedBefore, OnCourse
  <2> QED BY <2>1, BoundsAssumption
<1>4. CASE Decide(m)
  <2>1. UNCHANGED <<faults, listed, args, disk, onRecord>> /\ pc[m] = "decide"
    BY <1>1, <1>4 DEF Decide, DecideBy
  <2>2. CASE Completed(m) /\ Advance(m)
    <3>1. Done(m)' = Done(m)
      BY <2>1 DEF Done, Key
    <3>2. Group(m) \in Done(m) /\ disk[Group(m)].table \in Mains
      BY <1>1, <2>2 DEF OnCourse
    <3> QED BY <2>1, <2>2, <3>1, <3>2, AdvanceKeepsCourse
  <2>3. CASE ~Completed(m) /\ Goto(m, "build") /\ UNCHANGED at
    BY <1>1, <2>1, <2>3, CallKeepsCourse
  <2> QED BY <1>1, <1>4, <2>2, <2>3 DEF Decide, DecideBy
<1>5. CASE Build(m)
  <2>1. Computable(m) /\ Certain(m)
    <3>1. ASSUME Group(m) = "trip_features", NEW g \in Joined PROVE Source(m, g) \in Mains
      <4>1. at[m] = 3
        BY <3>1, GroupType
      <4>2. g \in Done(m)
        BY <4>1, OrderIs DEF OnCourse, Joined
      <4>3. disk[g].table \in Mains
        BY <4>2 DEF OnCourse
      <4> QED BY <4>3 DEF Source
    <3> QED BY <1>3, <3>1, MainsAssumption DEF Computable, Certain
  <2>2. /\ pc[m] = "build" /\ Goto(m, "write")
        /\ UNCHANGED <<faults, listed, args, at, onRecord, disk>>
    BY <1>5, <2>1 DEF Build
  <2>3. Group(m) \notin Done(m)
    BY <2>2 DEF OnCourse
  <2> QED BY <2>2, <2>3, CallKeepsCourse
<1>6. CASE Write(m)
  <2>1. /\ pc[m] = "write" /\ Goto(m, "writing") /\ UNCHANGED <<faults, listed, args, at, onRecord>>
        /\ disk' = [disk EXCEPT ![Group(m)] = Table(Group(m))!Begun(m)]
    BY <1>6 DEF Write, Becomes
  <2>2. Table(Group(m))!Begun(m) = disk[Group(m)] /\ m \notin disk[Group(m)].spoilt
    BY <1>1, <2>1, AloneIsTrusted, DiskMoves
  <2>3. disk'[Group(m)] = disk[Group(m)] /\ \A g \in Groups : disk'[g] = disk[g]
    BY <1>1, <2>1, <2>2 DEF TypeOK
  <2>4. Group(m) \notin Done(m)
    BY <2>1 DEF OnCourse
  <2> QED BY <2>1, <2>2, <2>3, <2>4, CallKeepsCourse
<1>7. CASE WriteEnds(m)
  <2>1. m \notin disk[Group(m)].spoilt /\ Group(m) \notin Done(m)
    BY <1>7 DEF WriteEnds, OnCourse
  <2>2. /\ pc[m] = "writing" /\ Goto(m, "finish") /\ UNCHANGED <<faults, listed, args, at, onRecord>>
        /\ disk' = [disk EXCEPT ![Group(m)] = Table(Group(m))!Returned(m)]
    BY <1>1, <1>2, <1>7, <2>1 DEF WriteEnds, Registered, Becomes
  <2>3. Table(Group(m))!Returned(m).table = m
    BY <1>1, <2>1, DiskMoves
  <2>4. disk'[Group(m)].table = m /\ \A g \in Groups : g # Group(m) => disk'[g] = disk[g]
    BY <1>1, <2>2, <2>3 DEF TypeOK
  <2> QED BY <2>1, <2>2, <2>4, CallKeepsCourse
<1>8. CASE Finish(m)
  <2>1. pc[m] = "finish" /\ UNCHANGED <<faults, listed, args, disk>>
    BY <1>2, <1>8 DEF Finish
  <2>2. Group(m) \notin Done(m) /\ disk[Group(m)].table \in Mains
    BY <2>1 DEF OnCourse
  <2>3. onRecord' = [onRecord EXCEPT ![Group(m)] = @ \cup {m}] /\ Advance(m)
    BY <1>1, <1>2, <1>8, <2>2 DEF Finish
  <2>4. \A g \in Groups :
           onRecord'[g] = IF g = Group(m) THEN onRecord[g] \cup {m} ELSE onRecord[g]
    BY <2>3 DEF TypeOK
  <2>5. Key' = Key
    BY <2>1 DEF Key
  <2>6. Done(m)' = Done(m) \cup {Group(m)}
    BY <1>1, <2>4, <2>5 DEF Done
  <2> QED BY <2>1, <2>2, <2>3, <2>6, AdvanceKeepsCourse
<1> QED BY <1>4, <1>5, <1>6, <1>7, <1>8 DEF Step

\* What others see of its write does not take it off its course.
LEMMA MovesKeepCourse ==
    ASSUME TypeOK, NEW m \in Mains, OnCourse(m), WriteMoves(m)
    PROVE  OnCourse(m)'
<1>1. Group(m) \in Groups /\ pc[m] = "writing" /\ m \notin disk[Group(m)].spoilt /\ Group(m) \notin Done(m)
  BY GroupType DEF WriteMoves, OnCourse
<1>2. \A kind : ~Fault(kind)
  BY BoundsAssumption DEF OnCourse
<1>3. PICK d \in Table(Group(m))!Moved(m) : disk' = [disk EXCEPT ![Group(m)] = d]
  BY <1>2 DEF WriteMoves, Becomes
<1>4. UNCHANGED <<faults, onRecord, args, pc, at, listed>>
  BY <1>2 DEF WriteMoves
<1>5. d.spoilt = disk[Group(m)].spoilt
  BY <1>1, <1>3 DEF Table!Moved
<1>6. m \notin disk'[Group(m)].spoilt /\ \A g \in Groups : g # Group(m) => disk'[g] = disk[g]
  BY <1>1, <1>3, <1>5 DEF TypeOK
<1>7. Done(m)' = Done(m) /\ Group(m)' = Group(m) /\ Done(m) \subseteq Groups
  BY <1>4 DEF Done, Key, Group
<1>8. \A g \in Done(m) : disk'[g].table \in Mains
  BY <1>1, <1>6, <1>7 DEF OnCourse
<1> QED BY <1>1, <1>4, <1>6, <1>7, <1>8 DEF OnCourse

\* The safety that RerunCompletes rests on: the main it speaks of is on course
\* from its premise on, and what is left of its way only gets shorter.  That it
\* takes its steps at all is the fairness, and stays with the model checker.
THEOREM RerunMeetsNoObstacle ==
    Spec => RerunStaysOnCourse /\ [](\A m \in Mains : Comes(m) => OnCourse(m))
<1>1. TypeOK /\ Reached /\ ListedBefore /\ [Next]_vars => \A m \in Mains : OnCourse(m) =>
         /\ OnCourse(m)'
         /\ Step(m) => CallsLeft(m)' < CallsLeft(m)
         /\ pc[m] = "done" => AllCompleted(m)
  <2> SUFFICES ASSUME TypeOK, Reached, ListedBefore, [Next]_vars, NEW m \in Mains, OnCourse(m)
               PROVE  /\ OnCourse(m)'
                      /\ Step(m) => CallsLeft(m)' < CallsLeft(m)
                      /\ pc[m] = "done" => AllCompleted(m)
    OBVIOUS
  <2>1. pc[m] = "done" => AllCompleted(m)
    BY DEF OnCourse, AllCompleted, Done
  <2>2. CASE Step(m)
    BY <2>1, <2>2, CourseKept
  <2>3. ASSUME ~Step(m) PROVE OnCourse(m)'
    <3>1. \A kind : ~Fault(kind)
      BY BoundsAssumption DEF OnCourse
    <3>2. bronze \in 1..MaxGenerations /\ MaxGenerations <= bronze
      BY DEF TypeOK, ListedBefore, OnCourse
    <3>3. ~(bronze < MaxGenerations)
      BY <3>2, BoundsAssumption
    <3>4. ~Ingest
      BY <3>3 DEF Ingest
    <3>5. ASSUME NEW k \in Mains
          PROVE  ~Start(k) /\ ~Stop(k) /\ ~Step(k) /\ (k # m => ~WriteMoves(k))
      <4>1. ~Stop(k)
        BY <3>1 DEF Stop
      <4>2. k # m => pc[k] \in Ended
        BY DEF OnCourse
      <4>3. ~Start(k)
        BY <4>2 DEF Start, OnCourse
      <4>4. k # m => ~Step(k) /\ ~WriteMoves(k)
        BY <4>2 DEF Step, Decide, DecideBy, Build, Write, WriteMoves, WriteEnds, Finish
      <4> QED BY <2>3, <4>1, <4>3, <4>4
    <3>6. WriteMoves(m) \/ UNCHANGED vars
      BY <3>4, <3>5 DEF Next, Settled
    <3>7. CASE UNCHANGED vars
      <4>1. Done(m)' = Done(m) /\ Group(m)' = Group(m)
        BY <3>7 DEF Done, Key, Group
      <4> QED BY <3>7, <4>1 DEF OnCourse
    <3> QED BY <3>6, <3>7, MovesKeepCourse
  <2> QED BY <2>1, <2>2, <2>3
<1>2. Init => ListedBefore /\ Reached
  <2>1. Init => bronze \in Nat
    BY InitType, BoundsAssumption DEF TypeOK
  <2>2. Init => ListedBefore
    BY <2>1 DEF Init, ListedBefore
  <2>3. Init => Reached
    BY DEF Init, Reached
  <2> QED BY <2>2, <2>3
<1>3. Spec => [](TypeOK /\ Reached /\ ListedBefore)
  BY <1>2, InitMains, StepKeepsMains, StepKeepsReached, StepKeepsListed, PTL DEF Spec, MainInvariant
<1>4. Spec => RerunStaysOnCourse
  BY <1>1, <1>3, PTL DEF Spec, RerunStaysOnCourse
<1>5. \A m \in Mains : Comes(m) => OnCourse(m)
  <2> SUFFICES ASSUME NEW m \in Mains, Comes(m) PROVE OnCourse(m)
    OBVIOUS
  <2>1. \A g \in Done(m) : disk[g].table \in Mains
    BY DEF Done, Comes
  <2> QED BY <2>1 DEF OnCourse, Comes
<1> QED BY <1>4, <1>5, PTL
=============================================================================
