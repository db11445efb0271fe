----------------------------- MODULE SilverBuild -----------------------------
(***************************************************************************)
(* main of features/build_silver.py: the three feature groups one after    *)
(* another over one connection, each skipped when its run_key is completed *)
(* or built and registered; trip_features joins the other two, as this     *)
(* main holds them in memory or, when it did not build them, as they are   *)
(* on disk.  An exception in one group ends the main.                      *)
(*                                                                         *)
(* Each group is seen through FeatureGroup, which FeatureRuns, with every  *)
(* statement of build_and_register, implements; its table is written as    *)
(* TableWrite says.  A version of a group shares the name of the main that *)
(* built it.                                                               *)
(***************************************************************************)
EXTENDS Integers, Sequences, FiniteSets

CONSTANTS
    Mains,
    Launches,           \* which mains there may be, with which command lines
    NoVersion, Unknown, \* no table, and what spoilt writes left, see TableWrite
    MaxActive,          \* how many mains may be under way at a time
    MaxGenerations,     \* bound: contents of the bronze table
    Faults, MaxFaults   \* what may go wrong, and bound: how often

Order == <<"pickup_zone_demand", "driver_trip_history", "trip_features">>
Groups == {"pickup_zone_demand", "driver_trip_history", "trip_features"}
Joined == {"pickup_zone_demand", "driver_trip_history"}

ASSUME MainsAssumption == 
    IsFiniteSet(Mains) /\ {NoVersion, Unknown} \cap Mains = {} /\ NoVersion # Unknown
\* The revision is, with group and paths, the run_key; mode: "unregistered" is
\* --no-registry; want: what --groups names.
ASSUME LaunchesAssumption ==
    \A launch \in Launches :
        /\ launch.present \subseteq Mains
        /\ launch.ingestions \in 0..MaxGenerations - 1
        /\ \A m \in Mains : /\ launch.args[m].mode \in {"plain", "force", "unregistered"}
                           /\ launch.args[m].want \subseteq Groups
ASSUME BoundsAssumption ==
    MaxActive \in Nat \ {0} /\ MaxGenerations \in Nat \ {0} /\ MaxFaults \in Nat
\* "stop": something raises outside the write, or the process is killed; "write":
\* the write raises; "delete": a delete of the write does not delete; "registry":
\* the commit of the success fails, or its answer is lost.
ASSUME FaultsAssumption == Faults \subseteq {"stop", "write", "delete", "registry"}

VARIABLES
    bronze,     \* which content the bronze table has
    disk,                    \* of each group, its table as TableWrite has it
    published, onRecord,     \* of each group, as FeatureGroup has them
    args,       \* of each main: its revision and command line
    pc,         \* the step of each main ...
    at,         \* ... in the group of this position in Order
    listed,     \* the bronze content whose files the main listed
    inMemory,   \* the groups whose DataFrame the main built itself
    joined,     \* history: the versions the main's trip_features joined
    faults

groupVars == <<disk, published, onRecord>>
vars == <<bronze, groupVars, args, pc, at, listed, inMemory, joined, faults>>

Steps == {"decide", "build", "write", "writing", "finish"}
Ended == {"absent", "done", "failed"}

Init ==
    /\ \E launch \in Launches :
          /\ bronze = MaxGenerations - launch.ingestions
          /\ args = launch.args
          /\ pc = [m \in Mains |-> IF m \in launch.present THEN "idle" ELSE "absent"]
    /\ disk = [g \in Groups |-> [table |-> NoVersion, trash |-> NoVersion, spoilt |-> {}]]
    /\ published = [g \in Groups |-> {}]
    /\ onRecord = [g \in Groups |-> {}]
    /\ at = [m \in Mains |-> 1]
    /\ listed = [m \in Mains |-> 0]
    /\ inMemory = [m \in Mains |-> {}]
    /\ joined = [m \in Mains |-> [g \in Joined |-> NoVersion]]
    /\ faults = 0

Group(m) == Order[at[m]]
Key == [m \in Mains |-> args[m].code]
Registered(m) == args[m].mode # "unregistered"
Completed(m) == \E k \in onRecord[Group(m)] : Key[k] = Key[m]

Goto(m, step) == pc' = [pc EXCEPT ![m] = step]
Fault(kind) == kind \in Faults /\ faults < MaxFaults /\ faults' = faults + 1

\* Mutant of Advance: off by one.
AdvancePast(m) ==
    IF at[m] > Len(Order)
    THEN Goto(m, "done") /\ UNCHANGED at
    ELSE Goto(m, "decide") /\ at' = [at EXCEPT ![m] = @ + 1]

\* On to the next group, or out of main.
Advance(m) ==
    IF at[m] = Len(Order)
    THEN Goto(m, "done") /\ UNCHANGED at
    ELSE Goto(m, "decide") /\ at' = [at EXCEPT ![m] = @ + 1]

-----------------------------------------------------------------------------
\* read_parquet of bronze lists its files once, for all three groups.
Start(m) ==
    /\ pc[m] = "idle"
    /\ Cardinality({k \in Mains : pc[k] \in Steps}) < MaxActive
    /\ listed' = [listed EXCEPT ![m] = bronze]
    /\ Goto(m, "decide")
    /\ UNCHANGED <<bronze, groupVars, args, at, inMemory, joined, faults>>

\* Not wanted, completed, or to be built; --force supersedes first.
DecideBy(m, completed) ==
    /\ pc[m] = "decide"
    /\ \/ /\ Group(m) \notin args[m].want \/ (args[m].mode = "plain" /\ completed)
          /\ Advance(m)
          /\ UNCHANGED onRecord
       \/ /\ Group(m) \in args[m].want
          /\ args[m].mode # "plain" \/ ~completed
          /\ onRecord' = IF args[m].mode = "force"
                         THEN [onRecord EXCEPT ![Group(m)] = {k \in @ : Key[k] # Key[m]}]
                         ELSE onRecord
          /\ Goto(m, "build")
          /\ UNCHANGED at
    /\ UNCHANGED <<bronze, disk, published, args, listed, inMemory, joined, faults>>

\* Mutant of Decide: a group whose table is there is taken for completed.
DecideByTable(m) == DecideBy(m, disk[Group(m)].table # NoVersion)

Decide(m) == DecideBy(m, Completed(m))

\* Mutant of Source: what this main built is read back from disk.
SourceOnDisk(m, g) == disk[g].table

\* `demand if demand is not None else read_parquet(...)`.
Source(m, g) == IF g \in inMemory[m] THEN m ELSE disk[g].table

\* A DataFrame is evaluated from the files listed when it was read: they are
\* gone when bronze was replaced, and a table that is absent cannot be read.
Computable(m) ==
    /\ bronze = listed[m]
    /\ Group(m) = "trip_features" => \A g \in Joined : Source(m, g) # NoVersion

\* What is Unknown may be, or become, unreadable.
Certain(m) == Group(m) = "trip_features" => \A g \in Joined : Source(m, g) # Unknown

\* start_run, the count that evaluates and caches the frame, and the gates.
Build(m) ==
    /\ pc[m] = "build"
    /\ \/ /\ ~(Computable(m) /\ Certain(m))
          /\ Goto(m, "failed")
          /\ UNCHANGED joined
       \/ /\ Computable(m)
          /\ Goto(m, "write")
          /\ joined' = IF Group(m) = "trip_features"
                       THEN [joined EXCEPT ![m] = [g \in Joined |-> Source(m, g)]]
                       ELSE joined
    /\ UNCHANGED <<bronze, groupVars, args, at, listed, inMemory, faults>>

\* atomic_write_parquet on the table of group g.
Writing(g) == {k \in Mains : pc[k] = "writing" /\ Group(k) = g}
Table(g) == INSTANCE TableWrite WITH
    Writers <- Mains, Old <- {}, None <- NoVersion, disk <- disk[g], writing <- Writing(g)

\* The table of the group becomes what one of these disks is.
Becomes(m, disks) ==
    \E d \in disks :
        /\ disk' = [disk EXCEPT ![Group(m)] = d]
        /\ published' = [published EXCEPT ![Group(m)] = @ \cup ({d.table} \cap Mains)]

Write(m) ==
    /\ pc[m] = "write"
    /\ Goto(m, "writing")
    /\ Becomes(m, {Table(Group(m))!Begun(m)})
    /\ UNCHANGED <<bronze, onRecord, args, at, listed, inMemory, joined, faults>>

\* What others may see of a write, also of one that fails.
WriteMoves(m) ==
    /\ pc[m] = "writing"
    /\ \/ Becomes(m, Table(Group(m))!Moved(m)) /\ UNCHANGED faults
       \/ Becomes(m, {Table(Group(m))!HalfDeleted(m)}) /\ Fault("delete")
    /\ UNCHANGED <<bronze, onRecord, args, pc, at, listed, inMemory, joined>>

\* It returns or raises; that of a spoilt main raises without a fault too.
WriteEnds(m) ==
    /\ pc[m] = "writing"
    /\ \/ /\ Becomes(m, {Table(Group(m))!Returned(m)})
          /\ IF Registered(m)
             THEN Goto(m, "finish") /\ UNCHANGED <<at, inMemory>>
             ELSE Advance(m) /\ inMemory' = [inMemory EXCEPT ![m] = @ \cup {Group(m)}]
          /\ UNCHANGED faults
       \/ /\ (m \in disk[Group(m)].spoilt /\ UNCHANGED faults) \/ Fault("write")
          /\ Goto(m, "failed")
          /\ UNCHANGED <<disk, published, at, inMemory>>
    /\ UNCHANGED <<bronze, onRecord, args, listed, joined>>

\* Mutant of Finish: no unique index.
FinishUnchecked(m) ==
    /\ pc[m] = "finish"
    /\ onRecord' = [onRecord EXCEPT ![Group(m)] = @ \cup {m}]
    /\ inMemory' = [inMemory EXCEPT ![m] = @ \cup {Group(m)}]
    /\ Advance(m)
    /\ UNCHANGED <<bronze, disk, published, args, listed, joined, faults>>

\* finish_run("success") under the partial unique index; when the connection
\* breaks, the commit may or may not have reached the server.
Finish(m) ==
    /\ pc[m] = "finish"
    /\ LET recorded == [onRecord EXCEPT ![Group(m)] = @ \cup {m}]
       IN  \/ /\ ~Completed(m)
              /\ onRecord' = recorded
              /\ inMemory' = [inMemory EXCEPT ![m] = @ \cup {Group(m)}]
              /\ Advance(m)
              /\ UNCHANGED faults
           \/ /\ Completed(m)
              /\ Goto(m, "failed")
              /\ UNCHANGED <<onRecord, at, inMemory, faults>>
           \/ /\ ~Completed(m)
              /\ Fault("registry")
              /\ onRecord' \in {onRecord, recorded}
              /\ Goto(m, "failed")
              /\ UNCHANGED <<at, inMemory>>
    /\ UNCHANGED <<bronze, disk, published, args, listed, joined>>

\* Mutant of Stop: the exception of a group is logged, and main goes on with the
\* DataFrame it has.
StopGroup(m) ==
    /\ pc[m] \in Steps
    /\ Fault("stop")
    /\ inMemory' = [inMemory EXCEPT ![m] = @ \cup {Group(m)}]
    /\ Advance(m)
    /\ UNCHANGED <<bronze, groupVars, args, listed, joined>>

\* An exception outside the write, a gate's included, or a kill at any step.
Stop(m) ==
    /\ pc[m] \in Steps
    /\ Fault("stop")
    /\ Goto(m, "failed")
    /\ UNCHANGED <<bronze, groupVars, args, at, listed, inMemory, joined>>

Ingest ==
    /\ bronze < MaxGenerations
    /\ bronze' = bronze + 1
    /\ UNCHANGED <<groupVars, args, pc, at, listed, inMemory, joined, faults>>

Step(m) == Decide(m) \/ Build(m) \/ Write(m) \/ WriteEnds(m) \/ Finish(m)

Settled == (\A m \in Mains : pc[m] \in Ended) /\ UNCHANGED vars

Next == (\E m \in Mains : Start(m) \/ Step(m) \/ WriteMoves(m) \/ Stop(m)) \/ Ingest \/ Settled

Spec == Init /\ [][Next]_vars

\* A started main keeps running until it ends or is killed.
FairSpec == Spec /\ \A m \in Mains : WF_vars(Step(m))

-----------------------------------------------------------------------------
(* Properties *)

Versions == Mains \cup {NoVersion, Unknown}

TypeOK ==
    /\ bronze \in 1..MaxGenerations
    /\ disk \in [Groups -> [table : Versions, trash : Versions, spoilt : SUBSET Mains]]
    /\ published \in [Groups -> SUBSET Mains]
    /\ onRecord \in [Groups -> SUBSET Mains]
    /\ \E launch \in Launches : args = launch.args
    /\ pc \in [Mains -> {"idle"} \cup Steps \cup Ended]
    /\ at \in [Mains -> 1..3]
    /\ listed \in [Mains -> 0..MaxGenerations]
    /\ inMemory \in [Mains -> SUBSET Groups]
    /\ joined \in [Mains -> [Joined -> Versions]]
    /\ faults \in 0..MaxFaults

\* Each of the three groups keeps what FeatureGroup promises, whatever mains
\* overlap, fail or force a rebuild.
Promise(g) == INSTANCE FeatureGroup
    WITH Versions <- Mains, shown <- disk[g].table, published <- published[g],
         spoilt <- disk[g].spoilt, onRecord <- onRecord[g], key <- Key
GroupsKeepPromise ==
    /\ \A g \in Groups : Promise(g)!Init
    /\ [][\A g \in Groups : [Promise(g)!Next]_(Promise(g)!vars)]_vars

\* trip_features is only ever built from versions of the other two groups that
\* passed their gates and were in place, though it may take them from memory.
\* Only where writes of such a group met, or did not delete, is it a version
\* whose write was one of those, or what they left.
InputsWerePublished ==
    \A m \in published["trip_features"], g \in Joined :
        joined[m][g] \in published[g] \cup disk[g].spoilt \cup (IF disk[g].spoilt = {} THEN {} ELSE {Unknown})

\* A main that builds a group and then trip_features joins them from one bronze
\* content, even while another main puts an older or newer one in place.
OneGeneration ==
    \A m \in published["trip_features"], g \in Joined :
        m \in published[g] =>
            joined[m][g] \in Mains /\ listed[joined[m][g]] = listed[m]

\* Wherever earlier mains stopped, a plain main of all groups that is alone and
\* meets no more trouble completes what is left, provided that the table of
\* every completed group is there (a skip looks at the row alone).
AllCompleted(m) == \A g \in Groups : \E k \in onRecord[g] : Key[k] = Key[m]
RerunCompletes ==
    \A m \in Mains :
        (/\ pc[m] = "decide" /\ at[m] = 1
         /\ args[m].mode = "plain" /\ args[m].want = Groups
         /\ listed[m] = MaxGenerations /\ faults = MaxFaults
         /\ \A k \in Mains \ {m} : pc[k] \in Ended
         /\ \A g \in Groups :
               (\E k \in onRecord[g] : Key[k] = Key[m]) => disk[g].table \in Mains)
        ~> (pc[m] = "done" /\ AllCompleted(m))
=============================================================================
