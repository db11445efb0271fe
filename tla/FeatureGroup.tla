---------------------------- MODULE FeatureGroup ----------------------------
(***************************************************************************)
(* What one silver feature group promises to whoever reads its table and   *)
(* its rows of feature_runs: the table in place is a whole version or      *)
(* absent until writes have met or a delete has not deleted, a version is  *)
(* on record as a success only after it was in place, unless its own write *)
(* was one of those, and a run_key has one success at a time.  The table   *)
(* and the row move in separate steps: nothing says that the version on    *)
(* record is the one in place.                                             *)
(***************************************************************************)
CONSTANTS Versions, NoVersion, Unknown

VARIABLES
    shown,      \* the version in place, none, or Unknown
    published,  \* the versions that ever were in place
    spoilt,     \* the versions whose write met another, or a delete that did not delete
    onRecord,   \* the versions whose row says success
    key         \* the run_key of each version

vars == <<shown, published, spoilt, onRecord, key>>

Init ==
    /\ shown = NoVersion
    /\ published = {}
    /\ spoilt = {}
    /\ onRecord = {}

\* A build puts its version in place of whatever is there.
Show(v) ==
    /\ v \notin onRecord
    /\ shown' = v
    /\ published' = published \cup {v}
    /\ UNCHANGED <<spoilt, onRecord, key>>

\* A write that fails or is killed may leave an older version, or none.
Restore ==
    /\ shown' \in published \cup {NoVersion}
    /\ UNCHANGED <<published, spoilt, onRecord, key>>

\* Once writes have met, or a delete has not deleted, a reader finds anything.
Spoil(S) ==
    /\ spoilt' = spoilt \cup S
    /\ spoilt' # {}
    /\ shown' = Unknown
    /\ UNCHANGED <<published, onRecord, key>>

Acknowledge(v) ==
    /\ v \in published \cup spoilt
    /\ \A w \in onRecord : key[w] = key[v] => w = v
    /\ onRecord' = onRecord \cup {v}
    /\ UNCHANGED <<shown, published, spoilt, key>>

\* A forced rebuild gives up the successes of its key.
Supersede(v) ==
    /\ onRecord' = {w \in onRecord : key[w] # key[v]}
    /\ UNCHANGED <<shown, published, spoilt, key>>

Next ==
    \/ \E v \in Versions : Show(v) \/ Acknowledge(v) \/ Supersede(v)
    \/ \E S \in SUBSET Versions : Spoil(S)
    \/ Restore

Spec == Init /\ [][Next]_vars
=============================================================================
