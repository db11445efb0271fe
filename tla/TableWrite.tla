------------------------------ MODULE TableWrite ------------------------------
(***************************************************************************)
(* What the writers of one table make of it, as the modules that write     *)
(* tables take it: the version in place and the version in the trash.      *)
(*                                                                         *)
(* A writer that is alone moves the versions it finds, and its own, between *)
(* the two places or loses them, and returns only with its own in place    *)
(* and no trash.  Writers that meet, and one of which a delete does not     *)
(* delete, are spoilt: from then on both places are Unknown (a version,    *)
(* old or new, files of several, or nothing), also when such a writer      *)
(* returns, until a later writer that is not spoilt does.  AtomicTable     *)
(* implements this module.                                                 *)
(***************************************************************************)
CONSTANTS Writers, Old, None, Unknown

VARIABLES
    disk,     \* the version in place, that in the trash, and (history) the
              \* writers of which nothing is promised
    writing   \* the writers under way

vars == <<disk, writing>>

Fresh(version) == [table |-> version, trash |-> None, spoilt |-> {}]

Init ==
    /\ disk \in {Fresh(v) : v \in Old \cup {None}}
    /\ writing = {}

Spoilt(S) == [table |-> Unknown, trash |-> Unknown, spoilt |-> disk.spoilt \cup S]

\* The disk when j has begun ...
Begun(j) == IF writing = {} THEN disk ELSE Spoilt(writing \cup {j})

\* ... as j may change it while it is under way, a write that raises included ...
Moved(j) ==
    IF j \in disk.spoilt THEN {disk}
    ELSE LET found == {j, disk.table, disk.trash, None}
         IN  {[table |-> v, trash |-> w, spoilt |-> disk.spoilt] : v \in found, w \in found}

\* ... when a delete went half-way, or returned false and was not looked at ...
HalfDeleted(j) == Spoilt({j})

\* ... and when j has returned.
Returned(j) ==
    IF j \in disk.spoilt THEN disk
    ELSE [table |-> j, trash |-> None, spoilt |-> disk.spoilt]

Begin(j) ==
    /\ j \notin writing
    /\ disk' = Begun(j)
    /\ writing' = writing \cup {j}

Move(j) ==
    /\ j \in writing
    /\ disk' \in Moved(j) \cup {HalfDeleted(j)}
    /\ UNCHANGED writing

Return(j) ==
    /\ j \in writing
    /\ disk' = Returned(j)
    /\ writing' = writing \ {j}

\* The write raises, or its process is killed.
Stop(j) ==
    /\ j \in writing
    /\ writing' = writing \ {j}
    /\ UNCHANGED disk

Next == \E j \in Writers : Begin(j) \/ Move(j) \/ Return(j) \/ Stop(j)

Spec == Init /\ [][Next]_vars
=============================================================================
