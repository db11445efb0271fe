------------------------------ MODULE TableSwap ------------------------------
(***************************************************************************)
(* What readers of one table are promised, whatever becomes of its         *)
(* writers: the path shows one whole content or nothing, a content shown   *)
(* is the last acknowledged one or one put in place since, and a write is  *)
(* acknowledged only while its content is the one shown.                   *)
(***************************************************************************)
CONSTANTS Contents, NoTable

VARIABLES shown, good

Init == \/ shown = NoTable /\ good = {}
        \/ \E c \in Contents : shown = c /\ good = {c}

\* A writer puts a whole content in the empty place.
PutInPlace(c) ==
    /\ shown = NoTable
    /\ shown' = c
    /\ good' = good \cup {c}

\* The content is moved out of the way.
Withdraw ==
    /\ shown' = NoTable
    /\ UNCHANGED good

\* A rollback shows an acceptable content again.
Restore ==
    /\ shown = NoTable
    /\ shown' \in good
    /\ UNCHANGED good

\* A writer returns: every other content is superseded.
Acknowledge ==
    /\ good' = {shown}
    /\ shown \in Contents
    /\ UNCHANGED shown

Next == (\E c \in Contents : PutInPlace(c)) \/ Withdraw \/ Restore \/ Acknowledge

Spec == Init /\ [][Next]_<<shown, good>>
=============================================================================
