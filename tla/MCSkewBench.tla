---------------------------- MODULE MCSkewBench ----------------------------
EXTENDS SkewBench, TLC

CONSTANTS k, l

MCRows == 1..4
Row(key, value) == [key |-> key, value |-> value]

\* A hot key and a cold one, with and without nulls; nothing but nulls; rows
\* without key.
MCFrames ==
    {<<Row(k, v), Row(k, w), Row(k, x), Row(y, w)>> :
        v \in {1, 2}, w \in {-1, NoValue}, x \in {2, NoValue}, y \in {l, NoKey}}
    \cup {<<Row(k, NoValue), Row(k, NoValue), Row(l, 1), Row(l, -1)>>}
=============================================================================
