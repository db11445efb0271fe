---------------------------- MODULE MCSilverBuild ----------------------------
EXTENDS SilverBuild, TLC

CONSTANTS a, b, c, sha1, sha2

MCMains == {a, b, c}

Launch(present, ingestions, of) ==
    [present |-> present, ingestions |-> ingestions,
     args |-> [m \in MCMains |-> [code |-> of[m][1], mode |-> of[m][2], want |-> of[m][3]]]]

\* A forced and a plain main of all groups, and an ingestion.  Or one that
\* builds a group without the registry, a forced one of trip_features of another
\* revision, and one that builds what is left.
MCLaunches ==
    {Launch({a, c}, 1, [m \in MCMains |-> <<sha1, IF m = a THEN "force" ELSE "plain", Groups>>]),
     Launch({a, b, c}, 0, a :> <<sha1, "unregistered", {"pickup_zone_demand"}>>
                          @@ b :> <<sha2, "force", {"trip_features"}>>
                          @@ c :> <<sha1, "plain", Groups>>)}
=============================================================================
