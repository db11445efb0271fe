--------------------------- MODULE MCFeatureRuns ---------------------------
EXTENDS FeatureRuns, TLC

CONSTANTS a, b, c, t, sha1, sha2

MCRuns == {a, b, c}
MCTwoRuns == {a, b}
MCCodes == {sha1, sha2}
MCOneCode == {sha1}
MCTrainers == {t}

Launch(present, third, ingestions) ==
    [present |-> present, ingestions |-> ingestions,
     as |-> (a :> <<sha1, "plain">>) @@ (b :> <<sha1, "force">>) @@ (c :> third)]

\* A run, a forced one of the same key, and a third of that key or another.
\* Or the first and one without the registry, a training job and an ingestion.
MCLaunches ==
    {Launch({a, b, c}, <<sha, "plain">>, 0) : sha \in MCCodes}
    \cup {Launch({a, c, t}, <<sha1, "unregistered">>, 1)}

\* Runs of one key or of two, a training job, and as many ingestions as the
\* bound lets in.
MCPlain ==
    [present : {Runs \cup Trainers}, as : [Runs -> Codes \X {"plain"}],
     ingestions : {MaxGenerations - 1}]
=============================================================================
