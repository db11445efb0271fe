----------------------------- MODULE PointInTime -----------------------------
(***************************************************************************)
(* The features of features/point_in_time.py as features/build_silver.py   *)
(* composes them: trailing windows per pickup zone, trailing windows over  *)
(* daily partial aggregates per vendor, and the backward as-of join that   *)
(* attaches both to every trip.                                            *)
(*                                                                         *)
(* An aggregate is modelled by the set of trips it aggregates: its count   *)
(* and its means are functions of that set, and the daily partials of one  *)
(* vendor are disjoint, so that summing them is taking their union.        *)
(***************************************************************************)
EXTENDS Integers, FiniteSets

CONSTANTS
    Ids,              \* the trips of the bronze table
    Zones, Vendors,   \* the keys; a trip may lack either
    Null,
    Times,            \* timestamps, in ticks
    Tick,             \* ticks per second: timestamps are finer than seconds
    Day,              \* seconds per day
    ZoneWindows,      \* trailing frames, [first, last] in seconds from T
    DriverWindows,
    ZoneTolerance, DriverTolerance,   \* of the joins, in seconds
    MaxGenerations    \* bound: contents of the bronze table

ASSUME KeysAssumption == Null \notin Zones \cup Vendors
ASSUME TimeAssumption == Times \subseteq Int /\ Tick \in Nat \ {0} /\ Day \in Nat \ {0}
\* conf/features.yaml: frames always end before T, or before T's day.
ASSUME WindowsAssumption ==
    /\ ZoneWindows \cup DriverWindows \subseteq [first : Int, last : Int]
    /\ \A w \in ZoneWindows : w.last < 0
    /\ \A w \in DriverWindows : w.last <= -Day
\* A day of tolerance reaches the start of the trip's own day.
ASSUME ToleranceAssumption ==
    ZoneTolerance \in Nat /\ DriverTolerance \in Nat /\ DriverTolerance >= Day - 1
ASSUME GenerationsAssumption == MaxGenerations \in Nat \ {0}

VARIABLES
    bronze, generation,   \* the bronze table and how often it was replaced
    demand,               \* silver/pickup_zone_demand
    history,              \* silver/driver_trip_history
    features,             \* silver/trip_features: each trip with its matches
    builtFrom             \* history: the generations demand and history are of

vars == <<bronze, generation, demand, history, features, builtFrom>>

Trip == [id : Ids, zone : Zones \cup {Null}, vendor : Vendors \cup {Null}, ts : Times]

\* One record per trip id.
BronzeTables ==
    {{[id |-> i, zone |-> f[i].zone, vendor |-> f[i].vendor, ts |-> f[i].ts] : i \in Ids} :
        f \in [Ids -> [zone : Zones \cup {Null}, vendor : Vendors \cup {Null}, ts : Times]]}

-----------------------------------------------------------------------------
(* Time. *)

Seconds(ts) == ts \div Tick             \* unix_timestamp
DayOf(ts) == Seconds(ts) \div Day       \* to_date, in UTC

\* Mutant of DayStart: a day's row has the time its day ends at.
DayEnd(day) == (day + 1) * Day * Tick
DayStart(day) == day * Day * Tick

\* rangeBetween(first, last) on whole seconds, seen from the row at T.
InFrame(w, second, T) == T + w.first <= second /\ second <= T + w.last

\* A quotient cast to long is cut off towards zero.
Truncated(a, b) == IF a >= 0 THEN a \div b ELSE -((-a) \div b)
Bucket(ts, tolerance) == Truncated(Seconds(ts), tolerance + 1)

-----------------------------------------------------------------------------
(* The two feature tables: rows with a key, a timestamp and, per window, the *)
(* trips aggregated.                                                         *)

InZoneFrame(table, zone, second, w) ==
    {y \in table : y.zone = zone /\ InFrame(w, Seconds(y.ts), second)}

\* Mutants of ZoneDemand: trips without a zone are kept; the frame leaves out
\* the trip itself instead of its second.
DemandOfAll(table) ==
    {[key |-> x.zone, ts |-> x.ts,
      seen |-> [w \in ZoneWindows |-> InZoneFrame(table, x.zone, Seconds(x.ts), w)]] :
        x \in table}

DemandButOwn(table) ==
    {[key |-> x.zone, ts |-> x.ts,
      seen |-> [w \in ZoneWindows |->
                   {y \in table \ {x} : /\ y.zone = x.zone
                                        /\ Seconds(x.ts) + w.first <= Seconds(y.ts)
                                        /\ Seconds(y.ts) <= Seconds(x.ts)}]] :
        x \in {y \in table : y.zone # Null}}

\* compute_pickup_zone_demand: a row for every trip that has a zone; rows of
\* one zone and timestamp are equal, so the table is a set.
ZoneDemand(table) ==
    {[key |-> x.zone, ts |-> x.ts,
      seen |-> [w \in ZoneWindows |-> InZoneFrame(table, x.zone, Seconds(x.ts), w)]] :
        x \in {y \in table : y.zone # Null}}

\* compute_driver_trip_history: first the partials per vendor and day ...
Partial(table, vendor, day) == {y \in table : y.vendor = vendor /\ DayOf(y.ts) = day}
Days(table, vendor) == {DayOf(y.ts) : y \in {x \in table : x.vendor = vendor}}

\* ... then the windows over those, on the timestamps the days start at.
InDriverFrame(table, vendor, day, w) ==
    UNION {Partial(table, vendor, d) :
              d \in {e \in Days(table, vendor) : InFrame(w, e * Day, day * Day)}}

DriverHistory(table) ==
    {[key |-> x.vendor, ts |-> DayStart(DayOf(x.ts)),
      seen |-> [w \in DriverWindows |-> InDriverFrame(table, x.vendor, DayOf(x.ts), w)]] :
        x \in {y \in table : y.vendor # Null}}

-----------------------------------------------------------------------------
(* as_of_join *)

\* dropDuplicates keeps an arbitrary row of each key and timestamp.
Deduplicated(table) ==
    {kept \in SUBSET table :
        /\ \A f \in table : \E g \in kept : g.key = f.key /\ g.ts = f.ts
        /\ \A f, g \in kept : f.key = g.key /\ f.ts = g.ts => f = g}

\* Mutant of Candidates: only the bucket of T is probed.
SameBucket(table, key, T, tolerance) ==
    {f \in table : f.key = key /\ Bucket(f.ts, tolerance) = Bucket(T, tolerance)}

\* The equi-join on key and bucket: the bucket of T and the one before it.
Candidates(table, key, T, tolerance) ==
    {f \in table :
        /\ f.key = key
        /\ Bucket(f.ts, tolerance) \in {Bucket(T, tolerance), Bucket(T, tolerance) - 1}}

\* Mutant of Valid: rows after T count too.
ValidBothWays(f, T, tolerance) == Seconds(T) - Seconds(f.ts) <= tolerance

Valid(f, T, tolerance) == f.ts <= T /\ Seconds(T) - Seconds(f.ts) <= tolerance

\* Rank 1 by timestamp, nulled out unless valid: the match as a set of at most
\* one row, no two rows of a deduplicated table having a key and a time alike.
AsOf(table, key, T, tolerance) ==
    LET valid == {f \in Candidates(table, key, T, tolerance) : Valid(f, T, tolerance)}
    IN  {f \in valid : \A g \in valid : g.ts <= f.ts}

-----------------------------------------------------------------------------
(* main: the groups are built in any order, on whatever bronze table there is *)
(* by then; a group that is skipped or not asked for is read from disk.       *)

Init ==
    /\ bronze \in BronzeTables
    /\ generation = 1
    /\ demand = {}
    /\ history = {}
    /\ features = {}
    /\ builtFrom = [demand |-> 0, history |-> 0]

Ingest ==
    /\ generation < MaxGenerations
    /\ generation' = generation + 1
    /\ bronze' \in BronzeTables
    /\ UNCHANGED <<demand, history, features, builtFrom>>

BuildDemand ==
    /\ demand' = ZoneDemand(bronze)
    /\ builtFrom' = [demand |-> generation, history |-> builtFrom.history]
    /\ UNCHANGED <<bronze, generation, history, features>>

BuildHistory ==
    /\ history' = DriverHistory(bronze)
    /\ builtFrom' = [demand |-> builtFrom.demand, history |-> generation]
    /\ UNCHANGED <<bronze, generation, demand, features>>

BuildTrips ==
    /\ builtFrom.demand > 0
    /\ builtFrom.history > 0
    /\ \E d \in Deduplicated(demand), h \in Deduplicated(history) :
          features' =
              {[trip |-> x,
                demand |-> AsOf(d, x.zone, x.ts, ZoneTolerance),
                history |-> AsOf(h, x.vendor, x.ts, DriverTolerance)] : x \in bronze}
    /\ UNCHANGED <<bronze, generation, demand, history, builtFrom>>

Next == Ingest \/ BuildDemand \/ BuildHistory \/ BuildTrips

Spec == Init /\ [][Next]_vars

-----------------------------------------------------------------------------
(* Properties *)

Row(windows) == [key : Zones \cup Vendors, ts : Int, seen : [windows -> SUBSET Trip]]

TypeOK ==
    /\ bronze \in SUBSET Trip
    /\ generation \in 1..MaxGenerations
    /\ \A f \in demand : f \in Row(ZoneWindows)
    /\ \A f \in history : f \in Row(DriverWindows)
    /\ \A r \in features : /\ r.trip \in Trip
                           /\ \A m \in r.demand : m \in Row(ZoneWindows)
                           /\ \A m \in r.history : m \in Row(DriverWindows)
    /\ builtFrom \in [demand : 0..MaxGenerations, history : 0..MaxGenerations]

\* No future data leaks: whatever generations the joined tables are of, a
\* trip's zone features aggregate trips of earlier seconds only, and its driver
\* features trips of earlier days only (guarantees 1 and 3 of the module).
NoLeak ==
    \A r \in features :
        /\ \A m \in r.demand : \A w \in ZoneWindows : \A y \in m.seen[w] :
              Seconds(y.ts) < Seconds(r.trip.ts)
        /\ \A m \in r.history : \A w \in DriverWindows : \A y \in m.seen[w] :
              DayOf(y.ts) < DayOf(r.trip.ts)

\* The join "drops duplicates, arbitrary row kept": harmless, since rows of one
\* key and timestamp agree.
DuplicatesAgree ==
    \A table \in {demand, history} : \A f, g \in table :
        f.key = g.key /\ f.ts = g.ts => f = g

\* The reference: among the rows of the key at or before T, within the
\* tolerance, the latest; no buckets.
MostRecent(table, key, T, tolerance) ==
    LET past == {f \in table : f.key = key /\ Valid(f, T, tolerance)}
    IN  {f \in past : \A g \in past : g.ts <= f.ts}

\* Probing two buckets loses no match: the hash join of as_of_join is the
\* backward as-of join it stands for, on any table and for dates before 1970.
MatchesMostRecent(r) ==
    /\ r.demand = MostRecent(demand, r.trip.zone, r.trip.ts, ZoneTolerance)
    /\ r.history = MostRecent(history, r.trip.vendor, r.trip.ts, DriverTolerance)
JoinIsBackwardAsOf == [][BuildTrips => \A r \in features' : MatchesMostRecent(r)]_vars

\* What trip x should see, read off the bronze table trip by trip.
ZoneTrips(x, w) ==
    {y \in bronze : y.zone = x.zone /\ InFrame(w, Seconds(y.ts), Seconds(x.ts))}
VendorTrips(x, w) ==
    {y \in bronze : y.vendor = x.vendor /\ InFrame(w, DayOf(y.ts) * Day, DayOf(x.ts) * Day)}
Exact(r) ==
    /\ {m.seen : m \in r.demand} =
          IF r.trip.zone = Null THEN {} ELSE {[w \in ZoneWindows |-> ZoneTrips(r.trip, w)]}
    /\ {m.seen : m \in r.history} =
          IF r.trip.vendor = Null THEN {} ELSE {[w \in DriverWindows |-> VendorTrips(r.trip, w)]}

\* When all three groups are built from one bronze table, every trip gets
\* exactly the trips of its zone in the seconds of each frame before it, and
\* those of its vendor in the days of each frame before its day: the roll-up by
\* day and the joins lose and add nothing.
FeaturesAreExact ==
    [][BuildTrips /\ builtFrom = [demand |-> generation, history |-> generation]
          => \A r \in features' : Exact(r)]_vars
=============================================================================
