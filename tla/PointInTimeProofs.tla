-------------------------- MODULE PointInTimeProofs --------------------------
(***************************************************************************)
(* What PointInTime promises for any trips, keys, timestamps, windows and  *)
(* tolerances.  The arithmetic comes first: quotients of a ts by a positive *)
(* Tick, Day or bucket size are only ever used through DivBounds,          *)
(* TruncatedBounds and LessQuotient.                                       *)
(***************************************************************************)
EXTENDS PointInTime, TLAPS

USE TimeAssumption, WindowsAssumption, ToleranceAssumption

-----------------------------------------------------------------------------
(* Arithmetic *)

LEMMA DivBounds ==
    ASSUME NEW a \in Int, NEW b \in Nat \ {0}
    PROVE  a \div b \in Int /\ b * (a \div b) <= a /\ a < b * (a \div b) + b
BY SMT

LEMMA LessQuotient ==
    ASSUME NEW b \in Nat \ {0}, NEW p \in Int, NEW q \in Int, b * p < b * q + b
    PROVE  p <= q
BY SMT

LEMMA DivIsMonotone ==
    ASSUME NEW s \in Int, NEW t \in Int, NEW b \in Nat \ {0}, s <= t
    PROVE  s \div b <= t \div b
<1> DEFINE p == s \div b
           q == t \div b
<1>1. p \in Int /\ b * p <= s
  BY DivBounds
<1>2. q \in Int /\ t < b * q + b
  BY DivBounds
<1> HIDE DEF p, q
<1>3. b * p \in Int /\ b * q + b \in Int
  BY <1>1, <1>2, SMT
<1>4. b * p < b * q + b
  BY <1>1, <1>2, <1>3
<1>5. p <= q
  BY <1>1, <1>2, <1>4, LessQuotient
<1> QED
  BY <1>5 DEF p, q

LEMMA DivOfMultiple ==
    ASSUME NEW d \in Int, NEW b \in Nat \ {0}
    PROVE  (d * b) \div b = d
<1> DEFINE q == (d * b) \div b
<1>1. d * b \in Int /\ d * b = b * d
  BY SMT
<1>2. q \in Int /\ b * q <= b * d /\ b * d < b * q + b
  BY <1>1, DivBounds
<1> HIDE DEF q
<1>3. b * q \in Int /\ b * d \in Int
  BY <1>2, SMT
<1>4. b * q < b * d + b
  BY <1>2, <1>3
<1>5. q <= d /\ d <= q
  BY <1>2, <1>4, LessQuotient
<1>6. q = d
  BY <1>2, <1>5
<1> QED
  BY <1>6 DEF q

LEMMA TruncatedBounds ==
    ASSUME NEW a \in Int, NEW b \in Nat \ {0}
    PROVE  /\ Truncated(a, b) \in Int
           /\ a >= 0 => b * Truncated(a, b) <= a /\ a < b * Truncated(a, b) + b
           /\ a < 0 => b * Truncated(a, b) >= a /\ a > b * Truncated(a, b) - b
BY SMT DEF Truncated

\* The comment in as_of_join: a row within the tolerance of T lies in T's
\* bucket or the previous one, on either side of 1970.
LEMMA TwoBuckets ==
    ASSUME NEW t \in Int, NEW f \in Int, NEW tolerance \in Nat, f <= t, t - f <= tolerance
    PROVE  Truncated(f, tolerance + 1)
               \in {Truncated(t, tolerance + 1), Truncated(t, tolerance + 1) - 1}
<1> DEFINE b == tolerance + 1
           p == Truncated(t, b)
           q == Truncated(f, b)
<1>1. b \in Nat \ {0} /\ t < f + b
  OBVIOUS
<1>2. /\ p \in Int
      /\ t >= 0 => b * p <= t /\ t < b * p + b
      /\ t < 0 => b * p >= t /\ t > b * p - b
  BY <1>1, TruncatedBounds
<1>3. /\ q \in Int
      /\ f >= 0 => b * q <= f /\ f < b * q + b
      /\ f < 0 => b * q >= f /\ f > b * q - b
  BY <1>1, TruncatedBounds
<1> HIDE DEF b, p, q
<1>4. b * q \in Int /\ b * p \in Int /\ b * (q + 1) = b * q + b
  BY <1>1, <1>2, <1>3, SMT
<1>5. b * q < b * p + b
  BY <1>1, <1>2, <1>3, <1>4
<1>6. b * p < b * (q + 1) + b
  BY <1>1, <1>2, <1>3, <1>4
<1>7. q <= p /\ p <= q + 1
  BY <1>1, <1>2, <1>3, <1>5, <1>6, LessQuotient
<1>8. q \in {p, p - 1}
  BY <1>2, <1>3, <1>7
<1> QED
  BY <1>8 DEF b, p, q

LEMMA SecondsFacts ==
    /\ \A ts \in Int : Seconds(ts) \in Int /\ DayOf(ts) \in Int
    /\ \A s, t \in Int : s <= t => Seconds(s) <= Seconds(t) /\ DayOf(s) <= DayOf(t)
<1>1. \A ts \in Int : Seconds(ts) \in Int /\ DayOf(ts) \in Int
  BY DivBounds DEF Seconds, DayOf
<1>2. \A s, t \in Int : s <= t => Seconds(s) <= Seconds(t) /\ DayOf(s) <= DayOf(t)
  BY <1>1, DivIsMonotone DEF Seconds, DayOf
<1> QED
  BY <1>1, <1>2

LEMMA DayStartFacts ==
    ASSUME NEW d \in Int
    PROVE  /\ DayStart(d) \in Int
           /\ Seconds(DayStart(d)) = d * Day
           /\ DayOf(DayStart(d)) = d
<1>1. d * Day \in Int /\ DayStart(d) \in Int
  BY SMT DEF DayStart
<1>2. Seconds(DayStart(d)) = d * Day
  BY <1>1, DivOfMultiple DEF Seconds, DayStart
<1>3. DayOf(DayStart(d)) = d
  BY <1>2, DivOfMultiple DEF DayOf
<1> QED
  BY <1>1, <1>2, <1>3

-----------------------------------------------------------------------------
(* Operators *)

LEMMA BronzeIsTrips ==
    ASSUME NEW table \in BronzeTables
    PROVE  table \subseteq Trip /\ \A x \in table : x.ts \in Int
<1> DEFINE Columns == [zone : Zones \cup {Null}, vendor : Vendors \cup {Null}, ts : Times]
<1>1. PICK f \in [Ids -> Columns] :
          table = {[id |-> i, zone |-> f[i].zone, vendor |-> f[i].vendor, ts |-> f[i].ts] :
                      i \in Ids}
  BY DEF BronzeTables
<1>2. ASSUME NEW i \in Ids
      PROVE  [id |-> i, zone |-> f[i].zone, vendor |-> f[i].vendor, ts |-> f[i].ts] \in Trip
  <2>1. f[i] \in Columns
    OBVIOUS
  <2>2. f[i].zone \in Zones \cup {Null} /\ f[i].vendor \in Vendors \cup {Null} /\ f[i].ts \in Times
    BY <2>1
  <2> QED
    BY <2>2 DEF Trip
<1>3. table \subseteq Trip
  BY <1>1, <1>2
<1>4. \A x \in Trip : x.ts \in Int
  BY DEF Trip
<1> QED
  BY <1>3, <1>4

LEMMA ZoneFramesArePast ==
    ASSUME NEW table, table \subseteq Trip, NEW zone, NEW T \in Int, NEW w \in ZoneWindows,
           NEW y \in InZoneFrame(table, zone, Seconds(T), w)
    PROVE  y \in Trip /\ Seconds(y.ts) < Seconds(T)
<1>1. y \in Trip /\ y.ts \in Int
  BY DEF InZoneFrame, Trip
<1>2. Seconds(y.ts) \in Int /\ Seconds(T) \in Int
  BY <1>1, SecondsFacts
<1>3. w.last \in Int /\ w.last < 0
  OBVIOUS
<1>4. InFrame(w, Seconds(y.ts), Seconds(T))
  BY DEF InZoneFrame
<1>5. Seconds(y.ts) <= Seconds(T) + w.last
  BY <1>4 DEF InFrame
<1> QED
  BY <1>1, <1>2, <1>3, <1>5

LEMMA DriverFramesArePast ==
    ASSUME NEW table, table \subseteq Trip, NEW vendor, NEW day \in Int, NEW w \in DriverWindows,
           NEW y \in InDriverFrame(table, vendor, day, w)
    PROVE  y \in Trip /\ DayOf(y.ts) < day
<1>1. y \in Trip /\ y.ts \in Int
  <2>1. y \in table
    BY DEF InDriverFrame, Partial
  <2> QED
    BY <2>1 DEF Trip
<1>2. InFrame(w, DayOf(y.ts) * Day, day * Day)
  BY DEF InDriverFrame, Partial
<1> DEFINE e == DayOf(y.ts)
<1>3. e \in Int
  BY <1>1, SecondsFacts
<1> HIDE DEF e
<1>4. w.last \in Int /\ w.last <= -Day
  OBVIOUS
<1>5. e * Day <= day * Day + w.last
  BY <1>2 DEF InFrame, e
<1>6. /\ Day * (e + 1) = e * Day + Day /\ Day * day = day * Day
      /\ e * Day \in Int /\ day * Day \in Int
  BY <1>3, SMT
<1>7. Day * (e + 1) < Day * day + Day
  BY <1>4, <1>5, <1>6
<1>8. e + 1 <= day
  BY <1>3, <1>7, LessQuotient
<1> QED
  BY <1>1, <1>3, <1>8 DEF e

\* Where duplicates agree, dropDuplicates has one outcome: the table.
LEMMA DeduplicatedIsTable ==
    ASSUME NEW table,
           \A f, g \in table : f.key = g.key /\ f.ts = g.ts => f = g,
           NEW kept \in Deduplicated(table)
    PROVE  kept = table
BY DEF Deduplicated

\* Hence as_of_join, buckets and all, is the as-of join.
LEMMA JoinIsMostRecent ==
    ASSUME NEW table, \A f \in table : f.ts \in Int,
           NEW key, NEW T \in Int, NEW tolerance \in Nat
    PROVE  AsOf(table, key, T, tolerance) = MostRecent(table, key, T, tolerance)
<1> DEFINE found == {f \in Candidates(table, key, T, tolerance) : Valid(f, T, tolerance)}
           past == {f \in table : f.key = key /\ Valid(f, T, tolerance)}
<1>1. ASSUME NEW f \in table, Valid(f, T, tolerance)
      PROVE  Bucket(f.ts, tolerance) \in {Bucket(T, tolerance), Bucket(T, tolerance) - 1}
  <2>1. /\ Seconds(f.ts) \in Int /\ Seconds(T) \in Int
        /\ Seconds(f.ts) <= Seconds(T) /\ Seconds(T) - Seconds(f.ts) <= tolerance
    BY <1>1, SecondsFacts DEF Valid
  <2> QED
    BY <2>1, TwoBuckets DEF Bucket
<1>2. found = past
  BY <1>1 DEF Candidates
<1> QED
  BY <1>2 DEF AsOf, MostRecent

-----------------------------------------------------------------------------
(* The invariant *)

\* What the rows of the two tables aggregate, and that their timestamps say so.
RowsArePast ==
    /\ \A f \in demand : \A w \in ZoneWindows : \A y \in f.seen[w] :
          Seconds(y.ts) < Seconds(f.ts)
    /\ \A f \in history : \A w \in DriverWindows : \A y \in f.seen[w] :
          DayOf(y.ts) < DayOf(f.ts)

Invariant == TypeOK /\ RowsArePast /\ DuplicatesAgree /\ NoLeak

LEMMA DemandIsPast ==
    ASSUME NEW table \in BronzeTables
    PROVE  /\ \A f \in ZoneDemand(table) : f \in Row(ZoneWindows)
           /\ \A f \in ZoneDemand(table) : \A w \in ZoneWindows : \A y \in f.seen[w] :
                 Seconds(y.ts) < Seconds(f.ts)
           /\ \A f, g \in ZoneDemand(table) : f.key = g.key /\ f.ts = g.ts => f = g
<1>1. table \subseteq Trip /\ \A x \in table : x.ts \in Int
  BY BronzeIsTrips
<1>2. ASSUME NEW x \in table, x.zone # Null
      PROVE  [key |-> x.zone, ts |-> x.ts,
              seen |-> [w \in ZoneWindows |-> InZoneFrame(table, x.zone, Seconds(x.ts), w)]]
                 \in Row(ZoneWindows)
  <2>1. [w \in ZoneWindows |-> InZoneFrame(table, x.zone, Seconds(x.ts), w)]
            \in [ZoneWindows -> SUBSET Trip]
    BY <1>1 DEF InZoneFrame
  <2>2. x.zone \in Zones \cup Vendors /\ x.ts \in Int
    BY <1>1, <1>2 DEF Trip
  <2> QED
    BY <2>1, <2>2 DEF Row
<1>3. \A f \in ZoneDemand(table) : f \in Row(ZoneWindows)
  BY <1>2 DEF ZoneDemand
<1>4. ASSUME NEW f \in ZoneDemand(table), NEW w \in ZoneWindows, NEW y \in f.seen[w]
      PROVE  Seconds(y.ts) < Seconds(f.ts)
  <2>1. PICK x \in table : /\ f.ts = x.ts
                           /\ f.seen[w] = InZoneFrame(table, x.zone, Seconds(x.ts), w)
    BY DEF ZoneDemand
  <2> QED
    BY <1>1, <1>4, <2>1, ZoneFramesArePast
<1>5. \A f, g \in ZoneDemand(table) : f.key = g.key /\ f.ts = g.ts => f = g
  BY DEF ZoneDemand
<1> QED
  BY <1>3, <1>4, <1>5

LEMMA HistoryIsPast ==
    ASSUME NEW table \in BronzeTables
    PROVE  /\ \A f \in DriverHistory(table) : f \in Row(DriverWindows)
           /\ \A f \in DriverHistory(table) : \A w \in DriverWindows : \A y \in f.seen[w] :
                 DayOf(y.ts) < DayOf(f.ts)
           /\ \A f, g \in DriverHistory(table) : f.key = g.key /\ f.ts = g.ts => f = g
<1>1. table \subseteq Trip /\ \A x \in table : x.ts \in Int /\ DayOf(x.ts) \in Int
  BY BronzeIsTrips, SecondsFacts
<1>2. \A x \in table : DayStart(DayOf(x.ts)) \in Int /\ DayOf(DayStart(DayOf(x.ts))) = DayOf(x.ts)
  BY <1>1, DayStartFacts
<1>3. ASSUME NEW x \in table, x.vendor # Null
      PROVE  [key |-> x.vendor, ts |-> DayStart(DayOf(x.ts)),
              seen |-> [w \in DriverWindows |-> InDriverFrame(table, x.vendor, DayOf(x.ts), w)]]
                 \in Row(DriverWindows)
  <2>1. [w \in DriverWindows |-> InDriverFrame(table, x.vendor, DayOf(x.ts), w)]
            \in [DriverWindows -> SUBSET Trip]
    BY <1>1, DriverFramesArePast
  <2>2. x.vendor \in Zones \cup Vendors
    BY <1>1, <1>3 DEF Trip
  <2> QED
    BY <1>2, <2>1, <2>2 DEF Row
<1>4. \A f \in DriverHistory(table) : f \in Row(DriverWindows)
  BY <1>3 DEF DriverHistory
<1>5. ASSUME NEW f \in DriverHistory(table), NEW w \in DriverWindows, NEW y \in f.seen[w]
      PROVE  DayOf(y.ts) < DayOf(f.ts)
  <2>1. PICK x \in table : /\ f.ts = DayStart(DayOf(x.ts))
                           /\ f.seen[w] = InDriverFrame(table, x.vendor, DayOf(x.ts), w)
    BY DEF DriverHistory
  <2> QED
    BY <1>1, <1>2, <1>5, <2>1, DriverFramesArePast
<1>6. ASSUME NEW f \in DriverHistory(table), NEW g \in DriverHistory(table),
             f.key = g.key, f.ts = g.ts
      PROVE  f = g
  <2>1. PICK x \in table :
            f = [key |-> x.vendor, ts |-> DayStart(DayOf(x.ts)),
                 seen |-> [w \in DriverWindows |-> InDriverFrame(table, x.vendor, DayOf(x.ts), w)]]
    BY DEF DriverHistory
  <2>2. PICK y \in table :
            g = [key |-> y.vendor, ts |-> DayStart(DayOf(y.ts)),
                 seen |-> [w \in DriverWindows |-> InDriverFrame(table, y.vendor, DayOf(y.ts), w)]]
    BY DEF DriverHistory
  <2>3. x.vendor = y.vendor /\ DayOf(x.ts) = DayOf(y.ts)
    BY <1>2, <1>6, <2>1, <2>2
  <2> QED
    BY <2>1, <2>2, <2>3
<1> QED
  BY <1>4, <1>5, <1>6

-----------------------------------------------------------------------------
(* Every step keeps the invariant. *)

LEMMA InitInvariant == Init => Invariant
<1> SUFFICES ASSUME Init PROVE Invariant
  OBVIOUS
<1>1. bronze \in SUBSET Trip
  BY BronzeIsTrips DEF Init
<1>2. generation \in 1..MaxGenerations /\ 0 \in 0..MaxGenerations
  BY GenerationsAssumption DEF Init
<1>3. builtFrom \in [demand : 0..MaxGenerations, history : 0..MaxGenerations]
  BY <1>2 DEF Init
<1>4. TypeOK
  BY <1>1, <1>2, <1>3 DEF Init, TypeOK
<1> QED
  BY <1>4 DEF Init, Invariant, RowsArePast, DuplicatesAgree, NoLeak

\* bronze always is one of the tables Ingest and Init draw from.
LEMMA BronzeStays == (bronze \in BronzeTables) /\ [Next]_vars => bronze' \in BronzeTables
BY DEF Next, Ingest, BuildDemand, BuildHistory, BuildTrips, vars

LEMMA BuiltFromType ==
    ASSUME TypeOK, NEW n \in 0..MaxGenerations
    PROVE  /\ [demand |-> n, history |-> builtFrom.history]
                  \in [demand : 0..MaxGenerations, history : 0..MaxGenerations]
           /\ [demand |-> builtFrom.demand, history |-> n]
                  \in [demand : 0..MaxGenerations, history : 0..MaxGenerations]
BY DEF TypeOK

LEMMA IngestKeeps == Invariant /\ Ingest => Invariant'
<1> SUFFICES ASSUME Invariant, Ingest PROVE Invariant'
  OBVIOUS
<1>1. bronze' \in SUBSET Trip
  BY BronzeIsTrips DEF Ingest
<1>2. generation' \in 1..MaxGenerations
  BY GenerationsAssumption DEF Ingest, Invariant, TypeOK
<1>3. TypeOK'
  BY <1>1, <1>2 DEF Ingest, Invariant, TypeOK
<1> QED
  BY <1>3 DEF Ingest, Invariant, RowsArePast, DuplicatesAgree, NoLeak

LEMMA BuildDemandKeeps == (bronze \in BronzeTables) /\ Invariant /\ BuildDemand => Invariant'
<1> SUFFICES ASSUME bronze \in BronzeTables, Invariant, BuildDemand PROVE Invariant'
  OBVIOUS
<1>1. /\ \A f \in demand' : f \in Row(ZoneWindows)
      /\ \A f \in demand' : \A w \in ZoneWindows : \A y \in f.seen[w] :
            Seconds(y.ts) < Seconds(f.ts)
      /\ \A f, g \in demand' : f.key = g.key /\ f.ts = g.ts => f = g
  BY DemandIsPast DEF BuildDemand
<1>2. generation \in 0..MaxGenerations
  BY GenerationsAssumption DEF Invariant, TypeOK
<1>3. builtFrom' \in [demand : 0..MaxGenerations, history : 0..MaxGenerations]
  BY <1>2, BuiltFromType DEF BuildDemand, Invariant
<1>4. TypeOK'
  BY <1>1, <1>3 DEF BuildDemand, Invariant, TypeOK
<1>5. RowsArePast' /\ DuplicatesAgree'
  BY <1>1 DEF BuildDemand, Invariant, RowsArePast, DuplicatesAgree
<1> QED
  BY <1>4, <1>5 DEF BuildDemand, Invariant, NoLeak

LEMMA BuildHistoryKeeps == (bronze \in BronzeTables) /\ Invariant /\ BuildHistory => Invariant'
<1> SUFFICES ASSUME bronze \in BronzeTables, Invariant, BuildHistory PROVE Invariant'
  OBVIOUS
<1>1. /\ \A f \in history' : f \in Row(DriverWindows)
      /\ \A f \in history' : \A w \in DriverWindows : \A y \in f.seen[w] :
            DayOf(y.ts) < DayOf(f.ts)
      /\ \A f, g \in history' : f.key = g.key /\ f.ts = g.ts => f = g
  BY HistoryIsPast DEF BuildHistory
<1>2. generation \in 0..MaxGenerations
  BY GenerationsAssumption DEF Invariant, TypeOK
<1>3. builtFrom' \in [demand : 0..MaxGenerations, history : 0..MaxGenerations]
  BY <1>2, BuiltFromType DEF BuildHistory, Invariant
<1>4. TypeOK'
  BY <1>1, <1>3 DEF BuildHistory, Invariant, TypeOK
<1>5. RowsArePast' /\ DuplicatesAgree'
  BY <1>1 DEF BuildHistory, Invariant, RowsArePast, DuplicatesAgree
<1> QED
  BY <1>4, <1>5 DEF BuildHistory, Invariant, NoLeak

LEMMA SeenAreTrips ==
    ASSUME NEW windows, NEW m \in Row(windows), NEW w \in windows, NEW y \in m.seen[w]
    PROVE  y \in Trip /\ y.ts \in Int
<1>1. m.seen \in [windows -> SUBSET Trip]
  BY DEF Row
<1>2. y \in Trip
  BY <1>1
<1> QED
  BY <1>2 DEF Trip

\* A match is a row of the table whose timestamp is not after T.
LEMMA MatchIsPast ==
    ASSUME NEW table, NEW key, NEW T, NEW tolerance, NEW m \in AsOf(table, key, T, tolerance)
    PROVE  m \in table /\ m.ts <= T
BY DEF AsOf, Candidates, Valid

LEMMA BuildTripsKeeps == Invariant /\ BuildTrips => Invariant'
<1> SUFFICES ASSUME Invariant, BuildTrips PROVE Invariant'
  OBVIOUS
<1>1. PICK d \in Deduplicated(demand), h \in Deduplicated(history) :
          features' =
              {[trip |-> x,
                demand |-> AsOf(d, x.zone, x.ts, ZoneTolerance),
                history |-> AsOf(h, x.vendor, x.ts, DriverTolerance)] : x \in bronze}
  BY DEF BuildTrips
<1>2. d \subseteq demand /\ h \subseteq history
  BY DEF Deduplicated
<1>3. ASSUME NEW r \in features'
      PROVE  /\ r.trip \in Trip /\ r.trip.ts \in Int
             /\ \A m \in r.demand : m \in demand /\ m.ts \in Int /\ m.ts <= r.trip.ts
             /\ \A m \in r.history : m \in history /\ m.ts \in Int /\ m.ts <= r.trip.ts
  <2>1. PICK x \in bronze :
            r = [trip |-> x,
                 demand |-> AsOf(d, x.zone, x.ts, ZoneTolerance),
                 history |-> AsOf(h, x.vendor, x.ts, DriverTolerance)]
    BY <1>1
  <2>2. r.trip \in Trip /\ r.trip.ts \in Int
    BY <2>1 DEF Invariant, TypeOK, Trip
  <2>3. \A m \in r.demand : m \in demand /\ m.ts <= r.trip.ts
    BY <1>2, <2>1, MatchIsPast
  <2>4. \A m \in r.history : m \in history /\ m.ts <= r.trip.ts
    BY <1>2, <2>1, MatchIsPast
  <2>5. /\ \A m \in demand : m.ts \in Int
        /\ \A m \in history : m.ts \in Int
    BY DEF Invariant, TypeOK, Row
  <2> QED
    BY <2>2, <2>3, <2>4, <2>5
<1>4. TypeOK'
  <2>1. \A r \in features' : /\ r.trip \in Trip
                             /\ \A m \in r.demand : m \in Row(ZoneWindows)
                             /\ \A m \in r.history : m \in Row(DriverWindows)
    BY <1>3 DEF Invariant, TypeOK
  <2> QED
    BY <2>1 DEF BuildTrips, Invariant, TypeOK
<1>5. RowsArePast' /\ DuplicatesAgree'
  BY DEF BuildTrips, Invariant, RowsArePast, DuplicatesAgree
<1>6. ASSUME NEW r \in features', NEW m \in r.demand, NEW w \in ZoneWindows, NEW y \in m.seen[w]
      PROVE  Seconds(y.ts) < Seconds(r.trip.ts)
  <2>1. m \in demand /\ m.ts \in Int /\ r.trip.ts \in Int /\ m.ts <= r.trip.ts
    BY <1>3, <1>6
  <2>2. y.ts \in Int
    BY <1>6, <2>1, SeenAreTrips DEF Invariant, TypeOK
  <2>3. Seconds(y.ts) < Seconds(m.ts)
    BY <1>6, <2>1 DEF Invariant, RowsArePast
  <2>4. /\ Seconds(y.ts) \in Int /\ Seconds(m.ts) \in Int /\ Seconds(r.trip.ts) \in Int
        /\ Seconds(m.ts) <= Seconds(r.trip.ts)
    BY <2>1, <2>2, SecondsFacts
  <2> QED
    BY <2>3, <2>4
<1>7. ASSUME NEW r \in features', NEW m \in r.history, NEW w \in DriverWindows, NEW y \in m.seen[w]
      PROVE  DayOf(y.ts) < DayOf(r.trip.ts)
  <2>1. m \in history /\ m.ts \in Int /\ r.trip.ts \in Int /\ m.ts <= r.trip.ts
    BY <1>3, <1>7
  <2>2. y.ts \in Int
    BY <1>7, <2>1, SeenAreTrips DEF Invariant, TypeOK
  <2>3. DayOf(y.ts) < DayOf(m.ts)
    BY <1>7, <2>1 DEF Invariant, RowsArePast
  <2>4. /\ DayOf(y.ts) \in Int /\ DayOf(m.ts) \in Int /\ DayOf(r.trip.ts) \in Int
        /\ DayOf(m.ts) <= DayOf(r.trip.ts)
    BY <2>1, <2>2, SecondsFacts
  <2> QED
    BY <2>3, <2>4
<1> QED
  BY <1>4, <1>5, <1>6, <1>7 DEF Invariant, NoLeak

LEMMA StepKeeps ==
    (bronze \in BronzeTables) /\ Invariant /\ [Next]_vars => Invariant'
<1> SUFFICES ASSUME bronze \in BronzeTables, Invariant, [Next]_vars PROVE Invariant'
  OBVIOUS
<1>1. CASE Next
  BY <1>1, IngestKeeps, BuildDemandKeeps, BuildHistoryKeeps, BuildTripsKeeps DEF Next
<1>2. CASE UNCHANGED vars
  BY <1>2 DEF vars, Invariant, TypeOK, RowsArePast, DuplicatesAgree, NoLeak
<1> QED
  BY <1>1, <1>2

\* The invariant holds throughout, whatever is built from whatever.
THEOREM AlwaysInvariant == Spec => []((bronze \in BronzeTables) /\ Invariant)
<1>1. Init => (bronze \in BronzeTables) /\ Invariant
  BY InitInvariant DEF Init
<1>2. (bronze \in BronzeTables) /\ Invariant /\ [Next]_vars
          => (bronze \in BronzeTables)' /\ Invariant'
  BY BronzeStays, StepKeeps
<1> QED
  BY <1>1, <1>2, PTL DEF Spec

\* Every value of every variable is of its type.
THEOREM TypeCorrect == Spec => []TypeOK
BY AlwaysInvariant, PTL DEF Invariant

\* A trip's features never aggregate its own second or day, or later ones.
THEOREM FeaturesNeverLeak == Spec => []NoLeak
BY AlwaysInvariant, PTL DEF Invariant

\* Which of several duplicates the join keeps cannot matter.
THEOREM DeduplicationIsHarmless == Spec => []DuplicatesAgree
BY AlwaysInvariant, PTL DEF Invariant

\* as_of_join with its two probed buckets is the backward as-of join.
THEOREM BucketsLoseNothing == Spec => JoinIsBackwardAsOf
<1> DEFINE Joined ==
        BuildTrips => \A r \in features' : MatchesMostRecent(r)
<1>1. (bronze \in BronzeTables) /\ Invariant /\ [Next]_vars => [Joined]_vars
  <2> SUFFICES ASSUME Invariant, BuildTrips, NEW r \in features' PROVE MatchesMostRecent(r)
    OBVIOUS
  <2>1. PICK d \in Deduplicated(demand), h \in Deduplicated(history) :
            features' =
                {[trip |-> x,
                  demand |-> AsOf(d, x.zone, x.ts, ZoneTolerance),
                  history |-> AsOf(h, x.vendor, x.ts, DriverTolerance)] : x \in bronze}
    BY DEF BuildTrips
  <2>2. d = demand /\ h = history
    BY DeduplicatedIsTable DEF Invariant, DuplicatesAgree
  <2>3. PICK x \in bronze :
            r = [trip |-> x,
                 demand |-> AsOf(demand, x.zone, x.ts, ZoneTolerance),
                 history |-> AsOf(history, x.vendor, x.ts, DriverTolerance)]
    BY <2>1, <2>2
  <2>4. /\ x.ts \in Int
        /\ \A f \in demand : f.ts \in Int
        /\ \A f \in history : f.ts \in Int
    BY DEF Invariant, TypeOK, Trip, Row
  <2>5. /\ AsOf(demand, x.zone, x.ts, ZoneTolerance)
               = MostRecent(demand, x.zone, x.ts, ZoneTolerance)
        /\ AsOf(history, x.vendor, x.ts, DriverTolerance)
               = MostRecent(history, x.vendor, x.ts, DriverTolerance)
    BY <2>4, JoinIsMostRecent
  <2> QED
    BY <2>3, <2>5 DEF MatchesMostRecent
<1> QED
  BY <1>1, AlwaysInvariant, PTL DEF Spec, JoinIsBackwardAsOf

-----------------------------------------------------------------------------
(* Features of one bronze table are exact. *)

\* A table of the current generation is the one the bronze table yields.
Sources ==
    /\ builtFrom.demand <= generation /\ builtFrom.history <= generation
    /\ builtFrom.demand = generation => demand = ZoneDemand(bronze)
    /\ builtFrom.history = generation => history = DriverHistory(bronze)

LEMMA SourcesStay == TypeOK /\ Sources /\ [Next]_vars => Sources'
<1> SUFFICES ASSUME TypeOK, Sources, [Next]_vars PROVE Sources'
  OBVIOUS
<1> generation \in Nat /\ builtFrom.demand \in Int /\ builtFrom.history \in Int
  BY GenerationsAssumption DEF TypeOK
<1>1. CASE Ingest
  BY <1>1 DEF Ingest, Sources
<1>2. CASE BuildDemand
  BY <1>2 DEF BuildDemand, Sources
<1>3. CASE BuildHistory
  BY <1>3 DEF BuildHistory, Sources
<1>4. CASE BuildTrips
  BY <1>4 DEF BuildTrips, Sources
<1>5. CASE UNCHANGED vars
  BY <1>5 DEF vars, Sources
<1> QED
  BY <1>1, <1>2, <1>3, <1>4, <1>5 DEF Next

\* The join finds the trip's own row of the zone table.
LEMMA OwnZoneRow ==
    ASSUME NEW table \in BronzeTables, NEW x \in table, x.zone # Null
    PROVE  MostRecent(ZoneDemand(table), x.zone, x.ts, ZoneTolerance)
             = {[key |-> x.zone, ts |-> x.ts,
                 seen |-> [w \in ZoneWindows |-> InZoneFrame(table, x.zone, Seconds(x.ts), w)]]}
<1> DEFINE own == [key |-> x.zone, ts |-> x.ts,
                   seen |-> [w \in ZoneWindows |-> InZoneFrame(table, x.zone, Seconds(x.ts), w)]]
           rows == ZoneDemand(table)
<1>1. x.ts \in Int /\ Seconds(x.ts) \in Int
  BY BronzeIsTrips, SecondsFacts
<1>2. own \in rows /\ own.key = x.zone /\ own.ts = x.ts
  BY DEF ZoneDemand
<1>3. \A f \in rows : f.ts \in Int
  BY DemandIsPast DEF Row
<1>4. \A f, g \in rows : f.key = g.key /\ f.ts = g.ts => f = g
  BY DemandIsPast
<1> HIDE DEF own, rows
<1>5. Valid(own, x.ts, ZoneTolerance)
  BY <1>1, <1>2 DEF Valid
<1>6. \A f \in rows : Valid(f, x.ts, ZoneTolerance) => f.ts <= own.ts
  BY <1>2 DEF Valid
<1>7. MostRecent(rows, x.zone, x.ts, ZoneTolerance) = {own}
  <2>1. own \in MostRecent(rows, x.zone, x.ts, ZoneTolerance)
    BY <1>2, <1>5, <1>6 DEF MostRecent
  <2>2. ASSUME NEW m \in MostRecent(rows, x.zone, x.ts, ZoneTolerance)
        PROVE  m = own
    <3>1. m \in rows /\ m.key = x.zone /\ m.ts <= own.ts /\ own.ts <= m.ts
      BY <1>2, <1>5, <1>6 DEF MostRecent
    <3> QED
      BY <1>1, <1>2, <1>3, <1>4, <3>1
  <2> QED
    BY <2>1, <2>2
<1> QED
  BY <1>7 DEF own, rows

\* The join finds the row of the trip's own day of the vendor table.
LEMMA OwnDayRow ==
    ASSUME NEW table \in BronzeTables, NEW x \in table, x.vendor # Null
    PROVE  MostRecent(DriverHistory(table), x.vendor, x.ts, DriverTolerance)
             = {[key |-> x.vendor, ts |-> DayStart(DayOf(x.ts)),
                 seen |-> [w \in DriverWindows |->
                             InDriverFrame(table, x.vendor, DayOf(x.ts), w)]]}
<1> DEFINE day == DayOf(x.ts)
           own == [key |-> x.vendor, ts |-> DayStart(day),
                   seen |-> [w \in DriverWindows |-> InDriverFrame(table, x.vendor, day, w)]]
           rows == DriverHistory(table)
<1>1. x.ts \in Int /\ Seconds(x.ts) \in Int /\ day \in Int
  BY BronzeIsTrips, SecondsFacts
<1>2. own \in rows /\ own.key = x.vendor /\ own.ts = DayStart(day)
  BY DEF DriverHistory
<1>3. \A f \in rows : f.ts \in Int
  BY HistoryIsPast DEF Row
<1>4. \A f, g \in rows : f.key = g.key /\ f.ts = g.ts => f = g
  BY HistoryIsPast
<1>5. \A f \in rows : \E e \in Int : f.ts = DayStart(e)
  BY BronzeIsTrips, SecondsFacts DEF DriverHistory
<1>6. Day * day <= Seconds(x.ts) /\ Seconds(x.ts) < Day * day + Day
  BY <1>1, DivBounds DEF DayOf
<1>7. Tick * Seconds(x.ts) <= x.ts
  BY <1>1, DivBounds DEF Seconds
<1> HIDE DEF own, rows, day
<1>8. DayStart(day) \in Int /\ Seconds(DayStart(day)) = day * Day
  BY <1>1, DayStartFacts
<1>9. Valid(own, x.ts, DriverTolerance)
  <2>1. day * Day \in Int /\ day * Day = Day * day
    BY <1>1, SMT
  <2>2. Seconds(x.ts) - Seconds(own.ts) <= DriverTolerance
    BY <1>1, <1>2, <1>6, <1>8, <2>1
  <2>3. Tick * (day * Day) <= Tick * Seconds(x.ts)
    <3> DEFINE p == day * Day
               q == Seconds(x.ts)
    <3>1. p \in Int /\ q \in Int /\ p <= q
      BY <1>1, <1>6, <2>1
    <3> HIDE DEF p, q
    <3>2. Tick * p <= Tick * q
      BY <3>1, SMT
    <3> QED
      BY <3>2 DEF p, q
  <2>4. Tick * (day * Day) = DayStart(day) /\ Tick * Seconds(x.ts) \in Int
    <3> DEFINE p == day * Day
    <3>1. p \in Int
      BY <2>1
    <3> HIDE DEF p
    <3>2. Tick * p = p * Tick /\ Tick * Seconds(x.ts) \in Int
      BY <1>1, <3>1, SMT
    <3> QED
      BY <3>2 DEF p, DayStart
  <2>5. own.ts <= x.ts
    BY <1>1, <1>2, <1>7, <1>8, <2>3, <2>4
  <2> QED
    BY <2>2, <2>5 DEF Valid
<1>10. ASSUME NEW f \in rows, Valid(f, x.ts, DriverTolerance), own.ts <= f.ts
       PROVE  f.ts = own.ts
  <2>1. PICK e \in Int : f.ts = DayStart(e)
    BY <1>5
  <2>2. day <= DayOf(f.ts) /\ DayOf(f.ts) <= day
    BY <1>1, <1>2, <1>3, <1>8, <1>10, DayStartFacts, SecondsFacts DEF Valid, day
  <2>3. DayOf(f.ts) = e
    BY <2>1, DayStartFacts
  <2> QED
    BY <1>1, <1>2, <2>1, <2>2, <2>3
<1>11. MostRecent(rows, x.vendor, x.ts, DriverTolerance) = {own}
  <2>1. \A f \in rows : Valid(f, x.ts, DriverTolerance) => f.ts <= own.ts
    BY <1>2, <1>3, <1>8, <1>10
  <2>2. own \in MostRecent(rows, x.vendor, x.ts, DriverTolerance)
    BY <1>2, <1>9, <2>1 DEF MostRecent
  <2>3. ASSUME NEW m \in MostRecent(rows, x.vendor, x.ts, DriverTolerance)
        PROVE  m = own
    <3>1. /\ m \in rows /\ m.key = x.vendor /\ Valid(m, x.ts, DriverTolerance)
          /\ own.ts <= m.ts
      BY <1>2, <1>9 DEF MostRecent
    <3> QED
      BY <1>2, <1>4, <1>10, <3>1
  <2> QED
    BY <2>2, <2>3
<1> QED
  BY <1>11 DEF own, rows, day

\* Rolled up by day and summed over the frame, or read trip by trip.
LEMMA RollUpIsExact ==
    ASSUME NEW table, NEW vendor, NEW day, NEW w
    PROVE  InDriverFrame(table, vendor, day, w)
             = {y \in table : y.vendor = vendor /\ InFrame(w, DayOf(y.ts) * Day, day * Day)}
BY DEF InDriverFrame, Partial, Days

LEMMA NoKeyNoMatch ==
    ASSUME NEW table, \A f \in table : f.key \in Zones \cup Vendors, NEW T, NEW tolerance
    PROVE  MostRecent(table, Null, T, tolerance) = {}
BY KeysAssumption DEF MostRecent

\* Built from one bronze table, a trip's features are those of its windows.
THEOREM FeaturesExact == Spec => FeaturesAreExact
<1> DEFINE Inv == (bronze \in BronzeTables) /\ Invariant /\ Sources
           Joined == BuildTrips => \A r \in features' : MatchesMostRecent(r)
           AllExact == BuildTrips /\ builtFrom = [demand |-> generation, history |-> generation]
                         => \A r \in features' : Exact(r)
<1>1. Init => Inv
  BY InitInvariant DEF Init, Sources
<1>2. Inv /\ [Next]_vars => Inv'
  BY BronzeStays, StepKeeps, SourcesStay DEF Invariant
<1>3. Inv /\ [Joined]_vars => [AllExact]_vars
  <2> SUFFICES ASSUME Inv, Joined, BuildTrips,
                      builtFrom = [demand |-> generation, history |-> generation],
                      NEW r \in features'
               PROVE  Exact(r)
    OBVIOUS
  <2> DEFINE x == r.trip
  <2>1. demand = ZoneDemand(bronze) /\ history = DriverHistory(bronze)
    BY DEF Sources
  <2>2. x \in bronze
    BY DEF BuildTrips
  <2>3. /\ r.demand = MostRecent(ZoneDemand(bronze), x.zone, x.ts, ZoneTolerance)
        /\ r.history = MostRecent(DriverHistory(bronze), x.vendor, x.ts, DriverTolerance)
    BY <2>1 DEF MatchesMostRecent
  <2>4. /\ \A f \in ZoneDemand(bronze) : f.key \in Zones \cup Vendors
        /\ \A f \in DriverHistory(bronze) : f.key \in Zones \cup Vendors
    BY DemandIsPast, HistoryIsPast DEF Row
  <2> HIDE DEF x
  <2>5. {m.seen : m \in r.demand} =
            IF x.zone = Null THEN {} ELSE {[w \in ZoneWindows |-> ZoneTrips(x, w)]}
    <3>1. CASE x.zone = Null
      BY <2>3, <2>4, <3>1, NoKeyNoMatch
    <3>2. CASE x.zone # Null
      <4>1. r.demand = {[key |-> x.zone, ts |-> x.ts,
                         seen |-> [w \in ZoneWindows |->
                                     InZoneFrame(bronze, x.zone, Seconds(x.ts), w)]]}
        BY <2>2, <2>3, <3>2, OwnZoneRow
      <4>2. [w \in ZoneWindows |-> InZoneFrame(bronze, x.zone, Seconds(x.ts), w)]
              = [w \in ZoneWindows |-> ZoneTrips(x, w)]
        BY DEF InZoneFrame, ZoneTrips
      <4> QED
        BY <3>2, <4>1, <4>2
    <3> QED
      BY <3>1, <3>2
  <2>6. {m.seen : m \in r.history} =
            IF x.vendor = Null THEN {} ELSE {[w \in DriverWindows |-> VendorTrips(x, w)]}
    <3>1. CASE x.vendor = Null
      BY <2>3, <2>4, <3>1, NoKeyNoMatch
    <3>2. CASE x.vendor # Null
      <4>1. r.history = {[key |-> x.vendor, ts |-> DayStart(DayOf(x.ts)),
                          seen |-> [w \in DriverWindows |->
                                      InDriverFrame(bronze, x.vendor, DayOf(x.ts), w)]]}
        BY <2>2, <2>3, <3>2, OwnDayRow
      <4>2. [w \in DriverWindows |-> InDriverFrame(bronze, x.vendor, DayOf(x.ts), w)]
              = [w \in DriverWindows |-> VendorTrips(x, w)]
        BY RollUpIsExact DEF VendorTrips
      <4> QED
        BY <3>2, <4>1, <4>2
    <3> QED
      BY <3>1, <3>2
  <2> QED
    BY <2>5, <2>6 DEF Exact, x
<1> QED
  BY <1>1, <1>2, <1>3, BucketsLoseNothing, PTL DEF Spec, JoinIsBackwardAsOf, FeaturesAreExact
=============================================================================
