--------------------------- MODULE IngestionProofs ---------------------------
(***************************************************************************)
(* That a range that was fetched is whole, and that bronze is made of      *)
(* whole files, for any number of fetchers and ingestions, any months and  *)
(* any number of failures and kills; and what month_range returns.         *)
(*                                                                         *)
(* The first section is about month_range: numbering the months turns the  *)
(* range into an interval, and what --months keeps into a shorter one.     *)
(* What makes the invariants inductive is below, before IInv.              *)
(***************************************************************************)
EXTENDS Ingestion, FiniteSetTheorems, TLAPS

AllMonths == Int \X (1..12)

\* The number of a month, and the month of a number.
Num(m) == 12 * m[1] + m[2]
MonthAt(n) == <<(n - 1) \div 12, ((n - 1) % 12) + 1>>

LEMMA Numbering ==
    ASSUME NEW a \in AllMonths, NEW b \in AllMonths
    PROVE  /\ Num(a) \in Int
           /\ UpTo(a, b) <=> Num(a) <= Num(b)
           /\ Num(a) = Num(b) => a = b
           /\ Following(a) \in AllMonths
           /\ Num(Following(a)) = Num(a) + 1
<1>1. /\ a = <<a[1], a[2]>> /\ a[1] \in Int /\ a[2] \in 1..12
      /\ b = <<b[1], b[2]>> /\ b[1] \in Int /\ b[2] \in 1..12
  BY DEF AllMonths
<1>2. Num(a) \in Int /\ (UpTo(a, b) <=> Num(a) <= Num(b))
  BY <1>1 DEF Num, UpTo
<1>3. Num(a) = Num(b) => a[1] = b[1] /\ a[2] = b[2]
  BY <1>1 DEF Num
<1>4. Following(a) \in AllMonths
  BY <1>1 DEF Following, AllMonths
<1>5. Num(Following(a)) = Num(a) + 1
  BY <1>1 DEF Following, Num
<1> QED BY <1>1, <1>2, <1>3, <1>4, <1>5

LEMMA MonthOfNumber ==
    ASSUME NEW n \in Int
    PROVE  /\ MonthAt(n) \in AllMonths
           /\ Num(MonthAt(n)) = n
<1>1. (n - 1) \div 12 \in Int /\ (n - 1) % 12 \in 0..11 /\ n - 1 = 12 * ((n - 1) \div 12) + ((n - 1) % 12)
  OBVIOUS
<1> QED BY <1>1 DEF MonthAt, Num, AllMonths

LEMMA NumberOfMonth ==
    ASSUME NEW m \in AllMonths
    PROVE  /\ MonthAt(Num(m)) = m
           /\ Following(m) = MonthAt(Num(m) + 1)
<1>1. Num(m) \in Int /\ Num(m) + 1 \in Int /\ Num(Following(m)) = Num(m) + 1 /\ Following(m) \in AllMonths
  BY Numbering
<1> QED BY <1>1, MonthOfNumber, Numbering

\* Induction over the numbers, with a set in place of a predicate.
LEMMA Counting ==
    ASSUME NEW T, 0 \in T, \A n \in Nat : n \in T => n + 1 \in T
    PROVE  Nat \subseteq T
<1> SUFFICES ASSUME Nat \ T # {} PROVE FALSE
  OBVIOUS
<1> DEFINE R == OpToRel(<, Nat)
<1>1. \E n \in Nat \ T : \A m \in Nat \ T : <<m, n>> \notin R
  <2>1. IsWellFoundedOn(R, Nat)
    BY NatLessThanWellFounded
  <2> HIDE DEF R
  <2> QED BY <2>1, WFMin
<1>2. \A m, n \in Nat : m < n => <<m, n>> \in R
  BY DEF OpToRel
<1> HIDE DEF R
<1>3. PICK n \in Nat \ T : \A m \in Nat \ T : <<m, n>> \notin R
  BY <1>1
<1>4. n # 0 /\ n - 1 \in Nat
  OBVIOUS
<1>5. n - 1 \notin T
  <2>1. (n - 1) + 1 = n
    BY <1>3
  <2> QED BY <1>3, <1>4, <2>1
<1>6. <<n - 1, n>> \in R
  BY <1>2, <1>3, <1>4
<1> QED BY <1>3, <1>4, <1>5, <1>6

\* The recursion of MonthsFrom, of which a function is chosen; the months of the
\* numbers from that of start on are one.
Succeeds(month, start) ==
    month = [i \in Nat |-> IF i = 0 THEN start ELSE Following(month[i - 1])]

LEMMA MonthsFromStart ==
    ASSUME NEW start \in AllMonths
    PROVE  \A i \in Nat : MonthsFrom(start)[i] = MonthAt(Num(start) + i)
<1> DEFINE closed == [i \in Nat |-> MonthAt(Num(start) + i)]
<1>1. Num(start) \in Int
  BY Numbering
<1>2. MonthAt(Num(start) + 0) = start
  BY <1>1, NumberOfMonth
<1>3. ASSUME NEW i \in Nat
      PROVE  Following(MonthAt(Num(start) + i)) = MonthAt(Num(start) + (i + 1))
  <2>1. Num(start) + i \in Int /\ Num(start) + (i + 1) = (Num(start) + i) + 1
    BY <1>1
  <2> QED BY <2>1, MonthOfNumber, NumberOfMonth
<1>4. Succeeds(closed, start)
  <2> DEFINE next == [i \in Nat |-> IF i = 0 THEN start ELSE Following(closed[i - 1])]
  <2>1. ASSUME NEW i \in Nat PROVE closed[i] = next[i]
    <3>1. CASE i = 0
      BY <1>2, <3>1
    <3>2. CASE i # 0
      <4>1. i - 1 \in Nat /\ (i - 1) + 1 = i
        BY <3>2
      <4>2. Following(MonthAt(Num(start) + (i - 1))) = MonthAt(Num(start) + i)
        BY <1>3, <4>1
      <4> QED BY <3>2, <4>1, <4>2
    <3> QED BY <3>1, <3>2
  <2>2. closed = [i \in Nat |-> closed[i]] /\ next = [i \in Nat |-> next[i]]
    OBVIOUS
  <2>3. closed = next
    <3> HIDE DEF closed, next
    <3> QED BY <2>1, <2>2
  <2> HIDE DEF closed
  <2> QED BY <2>3 DEF Succeeds
<1> HIDE DEF closed
<1>5. MonthsFrom(start) = CHOOSE month : Succeeds(month, start)
  BY DEF MonthsFrom, Succeeds
<1>6. Succeeds(MonthsFrom(start), start)
  BY <1>4, <1>5
<1> DEFINE month == MonthsFrom(start)
           T == {i \in Nat : month[i] = MonthAt(Num(start) + i)}
<1>7. month = [i \in Nat |-> IF i = 0 THEN start ELSE Following(month[i - 1])]
  BY <1>6 DEF Succeeds
<1> HIDE DEF month
<1>8. month[0] = start /\ \A i \in Nat : month[i + 1] = Following(month[i])
  <2>1. \A i \in Nat : month[i] = IF i = 0 THEN start ELSE Following(month[i - 1])
    BY <1>7
  <2>2. ASSUME NEW i \in Nat PROVE month[i + 1] = Following(month[i])
    <3>1. i + 1 \in Nat /\ i + 1 # 0 /\ (i + 1) - 1 = i
      OBVIOUS
    <3> QED BY <2>1, <3>1
  <2> QED BY <2>1, <2>2
<1>9. Nat \subseteq T
  <2>1. 0 \in T
    BY <1>2, <1>8
  <2>2. \A i \in Nat : i \in T => i + 1 \in T
    BY <1>3, <1>8
  <2> HIDE DEF T
  <2> QED BY <2>1, <2>2, Counting
<1> QED BY <1>9 DEF month

LEMMA Extremes ==
    ASSUME NEW a \in Int, NEW b \in Int
    PROVE  /\ Max({a, b}) = IF a >= b THEN a ELSE b
           /\ Min({a, b}) = IF a <= b THEN a ELSE b
BY DEF Max, Min

\* The months of an interval of numbers.
Span(a, b) == {MonthAt(k) : k \in a..b}

LEMMA SpanSize ==
    ASSUME NEW a \in Int, NEW b \in Int
    PROVE  /\ IsFiniteSet(Span(a, b))
           /\ Cardinality(Span(a, b)) = IF a > b THEN 0 ELSE b - a + 1
<1> DEFINE named == [k \in a..b |-> MonthAt(k)]
<1>1. named \in Bijection(a..b, Span(a, b))
  <2>1. named \in [a..b -> Span(a, b)]
    BY DEF Span
  <2>2. \A k, l \in a..b : named[k] = named[l] => k = l
    <3>1. \A k \in a..b : Num(named[k]) = k
      BY MonthOfNumber
    <3> HIDE DEF named
    <3> QED BY <3>1
  <2>3. \A m \in Span(a, b) : \E k \in a..b : named[k] = m
    BY DEF Span
  <2>4. DOMAIN named = a..b
    OBVIOUS
  <2> HIDE DEF named
  <2> QED BY <2>1, <2>2, <2>3, <2>4 DEF Bijection, Injection, Surjection, IsInjective
<1>2. ExistsBijection(a..b, Span(a, b))
  BY <1>1 DEF ExistsBijection
<1> QED BY <1>2, FS_Interval, FS_Bijection

LEMMA FetchType ==
    ASSUME NEW o \in Fetches
    PROVE  /\ o.start \in AllMonths /\ o.start \in Months /\ o.end \in AllMonths /\ o.end \in Months
           /\ Num(o.start) \in Int /\ Num(o.end) \in Int
           /\ o.limit \in Int \cup {NoLimit} /\ o.force \in BOOLEAN
<1>1. /\ o.start \in Months /\ o.end \in Months
      /\ o.limit \in Int \cup {NoLimit} /\ o.force \in BOOLEAN
  BY FetchesAssumption
<1>2. o.start \in AllMonths /\ o.end \in AllMonths
  BY <1>1, MonthsAssumption DEF AllMonths
<1> QED BY <1>1, <1>2, Numbering

\* The months from start to end are those of their numbers: Months has no gap.
Asked(o) == {m \in Months : UpTo(o.start, m) /\ UpTo(m, o.end)}

LEMMA AskedIsSpan ==
    ASSUME NEW o \in Fetches
    PROVE  Asked(o) = Span(Num(o.start), Num(o.end))
<1> DEFINE a == Num(o.start)
           b == Num(o.end)
<1>0. a \in Int /\ b \in Int
  BY FetchType
<1>1. ASSUME NEW m \in Asked(o) PROVE m \in Span(a, b)
  <2>1. m \in AllMonths
    BY MonthsAssumption DEF Asked, AllMonths
  <2>2. Num(m) \in a..b
    BY <1>0, <2>1, FetchType, Numbering DEF Asked
  <2>3. m = MonthAt(Num(m))
    BY <2>1, NumberOfMonth
  <2> HIDE DEF a, b
  <2> QED BY <2>2, <2>3 DEF Span
<1>2. ASSUME NEW m \in Span(a, b) PROVE m \in Asked(o)
  <2>1. PICK k \in a..b : m = MonthAt(k)
    BY DEF Span
  <2>2. k \in Int
    BY <1>0
  <2>3. m \in AllMonths /\ Num(m) = k
    BY <2>1, <2>2, MonthOfNumber
  <2>4. UpTo(o.start, m) /\ UpTo(m, o.end)
    BY <1>0, <2>1, <2>3, FetchType, Numbering
  <2>5. m \in (o.start[1]..o.end[1]) \X (1..12)
    <3>1. m[1] \in Int /\ m[2] \in 1..12 /\ m = <<m[1], m[2]>> /\ o.start[1] \in Int /\ o.end[1] \in Int
      BY <2>3, FetchType DEF AllMonths
    <3>2. m[1] \in o.start[1]..o.end[1]
      BY <2>4, <3>1 DEF UpTo
    <3> QED BY <3>1, <3>2
  <2> QED BY <2>4, <2>5, FetchType, MonthsAssumption DEF Asked
<1> QED BY <1>1, <1>2

\* How many months there are from start to end, and how many --months keeps.
Size(o) == IF Num(o.start) > Num(o.end) THEN 0 ELSE Num(o.end) - Num(o.start) + 1
Kept(o) == IF o.limit = NoLimit THEN Size(o) ELSE Min({Size(o), Max({1, o.limit})})

LEMMA Sizes ==
    ASSUME NEW o \in Fetches
    PROVE  /\ Size(o) \in Nat /\ Kept(o) \in 0..Size(o)
           /\ o.limit # NoLimit => /\ Max({1, o.limit}) \in Int
                                   /\ \A n \in 1..Size(o) : n <= Kept(o) <=> n <= Max({1, o.limit})
           /\ o.limit = NoLimit => Kept(o) = Size(o)
<1>1. Size(o) \in Nat
  BY FetchType DEF Size
<1>2. ASSUME o.limit # NoLimit
      PROVE  /\ Max({1, o.limit}) \in Int /\ Max({1, o.limit}) >= 1
             /\ Kept(o) = IF Size(o) <= Max({1, o.limit}) THEN Size(o) ELSE Max({1, o.limit})
  <2>1. o.limit \in Int
    BY <1>2, FetchType
  <2> DEFINE most == Max({1, o.limit})
  <2>2. most \in Int /\ most >= 1
    BY <2>1, Extremes
  <2>3. Kept(o) = Min({Size(o), most})
    BY <1>2 DEF Kept
  <2> HIDE DEF most
  <2>4. Min({Size(o), most}) = IF Size(o) <= most THEN Size(o) ELSE most
    BY <1>1, <2>2, Extremes
  <2> QED BY <2>2, <2>3, <2>4 DEF most
<1>3. o.limit = NoLimit => Kept(o) = Size(o)
  BY DEF Kept
<1> QED BY <1>1, <1>2, <1>3

\* The loop of month_range passes the end of the range before it runs out of months.
LEMMA WithinIsSize ==
    ASSUME NEW o \in Fetches
    PROVE  Cardinality({i \in 0..Cardinality(Months) : UpTo(MonthsFrom(o.start)[i], o.end)}) = Size(o)
<1> DEFINE within == {i \in 0..Cardinality(Months) : UpTo(MonthsFrom(o.start)[i], o.end)}
           a == Num(o.start)
           b == Num(o.end)
<1>0. a \in Int /\ b \in Int /\ Size(o) \in Nat
  BY FetchType, Sizes
<1>1. Cardinality(Months) \in Nat /\ Size(o) <= Cardinality(Months)
  <2>1. Asked(o) \in SUBSET Months
    BY DEF Asked
  <2>2. Cardinality(Asked(o)) = Size(o)
    BY <1>0, AskedIsSpan, SpanSize DEF Size
  <2> QED BY <2>1, <2>2, MonthsAssumption, FS_Subset, FS_CardinalityType
<1>2. ASSUME NEW i \in Nat PROVE UpTo(MonthsFrom(o.start)[i], o.end) <=> a + i <= b
  <2>1. MonthsFrom(o.start)[i] = MonthAt(a + i)
    BY FetchType, MonthsFromStart
  <2>2. MonthAt(a + i) \in AllMonths /\ Num(MonthAt(a + i)) = a + i
    <3>1. a + i \in Int
      BY <1>0
    <3> QED BY <3>1, MonthOfNumber
  <2> QED BY <2>1, <2>2, FetchType, Numbering
<1>3. within = 0..(Size(o) - 1)
  <2>1. \A i \in 0..Cardinality(Months) : i \in Nat
    BY <1>1
  <2>2. \A i : i \in within <=> i \in 0..Cardinality(Months) /\ a + i <= b
    BY <1>2, <2>1
  <2>3. Size(o) = IF a > b THEN 0 ELSE b - a + 1
    BY DEF Size
  <2> HIDE DEF within, a, b
  <2>4. \A i : i \in within <=> i \in 0..(Size(o) - 1)
    BY <1>0, <1>1, <2>2, <2>3
  <2>5. \A i \in within : i \in 0..(Size(o) - 1)
    BY <2>4
  <2> QED BY <2>4, <2>5
<1>4. Cardinality(0..(Size(o) - 1)) = Size(o)
  <2>1. Size(o) - 1 \in Int
    BY <1>0
  <2>2. Cardinality(0..(Size(o) - 1)) = IF 0 > Size(o) - 1 THEN 0 ELSE (Size(o) - 1) - 0 + 1
    BY <2>1, FS_Interval
  <2> QED BY <1>0, <2>2
<1> QED BY <1>3, <1>4

LEMMA MonthRangeIs ==
    ASSUME NEW o \in Fetches
    PROVE  MonthRange(o) = [i \in 1..Kept(o) |-> MonthAt(Num(o.start) + (i - 1))]
<1>1. MonthRange(o) = [i \in 1..Kept(o) |-> MonthsFrom(o.start)[i - 1]]
  BY WithinIsSize DEF MonthRange, Kept
<1>2. \A i \in 1..Kept(o) : MonthsFrom(o.start)[i - 1] = MonthAt(Num(o.start) + (i - 1))
  <2>1. \A i \in 1..Kept(o) : i - 1 \in Nat
    BY Sizes
  <2> QED BY <2>1, FetchType, MonthsFromStart
<1> QED BY <1>1, <1>2

\* What is wanted of a range is what --months keeps of it.
LEMMA WantedIs ==
    ASSUME NEW o \in Fetches
    PROVE  Wanted(o) = Span(Num(o.start), Num(o.start) + Kept(o) - 1)
<1> DEFINE a == Num(o.start)
           b == Num(o.end)
<1>0. a \in Int /\ b \in Int /\ Size(o) \in Nat /\ Kept(o) \in 0..Size(o)
  BY FetchType, Sizes
<1>1. ASSUME NEW k \in a..b
      PROVE  Cardinality({n \in Asked(o) : UpTo(n, MonthAt(k))}) = k - a + 1
  <2>1. {n \in Asked(o) : UpTo(n, MonthAt(k))} = Span(a, k)
    <3>1. \A l \in Int : MonthAt(l) \in AllMonths /\ Num(MonthAt(l)) = l
      BY MonthOfNumber
    <3>2. \A l \in a..b : UpTo(MonthAt(l), MonthAt(k)) <=> l <= k
      BY <1>0, <3>1, Numbering
    <3>3. \A n : n \in Span(a, k) <=> n \in Span(a, b) /\ UpTo(n, MonthAt(k))
      <4> HIDE DEF a, b
      <4>1. \A n : n \in Span(a, k) <=> \E l \in a..b : n = MonthAt(l) /\ l <= k
        BY <1>0 DEF Span
      <4>2. \A n : n \in Span(a, b) <=> \E l \in a..b : n = MonthAt(l)
        BY DEF Span
      <4> QED BY <3>2, <4>1, <4>2
    <3> HIDE DEF a, b
    <3> QED BY <3>3, AskedIsSpan DEF a, b
  <2>2. k \in Int /\ a <= k
    BY <1>0
  <2>3. Cardinality(Span(a, k)) = IF a > k THEN 0 ELSE k - a + 1
    <3> HIDE DEF a
    <3> QED BY <1>0, <2>2, SpanSize
  <2> QED BY <1>0, <2>1, <2>2, <2>3
<1>2. CASE o.limit = NoLimit
  <2>1. Wanted(o) = Asked(o) /\ Kept(o) = Size(o)
    BY <1>2, Sizes DEF Wanted, Asked
  <2>2. Span(a, a + Size(o) - 1) = Span(a, b)
    <3>1. a..(a + Size(o) - 1) = a..b
      <4> HIDE DEF a, b
      <4>1. Size(o) = IF a > b THEN 0 ELSE b - a + 1
        BY DEF Size, a, b
      <4>2. \A k : k \in a..(a + Size(o) - 1) <=> k \in a..b
        BY <1>0, <4>1
      <4> QED BY <4>2
    <3> QED BY <3>1 DEF Span
  <2> QED BY <2>1, <2>2, AskedIsSpan
<1>3. CASE o.limit # NoLimit
  <2> DEFINE most == Max({1, o.limit})
             last == a + Kept(o) - 1
  <2>1. Wanted(o) = {m \in Asked(o) : Cardinality({n \in Asked(o) : UpTo(n, m)}) <= most}
    BY <1>3 DEF Wanted, Asked
  <2>2. \A k \in a..b : k - a + 1 \in 1..Size(o)
    BY <1>0 DEF Size
  <2>3. \A n \in 1..Size(o) : n <= most <=> n <= Kept(o)
    BY <1>3, Sizes
  <2> HIDE DEF most, a, b
  <2>4. \A k \in a..b : Cardinality({n \in Asked(o) : UpTo(n, MonthAt(k))}) <= most <=> k <= last
    BY <1>0, <1>1, <2>2, <2>3
  <2>5. last <= b \/ Kept(o) = 0
    BY <1>0 DEF Size, a, b
  <2>6. \A m : m \in Wanted(o) <=> \E k \in a..b : m = MonthAt(k) /\ k <= last
    <3>1. \A m : m \in Asked(o) <=> \E k \in a..b : m = MonthAt(k)
      BY AskedIsSpan DEF Span, a, b
    <3> QED BY <2>1, <2>4, <3>1
  <2>7. \A k : k \in a..b /\ k <= last <=> k \in a..last
    BY <1>0, <2>5
  <2> HIDE DEF last
  <2>8. \A m : m \in Wanted(o) <=> m \in Span(a, last)
    BY <2>6, <2>7 DEF Span
  <2>9. \A m \in Wanted(o) : m \in Span(a, last)
    BY <2>8
  <2>10. Wanted(o) = Span(a, last)
    BY <2>8, <2>9, <2>1
  <2> QED BY <2>10 DEF a, last
<1> QED BY <1>2, <1>3

\* What fetch_data goes through is what is wanted.
LEMMA MonthRangeIsWanted ==
    ASSUME NEW o \in Fetches
    PROVE  /\ MonthRange(o) \in Seq(Months)
           /\ Wanted(o) \subseteq Months
           /\ \A m : m \in Wanted(o) <=> \E i \in 1..Len(MonthRange(o)) : MonthRange(o)[i] = m
<1> DEFINE a == Num(o.start)
<1>1. a \in Int /\ Kept(o) \in Nat
  <2>1. Size(o) \in Nat /\ Kept(o) \in 0..Size(o)
    BY Sizes
  <2> HIDE DEF a
  <2> QED BY <2>1, FetchType DEF a
<1>2. Wanted(o) \subseteq Months
  BY DEF Wanted
<1>3. \A m : m \in Wanted(o) <=> \E i \in 1..Kept(o) : MonthAt(a + (i - 1)) = m
  <2>1. \A m : m \in Wanted(o) <=> \E k \in a..(a + Kept(o) - 1) : m = MonthAt(k)
    BY WantedIs DEF Span
  <2> HIDE DEF a
  <2>2. \A i \in 1..Kept(o) : a + (i - 1) \in a..(a + Kept(o) - 1)
    BY <1>1
  <2>3. \A k \in a..(a + Kept(o) - 1) : k - a + 1 \in 1..Kept(o) /\ a + ((k - a + 1) - 1) = k
    BY <1>1
  <2> QED BY <2>1, <2>2, <2>3
<1> DEFINE range == [i \in 1..Kept(o) |-> MonthAt(a + (i - 1))]
<1>4. MonthRange(o) = range
  BY MonthRangeIs
<1>5. range \in Seq(Months) /\ Len(range) = Kept(o) /\ \A i \in 1..Kept(o) : range[i] = MonthAt(a + (i - 1))
  <2>1. \A i \in 1..Kept(o) : MonthAt(a + (i - 1)) \in Months
    BY <1>2, <1>3
  <2> HIDE DEF a
  <2> QED BY <1>1, <2>1
<1> HIDE DEF range
<1> QED BY <1>2, <1>3, <1>4, <1>5

\* month_range returns what was asked for, cut short by --months, each month once
\* and in calendar order, for any months of any years and any limit.
THEOREM MonthRangeIsCorrect ==
    \A o \in Fetches :
        /\ MonthRange(o) \in Seq(Months)
        /\ \A m : m \in Wanted(o) <=> \E i \in 1..Len(MonthRange(o)) : MonthRange(o)[i] = m
        /\ \A i, k \in 1..Len(MonthRange(o)) :
              i < k => UpTo(MonthRange(o)[i], MonthRange(o)[k]) /\ MonthRange(o)[i] # MonthRange(o)[k]
<1> SUFFICES ASSUME NEW o \in Fetches
             PROVE  \A i, k \in 1..Len(MonthRange(o)) :
                       i < k => /\ UpTo(MonthRange(o)[i], MonthRange(o)[k])
                                /\ MonthRange(o)[i] # MonthRange(o)[k]
  BY MonthRangeIsWanted
<1>1. Num(o.start) \in Int /\ Kept(o) \in Nat
  <2>1. Size(o) \in Nat /\ Kept(o) \in 0..Size(o)
    BY Sizes
  <2> QED BY <2>1, FetchType
<1>2. MonthRange(o) = [i \in 1..Kept(o) |-> MonthAt(Num(o.start) + (i - 1))]
  BY MonthRangeIs
<1>3. Len(MonthRange(o)) = Kept(o)
  BY <1>1, <1>2
<1>4. ASSUME NEW i \in 1..Kept(o)
      PROVE  /\ MonthRange(o)[i] \in AllMonths
             /\ Num(MonthRange(o)[i]) = Num(o.start) + (i - 1)
  <2>1. Num(o.start) + (i - 1) \in Int /\ MonthRange(o)[i] = MonthAt(Num(o.start) + (i - 1))
    BY <1>1, <1>2
  <2> QED BY <2>1, MonthOfNumber
<1>5. ASSUME NEW i \in 1..Kept(o), NEW k \in 1..Kept(o), i < k
      PROVE  UpTo(MonthRange(o)[i], MonthRange(o)[k]) /\ MonthRange(o)[i] # MonthRange(o)[k]
  <2>1. Num(MonthRange(o)[i]) < Num(MonthRange(o)[k])
    BY <1>1, <1>4, <1>5
  <2> QED BY <1>4, <2>1, Numbering
<1> QED BY <1>3, <1>5

-----------------------------------------------------------------------------
(* The invariants.  Fetchers take turns; while one is at a month, nothing   *)
(* else touches its two files.  A file in place is whole, since only a      *)
(* whole .part file is renamed; so a month that is skipped is whole, and    *)
(* what is wanted is in place or still to come.  A .part file lies beside a *)
(* file in place only if the month is, or was, fetched again by force.      *)

Members(s) == {s[i] : i \in 1..Len(s)}
InFlight == {"open", "stream", "replace"}
Forced(m) == \E f \in Fetchers : fetch[f].force /\ m \in Wanted(fetch[f])

OneAtATime ==
    \A f, g \in Fetchers : fpc[f] \in FetchSteps /\ fpc[g] \in FetchSteps => f = g

FilesAreWhole == \A m \in Months : dest[m] \in {"absent", "whole"}

WholeOrToCome ==
    \A f \in Fetchers : fpc[f] \in FetchSteps =>
        /\ Members(todo[f]) \subseteq Wanted(fetch[f])
        /\ \A m \in Wanted(fetch[f]) : dest[m] = "whole" \/ m \in Members(todo[f])

UnderWay ==
    \A f \in Fetchers : fpc[f] \in InFlight =>
        /\ todo[f] # <<>>
        /\ dest[Head(todo[f])] = "whole" => fetch[f].force
        /\ fpc[f] = "stream" => part[Head(todo[f])] \in {"empty", "half"}
        /\ fpc[f] = "replace" => part[Head(todo[f])] = "whole"

BesideOnlyIfForced ==
    \A m \in Months : dest[m] = "whole" /\ part[m] # "absent" => Forced(m)

FetchInv ==
    /\ OneAtATime /\ FilesAreWhole /\ WholeOrToCome /\ UnderWay /\ BesideOnlyIfForced
    /\ FetchedRangeIsWhole

ListedTwiceIfForced ==
    \A i \in Ingestions : \A m \in Months :
        {<<"dest", m>>, <<"part", m>>} \subseteq listed[i] => Forced(m)

FrameIsOfListed ==
    \A i \in Ingestions : ipc[i] \in {"gates", "write", "writing", "verify", "done"} =>
        frame[i] = [m \in Months |-> IF InRange(i, m) THEN Copies(listed[i], m) ELSE 0]

IInv == TypeOK /\ FetchInv /\ ListedTwiceIfForced /\ FrameIsOfListed

LEMMA HeadAndTail ==
    ASSUME NEW s \in Seq(Months)
    PROVE  /\ s = <<>> <=> Members(s) = {}
           /\ s # <<>> => /\ Head(s) \in Months /\ Tail(s) \in Seq(Months)
                          /\ Members(s) = {Head(s)} \cup Members(Tail(s))
<1>1. CASE s = <<>>
  BY <1>1 DEF Members
<1>2. CASE s # <<>>
  <2>1. /\ Len(s) \in Nat /\ Len(s) >= 1 /\ \A i \in 1..Len(s) : s[i] \in Months
        /\ Head(s) = s[1] /\ Tail(s) \in Seq(Months) /\ Len(Tail(s)) = Len(s) - 1
        /\ \A i \in 1..(Len(s) - 1) : Tail(s)[i] = s[i + 1]
    BY <1>2
  <2>2. \A m : m \in Members(s) <=> m = s[1] \/ \E i \in 1..(Len(s) - 1) : m = s[i + 1]
    <3>1. ASSUME NEW i \in 1..Len(s), i # 1 PROVE i - 1 \in 1..(Len(s) - 1) /\ s[i] = s[(i - 1) + 1]
      <4>1. (i - 1) + 1 = i
        OBVIOUS
      <4> QED BY <2>1, <3>1, <4>1
    <3>2. \A i \in 1..(Len(s) - 1) : i + 1 \in 1..Len(s)
      BY <2>1
    <3>3. 1 \in 1..Len(s)
      BY <2>1
    <3> QED BY <3>1, <3>2, <3>3 DEF Members
  <2>3. \A m : m \in Members(Tail(s)) <=> \E i \in 1..(Len(s) - 1) : m = s[i + 1]
    BY <2>1 DEF Members
  <2>4. Members(s) = {Head(s)} \cup Members(Tail(s))
    BY <2>1, <2>2, <2>3
  <2> QED BY <1>2, <2>1, <2>4
<1> QED BY <1>1, <1>2

LEMMA RangeMembers ==
    ASSUME NEW o \in Fetches
    PROVE  /\ MonthRange(o) \in Seq(Months) /\ Members(MonthRange(o)) = Wanted(o)
           /\ Wanted(o) \subseteq Months /\ o.force \in BOOLEAN
<1>1. \A m : m \in Members(MonthRange(o)) <=> m \in Wanted(o)
  BY MonthRangeIsWanted DEF Members
<1> QED BY <1>1, MonthRangeIsWanted, FetchType

\* How often a month can be in a list of files.
LEMMA CopiesType ==
    ASSUME NEW files \in SUBSET ({"dest", "part"} \X Months), NEW m \in Months
    PROVE  /\ Copies(files, m) \in 0..2
           /\ Copies(files, m) > 0 <=> \E file \in files : file[2] = m
           /\ Copies(files, m) > 1 => {<<"dest", m>>, <<"part", m>>} \subseteq files
<1> DEFINE mine == {file \in files : file[2] = m}
           both == {<<"dest", m>>, <<"part", m>>}
<1>1. mine \in SUBSET both
  OBVIOUS
<1>2. IsFiniteSet(both) /\ Cardinality(both) = 2
  <2>1. <<"dest", m>> # <<"part", m>>
    OBVIOUS
  <2>2. IsFiniteSet({<<"part", m>>}) /\ Cardinality({<<"part", m>>}) = 1
    BY FS_Singleton
  <2>3. both = {<<"part", m>>} \cup {<<"dest", m>>} /\ <<"dest", m>> \notin {<<"part", m>>}
    BY <2>1
  <2> DEFINE one == {<<"part", m>>}
             file == <<"dest", m>>
  <2>4. IsFiniteSet(one \cup {file}) /\ Cardinality(one \cup {file}) = 2
    <3>1. IsFiniteSet(one) /\ Cardinality(one) = 1 /\ file \notin one
      BY <2>2, <2>3
    <3> HIDE DEF one, file
    <3> QED BY <3>1, FS_AddElement
  <2> QED BY <2>3, <2>4
<1>3. Copies(files, m) = Cardinality(mine)
  BY DEF Copies
<1>4. mine \subseteq files /\ (mine # {} <=> \E file \in files : file[2] = m)
  OBVIOUS
<1> HIDE DEF mine
<1>5. IsFiniteSet(mine) /\ Cardinality(mine) \in Nat /\ Cardinality(mine) <= 2 /\ (Cardinality(mine) = 0 <=> mine = {})
  <2> HIDE DEF both
  <2> QED BY <1>1, <1>2, FS_Subset, FS_CardinalityType, FS_EmptySet
<1>6. Cardinality(mine) > 1 => mine = both
  <2> SUFFICES ASSUME Cardinality(mine) > 1 PROVE mine = both
    OBVIOUS
  <2>1. Cardinality(mine) = Cardinality(both)
    BY <1>2, <1>5
  <2> HIDE DEF both
  <2> QED BY <1>1, <1>2, <2>1, FS_Subset
<1> QED BY <1>3, <1>4, <1>5, <1>6

-----------------------------------------------------------------------------
(* Types *)

Disk == [table : Versions, trash : Versions, spoilt : SUBSET Ingestions]

Writing(i) == Write(i) \/ WriteMoves(i) \/ WriteEnds(i)

\* What a write makes of the disk is well typed, whichever of its steps it is.
LEMMA DiskType ==
    ASSUME TypeOK, NEW i \in Ingestions
    PROVE  /\ disk \in Disk /\ Table!Begun(i) \in Disk /\ Table!HalfDeleted(i) \in Disk
           /\ Table!Returned(i) \in Disk /\ Table!Moved(i) \subseteq Disk
<1>1. disk \in Disk
  BY DEF TypeOK, Disk
<1>2. ASSUME NEW S \in SUBSET Ingestions PROVE Table!Spoilt(S) \in Disk
  BY <1>1 DEF Table!Spoilt, Disk, Versions
<1>3. Table!Begun(i) \in Disk
  <2> DEFINE S == {j \in Ingestions : ipc[j] = "writing"} \cup {i}
  <2>1. Table!Begun(i) = disk \/ Table!Begun(i) = Table!Spoilt(S)
    BY DEF Table!Begun
  <2>2. S \in SUBSET Ingestions
    OBVIOUS
  <2> QED BY <1>1, <1>2, <2>1, <2>2
<1>4. Table!HalfDeleted(i) \in Disk
  BY <1>2 DEF Table!HalfDeleted
<1>5. ASSUME NEW v \in {i, disk.table, disk.trash, NoTable},
             NEW w \in {i, disk.table, disk.trash, NoTable}
      PROVE  [table |-> v, trash |-> w, spoilt |-> disk.spoilt] \in Disk
  BY <1>1 DEF Disk, Versions
<1>6. Table!Returned(i) \in Disk
  BY <1>1, <1>5 DEF Table!Returned
<1>7. ASSUME NEW d \in Table!Moved(i) PROVE d \in Disk
  BY <1>1, <1>5 DEF Table!Moved
<1> QED BY <1>1, <1>3, <1>4, <1>6, <1>7

LEMMA TypeKept ==
    ASSUME TypeOK, UnderWay, [Next]_vars
    PROVE  TypeOK'
<1>1. ASSUME NEW f \in Fetchers, StartFetch(f) PROVE TypeOK'
  <2>1. MonthRange(fetch[f]) \in Seq(Months)
    BY RangeMembers DEF TypeOK
  <2> QED BY <1>1, <2>1 DEF TypeOK, StartFetch, GotoF, FetchSteps, Ended, jobVars
<1>2. ASSUME NEW f \in Fetchers, NextMonth(f) PROVE TypeOK'
  <2>1. todo[f] # <<>> => Tail(todo[f]) \in Seq(Months)
    BY HeadAndTail DEF TypeOK
  <2> QED BY <1>2, <2>1 DEF TypeOK, NextMonth, GotoF, FetchSteps, Ended, jobVars
<1>3. ASSUME NEW f \in Fetchers, Open(f) PROVE TypeOK'
  BY <1>3 DEF TypeOK, Open, GotoF, FetchSteps, Contents, jobVars
<1>4. ASSUME NEW f \in Fetchers, Stream(f) PROVE TypeOK'
  BY <1>4 DEF TypeOK, Stream, GotoF, FetchSteps, Contents, jobVars
<1>5. ASSUME NEW f \in Fetchers, Replace(f) PROVE TypeOK'
  <2>1. todo[f] # <<>>
    BY <1>5 DEF Replace, UnderWay, InFlight
  <2>2. Tail(todo[f]) \in Seq(Months) /\ Head(todo[f]) \in Months
    BY <2>1, HeadAndTail DEF TypeOK
  <2> QED BY <1>5, <2>2 DEF TypeOK, Replace, GotoF, FetchSteps, Contents, jobVars
<1>6. ASSUME NEW f \in Fetchers, StopFetch(f) PROVE TypeOK'
  BY <1>6, BoundsAssumption DEF TypeOK, StopFetch, GotoF, Fault, Ended, jobVars
<1>7. ASSUME NEW i \in Ingestions, StartIngest(i) \/ Gates(i) \/ Verify(i) PROVE TypeOK'
  BY <1>7 DEF TypeOK, Versions, StartIngest, Gates, Verify, GotoI, IngestSteps, Ended, rawVars
<1>8. ASSUME NEW i \in Ingestions, Read(i) PROVE TypeOK'
  <2>1. {file \in Raw : At(file) = "whole"} \in SUBSET ({"dest", "part"} \X Months)
    BY DEF Raw
  <2>2. listed' \in [Ingestions -> SUBSET ({"dest", "part"} \X Months)]
    BY <1>8, <2>1 DEF Read, TypeOK
  <2>3. ipc' \in [Ingestions -> {"idle"} \cup IngestSteps \cup Ended]
    BY <1>8 DEF Read, GotoI, IngestSteps, Ended, TypeOK
  <2> QED BY <1>8, <2>2, <2>3 DEF TypeOK, Read, rawVars
<1>9. ASSUME NEW i \in Ingestions, Transform(i) PROVE TypeOK'
  <2>1. [m \in Months |-> IF InRange(i, m) THEN Copies(listed[i], m) ELSE 0] \in [Months -> 0..2]
    <3>1. \A m \in Months : Copies(listed[i], m) \in 0..2
      BY CopiesType DEF TypeOK
    <3>2. 0 \in 0..2
      OBVIOUS
    <3> QED BY <3>1, <3>2
  <2>2. frame' \in [Ingestions -> [Months -> 0..2]]
    BY <1>9, <2>1 DEF Transform, TypeOK
  <2>3. ipc' \in [Ingestions -> {"idle"} \cup IngestSteps \cup Ended]
    BY <1>9 DEF Transform, GotoI, IngestSteps, Ended, TypeOK
  <2> QED BY <1>9, <2>2, <2>3 DEF TypeOK, Transform, rawVars
<1>10. ASSUME NEW i \in Ingestions, Writing(i) PROVE TypeOK'
  <2>1. disk' \in Disk
    BY <1>10, DiskType DEF Writing, Write, WriteMoves, WriteEnds
  <2>2. faults' \in 0..MaxFaults
    BY <1>10, BoundsAssumption DEF Writing, Write, WriteMoves, WriteEnds, Fault, TypeOK
  <2>3. ipc' = ipc \/ GotoI(i, "writing") \/ GotoI(i, "verify") \/ GotoI(i, "failed")
    BY <1>10 DEF Writing, Write, WriteMoves, WriteEnds, jobVars
  <2>4. ipc' \in [Ingestions -> {"idle"} \cup IngestSteps \cup Ended]
    BY <2>3 DEF GotoI, TypeOK, IngestSteps, Ended
  <2>5. UNCHANGED <<rawVars, ingest, listed, frame>>
    BY <1>10 DEF Writing, Write, WriteMoves, WriteEnds, jobVars
  <2> QED BY <2>1, <2>2, <2>4, <2>5 DEF TypeOK, Disk, Versions, rawVars
<1>11. ASSUME NEW i \in Ingestions, StopIngest(i) PROVE TypeOK'
  BY <1>11, BoundsAssumption DEF TypeOK, StopIngest, GotoI, Fault, Ended, rawVars
<1>12. ASSUME UNCHANGED vars PROVE TypeOK'
  BY <1>12 DEF TypeOK, vars, rawVars, jobVars
<1> QED BY <1>1, <1>2, <1>3, <1>4, <1>5, <1>6, <1>7, <1>8, <1>9, <1>10, <1>11, <1>12
        DEF Next, FetchStep, IngestStep, Writing, Settled

-----------------------------------------------------------------------------
(* What the fetchers keep *)

LEMMA StartFetchKeeps ==
    ASSUME TypeOK, FetchInv, NEW f \in Fetchers, StartFetch(f)
    PROVE  FetchInv'
<1>1. /\ \A g \in Fetchers : fpc[g] \notin FetchSteps
      /\ todo' = [todo EXCEPT ![f] = MonthRange(fetch[f])]
      /\ fpc'[f] \in {"failed", "next"} /\ \A g \in Fetchers \ {f} : fpc'[g] = fpc[g]
      /\ UNCHANGED <<dest, part, fetch>>
  BY DEF StartFetch, TypeOK, GotoF
<1>2. todo'[f] = MonthRange(fetch[f]) /\ Members(MonthRange(fetch[f])) = Wanted(fetch[f])
  BY <1>1, RangeMembers DEF TypeOK
<1>3. OneAtATime'
  BY <1>1 DEF OneAtATime
<1>4. WholeOrToCome'
  BY <1>1, <1>2 DEF WholeOrToCome, FetchSteps
<1>5. UnderWay'
  BY <1>1 DEF UnderWay, InFlight, FetchSteps
<1>6. FilesAreWhole' /\ BesideOnlyIfForced' /\ FetchedRangeIsWhole'
  BY <1>1 DEF FetchInv, FilesAreWhole, BesideOnlyIfForced, Forced, FetchedRangeIsWhole
<1> QED BY <1>3, <1>4, <1>5, <1>6 DEF FetchInv

\* A month is skipped only if it is in place, and then it is whole.
LEMMA NextMonthKeeps ==
    ASSUME TypeOK, FetchInv, NEW f \in Fetchers, NextMonth(f)
    PROVE  FetchInv'
<1>1. /\ fpc[f] = "next"
      /\ \A g \in Fetchers \ {f} : fpc'[g] = fpc[g] /\ todo'[g] = todo[g]
      /\ UNCHANGED <<dest, part, fetch>>
  BY DEF NextMonth, TypeOK, GotoF
<1>2. \/ todo[f] = <<>> /\ fpc'[f] = "done" /\ todo'[f] = todo[f]
      \/ /\ todo[f] # <<>> /\ Skip(f, Head(todo[f]))
         /\ todo'[f] = Tail(todo[f]) /\ fpc'[f] = "next"
      \/ /\ todo[f] # <<>> /\ ~Skip(f, Head(todo[f]))
         /\ todo'[f] = todo[f] /\ fpc'[f] = "open"
  BY DEF NextMonth, TypeOK, GotoF
<1>3. /\ todo[f] = <<>> => Members(todo[f]) = {}
      /\ todo[f] # <<>> => /\ Head(todo[f]) \in Months
                           /\ Members(todo[f]) = {Head(todo[f])} \cup Members(Tail(todo[f]))
  BY HeadAndTail DEF TypeOK
<1>4. /\ Members(todo[f]) \subseteq Wanted(fetch[f])
      /\ \A m \in Wanted(fetch[f]) : dest[m] = "whole" \/ m \in Members(todo[f])
  BY <1>1 DEF FetchInv, WholeOrToCome, FetchSteps
<1>5. \A g \in Fetchers \ {f} : fpc[g] \notin FetchSteps
  BY <1>1 DEF FetchInv, OneAtATime, FetchSteps
<1>6. OneAtATime'
  BY <1>1, <1>5 DEF OneAtATime
<1>7. todo[f] # <<>> /\ Skip(f, Head(todo[f])) => dest[Head(todo[f])] = "whole"
  BY <1>3 DEF Skip, Present, FetchInv, FilesAreWhole
<1>8. WholeOrToCome'
  <2> SUFFICES ASSUME fpc'[f] \in FetchSteps
               PROVE  /\ Members(todo'[f]) \subseteq Wanted(fetch[f])
                      /\ \A m \in Wanted(fetch[f]) : dest[m] = "whole" \/ m \in Members(todo'[f])
    BY <1>1, <1>5 DEF WholeOrToCome
  <2>1. CASE todo'[f] = todo[f]
    BY <1>4, <2>1
  <2>2. CASE todo[f] # <<>> /\ Skip(f, Head(todo[f])) /\ todo'[f] = Tail(todo[f])
    BY <1>3, <1>4, <1>7, <2>2
  <2> QED BY <1>2, <2>1, <2>2
<1>9. UnderWay'
  <2>1. CASE fpc'[f] = "open"
    <3>1. todo[f] # <<>> /\ ~Skip(f, Head(todo[f])) /\ todo'[f] = todo[f]
      BY <1>2, <2>1
    <3>2. dest[Head(todo[f])] = "whole" => fetch[f].force
      BY <3>1 DEF Skip, Present
    <3> QED BY <1>1, <1>5, <2>1, <3>1, <3>2 DEF UnderWay, InFlight, FetchSteps
  <2>2. CASE fpc'[f] # "open"
    <3>1. fpc'[f] \notin InFlight
      BY <1>2, <2>2 DEF InFlight
    <3> QED BY <1>1, <1>5, <3>1 DEF UnderWay, InFlight, FetchSteps
  <2> QED BY <2>1, <2>2
<1>10. FetchedRangeIsWhole'
  <2>1. ASSUME fpc'[f] = "done" PROVE \A m \in Wanted(fetch[f]) : dest[m] = "whole"
    BY <1>2, <1>3, <1>4, <2>1
  <2> QED BY <1>1, <2>1 DEF FetchInv, FetchedRangeIsWhole
<1>11. FilesAreWhole' /\ BesideOnlyIfForced'
  BY <1>1 DEF FetchInv, FilesAreWhole, BesideOnlyIfForced, Forced
<1> QED BY <1>6, <1>8, <1>9, <1>10, <1>11 DEF FetchInv

\* The .part file is begun anew beside a file in place only by force.
LEMMA OpenKeeps ==
    ASSUME TypeOK, FetchInv, NEW f \in Fetchers, Open(f)
    PROVE  FetchInv'
<1> DEFINE h == Head(todo[f])
<1>1. /\ fpc[f] = "open" /\ fpc'[f] = "stream"
      /\ \A g \in Fetchers \ {f} : fpc'[g] = fpc[g]
      /\ UNCHANGED <<dest, fetch, todo>>
      /\ todo[f] # <<>> /\ (dest[h] = "whole" => fetch[f].force)
  BY DEF Open, TypeOK, GotoF, FetchInv, UnderWay, InFlight
<1>2. /\ h \in Months /\ h \in Wanted(fetch[f])
      /\ part'[h] = "empty" /\ \A m \in Months \ {h} : part'[m] = part[m]
  <2>1. h \in Months /\ h \in Members(todo[f])
    BY <1>1, HeadAndTail DEF TypeOK
  <2>2. Members(todo[f]) \subseteq Wanted(fetch[f])
    BY <1>1 DEF FetchInv, WholeOrToCome, FetchSteps
  <2> HIDE DEF h
  <2> QED BY <2>1, <2>2 DEF Open, TypeOK, h
<1>3. \A g \in Fetchers \ {f} : fpc[g] \notin FetchSteps
  BY <1>1 DEF FetchInv, OneAtATime, FetchSteps
<1> HIDE DEF h
<1>4. OneAtATime' /\ WholeOrToCome'
  BY <1>1, <1>3 DEF FetchInv, OneAtATime, WholeOrToCome, FetchSteps
<1>5. UnderWay'
  BY <1>1, <1>2, <1>3 DEF UnderWay, InFlight, FetchSteps, h
<1>6. BesideOnlyIfForced'
  <2> SUFFICES ASSUME NEW m \in Months, dest[m] = "whole", part'[m] # "absent" PROVE Forced(m)
    BY <1>1 DEF BesideOnlyIfForced, Forced
  <2>1. CASE m = h
    BY <1>1, <1>2, <2>1 DEF Forced
  <2>2. CASE m # h
    BY <1>2, <2>2 DEF FetchInv, BesideOnlyIfForced
  <2> QED BY <2>1, <2>2
<1>7. FilesAreWhole' /\ FetchedRangeIsWhole'
  BY <1>1 DEF FetchInv, FilesAreWhole, FetchedRangeIsWhole
<1> QED BY <1>4, <1>5, <1>6, <1>7 DEF FetchInv

LEMMA StreamKeeps ==
    ASSUME TypeOK, FetchInv, NEW f \in Fetchers, Stream(f)
    PROVE  FetchInv'
<1> DEFINE h == Head(todo[f])
<1>1. /\ fpc[f] = "stream" /\ \A g \in Fetchers \ {f} : fpc'[g] = fpc[g]
      /\ UNCHANGED <<dest, fetch, todo>>
      /\ todo[f] # <<>> /\ (dest[h] = "whole" => fetch[f].force)
  BY DEF Stream, TypeOK, GotoF, FetchInv, UnderWay, InFlight
<1>2. h \in Months
  BY <1>1, HeadAndTail DEF TypeOK
<1>3. /\ \A m \in Months \ {h} : part'[m] = part[m]
      /\ part[h] # "absent"
      /\ \/ part'[h] = "half" /\ fpc'[f] = "stream"
         \/ part'[h] = "whole" /\ fpc'[f] = "replace"
  BY <1>1, <1>2 DEF Stream, TypeOK, GotoF
<1>4. \A g \in Fetchers \ {f} : fpc[g] \notin FetchSteps
  BY <1>1 DEF FetchInv, OneAtATime, FetchSteps
<1> HIDE DEF h
<1>5. OneAtATime' /\ WholeOrToCome'
  BY <1>1, <1>4 DEF FetchInv, OneAtATime, WholeOrToCome, FetchSteps
<1>6. UnderWay'
  BY <1>1, <1>3, <1>4 DEF UnderWay, InFlight, FetchSteps, h
<1>7. BesideOnlyIfForced'
  BY <1>1, <1>3 DEF FetchInv, BesideOnlyIfForced, Forced
<1>8. FilesAreWhole' /\ FetchedRangeIsWhole'
  BY <1>1, <1>3 DEF FetchInv, FilesAreWhole, FetchedRangeIsWhole
<1> QED BY <1>5, <1>6, <1>7, <1>8 DEF FetchInv

\* What is renamed is whole, and nothing is left beside it.
LEMMA ReplaceKeeps ==
    ASSUME TypeOK, FetchInv, NEW f \in Fetchers, Replace(f)
    PROVE  FetchInv'
<1> DEFINE h == Head(todo[f])
<1>1. /\ fpc[f] = "replace" /\ fpc'[f] = "next"
      /\ \A g \in Fetchers \ {f} : fpc'[g] = fpc[g] /\ todo'[g] = todo[g]
      /\ UNCHANGED fetch
      /\ todo[f] # <<>> /\ todo'[f] = Tail(todo[f]) /\ part[h] = "whole"
  BY DEF Replace, TypeOK, GotoF, FetchInv, UnderWay, InFlight
<1>2. h \in Months /\ Members(todo[f]) = {h} \cup Members(Tail(todo[f]))
  BY <1>1, HeadAndTail DEF TypeOK
<1>3. /\ dest'[h] = "whole" /\ part'[h] = "absent"
      /\ \A m \in Months \ {h} : dest'[m] = dest[m] /\ part'[m] = part[m]
  BY <1>1, <1>2 DEF Replace, TypeOK
<1>4. \A g \in Fetchers \ {f} : fpc[g] \notin FetchSteps
  BY <1>1 DEF FetchInv, OneAtATime, FetchSteps
<1>5. Wanted(fetch[f]) \subseteq Months
  BY RangeMembers DEF TypeOK
<1> HIDE DEF h
<1>6. OneAtATime'
  BY <1>1, <1>4 DEF OneAtATime
<1>7. WholeOrToCome'
  <2>1. /\ Members(todo[f]) \subseteq Wanted(fetch[f])
        /\ \A m \in Wanted(fetch[f]) : dest[m] = "whole" \/ m \in Members(todo[f])
    BY <1>1 DEF FetchInv, WholeOrToCome, FetchSteps
  <2>2. /\ Members(todo'[f]) \subseteq Wanted(fetch[f])
        /\ \A m \in Wanted(fetch[f]) : dest'[m] = "whole" \/ m \in Members(todo'[f])
    BY <1>1, <1>2, <1>3, <1>5, <2>1
  <2> QED BY <1>1, <1>4, <2>2 DEF WholeOrToCome
<1>8. UnderWay'
  BY <1>1, <1>4 DEF UnderWay, InFlight, FetchSteps
<1>9. BesideOnlyIfForced'
  BY <1>1, <1>3 DEF FetchInv, BesideOnlyIfForced, Forced
<1>10. FilesAreWhole'
  BY <1>3 DEF FetchInv, FilesAreWhole
<1>11. FetchedRangeIsWhole'
  <2> SUFFICES ASSUME NEW g \in Fetchers, fpc'[g] = "done", NEW m \in Wanted(fetch[g])
               PROVE  dest'[m] = "whole"
    BY <1>1 DEF FetchedRangeIsWhole
  <2>1. g # f /\ dest[m] = "whole"
    BY <1>1 DEF FetchInv, FetchedRangeIsWhole
  <2>2. m \in Months
    BY RangeMembers DEF TypeOK
  <2> QED BY <1>3, <2>1, <2>2
<1> QED BY <1>6, <1>7, <1>8, <1>9, <1>10, <1>11 DEF FetchInv

LEMMA StopFetchKeeps ==
    ASSUME TypeOK, FetchInv, NEW f \in Fetchers, StopFetch(f)
    PROVE  FetchInv'
<1>1. /\ fpc'[f] = "failed" /\ \A g \in Fetchers \ {f} : fpc'[g] = fpc[g]
      /\ UNCHANGED <<dest, part, fetch, todo>>
  BY DEF StopFetch, TypeOK, GotoF
<1>2. OneAtATime' /\ WholeOrToCome' /\ UnderWay'
  BY <1>1 DEF FetchInv, OneAtATime, WholeOrToCome, UnderWay, FetchSteps, InFlight
<1>3. FilesAreWhole' /\ BesideOnlyIfForced' /\ FetchedRangeIsWhole'
  BY <1>1 DEF FetchInv, FilesAreWhole, BesideOnlyIfForced, Forced, FetchedRangeIsWhole
<1> QED BY <1>2, <1>3 DEF FetchInv

LEMMA OthersKeep ==
    ASSUME FetchInv, UNCHANGED rawVars
    PROVE  FetchInv'
BY DEF rawVars, FetchInv, OneAtATime, FilesAreWhole, WholeOrToCome, UnderWay,
       BesideOnlyIfForced, Forced, FetchedRangeIsWhole

LEMMA FetchKept ==
    ASSUME TypeOK, FetchInv, [Next]_vars
    PROVE  FetchInv'
<1>1. ASSUME NEW f \in Fetchers, StartFetch(f) \/ FetchStep(f) \/ StopFetch(f) PROVE FetchInv'
  BY <1>1, StartFetchKeeps, NextMonthKeeps, OpenKeeps, StreamKeeps, ReplaceKeeps, StopFetchKeeps
     DEF FetchStep
<1>2. ASSUME NEW i \in Ingestions, StartIngest(i) \/ IngestStep(i) \/ StopIngest(i) PROVE FetchInv'
  <2>1. UNCHANGED rawVars
    BY <1>2 DEF IngestStep, StartIngest, Read, Transform, Gates, Write, WriteMoves, WriteEnds, Verify, StopIngest
  <2> QED BY <2>1, OthersKeep
<1>3. ASSUME UNCHANGED vars PROVE FetchInv'
  BY <1>3, OthersKeep DEF vars
<1> QED BY <1>1, <1>2, <1>3 DEF Next, Settled

-----------------------------------------------------------------------------
(* What the ingestions keep *)

FrameOf(i) == [m \in Months |-> IF InRange(i, m) THEN Copies(listed[i], m) ELSE 0]

\* Files are listed twice only while one lies beside the other.
LEMMA ListedKept ==
    ASSUME TypeOK, FetchInv, ListedTwiceIfForced, [Next]_vars
    PROVE  ListedTwiceIfForced'
<1>1. UNCHANGED fetch
  BY DEF Next, FetchStep, IngestStep, Settled, StartFetch, NextMonth, Open, Stream, Replace,
         StopFetch, StartIngest, Read, Transform, Gates, Write, WriteMoves, WriteEnds, Verify, StopIngest, rawVars, vars
<1>2. ASSUME NEW i \in Ingestions, Read(i), listed' # listed PROVE ListedTwiceIfForced'
  <2>1. /\ listed'[i] = {file \in Raw : At(file) = "whole"}
        /\ \A j \in Ingestions \ {i} : listed'[j] = listed[j]
    BY <1>2 DEF Read, TypeOK
  <2>2. ASSUME NEW m \in Months, {<<"dest", m>>, <<"part", m>>} \subseteq listed'[i] PROVE Forced(m)
    <3>1. dest[m] = "whole" /\ part[m] = "whole"
      BY <2>1, <2>2 DEF At
    <3> QED BY <3>1 DEF FetchInv, BesideOnlyIfForced
  <2> QED BY <1>1, <2>1, <2>2 DEF ListedTwiceIfForced, Forced
<1>3. ASSUME UNCHANGED listed PROVE ListedTwiceIfForced'
  BY <1>1, <1>3 DEF ListedTwiceIfForced, Forced
<1>4. UNCHANGED listed \/ \E i \in Ingestions : Read(i)
  BY DEF Next, FetchStep, IngestStep, Settled, StartFetch, NextMonth, Open, Stream, Replace,
         StopFetch, StartIngest, Transform, Gates, Write, WriteMoves, WriteEnds, Verify, StopIngest, jobVars, vars
<1> QED BY <1>2, <1>3, <1>4

LEMMA FrameKept ==
    ASSUME TypeOK, FrameIsOfListed, [Next]_vars
    PROVE  FrameIsOfListed'
<1> DEFINE Filled == {"gates", "write", "writing", "verify", "done"}
<1>1. UNCHANGED ingest
  BY DEF Next, FetchStep, IngestStep, Settled, StartFetch, NextMonth, Open, Stream, Replace,
         StopFetch, StartIngest, Read, Transform, Gates, Write, WriteMoves, WriteEnds, Verify, StopIngest, jobVars, vars
<1>2. ASSUME NEW i \in Ingestions, StartIngest(i) \/ Read(i) \/ StopIngest(i) PROVE FrameIsOfListed'
  <2>1. /\ ipc'[i] \notin Filled /\ UNCHANGED frame
        /\ \A j \in Ingestions \ {i} : ipc'[j] = ipc[j] /\ listed'[j] = listed[j]
    BY <1>2 DEF StartIngest, Read, StopIngest, GotoI, TypeOK
  <2> QED BY <1>1, <2>1 DEF FrameIsOfListed, InRange
<1>3. ASSUME NEW i \in Ingestions, Transform(i) PROVE FrameIsOfListed'
  <2>1. /\ ipc'[i] \in Filled => frame'[i] = FrameOf(i)
        /\ \A j \in Ingestions \ {i} : ipc'[j] = ipc[j] /\ frame'[j] = frame[j]
        /\ UNCHANGED listed
    BY <1>3 DEF Transform, GotoI, TypeOK, FrameOf
  <2> QED BY <1>1, <2>1 DEF FrameIsOfListed, FrameOf, InRange
<1>4. ASSUME NEW i \in Ingestions, Gates(i) \/ Writing(i) \/ Verify(i) PROVE FrameIsOfListed'
  <2>1. /\ ipc[i] \in Filled /\ UNCHANGED <<listed, frame>>
        /\ \/ ipc' = ipc \/ GotoI(i, "write") \/ GotoI(i, "writing")
           \/ GotoI(i, "verify") \/ GotoI(i, "done") \/ GotoI(i, "failed")
    BY <1>4 DEF Gates, Writing, Write, WriteMoves, WriteEnds, Verify, jobVars
  <2>2. \A j \in Ingestions \ {i} : ipc'[j] = ipc[j]
    BY <2>1 DEF GotoI, TypeOK
  <2> QED BY <1>1, <2>1, <2>2 DEF FrameIsOfListed, InRange
<1>5. ASSUME UNCHANGED jobVars PROVE FrameIsOfListed'
  BY <1>5 DEF FrameIsOfListed, InRange, jobVars
<1>6. UNCHANGED jobVars \/ \E i \in Ingestions : StartIngest(i) \/ IngestStep(i) \/ StopIngest(i)
  BY DEF Next, FetchStep, Settled, StartFetch, NextMonth, Open, Stream, Replace, StopFetch, vars
<1> QED BY <1>2, <1>3, <1>4, <1>5, <1>6 DEF IngestStep, Writing

-----------------------------------------------------------------------------
LEMMA Initially == ASSUME Init PROVE IInv
<1>1. TypeOK
  <2>1. 0 \in 0..2 /\ 0 \in 0..MaxFaults
    BY BoundsAssumption
  <2> QED BY <2>1 DEF Init, TypeOK, Contents, Versions
<1>2. FetchInv
  BY DEF Init, FetchInv, OneAtATime, FilesAreWhole, WholeOrToCome, UnderWay,
         BesideOnlyIfForced, FetchedRangeIsWhole, FetchSteps, InFlight
<1>3. ListedTwiceIfForced /\ FrameIsOfListed
  BY DEF Init, ListedTwiceIfForced, FrameIsOfListed
<1> QED BY <1>1, <1>2, <1>3 DEF IInv

\* The inductive invariant holds in every reachable state.
THEOREM Invariance == Spec => []IInv
<1>1. Init => IInv
  BY Initially
<1>2. IInv /\ [Next]_vars => IInv'
  BY TypeKept, FetchKept, ListedKept, FrameKept DEF IInv, FetchInv
<1> QED BY <1>1, <1>2, PTL DEF Spec

\* Every variable keeps its type.
THEOREM TypeCorrect == Spec => []TypeOK
BY Invariance, PTL DEF IInv

\* A range that was fetched is whole, whatever earlier fetchers were stopped in.
THEOREM FetchedIsWhole == Spec => []FetchedRangeIsWhole
<1>1. IInv => FetchedRangeIsWhole
  BY DEF IInv, FetchInv
<1> QED BY <1>1, Invariance, PTL

\* What an ingestion writes has every month that was asked for and listed, and
\* has one twice only if it was wanted by force.
THEOREM BronzeIsWhole == Spec => []BronzeIsOfWholeFiles
<1>1. IInv => BronzeIsOfWholeFiles
  <2> SUFFICES ASSUME IInv, NEW i \in Ingestions, ipc[i] \in {"write", "writing", "verify", "done"}
               PROVE  /\ \A file \in listed[i] : InRange(i, file[2]) => frame[i][file[2]] > 0
                      /\ \A m \in Months : frame[i][m] > 1 => Forced(m)
    BY DEF BronzeIsOfWholeFiles, Forced
  <2>1. \A m \in Months : frame[i][m] = IF InRange(i, m) THEN Copies(listed[i], m) ELSE 0
    BY DEF IInv, FrameIsOfListed
  <2>2. listed[i] \in SUBSET ({"dest", "part"} \X Months)
    BY DEF IInv, TypeOK
  <2>3. ASSUME NEW file \in listed[i], InRange(i, file[2]) PROVE frame[i][file[2]] > 0
    <3>1. file[2] \in Months
      BY <2>2
    <3>2. Copies(listed[i], file[2]) > 0
      BY <2>2, <3>1, CopiesType
    <3> QED BY <2>1, <2>3, <3>1, <3>2
  <2>4. ASSUME NEW m \in Months, frame[i][m] > 1 PROVE Forced(m)
    <3>1. Copies(listed[i], m) > 1
      BY <2>1, <2>4
    <3>2. {<<"dest", m>>, <<"part", m>>} \subseteq listed[i]
      BY <2>2, <3>1, CopiesType
    <3> QED BY <3>2 DEF IInv, ListedTwiceIfForced
  <2> QED BY <2>3, <2>4
<1> QED BY <1>1, Invariance, PTL
=============================================================================
