--------------------------- MODULE SkewBenchProofs ---------------------------
(***************************************************************************)
(* That no stage is counted for two modes, for any number of stages and    *)
(* any delay of the REST API.  What makes it inductive: the stages counted *)
(* so far are among those listed, and a watermark that was answered is at  *)
(* or above all of them until its own row is measured.                     *)
(*                                                                         *)
(* That salting an aggregation does not change it, for any rows, nulls and *)
(* buckets and any draw of the salts.  It rests on lemmas about sums over  *)
(* finite sets, the last of which (SumOfSums) adds up by label.            *)
(***************************************************************************)
EXTENDS SkewBench, FiniteSetTheorems, TLAPS

CountedAreListed ==
    /\ complete <= listed
    /\ watermark < listed \/ watermark = -1
    /\ \A i \in 1..Len(results) : results[i].stages \subseteq 0..(listed - 1)

WatermarkIsAbove ==
    pc \in {"count", "metrics"} /\ watermark # -1 =>
        \A i \in 1..Len(results) : \A id \in results[i].stages : id <= watermark

MoreToMeasure ==
    pc \in {"start", "watermark", "count", "metrics"} => Len(results) < Len(Modes(bench))

IInv == TypeOK /\ MoreToMeasure /\ CountedAreListed /\ WatermarkIsAbove /\ StagesCountedOnce

LEMMA ModeType ==
    ASSUME bench \in Benches, Len(results) \in Nat, Len(results) < Len(Modes(bench))
    PROVE  Mode \in ModeNames
<1>1. CASE bench = "skew"
  <2>1. Len(results) + 1 \in 1..4
    BY <1>1 DEF Modes
  <2> QED BY <1>1, <2>1 DEF Mode, Modes, ModeNames
<1>2. CASE bench = "sweep"
  <2>1. Len(results) + 1 = 1
    BY <1>2 DEF Modes
  <2> QED BY <1>2, <2>1 DEF Mode, Modes, ModeNames
<1> QED BY <1>1, <1>2 DEF Benches

LEMMA InitIInv == Init => IInv
<1> SUFFICES ASSUME Init PROVE IInv
  OBVIOUS
<1>1. TypeOK
  BY DEF Init, TypeOK, Benches
<1>2. MoreToMeasure
  BY DEF Init, MoreToMeasure, Modes, Benches
<1>3. CountedAreListed /\ WatermarkIsAbove /\ StagesCountedOnce
  BY DEF Init, CountedAreListed, WatermarkIsAbove, StagesCountedOnce
<1> QED BY <1>1, <1>2, <1>3 DEF IInv

LEMMA HotKeysAreKeys ==
    ASSUME frame \in Frames PROVE HotKeys \subseteq Keys
BY FramesAssumption DEF HotKeys, KeysOf, Bronze

\* Neither the measurements nor the stages change.
LEMMA NothingMeasured ==
    ASSUME IInv, TypeOK', UNCHANGED <<bench, listed, complete, watermark, results>>,
           pc' \in {"count", "metrics"} => pc \in {"count", "metrics"},
           pc' \in {"start", "watermark", "count", "metrics"} =>
               pc \in {"start", "watermark", "count", "metrics"}
    PROVE  IInv'
<1>1. MoreToMeasure'
  BY DEF IInv, MoreToMeasure, Modes
<1>2. CountedAreListed' /\ StagesCountedOnce'
  BY DEF IInv, CountedAreListed, StagesCountedOnce
<1>3. WatermarkIsAbove'
  BY DEF IInv, WatermarkIsAbove
<1> QED BY <1>1, <1>2, <1>3 DEF IInv

LEMMA ReadStep == IInv /\ Read => IInv'
<1> SUFFICES ASSUME IInv, Read PROVE IInv'
  OBVIOUS
<1>1. hot' \subseteq Keys
  BY HotKeysAreKeys DEF IInv, TypeOK, Read
<1>2. TypeOK'
  BY <1>1, StagesAssumption DEF IInv, TypeOK, Read, Goto, RunsStages, restVars
<1> QED BY <1>2, NothingMeasured DEF Read, Goto, restVars

LEMMA WatermarkStep == IInv /\ Watermark => IInv'
<1> SUFFICES ASSUME IInv, Watermark PROVE IInv'
  OBVIOUS
<1>1. TypeOK'
  BY DEF IInv, TypeOK, Watermark, Goto, restVars, CountedAreListed
<1>2. MoreToMeasure'
  BY DEF IInv, Watermark, Goto, MoreToMeasure, Modes
<1>3. CountedAreListed'
  BY DEF IInv, TypeOK, Watermark, restVars, CountedAreListed
<1>4. WatermarkIsAbove'
  <2> SUFFICES ASSUME watermark' # -1, NEW i \in 1..Len(results), NEW id \in results[i].stages
               PROVE  id <= watermark'
    BY DEF Watermark, WatermarkIsAbove
  <2>1. watermark' = listed - 1 /\ id \in 0..(listed - 1)
    BY DEF Watermark, IInv, CountedAreListed
  <2> QED BY <2>1 DEF IInv, TypeOK
<1>5. StagesCountedOnce'
  BY DEF IInv, Watermark, StagesCountedOnce
<1> QED BY <1>1, <1>2, <1>3, <1>4, <1>5 DEF IInv

LEMMA CountStep == IInv /\ Count => IInv'
<1> SUFFICES ASSUME IInv, Count PROVE IInv'
  OBVIOUS
<1>1. TypeOK'
  BY StagesAssumption DEF IInv, TypeOK, Count, Goto, RunsStages, restVars
<1> QED BY <1>1, NothingMeasured DEF Count, Goto, restVars

LEMMA MetricsStep == IInv /\ Metrics => IInv'
<1> SUFFICES ASSUME IInv, Metrics PROVE IInv'
  OBVIOUS
<1> DEFINE row == [mode |-> Mode, after |-> watermark,
                   stages |-> {id \in 0..(complete - 1) : After(id)}]
<1>1. /\ Len(results) \in Nat
      /\ Len(results) < Len(Modes(bench))
  BY DEF IInv, TypeOK, MoreToMeasure, Metrics
<1>2. Mode \in ModeNames
  BY <1>1, ModeType DEF IInv, TypeOK
<1>3. row \in Measured
  BY <1>2 DEF IInv, TypeOK, Measured
<1>4. results' = Append(results, row)
  BY DEF Metrics
<1>5. /\ results' \in Seq(Measured)
      /\ Len(results') = Len(results) + 1
      /\ results'[Len(results) + 1] = row
      /\ \A i \in 1..Len(results) : results'[i] = results[i]
  BY <1>3, <1>4 DEF IInv, TypeOK
<1>6. pc' \in {"watermark", "check", "append"}
  BY DEF Metrics, Goto
<1>7. TypeOK'
  BY <1>5, <1>6 DEF IInv, TypeOK, Metrics, restVars
<1>8. MoreToMeasure'
  BY DEF Metrics, Goto, MoreToMeasure, Modes
<1>9. CountedAreListed'
  <2>1. row.stages \subseteq 0..(listed - 1)
    BY DEF IInv, TypeOK, CountedAreListed
  <2> QED BY <1>1, <1>5, <2>1 DEF IInv, CountedAreListed, Metrics, restVars
<1>10. WatermarkIsAbove'
  BY <1>6 DEF WatermarkIsAbove
<1>11. StagesCountedOnce'
  <2> SUFFICES ASSUME NEW i \in 1..Len(results'), NEW j \in 1..Len(results'),
                      i < j, results'[j].after # -1
               PROVE  results'[i].stages \cap results'[j].stages = {}
    BY DEF StagesCountedOnce
  <2>1. CASE j \in 1..Len(results)
    BY <1>1, <1>5, <2>1 DEF IInv, StagesCountedOnce
  <2>2. CASE j = Len(results) + 1
    <3>1. i \in 1..Len(results) /\ results'[i] = results[i]
      BY <1>1, <1>5, <2>2
    <3>2. watermark # -1 /\ pc = "metrics"
      BY <1>5, <2>2 DEF Metrics
    <3>3. \A id \in results[i].stages : id <= watermark
      BY <3>1, <3>2 DEF IInv, WatermarkIsAbove
    <3>4. \A id \in results'[j].stages : id \in Nat /\ id > watermark
      BY <1>5, <2>2 DEF After, IInv, TypeOK
    <3> QED BY <3>1, <3>3, <3>4 DEF IInv, TypeOK
  <2> QED BY <1>1, <1>5, <2>1, <2>2
<1> QED BY <1>7, <1>8, <1>9, <1>10, <1>11 DEF IInv

LEMMA RestStep == IInv /\ (Check \/ AppendResults \/ Stop) => IInv'
<1> SUFFICES ASSUME IInv, Check \/ AppendResults \/ Stop PROVE IInv'
  OBVIOUS
<1>1. pc' \in {"append", "failed", "done"}
  BY DEF Check, AppendResults, Stop, Goto
<1>2. UNCHANGED <<bench, frame, hot, submitted, listed, complete, watermark, results>>
  BY DEF Check, AppendResults, Stop, restVars
<1>3. appended' = appended \/ appended' = results
  BY DEF Check, AppendResults, Stop
<1>4. TypeOK'
  BY <1>1, <1>2, <1>3 DEF IInv, TypeOK
<1> QED BY <1>1, <1>2, <1>4, NothingMeasured

LEMMA ListenStep == IInv /\ Listen => IInv'
<1> SUFFICES ASSUME IInv, Listen PROVE IInv'
  OBVIOUS
<1>1. TypeOK'
  BY DEF IInv, TypeOK, Listen
<1>2. MoreToMeasure' /\ WatermarkIsAbove' /\ StagesCountedOnce'
  BY DEF IInv, Listen, MoreToMeasure, Modes, WatermarkIsAbove, StagesCountedOnce
<1>3. CountedAreListed'
  BY DEF IInv, TypeOK, Listen, CountedAreListed
<1> QED BY <1>1, <1>2, <1>3 DEF IInv

LEMMA StutterStep == IInv /\ UNCHANGED vars => IInv'
BY DEF IInv, vars, restVars, TypeOK, MoreToMeasure, Modes, CountedAreListed, WatermarkIsAbove,
       StagesCountedOnce

LEMMA Invariance == Spec => []IInv
<1>1. IInv /\ [Next]_vars => IInv'
  BY ReadStep, WatermarkStep, CountStep, MetricsStep, RestStep, ListenStep, StutterStep DEF Next
<1> QED BY InitIInv, <1>1, PTL DEF Spec

\* The variables keep their types.
THEOREM TypeCorrect == Spec => []TypeOK
BY Invariance, PTL DEF IInv

\* No stage is counted for two modes, however late the REST API hears of it,
\* unless the later watermark could not be asked for.
THEOREM StagesCountedOnceHolds == Spec => []StagesCountedOnce
BY Invariance, PTL DEF IInv

-----------------------------------------------------------------------------
(* Sums.  SumFunctionOnSet is a fold, a recursive function over the subsets *)
(* of its set: that there is one, that it may take the elements in any      *)
(* order, and that a sum is the sum of the sums of its parts.               *)

\* Induction over the numbers, with a set in place of a predicate.
LEMMA Counting ==
    ASSUME NEW T, 0 \in T, \A n \in Nat : n \in T => n + 1 \in T
    PROVE  Nat \subseteq T
<1> SUFFICES ASSUME Nat \ T # {} PROVE FALSE
  OBVIOUS
<1> DEFINE R == OpToRel(<, Nat)
<1>1. \E n \in Nat \ T : \A m \in Nat \ T : <<m, n>> \notin R
  <2>1. IsWellFoundedOn(R, Nat)
    BY NatLessThanWellFounded
  <2> HIDE DEF R
  <2> QED BY <2>1, WFMin
<1>2. \A m, n \in Nat : m < n => <<m, n>> \in R
  BY DEF OpToRel
<1> HIDE DEF R
<1>3. PICK n \in Nat \ T : \A m \in Nat \ T : <<m, n>> \notin R
  BY <1>1
<1>4. n # 0 /\ n - 1 \in Nat
  OBVIOUS
<1>5. n - 1 \notin T
  <2>1. (n - 1) + 1 = n
    BY <1>3
  <2> QED BY <1>3, <1>4, <2>1
<1>6. <<n - 1, n>> \in R
  BY <1>2, <1>3, <1>4
<1> QED BY <1>3, <1>4, <1>5, <1>6

Chosen(S) == CHOOSE x \in S : TRUE
Rest(S) == S \ {Chosen(S)}

Adds(iter, f, S) ==
    iter = [s \in SUBSET S |-> IF s = {} THEN 0 ELSE f[Chosen(s)] + iter[Rest(s)]]
Partial(f, S) == CHOOSE iter : Adds(iter, f, S)

LEMMA SumIsPartial == ASSUME NEW f, NEW S PROVE SumFunctionOnSet(f, S) = Partial(f, S)[S]
BY DEF SumFunctionOnSet, FoldFunctionOnSet, MapThenFoldSet, Partial, Adds, Chosen, Rest

Small(S, n) == {s \in SUBSET S : Cardinality(s) <= n}

LEMMA RestIsSmaller ==
    ASSUME NEW S, IsFiniteSet(S), NEW s \in SUBSET S
    PROVE  /\ IsFiniteSet(s) /\ Cardinality(s) \in Nat /\ (Cardinality(s) = 0 <=> s = {})
           /\ \A x \in s : s \ {x} \in SUBSET S /\ Cardinality(s \ {x}) = Cardinality(s) - 1
           /\ s # {} => Chosen(s) \in s
<1>1. IsFiniteSet(s)
  BY FS_Subset
<1>2. s # {} => Chosen(s) \in s
  BY DEF Chosen
<1> QED BY <1>1, <1>2, FS_CardinalityType, FS_EmptySet, FS_RemoveElement

LEMMA SmallGrows ==
    ASSUME NEW S, IsFiniteSet(S), NEW n \in Nat
    PROVE  /\ Small(S, 0) = {{}}
           /\ {} \in Small(S, n)
           /\ Small(S, n) \subseteq Small(S, n + 1)
           /\ \A s \in Small(S, n + 1) \ {{}} :
                 Chosen(s) \in S /\ Rest(s) \in Small(S, n)
           /\ Small(S, Cardinality(S)) = SUBSET S
<1>1. \A s \in SUBSET S :
         /\ Cardinality(s) \in Nat /\ (Cardinality(s) = 0 <=> s = {})
         /\ s # {} => Chosen(s) \in s /\ Rest(s) \in SUBSET S
                      /\ Cardinality(Rest(s)) = Cardinality(s) - 1
  BY RestIsSmaller DEF Rest
<1>2. Small(S, 0) = {{}} /\ {} \in Small(S, n)
  <2>1. \A s : s \in Small(S, 0) <=> s = {}
    BY <1>1 DEF Small
  <2> QED BY <1>1, <2>1 DEF Small
<1>3. Small(S, n) \subseteq Small(S, n + 1)
  BY <1>1 DEF Small
<1>4. ASSUME NEW s \in Small(S, n + 1), s # {} PROVE Chosen(s) \in S /\ Rest(s) \in Small(S, n)
  BY <1>1, <1>4 DEF Small
<1>5. Small(S, Cardinality(S)) = SUBSET S
  BY FS_Subset, FS_CardinalityType DEF Small
<1> QED BY <1>2, <1>3, <1>4, <1>5

LEMMA PartialExists ==
    ASSUME NEW S, IsFiniteSet(S), NEW f, \A x \in S : f[x] \in Int
    PROVE  \E iter \in [SUBSET S -> Int] : Adds(iter, f, S)
<1> DEFINE Good(iter, n) == \A s \in Small(S, n) :
                               iter[s] = IF s = {} THEN 0 ELSE f[Chosen(s)] + iter[Rest(s)]
           T == {n \in Nat : \E iter \in [Small(S, n) -> Int] : Good(iter, n)}
<1>1. 0 \in T
  <2> DEFINE none == [s \in {{}} |-> 0]
  <2>1. none \in [Small(S, 0) -> Int] /\ Good(none, 0)
    BY SmallGrows
  <2> QED BY <2>1
<1>2. ASSUME NEW n \in Nat, n \in T PROVE n + 1 \in T
  <2>1. PICK iter \in [Small(S, n) -> Int] : Good(iter, n)
    BY <1>2
  <2> DEFINE more == [s \in Small(S, n + 1) |->
                         IF s \in Small(S, n) THEN iter[s] ELSE f[Chosen(s)] + iter[Rest(s)]]
  <2>2. more \in [Small(S, n + 1) -> Int]
    <3> SUFFICES ASSUME NEW s \in Small(S, n + 1), s \notin Small(S, n)
                 PROVE  f[Chosen(s)] + iter[Rest(s)] \in Int
      BY SmallGrows
    <3>1. f[Chosen(s)] \in Int /\ iter[Rest(s)] \in Int
      BY SmallGrows, ZenonT(30)
    <3> QED BY <3>1
  <2>3. ASSUME NEW s \in Small(S, n + 1)
        PROVE  more[s] = IF s = {} THEN 0 ELSE f[Chosen(s)] + more[Rest(s)]
    <3>1. CASE s = {}
      BY <2>1, <3>1, SmallGrows
    <3>2. CASE s # {}
      <4>1. Rest(s) \in Small(S, n) /\ Rest(s) \in Small(S, n + 1)
        BY <3>2, SmallGrows
      <4>2. more[Rest(s)] = iter[Rest(s)]
        BY <4>1
      <4>3. more[s] = f[Chosen(s)] + iter[Rest(s)]
        BY <2>1, <3>2
      <4> QED BY <3>2, <4>2, <4>3
    <3> QED BY <3>1, <3>2
  <2>4. Good(more, n + 1)
    BY <2>3
  <2> HIDE DEF more
  <2> QED BY <2>2, <2>4
<1>3. Cardinality(S) \in T
  <2> HIDE DEF T
  <2> QED BY <1>1, <1>2, FS_CardinalityType, Counting
<1>4. PICK iter \in [SUBSET S -> Int] : Good(iter, Cardinality(S))
  BY <1>3, SmallGrows, FS_CardinalityType
<1>5. iter = [s \in SUBSET S |-> IF s = {} THEN 0 ELSE f[Chosen(s)] + iter[Rest(s)]]
  BY <1>4, SmallGrows, FS_CardinalityType
<1> QED BY <1>5 DEF Adds

\* The sum over the empty set, and the sum with any element apart.
AddsUp(p, f, S) ==
    /\ p \in [SUBSET S -> Int]
    /\ p[{}] = 0
    /\ \A s \in SUBSET S : \A x \in s : p[s] = f[x] + p[s \ {x}]

LEMMA PartialAdds ==
    ASSUME NEW S, IsFiniteSet(S), NEW f, \A x \in S : f[x] \in Int
    PROVE  AddsUp(Partial(f, S), f, S)
<1> DEFINE p == Partial(f, S)
<1>1. Adds(p, f, S)
  BY PartialExists DEF Partial
<1>2. p = [s \in SUBSET S |-> IF s = {} THEN 0 ELSE f[Chosen(s)] + p[Rest(s)]]
  <2> HIDE DEF p
  <2> QED BY <1>1 DEF Adds
<1> HIDE DEF p
<1>3. p[{}] = 0 /\ \A s \in SUBSET S : s # {} => p[s] = f[Chosen(s)] + p[Rest(s)]
  BY <1>2
<1>4. p \in [SUBSET S -> Int]
  <2> DEFINE T == {n \in Nat : \A s \in Small(S, n) : p[s] \in Int}
  <2>1. 0 \in T
    <3>1. Small(S, 0) = {{}}
      BY SmallGrows
    <3>2. p[{}] \in Int
      BY <1>3
    <3> QED BY <3>1, <3>2
  <2>2. ASSUME NEW n \in Nat, n \in T PROVE n + 1 \in T
    <3> SUFFICES ASSUME NEW s \in Small(S, n + 1) PROVE p[s] \in Int
      OBVIOUS
    <3>1. CASE s = {}
      BY <3>1, <1>3
    <3>2. CASE s # {}
      <4>1. f[Chosen(s)] \in Int /\ p[Rest(s)] \in Int
        BY <2>2, <3>2, SmallGrows
      <4> QED BY <1>3, <3>2, <4>1 DEF Small
    <3> QED BY <3>1, <3>2
  <2>3. Cardinality(S) \in T
    <3> HIDE DEF T
    <3> QED BY <2>1, <2>2, FS_CardinalityType, Counting
  <2>4. \A s \in SUBSET S : p[s] \in Int
    BY <2>3, SmallGrows, FS_CardinalityType
  <2> QED BY <1>2, <2>4
<1>5. \A s \in SUBSET S : \A x \in s : p[s] = f[x] + p[s \ {x}]
  <2> DEFINE AnyFirst(s) == \A x \in s : p[s] = f[x] + p[s \ {x}]
             T == {n \in Nat : \A s \in SUBSET S : Cardinality(s) = n => AnyFirst(s)}
  <2>1. 0 \in T
    BY RestIsSmaller
  <2>2. ASSUME NEW n \in Nat, n \in T PROVE n + 1 \in T
    <3> SUFFICES ASSUME NEW s \in SUBSET S, Cardinality(s) = n + 1, NEW x \in s
                 PROVE  p[s] = f[x] + p[s \ {x}]
      OBVIOUS
    <3> DEFINE y == Chosen(s)
    <3>1. y \in s /\ p[s] = f[y] + p[s \ {y}]
      BY <1>3, RestIsSmaller DEF Rest
    <3> HIDE DEF y
    <3>2. CASE x = y
      BY <3>1, <3>2
    <3>3. CASE x # y
      <4>1. \A z \in s : s \ {z} \in SUBSET S /\ Cardinality(s \ {z}) = n
        BY RestIsSmaller
      <4>2. p[s \ {y}] = f[x] + p[(s \ {y}) \ {x}]
        BY <2>2, <3>1, <3>3, <4>1
      <4>3. p[s \ {x}] = f[y] + p[(s \ {x}) \ {y}]
        BY <2>2, <3>1, <3>3, <4>1
      <4>4. (s \ {y}) \ {x} = (s \ {x}) \ {y} /\ (s \ {x}) \ {y} \in SUBSET S
        OBVIOUS
      <4>5. f[x] \in Int /\ f[y] \in Int /\ p[(s \ {x}) \ {y}] \in Int
        BY <1>4, <3>1
      <4>6. p[s] = f[y] + (f[x] + p[(s \ {x}) \ {y}])
        BY <3>1, <4>2, <4>4
      <4> QED BY <4>3, <4>5, <4>6
    <3> QED BY <3>2, <3>3
  <2> HIDE DEF T
  <2>3. \A n \in Nat : n \in T
    BY <2>1, <2>2, Counting
  <2>4. \A s \in SUBSET S : Cardinality(s) \in T
    BY <2>3, RestIsSmaller
  <2> QED BY <2>4 DEF T
<1> QED BY <1>3, <1>4, <1>5 DEF p, AddsUp

\* Induction over a finite set, element by element, with a set of sets in place
\* of a predicate.
LEMMA Gathering ==
    ASSUME NEW S, IsFiniteSet(S), NEW U, {} \in U,
           \A T \in SUBSET S : \A x \in S \ T : T \in U => T \cup {x} \in U
    PROVE  \A T \in SUBSET S : T \in U
<1> DEFINE N == {n \in Nat : \A T \in SUBSET S : Cardinality(T) = n => T \in U}
<1>1. 0 \in N
  BY RestIsSmaller
<1>2. ASSUME NEW n \in Nat, n \in N PROVE n + 1 \in N
  <2> SUFFICES ASSUME NEW T \in SUBSET S, Cardinality(T) = n + 1 PROVE T \in U
    OBVIOUS
  <2>1. T # {}
    BY RestIsSmaller
  <2>2. PICK x \in T : TRUE
    BY <2>1
  <2>3. T \ {x} \in SUBSET S /\ Cardinality(T \ {x}) = n
    BY RestIsSmaller
  <2>4. T \ {x} \in U
    BY <1>2, <2>3
  <2>5. (T \ {x}) \cup {x} = T /\ x \in S \ (T \ {x})
    OBVIOUS
  <2> QED BY <2>3, <2>4, <2>5
<1> HIDE DEF N
<1>3. \A n \in Nat : n \in N
  BY <1>1, <1>2, Counting
<1>4. \A T \in SUBSET S : Cardinality(T) \in N
  BY <1>3, RestIsSmaller
<1> QED BY <1>4 DEF N

LEMMA PartialOfSubset ==
    ASSUME NEW S, IsFiniteSet(S), NEW f, \A x \in S : f[x] \in Int, NEW T \in SUBSET S
    PROVE  Partial(f, S)[T] = Partial(f, T)[T]
<1> DEFINE U == {s \in SUBSET T : Partial(f, S)[s] = Partial(f, T)[s]}
<1>1. IsFiniteSet(T)
  BY FS_Subset
<1>2. {} \in U
  <2> HIDE DEF U
  <2>1. Partial(f, S)[{}] = 0
    BY PartialAdds DEF AddsUp
  <2>2. Partial(f, T)[{}] = 0
    BY <1>1, PartialAdds DEF AddsUp
  <2> QED BY <2>1, <2>2 DEF U
<1>3. ASSUME NEW s \in SUBSET T, NEW x \in T \ s, s \in U PROVE s \cup {x} \in U
  <2>1. AddsUp(Partial(f, S), f, S)
    BY PartialAdds
  <2>2. AddsUp(Partial(f, T), f, T)
    BY <1>1, PartialAdds
  <2> DEFINE t == s \cup {x}
  <2>3. t \in SUBSET S /\ t \in SUBSET T /\ x \in t /\ t \ {x} = s
    OBVIOUS
  <2> HIDE DEF t
  <2>4. Partial(f, S)[t] = Partial(f, T)[t]
    <3>1. Partial(f, S)[t] = f[x] + Partial(f, S)[s]
      BY <2>1, <2>3 DEF AddsUp
    <3>2. Partial(f, T)[t] = f[x] + Partial(f, T)[s]
      BY <2>2, <2>3 DEF AddsUp
    <3> QED BY <1>3, <3>1, <3>2
  <2> QED BY <2>3, <2>4 DEF t
<1>4. T \in U
  <2> HIDE DEF U
  <2> QED BY <1>1, <1>2, <1>3, Gathering
<1> QED BY <1>4

\* What SumFunctionOnSet adds, in whatever order.
LEMMA SumAdds ==
    ASSUME NEW S, IsFiniteSet(S), NEW f, \A x \in S : f[x] \in Int
    PROVE  /\ SumFunctionOnSet(f, S) \in Int
           /\ S = {} => SumFunctionOnSet(f, S) = 0
           /\ \A x \in S : SumFunctionOnSet(f, S) = f[x] + SumFunctionOnSet(f, S \ {x})
<1>1. ASSUME NEW x \in S PROVE Partial(f, S)[S \ {x}] = Partial(f, S \ {x})[S \ {x}]
  BY PartialOfSubset
<1>2. AddsUp(Partial(f, S), f, S)
  BY PartialAdds
<1>3. S \in SUBSET S
  OBVIOUS
<1> QED BY <1>1, <1>2, <1>3, SumIsPartial DEF AddsUp

LEMMA SumAddsElement ==
    ASSUME NEW S, IsFiniteSet(S), NEW x, x \notin S, NEW f, \A y \in S \cup {x} : f[y] \in Int
    PROVE  SumFunctionOnSet(f, S \cup {x}) = f[x] + SumFunctionOnSet(f, S)
<1>1. IsFiniteSet(S \cup {x}) /\ (S \cup {x}) \ {x} = S
  BY FS_AddElement
<1> QED BY <1>1, SumAdds

\* A sum depends on the values in its set only.
LEMMA SumsAgree ==
    ASSUME NEW S, IsFiniteSet(S), NEW f, NEW g, \A x \in S : f[x] \in Int /\ f[x] = g[x]
    PROVE  SumFunctionOnSet(f, S) = SumFunctionOnSet(g, S)
<1> DEFINE U == {T \in SUBSET S : SumFunctionOnSet(f, T) = SumFunctionOnSet(g, T)}
<1>1. {} \in U
  BY FS_EmptySet, SumAdds
<1>2. ASSUME NEW T \in SUBSET S, NEW x \in S \ T, T \in U PROVE T \cup {x} \in U
  <2>1. IsFiniteSet(T)
    BY FS_Subset
  <2>2. SumFunctionOnSet(f, T \cup {x}) = f[x] + SumFunctionOnSet(f, T)
    BY <2>1, SumAddsElement
  <2>3. SumFunctionOnSet(g, T \cup {x}) = g[x] + SumFunctionOnSet(g, T)
    BY <2>1, SumAddsElement
  <2> QED BY <1>2, <2>2, <2>3
<1>3. S \in U
  <2> HIDE DEF U
  <2> QED BY <1>1, <1>2, Gathering
<1> QED BY <1>3

LEMMA SumOfOnes ==
    ASSUME NEW S, IsFiniteSet(S), NEW f, \A x \in S : f[x] = 1
    PROVE  SumFunctionOnSet(f, S) = Cardinality(S)
<1> DEFINE U == {T \in SUBSET S : SumFunctionOnSet(f, T) = Cardinality(T)}
<1>1. {} \in U
  BY FS_EmptySet, SumAdds
<1>2. ASSUME NEW T \in SUBSET S, NEW x \in S \ T, T \in U PROVE T \cup {x} \in U
  <2>1. IsFiniteSet(T)
    BY FS_Subset
  <2>2. SumFunctionOnSet(f, T \cup {x}) = 1 + SumFunctionOnSet(f, T)
    <3>1. f[x] = 1 /\ \A y \in T \cup {x} : f[y] \in Int
      OBVIOUS
    <3> QED BY <2>1, <3>1, SumAddsElement
  <2>3. Cardinality(T \cup {x}) = Cardinality(T) + 1 /\ Cardinality(T) \in Nat
    BY <2>1, FS_AddElement, FS_CardinalityType
  <2> QED BY <1>2, <2>2, <2>3
<1>3. S \in U
  <2> HIDE DEF U
  <2> QED BY <1>1, <1>2, Gathering
<1> QED BY <1>3

LEMMA SumOfZeros ==
    ASSUME NEW S, IsFiniteSet(S), NEW f, \A x \in S : f[x] = 0
    PROVE  SumFunctionOnSet(f, S) = 0
<1> DEFINE U == {T \in SUBSET S : SumFunctionOnSet(f, T) = 0}
<1>1. {} \in U
  BY FS_EmptySet, SumAdds
<1>2. ASSUME NEW T \in SUBSET S, NEW x \in S \ T, T \in U PROVE T \cup {x} \in U
  <2>1. IsFiniteSet(T)
    BY FS_Subset
  <2>2. SumFunctionOnSet(f, T \cup {x}) = 0 + SumFunctionOnSet(f, T)
    <3>1. f[x] = 0 /\ \A y \in T \cup {x} : f[y] \in Int
      OBVIOUS
    <3> QED BY <2>1, <3>1, SumAddsElement
  <2> QED BY <1>2, <2>2
<1>3. S \in U
  <2> HIDE DEF U
  <2> QED BY <1>1, <1>2, Gathering
<1> QED BY <1>3

Labels(S, label, I) == \A x \in S : label[x] \in I
Labelled(S, label, i) == {x \in S : label[x] = i}

\* The sum over a set is the sum, over the labels of its elements, of the sums
\* over the elements of each label.
LEMMA SumOfSums ==
    ASSUME NEW S, IsFiniteSet(S), NEW f, \A x \in S : f[x] \in Int,
           NEW I, IsFiniteSet(I), NEW label, Labels(S, label, I),
           NEW g, \A i \in I : g[i] = SumFunctionOnSet(f, Labelled(S, label, i))
    PROVE  SumFunctionOnSet(g, I) = SumFunctionOnSet(f, S)
<1> DEFINE Of(T, i) == {x \in T : label[x] = i}
           Sums(T) == [i \in I |-> SumFunctionOnSet(f, Of(T, i))]
           U == {T \in SUBSET S : SumFunctionOnSet(Sums(T), I) = SumFunctionOnSet(f, T)}
<1> USE DEF Labels
<1>0. ASSUME NEW T \in SUBSET S, NEW i \in I
      PROVE  IsFiniteSet(T) /\ IsFiniteSet(Of(T, i)) /\ SumFunctionOnSet(f, Of(T, i)) \in Int
  <2>1. Of(T, i) \in SUBSET S
    OBVIOUS
  <2>2. IsFiniteSet(T) /\ IsFiniteSet(Of(T, i))
    BY <2>1, FS_Subset
  <2> HIDE DEF Of
  <2> QED BY <2>1, <2>2, SumAdds
<1>1. {} \in U
  <2>1. \A i \in I : Sums({})[i] = 0
    <3> SUFFICES ASSUME NEW i \in I PROVE SumFunctionOnSet(f, Of({}, i)) = 0
      OBVIOUS
    <3>1. Of({}, i) = {}
      OBVIOUS
    <3> QED BY <3>1, FS_EmptySet, SumAdds
  <2>2. SumFunctionOnSet(Sums({}), I) = 0
    <3> HIDE DEF Sums
    <3> QED BY <2>1, SumOfZeros
  <2>3. SumFunctionOnSet(f, {}) = 0
    BY FS_EmptySet, SumAdds
  <2> QED BY <2>2, <2>3
<1>2. ASSUME NEW T \in SUBSET S, NEW x \in S \ T, T \in U PROVE T \cup {x} \in U
  <2> DEFINE k == label[x]
             more == Sums(T \cup {x})
  <2>1. k \in I
    OBVIOUS
  <2>2. \A i \in I : Sums(T)[i] \in Int /\ more[i] \in Int
    <3>1. T \cup {x} \in SUBSET S
      OBVIOUS
    <3> HIDE DEF Of
    <3> QED BY <1>0, <3>1
  <2>3. \A i \in I \ {k} : more[i] = Sums(T)[i]
    <3> SUFFICES ASSUME NEW i \in I \ {k} PROVE Of(T \cup {x}, i) = Of(T, i)
      OBVIOUS
    <3> QED OBVIOUS
  <2>4. more[k] = f[x] + Sums(T)[k]
    <3>1. Of(T \cup {x}, k) = Of(T, k) \cup {x} /\ x \notin Of(T, k) /\ Of(T, k) \subseteq S
      OBVIOUS
    <3>2. IsFiniteSet(Of(T, k))
      BY <1>0, <2>1
    <3> HIDE DEF Of, k
    <3>3. SumFunctionOnSet(f, Of(T, k) \cup {x}) = f[x] + SumFunctionOnSet(f, Of(T, k))
      BY <3>1, <3>2, SumAddsElement
    <3> QED BY <2>1, <3>1, <3>3
  <2> HIDE DEF Sums, more, k
  <2>5. SumFunctionOnSet(more, I) = more[k] + SumFunctionOnSet(more, I \ {k})
    BY <2>1, <2>2, SumAdds
  <2>6. SumFunctionOnSet(Sums(T), I) = Sums(T)[k] + SumFunctionOnSet(Sums(T), I \ {k})
    BY <2>1, <2>2, SumAdds
  <2>7. IsFiniteSet(I \ {k})
    BY FS_Difference
  <2>8. SumFunctionOnSet(more, I \ {k}) = SumFunctionOnSet(Sums(T), I \ {k})
    BY <2>2, <2>3, <2>7, SumsAgree
  <2>9. SumFunctionOnSet(more, I \ {k}) \in Int
    BY <2>2, <2>7, SumAdds
  <2>10. SumFunctionOnSet(f, T \cup {x}) = f[x] + SumFunctionOnSet(f, T)
    BY <1>0, <2>1, SumAddsElement
  <2>11. f[x] \in Int /\ Sums(T)[k] \in Int
    BY <2>1, <2>2
  <2>12. SumFunctionOnSet(Sums(T), I) = SumFunctionOnSet(f, T)
    BY <1>2
  <2>13. SumFunctionOnSet(more, I) = SumFunctionOnSet(f, T \cup {x})
    BY <2>4, <2>5, <2>6, <2>8, <2>9, <2>10, <2>11, <2>12
  <2> QED BY <2>13 DEF more
<1>3. S \in U
  <2> HIDE DEF U
  <2> QED BY <1>1, <1>2, Gathering
<1>4. SumFunctionOnSet(Sums(S), I) = SumFunctionOnSet(f, S)
  BY <1>3
<1>5. \A i \in I : Sums(S)[i] = g[i] /\ Sums(S)[i] \in Int
  <2>1. \A i \in I : Sums(S)[i] = SumFunctionOnSet(f, Of(S, i))
    OBVIOUS
  <2>2. \A i \in I : Of(S, i) = Labelled(S, label, i)
    BY DEF Labelled
  <2> HIDE DEF Of, Sums
  <2> QED BY <1>0, <2>1, <2>2
<1> HIDE DEF Sums
<1> QED BY <1>4, <1>5, SumsAgree

-----------------------------------------------------------------------------
(* Salted aggregation.  The rows of a key are those of its shards, and so   *)
(* are the rows of a key whose value is known.                              *)

KnownOf(rows) == {r \in rows : frame[r].value # NoValue}
Fares == [r \in Rows |-> frame[r].value]
Ones == [r \in Rows |-> 1]

LEMMA KnownFares ==
    ASSUME frame \in Frames, NEW rows \in SUBSET Rows
    PROVE  /\ IsFiniteSet(rows) /\ IsFiniteSet(KnownOf(rows)) /\ KnownOf(rows) \subseteq Rows
           /\ \A r \in KnownOf(rows) : Fares[r] \in Int
<1>1. \A r \in KnownOf(rows) : Fares[r] \in Int
  BY FramesAssumption DEF KnownOf, Fares
<1>2. IsFiniteSet(rows) /\ KnownOf(rows) \in SUBSET rows
  BY RowsAssumption, FS_Subset DEF KnownOf
<1> QED BY <1>1, <1>2, FS_Subset

\* What SumOf makes of the values of some rows.
LEMMA SumOfRows ==
    ASSUME frame \in Frames, NEW rows \in SUBSET Rows
    PROVE  SumOf(ValuesOf(rows)) = IF KnownOf(rows) = {} THEN NoValue
                                   ELSE SumFunctionOnSet(Fares, KnownOf(rows))
<1> DEFINE values == ValuesOf(rows)
<1>1. DOMAIN values = rows /\ \A r \in rows : values[r] = Fares[r]
  BY DEF ValuesOf, Fares
<1>2. {v \in DOMAIN values : values[v] # NoValue} = KnownOf(rows)
  BY DEF ValuesOf, KnownOf
<1> HIDE DEF values
<1>3. SumFunctionOnSet(values, KnownOf(rows)) = SumFunctionOnSet(Fares, KnownOf(rows))
  <2>1. \A r \in KnownOf(rows) : values[r] \in Int /\ values[r] = Fares[r]
    BY <1>1, KnownFares DEF KnownOf
  <2> QED BY <2>1, KnownFares, SumsAgree
<1>4. SumOf(values) = IF KnownOf(rows) = {} THEN NoValue
                      ELSE SumFunctionOnSet(values, KnownOf(rows))
  BY <1>2 DEF SumOf
<1> QED BY <1>3, <1>4 DEF values

\* The rows of a key, in its shards.
LEMMA CountsAdd ==
    ASSUME frame \in Frames, NEW rows \in SUBSET Rows, NEW shards, IsFiniteSet(shards),
           NEW salt, \A r \in rows : salt[r] \in shards,
           NEW counts, DOMAIN counts = shards,
           \A s \in shards : counts[s] = Cardinality(Labelled(rows, salt, s))
    PROVE  SumFunction(counts) = Cardinality(rows)
<1>1. IsFiniteSet(rows)
  BY KnownFares
<1>2. ASSUME NEW s \in shards
      PROVE  counts[s] = SumFunctionOnSet(Ones, Labelled(rows, salt, s))
  <2> DEFINE shard == Labelled(rows, salt, s)
  <2>1. shard \in SUBSET Rows /\ IsFiniteSet(shard) /\ \A r \in shard : Ones[r] = 1
    <3>1. shard \in SUBSET rows
      BY DEF Labelled
    <3> QED BY <1>1, <3>1, FS_Subset DEF Ones
  <2> HIDE DEF shard
  <2>2. SumFunctionOnSet(Ones, shard) = Cardinality(shard)
    BY <2>1, SumOfOnes
  <2> QED BY <2>2 DEF shard
<1>3. SumFunctionOnSet(counts, shards) = SumFunctionOnSet(Ones, rows)
  <2>1. \A r \in rows : Ones[r] \in Int
    BY DEF Ones
  <2>2. Labels(rows, salt, shards)
    BY DEF Labels
  <2> QED BY <1>1, <1>2, <2>1, <2>2, SumOfSums
<1>4. SumFunctionOnSet(Ones, rows) = Cardinality(rows)
  BY <1>1, SumOfOnes DEF Ones
<1> QED BY <1>3, <1>4 DEF SumFunction

LEMMA SumsAdd ==
    ASSUME frame \in Frames, NEW rows \in SUBSET Rows, NEW shards, IsFiniteSet(shards),
           NEW salt, \A r \in rows : salt[r] \in shards,
           NEW sums, DOMAIN sums = shards,
           \A s \in shards : sums[s] = SumOf(ValuesOf(Labelled(rows, salt, s)))
    PROVE  SumOf(sums) = SumOf(ValuesOf(rows))
<1> DEFINE Shard(s) == Labelled(rows, salt, s)
           filled == {s \in DOMAIN sums : sums[s] # NoValue}
<1>1. ASSUME NEW s \in shards
      PROVE  /\ KnownOf(Shard(s)) = Labelled(KnownOf(rows), salt, s)
             /\ sums[s] = IF KnownOf(Shard(s)) = {} THEN NoValue
                          ELSE SumFunctionOnSet(Fares, KnownOf(Shard(s)))
             /\ SumFunctionOnSet(Fares, KnownOf(Shard(s))) \in Int
  <2>1. Shard(s) \in SUBSET Rows
    BY DEF Labelled
  <2>2. KnownOf(Shard(s)) = Labelled(KnownOf(rows), salt, s)
    BY DEF KnownOf, Labelled
  <2>3. sums[s] = SumOf(ValuesOf(Shard(s)))
    OBVIOUS
  <2> HIDE DEF Shard
  <2>4. SumFunctionOnSet(Fares, KnownOf(Shard(s))) \in Int
    BY <2>1, KnownFares, SumAdds
  <2> QED BY <2>1, <2>2, <2>3, <2>4, SumOfRows
<1>2. \A s : s \in filled <=> s \in shards /\ \E r \in KnownOf(rows) : salt[r] = s
  <2>1. DOMAIN sums = shards
    OBVIOUS
  <2> HIDE DEF Shard
  <2> QED BY <1>1, <2>1, ValueAssumption DEF Labelled
<1>3. IsFiniteSet(filled) /\ filled \subseteq shards
  <2>1. filled \in SUBSET shards
    OBVIOUS
  <2> HIDE DEF filled
  <2> QED BY <2>1, FS_Subset
<1>4. \A r \in KnownOf(rows) : salt[r] \in filled
  BY <1>2 DEF KnownOf
<1>5. filled = {} <=> KnownOf(rows) = {}
  <2> HIDE DEF filled
  <2> QED BY <1>2, <1>4
<1>6. SumFunctionOnSet(sums, filled) = SumFunctionOnSet(Fares, KnownOf(rows))
  <2>1. \A s \in filled : sums[s] = SumFunctionOnSet(Fares, Labelled(KnownOf(rows), salt, s))
    <3>1. \A s \in filled : s \in shards /\ Labelled(KnownOf(rows), salt, s) # {}
      <4> HIDE DEF filled
      <4> QED BY <1>2 DEF Labelled
    <3> HIDE DEF filled, Shard
    <3> QED BY <1>1, <3>1
  <2>2. IsFiniteSet(KnownOf(rows)) /\ \A r \in KnownOf(rows) : Fares[r] \in Int
    BY KnownFares
  <2>3. Labels(KnownOf(rows), salt, filled)
    BY <1>4 DEF Labels
  <2> HIDE DEF filled
  <2> QED BY <1>3, <2>1, <2>2, <2>3, SumOfSums
<1>7. SumOf(sums) = IF filled = {} THEN NoValue ELSE SumFunctionOnSet(sums, filled)
  BY DEF SumOf
<1> HIDE DEF filled
<1> QED BY <1>5, <1>6, <1>7, SumOfRows

\* For every key, count, sum and average.
LEMMA SaltedIsPlain ==
    ASSUME frame \in Frames, NEW rows \in SUBSET Rows, NEW salt \in [rows -> 0..(Buckets - 1)]
    PROVE  Salted(rows, salt) = Plain(rows)
<1> DEFINE Group(k) == RowsWith(rows, k)
           Shards(k) == {salt[r] : r \in Group(k)}
           Shard(k, s) == Labelled(Group(k), salt, s)
           Counts(k) == [s \in Shards(k) |-> Cardinality(Shard(k, s))]
           Sums(k) == [s \in Shards(k) |-> SumOf(ValuesOf(Shard(k, s)))]
           Knowns(k) == [s \in Shards(k) |-> Known(Shard(k, s))]
<1>1. ASSUME NEW k \in KeysOf(rows)
      PROVE  Salted(rows, salt)[k] = [count |-> SumFunction(Counts(k)), sum |-> SumOf(Sums(k)),
                 avg |-> Quotient(SumOf(Sums(k)), SumFunction(Knowns(k)))]
  <2> DEFINE part == [s \in Shards(k) |-> Part(Shard(k, s))]
  <2>1. /\ [s \in Shards(k) |-> part[s].count] = Counts(k)
        /\ [s \in Shards(k) |-> part[s].sum] = Sums(k)
        /\ [s \in Shards(k) |-> part[s].known] = Knowns(k)
    BY DEF Part
  <2>2. Salted(rows, salt)[k] =
            [count |-> SumFunction([s \in Shards(k) |-> part[s].count]),
             sum |-> SumOf([s \in Shards(k) |-> part[s].sum]),
             avg |-> Quotient(SumOf([s \in Shards(k) |-> part[s].sum]),
                              SumFunction([s \in Shards(k) |-> part[s].known]))]
    <3>1. \A s : Shard(k, s) = {r \in Group(k) : salt[r] = s}
      BY DEF Labelled
    <3>2. part = [s \in Shards(k) |-> Part({r \in Group(k) : salt[r] = s})]
      <4> HIDE DEF Group
      <4> QED BY <3>1
    <3> QED BY <3>2 DEF Salted
  <2> QED BY <2>1, <2>2
<1>2. ASSUME NEW k \in KeysOf(rows)
      PROVE  /\ SumFunction(Counts(k)) = Cardinality(Group(k))
             /\ SumOf(Sums(k)) = SumOf(ValuesOf(Group(k)))
             /\ SumFunction(Knowns(k)) = Known(Group(k))
  <2>1. Group(k) \in SUBSET Rows /\ KnownOf(Group(k)) \in SUBSET Rows
    BY DEF RowsWith, KnownOf
  <2>2. IsFiniteSet(Shards(k)) /\ \A r \in Group(k) : salt[r] \in Shards(k)
    <3>1. Shards(k) \in SUBSET (0..(Buckets - 1))
      BY DEF RowsWith
    <3>2. IsFiniteSet(0..(Buckets - 1))
      BY BucketsAssumption, FS_Interval
    <3> QED BY <3>1, <3>2, FS_Subset
  <2>3. Knowns(k) = [s \in Shards(k) |-> Cardinality(Labelled(KnownOf(Group(k)), salt, s))]
    <3>1. ASSUME NEW s \in Shards(k)
          PROVE  Known(Shard(k, s)) = Cardinality(Labelled(KnownOf(Group(k)), salt, s))
      <4>1. {r \in Shard(k, s) : frame[r].value # NoValue} = Labelled(KnownOf(Group(k)), salt, s)
        BY DEF KnownOf, Labelled
      <4> QED BY <4>1 DEF Known
    <3> QED BY <3>1
  <2>4. Known(Group(k)) = Cardinality(KnownOf(Group(k)))
    BY DEF Known, KnownOf
  <2>5. \A r \in KnownOf(Group(k)) : salt[r] \in Shards(k)
    BY <2>2 DEF KnownOf
  <2>9. /\ DOMAIN Counts(k) = Shards(k) /\ DOMAIN Sums(k) = Shards(k) /\ DOMAIN Knowns(k) = Shards(k)
        /\ \A s \in Shards(k) : /\ Counts(k)[s] = Cardinality(Shard(k, s))
                                /\ Sums(k)[s] = SumOf(ValuesOf(Shard(k, s)))
                                /\ Knowns(k)[s] = Cardinality(Labelled(KnownOf(Group(k)), salt, s))
    BY <2>3
  <2> HIDE DEF Group, Shards, Counts, Sums, Knowns
  <2>6. SumFunction(Counts(k)) = Cardinality(Group(k))
    BY <2>1, <2>2, <2>9, CountsAdd
  <2>7. SumOf(Sums(k)) = SumOf(ValuesOf(Group(k)))
    BY <2>1, <2>2, <2>9, SumsAdd
  <2>8. SumFunction(Knowns(k)) = Cardinality(KnownOf(Group(k)))
    BY <2>1, <2>2, <2>5, <2>9, CountsAdd
  <2> QED BY <2>4, <2>6, <2>7, <2>8
<1>3. ASSUME NEW k \in KeysOf(rows)
      PROVE  Plain(rows)[k] = [count |-> Cardinality(Group(k)), sum |-> SumOf(ValuesOf(Group(k))),
                 avg |-> Quotient(SumOf(ValuesOf(Group(k))), Known(Group(k)))]
  BY DEF Plain
<1>4. \A k \in KeysOf(rows) : Salted(rows, salt)[k] = Plain(rows)[k]
  <2> HIDE DEF Group, Counts, Sums, Knowns
  <2> QED BY <1>1, <1>2, <1>3
<1>5. /\ Salted(rows, salt) = [k \in KeysOf(rows) |-> Salted(rows, salt)[k]]
      /\ Plain(rows) = [k \in KeysOf(rows) |-> Plain(rows)[k]]
  BY DEF Salted, Plain
<1> QED BY <1>4, <1>5

\* "Two-phase salted aggregation that matches the unsalted result exactly", for
\* any rows, nulls, hot keys, number of buckets and draw of the salts.
THEOREM SaltedAggregatesMatch == Spec => []SaltedEqualsPlain
<1>1. IInv /\ SaltedEqualsPlain /\ [Next]_vars => SaltedEqualsPlain'
  <2> SUFFICES ASSUME IInv, SaltedEqualsPlain, [Next]_vars PROVE SaltedEqualsPlain'
    OBVIOUS
  <2>1. CASE Check
    <3>1. PICK salt \in Salts(Bronze) :
             aggregates' = [plain |-> Plain(Bronze), salted |-> Salted(Bronze, salt)]
      BY <2>1 DEF Check
    <3>2. Bronze \in SUBSET Rows /\ salt \in [Bronze -> 0..(Buckets - 1)]
      BY DEF Bronze, Salts
    <3>3. Salted(Bronze, salt) = Plain(Bronze)
      BY <3>2, SaltedIsPlain DEF IInv, TypeOK
    <3> QED BY <3>1, <3>3 DEF SaltedEqualsPlain
  <2>2. CASE UNCHANGED aggregates
    BY <2>2 DEF SaltedEqualsPlain
  <2> QED BY <2>1, <2>2 DEF Next, Read, Watermark, Count, Metrics, AppendResults, Stop, Listen, vars
<1>2. Init => SaltedEqualsPlain
  BY DEF Init, SaltedEqualsPlain
<1> QED BY <1>1, <1>2, Invariance, PTL DEF Spec
=============================================================================
