---------------------------- MODULE BenchProofs -----------------------------
(***************************************************************************)
(* What the benchmark prints of an implementation, when its warm-up ends,  *)
(* and which implementations its report compares, for every way running    *)
(* times may vary, every setting of the limits and every catalogue.        *)
(***************************************************************************)
EXTENDS Bench, FiniteSetTheorems, SequenceTheorems, TLAPS

-----------------------------------------------------------------------------
(* The mean and the best run. *)

\* The best of a number of runs, each of them taken that often, fits the time.
Fits(runs, best, elapsed) ==
  runs \in Nat /\ best \in Nat /\ elapsed \in Nat /\ runs * best <= elapsed

\* One more run of d, and a gap, keep it so.
LEMMA FitsOneMore ==
  ASSUME NEW n, NEW m, NEW t, Fits(n, m, t), NEW d \in Nat, NEW g \in Nat
  PROVE  Fits(n + 1, Min({m, d}), t + g + d)
<1> DEFINE b == Min({m, d})
<1>1. n \in Nat /\ m \in Nat /\ t \in Nat /\ n * m <= t
  BY DEF Fits
<1>2. \E x \in {m, d} : \A y \in {m, d} : x <= y
  BY <1>1
<1>3. b \in {m, d} /\ b <= m /\ b <= d
  BY <1>2 DEF Min
<1> HIDE DEF b
<1>4. b \in Nat
  BY <1>1, <1>3
<1>5. n * b <= n * m
  BY <1>1, <1>3, <1>4
<1>6. (n + 1) * b = n * b + b
  BY <1>1, <1>4
<1>7. n * b \in Nat /\ n * m \in Nat /\ (n + 1) * b \in Nat
  BY <1>1, <1>4
<1>8. (n + 1) * b <= t + g + d
  BY <1>1, <1>3, <1>4, <1>5, <1>6, <1>7
<1>9. QED
  BY <1>1, <1>4, <1>8 DEF Fits, b

\* min_ns begins as a running time.
LEMMA LongestIsTime == Max(Durations) \in Nat
<1>1. \E x \in Durations : \A y \in Durations : x >= y
  BY Bounded, Times
<1>2. QED
  BY <1>1, Times DEF Max

TimingFits ==
  /\ pc = "measure" => Fits(count, min_ns, spent)
  /\ \A i \in 1..Len(results) : Fits(results[i].count, results[i].min, results[i].elapsed)

\* results is a sequence, of whatever.
IsSequence == \E S : results \in Seq(S)

BestInv == IsSequence /\ TimingFits

LEMMA InitBest == Init => BestInv
<1>1. << >> \in Seq({})
  OBVIOUS
<1>2. QED
  BY <1>1 DEF Init, BestInv, IsSequence, TimingFits

\* A measured run.
LEMMA MeasureKeepsBest ==
  ASSUME BestInv, Measure
  PROVE  BestInv'
<1>1. PICK gap \in Gaps, d \in Durations :
        spent' = spent + gap + d /\ min_ns' = Min({min_ns, d})
  BY DEF Measure
<1>2. gap \in Nat /\ d \in Nat /\ count' = count + 1 /\ Fits(count, min_ns, spent)
  BY <1>1, Times DEF Measure, BestInv, TimingFits
<1>3. Fits(count', min_ns', spent')
  BY <1>1, <1>2, FitsOneMore
<1>4. CASE results' = results
  BY <1>3, <1>4 DEF BestInv, IsSequence, TimingFits
<1>5. CASE pc' = "next" /\ results' = Append(results, Timed(count', spent', min_ns'))
  <2> DEFINE r == Timed(count', spent', min_ns')
  <2>1. r.count = count' /\ r.elapsed = spent' /\ r.min = min_ns'
    BY DEF Timed
  <2> HIDE DEF r
  <2>2. PICK S : results \in Seq(S)
    BY DEF BestInv, IsSequence
  <2>3. results \in Seq(S \cup {r})
    BY <2>2
  <2>4. /\ results' \in Seq(S \cup {r}) /\ Len(results') = Len(results) + 1
        /\ results'[Len(results) + 1] = r /\ Len(results) \in Nat
        /\ \A i \in 1..Len(results) : results'[i] = results[i]
    BY <1>5, <2>3 DEF r
  <2>5. ASSUME NEW i \in 1..Len(results')
        PROVE  Fits(results'[i].count, results'[i].min, results'[i].elapsed)
    <3>1. CASE i \in 1..Len(results)
      BY <2>4, <3>1 DEF BestInv, TimingFits
    <3>2. CASE i = Len(results) + 1
      BY <1>3, <2>1, <2>4, <3>2
    <3>3. QED
      BY <2>4, <3>1, <3>2
  <2>6. IsSequence'
    BY <2>4 DEF IsSequence
  <2>7. QED
    BY <1>5, <2>5, <2>6 DEF BestInv, TimingFits
<1>6. QED
  BY <1>4, <1>5 DEF Measure

\* The ranking only permutes.
LEMMA ReportKeepsBest ==
  ASSUME BestInv, Report
  PROVE  BestInv'
<1> DEFINE n == Cardinality(ToSet(results))
           S == ToSet(results)
<1>1. results' \in [1..n -> S]
  BY DEF Report, SetToSeqs
<1>2. n \in Nat
  <2>1. PICK T : results \in Seq(T)
    BY DEF BestInv, IsSequence
  <2>2. Len(results) \in Nat /\ DOMAIN results = 1..Len(results)
    BY <2>1
  <2> DEFINE D == 1..Len(results)
             f == [i \in D |-> results[i]]
  <2>3. IsFiniteSet(D)
    BY <2>2, FS_Interval
  <2>4. S = {results[i] : i \in D}
    BY <2>2 DEF ToSet
  <2> HIDE DEF D, S
  <2>5. f \in Surjection(D, S)
    BY <2>4 DEF Surjection
  <2>6. IsFiniteSet(S)
    BY <2>3, <2>5, FS_Surjection
  <2>7. QED
    BY <2>6, FS_CardinalityType DEF S
<1>3. \A r \in S : Fits(r.count, r.min, r.elapsed)
  BY DEF BestInv, IsSequence, TimingFits, ToSet
<1> HIDE DEF n, S
<1>4. results' \in Seq(S) /\ Len(results') = n /\ \A i \in 1..n : results'[i] \in S
  BY <1>1, <1>2
<1>5. pc' = "exit"
  BY DEF Report, Exits
<1>6. QED
  BY <1>3, <1>4, <1>5 DEF BestInv, IsSequence, TimingFits

LEMMA BestKeeps == BestInv /\ [Next]_vars => BestInv'
<1> SUFFICES ASSUME BestInv, [Next]_vars PROVE BestInv'
  OBVIOUS
<1>1. CASE StartMeasure
  <2>1. Fits(0, Max(Durations), 0)
    BY LongestIsTime DEF Fits
  <2>2. QED
    BY <1>1, <2>1 DEF StartMeasure, BestInv, IsSequence, TimingFits
<1>2. CASE Measure
  BY <1>2, MeasureKeepsBest
<1>3. CASE Report
  BY <1>3, ReportKeepsBest
<1>4. CASE UNCHANGED vars
  BY <1>4 DEF vars, timing, BestInv, IsSequence, TimingFits
<1>5. CASE pc' # "measure" /\ results' = results
  BY <1>5 DEF BestInv, IsSequence, TimingFits
<1>6. QED
  BY <1>1, <1>2, <1>3, <1>4, <1>5
  DEF Next, RefuseArgs, CannotOpenDir, CollectSpecs, CollectLangs, CannotListLangs, ResolveImpl,
      NothingToRun, SortImpls, StartWarmup, BurnIn, SettleLow, SettleOn, SettleCheck, Sample,
      RunOnce, Exits, timing

\* The mean rate that is printed is never above the rate of the best run, for
\* whatever running times (bench.c:192-210).
THEOREM MeanBounded == Spec => []MeanBelowBest
<1>1. BestInv => MeanBelowBest
  BY DEF BestInv, TimingFits, Fits, MeanBelowBest
<1>2. QED
  BY <1>1, InitBest, BestKeeps, PTL DEF Spec

-----------------------------------------------------------------------------
(* The end of a warm-up. *)

\* The CV at the checkpoint before.
Before(cs, k) == IF k = 1 THEN Unknown ELSE cs[k - 1]

FlatAt(cs, k) == Before(cs, k) - cs[k] < CV_SLOPE_THRESH

\* The streak counts the flat checkpoints since the last that was not.
Streak(cs, prev, n) ==
  /\ cs \in Seq(Nat) /\ n \in 0..Len(cs)
  /\ prev = Before(cs, Len(cs) + 1)
  /\ \A k \in (Len(cs) - n + 1)..Len(cs) : FlatAt(cs, k)
  /\ n < Len(cs) => ~FlatAt(cs, Len(cs) - n)

WarmInv ==
  /\ total \in Nat /\ spent \in Nat /\ cv \in Nat
  /\ Streak(checks, prev_cv, slope_streak)
  /\ pc = "burn_in" => cv = Unknown /\ slope_streak = 0
  /\ pc = "warm" => Low \/ slope_streak >= WARMUP_SLOPE_STR \/ Capped
  /\ pc = "settle" => ~Low /\ slope_streak < WARMUP_SLOPE_STR /\ ~Capped

\* A long streak is a flat stretch, and a flat stretch has been a long streak.
LEMMA StreakIsFlat ==
  ASSUME Streak(checks, prev_cv, slope_streak)
  PROVE  Flat <=> slope_streak >= WARMUP_SLOPE_STR
<1> DEFINE m == Len(checks)
<1>1. m \in Nat /\ slope_streak \in 0..m /\ WARMUP_SLOPE_STR \in Nat \ {0}
  BY Times DEF Streak
<1>2. Flat <=> m >= WARMUP_SLOPE_STR /\ \A k \in (m - WARMUP_SLOPE_STR + 1)..m : FlatAt(checks, k)
  BY DEF Flat, FlatAt, Before
<1>3. /\ \A k \in (m - slope_streak + 1)..m : FlatAt(checks, k)
      /\ slope_streak < m => ~FlatAt(checks, m - slope_streak)
  BY DEF Streak
<1> HIDE DEF m
<1>4. CASE slope_streak >= WARMUP_SLOPE_STR
  BY <1>1, <1>2, <1>3, <1>4
<1>5. CASE slope_streak < WARMUP_SLOPE_STR
  <2>1. ASSUME m >= WARMUP_SLOPE_STR PROVE m - slope_streak \in (m - WARMUP_SLOPE_STR + 1)..m
    BY <1>1, <1>5, <2>1
  <2>2. QED
    BY <1>1, <1>2, <1>3, <1>5, <2>1
<1>6. QED
  BY <1>1, <1>4, <1>5

\* A checkpoint adds to it or ends it.
LEMMA StreakMoves ==
  ASSUME NEW cs, NEW prev, NEW n, Streak(cs, prev, n), NEW c \in Nat
  PROVE  Streak(Append(cs, c), c, IF prev - c < CV_SLOPE_THRESH THEN n + 1 ELSE 0)
<1> DEFINE m == Len(cs)
           ds == Append(cs, c)
<1>1. m \in Nat /\ n \in 0..m /\ cs \in Seq(Nat) /\ prev = Before(cs, m + 1)
  BY DEF Streak
<1>2. /\ ds \in Seq(Nat) /\ Len(ds) = m + 1 /\ ds[m + 1] = c
      /\ \A k \in 1..m : ds[k] = cs[k]
  BY <1>1
<1>3. \A k \in (m - n + 1)..m : FlatAt(cs, k)
  BY DEF Streak
<1>4. n < m => ~FlatAt(cs, m - n)
  BY DEF Streak
<1> HIDE DEF m, ds
<1>5. \A k \in 1..(m + 1) : Before(ds, k) = Before(cs, k)
  BY <1>1, <1>2 DEF Before
<1>6. \A k \in 1..m : FlatAt(ds, k) <=> FlatAt(cs, k)
  BY <1>1, <1>2, <1>5 DEF FlatAt
<1>7. FlatAt(ds, m + 1) <=> prev - c < CV_SLOPE_THRESH
  BY <1>1, <1>2, <1>5 DEF FlatAt
<1>8. c = Before(ds, m + 2)
  BY <1>1, <1>2 DEF Before
<1>9. CASE prev - c < CV_SLOPE_THRESH
  <2>1. \A k \in (m - n + 1)..(m + 1) : FlatAt(ds, k)
    BY <1>1, <1>3, <1>6, <1>7, <1>9
  <2>2. n < m => ~FlatAt(ds, m - n)
    BY <1>1, <1>4, <1>6
  <2>3. QED
    BY <1>1, <1>2, <1>8, <1>9, <2>1, <2>2 DEF Streak, ds
<1>10. CASE ~(prev - c < CV_SLOPE_THRESH)
  BY <1>1, <1>2, <1>7, <1>8, <1>10 DEF Streak, ds
<1>11. QED
  BY <1>9, <1>10

LEMMA NoStreak == Streak(<< >>, Unknown, 0)
BY DEF Streak, Before

LEMMA RunTypes ==
  ASSUME WarmInv, RunOnce
  PROVE  total' \in Nat /\ spent' \in Nat
BY Times DEF WarmInv, RunOnce

LEMMA SampleTypes ==
  ASSUME WarmInv, Sample
  PROVE  total' \in Nat /\ spent' \in Nat /\ cv' \in Nat
<1>1. total' \in Nat /\ spent' \in Nat
  BY RunTypes DEF Sample
<1>2. cv' = Unknown \/ cv' \in Cvs
  <2>1. IF Samples' < 2 THEN cv' = Unknown ELSE cv' \in Cvs
    BY DEF Sample
  <2>2. QED
    BY <2>1
<1>3. Cvs \subseteq Nat /\ Unknown \in Nat
  BY Times DEF Unknown
<1>4. QED
  BY <1>1, <1>2, <1>3

LEMMA InitWarm == Init => WarmInv
BY NoStreak DEF Init, WarmInv, Unknown

LEMMA SettleKeeps ==
  ASSUME WarmInv, SettleLow \/ SettleOn \/ SettleCheck
  PROVE  WarmInv'
<1>1. Sample
  BY DEF SettleLow, SettleOn, SettleCheck
<1>2. total' \in Nat /\ spent' \in Nat /\ cv' \in Nat
  BY <1>1, SampleTypes
<1>3. pc = "settle" /\ slope_streak < WARMUP_SLOPE_STR /\ Streak(checks, prev_cv, slope_streak)
  BY <1>1 DEF WarmInv, Sample
<1>4. CASE SettleLow
  BY <1>2, <1>3, <1>4 DEF SettleLow, WarmInv
<1>5. CASE SettleOn
  BY <1>2, <1>3, <1>5 DEF SettleOn, WarmInv
<1>6. CASE SettleCheck
  <2>1. Streak(checks', prev_cv', slope_streak')
    BY <1>2, <1>3, <1>6, StreakMoves DEF SettleCheck
  <2>2. slope_streak' \in Nat
    BY <2>1 DEF Streak
  <2>3. QED
    BY <1>2, <1>6, <2>1, <2>2, Times DEF SettleCheck, WarmInv
<1>7. QED
  BY <1>4, <1>5, <1>6

LEMMA WarmKeeps == WarmInv /\ [Next]_vars => WarmInv'
<1> SUFFICES ASSUME WarmInv, [Next]_vars PROVE WarmInv'
  OBVIOUS
<1>1. CASE StartWarmup
  BY <1>1, NoStreak DEF StartWarmup, WarmInv, Unknown
<1>2. CASE BurnIn
  <2>1. total' \in Nat /\ spent' \in Nat
    BY <1>2, RunTypes DEF BurnIn
  <2>2. /\ cv = Unknown /\ cv' = cv /\ slope_streak = 0
        /\ UNCHANGED <<checks, prev_cv, slope_streak>> /\ Streak(checks, prev_cv, slope_streak)
    BY <1>2 DEF BurnIn, WarmInv
  <2>3. pc' = "settle" => ~Low' /\ ~Capped'
    <3>1. ASSUME total' = WARMUP_BURN_IN PROVE ~Low'
      BY <3>1, Times DEF Low, Samples
    <3>2. pc' = "settle" => total' = WARMUP_BURN_IN /\ ~Capped'
      BY <1>2 DEF BurnIn
    <3>3. QED
      BY <3>1, <3>2
  <2>4. pc' = "warm" => Capped'
    BY <1>2 DEF BurnIn
  <2>5. QED
    BY <1>2, <2>1, <2>2, <2>3, <2>4, Times DEF BurnIn, WarmInv, Unknown
<1>3. CASE SettleLow \/ SettleOn \/ SettleCheck
  BY <1>3, SettleKeeps
<1>4. CASE StartMeasure
  BY <1>4, NoStreak DEF StartMeasure, WarmInv, Unknown
<1>5. CASE Measure
  <2>1. spent' \in Nat
    BY <1>5, Times DEF Measure, WarmInv
  <2>2. QED
    BY <1>5, <2>1 DEF Measure, WarmInv, warmup
<1>6. CASE UNCHANGED <<warmup, timing>> /\ (pc' = pc \/ pc' \in {"exit", "list", "resolve", "next"})
  BY <1>6 DEF warmup, timing, WarmInv, Low, Capped, Samples
<1>7. QED
  BY <1>1, <1>2, <1>3, <1>4, <1>5, <1>6
  DEF Next, vars, RefuseArgs, CannotOpenDir, CollectSpecs, CollectLangs, CannotListLangs,
      ResolveImpl, NothingToRun, SortImpls, Report, Exits

\* A warm-up ends exactly when its running time is steady, no longer becomes
\* steadier, or a limit is reached, for every setting of the limits
\* (bench.c:155-179).
THEOREM WarmupExact == Spec => []SteadyOrSpent
<1>1. ASSUME WarmInv PROVE SteadyOrSpent
  <2> DEFINE long == slope_streak >= WARMUP_SLOPE_STR
  <2>1. Flat <=> long
    BY <1>1, StreakIsFlat DEF WarmInv
  <2>2. slope_streak < WARMUP_SLOPE_STR => ~long
    BY <1>1, Times DEF WarmInv, Streak
  <2>3. /\ pc = "warm" => Low \/ long \/ Capped
        /\ pc = "settle" => ~Low /\ slope_streak < WARMUP_SLOPE_STR /\ ~Capped
    BY <1>1 DEF WarmInv
  <2> HIDE DEF long
  <2>4. QED
    BY <2>1, <2>2, <2>3 DEF SteadyOrSpent
<1>2. QED
  BY <1>1, InitWarm, WarmKeeps, PTL DEF Spec
-----------------------------------------------------------------------------
(* What is compared. *)

LEMMA FiniteCatalogue == IsFiniteSet(DOMAIN Entries)
<1> DEFINE n == Len(ByPath)
           f == [i \in 1..n |-> ByPath[i]]
<1>1. n \in Nat /\ IsFiniteSet(1..n)
  BY EachHasAPath, FS_Interval
<1>2. f \in Surjection(1..n, DOMAIN Entries)
  BY EachHasAPath DEF Surjection
<1>3. QED
  BY <1>1, <1>2, FS_Surjection

\* A finite set of languages is numbered by their preferences.
Bucket(b) == {l \in DOMAIN Entries : Entries[l].execution = b}

Place(b, l) == Cardinality({m \in Bucket(b) : Entries[m].preference <= Entries[l].preference})

LEMMA PlaceIsOnto ==
  ASSUME NEW b
  PROVE  /\ Cardinality(Bucket(b)) \in Nat
         /\ \A l \in Bucket(b) : Place(b, l) \in 1..Cardinality(Bucket(b))
         /\ \A l, m \in Bucket(b) : Place(b, l) = Place(b, m) => l = m
         /\ \A n \in 1..Cardinality(Bucket(b)) : \E l \in Bucket(b) : Place(b, l) = n
<1> DEFINE S == Bucket(b)
           N == Cardinality(S)
           Upto(l) == {m \in S : Entries[m].preference <= Entries[l].preference}
           f == [l \in S |-> Place(b, l)]
<1>1. IsFiniteSet(S) /\ N \in Nat
  <2>1. S \subseteq DOMAIN Entries
    BY DEF Bucket
  <2>2. IsFiniteSet(S)
    BY <2>1, FiniteCatalogue, FS_Subset
  <2>3. QED
    BY <2>2, FS_CardinalityType
<1>2. \A l \in S : Entries[l].preference \in Nat
  BY CatalogueOk DEF Bucket
<1>3. \A l, m \in S : l # m => Entries[l].preference # Entries[m].preference
  BY CatalogueOk DEF Bucket
<1> HIDE DEF S, N
<1>4. ASSUME NEW l \in S
      PROVE  IsFiniteSet(Upto(l)) /\ l \in Upto(l) /\ Cardinality(Upto(l)) \in 1..N
  <2>1. Upto(l) \subseteq S /\ l \in Upto(l)
    BY <1>2
  <2> HIDE DEF Upto
  <2>2. IsFiniteSet(Upto(l)) /\ Cardinality(Upto(l)) \in Nat /\ Cardinality(Upto(l)) <= N
    BY <1>1, <2>1, FS_Subset, FS_CardinalityType DEF N
  <2>3. Cardinality(Upto(l)) # 0
    BY <2>1, <2>2, FS_EmptySet
  <2>4. QED
    BY <1>1, <2>1, <2>2, <2>3
<1>5. ASSUME NEW l \in S, NEW m \in S, Entries[l].preference < Entries[m].preference
      PROVE  Cardinality(Upto(l)) # Cardinality(Upto(m))
  <2>1. Upto(l) \subseteq Upto(m) /\ m \in Upto(m) /\ m \notin Upto(l)
    <3>1. Entries[l].preference \in Nat /\ Entries[m].preference \in Nat
      BY <1>2
    <3>2. \A k \in S : Entries[k].preference <= Entries[l].preference => Entries[k].preference <= Entries[m].preference
      BY <1>2, <1>5, <3>1
    <3>3. m \notin Upto(l) /\ m \in Upto(m)
      BY <1>5, <3>1
    <3>4. QED
      BY <3>2, <3>3
  <2>2. IsFiniteSet(Upto(m))
    BY <1>4
  <2> HIDE DEF Upto
  <2>3. Upto(l) # Upto(m)
    BY <2>1
  <2>4. QED
    BY <2>1, <2>2, <2>3, FS_Subset
<1>6. \A l, m \in S : l # m => Cardinality(Upto(l)) # Cardinality(Upto(m))
  <2> SUFFICES ASSUME NEW l \in S, NEW m \in S, l # m PROVE Cardinality(Upto(l)) # Cardinality(Upto(m))
    OBVIOUS
  <2>1. Entries[l].preference < Entries[m].preference \/ Entries[m].preference < Entries[l].preference
    BY <1>2, <1>3
  <2> HIDE DEF Upto
  <2>2. QED
    BY <1>5, <2>1
<1>7. \A l \in S : Place(b, l) = Cardinality(Upto(l))
  BY DEF Place, S
<1> HIDE DEF Upto
<1>8. f \in Injection(S, 1..N)
  <2>1. f \in [S -> 1..N]
    BY <1>4, <1>7
  <2>2. \A l, m \in S : f[l] = f[m] => l = m
    BY <1>6, <1>7
  <2> HIDE DEF f
  <2>3. QED
    BY <2>1, <2>2 DEF Injection, IsInjective
<1>9. IsFiniteSet(1..N) /\ Cardinality(1..N) = N
  BY <1>1, FS_Interval
<1>10. f \in Surjection(S, 1..N)
  <2> HIDE DEF f
  <2>1. QED
    BY <1>8, <1>9, FS_Injection DEF N
<1>11. \A n \in 1..N : \E l \in S : Place(b, l) = n
  BY <1>10 DEF Surjection
<1>12. QED
  BY <1>1, <1>4, <1>6, <1>7, <1>11 DEF S, N

\* A list of lang names each language of its bucket once.
LEMMA ListedOnce ==
  ASSUME NEW b
  PROVE  /\ Listed(b) \in Seq(Bucket(b))
         /\ \A l \in Bucket(b) : \E n \in 1..Len(Listed(b)) : Listed(b)[n] = l
         /\ \A n, k \in 1..Len(Listed(b)) : Listed(b)[n] = Listed(b)[k] => n = k
<1> DEFINE N == Cardinality(Bucket(b))
           At(n) == CHOOSE l \in Bucket(b) : Place(b, l) = n
<1>1. N \in Nat /\ Listed(b) = [n \in 1..N |-> At(n)]
  <2>1. Listed(b) = [n \in 1..N |-> At(n)]
    BY Zenon DEF Listed, Place, Bucket
  <2>2. QED
    BY <2>1, PlaceIsOnto
<1>2. \A n \in 1..N : At(n) \in Bucket(b) /\ Place(b, At(n)) = n
  <2> SUFFICES ASSUME NEW n \in 1..N PROVE At(n) \in Bucket(b) /\ Place(b, At(n)) = n
    OBVIOUS
  <2>1. \E l \in Bucket(b) : Place(b, l) = n
    BY PlaceIsOnto
  <2>2. QED
    BY <2>1
<1> HIDE DEF At, N
<1>3. Listed(b) \in Seq(Bucket(b)) /\ Len(Listed(b)) = N /\ \A n \in 1..N : Listed(b)[n] = At(n)
  BY <1>1, <1>2
<1>4. \A l \in Bucket(b) : Place(b, l) \in 1..N /\ At(Place(b, l)) = l
  <2> SUFFICES ASSUME NEW l \in Bucket(b) PROVE Place(b, l) \in 1..N /\ At(Place(b, l)) = l
    OBVIOUS
  <2>1. Place(b, l) \in 1..N
    BY PlaceIsOnto DEF N
  <2>2. QED
    BY <1>2, <2>1, PlaceIsOnto
<1>5. QED
  BY <1>2, <1>3, <1>4
\* All that lang names, in the order it names them.
Named == Listed("built") \o Listed("scripted")

LEMMA NamedOnce ==
  /\ Named \in Seq(DOMAIN Entries)
  /\ \A l \in DOMAIN Entries : \E n \in 1..Len(Named) : Named[n] = l
  /\ \A n, k \in 1..Len(Named) : Named[n] = Named[k] => n = k
<1> DEFINE a == Listed("built")
           b == Listed("scripted")
<1>1. /\ a \in Seq(Bucket("built")) /\ b \in Seq(Bucket("scripted"))
      /\ \A l \in Bucket("built") : \E n \in 1..Len(a) : a[n] = l
      /\ \A l \in Bucket("scripted") : \E n \in 1..Len(b) : b[n] = l
      /\ \A n, k \in 1..Len(a) : a[n] = a[k] => n = k
      /\ \A n, k \in 1..Len(b) : b[n] = b[k] => n = k
  BY ListedOnce
<1>2. \A l \in DOMAIN Entries : l \in Bucket("built") \/ l \in Bucket("scripted")
  BY CatalogueOk DEF Bucket
<1>3. Bucket("built") \cap Bucket("scripted") = {} /\ \A s : Bucket(s) \subseteq DOMAIN Entries
  BY DEF Bucket
<1> HIDE DEF a, b
<1>4. a \in Seq(DOMAIN Entries) /\ b \in Seq(DOMAIN Entries)
  BY <1>1, <1>3
<1> DEFINE c == a \o b
<1>5. /\ c \in Seq(DOMAIN Entries) /\ Len(c) = Len(a) + Len(b)
      /\ \A n \in 1..Len(c) : c[n] = IF n <= Len(a) THEN a[n] ELSE b[n - Len(a)]
  BY <1>4, ConcatProperties
<1>6. Len(a) \in Nat /\ Len(b) \in Nat /\ \A n \in 1..Len(a) : a[n] \in Bucket("built")
  BY <1>1
<1>7. \A n \in 1..Len(b) : b[n] \in Bucket("scripted")
  BY <1>1
<1> HIDE DEF c
<1>8. ASSUME NEW l \in DOMAIN Entries PROVE \E n \in 1..Len(c) : c[n] = l
  <2>1. CASE l \in Bucket("built")
    <3>1. PICK n \in 1..Len(a) : a[n] = l
      BY <1>1, <2>1
    <3>2. n \in 1..Len(c) /\ c[n] = l
      BY <1>5, <1>6, <3>1
    <3>3. QED
      BY <3>2
  <2>2. CASE l \in Bucket("scripted")
    <3>1. PICK n \in 1..Len(b) : b[n] = l
      BY <1>1, <2>2
    <3>2. Len(a) + n \in 1..Len(c) /\ ~(Len(a) + n <= Len(a)) /\ (Len(a) + n) - Len(a) = n
      BY <1>5, <1>6, <3>1
    <3>3. c[Len(a) + n] = l
      BY <1>5, <3>1, <3>2
    <3>4. QED
      BY <3>2, <3>3
  <2>3. QED
    BY <1>2, <2>1, <2>2
<1>9. ASSUME NEW n \in 1..Len(c), NEW k \in 1..Len(c), c[n] = c[k] PROVE n = k
  <2>1. ASSUME NEW m \in 1..Len(c)
        PROVE  IF m <= Len(a) THEN m \in 1..Len(a) /\ c[m] = a[m] /\ c[m] \in Bucket("built")
               ELSE m - Len(a) \in 1..Len(b) /\ c[m] = b[m - Len(a)] /\ c[m] \in Bucket("scripted")
    <3>1. m <= Len(a) => m \in 1..Len(a)
      BY <1>6
    <3>2. ~(m <= Len(a)) => m - Len(a) \in 1..Len(b)
      BY <1>5, <1>6
    <3>3. QED
      BY <1>5, <1>6, <1>7, <3>1, <3>2
  <2>2. (n <= Len(a)) <=> (k <= Len(a))
    BY <1>3, <1>9, <2>1
  <2>3. CASE n <= Len(a)
    BY <1>1, <1>9, <2>1, <2>2, <2>3
  <2>4. CASE ~(n <= Len(a))
    <3> DEFINE x == n - Len(a)
               y == k - Len(a)
    <3>1. x \in 1..Len(b) /\ y \in 1..Len(b) /\ b[x] = b[y]
      BY <1>9, <2>1, <2>2, <2>4
    <3> HIDE DEF x, y
    <3>2. x = y
      BY <1>1, <3>1
    <3>3. QED
      BY <1>6, <3>2 DEF x, y
  <2>5. QED
    BY <2>3, <2>4
<1>10. Named = c
  BY DEF Named, a, b, c
<1>11. QED
  BY <1>5, <1>8, <1>9, <1>10

Found == {l \in DOMAIN Entries : Available(host, l)}

\* ls is made of the languages of S, each once.
EachOnce(ls, S) ==
  /\ ls \in Seq(S)
  /\ \A l \in S : \E i \in 1..Len(ls) : ls[i] = l
  /\ \A i, j \in 1..Len(ls) : ls[i] = ls[j] => i = j

\* p of the names were resolved.
ResolvedTo(p) ==
  /\ langs = SubSeq(Named, p + 1, Len(Named))
  /\ EachOnce(impls, {Named[k] : k \in {k \in 1..p : Available(host, Named[k])}})

Running == {"next", "burn_in", "settle", "warm", "measure"}

CompareInv ==
  /\ pc \in {"start", "list", "resolve", "exit"} \cup Running
  /\ pc \in {"start", "list", "resolve"} => results = << >>
  /\ pc \in {"start", "list"} => impls = << >>
  /\ pc = "resolve" => \E p \in 0..Len(Named) : ResolvedTo(p)
  /\ pc \in Running =>
       /\ specs # << >> /\ EachOnce(impls, Found) /\ Len(results) <= Len(impls)
       /\ \A i \in 1..Len(results) : results[i].name = Path(impls[i])
       /\ pc # "next" => Len(results) < Len(impls)
  /\ ComparedAll

LEMMA ResolveCompares ==
  ASSUME CompareInv, ResolveImpl
  PROVE  CompareInv'
<1>1. pc = "resolve" /\ langs # << >> /\ langs' = Tail(langs) /\ UNCHANGED <<pc, host, results>>
  BY DEF ResolveImpl, inputs
<1>2. PICK p \in 0..Len(Named) : ResolvedTo(p)
  BY <1>1 DEF CompareInv
<1>3. Named \in Seq(DOMAIN Entries) /\ Len(Named) \in Nat
  BY NamedOnce
<1>4. p + 1 \in 1..Len(Named) /\ Len(Named) \in (p + 1)..Len(Named) /\ p \in Nat
  <2>1. langs = SubSeq(Named, p + 1, Len(Named))
    BY <1>2 DEF ResolvedTo
  <2>2. p < Len(Named)
    BY <1>1, <1>3, <2>1
  <2>3. QED
    BY <1>3, <2>2
<1>5. Head(langs) = Named[p + 1] /\ Tail(langs) = SubSeq(Named, (p + 1) + 1, Len(Named))
  BY <1>2, <1>3, <1>4, HeadTailOfSubSeq DEF ResolvedTo
<1> DEFINE n == Named[p + 1]
           S(q) == {Named[k] : k \in {k \in 1..q : Available(host, Named[k])}}
<1>6. S(p + 1) = IF Available(host, n) THEN S(p) \cup {n} ELSE S(p)
  <2>1. \A k : k \in 1..(p + 1) <=> k \in 1..p \/ k = p + 1
    BY <1>4
  <2>2. QED
    BY <2>1
<1>7. n \notin S(p)
  <2>1. \A k \in 1..p : k \in 1..Len(Named) /\ k # p + 1
    BY <1>4
  <2>2. QED
    BY <1>4, <2>1, NamedOnce
<1>8. S(p + 1)' = S(p + 1)
  BY <1>1
<1>9. EachOnce(impls, S(p)) /\ impls' = IF Available(host, n) THEN Append(impls, n) ELSE impls
  BY <1>2, <1>5 DEF ResolvedTo, ResolveImpl
<1> HIDE DEF n, S
<1>10. EachOnce(impls', S(p + 1))
  <2>1. CASE ~Available(host, n)
    BY <1>6, <1>9, <2>1
  <2>2. CASE Available(host, n)
    <3> DEFINE T == S(p) \cup {n}
    <3>1. impls \in Seq(S(p)) /\ Len(impls) \in Nat
      BY <1>9 DEF EachOnce
    <3>2. impls \in Seq(T) /\ n \in T
      BY <3>1
    <3>3. /\ impls' \in Seq(T) /\ Len(impls') = Len(impls) + 1
          /\ \A i \in 1..Len(impls) : impls'[i] = impls[i] /\ impls[i] \in S(p)
          /\ impls'[Len(impls) + 1] = n
      BY <1>9, <2>2, <3>1, <3>2, AppendProperties
    <3>4. \A i \in 1..Len(impls') : i \in 1..Len(impls) \/ i = Len(impls) + 1
      BY <3>1, <3>3
    <3>5. \A i \in 1..Len(impls) : i \in 1..Len(impls')
      BY <3>1, <3>3
    <3>6. Len(impls) + 1 \in 1..Len(impls')
      BY <3>1, <3>3
    <3>7. \A l \in T : \E i \in 1..Len(impls') : impls'[i] = l
      BY <1>9, <3>3, <3>5, <3>6 DEF EachOnce
    <3>8. \A i, j \in 1..Len(impls') : impls'[i] = impls'[j] => i = j
      <4> SUFFICES ASSUME NEW i \in 1..Len(impls'), NEW j \in 1..Len(impls'),
                          impls'[i] = impls'[j]
                   PROVE  i = j
        OBVIOUS
      <4>1. \A k \in 1..Len(impls) : impls'[k] # n
        BY <1>7, <3>3
      <4>2. CASE i \in 1..Len(impls) /\ j \in 1..Len(impls)
        <5>1. impls[i] = impls[j]
          BY <3>3, <4>2
        <5>2. QED
          BY <1>9, <4>2, <5>1 DEF EachOnce
      <4>3. CASE i = Len(impls) + 1 \/ j = Len(impls) + 1
        BY <3>3, <3>4, <4>1, <4>3
      <4>4. QED
        BY <3>4, <4>2, <4>3
    <3>9. QED
      BY <1>6, <2>2, <3>3, <3>7, <3>8 DEF EachOnce
  <2>3. QED
    BY <2>1, <2>2
<1>11. ResolvedTo(p + 1)'
  BY <1>1, <1>5, <1>8, <1>10 DEF ResolvedTo, S
<1>12. p + 1 \in 0..Len(Named)
  BY <1>4
<1>13. QED
  <2>1. pc' = "resolve" /\ results' = results /\ results = << >>
    BY <1>1 DEF CompareInv
  <2>2. \E q \in 0..Len(Named) : ResolvedTo(q)'
    BY <1>11, <1>12
  <2> HIDE DEF ResolvedTo
  <2>3. QED
    BY <2>1, <2>2 DEF CompareInv, Running, ComparedAll

\* A sequence without repetitions is as long as the set of its elements, and so
\* is every other one of that set.
LEMMA OnceLength ==
  ASSUME NEW S, NEW s, EachOnce(s, S)
  PROVE  IsFiniteSet(S) /\ Cardinality(S) = Len(s) /\ Len(s) \in Nat
<1> DEFINE D == 1..Len(s)
           f == [i \in D |-> s[i]]
<1>1. Len(s) \in Nat /\ \A i \in D : s[i] \in S
  BY DEF EachOnce
<1>2. IsFiniteSet(D) /\ Cardinality(D) = Len(s)
  <2>1. ASSUME NEW k \in Nat PROVE IsFiniteSet(1..k) /\ Cardinality(1..k) = k
    <3>1. /\ IsFiniteSet(1..k)
          /\ Cardinality(1..k) = IF 1 > k THEN 0 ELSE k - 1 + 1
      BY FS_Interval
    <3>2. QED
      BY <3>1
  <2>2. QED
    BY <1>1, <2>1
<1>3. \A l \in S : \E i \in D : s[i] = l
  BY DEF EachOnce
<1>4. \A i, j \in D : s[i] = s[j] => i = j
  BY DEF EachOnce
<1> HIDE DEF D
<1>5. f \in [D -> S]
  BY <1>1
<1>6. f \in Surjection(D, S)
  BY <1>3, <1>5 DEF Surjection
<1>7. (\A i, j \in D : f[i] = f[j] => i = j) /\ DOMAIN f = D
  BY <1>4
<1> HIDE DEF f
<1>8. f \in Injection(D, S)
  BY <1>5, <1>7 DEF Injection, IsInjective
<1>9. IsFiniteSet(S) /\ Cardinality(S) = Cardinality(D)
  BY <1>2, <1>6, <1>8, FS_Surjection
<1>10. QED
  BY <1>1, <1>2, <1>9

LEMMA Reordered ==
  ASSUME NEW S, NEW s, EachOnce(s, S), NEW t \in SetToSeqs(ToSet(s))
  PROVE  EachOnce(t, S) /\ Len(t) = Len(s)
<1> DEFINE n == Cardinality(S)
<1>1. IsFiniteSet(S) /\ n = Len(s) /\ n \in Nat
  BY OnceLength
<1>2. ToSet(s) = S
  <2>1. \A i \in 1..Len(s) : s[i] \in S
    BY DEF EachOnce
  <2>2. DOMAIN s = 1..Len(s)
    BY DEF EachOnce
  <2>3. \A l \in S : \E i \in 1..Len(s) : s[i] = l
    BY DEF EachOnce
  <2>4. QED
    BY <2>1, <2>2, <2>3 DEF ToSet
<1> HIDE DEF n
<1>3. t \in [1..n -> S] /\ \A i, j \in 1..n : i # j => t[i] # t[j]
  BY <1>2 DEF SetToSeqs, n
<1>4. t \in Injection(1..n, S)
  BY <1>3 DEF Injection, IsInjective
<1>5. IsFiniteSet(1..n) /\ Cardinality(1..n) = n
  <2>1. n \in Nat
    BY <1>1
  <2>2. QED
    BY <2>1, FS_Interval
<1>6. t \in Surjection(1..n, S)
  BY <1>1, <1>4, <1>5, FS_Injection DEF n
<1>7. \A l \in S : \E i \in 1..n : t[i] = l
  BY <1>6 DEF Surjection
<1>8. t \in Seq(S) /\ Len(t) = n
  BY <1>1, <1>3
<1>9. QED
  BY <1>1, <1>3, <1>7, <1>8 DEF EachOnce

LEMMA ListCompares ==
  ASSUME CompareInv, CollectLangs
  PROVE  CompareInv'
<1>1. pc = "list" /\ langs' = Named /\ pc' = "resolve" /\ UNCHANGED <<host, impls, results>>
  BY DEF CollectLangs, inputs, Named
<1>2. impls' = << >> /\ results' = << >>
  BY <1>1 DEF CompareInv
<1>3. Named \in Seq(DOMAIN Entries) /\ Len(Named) \in Nat
  BY NamedOnce
<1>4. langs' = SubSeq(Named, 0 + 1, Len(Named))
  BY <1>1, <1>3, SubSeqFull
<1>5. << >> \in Seq({}) /\ Len(<< >>) = 0
  OBVIOUS
<1>6. ResolvedTo(0)'
  BY <1>2, <1>4, <1>5 DEF ResolvedTo, EachOnce
<1>7. 0 \in 0..Len(Named)
  BY <1>3
<1>8. QED
  BY <1>1, <1>2, <1>6, <1>7 DEF CompareInv, Running, ComparedAll

LEMMA SortCompares ==
  ASSUME CompareInv, SortImpls
  PROVE  CompareInv'
<1>1. /\ pc = "resolve" /\ langs = << >> /\ specs # << >> /\ pc' = "next"
      /\ UNCHANGED <<host, specs, results>> /\ impls' \in SetToSeqs(ToSet(impls))
  BY DEF SortImpls, inputs
<1>2. PICK p \in 0..Len(Named) : ResolvedTo(p)
  BY <1>1 DEF CompareInv
<1>3. Named \in Seq(DOMAIN Entries) /\ Len(Named) \in Nat
  BY NamedOnce
<1>4. p = Len(Named)
  <2>1. SubSeq(Named, p + 1, Len(Named)) = << >>
    BY <1>1, <1>2 DEF ResolvedTo
  <2>2. Len(SubSeq(Named, p + 1, Len(Named))) = IF p + 1 <= Len(Named) THEN Len(Named) - (p + 1) + 1 ELSE 0
    BY <1>3
  <2>3. Len(SubSeq(Named, p + 1, Len(Named))) = 0
    <3>1. Len(<< >>) = 0
      OBVIOUS
    <3>2. QED
      BY <2>1, <3>1
  <2>4. QED
    BY <1>3, <2>2, <2>3
<1>5. {Named[k] : k \in {k \in 1..Len(Named) : Available(host, Named[k])}} = Found
  <2> DEFINE S == {k \in 1..Len(Named) : Available(host, Named[k])}
  <2>1. \A k \in S : Named[k] \in Found
    <3>1. \A k \in 1..Len(Named) : Named[k] \in DOMAIN Entries
      BY <1>3
    <3>2. QED
      BY <3>1 DEF Found
  <2>2. \A l \in Found : \E k \in S : Named[k] = l
    <3> SUFFICES ASSUME NEW l \in DOMAIN Entries, Available(host, l) PROVE \E k \in S : Named[k] = l
      BY DEF Found
    <3>1. PICK k \in 1..Len(Named) : Named[k] = l
      BY NamedOnce
    <3>2. k \in S
      BY <3>1
    <3>3. QED
      BY <3>1, <3>2
  <2> HIDE DEF S, Found
  <2>3. {Named[k] : k \in S} = Found
    BY <2>1, <2>2
  <2>4. QED
    BY <2>3 DEF S
<1>6. EachOnce(impls, Found)
  BY <1>2, <1>4, <1>5 DEF ResolvedTo
<1>7. EachOnce(impls', Found)
  BY <1>1, <1>6, Reordered
<1>8. Found' = Found
  BY <1>1 DEF Found
<1>9. results' = << >> /\ Len(<< >>) = 0
  BY <1>1 DEF CompareInv
<1>10. Len(impls') \in Nat
  BY <1>7 DEF EachOnce
<1>11. QED
  BY <1>1, <1>7, <1>8, <1>9, <1>10 DEF CompareInv, Running, ComparedAll
\* Results in the order of the implementations have names of their own.
LEMMA ReportCompares ==
  ASSUME CompareInv, BestInv, Report
  PROVE  CompareInv'
<1> DEFINE R == ToSet(results)
<1>1. /\ pc = "next" /\ Len(results) = Len(impls) /\ UNCHANGED <<host, specs>>
      /\ results' \in SetToSeqs(R) /\ Ranked(results') /\ pc' = "exit" /\ status' = 0
  BY DEF Report, Exits, inputs
<1>2. /\ specs # << >> /\ EachOnce(impls, Found)
      /\ \A i \in 1..Len(results) : results[i].name = Path(impls[i])
  BY <1>1 DEF CompareInv, Running
<1>3. Found' = Found
  BY <1>1 DEF Found
<1>4. Len(impls) = Cardinality(Found) /\ Len(impls) \in Nat
  BY <1>2, OnceLength
<1>5. \A l, m \in Found : Path(l) = Path(m) => l = m
  BY DEF Path
<1>6. \A i \in 1..Len(impls) : impls[i] \in Found
  BY <1>2 DEF EachOnce
<1>7. EachOnce(results, R)
  <2>1. PICK T : results \in Seq(T)
    BY DEF BestInv, IsSequence
  <2>2. DOMAIN results = 1..Len(results) /\ results \in Seq(R)
    BY <2>1 DEF ToSet
  <2>3. \A r \in R : \E i \in 1..Len(results) : results[i] = r
    BY <2>2 DEF ToSet
  <2>4. ASSUME NEW i \in 1..Len(results), NEW j \in 1..Len(results), results[i] = results[j] PROVE i = j
    <3>1. Path(impls[i]) = Path(impls[j])
      BY <1>2, <2>4
    <3>2. impls[i] = impls[j]
      BY <1>1, <1>5, <1>6, <3>1
    <3>3. QED
      BY <1>1, <1>2, <3>2 DEF EachOnce
  <2>5. QED
    BY <2>2, <2>3, <2>4 DEF EachOnce
<1>8. EachOnce(results', R) /\ Len(results') = Len(results)
  BY <1>1, <1>7, Reordered
<1>9. {results'[i].name : i \in 1..Len(results')} = {r.name : r \in R}
  <2>1. \A i \in 1..Len(results') : results'[i] \in R
    BY <1>8 DEF EachOnce
  <2>2. \A r \in R : \E i \in 1..Len(results') : results'[i] = r
    BY <1>8 DEF EachOnce
  <2> HIDE DEF R
  <2>3. QED
    BY <2>1, <2>2
<1>10. {r.name : r \in R} = {results[i].name : i \in 1..Len(results)}
  BY <1>7 DEF EachOnce
<1>11. {results[i].name : i \in 1..Len(results)} = {Path(l) : l \in Found}
  <2>1. \A i \in 1..Len(results) : results[i].name \in {Path(l) : l \in Found}
    BY <1>1, <1>2, <1>6
  <2>2. \A l \in Found : \E i \in 1..Len(results) : results[i].name = Path(l)
    BY <1>1, <1>2 DEF EachOnce
  <2>3. QED
    BY <2>1, <2>2
<1>12. \A r \in R : r.count \in Nat /\ r.elapsed \in Nat
  BY <1>7 DEF BestInv, TimingFits, Fits, EachOnce
<1>13. ASSUME NEW i \in 2..Len(results')
       PROVE  results'[i].count * results'[i - 1].elapsed <= results'[i - 1].count * results'[i].elapsed
  <2>1. Len(results') \in Nat
    BY <1>8 DEF EachOnce
  <2>2. i \in 1..Len(results') /\ i - 1 \in 1..Len(results') /\ i - 1 < i
    BY <2>1
  <2>3. ~Faster(results'[i], results'[i - 1])
    BY <1>1, <2>2 DEF Ranked
  <2>4. results'[i] \in R /\ results'[i - 1] \in R
    BY <1>8, <2>2 DEF EachOnce
  <2> DEFINE x == results'[i]
             y == results'[i - 1]
  <2>5. x.count \in Nat /\ x.elapsed \in Nat /\ y.count \in Nat /\ y.elapsed \in Nat
    BY <1>12, <2>4
  <2>6. ~(x.count * y.elapsed > y.count * x.elapsed)
    BY <2>3 DEF Faster
  <2> HIDE DEF x, y
  <2>7. x.count * y.elapsed <= y.count * x.elapsed
    <3>1. x.count * y.elapsed \in Int /\ y.count * x.elapsed \in Int
      BY <2>5
    <3>2. QED
      BY <2>6, <3>1
  <2>8. QED
    BY <2>7 DEF x, y
<1>14. ComparedAll'
  <2>1. specs' # << >>
    BY <1>1, <1>2
  <2>2. Len(results') = Cardinality(Found')
    BY <1>1, <1>3, <1>4, <1>8
  <2>3. {results'[i].name : i \in 1..Len(results')} = {Path(l) : l \in Found'}
    BY <1>3, <1>9, <1>10, <1>11
  <2>4. QED
    BY <1>13, <2>1, <2>2, <2>3 DEF ComparedAll, Found
<1>15. QED
  BY <1>1, <1>14 DEF CompareInv, Running

LEMMA MeasureCompares ==
  ASSUME CompareInv, BestInv, Measure
  PROVE  CompareInv'
<1>1. /\ pc = "measure" /\ UNCHANGED <<host, specs, impls, status>>
      /\ \/ UNCHANGED <<pc, results>>
         \/ pc' = "next" /\ \E runs, elapsed, best : results' = Append(results, Timed(runs, elapsed, best))
  BY DEF Measure, inputs
<1>2. /\ specs # << >> /\ EachOnce(impls, Found) /\ Len(results) < Len(impls)
      /\ \A i \in 1..Len(results) : results[i].name = Path(impls[i])
  BY <1>1 DEF CompareInv, Running
<1>3. EachOnce(impls, Found)'
  BY <1>1, <1>2 DEF EachOnce, Found
<1>4. CASE UNCHANGED <<pc, results>>
  BY <1>1, <1>2, <1>3, <1>4 DEF CompareInv, Running, ComparedAll
<1>5. ASSUME NEW runs, NEW elapsed, NEW best, pc' = "next",
             results' = Append(results, Timed(runs, elapsed, best))
      PROVE  CompareInv'
  <2> DEFINE r == Timed(runs, elapsed, best)
  <2>1. r.name = Path(impls[Len(results) + 1])
    BY DEF Timed, Name, Path
  <2> HIDE DEF r
  <2>2. PICK T : results \in Seq(T)
    BY DEF BestInv, IsSequence
  <2>3. results \in Seq(T \cup {r}) /\ r \in T \cup {r} /\ Len(results) \in Nat
    BY <2>2
  <2>4. /\ Len(results') = Len(results) + 1 /\ results'[Len(results) + 1] = r
        /\ \A i \in 1..Len(results) : results'[i] = results[i]
    BY <1>5, <2>3, AppendProperties DEF r
  <2>5. Len(impls) \in Nat
    BY <1>2 DEF EachOnce
  <2>6. Len(results') <= Len(impls)
    BY <1>2, <2>3, <2>4, <2>5
  <2>7. \A i \in 1..Len(results') : i \in 1..Len(results) \/ i = Len(results) + 1
    BY <2>3, <2>4
  <2>8. \A i \in 1..Len(results') : results'[i].name = Path(impls[i])
    BY <1>2, <2>1, <2>4, <2>7
  <2>9. QED
    BY <1>1, <1>2, <1>3, <1>5, <2>6, <2>8 DEF CompareInv, Running, ComparedAll
<1>6. QED
  BY <1>1, <1>4, <1>5

LEMMA InitCompares == Init => CompareInv
BY DEF Init, CompareInv, Running, ComparedAll

LEMMA CompareKeeps == CompareInv /\ BestInv /\ [Next]_vars => CompareInv'
<1> SUFFICES ASSUME CompareInv, BestInv, [Next]_vars PROVE CompareInv'
  OBVIOUS
<1>1. CASE RefuseArgs \/ CannotOpenDir \/ CannotListLangs \/ NothingToRun
  <2>1. pc' = "exit" /\ status' = 1
    BY <1>1 DEF RefuseArgs, CannotOpenDir, CannotListLangs, NothingToRun, Exits
  <2>2. QED
    BY <2>1 DEF CompareInv, Running, ComparedAll
<1>2. CASE CollectSpecs
  BY <1>2 DEF CollectSpecs, CompareInv, Running, ComparedAll
<1>3. CASE StartWarmup \/ BurnIn \/ SettleLow \/ SettleOn \/ SettleCheck \/ StartMeasure
  <2>1. /\ pc \in Running /\ pc' \in Running /\ UNCHANGED <<host, specs, impls, results>>
        /\ pc = "next" => Len(results) < Len(impls)
    BY <1>3 DEF StartWarmup, BurnIn, SettleLow, SettleOn, SettleCheck, Sample, RunOnce, StartMeasure,
                Running, inputs
  <2>2. Len(results) < Len(impls)
    BY <2>1 DEF CompareInv
  <2>3. EachOnce(impls, Found) => EachOnce(impls, Found)'
    BY <2>1 DEF EachOnce, Found
  <2>4. QED
    BY <2>1, <2>2, <2>3 DEF CompareInv, Running, ComparedAll
<1>4. CASE UNCHANGED vars
  <2>1. UNCHANGED <<pc, host, specs, langs, impls, results, status>>
    BY <1>4 DEF vars, inputs
  <2>2. /\ EachOnce(impls, Found) => EachOnce(impls, Found)'
        /\ \A p : ResolvedTo(p) => ResolvedTo(p)'
        /\ ComparedAll => ComparedAll'
    BY <2>1 DEF EachOnce, Found, ResolvedTo, ComparedAll
  <2>3. QED
    BY <2>1, <2>2 DEF CompareInv
<1>5. QED
  BY <1>1, <1>2, <1>3, <1>4, ListCompares, ResolveCompares, SortCompares, MeasureCompares, ReportCompares
  DEF Next

\* A report compares every implementation that lang finds, each once, fastest
\* first, on at least one file, whatever the catalogue and the machine
\* (bench.c:382-411).
THEOREM AllAreCompared == Spec => []ComparedAll
<1>1. Init => BestInv /\ CompareInv
  BY InitBest, InitCompares
<1>2. CompareInv => ComparedAll
  BY DEF CompareInv
<1>3. QED
  BY <1>1, <1>2, BestKeeps, CompareKeeps, PTL DEF Spec
=============================================================================
