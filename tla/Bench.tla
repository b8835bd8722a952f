------------------------------- MODULE Bench --------------------------------
(***************************************************************************)
(* src/src/c/bench.c: a run of the benchmark.  It collects files, asks     *)
(* lang for implementations, warms each of them up until its running time  *)
(* is steady, times it, and ranks them.                                    *)
(*                                                                         *)
(* Time is an integer that a run of an implementation always advances.     *)
(* The coefficient of variation that Welford's recurrence yields is an     *)
(* arbitrary member of Cvs, in per mille.  A file is its rank in strcmp's  *)
(* order; a language also stands for the path lang prints for it.          *)
(***************************************************************************)
EXTENDS Catalogue

CONSTANTS
  Hosts,           \* see Catalogue; host.fixtures[format] are the regular *.env files
                   \* accepted in a format, host.corpus has a set of files per entry
                   \* of corpus/files, or either is None
  ByPath,          \* the languages in the order of their paths
  Durations,       \* how long a run of an implementation may take
  Gaps,            \* how much time may pass between two runs
  Cvs,
  MAX_SPECS, MAX_CORPUS,
  WARMUP_BURN_IN, WARMUP_MIN_N, WARMUP_SAMPLE_N, WARMUP_SLOPE_STR,
  WARMUP_ITER_CAP, WARMUP_CAP, MEASURE,
  CV_SLOPE_THRESH, CV_THRESHOLD

ASSUME Times ==
  /\ Durations \subseteq Nat \ {0} /\ Gaps \subseteq Nat /\ Cvs \subseteq Nat
  /\ WARMUP_BURN_IN \in Nat \ {0} /\ WARMUP_MIN_N \in Nat \ {0} /\ WARMUP_SAMPLE_N \in Nat \ {0}
  /\ WARMUP_SLOPE_STR \in Nat \ {0} /\ WARMUP_ITER_CAP \in Nat /\ WARMUP_BURN_IN < WARMUP_ITER_CAP
  /\ WARMUP_CAP \in Nat \ {0} /\ MEASURE \in Nat \ {0}
  /\ CV_SLOPE_THRESH \in Int /\ CV_THRESHOLD \in Int

\* One of the running times is the longest.
ASSUME Bounded == \E d \in Durations : \A e \in Durations : e <= d

ASSUME EachHasAPath ==
  ByPath \in Seq(DOMAIN Entries) /\ {ByPath[i] : i \in 1..Len(ByPath)} = DOMAIN Entries

VARIABLES
  pc,        \* "start", "list", "resolve", "next", "burn_in", "settle", "warm", "measure", "exit"
  format, files, host,
  specs,     \* the files every implementation is run on, sorted
  langs,     \* the languages still to be resolved
  impls,     \* the implementations found, sorted by path once all are
  total,     \* warm-up runs of this implementation
  spent,     \* time since its warm-up, or its measurement, began
  cv,        \* of the warm-up samples so far
  prev_cv, slope_streak,
  checks,    \* history: the CV at each checkpoint of this warm-up
  count, min_ns,
  results, base, status

inputs == <<format, files, host>>
warmup == <<total, cv, prev_cv, slope_streak, checks>>
timing == <<spent, count, min_ns>>
vars == <<pc, inputs, specs, langs, impls, warmup, timing, results, base, status>>

\* welford_cv of less than two samples
Unknown == 1000

Init ==
  /\ pc = "start"
  /\ format \in {"shell", "native", "other"} /\ files \in {"fixtures", "corpus", "other"}
  /\ host \in Hosts
  /\ specs = <<>> /\ langs = <<>> /\ impls = <<>>
  /\ total = 0 /\ cv = Unknown /\ prev_cv = Unknown /\ slope_streak = 0 /\ checks = <<>>
  /\ spent = 0 /\ count = 0 /\ min_ns = 0
  /\ results = <<>> /\ base = None /\ status = -1

Exits(code) == pc' = "exit" /\ status' = code

-----------------------------------------------------------------------------
(* main, up to the first implementation. *)

BadArgs == format = "other" \/ files = "other"

RefuseArgs ==
  /\ pc = "start" /\ BadArgs
  /\ Exits(1)
  /\ UNCHANGED <<inputs, specs, langs, impls, warmup, timing, results, base>>

\* The files a directory walk may have stored when it stops at max of them:
\* any, but of at most one entry a part only.
Walks(entries, max) ==
  {taken \in SUBSET UNION entries :
     /\ Cardinality(taken) = Min({max, Cardinality(UNION entries)})
     /\ Cardinality({e \in entries : ~(e \subseteq taken) /\ e \cap taken # {}}) <= 1}

\* Every fixture is an entry of its own.
SpecSets ==
  IF files = "corpus" THEN IF host.corpus = None THEN {} ELSE Walks(host.corpus, MAX_CORPUS)
  ELSE IF host.fixtures[format] = None THEN {}
       ELSE Walks({{f} : f \in host.fixtures[format]}, MAX_SPECS)

CannotOpenDir ==
  /\ pc = "start" /\ ~BadArgs /\ SpecSets = {}
  /\ Exits(1)
  /\ UNCHANGED <<inputs, specs, langs, impls, warmup, timing, results, base>>

CollectSpecs ==
  /\ pc = "start" /\ ~BadArgs
  /\ \E taken \in SpecSets : specs' = SetToSortSeq(taken, <)
  /\ pc' = "list"
  /\ UNCHANGED <<inputs, langs, impls, warmup, timing, results, base, status>>

CollectLangs ==
  /\ pc = "list"
  /\ langs' = Listed("built") \o Listed("scripted")
  /\ pc' = "resolve"
  /\ UNCHANGED <<inputs, specs, impls, warmup, timing, results, base, status>>

\* popen or lang itself fails.
CannotListLangs ==
  /\ pc = "list"
  /\ Exits(1)
  /\ UNCHANGED <<inputs, specs, langs, impls, warmup, timing, results, base>>

\* Mutant of ResolveImpl: an unavailable language is not stepped over.
ResolveImplAgain ==
  /\ pc = "resolve" /\ langs # <<>>
  /\ Available(host, Head(langs))
  /\ langs' = Tail(langs) /\ impls' = Append(impls, Head(langs))
  /\ UNCHANGED <<pc, inputs, specs, warmup, timing, results, base, status>>

ResolveImpl ==
  /\ pc = "resolve" /\ langs # <<>>
  /\ langs' = Tail(langs)
  /\ impls' = IF Available(host, Head(langs)) THEN Append(impls, Head(langs)) ELSE impls
  /\ UNCHANGED <<pc, inputs, specs, warmup, timing, results, base, status>>

NothingToRun ==
  /\ pc = "resolve" /\ langs = <<>>
  /\ impls = <<>> \/ specs = <<>>
  /\ Exits(1)
  /\ UNCHANGED <<inputs, specs, langs, impls, warmup, timing, results, base>>

\* In the order of strcmp.
ByTheirPaths(ls) ==
  \E place \in [1..Len(ls) -> 1..Len(ByPath)] :
    /\ \A i \in 1..Len(ls) : ls[i] = ByPath[place[i]]
    /\ \A i, j \in 1..Len(ls) : i < j => place[i] < place[j]

SortImpls ==
  /\ pc = "resolve" /\ langs = <<>> /\ impls # <<>> /\ specs # <<>>
  /\ \E ls \in SetToSeqs(ToSet(impls)) : ByTheirPaths(ls) /\ impls' = ls
  /\ pc' = "next"
  /\ UNCHANGED <<inputs, specs, langs, warmup, timing, results, base, status>>

-----------------------------------------------------------------------------
(* warmup_phase *)

StartWarmup ==
  /\ pc = "next" /\ Len(results) < Len(impls)
  /\ pc' = "burn_in"
  /\ total' = 0 /\ spent' = 0
  /\ cv' = Unknown /\ prev_cv' = Unknown /\ slope_streak' = 0 /\ checks' = <<>>
  /\ UNCHANGED <<inputs, specs, langs, impls, count, min_ns, results, base, status>>

\* Mutant of RunOnce: both limits are counted from the beginning of the turn.
RunOnceAfresh ==
  /\ total' = WARMUP_BURN_IN
  /\ \E d \in Durations : spent' = d
  /\ UNCHANGED <<inputs, specs, langs, impls, count, min_ns, results, base, status>>

\* One run of the implementation; nothing but the time it takes is looked at.
RunOnce ==
  /\ total' = total + 1
  /\ \E d \in Durations : spent' = spent + d
  /\ UNCHANGED <<inputs, specs, langs, impls, count, min_ns, results, base, status>>

Capped == spent >= WARMUP_CAP \/ total >= WARMUP_ITER_CAP

BurnIn ==
  /\ pc = "burn_in"
  /\ RunOnce
  /\ pc' = IF Capped' THEN "warm" ELSE IF total' = WARMUP_BURN_IN THEN "settle" ELSE "burn_in"
  /\ UNCHANGED <<cv, prev_cv, slope_streak, checks>>

\* Samples taken: the burn-in is not among them.
Samples == total - WARMUP_BURN_IN

\* A turn of the stability loop.
Sample ==
  /\ pc = "settle"
  /\ RunOnce
  /\ IF Samples' < 2 THEN cv' = Unknown ELSE cv' \in Cvs

Low == Samples >= WARMUP_MIN_N /\ cv < CV_THRESHOLD

AtCheckpoint == Samples >= WARMUP_MIN_N /\ Samples % WARMUP_SAMPLE_N = 0

SettleLow ==
  /\ Sample /\ Low'
  /\ pc' = "warm"
  /\ UNCHANGED <<prev_cv, slope_streak, checks>>

SettleOn ==
  /\ Sample /\ ~Low' /\ ~AtCheckpoint'
  /\ pc' = IF Capped' THEN "warm" ELSE "settle"
  /\ UNCHANGED <<prev_cv, slope_streak, checks>>

\* Mutant of SettleCheck: an improvement does not end the streak.
SettleCheckStreak ==
  /\ Sample /\ ~Low' /\ AtCheckpoint'
  /\ slope_streak' = IF prev_cv - cv' < CV_SLOPE_THRESH THEN slope_streak + 1 ELSE slope_streak
  /\ prev_cv' = cv' /\ checks' = Append(checks, cv')
  /\ pc' = IF slope_streak' >= WARMUP_SLOPE_STR \/ Capped' THEN "warm" ELSE "settle"

SettleCheck ==
  /\ Sample /\ ~Low' /\ AtCheckpoint'
  /\ slope_streak' = IF prev_cv - cv' < CV_SLOPE_THRESH THEN slope_streak + 1 ELSE 0
  /\ prev_cv' = cv' /\ checks' = Append(checks, cv')
  /\ pc' = IF slope_streak' >= WARMUP_SLOPE_STR \/ Capped' THEN "warm" ELSE "settle"

-----------------------------------------------------------------------------
(* bench_one, after the warm-up. *)

\* Mutant of StartMeasure: the runs of the warm-up are counted.
StartMeasureCounted ==
  /\ pc = "warm"
  /\ pc' = "measure"
  /\ spent' = 0 /\ count' = total /\ min_ns' = Max(Durations)
  /\ UNCHANGED <<inputs, specs, langs, impls, results, base, status>>
  /\ total' = 0 /\ cv' = Unknown /\ prev_cv' = Unknown /\ slope_streak' = 0 /\ checks' = <<>>

\* What the warm-up found is printed and forgotten.  min_ns begins as more than
\* any run takes.
StartMeasure ==
  /\ pc = "warm"
  /\ pc' = "measure"
  /\ spent' = 0 /\ count' = 0 /\ min_ns' = Max(Durations)
  /\ total' = 0 /\ cv' = Unknown /\ prev_cv' = Unknown /\ slope_streak' = 0 /\ checks' = <<>>
  /\ UNCHANGED <<inputs, specs, langs, impls, results, base, status>>

\* lang prints absolute paths.
Path(l) == <<"REPO_DIR", "bin", l>>

\* The prefixes that would be taken off a name are relative to the repository.
Name(path) == IF Head(path) = "bin" THEN Tail(path) ELSE path

Timed(runs, elapsed, best) ==
  [name |-> Name(Path(impls[Len(results) + 1])), count |-> runs, elapsed |-> elapsed, min |-> best]

Measure ==
  /\ pc = "measure"
  /\ \E gap \in Gaps, d \in Durations :
       /\ spent' = spent + gap + d
       /\ min_ns' = Min({min_ns, d})
  /\ count' = count + 1
  /\ IF spent' >= MEASURE
     THEN pc' = "next" /\ results' = Append(results, Timed(count', spent', min_ns'))
     ELSE UNCHANGED <<pc, results>>
  /\ UNCHANGED <<inputs, specs, langs, impls, warmup, base, status>>

-----------------------------------------------------------------------------
(* The ranking. *)

\* ips_mean of a is greater than that of b.
Faster(a, b) == a.count * b.elapsed > b.count * a.elapsed

\* Mutant of Ranked: the slowest first.
RankedSlowest(rs) == \A i, j \in 1..Len(rs) : i < j => ~Faster(rs[i], rs[j])

\* qsort with cmp_result_desc
Ranked(rs) == \A i, j \in 1..Len(rs) : i < j => ~Faster(rs[j], rs[i])

\* The reference, else sh, else the fastest.
Baseline(rs) ==
  LET names == {rs[i].name : i \in 1..Len(rs)}
  IN IF <<"awk">> \in names THEN <<"awk">>
     ELSE IF <<"sh">> \in names THEN <<"sh">> ELSE rs[1].name

Report ==
  /\ pc = "next" /\ Len(results) = Len(impls)
  /\ \E rs \in SetToSeqs(ToSet(results)) : Ranked(rs) /\ results' = rs
  /\ base' = Baseline(results')
  /\ Exits(0)
  /\ UNCHANGED <<inputs, specs, langs, impls, warmup, timing>>

Next ==
  \/ RefuseArgs \/ CannotOpenDir \/ CollectSpecs
  \/ CollectLangs \/ CannotListLangs \/ ResolveImpl \/ NothingToRun \/ SortImpls
  \/ StartWarmup \/ BurnIn \/ SettleLow \/ SettleOn \/ SettleCheck
  \/ StartMeasure \/ Measure \/ Report

Spec == Init /\ [][Next]_vars /\ WF_vars(Next)

-----------------------------------------------------------------------------
(* Properties. *)

\* The benchmark ends, however the running times vary: neither the warm-up
\* (bench.c:155-179) nor the measurement (197-206) goes round for ever.
Terminates == <>(pc = "exit")

\* The last WARMUP_SLOPE_STR checkpoints each improved the CV by less than the
\* threshold on the one before.
Flat ==
  LET m == Len(checks)
  IN /\ m >= WARMUP_SLOPE_STR
     /\ \A k \in (m - WARMUP_SLOPE_STR + 1)..m :
          (IF k = 1 THEN Unknown ELSE checks[k - 1]) - checks[k] < CV_SLOPE_THRESH

\* The warm-up of an implementation ends exactly when its running time is
\* steady, no longer becomes steadier, or a limit is reached: no improvement
\* before a flat stretch, and none that was undone, counts (bench.c:1-13, 164-178).
SteadyOrSpent ==
  /\ pc = "warm" => Low \/ Flat \/ Capped
  /\ pc = "settle" => ~Low /\ ~Flat /\ ~Capped

\* The mean rate printed for an implementation is never above the rate of its
\* best run: both are of the same runs and the same time (bench.c:192-210).
MeanBelowBest == \A i \in 1..Len(results) : results[i].count * results[i].min <= results[i].elapsed

\* A report compares every implementation that lang finds, each once, fastest
\* first, on at least one file (bench.c:382-411).
ComparedAll ==
  pc = "exit" /\ status = 0 =>
    /\ specs # <<>>
    /\ Len(results) = Cardinality({l \in DOMAIN Entries : Available(host, l)})
    /\ {results[i].name : i \in 1..Len(results)} =
         {Path(l) : l \in {l \in DOMAIN Entries : Available(host, l)}}
    /\ \A i \in 2..Len(results) :
         results[i].count * results[i - 1].elapsed <= results[i - 1].count * results[i].elapsed
=============================================================================
