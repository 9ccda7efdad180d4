---------------------------- MODULE Measurement -----------------------------
(***************************************************************************)
(* The counting functions of experiments/analyze.py over the provider's    *)
(* log, its percentiles, and its coverage model of the waits: a Monte      *)
(* Carlo over computeBackoff, whose trials here are every sequence of      *)
(* random numbers on the grid, each once.  Times are whole milliseconds.   *)
(***************************************************************************)
EXTENDS Waits, Sequences, FiniteSets, FiniteSetsExt

CONSTANT Window    \* one second, in units of the clock

\* Mutant: searchsorted with side="right".
SearchRight(s, x) == Cardinality({i \in DOMAIN s : s[i] <= x})

\* numpy.searchsorted(s, x, side="left"): how many entries are below x.
SearchLeft(s, x) == Cardinality({i \in DOMAIN s : s[i] < x})

\* The most attempts in a window that opens at an attempt: one search per entry
\* of the sorted times.
SlidingPeak(s) ==
  IF s = <<>> THEN 0 ELSE Max({SearchLeft(s, s[i] + Window) - (i - 1) : i \in DOMAIN s})

\* Waits that sum to w or more carry the last attempt to or past the recovery.
Survives(sum, w) == sum >= w

\* Attempts in the half-open window from t.
InWindow(s, t) == Cardinality({i \in DOMAIN s : t <= s[i] /\ s[i] < t + Window})

-----------------------------------------------------------------------------

\* The i-th smallest value of the samples x, a function.
Ranked(x, i) ==
  Min({x[a] : a \in {a \in DOMAIN x : Cardinality({b \in DOMAIN x : x[b] <= x[a]}) >= i}})

\* Mutant: the rank is taken among n and not n - 1 intervals.
PercentileWide(x, q) ==
  LET h == Cardinality(DOMAIN x) * q
      i == h \div 100 + 1
      j == LesserOf(i + 1, Cardinality(DOMAIN x))
  IN  100 * Ranked(x, LesserOf(i, j)) + (h % 100) * (Ranked(x, j) - Ranked(x, LesserOf(i, j)))

\* numpy.percentile, a hundredfold: linear between the two nearest ranks.
Percentile(x, q) ==
  LET h == (Cardinality(DOMAIN x) - 1) * q
      i == h \div 100 + 1
      j == LesserOf(i + 1, Cardinality(DOMAIN x))
  IN  100 * Ranked(x, i) + (h % 100) * (Ranked(x, j) - Ranked(x, i))

-----------------------------------------------------------------------------

\* The sum of the replica's waits of strategy s for one sequence of draws.
WaitSum(s, draws) ==
  LET after[n \in 0 .. Len(draws)] ==
        IF n = 0 THEN [sum |-> 0, prev |-> Base * Grid]
        ELSE LET before == after[n - 1] IN
             [sum  |-> before.sum + ReplicaWait(s, n, draws[n], before.prev),
              prev |-> ReplicaDraw(draws[n], before.prev)]
  IN  after[Len(draws)].sum

\* mc_wait_sums: the waits of a schedule with so many attempts, trial by trial.
McWaitSums(s, budget) ==
  [draws \in [1 .. budget - 1 -> 0 .. Grid - 1] |-> WaitSum(s, draws)]

\* Mutant: a job whose last attempt lands at the recovery is counted as lost.
OutliveCount(sums, w) ==
  Cardinality(DOMAIN sums) - SearchRight([d \in DOMAIN sums |-> 4 * sums[d]], w)

\* survival_pct as a count of trials; the window w is in quarters of a unit, so
\* that medians of midpoints are whole numbers.
SurvivalCount(sums, w) ==
  Cardinality(DOMAIN sums) - SearchLeft([d \in DOMAIN sums |-> 4 * sums[d]], w)

\* The least attempts whose waits reach w under equal jitter whatever is drawn.
NeedAttempts(w) ==
  1 + CHOOSE n \in 1 .. 99 : FloorSum[n] >= w /\ (n > 1 => FloorSum[n - 1] < w)
=============================================================================
