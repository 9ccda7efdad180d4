------------------------------ MODULE Analysis ------------------------------
(***************************************************************************)
(* The numbers experiments/analyze.py derives from a set R of the result   *)
(* files it loaded, and the conditions under which it raises instead.      *)
(* Times are whole milliseconds after t0 unless a name says otherwise; the *)
(* midpoints of brackets are kept in quarters, ratios as the two numbers   *)
(* they are made of, and the rounding for print is left out.               *)
(***************************************************************************)
EXTENDS Measurement

CONSTANTS
  OutageAttempts,   \* OUTAGE_ATTEMPTS, which sweep.sh sets
  DefaultAttempts,  \* DEFAULT_ATTEMPTS, REMINDER_MAX_ATTEMPTS of env.ts
  None

ASSUME AnalysisAssumption ==
  /\ OutageAttempts \in Nat \ {0} /\ DefaultAttempts \in Nat \ {0}
  /\ Window \in Nat \ {0}
  /\ None \notin Int /\ None \notin Int \X Int

VARIABLES
  runs,          \* what the loaded files say, by file
  outageRuns     \* the record of each outage run

Jittered == {"full_jitter", "equal_jitter", "decorrelated"}

\* Mutant: a run without an outage is put with the outages.
IsOutageWide(f) == runs[f].recover >= 0

IsOutage(f) == runs[f].recover > 0

\* The two groups of runs, and their cells.
Outages(R) == {f \in R : IsOutage(f)}
Steadies(R) == R \ Outages(R)
RunsOf(R, s) == {f \in Outages(R) : runs[f].strategy = s}
Cell(R, s, x) ==
  {f \in Steadies(R) : runs[f].strategy = s /\ runs[f].failure = x}
Rates(R) == {runs[f].failure : f \in Steadies(R)}
StrategiesAt(R, x) == {s \in Strategies : Cell(R, s, x) # {}}

Sent(R) == MapThenSumSet(LAMBDA f : runs[f].sent, R)
Reminders(R) == MapThenSumSet(LAMBDA f : runs[f].n, R)

\* The delivery latencies of a cell, pooled.
Latencies(R) ==
  [x \in UNION {{<<f, k>> : k \in DOMAIN runs[f].latencies} : f \in R} |->
     runs[x[1]].latencies[x[2]]]

\* NaN of an empty cell is None.
Latency(R, q) ==
  IF DOMAIN Latencies(R) = {} THEN None ELSE Percentile(Latencies(R), q)

\* One row of the summary: a steady cell or the outage runs of a strategy.
SummaryRow(R) ==
  [repeats |-> Cardinality(R), sent |-> Sent(R), of |-> Reminders(R),
   dead    |-> MapThenSumSet(LAMBDA f : runs[f].dead, R),
   failed  |-> MapThenSumSet(LAMBDA f : runs[f].retries, R),
   latency |-> [q \in {50, 95, 99} |-> Latency(R, q)]]

-----------------------------------------------------------------------------
(* Checks on the raw data.                                                 *)

Failures(f) == {i \in DOMAIN runs[f].log : ~runs[f].log[i].ok}
Successes(f) == {i \in DOMAIN runs[f].log : runs[f].log[i].ok}

\* Mutant: a reminder still in flight is taken for a dead one.
ChecksLenient(R) ==
  [retriesAreFailures |-> \A f \in R : runs[f].retries = Cardinality(Failures(f)),
   callsAreLogged     |-> \A f \in R : runs[f].calls = Len(runs[f].log),
   booksBalance       |-> \A f \in R : Len(runs[f].log) - runs[f].n
                            = runs[f].retries - (runs[f].n - runs[f].sent)]

Checks(R) ==
  [retriesAreFailures |-> \A f \in R : runs[f].retries = Cardinality(Failures(f)),
   callsAreLogged     |-> \A f \in R : runs[f].calls = Len(runs[f].log),
   booksBalance       |-> \A f \in R : Len(runs[f].log) - runs[f].n
                            = runs[f].retries - runs[f].dead]

BudgetAsserted(R) == \A f \in Outages(R) : runs[f].budget = OutageAttempts

\* Injection validity, per configured rate: the ratio of failed to all calls.
\* Without calls, or at a rate of 0 or 1, a division by zero raises.
InjectionAt(R, x) ==
  LET C == {f \in Steadies(R) : runs[f].failure = x} IN
  [runs   |-> Cardinality(C),
   calls  |-> MapThenSumSet(LAMBDA f : Len(runs[f].log), C),
   failed |-> MapThenSumSet(LAMBDA f : Cardinality(Failures(f)), C)]

InjectionRaises(R) ==
  \/ Rates(R) = {}
  \/ \E x \in Rates(R) : InjectionAt(R, x).calls = 0 \/ x \in {0, 100}

T0(f) == runs[f].log[1].t

\* min and max of the first attempts after the create burst, per group.
LeadRaises(R) ==
  Steadies(R) = {} \/ Outages(R) = {} \/ \E f \in R : runs[f].log = <<>>

-----------------------------------------------------------------------------
(* Per outage run.                                                         *)

Times(f, S) == {runs[f].log[i].t - T0(f) : i \in S}

FirstSuccess(f) == IF Successes(f) = {} THEN None ELSE Min(Times(f, Successes(f)))

EarlierFailures(f) == {t \in Times(f, Failures(f)) : t < FirstSuccess(f)}

LastFailure(f) == Max(EarlierFailures(f))

\* ts: the times of all attempts, in order.
AttemptTimes(f) == [i \in DOMAIN runs[f].log |-> runs[f].log[i].t - T0(f)]

\* Those before and from the first success; as they are in order, the one is a
\* prefix and the other the rest.
CallsBefore(f) == SearchLeft(AttemptTimes(f), FirstSuccess(f))
InOutage(f) ==
  IF FirstSuccess(f) = None THEN AttemptTimes(f) ELSE SubSeq(AttemptTimes(f), 1, CallsBefore(f))
InRecovery(f) == SubSeq(AttemptTimes(f), CallsBefore(f) + 1, Len(runs[f].log))

\* Which attempt of its reminder entry j of the log is.
AttemptNo(f, j) == Cardinality({i \in 1 .. j : runs[f].log[i].key = runs[f].log[j].key})

\* How many reminders succeeded at their i-th attempt.
SuccessIndex(f) ==
  [i \in 1 .. OutageAttempts |-> Cardinality({j \in Successes(f) : AttemptNo(f, j) = i})]

\* The record of an outage run; what it says of a recovery is None while the
\* first success is.
RunRecord(f) ==
  LET c == runs[f]
      recovered == FirstSuccess(f) # None
  IN  [delivered |-> c.sent, dead |-> c.dead, calls |-> Len(c.log),
       failed    |-> Cardinality(Failures(f)), retries |-> Len(c.log) - c.n,
       callsBefore |-> Len(InOutage(f)), peakBefore |-> SlidingPeak(InOutage(f)),
       bracket   |-> IF recovered THEN <<LastFailure(f), FirstSuccess(f)>> ELSE None,
       peak      |-> IF recovered THEN SlidingPeak(InRecovery(f)) ELSE None,
       index     |-> IF c.strategy = "exp" THEN SuccessIndex(f) ELSE None,
       spread    |-> IF c.strategy = "exp"
                       THEN <<FirstSuccess(f), Max(Times(f, Successes(f)))>> ELSE None]

\* min or max of nothing, or a division by no delivery.
RunRaises(f) ==
  \/ FirstSuccess(f) = None /\ runs[f].strategy = "exp"
  \/ FirstSuccess(f) # None /\ (EarlierFailures(f) = {} \/ runs[f].sent = 0)

\* The records of the runs that have one.
OutageRuns(R) ==
  [f \in {f \in Outages(R) : runs[f].log # <<>> /\ ~RunRaises(f)} |-> RunRecord(f)]

-----------------------------------------------------------------------------
(* The effective outage window W, from the brackets of the jittered runs.  *)

Bracketed(R) ==
  {f \in Outages(R) : runs[f].strategy \in Jittered /\ outageRuns[f].bracket # None}

\* Mutant: the window ends at the earliest of the first successes.
WHiEarliest(R) == Min({outageRuns[f].bracket[2] : f \in Bracketed(R)})

WLo(R) == Min({outageRuns[f].bracket[1] : f \in Bracketed(R)})
WHi(R) == Max({outageRuns[f].bracket[2] : f \in Bracketed(R)})

\* The median of the midpoints, in quarters.
WMid(R) ==
  Percentile([f \in Bracketed(R) |-> 2 * (outageRuns[f].bracket[1] + outageRuns[f].bracket[2])],
             50) \div 100

-----------------------------------------------------------------------------
(* The coverage model against the observed runs.                           *)

Sums == [s \in Strategies |-> McWaitSums(s, OutageAttempts)]
Trials == Cardinality(DOMAIN Sums["none"])

\* Trials predicted to survive at the ends and the middle of the window.
Predicted(R, s) ==
  [lo  |-> SurvivalCount(Sums[s], 4 * WLo(R)),
   mid |-> SurvivalCount(Sums[s], WMid(R)),
   hi  |-> SurvivalCount(Sums[s], 4 * WHi(R))]

\* x is at most twice the root of v.
WithinTwoRoots(x, v) == x <= 0 \/ x * x <= 4 * v

\* Mutant: the band is the prediction in the middle only.
AgreesAtMid(R, s) ==
  LET p == Predicted(R, s)
      n == Reminders(RunsOf(R, s))
  IN  Sent(RunsOf(R, s)) * Trials = p.mid * n

\* The pooled observed delivery lies in the predicted band, widened by two
\* binomial standard errors; all over Trials * n.
Agrees(R, s) ==
  LET p == Predicted(R, s)
      n == Reminders(RunsOf(R, s))
      observed == Sent(RunsOf(R, s)) * Trials
      v == n * p.mid * (Trials - p.mid)
  IN  /\ WithinTwoRoots(observed - GreaterOf(p.lo, p.hi) * n, v)
      /\ WithinTwoRoots(LesserOf(p.lo, p.hi) * n - observed, v)

\* The reach of equal jitter for a budget of attempts: from the floors and from
\* the trials.
EqualJitterReach(budget) ==
  LET S == McWaitSums("equal_jitter", budget)
      sums == {S[d] : d \in DOMAIN S}
  IN  [floor |-> FloorSum[budget - 1], most |-> ExpSum[budget - 1] - (budget - 1),
       least |-> Min(sums), greatest |-> Max(sums)]

\* When each attempt of the exponential schedule is made.
ExpSchedule == [i \in 1 .. OutageAttempts |-> ExpSum[i - 1]]

\* Predicted survival over a grid of windows.
SurvivalGrid(s, grid) == [w \in grid |-> SurvivalCount(Sums[s], 4 * w)]

\* The exponential wave: attempts that succeeded over all runs, and how long
\* after the recovery the first success came, at least and at most.
ExpWave(R) ==
  LET X == RunsOf(R, "exp") IN
  [index |-> [i \in 1 .. OutageAttempts |->
                MapThenSumSet(LAMBDA f : outageRuns[f].index[i], X)],
   delay |-> <<Min({outageRuns[f].spread[1] : f \in X}) - WHi(R),
               Max({outageRuns[f].spread[1] : f \in X}) - WLo(R)>>]

\* Recovery load by strategy; the means are sums and numbers of runs.
Recovered(R, s) == {f \in RunsOf(R, s) : outageRuns[f].peak # None}

Load(R, s) ==
  [before |-> MapThenSumSet(LAMBDA f : outageRuns[f].callsBefore, RunsOf(R, s)),
   peakBefore |-> MapThenSumSet(LAMBDA f : outageRuns[f].peakBefore, RunsOf(R, s)),
   peak   |-> MapThenSumSet(LAMBDA f : outageRuns[f].peak, Recovered(R, s)),
   runs   |-> Cardinality(RunsOf(R, s)), recovered |-> Cardinality(Recovered(R, s))]

\* The headline compares two strategies that both need a recovery.
HeadlineRaises(R) ==
  /\ RunsOf(R, "equal_jitter") # {} /\ RunsOf(R, "exp") # {}
  /\ Recovered(R, "equal_jitter") = {} \/ Recovered(R, "exp") = {}

-----------------------------------------------------------------------------
(* Steady state.                                                           *)

\* Each run's calls per delivered reminder.
Cost(C) == {<<runs[f].calls, GreaterOf(1, runs[f].sent)>> : f \in C}

SteadyRow(R, x) ==
  LET Ms(s, q) == Latency(Cell(R, s, x), q)
      C == UNION {Cell(R, s, x) : s \in Strategies}
  IN  [cost    |-> [s \in StrategiesAt(R, x) |-> Cost(Cell(R, s, x))],
       range   |-> <<Min({runs[f].sent : f \in C}), Max({runs[f].sent : f \in C})>>,
       pooled  |-> <<Sent(C), Reminders(C)>>,
       latency |-> [s \in StrategiesAt(R, x) |-> [q \in {50, 95, 99} |-> Ms(s, q)]],
       \* sorted() is stable and none comes first, so ties rank it lowest
       rank    |-> [q \in {50, 95, 99} |->
                      1 + Cardinality({s \in StrategiesAt(R, x) : Ms(s, q) < Ms("none", q)})]]

\* A comparison with a strategy that is not there, or with a percentile of 0;
\* at a rate of one half also a percentile that is NaN.
SteadyRaises(R) ==
  \E x \in Rates(R) :
    \/ "none" \notin StrategiesAt(R, x)
    \/ /\ StrategiesAt(R, x) \cap {"exp", "decorrelated"} # {}
       /\ Latency(Cell(R, "none", x), 95) = 0
    \/ /\ x = 50
       /\ \E s \in {"exp", "full_jitter"} : Latency(Cell(R, s, x), 95) \in {None, 0}

\* What raises up to the records of the outage runs, and after them.
RecordsRaise(R) ==
  \/ ~BudgetAsserted(R) \/ InjectionRaises(R) \/ LeadRaises(R)
  \/ \E f \in Outages(R) : RunRaises(f)

DeriveRaises(R) == Bracketed(R) = {} \/ HeadlineRaises(R) \/ SteadyRaises(R)

-----------------------------------------------------------------------------
(* Figures.                                                                *)

\* The latency figure scales its axis by the least percentile above 0.
LatencyFigureRaises(R) ==
  \A x \in Rates(R) : \A s \in StrategiesAt(R, x) : Latency(Cell(R, s, x), 95) \in {None, 0}

\* The second after the first attempt in which entry i of the log is.
Bin(f, i) == (runs[f].log[i].t - T0(f)) \div Window

\* Mutant: arange without the + 1.
BinsShort(f) ==
  LET D == DOMAIN runs[f].log IN
  [b \in 0 .. Max({Bin(f, i) : i \in D}) - 1 |-> Cardinality({i \in D : Bin(f, i) = b})]

\* The herd figure: the attempts of a run in each second after its first.
Bins(f) ==
  LET D == DOMAIN runs[f].log IN
  [b \in 0 .. Max({Bin(f, i) : i \in D}) |-> Cardinality({i \in D : Bin(f, i) = b})]
=============================================================================
