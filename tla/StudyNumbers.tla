----------------------------- MODULE StudyNumbers ---------------------------
(***************************************************************************)
(* What the numbers of the study mean: each is compared with how the runs  *)
(* came about, which Cohort.tla knows and the analysis does not.           *)
(***************************************************************************)
EXTENDS Study

\* The derived numbers were just written, from results that are the runs' own.
JustDerived == pc = "write" /\ stage = Len(Tables) /\ ~Mixed(loaded)

\* What was left of the outage at the run's first attempt.
OwnWindow(f) == runs[f].up - T0(f)

\* The script saw nothing left, and the handlers' writes came in order.
Settled(f) == runs[f].open = 0 /\ runs[f].orderly

\* The provider fails nothing but for the outage, as in the sweep's outage runs.
OnlyOutage(R) == \A f \in Outages(R) : runs[f].failure = 0

\* "recovery happened inside it": if the runs with an outage had no failures
\* besides it, the provider of every run with jitter recovers after the lower and
\* no later than the upper end of its bracket, hence of W; the midpoint lies
\* between the ends, and the stated range of the exponential wave's delay holds
\* the true delay of every run whose recovery is in W.
RecoveryInBracket ==
  JustDerived /\ OnlyOutage(loaded) =>
    LET R == loaded
        lo == WLo(R)
        hi == WHi(R)
        Inside(f) == lo < OwnWindow(f) /\ OwnWindow(f) <= hi
    IN  /\ \A f \in Bracketed(R) :
             /\ outageRuns[f].bracket[1] < OwnWindow(f)
             /\ OwnWindow(f) <= outageRuns[f].bracket[2]
             /\ Inside(f)
        /\ 4 * lo <= WMid(R) /\ WMid(R) <= 4 * hi
        /\ \A f \in RunsOf(R, "exp") : Inside(f) =>
             LET after == FirstSuccess(f) - OwnWindow(f) IN
             ExpWave(R).delay[1] <= after /\ after <= ExpWave(R).delay[2]

\* "a job survives iff the sum of its waits >= W": in a finished run whose recovery
\* is in W and ended the only failures, every reminder whose waits reach the upper
\* end was delivered and, if no attempt was late, none whose waits fall short of
\* the lower end; and the strategies without randomness agree with their prediction.
SurvivesByItsWaits ==
  JustDerived /\ OnlyOutage(loaded) =>
    LET R == loaded
        lo == WLo(R)
        hi == WHi(R)
        Compared(f) == Settled(f) /\ lo < OwnWindow(f) /\ OwnWindow(f) <= hi
    IN  /\ \A f \in Outages(R) : Compared(f) =>
             /\ SurvivalCount(runs[f].sums, 4 * hi) <= runs[f].sent
             /\ runs[f].prompt =>
                  runs[f].sent <= SurvivalCount(runs[f].sums, 4 * lo)
        /\ \A s \in {"none", "fixed", "exp"} :
             (\A f \in RunsOf(R, s) : Compared(f) /\ runs[f].prompt)
               => RunsOf(R, s) = {} \/ Agrees(R, s)

Longest == OutageAttempts * Cap

\* The search of need_attempts ends: so many waits reach every window looked at.
ASSUME SearchAssumption == \E n \in 1 .. 99 : Longest <= FloorSum[n]

SurvivalCurve == [s \in Strategies |-> SurvivalGrid(s, 0 .. Longest)]

\* The reach the report quotes is where the predicted survival leaves 100 %: every
\* trial survives a window exactly if it is within the guaranteed sum; survival
\* never grows with the window; equal jitter's trials begin at its floor and stay
\* below the exponential sum, for the outage's and the default budget; and the
\* budget said to cover a window is the least that does.
ReachIsSurvival ==
  sweep = 0 =>   \* it is about constants, so few states are enough
    /\ \A s \in Strategies, w \in 0 .. Longest :
         /\ SurvivalCurve[s][w] = Trials <=> w <= GuaranteedSum(s, OutageAttempts)
         /\ w > 0 => SurvivalCurve[s][w] <= SurvivalCurve[s][w - 1]
    /\ \A b \in {OutageAttempts, DefaultAttempts} :
         LET reach == EqualJitterReach(b) IN
         /\ reach.least = reach.floor /\ reach.floor = GuaranteedSum("equal_jitter", b)
         /\ reach.greatest <= reach.most
    /\ ExpSchedule[OutageAttempts] = GuaranteedSum("exp", OutageAttempts)
    /\ \A w \in 1 .. Longest :
         /\ w <= GuaranteedSum("equal_jitter", NeedAttempts(w))
         /\ NeedAttempts(w) > 2 => GuaranteedSum("equal_jitter", NeedAttempts(w) - 1) < w

Calls(f) == Len(runs[f].log)

\* The load of a run is counted three ways, which must agree: by sliding windows
\* before and from the first success, by the bins of the herd figure, and by the
\* attempt each reminder of the exponential wave succeeded at, which its schedule
\* and the recovery decide if no attempt was late and nothing else failed.
RunLoadAgrees(f) ==
  LET r == outageRuns[f]
      B == Bins(f)
      all == SlidingPeak(AttemptTimes(f))
  IN  /\ MapThenSumSet(LAMBDA b : B[b], DOMAIN B) = Calls(f)
      /\ \A b \in DOMAIN B : B[b] <= all
      /\ \E b \in DOMAIN B : all <= B[b] + (IF b + 1 \in DOMAIN B THEN B[b + 1] ELSE 0)
      /\ IF r.peak = None
           THEN r.callsBefore = Calls(f) /\ r.peakBefore = all
           ELSE /\ GreaterOf(r.peak, r.peakBefore) <= all /\ all <= r.peak + r.peakBefore
                /\ r.callsBefore + Len(InRecovery(f)) = Calls(f)
      /\ runs[f].strategy = "exp" =>
           /\ LET deliveries == MapThenSumSet(LAMBDA i : r.index[i], DOMAIN r.index) IN
                r.delivered <= deliveries /\ (Settled(f) => deliveries = r.delivered)
           /\ r.spread[2] - r.spread[1] < Window => r.peak >= r.delivered
           /\ runs[f].prompt /\ runs[f].failure = 0 =>
                \A i \in DOMAIN r.index : r.index[i] > 0 =>
                  /\ ExpSchedule[i] >= OwnWindow(f)
                  /\ i > 1 => ExpSchedule[i - 1] < OwnWindow(f)

\* The summary's row of a strategy, which is read from the database, and its load,
\* which is read from the provider's log: if the provider rejects only during the
\* outage, the rows count no more attempts than there were calls before the first
\* successes, and as many in settled runs, where "retries = calls - reminders =
\* failed - dead"; and nothing is SENT that the log does not know.
TablesAgree(s) ==
  LET X == RunsOf(loaded, s)
      row == SummaryRow(X)
      load == Load(loaded, s)
  IN  /\ (\A f \in X : runs[f].failure = 0) => row.failed <= load.before
      /\ load.recovered = 0 => row.sent = 0
      /\ (\A f \in X : Settled(f)) =>
           /\ load.before <= row.failed
           /\ row.sent + row.dead = row.of
           /\ MapThenSumSet(LAMBDA f : outageRuns[f].retries, X) = row.failed - row.dead

\* Every count of the load agrees with every other.
LoadCountsAgree ==
  JustDerived =>
    /\ \A f \in Outages(loaded) : RunLoadAgrees(f)
    /\ \A s \in Strategies : TablesAgree(s)

\* Every strategy at rate x has as many runs as none has, of finished runs with the
\* same settings and lateness, in which the same calls failed.
Alike(x) ==
  LET Of(s) == Cell(loaded, s, x) IN
  /\ \A s \in StrategiesAt(loaded, x) : Cardinality(Of(s)) = Cardinality(Of("none"))
  /\ \A f, g \in UNION {Of(s) : s \in Strategies} :
       /\ Settled(f) /\ runs[f].sent > 0
       /\ \A y \in {"budget", "dice", "late", "stagger"} : runs[f][y] = runs[g][y]

\* The percentiles of a cell are in order and lie between the samples whose ranks
\* enclose theirs; where the runs are alike but for the strategy, not waiting at all
\* has the lowest latencies; and the pooled deliveries are in the range of the runs'.
PercentilesRank ==
  JustDerived =>
    \A x \in Rates(loaded) :
      LET row == SteadyRow(loaded, x)
          C == UNION {Cell(loaded, s, x) : s \in Strategies}
      IN  /\ \A s \in StrategiesAt(loaded, x) :
               LET L == Latencies(Cell(loaded, s, x))
                   p == row.latency[s]
                   Below(v) == Cardinality({d \in DOMAIN L : 100 * L[d] <= v})
               IN  DOMAIN L # {} =>
                     /\ p[50] <= p[95] /\ p[95] <= p[99]
                     /\ \A q \in DOMAIN p :
                          LET h == (Cardinality(DOMAIN L) - 1) * q IN
                          /\ 100 * Below(p[q]) > h
                          /\ Below(p[q] - 1) * 100 <= h + 99
          /\ Alike(x) => \A q \in DOMAIN row.rank : row.rank[q] = 1
          /\ row.range[1] * Cardinality(C) <= row.pooled[1]
          /\ row.pooled[1] <= row.range[2] * Cardinality(C)

\* The checks on the raw data compare what was read from the database, from the
\* provider's counters and from its log at different times.  They pass on runs that
\* were settled by the first of these reads; and if the first and the last pass, no
\* reminder of any run had an attempt to come, which nothing else in the analysis
\* looks at: it does not read timed_out.
ChecksFindUnfinished ==
  pc = "write" /\ ~Mixed(loaded) =>
    LET c == Checks(loaded) IN
    /\ (\A f \in loaded : Settled(f)) =>
         c.retriesAreFailures /\ c.callsAreLogged /\ c.booksBalance
    /\ c.retriesAreFailures /\ c.booksBalance => \A f \in loaded : runs[f].inflight = 0

\* The sweep's own runs are analysed to the end: with env.ts as it was, every
\* strategy the comparisons name at every rate, the recovery after the first
\* attempts and within the reach of exponential, equal jitter and some run with
\* jitter, and something delivered in every steady run, no stage raises.
CompleteSweepIsAnalysed ==
  LET R == loaded
      S == {f \in R : runs[f].up = 0}
      O == {f \in R : runs[f].up > 0}
      Delivered(f) == runs[f].sent > 0
  IN  /\ pc \in {"records", "write"} /\ ~Mixed(R)
      /\ S # {} /\ \E f \in O : runs[f].strategy = "equal_jitter" /\ Delivered(f)
      /\ \A f \in S : Delivered(f) /\ runs[f].failure \in {10, 30, 50}
                        /\ \A k \in DOMAIN runs[f].latencies : runs[f].latencies[k] > 0
      /\ \A f \in S, s \in {"none", "exp", "full_jitter"} :
           \E g \in S : runs[g].strategy = s /\ runs[g].failure = runs[f].failure
      /\ \A f \in O : /\ runs[f].budget = OutageAttempts
                      /\ runs[f].log # <<>> /\ OwnWindow(f) > 0
                      /\ runs[f].strategy = "exp" \/ Successes(f) # {} => Delivered(f)
      => stage > Len(Outputs) \/ ~Raises
=============================================================================
