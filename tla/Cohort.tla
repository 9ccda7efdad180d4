------------------------------- MODULE Cohort -------------------------------
(***************************************************************************)
(* One run of experiments/run-one.sh, as its result file tells it: N       *)
(* reminders that fall due together, retried with the waits of Waits.tla   *)
(* against a mock provider that fails everything until it has been up for  *)
(* recover and, with failure > 0, some calls after that.  The step by step *)
(* behaviour is in Outage.tla; here a run is computed from its choices:    *)
(*   strategy, failure (percent), recover, budget, repeat    the arguments *)
(*   due      when the cohort falls due, after the process started         *)
(*   draws    the random numbers of each reminder's waits                  *)
(*   dice     the calls of each reminder that fail outside the outage      *)
(*   late     by how much the worker is late for every retry               *)
(*   stagger  how long after one another the first attempts are made       *)
(*   lag      how long after each failed attempt the worker's handler, which *)
(*            nothing waits for, writes the row; long enough, and never      *)
(*   reads    when the script makes its queries, one after another: the last *)
(*            count of what is left, SENT, DEAD, attempts, latencies and     *)
(*            the provider's counters                                        *)
(*   cut      when, last of all, it fetches the provider's attempt log       *)
(***************************************************************************)
EXTENDS Waits, Sequences, FiniteSets, FiniteSetsExt

CONSTANTS
  N,      \* N_REMINDERS
  Lead    \* LEAD_S

ASSUME CohortAssumption == N \in Nat \ {0} /\ Lead \in Nat

Cohort == 1 .. N

\* What a run can be made with: at a failure rate of 0 no call fails but for the
\* outage.
IsRun(c) ==
  /\ c.strategy \in Strategies /\ c.failure \in 0 .. 100
  /\ c.recover \in Nat /\ c.budget \in Nat \ {0}
  /\ c.due \in Nat /\ c.late \in Nat /\ c.stagger \in Nat /\ c.cut \in Nat
  /\ LET r == c.reads IN
       /\ {r.left, r.sent, r.dead, r.retries, r.latencies, r.calls} \subseteq Nat
       /\ r.left <= r.sent /\ r.sent <= r.dead /\ r.dead <= r.retries
       /\ r.retries <= r.latencies /\ r.latencies <= r.calls /\ r.calls <= c.cut
  /\ \A k \in Cohort :
       /\ \A i \in 1 .. c.budget : c.lag[k][i] \in Nat
       /\ \A n \in 1 .. c.budget - 1 : c.draws[k][n] \in 0 .. Grid - 1
       /\ c.dice[k] \in Nat /\ (c.failure = 0 => c.dice[k] = 0)

\* When attempt i of reminder k starts if none before it succeeded, with the
\* memory the wait before it left.
Start(c, k, i) ==
  LET at[n \in 1 .. i] ==
        IF n = 1 THEN [t |-> c.due + k * c.stagger, sum |-> 0, prev |-> Base * Grid]
        ELSE LET p == at[n - 1]
                 w == ComputeBackoff(c.strategy, n - 1, c.draws[k][n - 1], p.prev)
             IN  [t    |-> p.t + w + c.late,
                  sum  |-> p.sum + w,
                  prev |-> Draw(c.draws[k][n - 1], p.prev)]
  IN  at[i]

\* The provider's answer.
Accepts(c, k, i) == Start(c, k, i).t >= c.recover /\ i > c.dice[k]

\* The last attempt there is: the first accepted one, or the last of the budget.
LastAttempt(c, k) ==
  Min({i \in 1 .. c.budget : i = c.budget \/ Accepts(c, k, i)})

\* Attempts made before the script fetches the log.
Made(c, k) == {i \in 1 .. LastAttempt(c, k) : Start(c, k, i).t < c.cut}

\* Every attempt made: when, of which reminder, and its number.
Entries(c) == UNION {{<<Start(c, k, i).t, k, i>> : i \in Made(c, k)} : k \in Cohort}

Before(a, b) ==
  \/ a[1] < b[1]
  \/ a[1] = b[1] /\ a[2] < b[2]
  \/ a[1] = b[1] /\ a[2] = b[2] /\ a[3] < b[3]

\* The attempt log, in order of time.
Log(c) ==
  LET E == Entries(c)
      nth[i \in 1 .. Cardinality(E)] ==
        CHOOSE a \in E : Cardinality({b \in E : Before(b, a)}) = i - 1
  IN  [i \in 1 .. Cardinality(E) |->
        [t |-> nth[i][1], ok |-> Accepts(c, nth[i][2], nth[i][3]), key |-> nth[i][2]]]

Done(c, k) == LastAttempt(c, k) \in Made(c, k)

-----------------------------------------------------------------------------
(* The rows of the database, as a query at time T sees them.               *)

Committed(c, k, T) ==
  LET i == LastAttempt(c, k) IN Accepts(c, k, i) /\ Start(c, k, i).t < T

\* The failed attempts whose handler has written the row by then, and when.
Lands(c, k, i) == Start(c, k, i).t + c.lag[k][i]

Landed(c, k, T) ==
  {i \in 1 .. LastAttempt(c, k) : ~Accepts(c, k, i) /\ Lands(c, k, i) < T}

\* The last of these writes is what the row's attempts say.
Attempts(c, k, T) ==
  LET at == {Lands(c, k, i) : i \in Landed(c, k, T)}
  IN  Max({0} \cup {i \in Landed(c, k, T) : Lands(c, k, i) = Max(at)})

\* A write that lands after the success, or after the last failure's, says FAILED.
SentAt(c, k, T) ==
  /\ Committed(c, k, T)
  /\ \A i \in Landed(c, k, T) : Lands(c, k, i) <= Start(c, k, LastAttempt(c, k)).t
DeadAt(c, k, T) ==
  ~Accepts(c, k, LastAttempt(c, k)) /\ Attempts(c, k, T) = LastAttempt(c, k)

\* Every failure is written down before the next attempt starts.
Orderly(c) ==
  \A k \in Cohort : \A i \in 1 .. LastAttempt(c, k) - 1 :
    Lands(c, k, i) <= Start(c, k, i + 1).t

\* The result file.  What comes after log is not in it but for properties to
\* compare with: the recovery, whether every attempt was on time and how late they
\* were, the failing calls, the sum of each reminder's full schedule, how many
\* reminders the script counted as left, how many had attempts to come when it
\* fetched the log, and whether the handlers kept up.
ResultFile(c) ==
  LET at == c.reads
      attempts == [k \in Cohort |-> Attempts(c, k, at.retries)]
      log == Log(c)
  IN  [strategy |-> c.strategy, failure |-> c.failure, recover |-> c.recover,
       budget |-> c.budget, repeat |-> c.repeat, n |-> N,
       sent |-> Cardinality({k \in Cohort : SentAt(c, k, at.sent)}),
       dead |-> Cardinality({k \in Cohort : DeadAt(c, k, at.dead)}),
       retries |-> MapThenSumSet(LAMBDA k : attempts[k], Cohort),
       created |-> c.due - Lead,
       latencies |-> [k \in {k \in Cohort : Committed(c, k, at.latencies)} |->
                        Start(c, k, LastAttempt(c, k)).t - c.due],
       calls |-> Cardinality({e \in Entries(c) : e[1] < at.calls}), log |-> log,
       up |-> c.recover, prompt |-> c.late = 0 /\ c.stagger = 0,
       late |-> c.late, stagger |-> c.stagger, dice |-> c.dice,
       sums |-> [k \in Cohort |-> Start(c, k, c.budget).sum],
       open |-> Cardinality({k \in Cohort : ~(SentAt(c, k, at.left) \/ DeadAt(c, k, at.left))}),
       inflight |-> Cardinality({k \in Cohort : ~Done(c, k)}), orderly |-> Orderly(c)]
=============================================================================
