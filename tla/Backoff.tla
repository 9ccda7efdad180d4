------------------------------ MODULE Backoff -------------------------------
(***************************************************************************)
(* The waits of Waits.tla as the worker asks for them, job by job, with    *)
(* the lastDelay map that gives the decorrelated strategy its memory, and  *)
(* beside it what the study's replica sums for the same random numbers.    *)
(***************************************************************************)
EXTENDS Waits, FiniteSets

CONSTANTS
  MaxAttempts,  \* REMINDER_MAX_ATTEMPTS
  Jobs,
  MaxRestarts

ASSUME BackoffAssumption ==
  /\ MaxAttempts \in Nat \ {0}
  /\ MaxRestarts \in Nat

\* Nothing is remembered of a job.
NoDelay == -1

VARIABLES
  strategy,  \* REMINDER_BACKOFF_STRATEGY
  live,      \* jobs that are neither completed nor given up
  made,      \* attemptsMade of each job
  total,     \* history: the waits of each job so far
  lastDelay, \* the map of that name, in units of 1 / Grid ms
  modelled,  \* what the study's replica sums for the same random numbers
  prev,      \* the replica's memory
  restarts

vars == <<strategy, live, made, total, lastDelay, modelled, prev, restarts>>

Remembered(j) == IF lastDelay[j] = NoDelay THEN Base * Grid ELSE lastDelay[j]

\* The wait after failure n of job j.
Wait(j, n, u) == ComputeBackoff(strategy, n, u, Remembered(j))

TypeOK ==
  /\ strategy \in Strategies
  /\ live \subseteq Jobs
  /\ made \in [Jobs -> 0 .. MaxAttempts]
  /\ total \in [Jobs -> Nat]
  /\ lastDelay \in [Jobs -> Nat \cup {NoDelay}]
  /\ modelled \in [Jobs -> Nat]
  /\ prev \in [Jobs -> Nat]
  /\ restarts \in Nat

Init ==
  /\ strategy \in Strategies
  /\ live = Jobs
  /\ made = [j \in Jobs |-> 0]
  /\ total = [j \in Jobs |-> 0]
  /\ lastDelay = [j \in Jobs |-> NoDelay]
  /\ modelled = [j \in Jobs |-> 0]
  /\ prev = [j \in Jobs |-> Base * Grid]
  /\ restarts = 0

\* Failure n of a job is retried while attempts are left.
Retried(n) == n < MaxAttempts

\* An attempt fails and is retried: the queue asks backoffStrategy for a wait.
Retry(j, u) ==
  LET n == made[j] + 1 IN
  /\ j \in live /\ Retried(n)
  /\ made' = [made EXCEPT ![j] = n]
  /\ total' = [total EXCEPT ![j] = @ + Wait(j, n, u)]
  /\ modelled' = [modelled EXCEPT ![j] = @ + ReplicaWait(strategy, n, u, prev[j])]
  /\ IF strategy = "decorrelated"
       THEN /\ lastDelay' = [lastDelay EXCEPT ![j] = Draw(u, Remembered(j))]
            /\ prev' = [prev EXCEPT ![j] = ReplicaDraw(u, prev[j])]
       ELSE UNCHANGED <<lastDelay, prev>>
  /\ UNCHANGED <<strategy, live, restarts>>

\* Mutant: the entry of a job that ended is kept.
KeepEntry(j) == lastDelay

Dropped(j) == [lastDelay EXCEPT ![j] = NoDelay]

\* The 'completed' handler drops the memory of the job.
Completed(j) ==
  /\ j \in live
  /\ live' = live \ {j}
  /\ lastDelay' = Dropped(j)
  /\ UNCHANGED <<strategy, made, total, modelled, prev, restarts>>

\* The 'failed' handler does when the job is exhausted or failed for good.
Exhausted(j) ==
  /\ j \in live
  /\ live' = live \ {j}
  /\ made' = [made EXCEPT ![j] = @ + 1]
  /\ lastDelay' = Dropped(j)
  /\ UNCHANGED <<strategy, total, modelled, prev, restarts>>

\* A restart empties the map; the jobs and their attempts are the queue's.
Restart ==
  /\ restarts < MaxRestarts
  /\ restarts' = restarts + 1
  /\ lastDelay' = [j \in Jobs |-> NoDelay]
  /\ UNCHANGED <<strategy, live, made, total, modelled, prev>>

Next ==
  \/ Restart
  \/ \E j \in Jobs : \/ \E u \in 0 .. Grid - 1 : Retry(j, u)
                     \/ Completed(j) \/ Exhausted(j)

Spec == Init /\ [][Next]_vars

-----------------------------------------------------------------------------

\* The reach of the schedule, as documented: equal jitter keeps at least half
\* of every exponential wait and stays under the full one; exp is the full one;
\* full jitter stays under it; decorrelated waits keep to [base, cap].
ReachHolds ==
  \A j \in live :
    CASE strategy = "none"         -> total[j] = 0
      [] strategy = "fixed"        -> total[j] = made[j] * Base
      [] strategy = "exp"          -> total[j] = ExpSum[made[j]]
      [] strategy = "equal_jitter" -> /\ FloorSum[made[j]] <= total[j]
                                      /\ total[j] <= ExpSum[made[j]] - made[j]
      [] strategy = "full_jitter"  -> total[j] <= ExpSum[made[j]] - made[j]
      [] OTHER                     -> /\ made[j] * Base <= total[j]
                                      /\ total[j] <= made[j] * Cap

\* The study's model computes the waits the worker asked for, while no restart
\* has made the worker forget.
ReplicaAgrees == restarts = 0 => \A j \in live : total[j] = modelled[j]

\* The map holds entries of live jobs only: it does not grow with the number
\* of jobs ever run.
NoLeak == \A j \in Jobs : lastDelay[j] # NoDelay => j \in live

\* A decorrelated wait is never more than three times the one before, and
\* a restart only ever shortens what the next one may be.
MemoryBounds ==
  [][\A j \in Jobs : lastDelay'[j] # lastDelay[j] /\ lastDelay'[j] # NoDelay =>
       Base * Grid <= lastDelay'[j] /\ lastDelay'[j] <= 3 * Remembered(j)]_vars
=============================================================================
