------------------------------- MODULE Outage -------------------------------
(***************************************************************************)
(* A cohort of reminders that fall due together, against the mock provider *)
(* and through the waits of Backoff.tla: the experiment the measurement    *)
(* study runs, with replay of what was given up and with a restart.  The   *)
(* worker may be late for an attempt, never early; the rows it is measured *)
(* by are written by a 'failed' handler nobody awaits.                     *)
(***************************************************************************)
EXTENDS Backoff, Measurement

CONSTANTS
  Keys,           \* reminders; a reminder's own job has its id
  FreshJobs,      \* jobs added by replay
  RecoverAfter, LogLimit,
  Due,            \* when the cohort falls due, after boot
  Words,          \* the sets of trigger words each reminder's message may have
  None,
  MaxNow, MaxLate,     \* bounds: the clock, and how late an attempt may start
  MaxWrites, MaxSlips  \* bounds: updates outstanding at once, and updates lost

ASSUME OutageAssumption ==
  /\ Jobs = Keys \cup FreshJobs /\ Keys \cap FreshJobs = {} /\ None \notin Keys
  /\ IsFiniteSet(Keys)
  /\ RecoverAfter \in Nat /\ LogLimit \in Nat /\ Due \in Nat /\ MaxNow \in Nat
  /\ MaxLate \in Nat /\ MaxWrites \in Nat /\ MaxSlips \in Nat
  /\ Window \in Nat \ {0}

VARIABLES
  now, boot, trait, injecting, seen, log, tally,
  keyOf,   \* the reminder each job is for
  due,     \* when the next attempt of each job may start, or NoDelay
  row,       \* ReminderJob.state
  attempts,  \* ReminderJob.attempts
  writes,    \* 'failed' handlers that have not updated the row yet
  first,     \* history: the first attempt of each reminder's own job
  delivered, \* history: reminders a call for which was accepted
  slips      \* history: updates by handlers that were lost or not the next in order

P == INSTANCE MockProvider

rowVars == <<row, attempts, writes, delivered, slips>>
outageVars == <<now, boot, trait, injecting, seen, log, tally, keyOf, due, first, rowVars>>
allVars == <<vars, outageVars>>

OutageTypeOK ==
  /\ TypeOK /\ P!TypeOK
  /\ keyOf \in [Jobs -> Keys \cup {None}]
  /\ due \in [Jobs -> Nat \cup {NoDelay}]
  /\ row \in [Keys -> {"SCHEDULED", "SENDING", "FAILED", "SENT", "DEAD"}]
  /\ attempts \in [Keys -> Nat]
  /\ writes \subseteq [job : Jobs, n : Nat, dead : BOOLEAN]
  /\ first \in [Keys -> Nat \cup {NoDelay}]
  /\ delivered \subseteq Keys
  /\ slips \in Nat

OutageInit ==
  /\ Init
  /\ now = 0 /\ boot = 0 /\ P!Boot
  /\ trait \in {f \in [Keys -> SUBSET P!Triggers] : \A k \in Keys : f[k] \in Words[k]}
  /\ injecting \in BOOLEAN
  /\ keyOf = [j \in Jobs |-> IF j \in Keys THEN j ELSE None]
  /\ due = [j \in Jobs |-> IF j \in Keys THEN Due ELSE NoDelay]
  /\ row = [k \in Keys |-> "SCHEDULED"]
  /\ attempts = [k \in Keys |-> 0] /\ writes = {}
  /\ first = [k \in Keys |-> NoDelay]
  /\ delivered = {} /\ slips = 0

Tick ==
  /\ now < MaxNow
  /\ \A j \in Jobs : due[j] # NoDelay => now < due[j] + MaxLate
  /\ now' = now + 1
  /\ UNCHANGED <<vars, boot, trait, injecting, seen, log, tally, keyOf, due, first, rowVars>>

\* The call of an attempt of job j is answered v.
Call(j, v) ==
  /\ due[j] # NoDelay /\ due[j] <= now
  /\ P!SendMessage(keyOf[j], v)
  /\ first' = IF j \in Keys /\ first[j] = NoDelay THEN [first EXCEPT ![j] = now] ELSE first
  /\ UNCHANGED <<now, boot, trait, injecting, keyOf>>

Deliver(j) ==
  /\ Call(j, "ok")
  /\ Completed(j)
  /\ due' = [due EXCEPT ![j] = NoDelay]
  /\ row' = [row EXCEPT ![keyOf[j]] = "SENT"]
  /\ delivered' = delivered \cup {keyOf[j]}
  /\ UNCHANGED <<attempts, writes, slips>>

\* A failed attempt leaves the row SENDING until its handler, which has looked at
\* the job and is not awaited, gets to update it.
LeftToHandler(j, dead) ==
  /\ Cardinality(writes) < MaxWrites
  /\ row' = [row EXCEPT ![keyOf[j]] = "SENDING"]
  /\ writes' = writes \cup {[job |-> j, n |-> made[j] + 1, dead |-> dead]}
  /\ UNCHANGED <<attempts, delivered, slips>>

TryLater(j) ==
  /\ Call(j, "transient")
  /\ \E u \in 0 .. Grid - 1 :
       /\ Retry(j, u)
       /\ due' = [due EXCEPT ![j] = now + Wait(j, made[j] + 1, u)]
  /\ LeftToHandler(j, FALSE)

GiveUp(j) ==
  /\ \/ Call(j, "transient") /\ ~Retried(made[j] + 1)
     \/ Call(j, "permanent")
  /\ Exhausted(j)
  /\ due' = [due EXCEPT ![j] = NoDelay]
  /\ LeftToHandler(j, TRUE)

\* Mutant: only the update to FAILED counts the attempts.
HandledStateOnly(h) ==
  /\ writes' = writes \ {h}
  /\ row' = [row EXCEPT ![keyOf[h.job]] = IF h.dead THEN "DEAD" ELSE "FAILED"]
  /\ attempts' = IF h.dead THEN attempts ELSE [attempts EXCEPT ![keyOf[h.job]] = h.n]
  /\ slips' = IF h.n = attempts[keyOf[h.job]] + 1 THEN slips ELSE slips + 1
  /\ UNCHANGED <<vars, now, boot, trait, injecting, seen, log, tally, keyOf, due, first, delivered>>

\* The update names the row only: it may land after a later attempt's.
Handled(h) ==
  /\ writes' = writes \ {h}
  /\ row' = [row EXCEPT ![keyOf[h.job]] = IF h.dead THEN "DEAD" ELSE "FAILED"]
  /\ attempts' = [attempts EXCEPT ![keyOf[h.job]] = h.n]
  /\ slips' = IF h.n = attempts[keyOf[h.job]] + 1 THEN slips ELSE slips + 1
  /\ UNCHANGED <<vars, now, boot, trait, injecting, seen, log, tally, keyOf, due, first, delivered>>

\* The update throws, and the error is ignored.
HandlerFails(h) ==
  /\ writes' = writes \ {h}
  /\ slips < MaxSlips /\ slips' = slips + 1
  /\ UNCHANGED <<vars, now, boot, trait, injecting, seen, log, tally, keyOf, due, first, delivered,
                 row, attempts>>

Replay(k, j) ==
  /\ row[k] = "DEAD" /\ keyOf[j] = None
  /\ keyOf' = [keyOf EXCEPT ![j] = k]
  /\ due' = [due EXCEPT ![j] = now]
  /\ row' = [row EXCEPT ![k] = "SCHEDULED"]
  /\ attempts' = [attempts EXCEPT ![k] = 0]
  /\ UNCHANGED <<vars, now, boot, trait, injecting, seen, log, tally, first, writes, delivered, slips>>

\* The outage is counted from boot: a restart starts it over.  The handlers of the
\* old process are gone with it.
Reboot ==
  /\ Restart
  /\ boot' = now
  /\ P!Reboot
  /\ writes' = {}
  /\ UNCHANGED <<now, trait, injecting, keyOf, due, row, attempts, first, delivered, slips>>

OutageNext ==
  \/ Tick \/ Reboot
  \/ \E j \in Jobs : Deliver(j) \/ TryLater(j) \/ GiveUp(j)
  \/ \E h \in writes : Handled(h) \/ HandlerFails(h)
  \/ \E k \in Keys, j \in FreshJobs : Replay(k, j)

OutageSpec == OutageInit /\ [][OutageNext]_allVars

-----------------------------------------------------------------------------

Rows(s) == {k \in Keys : row[k] = s}
Replayed(k) == \E j \in FreshJobs : keyOf[j] = k

\* One run of the process, and of every job.
OneRun == restarts = 0 /\ \A k \in Keys : ~Replayed(k)

\* What the study asserts of its raw data.  The attempts of the rows, which handlers
\* write late, out of order or not at all, never add up to more than the failed
\* calls, and when every handler is through and none slipped, to as many.  When
\* every row is settled, the counters and the log (if it did not reach its limit)
\* tell of as many calls beyond one per reminder as failed attempts beyond one per
\* dead reminder, whatever became of the updates.
BooksBalance ==
  OneRun =>
    LET dead    == Cardinality(Rows("DEAD"))
        bad     == Cardinality({i \in DOMAIN log : ~log[i].ok})
        retries == MapThenSumSet(LAMBDA k : attempts[k], Keys)
    IN  /\ retries <= tally.failed
        /\ writes = {} /\ slips = 0 => retries = tally.failed
        /\ Rows("SENT") \cup Rows("DEAD") = Keys =>
             tally.calls - Cardinality(Keys) = tally.failed - dead
        /\ tally.calls <= LogLimit => Len(log) = tally.calls /\ bad = tally.failed

\* Reminders whose own job ended and did not deliver, whether the row says so or not.
GivenUp == {k \in Keys : k \notin live /\ k \notin delivered}

\* The survival criterion of the study's coverage model: a reminder that the
\* outage alone rejects is given up only when the waits of its job sum to less
\* than what was left of the outage at its first attempt.
GivenUpFellShort ==
  OneRun /\ ~injecting =>
    \A k \in GivenUp : trait[k] = {} => ~Survives(total[k], boot + RecoverAfter - first[k])

\* The report's rule for sizing a schedule: a guaranteed sum that covers what is
\* left of the outage delivers, whatever is drawn.
SizingRule ==
  OneRun /\ ~injecting =>
    \A k \in GivenUp :
      trait[k] = {} => GuaranteedSum(strategy, MaxAttempts) < boot + RecoverAfter - first[k]

\* The trigger words do what the demos rely on: broken and doomed messages are
\* never delivered, a comeback only after a replay, a flaky one at its third
\* call at the earliest.
WordsKeepTheirPromise ==
  \A k \in Rows("SENT") :
    /\ trait[k] \cap {"broken", "doomed"} = {}
    /\ "comeback" \in trait[k] => Replayed(k)
    /\ "flaky" \in trait[k] /\ restarts = 0 => seen[k] >= 3

\* No window, wherever it opens, holds more logged attempts than sliding_peak
\* finds, and some window holds as many.
PeakIsWorstWindow ==
  LET ts == [i \in DOMAIN log |-> log[i].t]
  IN  SlidingPeak(ts) = Max({InWindow(ts, t) : t \in -Window .. now + Window})
=============================================================================
