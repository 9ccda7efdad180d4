------------------------------ MODULE JobQueue ------------------------------
(***************************************************************************)
(* The delayed-job queue "reminders", as Syncin uses it.  The queue itself *)
(* is BullMQ on Redis, a library outside the repository: what is modelled  *)
(* is the part src/queues and src/modules/reminders rely on.               *)
(*                                                                         *)
(* A job is delayed until its timer fires, waits for a worker slot, is     *)
(* active while a worker runs it, and ends done (removed: removeOnComplete *)
(* is true) or failed (kept: removeOnFail is false).  Everything here      *)
(* lives in Redis and survives a crash of the process.                     *)
(***************************************************************************)
EXTENDS Integers, FiniteSets

CONSTANTS
  Reminders,    \* reminder rows; a reminder's own job has the id of the row
  FreshJobs,    \* ids the queue assigns to jobs added without a jobId
  None,         \* no reminder: a job not added yet names none
  MaxAttempts,  \* REMINDER_MAX_ATTEMPTS
  MaxStalls     \* how often the queue lets one job stall (maxStalledCount)

ASSUME QueueAssumption ==
  /\ MaxAttempts \in Nat \ {0}
  /\ MaxStalls \in Nat
  /\ Reminders \cap FreshJobs = {}
  /\ None \notin Reminders

JobIds == Reminders \cup FreshJobs

VARIABLES
  qstate,   \* where each job is
  target,   \* the reminder row the payload of each job names
  made,     \* attemptsMade: failed attempts of each job
  stalls    \* how often each job was found active with nobody running it

queueVars == <<qstate, target, made, stalls>>

QueueStates == {"none", "delayed", "waiting", "active", "failed", "done"}

QueueTypeOK ==
  /\ qstate \in [JobIds -> QueueStates]
  /\ target \in [JobIds -> Reminders \cup {None}]
  /\ made   \in [JobIds -> Nat]
  /\ stalls \in [JobIds -> Nat]

QueueInit ==
  /\ qstate = [j \in JobIds |-> "none"]
  /\ target = [j \in JobIds |-> None]
  /\ made   = [j \in JobIds |-> 0]
  /\ stalls = [j \in JobIds |-> 0]

\* Add job j for reminder r; s is "delayed" or "waiting" as its delay says.
AddJob(j, r, s) ==
  /\ qstate[j] = "none"
  /\ qstate' = [qstate EXCEPT ![j] = s]
  /\ target' = [target EXCEPT ![j] = r]
  /\ UNCHANGED <<made, stalls>>

\* A job goes from one queue state to the next and nothing is counted.
MoveJob(j, from, to) ==
  /\ qstate[j] = from
  /\ qstate' = [qstate EXCEPT ![j] = to]
  /\ UNCHANGED <<target, made, stalls>>

\* Mutant: one attempt too many.
MayRetryOnceMore(j, fatal) == ~fatal /\ made[j] + 1 <= MaxAttempts

\* A failed attempt is retried while attempts are left, unless the processor
\* threw an UnrecoverableError.
MayRetry(j, fatal) == ~fatal /\ made[j] + 1 < MaxAttempts

\* The attempt that was running has failed.  The wait before a retry is the
\* worker's choice and may be 0, so a retried job's timer may fire at once.
FailJob(j, fatal) ==
  /\ qstate[j] = "active"
  /\ made' = [made EXCEPT ![j] = @ + 1]
  /\ qstate' = [qstate EXCEPT ![j] = IF MayRetry(j, fatal) THEN "delayed" ELSE "failed"]
  /\ UNCHANGED <<target, stalls>>

\* The stall check finds an active job whose worker is gone and hands it out
\* again.
StallJob(j) ==
  /\ qstate[j] = "active"
  /\ qstate' = [qstate EXCEPT ![j] = "waiting"]
  /\ stalls' = [stalls EXCEPT ![j] = @ + 1]
  /\ UNCHANGED <<target, made>>

\* A job that stalled too often is failed when it is next picked up, unrun.
StalledOut(j) == stalls[j] > MaxStalls

\* The queue is done with the job.
Settled(j) == qstate[j] \in {"failed", "done"}
=============================================================================
