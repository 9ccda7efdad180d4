------------------------------ MODULE Delivery ------------------------------
(***************************************************************************)
(* The delivery of appointment reminders: one process that serves the API  *)
(* and runs the worker, over Postgres (event and reminder rows, SEND keys, *)
(* message log) and the job queue of JobQueue.tla.                         *)
(*                                                                         *)
(* Every awaited call of the source is one action, so that the handlers of *)
(* several requests and up to Concurrency jobs interleave at each await.   *)
(* A crash forgets what only the process knows (which statement each       *)
(* handler was at) and keeps what Postgres and Redis store.                *)
(***************************************************************************)
EXTENDS JobQueue

CONSTANTS
  Events,       \* appointments
  Lead,         \* how long before the start each kind of reminder is due
  Starts,       \* start times a booking may ask for
  Calls,        \* concurrent calls of the replay endpoint
  Concurrency,  \* jobs the worker runs at once
  MaxTime, MaxCrashes, MaxErrors    \* bounds of the explored behaviours

Kinds == {"T24H", "T2H"}

ASSUME DeliveryAssumption ==
  /\ Reminders = Events \X Kinds
  /\ Lead \in [Kinds -> Nat \ {0}]
  /\ Lead["T2H"] < Lead["T24H"]
  /\ Starts \subseteq Nat
  /\ Concurrency \in Nat \ {0}
  /\ MaxTime \in Nat /\ MaxCrashes \in Nat /\ MaxErrors \in Nat

VARIABLES
  now,        \* Date.now()
  event,      \* Event.status; NONE before the booking commits
  startsAt,   \* Event.startsAt
  cancelled,  \* history: events a NO was ever written for
  state,      \* ReminderJob.state; ABSENT when the row was never planned
  attempts,   \* ReminderJob.attempts
  sendKeys,   \* reminders with a SEND idempotency key
  logged,     \* OUTBOUND MessageLog rows of each reminder
  enq,        \* which call of ReminderScheduler.enqueue each reminder awaits
  pc,         \* which statement of ReminderSender.send each job's run is at
  failures,   \* 'failed' events whose handler has not written the row yet
  todo,       \* DEAD rows each replay call still has to re-drive
  adding,     \* the row each replay call has reset and is about to re-add
  replying,   \* replies that were matched to an event and not yet written
  calls,      \* history: provider calls of each job
  accepted,   \* history: calls of each job the provider accepted
  lost,       \* history: acceptances whose commit never happened
  crashes, errors

dbVars     == <<event, startsAt, cancelled, state, attempts, sendKeys, logged>>
ghostVars  == <<calls, accepted, lost>>
replayVars == <<todo, adding>>
bounds     == <<crashes, errors>>
vars == <<queueVars, dbVars, ghostVars, replayVars, bounds,
          now, enq, pc, failures, replying>>

EventOf(r) == r[1]
RunAt(r)   == startsAt[r[1]] - Lead[r[2]]

RunStates == {"idle", "load", "cancel", "check", "dedupe", "mark", "call",
              "commit", "finish", "retry", "fatal"}

Statuses  == {"NONE", "SCHEDULED", "CONFIRMED", "CANCELLED"}
RowStates == {"ABSENT", "PENDING", "SCHEDULED", "SENDING", "SENT", "FAILED",
              "DEAD", "CANCELLED"}

TypeOK ==
  /\ QueueTypeOK
  /\ now \in Nat
  /\ event     \in [Events -> Statuses]
  /\ startsAt  \in [Events -> Nat]
  /\ cancelled \subseteq Events
  /\ state     \in [Reminders -> RowStates]
  /\ attempts  \in [Reminders -> Nat]
  /\ sendKeys  \subseteq Reminders
  /\ logged    \in [Reminders -> Nat]
  /\ enq       \in [Reminders -> {"idle", "add", "flip"}]
  /\ pc        \in [JobIds -> RunStates]
  /\ failures  \subseteq [job : JobIds, made : Nat, dead : BOOLEAN]
  /\ todo      \in [Calls -> SUBSET Reminders]
  /\ adding    \in [Calls -> Reminders \cup {None}]
  /\ replying  \subseteq Events \X {"CONFIRMED", "CANCELLED"}
  /\ calls \in [JobIds -> Nat] /\ accepted \in [JobIds -> Nat] /\ lost \in [JobIds -> Nat]
  /\ crashes \in Nat /\ errors \in Nat

Init ==
  /\ QueueInit
  /\ now = 0
  /\ event     = [e \in Events |-> "NONE"]
  /\ startsAt  = [e \in Events |-> 0]
  /\ cancelled = {}
  /\ state     = [r \in Reminders |-> "ABSENT"]
  /\ attempts  = [r \in Reminders |-> 0]
  /\ sendKeys  = {}
  /\ logged    = [r \in Reminders |-> 0]
  /\ enq       = [r \in Reminders |-> "idle"]
  /\ pc        = [j \in JobIds |-> "idle"]
  /\ failures  = {}
  /\ todo      = [c \in Calls |-> {}]
  /\ adding    = [c \in Calls |-> None]
  /\ replying  = {}
  /\ calls     = [j \in JobIds |-> 0]
  /\ accepted  = [j \in JobIds |-> 0]
  /\ lost      = [j \in JobIds |-> 0]
  /\ crashes = 0 /\ errors = 0

Tick ==
  /\ now < MaxTime
  /\ now' = now + 1
  /\ UNCHANGED <<queueVars, dbVars, ghostVars, replayVars, bounds, enq, pc,
                 failures, replying>>

-----------------------------------------------------------------------------
(* Booking: EventService.createEvent and ReminderScheduler.                *)

\* A reminder is planned only while its fire time is in the future.
Plannable(e, s, k) == s - Lead[k] > now

\* One transaction inserts the event and a PENDING row per planned kind; the
\* enqueue loop over the planned rows starts after the commit.
Create(e, s) ==
  LET planned == {r \in Reminders : EventOf(r) = e /\ Plannable(e, s, r[2])}
  IN  /\ event[e] = "NONE"
      /\ s > now
      /\ event' = [event EXCEPT ![e] = "SCHEDULED"]
      /\ startsAt' = [startsAt EXCEPT ![e] = s]
      /\ state' = [r \in Reminders |-> IF r \in planned THEN "PENDING" ELSE state[r]]
      /\ enq' = [r \in Reminders |-> IF r \in planned THEN "add" ELSE enq[r]]
      /\ UNCHANGED <<queueVars, ghostVars, replayVars, bounds, now, cancelled,
                     attempts, sendKeys, logged, pc, failures, replying>>

\* The loop awaits the T24H row before it comes to the T2H row.
IsNextPlanned(r) == r[2] = "T24H" \/ enq[<<EventOf(r), "T24H">>] = "idle"

\* Mutant: the delay option is forgotten.
NoDelay(r) == "waiting"

\* A job added with a delay waits for its timer; delay 0 when it is overdue.
FirstState(r) == IF RunAt(r) > now THEN "delayed" ELSE "waiting"

\* Mutant: the row is flipped before the job is added.
FlipBeforeAdd(r) ==
  /\ enq[r] = "add" /\ IsNextPlanned(r)
  /\ UNCHANGED <<event, startsAt, cancelled, attempts, sendKeys, logged, ghostVars,
                 replayVars, bounds, now, pc, failures, replying>>
  /\ \/ /\ state[r] = "PENDING"
        /\ state' = [state EXCEPT ![r] = "SCHEDULED"]
        /\ UNCHANGED <<queueVars, enq>>
     \/ /\ state[r] # "PENDING"
        /\ AddJob(r, r, FirstState(r))
        /\ enq' = [enq EXCEPT ![r] = "idle"]
        /\ UNCHANGED state

EnqueueAdd(r) ==
  /\ enq[r] = "add" /\ IsNextPlanned(r)
  /\ AddJob(r, r, FirstState(r))
  /\ enq' = [enq EXCEPT ![r] = "flip"]
  /\ UNCHANGED <<dbVars, ghostVars, replayVars, bounds, now, pc, failures, replying>>

\* Mutant: the flip writes the row as it was planned.
EnqueueFlipFresh(r) ==
  /\ enq[r] = "flip"
  /\ state' = [state EXCEPT ![r] = "SCHEDULED"]
  /\ attempts' = [attempts EXCEPT ![r] = 0]
  /\ enq' = [enq EXCEPT ![r] = "idle"]
  /\ UNCHANGED <<queueVars, event, startsAt, cancelled, sendKeys, logged,
                 ghostVars, replayVars, bounds, now, pc, failures, replying>>

EnqueueFlip(r) ==
  /\ enq[r] = "flip"
  /\ state' = [state EXCEPT ![r] = "SCHEDULED"]
  /\ enq' = [enq EXCEPT ![r] = "idle"]
  /\ UNCHANGED <<queueVars, event, startsAt, cancelled, attempts, sendKeys, logged,
                 ghostVars, replayVars, bounds, now, pc, failures, replying>>

\* Either call of the loop throws: the rest of the loop is given up and the
\* request still succeeds.
EnqueueFails(e) ==
  /\ errors < MaxErrors
  /\ \E r \in Reminders : EventOf(r) = e /\ enq[r] # "idle"
  /\ enq' = [r \in Reminders |-> IF EventOf(r) = e THEN "idle" ELSE enq[r]]
  /\ errors' = errors + 1
  /\ UNCHANGED <<queueVars, dbVars, ghostVars, replayVars, crashes, now, pc,
                 failures, replying>>

-----------------------------------------------------------------------------
(* The worker: one run of ReminderSender.send per active job.              *)

\* The timer of a delayed job fires: at the reminder's fire time for its
\* first attempt, after any backoff for a later one.
Promote(j) ==
  /\ MoveJob(j, "delayed", "waiting")
  /\ made[j] = 0 => now >= RunAt(target[j])
  /\ UNCHANGED <<dbVars, ghostVars, replayVars, bounds, now, enq, pc, failures, replying>>

Running == {j \in JobIds : pc[j] # "idle"}

Pick(j) ==
  /\ Cardinality(Running) < Concurrency
  /\ MoveJob(j, "waiting", "active")
  /\ pc' = [pc EXCEPT ![j] = IF StalledOut(j) THEN "fatal" ELSE "load"]
  /\ UNCHANGED <<dbVars, ghostVars, replayVars, bounds, now, enq, failures, replying>>

\* One statement of the run of job j; what it writes is said by the action.
At(j, from, to) ==
  /\ pc[j] = from
  /\ pc' = [pc EXCEPT ![j] = to]
  /\ UNCHANGED <<queueVars, replayVars, bounds, now, enq, failures, replying, event,
                 startsAt, cancelled, attempts>>

\* Mutants: cancellation is not looked at, or any reply counts as one; the SEND
\* key is not looked up.
NeverCancelled(r) == FALSE
AnyReply(r)       == event[EventOf(r)] # "SCHEDULED"
NoKeyLookup(r)    == FALSE

IsCancelled(r) == event[EventOf(r)] = "CANCELLED"
Stale(r)       == startsAt[EventOf(r)] <= now
AlreadySent(r) == r \in sendKeys

\* The row is read once, together with its event.
Load(j) ==
  /\ At(j, "load",
        IF IsCancelled(target[j]) \/ Stale(target[j]) THEN "cancel" ELSE "check")
  /\ UNCHANGED <<state, sendKeys, logged, ghostVars>>

SkipRow(j) ==
  /\ At(j, "cancel", "finish")
  /\ state' = [state EXCEPT ![target[j]] = "CANCELLED"]
  /\ UNCHANGED <<sendKeys, logged, ghostVars>>

Check(j) ==
  /\ At(j, "check", IF AlreadySent(target[j]) THEN "dedupe" ELSE "mark")
  /\ UNCHANGED <<state, sendKeys, logged, ghostVars>>

Dedupe(j) ==
  /\ At(j, "dedupe", "finish")
  /\ state' = [state EXCEPT ![target[j]] = "SENT"]
  /\ UNCHANGED <<sendKeys, logged, ghostVars>>

\* Mutant: the row is marked SENT before the provider is called.
MarkSent(j) ==
  /\ At(j, "mark", "call")
  /\ state' = [state EXCEPT ![target[j]] = "SENT"]
  /\ UNCHANGED <<sendKeys, logged, ghostVars>>

MarkSending(j) ==
  /\ At(j, "mark", "call")
  /\ state' = [state EXCEPT ![target[j]] = "SENDING"]
  /\ UNCHANGED <<sendKeys, logged, ghostVars>>

ProviderAccept(j) ==
  /\ At(j, "call", "commit")
  /\ calls' = [calls EXCEPT ![j] = @ + 1]
  /\ accepted' = [accepted EXCEPT ![j] = @ + 1]
  /\ UNCHANGED <<state, sendKeys, logged, lost>>

\* A ProviderError: permanent ones become an UnrecoverableError.
ProviderReject(j, retryable) ==
  /\ At(j, "call", IF retryable THEN "retry" ELSE "fatal")
  /\ calls' = [calls EXCEPT ![j] = @ + 1]
  /\ UNCHANGED <<state, sendKeys, logged, accepted, lost>>

\* Mutant: the SEND key is not unique.
NoConflict(r) == FALSE

\* The SEND key is unique: the transaction of a second sender is rolled back
\* as a whole and its attempt fails.
Conflict(r) == r \in sendKeys

CommitSend(j) ==
  /\ ~Conflict(target[j])
  /\ At(j, "commit", "finish")
  /\ sendKeys' = sendKeys \cup {target[j]}
  /\ logged' = [logged EXCEPT ![target[j]] = @ + 1]
  /\ state' = [state EXCEPT ![target[j]] = "SENT"]
  /\ UNCHANGED <<ghostVars>>

CommitConflict(j) ==
  /\ Conflict(target[j])
  /\ At(j, "commit", "retry")
  /\ UNCHANGED <<state, sendKeys, logged, ghostVars>>

Complete(j) ==
  /\ pc[j] = "finish"
  /\ MoveJob(j, "active", "done")
  /\ pc' = [pc EXCEPT ![j] = "idle"]
  /\ UNCHANGED <<dbVars, ghostVars, replayVars, bounds, now, enq, failures, replying>>

\* Mutant: the handler gives up one attempt before the queue.
ExhaustedEarly(n, fatal) == fatal \/ n >= MaxAttempts - 1

\* What the 'failed' handler concludes from the error and job.attemptsMade.
Exhausted(n, fatal) == fatal \/ n >= MaxAttempts

\* The attempt failed: the queue moves the job and emits 'failed', whose
\* handler is not awaited.
Fail(j) ==
  /\ pc[j] \in {"retry", "fatal"}
  /\ FailJob(j, pc[j] = "fatal")
  /\ pc' = [pc EXCEPT ![j] = "idle"]
  /\ failures' = failures \cup
       {[job |-> j, made |-> made[j] + 1, dead |-> Exhausted(made[j] + 1, pc[j] = "fatal")]}
  /\ UNCHANGED <<dbVars, ghostVars, replayVars, bounds, now, enq, replying>>

\* A statement of the run throws: the attempt fails and may be retried.
DbError(j) ==
  /\ errors < MaxErrors
  /\ pc[j] \in {"load", "cancel", "check", "dedupe", "mark", "commit"}
  /\ pc' = [pc EXCEPT ![j] = "retry"]
  /\ lost' = [lost EXCEPT ![j] = IF pc[j] = "commit" THEN @ + 1 ELSE @]
  /\ errors' = errors + 1
  /\ UNCHANGED <<queueVars, dbVars, calls, accepted, replayVars, crashes, now, enq,
                 failures, replying>>

\* The 'failed' handler writes the row, or its write throws and is ignored.
HandleFailed(h) ==
  /\ failures' = failures \ {h}
  /\ state' = [state EXCEPT ![target[h.job]] = IF h.dead THEN "DEAD" ELSE "FAILED"]
  /\ attempts' = [attempts EXCEPT ![target[h.job]] = h.made]
  /\ UNCHANGED <<queueVars, event, startsAt, cancelled, sendKeys, logged, ghostVars,
                 replayVars, bounds, now, enq, pc, replying>>

HandlerFails(h) ==
  /\ errors < MaxErrors
  /\ failures' = failures \ {h}
  /\ errors' = errors + 1
  /\ UNCHANGED <<queueVars, dbVars, ghostVars, replayVars, crashes, now, enq, pc, replying>>

-----------------------------------------------------------------------------
(* Re-driving: ReminderReplay.                                             *)

\* enqueueNow: a job under a fresh id, without delay.
EnqueueNow(r) == \E j \in FreshJobs : AddJob(j, r, "waiting")

Dead == {r \in Reminders : state[r] = "DEAD"}

StartReplay(c) ==
  /\ todo[c] = {} /\ adding[c] = None
  /\ todo' = [todo EXCEPT ![c] = Dead]
  /\ UNCHANGED <<queueVars, dbVars, ghostVars, adding, bounds, now, enq, pc,
                 failures, replying>>

ReplayReset(c, r) ==
  /\ adding[c] = None /\ r \in todo[c]
  /\ todo' = [todo EXCEPT ![c] = @ \ {r}]
  /\ adding' = [adding EXCEPT ![c] = r]
  /\ state' = [state EXCEPT ![r] = "SCHEDULED"]
  /\ attempts' = [attempts EXCEPT ![r] = 0]
  /\ UNCHANGED <<queueVars, event, startsAt, cancelled, sendKeys, logged, ghostVars,
                 bounds, now, enq, pc, failures, replying>>

ReplayAdd(c) ==
  /\ adding[c] # None
  /\ EnqueueNow(adding[c])
  /\ adding' = [adding EXCEPT ![c] = None]
  /\ UNCHANGED <<dbVars, ghostVars, todo, bounds, now, enq, pc, failures, replying>>

\* A call of the loop throws: the request fails and the rest is left as it is.
ReplayFails(c) ==
  /\ errors < MaxErrors
  /\ todo[c] # {} \/ adding[c] # None
  /\ todo' = [todo EXCEPT ![c] = {}]
  /\ adding' = [adding EXCEPT ![c] = None]
  /\ errors' = errors + 1
  /\ UNCHANGED <<queueVars, dbVars, ghostVars, crashes, now, enq, pc, failures, replying>>

\* A manual redelivery takes any row, whatever its state.
Redeliver(r) ==
  /\ state[r] # "ABSENT"
  /\ EnqueueNow(r)
  /\ UNCHANGED <<dbVars, ghostVars, replayVars, bounds, now, enq, pc, failures, replying>>

-----------------------------------------------------------------------------
(* Replies: the two statements of InboundService.handle that touch events. *)

ReplyMatch(e, s) ==
  /\ event[e] = "SCHEDULED" /\ startsAt[e] > now
  /\ replying' = replying \cup {<<e, s>>}
  /\ UNCHANGED <<queueVars, dbVars, ghostVars, replayVars, bounds, now, enq, pc, failures>>

ReplyWrite(e, s) ==
  /\ <<e, s>> \in replying
  /\ replying' = replying \ {<<e, s>>}
  /\ event' = [event EXCEPT ![e] = s]
  /\ cancelled' = IF s = "CANCELLED" THEN cancelled \cup {e} ELSE cancelled
  /\ UNCHANGED <<queueVars, startsAt, state, attempts, sendKeys, logged, ghostVars,
                 replayVars, bounds, now, enq, pc, failures>>

-----------------------------------------------------------------------------
(* The process dies and is started again.                                  *)

Crash ==
  /\ crashes < MaxCrashes
  /\ crashes' = crashes + 1
  /\ pc' = [j \in JobIds |-> "idle"]
  /\ lost' = [j \in JobIds |-> IF pc[j] = "commit" THEN lost[j] + 1 ELSE lost[j]]
  /\ enq' = [r \in Reminders |-> "idle"]
  /\ failures' = {}
  /\ todo' = [c \in Calls |-> {}]
  /\ adding' = [c \in Calls |-> None]
  /\ replying' = {}
  /\ UNCHANGED <<queueVars, dbVars, calls, accepted, errors, now>>

\* Mutant: no stall check.
NoStallCheck(j) == FALSE /\ UNCHANGED vars

Stall(j) ==
  /\ pc[j] = "idle"
  /\ StallJob(j)
  /\ UNCHANGED <<dbVars, ghostVars, replayVars, bounds, now, enq, pc, failures, replying>>

-----------------------------------------------------------------------------

Provider(j) == ProviderAccept(j) \/ \E retryable \in BOOLEAN : ProviderReject(j, retryable)

\* The next statement of job j's run, when nothing goes wrong with it.
RunStep(j) ==
  \/ Load(j) \/ SkipRow(j) \/ Check(j) \/ Dedupe(j) \/ MarkSending(j) \/ Provider(j)
  \/ CommitSend(j) \/ CommitConflict(j) \/ Complete(j) \/ Fail(j)

Booking(r) == EnqueueAdd(r) \/ EnqueueFlip(r)
Replay(c)  == ReplayAdd(c) \/ \E r \in Reminders : ReplayReset(c, r)
Reply(e)   == \E s \in {"CONFIRMED", "CANCELLED"} : ReplyMatch(e, s) \/ ReplyWrite(e, s)

Next ==
  \/ Tick \/ Crash
  \/ \E e \in Events : (\E s \in Starts : Create(e, s)) \/ EnqueueFails(e) \/ Reply(e)
  \/ \E r \in Reminders : Booking(r) \/ Redeliver(r)
  \/ \E j \in JobIds : Promote(j) \/ Pick(j) \/ RunStep(j) \/ DbError(j) \/ Stall(j)
  \/ \E h \in failures : HandleFailed(h) \/ HandlerFails(h)
  \/ \E c \in Calls : StartReplay(c) \/ Replay(c) \/ ReplayFails(c)

Spec == Init /\ [][Next]_vars

\* The event loop and the queue keep running: timers fire, slots are filled,
\* an awaited call returns, the stall check comes round.  Nobody is obliged
\* to book, to reply, to replay or redeliver; nothing is obliged to fail.
Fairness ==
  /\ WF_vars(Tick)
  /\ \A r \in Reminders : WF_vars(Booking(r))
  /\ \A j \in JobIds : WF_vars(Promote(j)) /\ WF_vars(Pick(j))
                       /\ WF_vars(RunStep(j)) /\ WF_vars(Stall(j))
  /\ \A c \in Calls : WF_vars(Replay(c))
  /\ WF_vars(\E h \in failures : HandleFailed(h))

FairSpec == Spec /\ Fairness

-----------------------------------------------------------------------------
(* Safety.                                                                 *)

\* A SENT row is backed by a recorded send, and the provider did accept it:
\* no crash, failed write, replay or concurrent sender can make a row claim a
\* delivery that did not happen.
SentMeansDelivered ==
  \A r \in Reminders : state[r] = "SENT" =>
    /\ r \in sendKeys
    /\ \E j \in JobIds : target[j] = r /\ accepted[j] > 0

\* The SEND key and the outbound log row stand or fall together, and there is
\* at most one of each per reminder however many jobs send it.
OneDeliveryRecord ==
  \A r \in Reminders : logged[r] = IF r \in sendKeys THEN 1 ELSE 0

\* A job's message is accepted twice only if an acceptance was lost between
\* the provider's answer and the commit: the SEND key closes every other way
\* to send again, retries and redeliveries after a stall included.
ResendOnlyThroughTheGap == \A j \in JobIds : accepted[j] <= 1 + lost[j]

\* Retries after failures and reruns after stalls share one budget of provider
\* calls per job.
CallBudget == \A j \in JobIds : calls[j] <= MaxAttempts + MaxStalls

\* A reminder's own job never calls the provider before its fire time (a
\* redelivery may: it has no delay).
NeverEarly == \A r \in Reminders : calls[r] > 0 => now >= RunAt(r)

\* The handler's idea of an exhausted job agrees with the queue's: a DEAD row
\* has a job that the queue gave up and keeps.
DeadIsParked ==
  \A r \in Reminders : state[r] = "DEAD" =>
    \E j \in JobIds : target[j] = r /\ qstate[j] = "failed"

\* A job leaves the queue for good only when its reminder is recorded as sent,
\* its event has started, or its event was cancelled at some time.
NoSilentDrop ==
  \A j \in JobIds : qstate[j] = "done" =>
    \/ AlreadySent(target[j]) \/ Stale(target[j])
    \/ EventOf(target[j]) \in cancelled

\* Whatever crash or failed call ends the loop of a booking early, a reminder it
\* left without a job still says PENDING: no row is planned, flipped, sent for or
\* re-driven past the state by which whoever sweeps for lost jobs would find it.
OnlyPendingLackJobs ==
  \A r \in Reminders : state[r] \notin {"ABSENT", "PENDING"} =>
    \E j \in JobIds : target[j] = r

\* While nothing fails but sends, a reminder whose jobs were all given up is told
\* from one that is still to be sent by its row's attempts, although the row need
\* not say DEAD: a late flip to SCHEDULED or a late FAILED may overwrite it, and a
\* replay resets it before there is a job.
GivenUpShows ==
  crashes + errors = 0 =>
    \A r \in Reminders :
      LET jobs == {j \in JobIds : target[j] = r} IN
      /\ jobs # {} /\ \A j \in jobs : qstate[j] = "failed"
      /\ \A h \in failures : h.job \notin jobs
      /\ \A c \in Calls : adding[c] # r
      => attempts[r] > 0

\* Runs of reminder r that are at one of the statements S.
RunsAt(r, S) == {j \in JobIds : target[j] = r /\ pc[j] \in S}

\* Nothing is left to send for r: it is recorded; or its event has started, or
\* is cancelled with no confirmation under way, and no run has read the row.
Quiet(r) ==
  LET e == EventOf(r) IN
  \/ r \in sendKeys /\ RunsAt(r, {"mark", "call"}) = {}
  \/ /\ event[e] # "NONE" /\ startsAt[e] <= now
     /\ RunsAt(r, {"check", "mark", "call"}) = {}
  \/ /\ event[e] = "CANCELLED" /\ <<e, "CONFIRMED">> \notin replying
     /\ RunsAt(r, {"check", "mark", "call"}) = {}

\* Once quiet, a reminder stays quiet: no retry, replay, redelivery, stalled
\* job or late reply makes the worker call the provider for it again.
QuietStaysQuiet ==
  [][\A r \in Reminders : Quiet(r) =>
       Quiet(r)' /\ \A j \in JobIds : target[j] = r => calls'[j] = calls[j]]_vars

-----------------------------------------------------------------------------
(* Liveness, under FairSpec.                                               *)

\* Every job that enters the queue ends done or failed, whatever crashes,
\* failed statements and rejections it meets: no attempt is left active.
JobSettles ==
  \A j \in JobIds : qstate[j] \in {"delayed", "waiting", "active"} ~> Settled(j)
=============================================================================
