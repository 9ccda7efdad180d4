# Syncin in TLA+

Syncin books appointments for tenants, reminds customers 24 hours and 2 hours
before the start, and reads their YES and NO replies. This directory holds TLA+
modules that model the code of the repository, the TLC configurations that check
them on small instances, and proofs, checked by TLAPS, of theorems that hold for
every value of the constants. Paths are relative to the repository.

    tlc -config Retry.cfg MCDelivery      # a run; PROJECT.json lists all of them
    tlapm DeliveryProofs.tla              # the proofs

## 1. Inventory

| Component | Code | State it keeps | Operations |
|---|---|---|---|
| Booking | `src/modules/events`, `src/lib/idempotency.ts` | Event and ReminderJob rows, API_REQUEST keys with stored responses | reserve, look up, create in one transaction, enqueue, complete |
| Scheduler | `src/modules/reminders/reminder.scheduler.ts` | none of its own | plan (inside the transaction), enqueue (a loop of `queue.add` and row update) |
| Job queue | BullMQ on Redis, `src/queues/reminder.queue.ts` | delayed, waiting, active and failed jobs, attemptsMade, stalls | add, promote, pick, complete, fail, stall check |
| Worker | `src/queues/reminder.worker.ts` | the `lastDelay` map, runs in progress | processor, backoffStrategy, `completed` and `failed` handlers |
| Sender | `src/modules/reminders/reminder.sender.ts` | SEND keys, outbound log | `send`: load, skip, check, dedupe, mark, call, commit |
| Replay | `src/modules/reminders/reminder.replay.ts`, `reminder.routes.ts` | none of its own | replayDead, redeliver |
| Inbound | `src/modules/inbound` | INBOUND keys, inbound log | claim, match, log, update |
| Provider | `src/providers` | call counts per key, counters, attempt log | sendMessage |
| Process | `src/server.ts`, `src/app.ts` | what is open | start, signals, shutdown |
| Sweep | `experiments/sweep.sh`, `run-one.sh` | the list of runs, stacks with their databases, result files | take a run, bring its stack up, book, poll, write, take down, be killed and started again |
| Analysis | `experiments/analyze.py` | what it has loaded; tables and figures on disk | check its constants, list, read, compute, write in order, raise |
| Metrics, tenant hook, schemas, configuration, seed | `src/modules/metrics`, `src/plugins`, `src/config`, `src/db`, `prisma/seed.ts` | none that others read | reads |

How they interact. One Node process serves the API and runs the worker. A booking
request writes rows in Postgres, then adds delayed jobs to the queue; the queue
hands a job to the worker when its timer fires; the worker runs the sender, which
reads the rows, calls the provider and records the send; the worker's `failed`
handler writes the row's state behind the worker's back. Replies change the event
the sender reads. Replay puts rows back into the queue. Nothing is locked: every
`await` is a point where any other handler may run, and a crash may come between
any two of them. What Postgres and Redis store survives a crash; what handlers
were about to do does not. The study runs the whole against a provider with an
outage: several runs of a sweep at once, each with a stack of its own, meeting only
in the directory of result files that the analysis reads.

Which behaviours are hard: two jobs for one reminder; the gap between the
provider's answer and the commit; handlers that are not awaited; state read before
an await and used after it; the order of queue and row updates; keys claimed before
the work; stalls that re-run a job; the waits between attempts against an outage;
what a second signal does to a shutdown; a sweep that is killed and resumed, an
analysis beside a sweep that is still writing, and numbers computed in several
places from different fields that must agree. `PROJECT.json` lists each at its line
under `hazards` with the properties that watch it.

## 2. Modules

    JobQueue <- Delivery <- DeliveryInvariants <- DeliveryProofs <- TimingProofs
                 |                     |               |
                 |           DeliveryRefinement (of DeliveryLedger)
                 +- DeliveryClaims, DeliveryRefinement <- MCDelivery

    Booking <- BookingProofs, MCBooking      Shutdown <- ShutdownProofs
    Inbound <- InboundProofs, MCInbound

    Waits <- Measurement <- MeasurementProofs
      |        |                  |      |
      |        |                  |      +-------------+
      +- Backoff <- Outage <- OutageProofs             |
      |             (with MockProvider; MCOutage)      |
      |     Analysis <- Study <- StudyNumbers <- StudyProofs
      |        (Measurement) |          |              |
      |            Sweep <---+          +- MCStudy     |
      +- Cohort <-----------------------+--------------+

`A <- B` means that B extends A.

**JobQueue** is the part of BullMQ the code relies on. `qstate` is where a job is,
`made` is `attemptsMade`, `stalls` counts how often it was found active with nobody
running it. A job that stalled more than `MaxStalls` times is failed, unrun, when
it is next picked up (`Pick` of Delivery), as BullMQ 5 does.

**Delivery** is the core: scheduler, worker, sender, replay, and the two statements
of a reply that touch events, over the database and the queue. Every awaited call
is one action. `pc[j]` names the await the run of job `j` is at:

| `pc` | action | code (`reminder.sender.ts`, `reminder.worker.ts`) |
|---|---|---|
| load | `Load` | findUnique with its event, cancelled and stale tests (21-40) |
| cancel | `SkipRow` | the CANCELLED updates (29-46) |
| check | `Check` | the SEND key lookup (48-65) |
| dedupe | `Dedupe` | SENT without a send (65-71) |
| mark | `MarkSending` | SENDING (73-76) |
| call | `ProviderAccept`, `ProviderReject` | `provider.sendMessage` (80-86) |
| commit | `CommitSend`, `CommitConflict` | the transaction: key, log row, SENT (88-115) |
| finish | `Complete` | the processor returns, the job is removed |
| retry, fatal | `Fail` | the processor throws, `failed` is emitted (70-99) |

`failures` holds emitted `failed` events whose handler has not written the row yet;
the handler is not awaited, so they are written in any order (`HandleFailed`) or
not at all (`HandlerFails`). `enq` is the await of the enqueue loop of each row,
`todo` and `adding` are those of each replay call, `replying` holds replies that
were matched and not yet written. `DbError` throws at any statement. `Crash`
forgets `pc`, `failures`, `enq`, `todo`, `adding` and `replying`; `Stall` is the
stall check that later hands the orphaned job out again. `calls`, `accepted`,
`lost` and `cancelled` are history and no guard reads them.

**DeliveryInvariants** holds what each step preserves, **DeliveryProofs** and
**TimingProofs** the proofs, **DeliveryClaims** two statements of the repository the
code does not keep.

**DeliveryLedger** is the abstract specification: no queue, no rows, no statements,
no retries. A sender accepts a letter's delivery only if every acceptance it had
before was forgotten, an acceptance is put on record once or is of no use, and only
what is on record is ever shown as sent. **DeliveryRefinement** instantiates it over
Delivery: jobs are senders, a run at `commit` has an acceptance in hand, the SEND
keys are the record, SENT rows are what is shown. `LedgerKept` is checked by TLC in
the retry run and proved in **DeliveryProofs**.

**Booking** is `POST /v1/events` under an Idempotency-Key (`event.controller.ts`
48-75 and what it calls): requests with one key are retries that may overlap.
`response` is the stored body, abstracted to the event it names and the states of
its reminders. `Fails` is a statement that throws, `Crash` ends every request in
flight without an answer.

**Inbound** is the webhook (`inbound.service.ts` 22-83): `Claim`, `FindRecipient`,
`FindEvent`, `Log`, `Update` are its awaits; several calls may carry one message, and a
booking may make a recipient of a phone between two of them (`recipients`).

**Waits** is `computeBackoff` (worker 26-51) as operators and, beside it, the study's
replica of it (`mc_wait_sums`). `Math.random()` is any fraction of a grid; waits are
whole milliseconds, so `Math.floor` is `\div`; the memory of the decorrelated
strategy is kept in units of 1/Grid ms, rounded down. **Backoff** is the worker's
`lastDelay` map around it (79-100): retries, ends and restarts of several jobs.

**MockProvider** is `mock.provider.ts`: trigger words, outage counted from boot,
dice, counters, attempt log with its limit. **Measurement** has the study's
counting functions as operators. **Outage** puts the three together as the
experiment of `run-one.sh`: reminders that fall due at one instant, retried with
the waits of Backoff against the mock, with replay and restart. One attempt is one
step there: what happens within an attempt is Delivery's subject. What the worker's
`failed` handler makes of the row is a step of its own: `TryLater` and `GiveUp` leave the
row SENDING and a handler in `writes`, and `Handled` writes `row` and `attempts` when it
gets to it, after later ones perhaps (which may overwrite SENT), or `HandlerFails`. `slips`
counts the updates that were lost or were not the next in order; it is history.

**Analysis** is what `analyze.py` computes from the result files it has loaded, as
operators named after its parts: the summary, the checks on the raw data, the
failure injection, the record of each outage run with its bracket of the recovery,
the effective window and the coverage model, the load of the recovery, the
steady-state comparisons, and the conditions under which each part raises. Ratios
are kept as the two numbers they are made of and midpoints in quarters, so that
nothing is rounded.

**Sweep** is `sweep.sh` and `run-one.sh` as processes: each slot reads every P-th line
of the list, skips a run whose file exists, brings up its stack (`Book`), polls and
reads the results (`Measure`), opens the file (`torn`), finishes it (`whole`) and takes
the stack down, or fails to. `Break` is a command that fails under `set -e`; `Kill` is
the death of the sweep or the machine, after which `Launch` starts it again.
`rows` is what the database of a slot's stack holds, `rowsIn` which batches a result
file was read from.

**Study** composes Sweep with runs of `analyze.py`: check the constants against
`env.ts`, list the directory, read file after file, then write four tables and five
figures in their order, light and then dark, each with what Analysis says or an
exception. `out` is, per output, the files it was made from. The sweep goes on
meanwhile, and the analysis may be interrupted anywhere.

**Cohort** computes the result file of one run from its choices (strategy, draws,
outage, dice, lateness, timeout), so that TLC can hand the analysis over a thousand sets
of files and compare each number with how the runs came about: that is **StudyNumbers**.
The choices include how long each `failed` handler takes to write the row, for ever if
it fails (`lag`), and the instants of the script's queries (`reads`), one after another
while the run may go on: the last count of what is left, SENT, DEAD, the sum of
`attempts`, the latencies, `/metrics`, and at `cut` `/metrics/attempts`. `SentAt`,
`DeadAt` and `Attempts` are what a row says at an instant; the log is the provider's
own. **MCStudy** encodes the choices in the number of a file and lists the sets of files
and the sweeps a study starts from.

**Shutdown** is `server.ts`: start, signals, and one shutdown call per signal, each
at one of its awaits (`stage`), beside requests, jobs and `failed` handlers.
`closing` is what some call has begun to close, `closed` what is closed.
`app.close()` waits for requests, `worker.close()` for jobs; a second
`redisConnection.quit()` on an ended connection throws (`Refused`).

Every module names its mutants in comments: operators that change a definition the
way a plausible bug would. TLC must find the property violated with the mutant in
place; they are used for nothing else.

## 3. Runs

| Run | Instance | Bounds | States | Properties |
|---|---|---|---|---|
| retry | 1 event, its T-2h reminder, 2 attempts, 1 stall, 1 slot | 2 crashes, 1 failed statement, time 2 | 78,000 | ResendOnlyThroughTheGap, CallBudget, NeverEarly, DeadIsParked, OnlyPendingLackJobs, NoSilentDrop, JobSettles, LedgerKept |
| redrive | 1 reminder, 2 replay calls, 2 fresh jobs, 1 attempt, 2 slots | 1 failed statement, time 2 | 1,300,000 | SentMeansDelivered, OneDeliveryRecord, GivenUpShows, QuietStaysQuiet |
| booking | 3 requests with one key, 1 without | 1 crash, 1 failed statement | 8,100 | OneBookingPerKey, AnswersAgree, ConflictHasCause |
| inbound | 5 calls, 4 messages (one delivered twice), 3 appointments, 2 customers and a stranger who may become one | 1 crash, 1 failed statement, time 2 | 3,400,000 | OncePerMessage, ChangesAreAccountedFor |
| backoff | 2 jobs, 6 strategies, 4 attempts, 3 random numbers | 1 restart | 34,000 | ReachHolds, ReplicaAgrees, NoLeak, MemoryBounds |
| outage | 2 reminders, 1 replay, 6 strategies, 3 attempts, every trigger word | 1 restart, time 7, attempts on time; handlers: 2 outstanding and 1 lost or out of order (`MCNext`) | 1,600,000 | OutageTypeOK, BooksBalance, GivenUpFellShort, SizingRule, WordsKeepTheirPromise, PeakIsWorstWindow |
| shutdown | 2 requests, 2 jobs, 2 signals | 1 failing step | 4,700 | UsersFirst, OneSignalExitsZero, SignalEnds |
| study | about 1700 sets of result files of 2 reminders, 4 attempts under an outage, 3 otherwise; a sweep of 3 runs in 2 slots | 2 sweeps, 1 analysis, waits up to 12, 3 random numbers | 208,000 | RecoveryInBracket, SurvivesByItsWaits, ReachIsSurvival, LoadCountsAgree, PercentilesRank, ChecksFindUnfinished, CompleteSweepIsAnalysed, OutputsInStep, OwnRowsOnly, SweepCovers |
| late_failure, lost_dead_letter, lost_reply, cancel_undone | smallest that shows it | | | one claim each, violated: section 6 |

What the properties say, beyond their comments in the modules:

- *Resending.* A job is accepted by the provider twice only if an acceptance was
  lost before its commit (`ResendOnlyThroughTheGap`), and once a reminder is quiet
  (recorded with no run past the check, or started, or cancelled) no job of any
  origin calls the provider for it (`QuietStaysQuiet`). Together they say where the
  code's "at least once" comes from, and that it comes from nowhere else.
- *Records.* However many jobs send one reminder, there is one SEND key and one log
  row (`OneDeliveryRecord`), and SENT rests on both a key and an accepted call
  (`SentMeansDelivered`).
- *Dropping.* A job leaves the queue without a send only for a started or cancelled
  event (`NoSilentDrop`); a DEAD row has a job in the failed set (`DeadIsParked`);
  while nothing but sends fails, a reminder whose jobs were all given up still shows a
  positive `attempts`, although its row may say SCHEDULED or FAILED (`GivenUpShows`).
  Whatever crashes or fails between a booking's commit and its jobs, a reminder that
  never got a job is PENDING and no other row lacks one, so that the sweeper the
  repository plans would find all of them by that state (`OnlyPendingLackJobs`).
- *Ledger.* All of delivery is a refinement of DeliveryLedger (`LedgerKept`).
- *Replies.* A message is handled once (`OncePerMessage`), and a confirmed or
  cancelled appointment has a logged message of its own customer that says so
  (`ChangesAreAccountedFor`).
- *Outage.* The attempts of the rows never exceed the failed calls and equal them once
  every handler has written in order, and the counters and the log agree with the
  settled rows whatever became of the handlers (`BooksBalance`); a reminder given up in
  an outage had waits that sum to less than what was left of it (`GivenUpFellShort`), so
  a schedule whose guaranteed sum covers it delivers for every draw (`SizingRule`).
- *Study.* The provider recovered inside the window W the analysis infers from calls
  alone (`RecoveryInBracket`); in finished runs a reminder was delivered exactly as the
  sum of its waits against W predicts, up to the width of W (`SurvivesByItsWaits`), and
  the reach the report quotes is where predicted survival leaves 100 %
  (`ReachIsSurvival`). Load is counted by sliding windows, by bins and by attempt, which
  agree, and in two tables, one from the rows and one from the log, which agree in
  settled runs and bound each other otherwise (`LoadCountsAgree`). Interpolated
  percentiles have the ranks they claim (`PercentilesRank`). The checks on the raw data
  pass on runs that were settled when the script last counted what was left, and runs
  with attempts to come do not pass two of them (`ChecksFindUnfinished`): no other part
  of the analysis would notice, since none looks at `timed_out`. Files as the sweep
  makes them never make it raise (`CompleteSweepIsAnalysed`).
- *Files.* Tables and figures written by interrupted analyses beside a running sweep
  are each made from whole files, and the earlier ones from at least what the later
  ones are (`OutputsInStep`). A result counts other runs' reminders only after a kill
  or a failed teardown (`OwnRowsOnly`), and the slots' shares cover the list
  (`SweepCovers`).

Why the bounds are enough. Two attempts show a first failure, a retry and exhaustion;
one stall allowed and two crashes reach the stall limit; two slots and three jobs for
one row make every pair of statements of two runs of `send` overlap; two replay calls
are needed for the double re-drive. The clock needs only the instants that comparisons
separate: before a reminder is due, due, and the start. Three keyed requests make a
first, an overlapping and a late retry. In outage, attempts start on time (`MaxLate =
0`) and the outage ends one step inside the longest schedule, so that draws decide who
survives; deeper schedules are in backoff. The log limit of 4 is reached by two
reminders with three attempts. Two `failed` handlers outstanding (`MaxWrites`) can
overtake each other, and one may be lost (`MaxSlips`). To keep the instance small
`MCNext` allows that only for plain reminders in one run; beside a trigger word, a
replay or a restart one handler at a time is late, and beside the latter two the clock
stops at `LastBeside`. The proofs have no such bounds. In study every file is two
reminders, enough for a tie, a spread and a partial failure; every draw of three waits
under each strategy with jitter meets three lengths of outage, on time or late; four
attempts have waits below, at and above the cap. The sets of files are one steady run
with an outage run and a second one, plain or jittered; all steady strategies at one
rate or both with few or many failing calls; sets with a run gone wrong (cut short, up
before the first attempt, never up, nothing logged, wrong budget); outages that end or
not in which each of one reminder's handlers writes at once, after another attempt or
never, and the queries are made when all is over, between its attempts, or some while
before the log; and one analysis beside one sweep from nothing, or two sweeps, with
`env.ts` matching, drifted or absent. Every bound is a CONSTANT named `Max...`; crashes,
failed statements and restarts are counted against one. `CHECK_DEADLOCK FALSE` is set
because every bounded history ends: all jobs settle, all requests are answered, the
process exits, the sweeps and analyses are over.

Symmetry is used for fresh job ids and replay calls (redrive) and for jobs
(backoff), which no definition tells apart; it is not used where liveness is
checked.

## 4. Fairness

`FairSpec` of Delivery has weak fairness on the clock, on the enqueue loop, on each
job's timer, slot, next statement and stall check, on replay loops that have
started, and on `failed` handlers. That is what an event loop, BullMQ's timers and
the database driver provide: an awaited call returns or throws. There is no
fairness on bookings, replies, starting a replay, failing or crashing: nobody is
obliged to do those. In Shutdown requests, jobs and each shutdown call go on;
the `failed` handlers have no fairness, since no one waits for them. Weak fairness
is enough because nothing that is enabled there is disabled again by others, except
for slots (`Pick`), which with one job per slot stay free.

## 5. Proofs

Every theorem holds for every value of the constants: any number of appointments, jobs,
replay calls, slots, requests, messages, signals, reminders, runs, files and sweeps, any
lead times, base, cap, budget and resolution of the random numbers, and any bounds on
time, crashes and errors. The assumptions are those on the constants, named
`...Assumption` in the modules that declare them; TLC evaluates them in every run.
Beyond types and positive sizes they say: the reminders of an outage are finitely many;
`need_attempts` finds an answer for every window it is asked about (`SearchAssumption`);
a study starts from a list of its own files (`StudyAssumption`).

Theorems about the numbers of the study have one hypothesis more, `Told`: every
result file came from a run of `run-one.sh`, that is, some choices of Cohort with the
settings its arguments may have (`IsRun`). Files and results are constants of Study;
that those of the instance satisfy it is `ChoicesAssumption` of MCStudy.

| Module | Theorems | Say |
|---|---|---|
| DeliveryProofs | `TypeCorrect`, `WellFormedAlways` | types; a run belongs to an active job, an added job names a reminder |
| | `RecordsAlways`, `SentIsTrue`, `DeliveredOnceOnRecord`, `ResendsAreLosses` | the evidence behind keys, SENT rows and resends |
| | `DeadLettersAreParked` | `Spec => []DeadIsParked` |
| | `CallAccountAlways`, `CallsAreBudgeted` | `Spec => []CallBudget` |
| | `LedgerImplemented` | `Spec => LedgerKept`: Delivery refines DeliveryLedger |
| TimingProofs | `UnbookedAlways`, `NoReminderIsEarly`, `NoJobIsDroppedSilently`, `JoblessRowsSayPending` | `NeverEarly`, `NoSilentDrop`, `OnlyPendingLackJobs` |
| | `QuietForGood`, `GivenUpRowsShow` | `QuietStaysQuiet`, an action property; `GivenUpShows` |
| BookingProofs | `BookingInvariant`, `BookingTypeCorrect`, `BookedOnce`, `SameAnswers`, `ConflictsHaveCauses`, `AnswersStay` | types; `OneBookingPerKey`, `AnswersAgree`, `ConflictHasCause`, `AnsweredStaysAnswered` |
| InboundProofs | `InboundInvariant`, `InboundTypeCorrect`, `HandledOnce`, `ChangesAreLogged` | types; `OncePerMessage`, `ChangesAreAccountedFor` |
| ShutdownProofs | `ShutdownInvariant`, `ShutdownTypeCorrect`, `UsersGoFirst`, `ExitsClean`, `OneSignalSuffices` | types; `UsersFirst`, `CleanExit`, `OneSignalExitsZero` |
| OutageProofs | `BackoffInvariant`, `ReachAlways`, `MemoryNeverLeaks`, `ReplicaIsFaithful`, `MemoryStaysInBounds` | of Backoff: `ReachHolds`, `NoLeak`, `ReplicaAgrees`, `MemoryBounds` |
| | `PlacedAlways`, `OutageTypes`, `BootAlways`, `CountsAlways`, `AttemptsAlways`, `DeadAlways` | of Outage: types, and what the next rows follow from |
| | `WordsAreKept`, `BooksAlwaysBalance`, `OnlyTheShortFail`, `SizedSchedulesDeliver`, `PeakIsFound` | `WordsKeepTheirPromise`, `BooksBalance`, `GivenUpFellShort`, `SizingRule`, `PeakIsWorstWindow` |
| StudyProofs | `SweepInvariant`, `SweepTypeCorrect`, `RowsAreOwn`, `SweepIsCovering` | of `SweepSpec`, which starts from any list and files: `OwnRowsOnly`, `SweepCovers` |
| | `OutputsAgree` | `StudySpec => []OutputsInStep`, whatever the result files say |
| | `StudyImplementsSweep` | `StudySpec => SweepSpec`: the analyses leave the sweep alone |
| | `ReachQuotedIsSurvived` | `StudySpec => []ReachIsSurvival`, the coverage model for every base, cap and budget |
| | `MemoryIsTrue` | what an analysis has in memory is what the runs did |
| | `UnfinishedRunsAreFound`, `OwnSweepIsAnalysed`, `RecoveryIsBracketed`, `WaitsDecideSurvival`, `PercentilesAreRanked`, `LoadsAgree` | `ChecksFindUnfinished`, `CompleteSweepIsAnalysed`, `RecoveryInBracket`, `SurvivesByItsWaits`, `PercentilesRank`, `LoadCountsAgree` |

MeasurementProofs has the lemmas that OutageProofs and StudyProofs share.
`AnsweredStaysAnswered`, `CleanExit` and the type invariants of Delivery, Booking,
Inbound, Shutdown and Sweep are proved and not checked by a run.

*Delivery.* None of its properties is inductive by itself. The inductive invariant is
built in layers, each proved on top of the ones before:

1. `WellFormed`: types, `RunsAreActive`, `JobsHaveTargets`. Without the second, a
   stall could hand out a job that is being run; without the third, `state[target[j]]`
   would not be a row.
2. `Records`: a run at `commit` has an acceptance behind it, a run at `dedupe` has
   the key, a key has an acceptance, SENT has a key; and `GapCount`, which says of
   each job that its acceptances are at most its losses, plus one while an
   acceptance is in hand (`commit`) or on record (the key). A run that has passed the
   check while another job took the key still has at most its losses; that third
   conjunct is what makes the count survive a concurrent sender.
3. `Parked`: a pending `failed` event that will write DEAD belongs to a failed job.
   This carries `DeadIsParked` across the un-awaited handler.
4. `CallAccount`: each provider call but the current one was followed by a counted
   failure or a stall; `Account` says when the current one has been paid
   (`Charged`), and that a job that stalled out runs no more.
5. `Unbooked`: nothing is at work on the reminders of an event that is not booked,
   so a booking never changes the start a job was timed by. With it, `Timely`: a
   reminder's own job that has ever left its delay is due.
6. `Reasons`: a run on its way to leave the queue without a send has a reason, and
   reasons last.

Each layer has an initial-state lemma and a step lemma with one step per action;
frame lemmas cover the many actions that leave a layer's variables alone. The
refinement uses `WellFormed` and `Records`: `GapCount` is what lets `ProviderAccept`
map to `Accept`, a commit to `Record` or `Discard`, a run that is cut off to `Lose`,
and every write of a row to `Show`, `Hide` or a stutter. `QuietStaysQuiet` rests on
what moves only forward (time, keys, cancels: `Forward`) and on runs coming to a call
only through the check (`OnTheWayToCall`).

*Booking.* Of the requests with one key at most one is past the unique constraint
(`OneHolder`), it alone stores a response, and every 201 is that response.
*Inbound.* Of the calls that carry one message at most one is past the claim, it logs
once, and updates only what it logged. *Shutdown.* Every call closes the same
resources in the same order, so that what is closed is a prefix of it however many
calls overlap, and what was drained takes nothing new. *Backoff.* What a live job
remembers is a wait no shorter than the base, and so the worker's and the replica's
forms of the same draw agree; that needs facts about integer division, proved as
lemmas. *Sweep.* The rows in a stack and in a result are of its own run or were left
behind, and a slot has settled the lines it has read.

*Waits.* The sums of waits, the schedules and the replica are recursive functions.
The library's induction takes an operator, which the prover cannot instantiate, so
MeasurementProofs does without: a set of naturals that is not empty has a least member
(`LeastNat`, from the well-foundedness of `<`); hence a set with 0 and all successors
is Nat (`Induct`); hence a function that satisfies a recursive equation exists
(`BoundedRecursion`), which is what makes the `CHOOSE` behind a recursive definition
mean something; and the same over the parts of a finite set (`PartInduction`,
`SumsOver`) for the sums of the community modules' folds. With these, `Reach` says
between which bounds a sum of so many waits lies under each strategy, and the least
draws attain the lower one.

*Outage.* The invariant has these parts beside types. `JobsHold`: no two jobs are due
for one reminder, and a job is due only for a reminder that is neither DEAD nor
delivered. `WritesHold` and `SentHolds`: a DEAD still to be written is the only one of
its reminder, which was not delivered, so that no late handler gives up what was sent; a
row that says SENT was delivered. `SeenHolds`: the provider has seen a reminder no more
often than its job was tried, which the trigger words depend on. `CallsCount` and
`RowsCount`: log, counters, deliveries and the queue's attempts count the same, as sums
over all reminders. `AttemptsHold` ties the column to the queue: a row counts no attempt
its job has not made, and while no handler slipped every attempt it does not count yet
has a handler that still will. `DueHolds`: a job is due when its waits since the first
attempt are over. `DeadHolds`: who was given up took all its waits and they ended before
the recovery; with `Reach` that is the sizing rule. `BootHolds` ties the provider's boot
to restarts. `sliding_peak` opens a window at each attempt only; that no window anywhere
holds more is `PeakIsFound`, from the order of the log.

*Study.* An analysis that has listed the directory has found all that any output was
made from, since files are never removed. What its numbers mean is proved in three
steps. First, of any run: `ResultsAreTruthful` says what holds of each result file
(`Truthful`): the log is in order, nothing is accepted before the recovery, the sums of
waits keep their reach, and the three sources bound each other (`BooksHold`): the script
saw no more SENT rows than the log has successes, no more attempts in the rows than it
has failures, no more calls than it has entries, and no more DEAD rows than leave room
for successes and attempts to come. For each bound what a later query sees must contain
what an earlier one saw (`ReadFacts`), and a row's attempts be made before they are
written. If nothing was left at the script's last count and the writes came in order, a
row that says SENT or DEAD stays so and says all there is to say (`SettledRow`), and all
these are equal. In such a run as many reminders were delivered as have waits that reach
the recovery: no fewer if nothing else fails, no more if no attempt is late; without an
outage, those whose calls fail fewer times than they are made, no earlier than their
delays and waits. Second, of the memory: `Known` says that what is loaded is what the
files say and that the records are those of the logs (`Recorded`: the first success is
the least time of a success, the last failure the greatest before it). Third, the
claims, from these two alone: W holds all brackets, each of which holds its run's
recovery; survival counts fall with the window; the pooled deliveries are sums between 0
and the number of reminders. A percentile lies between two neighbouring ranks
(`PercentileParts`), and rises when its samples do (`PercentilesFollow`): the latencies
of runs that are alike can be paired, so that none of those without waits is above its
partner. The counts of the load agree because bins and the attempts of the exponential
wave are classes that part the log (`ClassesCount`), a window lies in two bins that meet
in it (`WindowInTwo`), the first success parts the log in two whose windows add up
(`PeakOfParts`), and the calls before it all failed (`BeforeFirstSuccess`).
`OrderHolds`, a part of `Truthful`, says at which attempt of its schedule a reminder
succeeds.

Five claims were stated too widely. `RecoveryInBracket` and `SurvivesByItsWaits` are
false of runs whose provider also fails after it recovered: the last failure before the
first success may then come after the recovery (TLC shows it with the run of MCStudy
that fails after it is up). The outage runs of `sweep.sh` have a failure rate of 0
(lines 18-20), and the claims now say so (`OnlyOutage`). `CompleteSweepIsAnalysed` is
about the sweep's own failure rates (lines 13-17): with a steady run at a rate of 0 or
100 % `analyze.py` divides by zero. `PercentilesRank` says that not waiting has the
lowest percentiles of runs that are alike but for the strategy (`Alike`): as many of
each, finished, with the same budget, failing calls and lateness. Before it asked for
the same failing calls only, which more runs of one strategy, or later ones, would
refute. `LoadCountsAgree` placed every success of the exponential wave at the first
attempt its schedule puts after the recovery; that too holds only if nothing else fails,
and on the other hand needs no finished run. It also needs `Window` to be positive (a
second in `analyze.py`), which `AnalysisAssumption` now says. And with rows and log read
from their own sources, the two tables and the checks (`ChecksFindUnfinished`) agree
only in runs that were settled when the script first asked and whose handlers wrote in
order (`Settled`): without `orderly` TLC finds runs in which a late or lost update makes
them differ. That the checks find unfinished runs needs both of `retriesAreFailures` and
`booksBalance`: each alone passes on some.

Only model-checked: the liveness properties `JobSettles` and `SignalEnds`. Liveness and
ENABLED are beyond the prover.

## 6. Where code and text disagree

Checked by a run each, listed under `findings`:

- *late_failure*: `schema.prisma` calls FAILED a failure that will be retried. The
  first failure's handler is not awaited and may write after the next attempt ended:
  a SENT row becomes FAILED for good, with no job and no handler left that would change
  it (and in the same way a DEAD one, or a CANCELLED one, which the claim leaves out).
- *lost_dead_letter*: exhausted reminders are said to be replayable. If the process
  dies between the queue's last failure and the handler's write, the row is not
  DEAD and replay never finds it.
- *lost_reply*: inbound is said to be at least once. The key is claimed before the
  work, so a handler that dies after the claim turns the redelivery into a
  duplicate of a message nobody handled.
- *cancel_undone*: a cancel is said to stop reminders. A YES matched before a NO was
  written, and written after it, confirms the event again.

Seen in the models and not given a run:

- `provider.ts:9` says the key gives at-most-once delivery; with the gap before the
  commit it does not, as `reminder.sender.ts` and the README say themselves.
- `reminder.scheduler.ts:68` writes SCHEDULED after `queue.add`, whatever the worker
  has made of the row in the meantime (`EnqueueFlip` after `CommitSend`).
- A stale reminder nobody replied to becomes CANCELLED, which the schema explains as
  confirmed or cancelled; a confirmation in fact never cancels a reminder.
- `attempts` counts failed attempts of any cause, database errors included; the study
  reads it as failed provider calls. Without such errors it never exceeds them, and
  equals them once the handlers have written in order (`BooksBalance`).
- `analyze.py` has "checks on the raw data" (216-228). They compare
  Postgres, `/metrics` and `/metrics/attempts`, which `run-one.sh` reads one after another
  (64-71); a run out of time may go on in between and a handler's update be lost, so that
  they fail on sound data, and no part of the analysis looks at `timed_out`.
- A NO written after the sender has read the event does not stop the send.
- Rows left PENDING are said to wait for a reconciliation sweep, which does not exist.
- 409 is explained as "still in flight"; a key whose request was refused with 422,
  failed or died answers 409 for ever. `ConflictHasCause` states what is true.
- The unique (eventId, kind) is said to stop a retried booking from scheduling twice.
  A retry has a new event id; only an Idempotency-Key stops it.
- `metrics.service.ts:26` calls the failed set the dead-letter set, but a replay adds
  a new job and leaves the old one failed.
- The deriving part keeps None for a run in which nothing was delivered
  (`analyze.py:274-287`, as the definition at 209 says it may be), but an
  exponential run without a success raises at 309, on the minimum of nothing.
- "fresh DB → every row is this batch" (`run-one.sh:54`) fails after a kill or a
  failed teardown: the volumes stay, and the next run in the slot counts their rows.
  `OwnRowsOnly` states the exception.
- A run that dies while it writes leaves a torn result file. The next sweep skips the
  run, since the file exists, and `json.load` raises on it in every analysis until it
  is removed by hand.
- An analysis that raises or is interrupted leaves new tables beside old figures, or
  light figures that are newer than the dark ones; nothing in the files tells.
- A second signal exits with 1 when its `quit` meets a closed connection, before the
  first call has disconnected the database (`OneSignalExitsZero` states the limit);
  `failed` handlers under way at shutdown are lost.

## 7. Not modelled, and assumptions

- Redis or Postgres losing data; a job lock lost without a crash. A statement that
  throws is assumed not to have been applied, and a restart to follow a crash.
- One tenant: no statement crosses tenants. Rows are never deleted by the code, so
  the "row is gone" branches of sender and handler are unreachable.
- Two webhook rows with one provider id: the claim precedes the log, so the log's own
  unique index is never met.
- A redrive is bounded by `FreshJobs`; BullMQ ids are otherwise unbounded.
- Clocks: one clock, read at each statement; the time between two statements is
  arbitrary. BullMQ does not promote a delayed job early.
- A job's end and the worker's `completed` or `failed` handler are one step of Backoff,
  so that `NoLeak` speaks of handlers that have run; the early return of the `failed`
  handler without a job (`if (!job) return`, worker 97) is not modelled, since BullMQ
  passes none only for a stalled job that is gone.
- Message text, phone formats, JSON, logging, HTTP schemas, the tenant hook,
  configuration parsing, metrics and seeds.
- `GET /metrics` changes nothing. Its counts are those of the states modelled, taken at
  different times by four parallel reads; `run-one.sh` asks for them when it saw all
  reminders settled or its time is out. Cohort has the study's part of it (`calls`).
- Of the analysis: the precision block and other standard deviations and errors
  nothing branches on, the analytic mean and the crossover printed for comparison,
  rounding, the layout of `derived.md`, and the drawing of the figures, except the
  scale of the latency figure, which can raise, and the bins of the herd figure, which
  count. An output is written in one step. The Monte Carlo draws of the replica are
  all draws of the grid, each once, where the code takes many at random.
- A result file in StudyNumbers is computed by Cohort, not by a run of Outage: its
  worker is late by the same amount for every retry, and its provider fails the first
  calls of a reminder where the code throws dice. An accepted call and the commit that
  follows it are one instant there, and no statement but a handler's update is lost.

## 8. Plan

Done: JobQueue, Delivery, Booking, Inbound, Backoff, MockProvider, Measurement,
Outage, Shutdown, Sweep, Analysis, Study; DeliveryLedger and the
refinement; the proofs of section 5.

Left, in order:

1. `Syncin`: Booking, Delivery and Inbound composed over one database, so that a
   retried booking, its reminders and the replies to them are one behaviour. Delivery
   already has the statements of the other two that touch its rows; what is missing
   is a retried booking's second event with reminders of its own.
2. Metrics, as reads over Delivery whose parts are taken at different times.
