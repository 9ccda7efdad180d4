---------------------------- MODULE MockProvider ----------------------------
(***************************************************************************)
(* MockProvider.sendMessage: the provider of tests and of the measurement  *)
(* study, which rejects by trigger words in the message, during an outage  *)
(* after boot, and at random, and keeps counters and a log of its calls.   *)
(* The latency it sleeps comes before everything else, so a call is one    *)
(* step.  All of its state is the process's.                               *)
(***************************************************************************)
EXTENDS Integers, Sequences

CONSTANTS
  Keys,          \* idempotency keys: the ids of reminders
  MaxAttempts,   \* REMINDER_MAX_ATTEMPTS
  RecoverAfter,  \* MOCK_RECOVER_AFTER_MS
  LogLimit       \* 50000

VARIABLES
  now, boot,     \* Date.now(), and when the process started
  trait,         \* the trigger words in the message of each key
  injecting,     \* whether MOCK_FAILURE_RATE is above 0
  seen,          \* calls: the calls with each key since boot
  log,           \* attempts
  tally          \* counters

Triggers == {"broken", "doomed", "comeback", "flaky"}

TypeOK ==
  /\ now \in Nat /\ boot \in 0 .. now
  /\ trait \in [Keys -> SUBSET Triggers]
  /\ injecting \in BOOLEAN
  /\ seen \in [Keys -> Nat]
  /\ log \in Seq([t : boot .. now, ok : BOOLEAN, key : Keys]) /\ Len(log) <= LogLimit
  /\ \A i, j \in DOMAIN log : i <= j => log[i].t <= log[j].t
  /\ tally \in [calls : Nat, ok : Nat, failed : Nat]

Unseen == [k \in Keys |-> 0]
Zeroes == [calls |-> 0, ok |-> 0, failed |-> 0]

Boot   == seen = Unseen /\ log = <<>> /\ tally = Zeroes
Reboot == seen' = Unseen /\ log' = <<>> /\ tally' = Zeroes

\* Mutant: a comeback recovers within its first run.
ScriptedEarly(k, n) ==
  \/ "doomed" \in trait[k]
  \/ "comeback" \in trait[k] /\ n < MaxAttempts
  \/ "flaky" \in trait[k] /\ n < 3

\* The transient failures the words ask for, at call n of the key.
Scripted(k, n) ==
  \/ "doomed" \in trait[k]
  \/ "comeback" \in trait[k] /\ n <= MaxAttempts
  \/ "flaky" \in trait[k] /\ n < 3

\* Mutant: the outage includes the instant it ends.
DownAtTheEnd == now - boot <= RecoverAfter

\* Everything fails until the process has been up for RecoverAfter.
Down == now - boot < RecoverAfter

\* What call n with key k may answer; the words come before the outage and the
\* outage before the dice.
Verdicts(k, n) ==
  IF "broken" \in trait[k] THEN {"permanent"}
  ELSE IF Scripted(k, n) \/ Down THEN {"transient"}
  ELSE {"ok"} \cup (IF injecting THEN {"transient", "permanent"} ELSE {})

\* Mutant: the log grows without a limit.
AppendAlways(k, ok) == Append(log, [t |-> now, ok |-> ok, key |-> k])

\* The log stops growing at its limit.
Logged(k, ok) ==
  IF Len(log) < LogLimit THEN Append(log, [t |-> now, ok |-> ok, key |-> k]) ELSE log

Record(k, ok) ==
  /\ tally' = [tally EXCEPT !.calls = @ + 1, !.ok = IF ok THEN @ + 1 ELSE @,
                            !.failed = IF ok THEN @ ELSE @ + 1]
  /\ log' = Logged(k, ok)

SendMessage(k, v) ==
  /\ v \in Verdicts(k, seen[k] + 1)
  /\ seen' = [seen EXCEPT ![k] = @ + 1]
  /\ Record(k, v = "ok")
=============================================================================
