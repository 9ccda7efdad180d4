---------------------------- MODULE OutageProofs ----------------------------
(***************************************************************************)
(* Theorems about Backoff and about Outage, which adds the provider, the   *)
(* clock, the rows and replay: for any number of reminders, jobs, attempts *)
(* and restarts, any base and cap, any resolution of the random numbers,   *)
(* any length of the outage and any limit of the log.                      *)
(***************************************************************************)
EXTENDS Outage, MeasurementProofs, SequenceTheorems

-----------------------------------------------------------------------------
(* Backoff: the invariant.                                                 *)

\* What is remembered is a wait of a live job, no shorter than the base, and a
\* live job has an attempt left.
MemoryHolds ==
  /\ TypeOK
  /\ \A j \in live : made[j] < MaxAttempts
  /\ \A j \in Jobs : lastDelay[j] # NoDelay => Floor <= lastDelay[j]
  /\ \A j \in Jobs : Floor <= prev[j]
  /\ NoLeak

\* Until the first restart the replica remembers what the worker does.
ReplicaInStep ==
  restarts = 0 => \A j \in live : total[j] = modelled[j] /\ prev[j] = Remembered(j)

\* The waits of a job add up to what its strategy allows.
Reaches == \A j \in live : Reach(strategy, total[j], made[j])

\* The inductive invariant of Backoff.
Inv == MemoryHolds /\ ReplicaInStep /\ Reaches

\* The floor of what is remembered is a number.
LEMMA FloorNat == Floor \in Nat
BY WaitsAssumption, Product DEF Floor

\* What a job remembers can be drawn from.
LEMMA RememberedFloor ==
  ASSUME MemoryHolds, NEW j \in Jobs
  PROVE  Remembered(j) \in Nat /\ Floor <= Remembered(j)
BY FloorNat DEF MemoryHolds, TypeOK, Remembered, Floor

\* A retry adds a wait and remembers what it drew, in both.
LEMMA RetryStep ==
  ASSUME Inv, NEW j \in Jobs, NEW u \in 0 .. Grid - 1, Retry(j, u)
  PROVE  /\ Inv'
         /\ Wait(j, made[j] + 1, u) \in Nat
         /\ total' = [total EXCEPT ![j] = @ + Wait(j, made[j] + 1, u)]
<1> DEFINE n == made[j] + 1
           w == ComputeBackoff(strategy, n, u, Remembered(j))
           v == ReplicaWait(strategy, n, u, prev[j])
<1>1. Remembered(j) \in Nat /\ Floor <= Remembered(j) /\ prev[j] \in Nat /\ Floor <= prev[j]
  BY RememberedFloor DEF Inv, MemoryHolds, TypeOK
<1>2. /\ Draw(u, Remembered(j)) \in Nat /\ Floor <= Draw(u, Remembered(j))
      /\ ReplicaDraw(u, Remembered(j)) = Draw(u, Remembered(j))
      /\ ReplicaDraw(u, prev[j]) \in Nat /\ Floor <= ReplicaDraw(u, prev[j])
  BY <1>1, DrawBounds
<1>3. /\ n \in Nat \ {0} /\ strategy \in Strategies /\ made[j] \in Nat /\ total[j] \in Nat
      /\ j \in live /\ n < MaxAttempts
  BY BackoffAssumption DEF Inv, MemoryHolds, TypeOK, Retry, Retried
<1>4. w \in Nat /\ v \in Nat /\ (prev[j] = Remembered(j) => v = w)
  BY <1>1, <1>3, WaitBounds
<1>5. Reach(strategy, total[j] + w, n)
  BY <1>1, <1>3, ReachGrows DEF Inv, Reaches
<1>6. /\ made' = [made EXCEPT ![j] = n]
      /\ total' = [total EXCEPT ![j] = @ + w]
      /\ modelled' = [modelled EXCEPT ![j] = @ + v]
      /\ IF strategy = "decorrelated"
           THEN /\ lastDelay' = [lastDelay EXCEPT ![j] = Draw(u, Remembered(j))]
                /\ prev' = [prev EXCEPT ![j] = ReplicaDraw(u, prev[j])]
           ELSE lastDelay' = lastDelay /\ prev' = prev
      /\ strategy' = strategy /\ live' = live /\ restarts' = restarts
  BY DEF Retry, Wait
<1> HIDE DEF n, w, v
<1>7. MemoryHolds'
  <2>1. TypeOK'
    <3>1. TypeOK
      BY DEF Inv, MemoryHolds
    <3>2. made' \in [Jobs -> 0 .. MaxAttempts]
      BY <1>3, <1>6, <3>1, BackoffAssumption DEF TypeOK
    <3>3. total' \in [Jobs -> Nat] /\ modelled' \in [Jobs -> Nat]
      BY <1>4, <1>6, <3>1 DEF TypeOK
    <3>4. lastDelay' \in [Jobs -> Nat \cup {NoDelay}] /\ prev' \in [Jobs -> Nat]
      BY <1>2, <1>6, <3>1 DEF TypeOK
    <3> QED
      BY <1>6, <3>1, <3>2, <3>3, <3>4 DEF TypeOK
  <2>2. \A k \in live' : made'[k] < MaxAttempts
    BY <1>3, <1>6 DEF Inv, MemoryHolds, TypeOK
  <2>3. \A k \in Jobs : (lastDelay'[k] # NoDelay => Floor <= lastDelay'[k]) /\ Floor <= prev'[k]
    BY <1>2, <1>6 DEF Inv, MemoryHolds, TypeOK
  <2>4. NoLeak'
    BY <1>3, <1>6 DEF Inv, MemoryHolds, TypeOK, NoLeak
  <2> QED
    BY <2>1, <2>2, <2>3, <2>4, FloorNat DEF MemoryHolds, Floor
<1>8. ReplicaInStep'
  <2> SUFFICES ASSUME restarts' = 0, NEW k \in live'
               PROVE  total'[k] = modelled'[k] /\ prev'[k] = Remembered(k)'
    BY DEF ReplicaInStep
  <2>1. restarts = 0 /\ k \in live /\ k \in Jobs /\ prev[k] = Remembered(k) /\ total[k] = modelled[k]
    BY <1>6 DEF Inv, ReplicaInStep, MemoryHolds, TypeOK
  <2>2. CASE k = j
    <3>1. total'[j] = modelled'[j]
      BY <1>4, <1>6, <2>1, <2>2 DEF Inv, MemoryHolds, TypeOK
    <3>2. CASE strategy = "decorrelated"
      <4>1. lastDelay'[j] = Draw(u, Remembered(j)) /\ prev'[j] = ReplicaDraw(u, prev[j])
        BY <1>6, <3>2 DEF Inv, MemoryHolds, TypeOK
      <4>2. lastDelay'[j] # NoDelay
        BY <1>2, <4>1 DEF NoDelay
      <4> QED
        BY <1>2, <2>1, <2>2, <3>1, <4>1, <4>2 DEF Remembered
    <3>3. CASE strategy # "decorrelated"
      BY <1>6, <2>1, <2>2, <3>1, <3>3 DEF Remembered
    <3> QED
      BY <3>2, <3>3
  <2>3. CASE k # j
    BY <1>6, <2>1, <2>3 DEF Remembered, Inv, MemoryHolds, TypeOK
  <2> QED
    BY <2>2, <2>3
<1>9. Reaches'
  <2> SUFFICES ASSUME NEW k \in live' PROVE Reach(strategy', total'[k], made'[k])
    BY DEF Reaches, Reach
  <2>1. CASE k = j
    BY <1>3, <1>5, <1>6, <2>1 DEF Inv, MemoryHolds, TypeOK
  <2>2. CASE k # j
    BY <1>6, <2>2 DEF Inv, Reaches, MemoryHolds, TypeOK
  <2> QED
    BY <2>1, <2>2
<1> QED
  BY <1>4, <1>6, <1>7, <1>8, <1>9 DEF Inv, Wait, n, w

\* The invariant holds at the start.
LEMMA BackoffInit == Init => Inv
<1> SUFFICES ASSUME Init PROVE Inv
  OBVIOUS
<1>1. MemoryHolds
  BY FloorNat, BackoffAssumption DEF Init, MemoryHolds, TypeOK, NoLeak, NoDelay, Floor
<1>2. ReplicaInStep
  BY DEF Init, ReplicaInStep, Remembered
<1>3. Reaches
  BY ExpSumFacts, FloorSumFacts, WaitsAssumption DEF Init, Reaches, Reach
<1> QED
  BY <1>1, <1>2, <1>3 DEF Inv

\* A job that ends leaves the others as they are.
LEMMA EndStep ==
  ASSUME Inv, NEW j \in Jobs, Completed(j) \/ Exhausted(j)
  PROVE  Inv'
<1>1. /\ j \in live /\ live' = live \ {j} /\ lastDelay' = [lastDelay EXCEPT ![j] = NoDelay]
      /\ made' = made \/ made' = [made EXCEPT ![j] = @ + 1]
      /\ strategy' = strategy /\ total' = total /\ modelled' = modelled /\ prev' = prev
      /\ restarts' = restarts
  BY DEF Completed, Exhausted, Dropped
<1>2. MemoryHolds'
  <2>1. TypeOK'
    BY <1>1, BackoffAssumption DEF Inv, MemoryHolds, TypeOK
  <2>2. \A k \in live' : made'[k] < MaxAttempts
    BY <1>1 DEF Inv, MemoryHolds, TypeOK
  <2>3. \A k \in Jobs : (lastDelay'[k] # NoDelay => Floor <= lastDelay'[k]) /\ Floor <= prev'[k]
    BY <1>1 DEF Inv, MemoryHolds, TypeOK
  <2>4. NoLeak'
    BY <1>1 DEF Inv, MemoryHolds, TypeOK, NoLeak
  <2> QED
    BY <2>1, <2>2, <2>3, <2>4, FloorNat DEF MemoryHolds, Floor
<1>3. ReplicaInStep'
  BY <1>1 DEF Inv, ReplicaInStep, MemoryHolds, TypeOK, Remembered
<1>4. Reaches'
  <2> SUFFICES ASSUME NEW k \in live' PROVE Reach(strategy', total'[k], made'[k])
    BY DEF Reaches, Reach
  <2>1. k \in live /\ made'[k] = made[k]
    BY <1>1 DEF Inv, MemoryHolds, TypeOK
  <2> QED
    BY <1>1, <2>1 DEF Inv, Reaches
<1> QED
  BY <1>2, <1>3, <1>4 DEF Inv

\* A restart forgets, and no more.
LEMMA RestartStep ==
  ASSUME Inv, Restart
  PROVE  Inv'
<1>1. MemoryHolds'
  BY FloorNat DEF Inv, MemoryHolds, TypeOK, NoLeak, Restart, NoDelay, Floor
<1>2. ReplicaInStep'
  BY DEF Inv, MemoryHolds, TypeOK, ReplicaInStep, Restart
<1>3. Reaches'
  BY DEF Inv, Reaches, Reach, Restart
<1> QED
  BY <1>1, <1>2, <1>3 DEF Inv

\* Nothing changes in a step that leaves Backoff alone.
LEMMA IdleStep ==
  ASSUME Inv, UNCHANGED vars
  PROVE  Inv'
BY FloorNat DEF Inv, MemoryHolds, TypeOK, NoLeak, ReplicaInStep, Remembered, Reaches, Reach, vars, Floor

\* Every step keeps the invariant; the cases are the actions of Next.
LEMMA BackoffStep == Inv /\ [Next]_vars => Inv'
<1> SUFFICES ASSUME Inv, [Next]_vars PROVE Inv'
  OBVIOUS
<1>1. CASE Restart
  BY <1>1, RestartStep
<1>2. ASSUME NEW j \in Jobs, NEW u \in 0 .. Grid - 1, Retry(j, u) PROVE Inv'
  BY <1>2, RetryStep
<1>3. ASSUME NEW j \in Jobs, Completed(j) \/ Exhausted(j) PROVE Inv'
  BY <1>3, EndStep
<1>4. CASE UNCHANGED vars
  BY <1>4, IdleStep
<1> QED
  BY <1>1, <1>2, <1>3, <1>4 DEF Next

\* Every reachable state keeps the invariant.
THEOREM BackoffInvariant == Spec => []Inv
<1>1. Init => Inv
  BY BackoffInit
<1>2. Inv /\ [Next]_vars => Inv'
  BY BackoffStep
<1> QED
  BY <1>1, <1>2, PTL DEF Spec

\* What the waits of a job add up to, under every strategy and whatever is drawn.
THEOREM ReachAlways == Spec => []ReachHolds
<1>1. Inv => ReachHolds
  <2> SUFFICES ASSUME Inv, NEW j \in live
               PROVE  CASE strategy = "none"         -> total[j] = 0
                        [] strategy = "fixed"        -> total[j] = made[j] * Base
                        [] strategy = "exp"          -> total[j] = ExpSum[made[j]]
                        [] strategy = "equal_jitter" -> /\ FloorSum[made[j]] <= total[j]
                                                        /\ total[j] <= ExpSum[made[j]] - made[j]
                        [] strategy = "full_jitter"  -> total[j] <= ExpSum[made[j]] - made[j]
                        [] OTHER                     -> /\ made[j] * Base <= total[j]
                                                        /\ total[j] <= made[j] * Cap
    BY DEF ReachHolds
  <2>1. Reach(strategy, total[j], made[j]) /\ strategy \in Strategies
    BY DEF Inv, Reaches, MemoryHolds, TypeOK
  <2> QED
    BY <2>1 DEF Reach, Strategies
<1> QED
  BY <1>1, BackoffInvariant, PTL

\* The map of the decorrelated strategy has entries of live jobs only.
THEOREM MemoryNeverLeaks == Spec => []NoLeak
<1>1. Inv => NoLeak
  BY DEF Inv, MemoryHolds
<1> QED
  BY <1>1, BackoffInvariant, PTL

\* The study's replica sums the waits the worker asks for, for every strategy and
\* every run of random numbers, until a restart.
THEOREM ReplicaIsFaithful == Spec => []ReplicaAgrees
<1>1. Inv => ReplicaAgrees
  BY DEF Inv, ReplicaInStep, ReplicaAgrees
<1> QED
  BY <1>1, BackoffInvariant, PTL

\* A remembered wait is at least the base and at most three times the one before.
THEOREM MemoryStaysInBounds == Spec => MemoryBounds
<1> DEFINE Bounded ==
      \A j \in Jobs : lastDelay'[j] # lastDelay[j] /\ lastDelay'[j] # NoDelay =>
        Base * Grid <= lastDelay'[j] /\ lastDelay'[j] <= 3 * Remembered(j)
<1>1. Inv /\ [Next]_vars => [Bounded]_vars
  <2> SUFFICES ASSUME Inv, Next, NEW j \in Jobs, lastDelay'[j] # lastDelay[j], lastDelay'[j] # NoDelay
               PROVE  Base * Grid <= lastDelay'[j] /\ lastDelay'[j] <= 3 * Remembered(j)
    OBVIOUS
  <2>1. PICK u \in 0 .. Grid - 1 : Retry(j, u)
    BY DEF Next, Restart, Retry, Completed, Exhausted, Dropped, Inv, MemoryHolds, TypeOK
  <2>2. lastDelay'[j] = Draw(u, Remembered(j))
    BY <2>1 DEF Retry, Inv, MemoryHolds, TypeOK
  <2>3. Remembered(j) \in Nat /\ Floor <= Remembered(j)
    BY RememberedFloor DEF Inv
  <2> QED
    BY <2>2, <2>3, DrawBounds DEF Floor
<1> QED
  BY <1>1, BackoffInvariant, PTL DEF Spec, MemoryBounds

-----------------------------------------------------------------------------
(* Outage: the invariant.                                                  *)

\* A reminder's own job is for it; a job that is due is for a reminder that is
\* neither DEAD nor delivered, and no two such jobs are for the same; jobs that are
\* due or not in use yet are live.
JobsHold ==
  /\ \A k \in Keys : keyOf[k] = k
  /\ \A j \in Jobs : due[j] # NoDelay =>
       keyOf[j] \in Keys /\ row[keyOf[j]] # "DEAD" /\ keyOf[j] \notin delivered
  /\ \A j \in Jobs : due[j] # NoDelay \/ keyOf[j] = None => j \in live
  /\ \A i, j \in Jobs : due[i] # NoDelay /\ due[j] # NoDelay /\ keyOf[i] = keyOf[j] => i = j

\* A DEAD that is still to be written is the only one of its reminder, which is not
\* DEAD yet, was not delivered and has no job that is due.
WritesHold ==
  /\ \A h \in writes : keyOf[h.job] \in Keys
  /\ \A h \in writes : h.dead => row[keyOf[h.job]] # "DEAD" /\ keyOf[h.job] \notin delivered
  /\ \A h \in writes, j \in Jobs : h.dead /\ due[j] # NoDelay => keyOf[j] # keyOf[h.job]
  /\ \A h, g \in writes : h.dead /\ g.dead /\ keyOf[h.job] = keyOf[g.job] => h = g

\* Only what was delivered says SENT, and it never says DEAD.
SentHolds ==
  /\ \A k \in Keys : row[k] = "SENT" => k \in delivered
  /\ \A k \in delivered : row[k] # "DEAD"

\* The process has been up since the start, or since it was restarted.
BootHolds == restarts = 0 => boot = 0

\* The provider has seen a reminder no more often than its only job was tried.
SeenHolds == \A k \in Keys : k \in live /\ ~Replayed(k) => seen[k] <= made[k]

\* The counters count, the log holds every call until it is full, the reminders
\* that were delivered are the calls that went well, and the attempts of the queue
\* those that failed.
CallsCount ==
  /\ tally.calls = tally.ok + tally.failed
  /\ tally.calls <= LogLimit =>
       Len(log) = tally.calls /\ Cardinality({i \in DOMAIN log : ~log[i].ok}) = tally.failed
RowsCount ==
  /\ restarts = 0 => tally.ok = Cardinality(delivered)
  /\ OneRun => tally.failed = Total(made, Keys)

\* A row counts no attempt its job has not made, and while no handler slipped, the
\* attempts it does not count yet each have a handler that is still to do so.
AttemptsHold ==
  OneRun =>
    /\ \A h \in writes : h.job \in Keys /\ h.n \in 1 .. made[h.job]
    /\ \A k \in Keys : attempts[k] <= made[k]
    /\ slips = 0 => \A k \in Keys : \A n \in 1 .. made[k] :
                      attempts[k] < n => \E h \in writes : h.job = k /\ h.n = n

\* A reminder's own job is due when the waits since its first attempt are over.
DueHolds ==
  \A k \in Keys :
    /\ first[k] = NoDelay => total[k] = 0
    /\ first[k] # NoDelay /\ due[k] # NoDelay => first[k] + total[k] <= due[k]

\* Given up by the outage alone, its waits were all taken and fell short.
DeadHolds ==
  OneRun /\ ~injecting =>
    \A k \in GivenUp : trait[k] = {} =>
      /\ first[k] # NoDelay /\ first[k] + total[k] < boot + RecoverAfter
      /\ GuaranteedSum(strategy, MaxAttempts) <= total[k]

\* The inductive invariants of Outage: the first holds by itself, the second is what
\* the properties follow from.
Placed == Inv /\ OutageTypeOK /\ JobsHold /\ WritesHold /\ SentHolds
OutageInv ==
  /\ Placed /\ BootHolds /\ SeenHolds /\ WordsKeepTheirPromise
  /\ CallsCount /\ RowsCount /\ AttemptsHold /\ DueHolds /\ DeadHolds

\* Every step of Outage is one of Backoff, or leaves it alone.
LEMMA StepsOfBackoff == [OutageNext]_allVars => [Next]_vars
BY DEF OutageNext, allVars, Tick, Reboot, Deliver, TryLater, GiveUp, Handled, HandlerFails, Replay, Next, vars

\* A sequence over a set is one over any set that holds its entries.
LEMMA SeqOver ==
  ASSUME NEW A, NEW B, NEW s \in Seq(A), \A i \in DOMAIN s : s[i] \in B
  PROVE  s \in Seq(B)
<1>1. Len(s) \in Nat /\ s \in [1 .. Len(s) -> B]
  OBVIOUS
<1> QED
  BY <1>1, SeqDef

\* What an attempt of a job finds, whatever the provider answers.
LEMMA AttemptFinds ==
  ASSUME Placed, NEW j \in Jobs, NEW v, Call(j, v)
  PROVE  /\ keyOf[j] \in Keys /\ row[keyOf[j]] # "DEAD" /\ keyOf[j] \notin delivered /\ j \in live
         /\ due[j] \in Nat /\ due[j] <= now /\ now \in Nat
         /\ j \in Keys => keyOf[j] = j
         /\ j \notin Keys => Replayed(keyOf[j])
         /\ v \in P!Verdicts(keyOf[j], seen[keyOf[j]] + 1)
         /\ seen' = [seen EXCEPT ![keyOf[j]] = @ + 1]
         /\ P!Record(keyOf[j], v = "ok")
         /\ first' = IF j \in Keys /\ first[j] = NoDelay THEN [first EXCEPT ![j] = now] ELSE first
         /\ UNCHANGED <<now, boot, trait, injecting, keyOf>>
<1>1. due[j] # NoDelay /\ due[j] <= now /\ due[j] \in Nat /\ now \in Nat
  BY DEF Placed, OutageTypeOK, P!TypeOK, Call
<1>2. keyOf[j] \in Keys /\ row[keyOf[j]] # "DEAD" /\ keyOf[j] \notin delivered /\ j \in live
  BY <1>1 DEF Placed, JobsHold
<1>3. (j \in Keys => keyOf[j] = j) /\ (j \notin Keys => Replayed(keyOf[j]))
  BY OutageAssumption DEF Placed, JobsHold, Replayed
<1> QED
  BY <1>1, <1>2, <1>3 DEF Call, P!SendMessage

\* A call counts as one, and as good or bad.
LEMMA Counted ==
  ASSUME tally \in [calls : Nat, ok : Nat, failed : Nat], NEW k, NEW ok \in BOOLEAN, P!Record(k, ok)
  PROVE  /\ tally' \in [calls : Nat, ok : Nat, failed : Nat]
         /\ tally'.calls = tally.calls + 1
         /\ ok  => tally'.ok = tally.ok + 1 /\ tally'.failed = tally.failed
         /\ ~ok => tally'.ok = tally.ok /\ tally'.failed = tally.failed + 1
<1>1. tally' = [tally EXCEPT !.calls = @ + 1, !.ok = IF ok THEN @ + 1 ELSE @,
                             !.failed = IF ok THEN @ ELSE @ + 1]
  BY DEF P!Record
<1>2. PICK c \in Nat, o \in Nat, f \in Nat : tally = [calls |-> c, ok |-> o, failed |-> f]
  OBVIOUS
<1>3. tally' = [calls |-> c + 1, ok |-> IF ok THEN o + 1 ELSE o, failed |-> IF ok THEN f ELSE f + 1]
  BY <1>1, <1>2, Zenon
<1> QED
  BY <1>2, <1>3

\* The provider's state after a call is well typed.
LEMMA CallTypes ==
  ASSUME P!TypeOK, NEW k \in Keys, NEW ok \in BOOLEAN, P!Record(k, ok),
         seen' = [seen EXCEPT ![k] = @ + 1], UNCHANGED <<now, boot, trait, injecting>>
  PROVE  P!TypeOK'
<1> DEFINE e == [t |-> now, ok |-> ok, key |-> k]
           E == [t : boot .. now, ok : BOOLEAN, key : Keys]
<1>1. /\ now \in Nat /\ boot \in 0 .. now /\ log \in Seq(E) /\ Len(log) <= LogLimit
      /\ \A a, b \in DOMAIN log : a <= b => log[a].t <= log[b].t
  BY DEF P!TypeOK
<1>2. e \in E
  BY <1>1
<1>3. log' = IF Len(log) < LogLimit THEN Append(log, e) ELSE log
  BY DEF P!Record, P!Logged
<1>4. seen' \in [Keys -> Nat] /\ tally' \in [calls : Nat, ok : Nat, failed : Nat]
  <2>1. seen' \in [Keys -> Nat]
    BY DEF P!TypeOK
  <2>2. tally \in [calls : Nat, ok : Nat, failed : Nat]
    BY DEF P!TypeOK
  <2>3. tally' \in [calls : Nat, ok : Nat, failed : Nat]
    BY <2>2, Counted
  <2> QED
    BY <2>1, <2>3
<1> HIDE DEF e
<1>5. CASE Len(log) < LogLimit
  <2>1. /\ log' \in Seq(E) /\ Len(log') = Len(log) + 1 /\ Len(log) \in Nat
        /\ log'[Len(log) + 1] = e /\ \A i \in 1 .. Len(log) : log'[i] = log[i]
        /\ DOMAIN log' = 1 .. Len(log) + 1 /\ DOMAIN log = 1 .. Len(log)
    BY <1>1, <1>2, <1>3, <1>5, AppendProperties
  <2>2. Len(log') <= LogLimit
    BY <1>5, <2>1, OutageAssumption
  <2>3. ASSUME NEW a \in DOMAIN log', NEW b \in DOMAIN log', a <= b PROVE log'[a].t <= log'[b].t
    <3>1. CASE b = Len(log) + 1
      <4>1. log'[b].t = now
        BY <2>1, <3>1 DEF e
      <4>2. log'[a] \in E
        <5>1. a \in 1 .. Len(log') /\ log' \in Seq(E)
          BY <2>1, <2>3
        <5> HIDE DEF E
        <5> QED
          BY <5>1
      <4>3. log'[a].t \in boot .. now
        BY <4>2
      <4>4. log'[a].t <= now
        BY <1>1, <4>3
      <4> QED
        BY <4>1, <4>4
    <3>2. CASE b # Len(log) + 1
      <4>1. a \in 1 .. Len(log) /\ b \in 1 .. Len(log)
        BY <2>1, <2>3, <3>2
      <4> QED
        BY <1>1, <2>1, <2>3, <4>1
    <3> QED
      BY <3>1, <3>2
  <2> QED
    BY <1>1, <1>4, <2>1, <2>2, <2>3 DEF P!TypeOK
<1>6. CASE ~(Len(log) < LogLimit)
  BY <1>1, <1>3, <1>4, <1>6 DEF P!TypeOK
<1> QED
  BY <1>5, <1>6

\* At the start everything is in place.
LEMMA PlacedInit == OutageInit => Placed
<1> SUFFICES ASSUME OutageInit PROVE Placed
  OBVIOUS
<1>1. Inv
  BY BackoffInit DEF OutageInit
<1>2. P!TypeOK
  <2>1. log = <<>> /\ Len(log) = 0 /\ DOMAIN log = {} /\ log \in Seq([t : boot .. now, ok : BOOLEAN, key : Keys])
    BY DEF OutageInit, P!Boot
  <2> QED
    BY <2>1, OutageAssumption DEF OutageInit, P!Boot, P!TypeOK, P!Unseen, P!Zeroes
<1>3. OutageTypeOK
  BY <1>1, <1>2, OutageAssumption DEF Inv, MemoryHolds, OutageTypeOK, OutageInit, NoDelay
<1>4. JobsHold
  BY OutageAssumption DEF JobsHold, OutageInit, Init, NoDelay
<1>5. WritesHold /\ SentHolds
  BY DEF WritesHold, SentHolds, OutageInit
<1> QED
  BY <1>1, <1>3, <1>4, <1>5 DEF Placed

\* What an attempt of job j for reminder k does besides the call: it sends, and the
\* job is over; or it leaves the row to a handler, with the job due again or over.
Attempted(j, k) ==
  \/ /\ due' = [due EXCEPT ![j] = NoDelay] /\ live' = live \ {j}
     /\ row' = [row EXCEPT ![k] = "SENT"] /\ delivered' = delivered \cup {k}
     /\ UNCHANGED <<attempts, writes, slips>>
  \/ /\ \E d \in Nat : due' = [due EXCEPT ![j] = d]
     /\ live' = live /\ LeftToHandler(j, FALSE)
  \/ /\ due' = [due EXCEPT ![j] = NoDelay] /\ live' = live \ {j}
     /\ LeftToHandler(j, TRUE)

\* A handler is left the attempt that failed, which is the job's next.
LEMMA LeftWrite ==
  ASSUME Placed, NEW j \in Jobs, NEW b \in BOOLEAN, LeftToHandler(j, b)
  PROVE  /\ [job |-> j, n |-> made[j] + 1, dead |-> b] \in [job : Jobs, n : Nat, dead : BOOLEAN]
         /\ writes' = writes \cup {[job |-> j, n |-> made[j] + 1, dead |-> b]}
         /\ row' = [row EXCEPT ![keyOf[j]] = "SENDING"]
         /\ UNCHANGED <<attempts, delivered, slips>>
<1>1. made[j] + 1 \in Nat
  BY BackoffAssumption DEF Placed, OutageTypeOK, TypeOK
<1> QED
  BY <1>1 DEF LeftToHandler

\* Everything is in its place after an attempt.
LEMMA AttemptPlaced ==
  ASSUME Placed, Inv', NEW j \in Jobs, NEW v, Call(j, v), Attempted(j, keyOf[j])
  PROVE  Placed'
<1> DEFINE k == keyOf[j]
<1>1. /\ k \in Keys /\ row[k] # "DEAD" /\ k \notin delivered /\ j \in live /\ now \in Nat /\ due[j] # NoDelay
      /\ seen' = [seen EXCEPT ![k] = @ + 1] /\ P!Record(k, v = "ok")
      /\ first' = IF j \in Keys /\ first[j] = NoDelay THEN [first EXCEPT ![j] = now] ELSE first
      /\ UNCHANGED <<now, boot, trait, injecting, keyOf>>
  BY AttemptFinds DEF Call
<1>2. P!TypeOK'
  BY <1>1, CallTypes DEF Placed, OutageTypeOK
<1> DEFINE Sent == /\ due' = [due EXCEPT ![j] = NoDelay] /\ row' = [row EXCEPT ![k] = "SENT"]
                   /\ delivered' = delivered \cup {k} /\ UNCHANGED <<attempts, writes, slips>>
           Left(b) == /\ LeftToHandler(j, b) /\ (b => due' = [due EXCEPT ![j] = NoDelay])
                      /\ \E d \in Nat \cup {NoDelay} : due' = [due EXCEPT ![j] = d]
           New(W) == /\ writes' = writes \cup W /\ W \subseteq [job : Jobs, n : Nat, dead : BOOLEAN]
                     /\ \A h \in W : h.job = j /\ (h.dead => due'[j] = NoDelay /\ delivered' = delivered)
                     /\ \A h, g \in W : h = g
<1>2a. Sent \/ Left(TRUE) \/ Left(FALSE)
  BY DEF Attempted
<1>3. \E W : New(W)
  <2>1. CASE Sent
    <3>1. New({})
      BY <2>1
    <3> HIDE DEF New
    <3> QED
      BY <3>1
  <2>2. ASSUME NEW b \in BOOLEAN, Left(b) PROVE \E W : New(W)
    <3>1. PICK h : /\ h = [job |-> j, n |-> made[j] + 1, dead |-> b]
                   /\ h \in [job : Jobs, n : Nat, dead : BOOLEAN] /\ writes' = writes \cup {h}
                   /\ delivered' = delivered
      BY <2>2, LeftWrite
    <3>2. h.job = j /\ h.dead = b
      BY <3>1
    <3>3. b => due'[j] = NoDelay
      BY <2>2 DEF Placed, OutageTypeOK
    <3>4. New({h})
      BY <3>1, <3>2, <3>3
    <3> HIDE DEF New
    <3> QED
      BY <3>4
  <2> QED
    BY <1>2a, <2>1, <2>2
<1>3a. PICK W : New(W)
  BY <1>3
<1>4. /\ due' \in [Jobs -> Nat \cup {NoDelay}] /\ first' \in [Keys -> Nat \cup {NoDelay}]
      /\ row' \in [Keys -> {"SCHEDULED", "SENDING", "FAILED", "SENT", "DEAD"}]
      /\ delivered' \subseteq Keys /\ UNCHANGED <<attempts, slips>>
      /\ delivered' = delivered \/ (delivered' = delivered \cup {k} /\ due'[j] = NoDelay)
      /\ \A i \in Jobs : i # j => due'[i] = due[i]
      /\ \A l \in Keys : l # k => row'[l] = row[l]
      /\ row'[k] \in {"SENDING", "SENT"} /\ (row'[k] = "SENT" => k \in delivered')
  <2>1. first' \in [Keys -> Nat \cup {NoDelay}]
    BY <1>1 DEF Placed, OutageTypeOK
  <2>2. CASE Sent
    BY <1>1, <2>1, <2>2 DEF Placed, OutageTypeOK
  <2>3. ASSUME NEW b \in BOOLEAN, Left(b)
        PROVE  /\ due' \in [Jobs -> Nat \cup {NoDelay}]
               /\ row' \in [Keys -> {"SCHEDULED", "SENDING", "FAILED", "SENT", "DEAD"}]
               /\ UNCHANGED <<attempts, delivered, slips>>
               /\ \A i \in Jobs : i # j => due'[i] = due[i]
               /\ \A l \in Keys : l # k => row'[l] = row[l]
               /\ row'[k] = "SENDING"
    <3>1. row' = [row EXCEPT ![k] = "SENDING"] /\ UNCHANGED <<attempts, delivered, slips>>
      BY <2>3, LeftWrite
    <3>2. PICK d \in Nat \cup {NoDelay} : due' = [due EXCEPT ![j] = d]
      BY <2>3
    <3> QED
      BY <1>1, <3>1, <3>2 DEF Placed, OutageTypeOK
  <2>4. delivered \subseteq Keys
    BY DEF Placed, OutageTypeOK
  <2>5. ASSUME NEW b \in BOOLEAN, Left(b) PROVE delivered' \subseteq Keys /\ delivered' = delivered
    BY <2>3, <2>4, <2>5
  <2> HIDE DEF Sent, Left, New
  <2> QED
    BY <1>2a, <2>1, <2>2, <2>3, <2>5
<1>5. OutageTypeOK'
  BY <1>1, <1>2, <1>3a, <1>4 DEF Placed, OutageTypeOK, Inv, MemoryHolds
<1>6. \A i \in Jobs : due'[i] # NoDelay => due[i] # NoDelay
  BY <1>1, <1>4
<1>7. \A i \in Jobs : i # j /\ due[i] # NoDelay => keyOf[i] # k
  BY <1>1 DEF Placed, JobsHold
<1>8. \A i \in Jobs : i \in live /\ i # j => i \in live'
  BY DEF Attempted
<1>9. due'[j] # NoDelay => j \in live'
  BY <1>1 DEF Attempted, Placed, OutageTypeOK
<1> HIDE DEF k
<1>10. JobsHold'
  <2>1. \A i \in Jobs : due'[i] # NoDelay => keyOf[i] \in Keys /\ row'[keyOf[i]] # "DEAD" /\ keyOf[i] \notin delivered'
    BY <1>1, <1>4, <1>6, <1>7 DEF Placed, JobsHold, k
  <2>2. \A i \in Jobs : due'[i] # NoDelay \/ keyOf[i] = None => i \in live'
    BY <1>1, <1>6, <1>8, <1>9, OutageAssumption DEF Placed, JobsHold, k
  <2>3. \A i, l \in Jobs : due'[i] # NoDelay /\ due'[l] # NoDelay /\ keyOf[i] = keyOf[l] => i = l
    BY <1>6 DEF Placed, JobsHold
  <2> QED
    BY <1>1, <2>1, <2>2, <2>3 DEF Placed, JobsHold
<1>11. WritesHold'
  <2>1. \A h \in writes : h.dead => keyOf[h.job] # k
    BY <1>1 DEF Placed, WritesHold, k
  <2>2. \A h \in writes : keyOf[h.job] \in Keys
    BY DEF Placed, WritesHold
  <2>3. \A h \in W : keyOf[h.job] = k
    BY <1>3a DEF k
  <2>4. \A h \in W : h.dead => due'[j] = NoDelay /\ delivered' = delivered
    BY <1>3a
  <2>5. \A h \in writes' : keyOf'[h.job] \in Keys
    BY <1>1, <1>3a, <2>2, <2>3
  <2>6. ASSUME NEW h \in writes', h.dead PROVE row'[keyOf'[h.job]] # "DEAD" /\ keyOf'[h.job] \notin delivered'
    BY <1>1, <1>3a, <1>4, <2>1, <2>2, <2>3, <2>4, <2>6 DEF Placed, WritesHold
  <2>7. ASSUME NEW h \in writes', NEW i \in Jobs, h.dead, due'[i] # NoDelay PROVE keyOf'[i] # keyOf'[h.job]
    <3>1. CASE h \in writes
      BY <1>1, <1>6, <2>7, <3>1 DEF Placed, WritesHold
    <3>2. CASE h \in W
      BY <1>1, <1>3a, <1>6, <1>7, <2>3, <2>4, <2>7, <3>2
    <3> QED
      BY <1>3a, <3>1, <3>2
  <2>8. ASSUME NEW h \in writes', NEW g \in writes', h.dead, g.dead, keyOf'[h.job] = keyOf'[g.job] PROVE h = g
    BY <1>1, <1>3a, <2>1, <2>3, <2>8 DEF Placed, WritesHold
  <2> QED
    BY <2>5, <2>6, <2>7, <2>8 DEF WritesHold
<1>12. SentHolds'
  BY <1>1, <1>4 DEF Placed, SentHolds, OutageTypeOK
<1> QED
  BY <1>5, <1>10, <1>11, <1>12 DEF Placed

\* The clock and a restart leave the jobs where they are.
LEMMA StillPlaced ==
  ASSUME Placed, Inv', Tick \/ Reboot
  PROVE  Placed'
<1>1. /\ UNCHANGED <<live, trait, injecting, keyOf, due, row, attempts, delivered, first, slips>>
      /\ \/ now' = now + 1 /\ UNCHANGED <<boot, seen, log, tally>>
         \/ now' = now /\ boot' = now /\ P!Reboot
      /\ writes' = writes \/ writes' = {}
  BY DEF Tick, Reboot, Restart, vars, rowVars
<1>2. P!TypeOK'
  <2>1. CASE now' = now + 1 /\ UNCHANGED <<boot, seen, log, tally>>
    <3>1. /\ now \in Nat /\ boot \in 0 .. now
          /\ log \in Seq([t : boot .. now, ok : BOOLEAN, key : Keys])
      BY DEF Placed, OutageTypeOK, P!TypeOK
    <3>2. \A i \in DOMAIN log : log[i] \in [t : boot .. now + 1, ok : BOOLEAN, key : Keys]
      <4> SUFFICES ASSUME NEW i \in DOMAIN log
                   PROVE  log[i] \in [t : boot .. now + 1, ok : BOOLEAN, key : Keys]
        OBVIOUS
      <4>1. log[i] \in [t : boot .. now, ok : BOOLEAN, key : Keys]
        <5> DEFINE E == [t : boot .. now, ok : BOOLEAN, key : Keys]
        <5>1. log \in Seq(E)
          BY <3>1
        <5> HIDE DEF E
        <5>2. log[i] \in E
          BY <5>1
        <5> QED
          BY <5>2 DEF E
      <4>2. boot .. now \subseteq boot .. now + 1
        BY <3>1
      <4> QED
        BY <4>1, <4>2
    <3>3. log \in Seq([t : boot .. now + 1, ok : BOOLEAN, key : Keys])
      BY <3>1, <3>2, SeqOver, Zenon
    <3> QED
      BY <1>1, <2>1, <3>1, <3>3 DEF Placed, OutageTypeOK, P!TypeOK
  <2>2. CASE now' = now /\ boot' = now /\ P!Reboot
    <3>1. log' = <<>> /\ Len(log') = 0 /\ DOMAIN log' = {}
          /\ log' \in Seq([t : boot' .. now', ok : BOOLEAN, key : Keys])
      BY <2>2 DEF P!Reboot
    <3>2. seen' = [k \in Keys |-> 0] /\ tally' = [calls |-> 0, ok |-> 0, failed |-> 0]
      BY <2>2 DEF P!Reboot, P!Unseen, P!Zeroes
    <3> QED
      BY <1>1, <2>2, <3>1, <3>2, OutageAssumption DEF Placed, OutageTypeOK, P!TypeOK
  <2> QED
    BY <1>1, <2>1, <2>2
<1>3. OutageTypeOK'
  BY <1>1, <1>2 DEF Placed, OutageTypeOK, Inv, MemoryHolds
<1>4. JobsHold' /\ WritesHold' /\ SentHolds'
  BY <1>1 DEF Placed, JobsHold, WritesHold, SentHolds
<1> QED
  BY <1>3, <1>4 DEF Placed

\* A replay takes a job that was not in use, for a reminder without one.
LEMMA ReplayPlaced ==
  ASSUME Placed, Inv', NEW k \in Keys, NEW j \in FreshJobs, Replay(k, j)
  PROVE  Placed'
<1>1. /\ j \in Jobs /\ j \notin Keys /\ keyOf[j] = None /\ row[k] = "DEAD"
      /\ keyOf' = [keyOf EXCEPT ![j] = k]
      /\ due' = [due EXCEPT ![j] = now]
      /\ row' = [row EXCEPT ![k] = "SCHEDULED"]
      /\ attempts' = [attempts EXCEPT ![k] = 0]
      /\ UNCHANGED <<live, now, boot, trait, injecting, seen, log, tally, first, writes, delivered, slips>>
  BY OutageAssumption DEF Replay, vars
<1>2. P!TypeOK'
  BY <1>1 DEF Placed, OutageTypeOK, P!TypeOK
<1>3. now \in Nat
  BY DEF Placed, OutageTypeOK, P!TypeOK
<1>4. OutageTypeOK'
  BY <1>1, <1>2, <1>3 DEF Placed, OutageTypeOK, Inv, MemoryHolds
<1>5. /\ \A i \in Jobs : i # j => due'[i] = due[i] /\ keyOf'[i] = keyOf[i]
      /\ \A i \in Jobs : due[i] # NoDelay => keyOf[i] # k
      /\ j \in live /\ keyOf'[j] = k /\ row'[k] = "SCHEDULED" /\ \A i \in Keys : i # k => row'[i] = row[i]
      /\ k \notin delivered
  BY <1>1 DEF Placed, JobsHold, SentHolds, OutageTypeOK
<1>6. JobsHold'
  BY <1>1, <1>5 DEF Placed, JobsHold
<1>7. WritesHold'
  <2>1. \A h \in writes : h.job \in Jobs /\ h.job # j /\ keyOf'[h.job] = keyOf[h.job] /\ keyOf[h.job] \in Keys
    BY <1>1, <1>5, OutageAssumption DEF Placed, WritesHold, OutageTypeOK
  <2>2. \A h \in writes : h.dead => keyOf[h.job] # k
    BY <1>1 DEF Placed, WritesHold
  <2>3. \A h \in writes' : keyOf'[h.job] \in Keys
    BY <1>1, <2>1
  <2>4. \A h \in writes' : h.dead => row'[keyOf'[h.job]] # "DEAD" /\ keyOf'[h.job] \notin delivered'
    BY <1>1, <1>5, <2>1, <2>2 DEF Placed, WritesHold
  <2>5. \A h \in writes', i \in Jobs : h.dead /\ due'[i] # NoDelay => keyOf'[i] # keyOf'[h.job]
    BY <1>1, <1>5, <2>1, <2>2 DEF Placed, WritesHold
  <2>6. \A h, g \in writes' : h.dead /\ g.dead /\ keyOf'[h.job] = keyOf'[g.job] => h = g
    BY <1>1, <2>1 DEF Placed, WritesHold
  <2> QED
    BY <2>3, <2>4, <2>5, <2>6 DEF WritesHold
<1>8. SentHolds'
  BY <1>1, <1>5 DEF Placed, SentHolds
<1> QED
  BY <1>4, <1>6, <1>7, <1>8 DEF Placed

\* A handler's update, or the loss of it, is the last of what it does.
LEMMA HandlerPlaced ==
  ASSUME Placed, Inv', NEW h \in writes, Handled(h) \/ HandlerFails(h)
  PROVE  Placed'
<1>1. /\ writes' = writes \ {h} /\ UNCHANGED <<live, now, boot, trait, injecting, seen, log, tally>>
      /\ UNCHANGED <<keyOf, due, first, delivered>>
      /\ \/ UNCHANGED <<row, attempts>>
         \/ /\ row' = [row EXCEPT ![keyOf[h.job]] = IF h.dead THEN "DEAD" ELSE "FAILED"]
            /\ attempts' = [attempts EXCEPT ![keyOf[h.job]] = h.n]
      /\ slips' = slips \/ slips' = slips + 1
  BY DEF Handled, HandlerFails, vars
<1>2. keyOf[h.job] \in Keys /\ h.n \in Nat /\ h.dead \in BOOLEAN /\ slips \in Nat
  BY DEF Placed, WritesHold, OutageTypeOK
<1>3. P!TypeOK'
  BY <1>1 DEF Placed, OutageTypeOK, P!TypeOK
<1>4. /\ row' \in [Keys -> {"SCHEDULED", "SENDING", "FAILED", "SENT", "DEAD"}]
      /\ attempts' \in [Keys -> Nat]
  BY <1>1, <1>2 DEF Placed, OutageTypeOK
<1>5. OutageTypeOK'
  BY <1>1, <1>2, <1>3, <1>4 DEF Placed, OutageTypeOK, Inv, MemoryHolds
<1>6. \A k \in Keys : /\ row'[k] = "DEAD" => row[k] = "DEAD" \/ (h.dead /\ k = keyOf[h.job])
                      /\ row'[k] = "SENT" => row[k] = "SENT"
  BY <1>1, <1>2 DEF Placed, OutageTypeOK
<1>7. JobsHold'
  BY <1>1, <1>2, <1>6 DEF Placed, JobsHold, WritesHold
<1>8. WritesHold'
  BY <1>1, <1>2, <1>6 DEF Placed, WritesHold
<1>9. SentHolds'
  <2>1. delivered \subseteq Keys
    BY DEF Placed, OutageTypeOK
  <2> QED
    BY <1>1, <1>2, <1>6, <2>1 DEF Placed, SentHolds, WritesHold
<1> QED
  BY <1>5, <1>7, <1>8, <1>9 DEF Placed

\* A retry is due after the wait that was asked for, which is a natural.
LEMMA RetryIsDue ==
  ASSUME Placed, NEW j \in Jobs, TryLater(j)
  PROVE  \E w \in Nat : /\ due' = [due EXCEPT ![j] = now + w]
                        /\ total' = [total EXCEPT ![j] = @ + w]
                        /\ made' = [made EXCEPT ![j] = @ + 1]
                        /\ UNCHANGED <<strategy, live, restarts>> /\ LeftToHandler(j, FALSE)
<1>1. PICK u \in 0 .. Grid - 1 : Retry(j, u) /\ due' = [due EXCEPT ![j] = now + Wait(j, made[j] + 1, u)]
  BY DEF TryLater
<1>2. Wait(j, made[j] + 1, u) \in Nat /\ total' = [total EXCEPT ![j] = @ + Wait(j, made[j] + 1, u)]
  BY <1>1, RetryStep DEF Placed
<1>3. made' = [made EXCEPT ![j] = @ + 1] /\ UNCHANGED <<strategy, live, restarts>>
      /\ LeftToHandler(j, FALSE)
  BY <1>1 DEF Retry, TryLater
<1> QED
  BY <1>1, <1>2, <1>3

\* Every step keeps everything in its place; the cases are the actions of OutageNext.
LEMMA PlacedStep == Placed /\ [OutageNext]_allVars => Placed'
<1> SUFFICES ASSUME Placed, [OutageNext]_allVars PROVE Placed'
  OBVIOUS
<1>1. Inv'
  BY StepsOfBackoff, BackoffStep DEF Placed
<1>2. CASE Tick \/ Reboot
  BY <1>1, <1>2, StillPlaced
<1>3. ASSUME NEW k \in Keys, NEW j \in FreshJobs, Replay(k, j) PROVE Placed'
  BY <1>1, <1>3, ReplayPlaced
<1>4. ASSUME NEW j \in Jobs, Deliver(j) PROVE Placed'
  <2>1. Call(j, "ok") /\ Attempted(j, keyOf[j])
    BY <1>4 DEF Deliver, Completed, Attempted
  <2> QED
    BY <1>1, <2>1, AttemptPlaced
<1>5. ASSUME NEW j \in Jobs, TryLater(j) PROVE Placed'
  <2>1. PICK w \in Nat : due' = [due EXCEPT ![j] = now + w] /\ live' = live /\ LeftToHandler(j, FALSE)
    BY <1>5, RetryIsDue
  <2>2. now + w \in Nat
    BY DEF Placed, OutageTypeOK, P!TypeOK
  <2>3. Call(j, "transient") /\ Attempted(j, keyOf[j])
    BY <1>5, <2>1, <2>2 DEF TryLater, Attempted
  <2> QED
    BY <1>1, <2>3, AttemptPlaced
<1>6. ASSUME NEW j \in Jobs, GiveUp(j) PROVE Placed'
  <2>1. (\E v \in {"transient", "permanent"} : Call(j, v)) /\ Attempted(j, keyOf[j])
    BY <1>6 DEF GiveUp, Exhausted, Attempted
  <2> QED
    BY <1>1, <2>1, AttemptPlaced
<1>8. ASSUME NEW h \in writes, Handled(h) \/ HandlerFails(h) PROVE Placed'
  BY <1>1, <1>8, HandlerPlaced
<1>7. CASE UNCHANGED allVars
  <2>1. /\ UNCHANGED <<live, now, boot, trait, injecting, seen, log, tally, keyOf, due, first>>
        /\ UNCHANGED <<row, attempts, writes, delivered, slips>>
    BY <1>7 DEF allVars, vars, outageVars, rowVars
  <2>2. P!TypeOK'
    BY <2>1 DEF Placed, OutageTypeOK, P!TypeOK
  <2>3. OutageTypeOK'
    BY <1>1, <2>1, <2>2 DEF Placed, OutageTypeOK, Inv, MemoryHolds
  <2>4. JobsHold' /\ WritesHold' /\ SentHolds'
    BY <2>1 DEF Placed, JobsHold, WritesHold, SentHolds
  <2> QED
    BY <1>1, <2>3, <2>4 DEF Placed
<1> QED
  BY <1>2, <1>3, <1>4, <1>5, <1>6, <1>7, <1>8 DEF OutageNext

\* Everything is in its place in every reachable state.
THEOREM PlacedAlways == OutageSpec => []Placed
BY PlacedInit, PlacedStep, PTL DEF OutageSpec

\* The types of the cohort, the provider with its log in the order of time, and
\* the queue.
THEOREM OutageTypes == OutageSpec => []OutageTypeOK
<1>1. Placed => OutageTypeOK
  BY DEF Placed
<1> QED
  BY <1>1, PlacedAlways, PTL

-----------------------------------------------------------------------------
(* The trigger words.                                                      *)

\* No job is dropped from those a reminder was replayed with, and an attempt of
\* its own job is the only one that calls for a reminder that was not replayed.
LEMMA OwnCall ==
  ASSUME Placed, NEW j \in Jobs, NEW v, Call(j, v), NEW k \in Keys, ~Replayed(k), keyOf[j] = k
  PROVE  j = k /\ j \in live
BY AttemptFinds

\* An attempt of job j keeps the calls of a live job within its attempts.
LEMMA AttemptSeen ==
  ASSUME Placed, SeenHolds, NEW j \in Jobs, NEW v, Call(j, v), live' \subseteq live,
         IF v = "ok" THEN made' = made /\ j \notin live' ELSE made' = [made EXCEPT ![j] = @ + 1]
  PROVE  SeenHolds'
<1>1. /\ seen' = [seen EXCEPT ![keyOf[j]] = @ + 1] /\ keyOf' = keyOf /\ keyOf[j] \in Keys
  BY AttemptFinds
<1>0. made \in [Jobs -> Nat] /\ seen \in [Keys -> Nat] /\ Keys \subseteq Jobs
  BY OutageAssumption, BackoffAssumption DEF Placed, OutageTypeOK, TypeOK, P!TypeOK
<1>2. ASSUME NEW k \in Keys, k \in live', ~Replayed(k)' PROVE seen'[k] <= made'[k]
  <2>1. ~Replayed(k) /\ k \in live /\ seen[k] <= made[k]
    BY <1>1, <1>2 DEF Replayed, SeenHolds
  <2>2. CASE keyOf[j] = k
    <3>1. j = k
      BY <2>1, <2>2, OwnCall
    <3> QED
      BY <1>0, <1>1, <1>2, <2>1, <2>2, <3>1
  <2>3. CASE keyOf[j] # k
    <3>1. seen'[k] = seen[k] /\ made'[k] \in {made[k], made[k] + 1}
      BY <1>0, <1>1, <2>3
    <3> QED
      BY <1>0, <1>1, <2>1, <3>1
  <2> QED
    BY <2>2, <2>3
<1> QED
  BY <1>2 DEF SeenHolds

\* A restart comes with a reboot only.
LEMMA BootInit == OutageInit => BootHolds /\ SeenHolds
BY OutageAssumption DEF OutageInit, Init, BootHolds, SeenHolds, P!Boot, P!Unseen

\* Every step keeps the count of restarts and what the provider has seen.
LEMMA BootStep == Placed /\ BootHolds /\ SeenHolds /\ [OutageNext]_allVars => BootHolds' /\ SeenHolds'
<1> SUFFICES ASSUME Placed, BootHolds, SeenHolds, [OutageNext]_allVars PROVE BootHolds' /\ SeenHolds'
  OBVIOUS
<1>1. CASE Tick \/ UNCHANGED allVars
  BY <1>1 DEF Tick, allVars, vars, outageVars, rowVars, BootHolds, SeenHolds, Replayed
<1>2. CASE Reboot
  <2>1. seen' = [k \in Keys |-> 0] /\ restarts' = restarts + 1 /\ made' = made
        /\ \A k \in Keys : made[k] \in Nat
    BY <1>2, OutageAssumption DEF Reboot, Restart, P!Reboot, P!Unseen, Placed, OutageTypeOK, TypeOK
  <2>2. restarts \in Nat
    BY DEF Placed, OutageTypeOK, TypeOK
  <2> QED
    BY <2>1, <2>2 DEF BootHolds, SeenHolds
<1>3. ASSUME NEW k \in Keys, NEW j \in FreshJobs, Replay(k, j) PROVE BootHolds' /\ SeenHolds'
  <2>1. /\ keyOf' = [keyOf EXCEPT ![j] = k] /\ UNCHANGED <<live, made, restarts, boot, seen>>
        /\ keyOf[j] = None /\ j \in Jobs
    BY <1>3, OutageAssumption DEF Replay, vars
  <2>2. \A i \in Keys : Replayed(i) => Replayed(i)'
    BY <2>1, OutageAssumption DEF Replayed, Placed, OutageTypeOK
  <2> QED
    BY <2>1, <2>2 DEF BootHolds, SeenHolds
<1>4. ASSUME NEW j \in Jobs, Deliver(j) \/ TryLater(j) \/ GiveUp(j) PROVE BootHolds' /\ SeenHolds'
  <2>1. PICK v : /\ Call(j, v) /\ live' \subseteq live /\ restarts' = restarts
                 /\ IF v = "ok" THEN made' = made /\ j \notin live' ELSE made' = [made EXCEPT ![j] = @ + 1]
    <3>1. CASE Deliver(j)
      BY <3>1 DEF Deliver, Completed
    <3>2. CASE TryLater(j)
      <4>1. /\ made' = [made EXCEPT ![j] = @ + 1] /\ live' = live /\ restarts' = restarts
            /\ Call(j, "transient")
        BY <3>2, RetryIsDue DEF TryLater
      <4> QED
        BY <4>1
    <3>3. CASE GiveUp(j)
      BY <3>3 DEF GiveUp, Exhausted
    <3> QED
      BY <1>4, <3>1, <3>2, <3>3
  <2>2. SeenHolds'
    BY <2>1, AttemptSeen
  <2> QED
    BY <2>1, <2>2 DEF Call, BootHolds
<1>5. ASSUME NEW h \in writes, Handled(h) \/ HandlerFails(h) PROVE BootHolds' /\ SeenHolds'
  BY <1>5 DEF Handled, HandlerFails, vars, BootHolds, SeenHolds, Replayed
<1> QED
  BY <1>1, <1>2, <1>3, <1>4, <1>5 DEF OutageNext

\* What the words let through.
LEMMA DeliverKeepsPromise ==
  ASSUME Placed, SeenHolds, NEW j \in Jobs, Deliver(j), NEW k \in Keys, k = keyOf[j]
  PROVE  /\ trait[k] \cap {"broken", "doomed"} = {}
         /\ "comeback" \in trait[k] => Replayed(k)
         /\ "flaky" \in trait[k] => seen[k] + 1 >= 3
<1>1. /\ "ok" \in P!Verdicts(k, seen[k] + 1) /\ seen[k] \in Nat /\ j \in live
      /\ MaxAttempts \in Nat
  BY AttemptFinds, BackoffAssumption DEF Deliver, Placed, OutageTypeOK, P!TypeOK
<1>2. "broken" \notin trait[k] /\ ~P!Scripted(k, seen[k] + 1)
  BY <1>1 DEF P!Verdicts
<1>3. "doomed" \notin trait[k] /\ ("comeback" \in trait[k] => ~(seen[k] + 1 <= MaxAttempts))
      /\ ("flaky" \in trait[k] => ~(seen[k] + 1 < 3))
  BY <1>2 DEF P!Scripted
<1>4. ASSUME "comeback" \in trait[k], ~Replayed(k) PROVE FALSE
  <2>1. j = k
    BY <1>4, OwnCall DEF Deliver
  <2>2. seen[k] <= made[k] /\ made[k] < MaxAttempts /\ made[k] \in Nat
    BY <1>1, <1>4, <2>1 DEF SeenHolds, Placed, Inv, MemoryHolds, TypeOK
  <2> QED
    BY <1>1, <1>3, <1>4, <2>2
<1>5. trait[k] \cap {"broken", "doomed"} = {}
  BY <1>2, <1>3
<1>6. "flaky" \in trait[k] => seen[k] + 1 >= 3
  BY <1>1, <1>3
<1> QED
  BY <1>4, <1>5, <1>6

\* No step takes a promise back.
LEMMA WordsStep ==
  Placed /\ SeenHolds /\ WordsKeepTheirPromise /\ [OutageNext]_allVars => WordsKeepTheirPromise'
<1> SUFFICES ASSUME Placed, SeenHolds, WordsKeepTheirPromise, [OutageNext]_allVars
             PROVE  WordsKeepTheirPromise'
  OBVIOUS
<1> DEFINE Kept(k) ==
      /\ trait[k] \cap {"broken", "doomed"} = {}
      /\ "comeback" \in trait[k] => Replayed(k)
      /\ "flaky" \in trait[k] /\ restarts = 0 => seen[k] >= 3
<1>0. /\ seen \in [Keys -> Nat] /\ row \in [Keys -> {"SCHEDULED", "SENDING", "FAILED", "SENT", "DEAD"}]
      /\ restarts \in Nat /\ keyOf \in [Jobs -> Keys \cup {None}]
  BY DEF Placed, OutageTypeOK, TypeOK, P!TypeOK
<1>1. \A k \in Keys : row[k] = "SENT" => Kept(k)
  BY DEF WordsKeepTheirPromise, Rows
<1> SUFFICES ASSUME NEW k \in Keys, row'[k] = "SENT" PROVE Kept(k)'
  BY DEF WordsKeepTheirPromise, Rows
<1>2. CASE Tick \/ UNCHANGED allVars
  BY <1>1, <1>2 DEF Tick, allVars, vars, outageVars, rowVars, Replayed
<1>3. CASE Reboot
  BY <1>0, <1>1, <1>3 DEF Reboot, Restart, Replayed
<1>4. ASSUME NEW i \in Keys, NEW j \in FreshJobs, Replay(i, j) PROVE Kept(k)'
  <2>1. /\ keyOf' = [keyOf EXCEPT ![j] = i] /\ UNCHANGED <<restarts, seen, trait>>
        /\ keyOf[j] = None /\ j \in Jobs /\ row' = [row EXCEPT ![i] = "SCHEDULED"]
    BY <1>4, OutageAssumption DEF Replay, vars
  <2>2. Replayed(k) => Replayed(k)'
    BY <1>0, <2>1, OutageAssumption DEF Replayed
  <2>3. row[k] = "SENT"
    BY <1>0, <2>1
  <2> QED
    BY <1>1, <2>1, <2>2, <2>3
<1>5. ASSUME NEW j \in Jobs, NEW v, Call(j, v), row[k] = "SENT", restarts' = restarts PROVE Kept(k)'
  <2>1. seen' = [seen EXCEPT ![keyOf[j]] = @ + 1] /\ UNCHANGED <<trait, keyOf>>
    BY <1>5, AttemptFinds
  <2>2. seen'[k] \in {seen[k], seen[k] + 1} /\ seen[k] \in Nat
    BY <1>0, <2>1
  <2>3. Kept(k)
    BY <1>1, <1>5
  <2> QED
    BY <1>5, <2>1, <2>2, <2>3 DEF Replayed
<1>6. ASSUME NEW j \in Jobs, TryLater(j) \/ GiveUp(j) PROVE Kept(k)'
  <2>1. restarts' = restarts /\ row[k] = "SENT" /\ \E v : Call(j, v)
    <3>1. CASE TryLater(j)
      BY <1>0, <3>1, RetryIsDue DEF TryLater, LeftToHandler
    <3>2. CASE GiveUp(j)
      BY <1>0, <3>2 DEF GiveUp, Exhausted, LeftToHandler
    <3> QED
      BY <1>6, <3>1, <3>2
  <2> QED
    BY <1>5, <2>1
<1>7. ASSUME NEW j \in Jobs, Deliver(j) PROVE Kept(k)'
  <2>1. Call(j, "ok") /\ restarts' = restarts /\ row' = [row EXCEPT ![keyOf[j]] = "SENT"]
    BY <1>7 DEF Deliver, Completed
  <2>2. CASE keyOf[j] = k
    <3>1. /\ trait[k] \cap {"broken", "doomed"} = {}
          /\ "comeback" \in trait[k] => Replayed(k)
          /\ "flaky" \in trait[k] => seen[k] + 1 >= 3
      BY <1>7, <2>2, DeliverKeepsPromise
    <3>2. seen' = [seen EXCEPT ![k] = @ + 1] /\ UNCHANGED <<trait, keyOf>>
      BY <2>1, <2>2, AttemptFinds
    <3>3. seen'[k] = seen[k] + 1
      BY <1>0, <3>2
    <3> QED
      BY <3>1, <3>2, <3>3 DEF Replayed
  <2>3. CASE keyOf[j] # k
    BY <1>0, <1>5, <2>1, <2>3
  <2> QED
    BY <2>2, <2>3
<1>8. ASSUME NEW h \in writes, Handled(h) \/ HandlerFails(h) PROVE Kept(k)'
  <2>1. row[k] = "SENT"
    BY <1>0, <1>8 DEF Handled, HandlerFails
  <2> QED
    BY <1>1, <1>8, <2>1 DEF Handled, HandlerFails, vars, Replayed
<1> QED
  BY <1>2, <1>3, <1>4, <1>6, <1>7, <1>8 DEF OutageNext

\* The boot is the start or a restart's, and calls keep within attempts.
THEOREM BootAlways == OutageSpec => [](BootHolds /\ SeenHolds)
BY BootInit, BootStep, PlacedAlways, PTL DEF OutageSpec

\* Broken and doomed messages are never delivered, a comeback only after a replay,
\* a flaky one at its third call at the earliest.
THEOREM WordsAreKept == OutageSpec => []WordsKeepTheirPromise
<1>1. OutageInit => WordsKeepTheirPromise
  BY DEF OutageInit, WordsKeepTheirPromise, Rows
<1> QED
  BY <1>1, WordsStep, BootAlways, PlacedAlways, PTL DEF OutageSpec

-----------------------------------------------------------------------------
(* The counters, the log and the rows.                                     *)

\* The failed calls in a log.
Bad(l) == {i \in DOMAIN l : ~l[i].ok}

\* A call that is logged is one entry more, and one bad one more if it failed.
LEMMA LogGrows ==
  ASSUME P!TypeOK, NEW k \in Keys, NEW ok \in BOOLEAN, P!Record(k, ok), Len(log) < LogLimit
  PROVE  /\ Len(log') = Len(log) + 1
         /\ Cardinality(Bad(log)) \in Nat
         /\ Cardinality(Bad(log')) = IF ok THEN Cardinality(Bad(log)) ELSE Cardinality(Bad(log)) + 1
<1> DEFINE e == [t |-> now, ok |-> ok, key |-> k]
           E == [t : boot .. now, ok : BOOLEAN, key : Keys]
           n == Len(log)
<1>1. log \in Seq(E) /\ now \in Nat /\ boot \in 0 .. now
  BY DEF P!TypeOK
<1>2. e \in E /\ e.ok = ok
  BY <1>1
<1>3. log' = Append(log, e)
  BY DEF P!Record, P!Logged
<1> HIDE DEF e, E
<1>4. /\ n \in Nat /\ DOMAIN log = 1 .. n
      /\ Len(log') = n + 1 /\ DOMAIN log' = 1 .. n + 1
      /\ log'[n + 1] = e /\ \A i \in 1 .. n : log'[i] = log[i]
  BY <1>1, <1>2, <1>3, AppendProperties
<1> HIDE DEF n
<1>5. IsFiniteSet(Bad(log)) /\ Cardinality(Bad(log)) \in Nat /\ n + 1 \notin Bad(log)
  <2>1. IsFiniteSet(1 .. n) /\ Bad(log) \subseteq 1 .. n
    BY <1>4, FS_Interval DEF Bad
  <2> QED
    BY <1>4, <2>1, FS_Subset, FS_CardinalityType
<1>6. Bad(log') = IF ok THEN Bad(log) ELSE Bad(log) \cup {n + 1}
  <2>1. \A i \in 1 .. n + 1 : i \in 1 .. n \/ i = n + 1
    BY <1>4
  <2>2. n + 1 \in 1 .. n + 1 /\ \A i \in 1 .. n : i \in 1 .. n + 1
    BY <1>4
  <2> QED
    BY <1>2, <1>4, <1>5, <2>1, <2>2 DEF Bad
<1>7. Cardinality(Bad(log')) = IF ok THEN Cardinality(Bad(log)) ELSE Cardinality(Bad(log)) + 1
  BY <1>5, <1>6, FS_AddElement
<1> QED
  BY <1>4, <1>5, <1>7 DEF n

\* A call keeps counters and log in step.
LEMMA CallCounts ==
  ASSUME P!TypeOK, CallsCount, NEW k \in Keys, NEW ok \in BOOLEAN, P!Record(k, ok)
  PROVE  CallsCount'
<1>1. tally \in [calls : Nat, ok : Nat, failed : Nat]
  BY DEF P!TypeOK
<1>2. /\ tally'.calls = tally.calls + 1
      /\ ok  => tally'.ok = tally.ok + 1 /\ tally'.failed = tally.failed
      /\ ~ok => tally'.ok = tally.ok /\ tally'.failed = tally.failed + 1
      /\ tally.calls \in Nat /\ tally.ok \in Nat /\ tally.failed \in Nat
  BY <1>1, Counted
<1>3. tally'.calls = tally'.ok + tally'.failed
  <2>1. tally.calls = tally.ok + tally.failed
    BY DEF CallsCount
  <2> QED
    BY <1>2, <2>1
<1>4. ASSUME tally'.calls <= LogLimit
      PROVE  Len(log') = tally'.calls /\ Cardinality(Bad(log')) = tally'.failed
  <2>1. Len(log) = tally.calls /\ Cardinality(Bad(log)) = tally.failed /\ Len(log) < LogLimit
    BY <1>2, <1>4, OutageAssumption DEF CallsCount, Bad
  <2>2. /\ Len(log') = Len(log) + 1
        /\ Cardinality(Bad(log')) = IF ok THEN Cardinality(Bad(log)) ELSE Cardinality(Bad(log)) + 1
    BY <2>1, LogGrows
  <2> QED
    BY <1>2, <2>1, <2>2
<1> QED
  BY <1>3, <1>4 DEF CallsCount, Bad

\* No call leaves counters and log as they are, or sets both back.
LEMMA CallsStep == Placed /\ CallsCount /\ [OutageNext]_allVars => CallsCount'
<1> SUFFICES ASSUME Placed, CallsCount, [OutageNext]_allVars PROVE CallsCount'
  OBVIOUS
<1>1. CASE UNCHANGED <<tally, log>>
  BY <1>1 DEF CallsCount
<1>2. CASE Reboot
  <2>1. log' = <<>> /\ Len(log') = 0 /\ DOMAIN log' = {}
    BY <1>2 DEF Reboot, P!Reboot
  <2>2. {i \in DOMAIN log' : ~log'[i].ok} = {}
    BY <2>1
  <2>3. tally'.calls = 0 /\ tally'.ok = 0 /\ tally'.failed = 0
    BY <1>2 DEF Reboot, P!Reboot, P!Zeroes
  <2> QED
    BY <2>1, <2>2, <2>3, FS_EmptySet DEF CallsCount
<1>3. ASSUME NEW j \in Jobs, NEW v, Call(j, v) PROVE CallsCount'
  <2>1. P!TypeOK /\ keyOf[j] \in Keys /\ P!Record(keyOf[j], v = "ok")
    BY <1>3, AttemptFinds DEF Placed, OutageTypeOK
  <2> QED
    BY <2>1, CallCounts
<1> QED
  BY <1>1, <1>2, <1>3 DEF OutageNext, Tick, Replay, Deliver, TryLater, GiveUp, Handled, HandlerFails, allVars, outageVars, rowVars

\* One more attempt of a reminder's own job is one more in the sum of attempts.
LEMMA OneMoreAttempt ==
  ASSUME Placed, NEW k \in Keys, made' = [made EXCEPT ![k] = @ + 1]
  PROVE  Total(made, Keys)' = Total(made, Keys) + 1
<1>1. \A i \in Keys : made[i] \in Nat
  BY OutageAssumption, BackoffAssumption DEF Placed, OutageTypeOK, TypeOK
<1>2. OneMore(made', made, k, Keys)
  BY OutageAssumption DEF Placed, OutageTypeOK, TypeOK, OneMore
<1>3. Total(made', Keys) = Total(made, Keys) + 1
  BY <1>1, <1>2, TotalFacts, OutageAssumption
<1> QED
  BY <1>3

\* At the start nothing is counted.
LEMMA CountsInit == OutageInit => CallsCount /\ RowsCount
<1> SUFFICES ASSUME OutageInit PROVE CallsCount /\ RowsCount
  OBVIOUS
<1>1. log = <<>> /\ Len(log) = 0 /\ DOMAIN log = {} /\ {i \in DOMAIN log : ~log[i].ok} = {}
  BY DEF OutageInit, P!Boot
<1>2. tally.calls = 0 /\ tally.ok = 0 /\ tally.failed = 0
  BY DEF OutageInit, P!Boot, P!Zeroes
<1>3. delivered = {}
  BY DEF OutageInit
<1>4. Total(made, Keys) = 0
  <2>1. \A k \in Keys : made[k] = 0
    BY OutageAssumption DEF OutageInit, Init
  <2> QED
    BY <2>1, TotalFacts, OutageAssumption
<1> QED
  BY <1>1, <1>2, <1>3, <1>4, FS_EmptySet DEF CallsCount, RowsCount

\* While there is one run of everything, an attempt is one of a reminder's own job.
LEMMA OneRunBefore ==
  ASSUME Placed, [OutageNext]_allVars, OneRun'
  PROVE  OneRun
<1>1. restarts = 0
  BY StepsOfBackoff DEF OneRun, Next, Completed, Exhausted, Retry, Restart, vars, Placed, OutageTypeOK, TypeOK
<1>2. ASSUME NEW k \in Keys, Replayed(k) PROVE Replayed(k)'
  <2>1. PICK j \in FreshJobs : keyOf[j] = k
    BY <1>2 DEF Replayed
  <2>2. keyOf'[j] = k
    <3>1. k # None /\ j \in Jobs /\ keyOf \in [Jobs -> Keys \cup {None}]
      BY OutageAssumption DEF Placed, OutageTypeOK
    <3>2. keyOf' = keyOf \/ \E i \in FreshJobs, l \in Keys : keyOf[i] = None /\ keyOf' = [keyOf EXCEPT ![i] = l]
      BY DEF OutageNext, Tick, Reboot, Deliver, TryLater, GiveUp, Handled, HandlerFails, Replay, Call, allVars, outageVars, rowVars
    <3> QED
      BY <2>1, <3>1, <3>2
  <2> QED
    BY <2>2 DEF Replayed
<1> QED
  BY <1>1, <1>2 DEF OneRun

\* What was delivered and the sum of the attempts keep up with the counters.
LEMMA RowsStep == Placed /\ RowsCount /\ [OutageNext]_allVars => RowsCount'
<1> SUFFICES ASSUME Placed, RowsCount, [OutageNext]_allVars PROVE RowsCount'
  OBVIOUS
<1>0. /\ delivered \subseteq Keys /\ restarts \in Nat
      /\ tally \in [calls : Nat, ok : Nat, failed : Nat]
  BY DEF Placed, OutageTypeOK, TypeOK, P!TypeOK
<1>1. CASE UNCHANGED <<tally, made, restarts, delivered>>
  BY <1>1, OneRunBefore DEF RowsCount
<1>2. CASE Reboot
  BY <1>0, <1>2 DEF Reboot, Restart, RowsCount, OneRun
<1>4. ASSUME NEW j \in Jobs, Deliver(j) PROVE RowsCount'
  <2>1. /\ delivered' = delivered \cup {keyOf[j]} /\ keyOf[j] \notin delivered
        /\ keyOf[j] \in Keys /\ P!Record(keyOf[j], TRUE) /\ UNCHANGED <<made, restarts>>
    BY <1>4, AttemptFinds DEF Deliver, Completed
  <2>2. tally'.ok = tally.ok + 1 /\ tally'.failed = tally.failed
    BY <1>0, <2>1, Counted
  <2>3. IsFiniteSet(delivered)
    BY <1>0, OutageAssumption, FS_Subset
  <2>4. Cardinality(delivered') = Cardinality(delivered) + 1
    BY <2>1, <2>3, FS_AddElement
  <2> QED
    BY <2>1, <2>2, <2>4, OneRunBefore DEF RowsCount
<1>5. ASSUME NEW j \in Jobs, NEW v, v # "ok", Call(j, v), made' = [made EXCEPT ![j] = @ + 1],
             restarts' = restarts, delivered' = delivered
      PROVE  RowsCount'
  <2>1. keyOf[j] \in Keys /\ P!Record(keyOf[j], FALSE) /\ (j \notin Keys => Replayed(keyOf[j]))
    <3>1. (v = "ok") = FALSE
      BY <1>5
    <3> QED
      BY <1>5, <3>1, AttemptFinds
  <2>2. tally'.ok = tally.ok /\ tally'.failed = tally.failed + 1
    BY <1>0, <2>1, Counted
  <2>3. ASSUME OneRun' PROVE tally'.failed = Total(made, Keys)'
    <3>1. OneRun /\ j \in Keys
      BY <2>1, <2>3, OneRunBefore DEF OneRun
    <3>2. Total(made, Keys)' = Total(made, Keys) + 1
      BY <1>5, <3>1, OneMoreAttempt
    <3> QED
      BY <2>2, <3>1, <3>2 DEF RowsCount
  <2> QED
    BY <1>5, <2>2, <2>3 DEF RowsCount
<1>6. ASSUME NEW j \in Jobs, TryLater(j) PROVE RowsCount'
  <2>1. made' = [made EXCEPT ![j] = @ + 1] /\ restarts' = restarts /\ delivered' = delivered
    BY <1>6, RetryIsDue DEF LeftToHandler
  <2>2. Call(j, "transient")
    BY <1>6 DEF TryLater
  <2> QED
    BY <1>5, <2>1, <2>2
<1>7. ASSUME NEW j \in Jobs, GiveUp(j) PROVE RowsCount'
  <2>1. PICK v \in {"transient", "permanent"} : Call(j, v)
    BY <1>7 DEF GiveUp
  <2>2. made' = [made EXCEPT ![j] = @ + 1] /\ restarts' = restarts /\ delivered' = delivered
    BY <1>7 DEF GiveUp, Exhausted, LeftToHandler
  <2> QED
    BY <1>5, <2>1, <2>2
<1> QED
  BY <1>1, <1>2, <1>4, <1>6, <1>7
     DEF OutageNext, Tick, Replay, Handled, HandlerFails, allVars, vars, outageVars, rowVars

\* A failed attempt of a reminder's own job is the next its row does not count, and
\* has a handler.
LEMMA AttemptCounted ==
  ASSUME Placed, AttemptsHold, OneRun, NEW j \in Jobs, NEW v, Call(j, v),
         made' = [made EXCEPT ![j] = @ + 1], NEW b \in BOOLEAN, LeftToHandler(j, b)
  PROVE  AttemptsHold'
<1>1. j \in Keys
  BY AttemptFinds DEF OneRun
<1>2. /\ made \in [Jobs -> Nat] /\ attempts \in [Keys -> Nat] /\ Keys \subseteq Jobs
      /\ UNCHANGED <<attempts, slips>>
  BY OutageAssumption, BackoffAssumption, LeftWrite DEF Placed, OutageTypeOK, TypeOK
<1>3. PICK g : g = [job |-> j, n |-> made[j] + 1, dead |-> b] /\ writes' = writes \cup {g}
  BY LeftWrite
<1>4. g.job = j /\ g.n = made[j] + 1
  BY <1>3
<1>5. made'[j] = made[j] + 1 /\ \A k \in Jobs : k # j => made'[k] = made[k]
  BY <1>2
<1>6. \A k \in Jobs : made[k] \in Nat /\ made'[k] \in Nat /\ made[k] <= made'[k]
  BY <1>2, <1>5
<1>7. \A h \in writes' : h.job \in Keys /\ h.n \in 1 .. made'[h.job]
  <2>1. \A h \in writes : h.job \in Keys /\ h.n \in 1 .. made[h.job]
    BY DEF AttemptsHold
  <2>2. \A h \in writes : h.n \in 1 .. made'[h.job]
    BY <1>2, <1>6, <2>1
  <2>3. g.n \in 1 .. made'[g.job]
    BY <1>1, <1>2, <1>4, <1>5, <1>6
  <2> QED
    BY <1>1, <1>3, <1>4, <2>1, <2>2, <2>3
<1>8. \A k \in Keys : attempts'[k] <= made'[k]
  <2> SUFFICES ASSUME NEW k \in Keys PROVE attempts'[k] <= made'[k]
    OBVIOUS
  <2>1. attempts[k] <= made[k] /\ attempts'[k] = attempts[k] /\ attempts[k] \in Nat
    BY <1>2 DEF AttemptsHold
  <2>2. made[k] \in Nat /\ made'[k] \in Nat /\ made[k] <= made'[k]
    BY <1>2, <1>6
  <2> QED
    BY <2>1, <2>2
<1>9. ASSUME slips' = 0, NEW k \in Keys, NEW n \in 1 .. made'[k], attempts'[k] < n
      PROVE  \E h \in writes' : h.job = k /\ h.n = n
  <2>1. CASE k = j /\ n = made[j] + 1
    BY <1>3, <1>4, <2>1
  <2>2. CASE ~(k = j /\ n = made[j] + 1)
    <3>1. n \in 1 .. made[k]
      BY <1>1, <1>2, <1>5, <1>6, <1>9, <2>2
    <3>2. \E h \in writes : h.job = k /\ h.n = n
      BY <1>2, <1>9, <3>1 DEF AttemptsHold
    <3> QED
      BY <1>3, <3>2
  <2> QED
    BY <2>1, <2>2
<1> QED
  BY <1>7, <1>8, <1>9 DEF AttemptsHold

\* A handler counts the attempt it was left, in its turn or not; one that fails slips.
LEMMA HandlerCounted ==
  ASSUME Placed, AttemptsHold, OneRun, NEW h \in writes, Handled(h) \/ HandlerFails(h)
  PROVE  AttemptsHold'
<1>1. /\ made \in [Jobs -> Nat] /\ attempts \in [Keys -> Nat] /\ Keys \subseteq Jobs /\ slips \in Nat
      /\ h.job \in Keys /\ h.n \in 1 .. made[h.job] /\ keyOf[h.job] = h.job
  BY OutageAssumption, BackoffAssumption DEF Placed, OutageTypeOK, TypeOK, JobsHold, AttemptsHold
<1>2. writes' = writes \ {h} /\ made' = made
  BY DEF Handled, HandlerFails, vars
<1>3. \A g \in writes' : g.job \in Keys /\ g.n \in 1 .. made'[g.job]
  BY <1>2 DEF AttemptsHold
<1>4. CASE HandlerFails(h)
  <2>1. slips' # 0 /\ attempts' = attempts
    BY <1>1, <1>4 DEF HandlerFails
  <2> QED
    BY <1>2, <1>3, <2>1 DEF AttemptsHold
<1>5. CASE Handled(h)
  <2>1. /\ attempts' = [attempts EXCEPT ![h.job] = h.n]
        /\ slips' = IF h.n = attempts[h.job] + 1 THEN slips ELSE slips + 1
    BY <1>1, <1>5 DEF Handled
  <2>2. attempts'[h.job] = h.n /\ \A k \in Keys : k # h.job => attempts'[k] = attempts[k]
    BY <1>1, <2>1
  <2>3. h.n \in Nat /\ h.n <= made[h.job]
    BY <1>1
  <2>4. \A k \in Keys : attempts'[k] <= made'[k]
    BY <1>2, <2>2, <2>3 DEF AttemptsHold
  <2>5. ASSUME slips' = 0, NEW k \in Keys, NEW n \in 1 .. made'[k], attempts'[k] < n
        PROVE  \E g \in writes' : g.job = k /\ g.n = n
    <3>1. slips = 0 /\ h.n = attempts[h.job] + 1
      BY <1>1, <2>1, <2>5
    <3>2. attempts[k] < n /\ (k = h.job => n # h.n)
      <4>1. attempts[k] \in Nat /\ n \in Nat
        BY <1>1, <1>2
      <4>2. CASE k = h.job
        BY <2>2, <2>3, <2>5, <3>1, <4>1, <4>2
      <4>3. CASE k # h.job
        BY <2>2, <2>5, <4>3
      <4> QED
        BY <4>2, <4>3
    <3>3. PICK g \in writes : g.job = k /\ g.n = n
      BY <1>2, <3>1, <3>2 DEF AttemptsHold
    <3> QED
      BY <1>2, <3>2, <3>3
  <2> QED
    BY <1>3, <2>4, <2>5 DEF AttemptsHold
<1> QED
  BY <1>4, <1>5

\* At the start no attempt was made.
LEMMA AttemptsInit == OutageInit => AttemptsHold
<1> SUFFICES ASSUME OutageInit PROVE AttemptsHold
  OBVIOUS
<1>1. writes = {} /\ \A k \in Keys : attempts[k] = 0 /\ made[k] = 0
  BY OutageAssumption DEF OutageInit, Init
<1> QED
  BY <1>1 DEF AttemptsHold

\* The rows' attempts keep up with the queue's, as far as handlers do their work.
LEMMA AttemptsStep == Placed /\ AttemptsHold /\ [OutageNext]_allVars => AttemptsHold'
<1> SUFFICES ASSUME Placed, AttemptsHold, [OutageNext]_allVars, OneRun' PROVE AttemptsHold'
  BY DEF AttemptsHold
<1>0. OneRun
  BY OneRunBefore
<1>1. CASE UNCHANGED <<made, attempts, writes, slips>>
  BY <1>0, <1>1 DEF AttemptsHold
<1>2. CASE Reboot
  BY <1>2 DEF Reboot, Restart, OneRun, Placed, OutageTypeOK, TypeOK
<1>3. ASSUME NEW k \in Keys, NEW j \in FreshJobs, Replay(k, j) PROVE FALSE
  <2>1. keyOf'[j] = k
    BY <1>3, OutageAssumption DEF Replay, Placed, OutageTypeOK
  <2> QED
    BY <2>1 DEF OneRun, Replayed
<1>4. ASSUME NEW j \in Jobs, TryLater(j) PROVE AttemptsHold'
  <2>1. made' = [made EXCEPT ![j] = @ + 1] /\ LeftToHandler(j, FALSE)
    BY <1>4, RetryIsDue
  <2>2. Call(j, "transient")
    BY <1>4 DEF TryLater
  <2> QED
    BY <1>0, <2>1, <2>2, AttemptCounted
<1>5. ASSUME NEW j \in Jobs, GiveUp(j) PROVE AttemptsHold'
  <2>1. PICK v : Call(j, v)
    BY <1>5 DEF GiveUp
  <2>2. made' = [made EXCEPT ![j] = @ + 1] /\ LeftToHandler(j, TRUE)
    BY <1>5 DEF GiveUp, Exhausted
  <2> QED
    BY <1>0, <2>1, <2>2, AttemptCounted
<1>6. ASSUME NEW h \in writes, Handled(h) \/ HandlerFails(h) PROVE AttemptsHold'
  BY <1>0, <1>6, HandlerCounted
<1> QED
  BY <1>1, <1>2, <1>3, <1>4, <1>5, <1>6
     DEF OutageNext, Tick, Deliver, Completed, allVars, vars, outageVars, rowVars

\* Counters, log and rows are in step in every reachable state.
THEOREM CountsAlways == OutageSpec => [](CallsCount /\ RowsCount)
BY CountsInit, CallsStep, RowsStep, PlacedAlways, PTL DEF OutageSpec

\* So are the attempts of the rows, as far as handlers do their work.
THEOREM AttemptsAlways == OutageSpec => []AttemptsHold
BY AttemptsInit, AttemptsStep, PlacedAlways, PTL DEF OutageSpec

\* Two sums over the same reminders compare as their terms do.
LEMMA TotalsCompare ==
  ASSUME NEW S, IsFiniteSet(S), NEW g, NEW d, \A x \in S : g[x] \in Nat /\ d[x] \in Nat /\ g[x] <= d[x]
  PROVE  Total(g, S) \in Nat /\ Total(d, S) \in Nat /\ Total(g, S) <= Total(d, S)
<1>1. (\A x \in S : g[x] \in Int) /\ (\A x \in S : d[x] \in Int)
  OBVIOUS
<1>2. PICK f : SumsOver(f, g, S) /\ Total(g, S) = f[S]
  BY <1>1, TotalIsSum
<1>3. PICK e : SumsOver(e, d, S) /\ Total(d, S) = e[S]
  BY <1>1, TotalIsSum
<1> QED
  BY <1>2, <1>3, SumsCompare

\* The rows count no more attempts than there were failed calls, and with no handler
\* outstanding or slipped, as many.
LEMMA RowsAgree ==
  ASSUME Placed, RowsCount, AttemptsHold, OneRun
  PROVE  /\ Total(attempts, Keys) <= tally.failed
         /\ writes = {} /\ slips = 0 => Total(attempts, Keys) = tally.failed
<1>1. IsFiniteSet(Keys) /\ \A k \in Keys : attempts[k] \in Nat /\ made[k] \in Nat
  BY OutageAssumption, BackoffAssumption DEF Placed, OutageTypeOK, TypeOK
<1>2. \A k \in Keys : attempts[k] <= made[k]
  BY DEF AttemptsHold
<1>3. /\ Total(attempts, Keys) <= Total(made, Keys)
      /\ Total(attempts, Keys) \in Nat /\ Total(made, Keys) \in Nat
  BY <1>1, <1>2, TotalsCompare
<1>4. tally.failed = Total(made, Keys)
  BY DEF RowsCount
<1>5. ASSUME writes = {}, slips = 0 PROVE Total(made, Keys) <= Total(attempts, Keys)
  <2>1. ASSUME NEW k \in Keys, attempts[k] < made[k] PROVE FALSE
    <3>1. made[k] \in 1 .. made[k]
      BY <1>1, <2>1
    <3>2. \E h \in writes : h.job = k /\ h.n = made[k]
      BY <1>5, <2>1, <3>1 DEF AttemptsHold
    <3> QED
      BY <1>5, <3>2
  <2>2. \A k \in Keys : made[k] \in Nat /\ attempts[k] \in Nat /\ made[k] <= attempts[k]
    BY <1>1, <2>1
  <2> QED
    BY <1>1, <2>2, TotalsCompare
<1> QED
  BY <1>3, <1>4, <1>5

\* What the study asserts of its raw data: the rows' attempts against the failed
\* calls, as far as handlers do their work, and once all is settled, calls beyond one
\* per reminder against failed attempts beyond one per dead reminder.
THEOREM BooksAlwaysBalance == OutageSpec => []BooksBalance
<1>1. Placed /\ CallsCount /\ RowsCount /\ AttemptsHold => BooksBalance
  <2> SUFFICES ASSUME Placed, CallsCount, RowsCount, AttemptsHold, OneRun
               PROVE  LET dead    == Cardinality(Rows("DEAD"))
                          bad     == Cardinality({i \in DOMAIN log : ~log[i].ok})
                          retries == MapThenSumSet(LAMBDA k : attempts[k], Keys)
                      IN  /\ retries <= tally.failed
                          /\ writes = {} /\ slips = 0 => retries = tally.failed
                          /\ Rows("SENT") \cup Rows("DEAD") = Keys =>
                               tally.calls - Cardinality(Keys) = tally.failed - dead
                          /\ tally.calls <= LogLimit => Len(log) = tally.calls /\ bad = tally.failed
    BY DEF BooksBalance
  <2>1. /\ Total(attempts, Keys) <= tally.failed
        /\ writes = {} /\ slips = 0 => Total(attempts, Keys) = tally.failed
    BY RowsAgree
  <2>2. ASSUME Rows("SENT") \cup Rows("DEAD") = Keys
        PROVE  tally.calls - Cardinality(Keys) = tally.failed - Cardinality(Rows("DEAD"))
    <3>1. delivered = Rows("SENT") /\ delivered \cap Rows("DEAD") = {} /\ Keys = delivered \cup Rows("DEAD")
      BY <2>2 DEF Rows, Placed, OutageTypeOK, SentHolds
    <3>2. IsFiniteSet(delivered) /\ IsFiniteSet(Rows("DEAD"))
      BY <3>1, OutageAssumption, FS_Subset DEF Rows
    <3>3. Cardinality(delivered) \in Nat /\ Cardinality(Rows("DEAD")) \in Nat
      BY <3>2, FS_CardinalityType
    <3>4. Cardinality(delivered \cap Rows("DEAD")) = 0
      BY <3>1, FS_EmptySet
    <3>5. Cardinality(delivered \cup Rows("DEAD"))
            = Cardinality(delivered) + Cardinality(Rows("DEAD")) - Cardinality(delivered \cap Rows("DEAD"))
      BY <3>2, FS_Union
    <3>6. Cardinality(Keys) = Cardinality(delivered) + Cardinality(Rows("DEAD")) - 0
      BY <3>1, <3>4, <3>5, Zenon
    <3>7. tally.calls = tally.ok + tally.failed /\ tally.failed \in Nat /\ tally.ok = Cardinality(delivered)
      <4>1. tally \in [calls : Nat, ok : Nat, failed : Nat]
        BY DEF Placed, OutageTypeOK, P!TypeOK
      <4>2. tally.ok = Cardinality(delivered) /\ tally.calls = tally.ok + tally.failed
        BY DEF RowsCount, OneRun, CallsCount
      <4> QED
        BY <4>1, <4>2
    <3> QED
      BY <3>3, <3>6, <3>7
  <2> QED
    BY <2>1, <2>2 DEF CallsCount, Total
<1> QED
  BY <1>1, CountsAlways, AttemptsAlways, PlacedAlways, PTL

-----------------------------------------------------------------------------
(* The survival criterion.                                                 *)

\* At the start every job is due, untried and without waits.
LEMMA DueInit == OutageInit => DueHolds /\ DeadHolds
BY OutageAssumption DEF OutageInit, Init, DueHolds, DeadHolds, GivenUp

\* A reminder's own job is never due before its waits are over.
LEMMA DueStep == Placed /\ DueHolds /\ [OutageNext]_allVars => DueHolds'
<1> SUFFICES ASSUME Placed, DueHolds, [OutageNext]_allVars PROVE DueHolds'
  OBVIOUS
<1> DEFINE D(k) == /\ first[k] = NoDelay => total[k] = 0
                   /\ first[k] # NoDelay /\ due[k] # NoDelay => first[k] + total[k] <= due[k]
<1>0. /\ first \in [Keys -> Nat \cup {NoDelay}] /\ due \in [Jobs -> Nat \cup {NoDelay}]
      /\ total \in [Jobs -> Nat] /\ now \in Nat /\ Keys \subseteq Jobs
  BY OutageAssumption DEF Placed, OutageTypeOK, TypeOK, P!TypeOK
<1> SUFFICES ASSUME NEW k \in Keys PROVE D(k)'
  BY DEF DueHolds
<1>1. D(k)
  BY DEF DueHolds
<1>2. CASE Tick \/ Reboot \/ UNCHANGED allVars
  BY <1>1, <1>2 DEF Tick, Reboot, Restart, allVars, vars, outageVars, rowVars
<1>3. ASSUME NEW i \in Keys, NEW j \in FreshJobs, Replay(i, j) PROVE D(k)'
  <2>1. due' = [due EXCEPT ![j] = now] /\ UNCHANGED <<total, first>> /\ j # k
    BY <1>3, OutageAssumption DEF Replay, vars
  <2> QED
    BY <1>0, <1>1, <2>1
<1>4. ASSUME NEW j \in Jobs, NEW v, Call(j, v), j # k, \A i \in Keys : i # j => total'[i] = total[i],
             \A i \in Keys : i # j => due'[i] = due[i]
      PROVE  D(k)'
  <2>1. first'[k] = first[k]
    BY <1>0, <1>4 DEF Call
  <2> QED
    BY <1>1, <1>4, <2>1
<1>5. ASSUME NEW v, Call(k, v), due' = [due EXCEPT ![k] = NoDelay], total' = total PROVE D(k)'
  <2>1. first'[k] # NoDelay
    BY <1>0, <1>5 DEF Call, NoDelay
  <2> QED
    BY <1>0, <1>5, <2>1
<1>6. ASSUME NEW j \in Jobs, Deliver(j) \/ GiveUp(j) PROVE D(k)'
  <2>1. due' = [due EXCEPT ![j] = NoDelay] /\ total' = total /\ \E v : Call(j, v)
    BY <1>6 DEF Deliver, GiveUp, Completed, Exhausted
  <2>2. \A i \in Keys : i # j => due'[i] = due[i]
    BY <1>0, <2>1
  <2> QED
    BY <1>4, <1>5, <2>1, <2>2
<1>7. ASSUME NEW j \in Jobs, TryLater(j) PROVE D(k)'
  <2>1. PICK w \in Nat : due' = [due EXCEPT ![j] = now + w] /\ total' = [total EXCEPT ![j] = @ + w]
    BY <1>7, RetryIsDue
  <2>2. Call(j, "transient")
    BY <1>7 DEF TryLater
  <2>3. CASE j # k
    <3>1. \A i \in Keys : i # j => due'[i] = due[i] /\ total'[i] = total[i]
      BY <1>0, <2>1
    <3> QED
      BY <1>4, <2>2, <2>3, <3>1
  <2>4. CASE j = k
    <3>1. due[k] <= now /\ due[k] # NoDelay /\ due[k] \in Nat /\ total[k] \in Nat
      BY <1>0, <2>2, <2>4 DEF Call
    <3>2. due'[k] = now + w /\ total'[k] = total[k] + w
      BY <1>0, <2>1, <2>4
    <3>3. CASE first[k] = NoDelay
      <4>1. first'[k] = now /\ total[k] = 0
        BY <1>0, <1>1, <2>2, <2>4, <3>3 DEF Call
      <4> QED
        BY <1>0, <3>1, <3>2, <4>1 DEF NoDelay
    <3>4. CASE first[k] # NoDelay
      <4>1. first'[k] = first[k] /\ first[k] \in Nat /\ first[k] + total[k] <= due[k]
        BY <1>0, <1>1, <2>2, <2>4, <3>1, <3>4 DEF Call
      <4> QED
        BY <1>0, <3>1, <3>2, <3>4, <4>1
    <3> QED
      BY <3>3, <3>4
  <2> QED
    BY <2>3, <2>4
<1>8. ASSUME NEW h \in writes, Handled(h) \/ HandlerFails(h) PROVE D(k)'
  BY <1>1, <1>8 DEF Handled, HandlerFails, vars
<1> QED
  BY <1>2, <1>3, <1>6, <1>7, <1>8 DEF OutageNext

\* What is guaranteed of a schedule has been waited when its last attempt is made.
LEMMA GuaranteeMet ==
  ASSUME Inv, NEW j \in live, made[j] + 1 >= MaxAttempts
  PROVE  GuaranteedSum(strategy, MaxAttempts) <= total[j]
<1>1. /\ made[j] = MaxAttempts - 1 /\ made[j] \in Nat /\ total[j] \in Nat /\ strategy \in Strategies
      /\ Reach(strategy, total[j], made[j])
  BY BackoffAssumption DEF Inv, MemoryHolds, TypeOK, Reaches
<1>2. made[j] * Base \in Nat /\ FloorSum[made[j]] \in Nat /\ ExpSum[made[j]] \in Nat
  BY <1>1, ExpSumFacts, FloorSumFacts, WaitsAssumption
<1>3. GuaranteedSum(strategy, MaxAttempts) =
        CASE strategy \in {"fixed", "decorrelated"} -> made[j] * Base
          [] strategy = "exp"                       -> ExpSum[made[j]]
          [] strategy = "equal_jitter"              -> FloorSum[made[j]]
          [] OTHER                                  -> 0
  BY <1>1 DEF GuaranteedSum
<1> QED
  BY <1>1, <1>2, <1>3 DEF Reach, Strategies

\* A reminder that the outage alone rejects is given up during the outage, at the
\* last of its attempts.
LEMMA GiveUpFellShort ==
  ASSUME Placed, DueHolds, OneRun, ~injecting, NEW k \in Keys, trait[k] = {}, GiveUp(k)
  PROVE  /\ first'[k] \in Nat /\ first'[k] + total[k] < boot + RecoverAfter
         /\ GuaranteedSum(strategy, MaxAttempts) <= total[k]
<1>0. /\ first \in [Keys -> Nat \cup {NoDelay}] /\ total \in [Jobs -> Nat] /\ k \in Jobs
      /\ now \in Nat /\ boot \in Nat /\ RecoverAfter \in Nat
  BY OutageAssumption DEF Placed, OutageTypeOK, TypeOK, P!TypeOK
<1>1. PICK v : /\ Call(k, v) /\ v # "ok"
               /\ v = "permanent" \/ (v = "transient" /\ ~Retried(made[k] + 1))
  BY DEF GiveUp
<1>2. /\ keyOf[k] = k /\ v \in P!Verdicts(k, seen[k] + 1) /\ k \in live
      /\ due[k] \in Nat /\ due[k] # NoDelay /\ due[k] <= now
      /\ first' = IF first[k] = NoDelay THEN [first EXCEPT ![k] = now] ELSE first
  <2>1. keyOf[k] = k
    BY <1>0, <1>1, AttemptFinds
  <2> QED
    BY <1>0, <1>1, <2>1, AttemptFinds DEF Call
<1>3. v = "transient" /\ P!Down
  BY <1>1, <1>2 DEF P!Verdicts, P!Scripted
<1>4. now < boot + RecoverAfter
  BY <1>0, <1>3 DEF P!Down
<1>5. GuaranteedSum(strategy, MaxAttempts) <= total[k]
  <2>1. made[k] + 1 >= MaxAttempts
    BY <1>0, <1>1, <1>3, BackoffAssumption DEF Retried, Placed, OutageTypeOK, TypeOK
  <2> QED
    BY <1>2, <2>1, GuaranteeMet DEF Placed
<1>6. CASE first[k] = NoDelay
  <2>1. first'[k] = now /\ total[k] = 0
    BY <1>0, <1>2, <1>6 DEF DueHolds
  <2> QED
    BY <1>0, <1>4, <1>5, <2>1
<1>7. CASE first[k] # NoDelay
  <2>1. first'[k] = first[k] /\ first[k] \in Nat /\ first[k] + total[k] <= due[k] /\ total[k] \in Nat
    BY <1>0, <1>2, <1>7 DEF DueHolds
  <2> QED
    BY <1>0, <1>2, <1>4, <1>5, <2>1
<1> QED
  BY <1>6, <1>7

\* No step gives up a reminder for whom its waits would have been enough.
LEMMA DeadStep == Placed /\ DueHolds /\ DeadHolds /\ [OutageNext]_allVars => DeadHolds'
<1> DEFINE Short(k) == /\ first[k] # NoDelay /\ first[k] + total[k] < boot + RecoverAfter
                       /\ GuaranteedSum(strategy, MaxAttempts) <= total[k]
<1> SUFFICES ASSUME Placed, DueHolds, DeadHolds, [OutageNext]_allVars, OneRun', ~injecting',
                    NEW k \in Keys, k \notin live', k \notin delivered', trait'[k] = {}
             PROVE  Short(k)'
  BY DEF DeadHolds, GivenUp, GuaranteedSum
<1>0. /\ total \in [Jobs -> Nat] /\ k \in Jobs /\ live \subseteq Jobs
      /\ first \in [Keys -> Nat \cup {NoDelay}] /\ restarts \in Nat
  BY OutageAssumption DEF Placed, OutageTypeOK, TypeOK
<1>1. OneRun /\ ~injecting /\ trait[k] = {}
  <2>1. UNCHANGED <<trait, injecting>>
    BY DEF OutageNext, Tick, Reboot, Deliver, TryLater, GiveUp, Handled, HandlerFails, Replay,
       Call, allVars, outageVars
  <2>2. OneRun
    BY OneRunBefore
  <2> QED
    BY <2>1, <2>2
<1>2. ASSUME k \notin live, k \notin delivered, UNCHANGED <<strategy, boot>>, total'[k] = total[k], first'[k] = first[k]
      PROVE  Short(k)'
  BY <1>1, <1>2 DEF DeadHolds, GivenUp
<1>3. ASSUME UNCHANGED <<strategy, boot, live, total, first, delivered>> PROVE Short(k)'
  BY <1>2, <1>3
<1>4. CASE Reboot
  BY <1>0, <1>1, <1>4 DEF Reboot, Restart, OneRun
<1>5. ASSUME NEW j \in Jobs, NEW v, Call(j, v), k \notin live
      PROVE  j # k /\ first'[k] = first[k]
  <2>1. j # k
    BY <1>5, AttemptFinds
  <2> QED
    BY <1>0, <1>5, <2>1 DEF Call
<1>6. ASSUME NEW j \in Jobs, NEW v, Call(j, v)
      PROVE  keyOf[j] = j /\ j \in live
  BY <1>1, <1>6, AttemptFinds DEF OneRun
<1>7. ASSUME NEW j \in Jobs, Deliver(j) PROVE Short(k)'
  <2>1. /\ UNCHANGED <<strategy, boot, total>> /\ Call(j, "ok")
        /\ live' = live \ {j} /\ delivered' = delivered \cup {keyOf[j]}
    BY <1>7 DEF Deliver, Completed, Call
  <2>2. k # j /\ k \notin live /\ k \notin delivered
    BY <1>6, <2>1
  <2> QED
    BY <1>2, <1>5, <2>1, <2>2
<1>8. ASSUME NEW j \in Jobs, TryLater(j) PROVE Short(k)'
  <2>1. PICK w \in Nat : total' = [total EXCEPT ![j] = @ + w] /\ UNCHANGED <<strategy, live>> /\ LeftToHandler(j, FALSE)
    BY <1>8, RetryIsDue
  <2>2. Call(j, "transient") /\ boot' = boot
    BY <1>8 DEF TryLater, Call
  <2>3. k \notin live /\ k \notin delivered
    BY <2>1 DEF LeftToHandler
  <2>4. j # k /\ first'[k] = first[k]
    BY <1>5, <2>2, <2>3
  <2>5. total'[k] = total[k]
    BY <1>0, <2>1, <2>4
  <2> QED
    BY <1>2, <2>1, <2>2, <2>3, <2>4, <2>5
<1>9. ASSUME NEW j \in Jobs, GiveUp(j) PROVE Short(k)'
  <2>1. /\ UNCHANGED <<strategy, boot, total, delivered>> /\ live' = live \ {j}
        /\ \E v : Call(j, v)
    BY <1>9 DEF GiveUp, Exhausted, Call, LeftToHandler
  <2>2. CASE k \notin live
    BY <1>2, <1>5, <2>1, <2>2
  <2>3. CASE k \in live
    <3>1. j = k
      BY <2>1, <2>3
    <3>2. /\ first'[k] \in Nat /\ first'[k] + total[k] < boot + RecoverAfter
          /\ GuaranteedSum(strategy, MaxAttempts) <= total[k]
      BY <1>1, <1>9, <3>1, GiveUpFellShort
    <3> QED
      BY <2>1, <3>2 DEF NoDelay
  <2> QED
    BY <2>2, <2>3
<1> HIDE DEF Short
<1> QED
  BY <1>3, <1>4, <1>7, <1>8, <1>9
     DEF OutageNext, Tick, Replay, Handled, HandlerFails, allVars, vars, outageVars, rowVars

\* Jobs are due when their waits are over, and those given up have waited in vain.
THEOREM DeadAlways == OutageSpec => [](DueHolds /\ DeadHolds)
BY DueInit, DueStep, DeadStep, PlacedAlways, PTL DEF OutageSpec

\* The study's survival criterion: what the outage alone rejects is given up only
\* when its waits sum to less than what was left of the outage at its first attempt.
THEOREM OnlyTheShortFail == OutageSpec => []GivenUpFellShort
<1>1. Placed /\ DeadHolds => GivenUpFellShort
  <2> SUFFICES ASSUME Placed, DeadHolds, OneRun, ~injecting, NEW k \in GivenUp, trait[k] = {}
               PROVE  ~Survives(total[k], boot + RecoverAfter - first[k])
    BY DEF GivenUpFellShort
  <2>1. first[k] \in Nat /\ total[k] \in Nat /\ boot \in Nat /\ RecoverAfter \in Nat
    BY OutageAssumption DEF Placed, OutageTypeOK, TypeOK, P!TypeOK, DeadHolds, GivenUp
  <2>2. first[k] + total[k] < boot + RecoverAfter
    BY DEF DeadHolds
  <2> QED
    BY <2>1, <2>2 DEF Survives
<1> QED
  BY <1>1, DeadAlways, PlacedAlways, PTL

\* The report's rule for sizing a schedule: if what a strategy guarantees to wait
\* covers what is left of the outage, the reminder is not given up, whatever is drawn.
THEOREM SizedSchedulesDeliver == OutageSpec => []SizingRule
<1>1. Placed /\ DeadHolds => SizingRule
  <2> SUFFICES ASSUME Placed, DeadHolds, OneRun, ~injecting, NEW k \in GivenUp, trait[k] = {}
               PROVE  GuaranteedSum(strategy, MaxAttempts) < boot + RecoverAfter - first[k]
    BY DEF SizingRule
  <2>1. first[k] \in Nat /\ total[k] \in Nat /\ boot \in Nat /\ RecoverAfter \in Nat
    BY OutageAssumption DEF Placed, OutageTypeOK, TypeOK, P!TypeOK, DeadHolds, GivenUp
  <2>2. first[k] + total[k] < boot + RecoverAfter /\ GuaranteedSum(strategy, MaxAttempts) <= total[k]
    BY DEF DeadHolds
  <2>3. PICK g : g = GuaranteedSum(strategy, MaxAttempts)
    OBVIOUS
  <2>4. g \in Nat
    BY <2>3, ExpSumFacts, FloorSumFacts, WaitsAssumption, BackoffAssumption DEF GuaranteedSum
  <2> QED
    BY <2>1, <2>2, <2>3, <2>4
<1> QED
  BY <1>1, DeadAlways, PlacedAlways, PTL

-----------------------------------------------------------------------------
(* The worst window.                                                       *)

\* sliding_peak over the log is the worst one-second window there is.
THEOREM PeakIsFound == OutageSpec => []PeakIsWorstWindow
<1>1. Placed => PeakIsWorstWindow
  <2> SUFFICES ASSUME Placed PROVE PeakIsWorstWindow
    OBVIOUS
  <2> DEFINE E == [t : boot .. now, ok : BOOLEAN, key : Keys]
             ts == [i \in DOMAIN log |-> log[i].t]
             n == Len(log)
  <2>1. /\ log \in Seq(E) /\ now \in Nat /\ boot \in 0 .. now
        /\ \A i, j \in DOMAIN log : i <= j => log[i].t <= log[j].t
    BY DEF Placed, OutageTypeOK, P!TypeOK
  <2>2. n \in Nat /\ DOMAIN log = 1 .. n /\ \A i \in 1 .. n : log[i] \in E
    <3> HIDE DEF E
    <3> QED
      BY <2>1
  <2>3. \A i \in 1 .. n : log[i].t \in Nat /\ log[i].t <= now
    BY <2>1, <2>2
  <2> HIDE DEF n
  <2>4. ts \in [1 .. n -> Nat] /\ Ascending(ts) /\ \A i \in 1 .. n : ts[i] <= now
    BY <2>1, <2>2, <2>3 DEF Ascending
  <2>5. n = 0 <=> ts = <<>>
    BY <2>2
  <2> HIDE DEF ts
  <2>6. SlidingPeak(ts) = Max({InWindow(ts, t) : t \in -Window .. now + Window})
    <3>1. n \in Nat /\ now \in Nat /\ Window \in Nat \ {0}
      BY <2>1, <2>2, OutageAssumption
    <3> HIDE DEF E
    <3> QED
      BY <2>4, <2>5, <3>1, PeakIsGreatest, Zenon
  <2> QED
    BY <2>6 DEF PeakIsWorstWindow, ts
<1> QED
  BY <1>1, PlacedAlways, PTL
=============================================================================
