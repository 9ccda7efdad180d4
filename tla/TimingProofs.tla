---------------------------- MODULE TimingProofs ----------------------------
(***************************************************************************)
(* Theorems about Delivery: no reminder's own job calls the provider early *)
(* and no job leaves the queue without a reason; what is quiet stays so;   *)
(* what has no job or was given up can be told.  For any number of events, *)
(* jobs, replay calls, attempts, stalls, crashes and errors.               *)
(***************************************************************************)
EXTENDS DeliveryProofs

-----------------------------------------------------------------------------
(* Nothing is at work for an event that is not booked.                     *)

\* A step that books nothing, writes no absent row, starts no replay of one and
\* gives no job to one keeps what is unbooked.
LEMMA UnbookedFrame ==
  ASSUME Unbooked,
         \A e \in Events : event'[e] = "NONE" => event[e] = "NONE",
         \A r \in Reminders : state[r] = "ABSENT" => \/ state'[r] = "ABSENT"
                                                     \/ \E j \in JobIds : target[j] = r
                                                     \/ enq[r] # "idle"
                                                     \/ \E c \in Calls : r \in todo[c],
         \A r \in Reminders : enq[r] = "idle" => enq'[r] = "idle",
         \A c \in Calls : \A r \in todo'[c] : r \in todo[c] \/ state[r] # "ABSENT",
         \A c \in Calls : adding'[c] = adding[c] \/ adding'[c] \in todo[c] \/ adding'[c] = None,
         \A j \in JobIds : \/ target'[j] = target[j]
                           \/ enq[target'[j]] # "idle" \/ state[target'[j]] # "ABSENT"
                           \/ \E c \in Calls : adding[c] = target'[j]
  PROVE  Unbooked'
<1> SUFFICES ASSUME NEW r \in Reminders, event'[EventOf(r)] = "NONE"
             PROVE  /\ state'[r] = "ABSENT" /\ enq'[r] = "idle"
                    /\ \A c \in Calls : r \notin todo'[c] /\ adding'[c] # r
                    /\ \A j \in JobIds : target'[j] # r
  BY DEF Unbooked, EventOf
<1>1. event[EventOf(r)] = "NONE"
  BY ConstantFacts
<1>2. /\ state[r] = "ABSENT" /\ enq[r] = "idle"
      /\ \A c \in Calls : r \notin todo[c] /\ adding[c] # r
      /\ \A j \in JobIds : target[j] # r
  BY <1>1 DEF Unbooked
<1> QED
  BY <1>2, ConstantFacts

\* Every step keeps what is unbooked; only Create books.
LEMMA UnbookedStep == WellFormed /\ Unbooked /\ [Next]_vars => Unbooked'
<1> SUFFICES ASSUME WellFormed, Unbooked, [Next]_vars PROVE Unbooked'
  OBVIOUS
<1> USE DEF queueVars, dbVars, ghostVars, replayVars, bounds
<1>1. ASSUME Tick PROVE Unbooked'
  BY <1>1, UnbookedFrame DEF Tick
<1>2. ASSUME NEW e \in Events, NEW s \in Starts, Create(e, s) PROVE Unbooked'
  <2> SUFFICES ASSUME NEW r \in Reminders, event'[EventOf(r)] = "NONE"
               PROVE  /\ state'[r] = "ABSENT" /\ enq'[r] = "idle"
                      /\ \A c \in Calls : r \notin todo'[c] /\ adding'[c] # r
                      /\ \A j \in JobIds : target'[j] # r
    BY DEF Unbooked, EventOf
  <2>1. EventOf(r) # e /\ event[EventOf(r)] = "NONE"
    BY <1>2, ConstantFacts DEF Create, WellFormed, TypeOK
  <2>2. state'[r] = state[r] /\ enq'[r] = enq[r]
    BY <1>2, <2>1 DEF Create
  <2> QED
    BY <1>2, <2>1, <2>2 DEF Create, Unbooked
<1>3. ASSUME NEW e \in Events, EnqueueFails(e) PROVE Unbooked'
  BY <1>3, UnbookedFrame DEF EnqueueFails
<1>4. ASSUME NEW e \in Events, Reply(e) PROVE Unbooked'
  BY <1>4, UnbookedFrame DEF Reply, ReplyMatch, ReplyWrite, WellFormed, TypeOK
<1>5. ASSUME NEW r \in Reminders, EnqueueAdd(r) PROVE Unbooked'
  BY <1>5, UnbookedFrame DEF EnqueueAdd, AddJob, WellFormed, TypeOK, QueueTypeOK
<1>6. ASSUME NEW r \in Reminders, EnqueueFlip(r) PROVE Unbooked'
  BY <1>6, UnbookedFrame DEF EnqueueFlip, WellFormed, TypeOK
<1>7. ASSUME NEW r \in Reminders, Redeliver(r) PROVE Unbooked'
  BY <1>7, UnbookedFrame DEF Redeliver, EnqueueNow, AddJob, WellFormed, TypeOK, QueueTypeOK
<1>8. ASSUME NEW j \in JobIds, Promote(j) \/ Pick(j) \/ Stall(j) PROVE Unbooked'
  BY <1>8, UnbookedFrame DEF Promote, Pick, Stall, StallJob, MoveJob
<1>9. ASSUME NEW j \in JobIds, RunStep(j) PROVE Unbooked'
  <2>1. UNCHANGED <<event, enq, todo, adding, target>>
    BY <1>9 DEF RunStep, Load, SkipRow, Check, Dedupe, MarkSending, Provider, ProviderAccept,
       ProviderReject, CommitSend, CommitConflict, Complete, Fail, At, MoveJob, FailJob
  <2>2. \A r \in Reminders : target[j] # r => state'[r] = state[r]
    BY <1>9 DEF RunStep, Load, SkipRow, Check, Dedupe, MarkSending, Provider, ProviderAccept,
       ProviderReject, CommitSend, CommitConflict, Complete, Fail, At, WellFormed, TypeOK
  <2> QED
    BY <2>1, <2>2, UnbookedFrame
<1>10. ASSUME NEW j \in JobIds, DbError(j) PROVE Unbooked'
  BY <1>10, UnbookedFrame DEF DbError
<1>11. ASSUME NEW h \in failures, HandleFailed(h) \/ HandlerFails(h) PROVE Unbooked'
  <2>1. h.job \in JobIds
    BY DEF WellFormed, TypeOK
  <2>2. \A r \in Reminders : target[h.job] # r => state'[r] = state[r]
    BY <1>11 DEF HandleFailed, HandlerFails, WellFormed, TypeOK
  <2>3. UNCHANGED <<event, enq, todo, adding, target>>
    BY <1>11 DEF HandleFailed, HandlerFails
  <2> QED
    BY <2>1, <2>2, <2>3, UnbookedFrame
<1>12. ASSUME NEW c \in Calls, StartReplay(c) PROVE Unbooked'
  BY <1>12, UnbookedFrame DEF StartReplay, Dead, WellFormed, TypeOK
<1>13. ASSUME NEW c \in Calls, ReplayAdd(c) PROVE Unbooked'
  BY <1>13, UnbookedFrame DEF ReplayAdd, EnqueueNow, AddJob, WellFormed, TypeOK, QueueTypeOK
<1>14. ASSUME NEW c \in Calls, NEW r \in Reminders, ReplayReset(c, r) PROVE Unbooked'
  BY <1>14, UnbookedFrame DEF ReplayReset, WellFormed, TypeOK
<1>15. ASSUME NEW c \in Calls, ReplayFails(c) PROVE Unbooked'
  BY <1>15, UnbookedFrame DEF ReplayFails, WellFormed, TypeOK
<1>16. ASSUME Crash PROVE Unbooked'
  BY <1>16, UnbookedFrame DEF Crash
<1>17. CASE UNCHANGED vars
  BY <1>17, UnbookedFrame DEF vars
<1> QED
  BY <1>1, <1>2, <1>3, <1>4, <1>5, <1>6, <1>7, <1>8, <1>9, <1>10, <1>11, <1>12, <1>13,
     <1>14, <1>15, <1>16, <1>17 DEF Next, Booking, Replay

\* Nothing is at work at the start.
LEMMA UnbookedInit == Init => Unbooked
BY ConstantFacts DEF Init, QueueInit, Unbooked

\* Nothing is ever at work for an event that is not booked.
THEOREM UnbookedAlways == Spec => []Unbooked
BY WellFormedAlways, UnbookedInit, UnbookedStep, PTL DEF Spec

-----------------------------------------------------------------------------
(* What only ever moves forward.                                           *)

\* Time, replies and records only grow, the start of a booked event is fixed, and
\* so is the reminder of a job.
Forward ==
  /\ now' >= now /\ cancelled \subseteq cancelled' /\ sendKeys \subseteq sendKeys'
  /\ \A e \in Events : event[e] # "NONE" => startsAt'[e] = startsAt[e] /\ event'[e] # "NONE"
  /\ \A j \in JobIds : qstate[j] # "none" => target'[j] = target[j] /\ qstate'[j] # "none"

\* Every step goes forward; the cases are the actions of Next.
LEMMA StepsGoForward == WellFormed /\ [Next]_vars => Forward
<1> SUFFICES ASSUME WellFormed, [Next]_vars PROVE Forward
  OBVIOUS
<1> USE DEF Forward, queueVars, dbVars, ghostVars, replayVars, bounds, WellFormed, TypeOK,
        QueueTypeOK
<1>1. ASSUME Tick \/ Crash PROVE Forward
  BY <1>1 DEF Tick, Crash
<1>2. ASSUME NEW e \in Events, NEW s \in Starts, Create(e, s) PROVE Forward
  BY <1>2 DEF Create
<1>3. ASSUME NEW e \in Events, EnqueueFails(e) PROVE Forward
  BY <1>3 DEF EnqueueFails
<1>4. ASSUME NEW e \in Events, Reply(e) PROVE Forward
  BY <1>4 DEF Reply, ReplyMatch, ReplyWrite
<1>5. ASSUME NEW r \in Reminders, Booking(r) \/ Redeliver(r) PROVE Forward
  BY <1>5 DEF Booking, EnqueueAdd, EnqueueFlip, Redeliver, EnqueueNow, AddJob, JobIds,
     FirstState
<1>6. ASSUME NEW j \in JobIds, Promote(j) \/ Pick(j) \/ Stall(j) \/ DbError(j) PROVE Forward
  BY <1>6 DEF Promote, Pick, Stall, StallJob, MoveJob, DbError
<1>7. ASSUME NEW j \in JobIds, RunStep(j) PROVE Forward
  BY <1>7 DEF RunStep, Load, SkipRow, Check, Dedupe, MarkSending, Provider, ProviderAccept,
     ProviderReject, CommitSend, CommitConflict, Complete, Fail, At, MoveJob, FailJob
<1>8. ASSUME NEW h \in failures, HandleFailed(h) \/ HandlerFails(h) PROVE Forward
  BY <1>8 DEF HandleFailed, HandlerFails
<1>9. ASSUME NEW c \in Calls, StartReplay(c) \/ Replay(c) \/ ReplayFails(c) PROVE Forward
  BY <1>9 DEF StartReplay, Replay, ReplayAdd, ReplayReset, ReplayFails, EnqueueNow, AddJob,
     JobIds
<1>10. CASE UNCHANGED vars
  BY <1>10 DEF vars
<1> HIDE DEF Forward
<1> QED
  BY <1>1, <1>2, <1>3, <1>4, <1>5, <1>6, <1>7, <1>8, <1>9, <1>10 DEF Next

-----------------------------------------------------------------------------
(* Due times.                                                              *)

\* A step after which no more jobs have left their delay keeps them timely.
LEMMA TimelyFrame ==
  ASSUME WellFormed, WellFormed', Unbooked, CallAccount, Timely, Forward,
         \A r \in Reminders : LeftItsDelay(r)' => LeftItsDelay(r)
  PROVE  Timely'
<1> SUFFICES ASSUME NEW r \in Reminders, LeftItsDelay(r)' PROVE now' >= RunAt(r)'
  BY DEF Timely
<1>1. LeftItsDelay(r) /\ now >= RunAt(r)
  BY DEF Timely
<1>2. qstate[r] # "none" /\ r \in JobIds
  BY <1>1 DEF LeftItsDelay, CallAccount, Account, JobIds, WellFormed, TypeOK, QueueTypeOK
<1>3. event[EventOf(r)] # "NONE" /\ EventOf(r) \in Events
  BY <1>2, ConstantFacts DEF Unbooked, WellFormed, JobsHaveTargets
<1>4. RunAt(r)' = RunAt(r)
  BY <1>3 DEF Forward, RunAt, EventOf
<1>5. RunAt(r) \in Int /\ now \in Nat /\ now' \in Nat
  BY <1>3, ConstantFacts DEF RunAt, EventOf, WellFormed, TypeOK
<1> QED
  BY <1>1, <1>4, <1>5 DEF Forward

\* A job leaves its delay only when it is added overdue or its timer fires.
LEMMA TimelyStep ==
  /\ WellFormed /\ WellFormed' /\ Unbooked /\ CallAccount /\ Timely /\ [Next]_vars
  => Timely'
<1> SUFFICES ASSUME WellFormed, WellFormed', Unbooked, CallAccount, Timely, [Next]_vars
             PROVE  Timely'
  OBVIOUS
<1>a. Forward
  BY StepsGoForward
<1>b. \A r \in Reminders : r \in JobIds
  BY DEF JobIds
<1> USE <1>a, <1>b DEF queueVars, dbVars, ghostVars, replayVars, bounds
<1> DEFINE Same == UNCHANGED <<qstate, made, calls>>
<1>0. ASSUME Same PROVE Timely'
  BY <1>0, TimelyFrame DEF LeftItsDelay
<1>1. ASSUME Tick \/ Crash PROVE Timely'
  BY <1>1, <1>0 DEF Tick, Crash
<1>2. ASSUME NEW e \in Events, \/ \E s \in Starts : Create(e, s)
                               \/ EnqueueFails(e) \/ Reply(e)
      PROVE  Timely'
  BY <1>2, <1>0 DEF Create, EnqueueFails, Reply, ReplyMatch, ReplyWrite
<1>3. ASSUME NEW r \in Reminders, EnqueueAdd(r) PROVE Timely'
  <2>1. made[r] = 0 /\ calls[r] = 0
    BY <1>3 DEF EnqueueAdd, AddJob, CallAccount, Account
  <2>2. \A q \in Reminders : q # r => LeftItsDelay(q)' = LeftItsDelay(q)
    BY <1>3 DEF EnqueueAdd, AddJob, LeftItsDelay, WellFormed, TypeOK, QueueTypeOK
  <2>3. CASE RunAt(r) > now
    <3>1. ~LeftItsDelay(r)'
      BY <1>3, <2>1, <2>3 DEF EnqueueAdd, AddJob, FirstState, LeftItsDelay, WellFormed,
         TypeOK, QueueTypeOK
    <3> QED
      BY <2>2, <3>1, TimelyFrame
  <2>4. CASE ~(RunAt(r) > now)
    <3>1. RunAt(r) \in Int /\ now \in Nat
      BY ConstantFacts DEF RunAt, EventOf, WellFormed, TypeOK
    <3>2. UNCHANGED <<startsAt, now>>
      BY <1>3 DEF EnqueueAdd
    <3>3. \A q \in Reminders : RunAt(q)' = RunAt(q)
      BY <3>2 DEF RunAt
    <3> QED
      BY <2>2, <2>4, <3>1, <3>2, <3>3 DEF Timely
  <2> QED
    BY <2>3, <2>4
<1>4. ASSUME NEW r \in Reminders, EnqueueFlip(r) PROVE Timely'
  BY <1>4, <1>0 DEF EnqueueFlip
<1>5. ASSUME NEW r \in Reminders, NEW j \in FreshJobs, AddJob(j, r, "waiting"),
             UNCHANGED calls
      PROVE  Timely'
  <2>1. \A q \in Reminders : qstate'[q] = qstate[q] /\ made'[q] = made[q]
    BY <1>5, ConstantFacts DEF AddJob, WellFormed, TypeOK, QueueTypeOK
  <2> QED
    BY <1>5, <2>1, TimelyFrame DEF LeftItsDelay
<1>6. ASSUME NEW r \in Reminders, Redeliver(r) PROVE Timely'
  BY <1>5, <1>6 DEF Redeliver, EnqueueNow
<1>7. ASSUME NEW j \in JobIds, Promote(j) PROVE Timely'
  <2>1. \A q \in Reminders : q # j => LeftItsDelay(q)' = LeftItsDelay(q)
    BY <1>7 DEF Promote, MoveJob, LeftItsDelay, WellFormed, TypeOK, QueueTypeOK
  <2>2. UNCHANGED <<startsAt, now>> /\ \A q \in Reminders : RunAt(q)' = RunAt(q)
    BY <1>7 DEF Promote, RunAt
  <2>3. ASSUME j \in Reminders PROVE now >= RunAt(j)
    <3>1. target[j] = j
      BY <1>7, <2>3 DEF Promote, MoveJob, WellFormed, JobsHaveTargets
    <3>2. CASE made[j] = 0
      BY <1>7, <3>1, <3>2 DEF Promote
    <3>3. CASE made[j] # 0
      <4>1. made[j] \in Nat
        BY DEF WellFormed, TypeOK, QueueTypeOK
      <4> QED
        BY <2>3, <3>3, <4>1 DEF Timely, LeftItsDelay
    <3> QED
      BY <3>2, <3>3
  <2> QED
    BY <2>1, <2>2, <2>3 DEF Timely
<1>8. ASSUME NEW j \in JobIds, Pick(j) \/ Stall(j) \/ DbError(j) PROVE Timely'
  BY <1>8, TimelyFrame DEF Pick, Stall, StallJob, MoveJob, DbError, LeftItsDelay, WellFormed,
     TypeOK, QueueTypeOK
<1>9. ASSUME NEW j \in JobIds, RunStep(j) PROVE Timely'
  <2>1. qstate[j] = "active"
    BY <1>9 DEF RunStep, Load, SkipRow, Check, Dedupe, MarkSending, Provider, ProviderAccept,
       ProviderReject, CommitSend, CommitConflict, Complete, Fail, At, MoveJob, FailJob,
       WellFormed, RunsAreActive
  <2>2. \A q \in Reminders : q # j =>
          qstate'[q] = qstate[q] /\ made'[q] = made[q] /\ calls'[q] = calls[q]
    BY <1>9 DEF RunStep, Load, SkipRow, Check, Dedupe, MarkSending, Provider, ProviderAccept,
       ProviderReject, CommitSend, CommitConflict, Complete, Fail, At, MoveJob, FailJob,
       WellFormed, TypeOK, QueueTypeOK
  <2> QED
    BY <2>1, <2>2, TimelyFrame DEF LeftItsDelay
<1>10. ASSUME NEW h \in failures, HandleFailed(h) \/ HandlerFails(h) PROVE Timely'
  BY <1>10, <1>0 DEF HandleFailed, HandlerFails
<1>11. ASSUME NEW c \in Calls, StartReplay(c) \/ ReplayFails(c) PROVE Timely'
  BY <1>11, <1>0 DEF StartReplay, ReplayFails
<1>12. ASSUME NEW c \in Calls, ReplayAdd(c) PROVE Timely'
  <2>1. adding[c] \in Reminders
    BY <1>12 DEF ReplayAdd, WellFormed, TypeOK
  <2> QED
    BY <1>5, <1>12, <2>1 DEF ReplayAdd, EnqueueNow
<1>13. ASSUME NEW c \in Calls, NEW r \in Reminders, ReplayReset(c, r) PROVE Timely'
  BY <1>13, <1>0 DEF ReplayReset
<1>14. CASE UNCHANGED vars
  BY <1>14, <1>0 DEF vars
<1> QED
  BY <1>1, <1>2, <1>3, <1>4, <1>6, <1>7, <1>8, <1>9, <1>10, <1>11, <1>12, <1>13, <1>14
     DEF Next, Booking, Replay

\* A reminder's own job never calls the provider before the reminder is due,
\* however its attempts fail, stall and are retried.
THEOREM NoReminderIsEarly == Spec => []NeverEarly
<1>1. Init => Timely
  BY ConstantFacts DEF Init, QueueInit, Timely, LeftItsDelay, JobIds
<1>2. Spec => []Timely
  BY <1>1, TimelyStep, WellFormedAlways, UnbookedAlways, CallAccountAlways, PTL DEF Spec
<1>3. Timely => NeverEarly
  BY DEF Timely, LeftItsDelay, NeverEarly
<1> QED
  BY <1>2, <1>3, PTL

-----------------------------------------------------------------------------
(* Why jobs leave the queue.                                               *)

\* A reason stays a reason.
LEMMA ExcusesLast ==
  ASSUME WellFormed, WellFormed', Unbooked, Forward, NEW j \in JobIds, qstate[j] # "none"
  PROVE  /\ Excused(target[j]) => Excused(target[j])'
         /\ AlreadySent(target[j]) => AlreadySent(target[j])'
<1>1. target'[j] = target[j] /\ target[j] \in Reminders
  BY DEF Forward, WellFormed, JobsHaveTargets
<1>2. startsAt'[EventOf(target[j])] = startsAt[EventOf(target[j])]
  BY <1>1, ConstantFacts DEF Unbooked, Forward
<1>3. startsAt[EventOf(target[j])] \in Nat /\ now \in Nat /\ now' \in Nat
  BY <1>1, ConstantFacts DEF WellFormed, TypeOK
<1> QED
  BY <1>1, <1>2, <1>3 DEF Forward, Excused, Stale, AlreadySent, EventOf

\* Only Load finds a reason and only four actions act on one.
LEMMA ReasonsStep ==
  /\ WellFormed /\ WellFormed' /\ Records /\ Unbooked /\ Reasons /\ [Next]_vars
  => Reasons'
<1> SUFFICES ASSUME WellFormed, WellFormed', Records, Unbooked, Reasons, [Next]_vars
             PROVE  Reasons'
  OBVIOUS
<1>a. Forward
  BY StepsGoForward
<1>b. CancelsAreKnown'
  <2> USE DEF Reasons, CancelsAreKnown, queueVars, dbVars, ghostVars, replayVars, bounds
  <2>1. CASE UNCHANGED <<event, cancelled>>
    BY <2>1
  <2>2. ASSUME NEW e \in Events, NEW s \in Starts, Create(e, s) PROVE CancelsAreKnown'
    BY <2>2 DEF Create, WellFormed, TypeOK
  <2>3. ASSUME NEW e \in Events, Reply(e) PROVE CancelsAreKnown'
    BY <2>3 DEF Reply, ReplyMatch, ReplyWrite, WellFormed, TypeOK
  <2> QED
    BY <2>1, <2>2, <2>3 DEF Next, Tick, Crash, EnqueueFails, Booking, EnqueueAdd, EnqueueFlip,
       Redeliver, Promote, Pick, Stall, DbError, RunStep, Load, SkipRow, Check, Dedupe,
       MarkSending, Provider, ProviderAccept, ProviderReject, CommitSend, CommitConflict,
       Complete, Fail, At, HandleFailed, HandlerFails, StartReplay, Replay, ReplayAdd,
       ReplayReset, ReplayFails, vars
<1>c. \A j \in JobIds : pc[j] # "idle" => qstate[j] # "none"
  BY DEF WellFormed, RunsAreActive
\* A step that brings no run to cancel or finish and no job to done.
<1>d. ASSUME \A j \in JobIds : pc'[j] = pc[j] \/ pc'[j] \notin {"cancel", "finish"},
             \A j \in JobIds : qstate'[j] = qstate[j] \/ qstate'[j] # "done"
      PROVE  Reasons'
  <2>1. ASSUME NEW j \in JobIds
        PROVE  /\ pc'[j] = "cancel" => Excused(target[j])'
               /\ pc'[j] = "finish" => AlreadySent(target[j])' \/ Excused(target[j])'
    BY <1>a, <1>c, <1>d, ExcusesLast DEF Reasons, RunsHaveReasons
  <2>2. ASSUME NEW j \in JobIds, qstate'[j] = "done"
        PROVE  AlreadySent(target[j])' \/ Excused(target[j])'
    <3>1. qstate[j] = "done"
      BY <1>d, <2>2
    <3>2. AlreadySent(target[j]) \/ Excused(target[j])
      BY <3>1 DEF Reasons, NoSilentDrop, Excused
    <3> QED
      BY <1>a, <3>1, <3>2, ExcusesLast
  <2>3. RunsHaveReasons'
    BY <2>1 DEF RunsHaveReasons
  <2>4. NoSilentDrop'
    BY <2>2 DEF NoSilentDrop, Excused
  <2> QED
    BY <1>b, <2>3, <2>4 DEF Reasons
\* A run of job j goes on to cancel or finish for a reason.
<1>e. ASSUME NEW j \in JobIds, pc[j] # "idle", UNCHANGED qstate,
             \A i \in JobIds : i # j => pc'[i] = pc[i],
             pc'[j] = "cancel" => Excused(target[j])',
             pc'[j] = "finish" => AlreadySent(target[j])' \/ Excused(target[j])'
      PROVE  Reasons'
  <2>1. ASSUME NEW i \in JobIds
        PROVE  /\ pc'[i] = "cancel" => Excused(target[i])'
               /\ pc'[i] = "finish" => AlreadySent(target[i])' \/ Excused(target[i])'
    <3>1. CASE i = j
      BY <1>e, <3>1
    <3>2. CASE i # j
      BY <1>a, <1>c, <1>e, <3>2, ExcusesLast DEF Reasons, RunsHaveReasons
    <3> QED
      BY <3>1, <3>2
  <2>2. ASSUME NEW i \in JobIds, qstate'[i] = "done"
        PROVE  AlreadySent(target[i])' \/ Excused(target[i])'
    <3>1. qstate[i] = "done"
      BY <1>e, <2>2
    <3>2. AlreadySent(target[i]) \/ Excused(target[i])
      BY <3>1 DEF Reasons, NoSilentDrop, Excused
    <3> QED
      BY <1>a, <3>1, <3>2, ExcusesLast
  <2>3. RunsHaveReasons'
    BY <2>1 DEF RunsHaveReasons
  <2>4. NoSilentDrop'
    BY <2>2 DEF NoSilentDrop, Excused
  <2> QED
    BY <1>b, <2>3, <2>4 DEF Reasons
<1> USE DEF queueVars, dbVars, ghostVars, replayVars, bounds
<1>1. ASSUME NEW j \in JobIds, Load(j) PROVE Reasons'
  <2>1. pc[j] # "idle" /\ UNCHANGED <<qstate, target, event, cancelled, startsAt, now>>
    BY <1>1 DEF Load, At
  <2>2. target[j] \in Reminders
    BY <2>1 DEF WellFormed, RunsAreActive, JobsHaveTargets
  <2>3. IsCancelled(target[j]) \/ Stale(target[j]) => Excused(target[j])
    BY <2>2, ConstantFacts DEF IsCancelled, Excused, Reasons, CancelsAreKnown
  <2>4. Excused(target[j]) => Excused(target[j])'
    BY <1>a, <1>c, <2>1, ExcusesLast
  <2>5. /\ \A i \in JobIds : i # j => pc'[i] = pc[i]
        /\ pc'[j] = "cancel" => IsCancelled(target[j]) \/ Stale(target[j])
        /\ pc'[j] # "finish"
    BY <1>1 DEF Load, At, WellFormed, TypeOK
  <2> QED
    BY <1>e, <2>1, <2>3, <2>4, <2>5
<1>2. ASSUME NEW j \in JobIds, SkipRow(j) PROVE Reasons'
  <2>1. pc[j] = "cancel" /\ pc'[j] = "finish" /\ UNCHANGED qstate
        /\ \A i \in JobIds : i # j => pc'[i] = pc[i]
    BY <1>2 DEF SkipRow, At, WellFormed, TypeOK
  <2>2. Excused(target[j])'
    BY <1>a, <1>c, <2>1, ExcusesLast DEF Reasons, RunsHaveReasons
  <2> QED
    BY <1>e, <2>1, <2>2
<1>3. ASSUME NEW j \in JobIds, Dedupe(j) PROVE Reasons'
  <2>1. pc[j] = "dedupe" /\ pc'[j] = "finish" /\ UNCHANGED qstate
        /\ \A i \in JobIds : i # j => pc'[i] = pc[i]
    BY <1>3 DEF Dedupe, At, WellFormed, TypeOK
  <2>2. AlreadySent(target[j])'
    BY <1>a, <1>c, <2>1, ExcusesLast DEF Records, RunEvidence
  <2> QED
    BY <1>e, <2>1, <2>2
<1>4. ASSUME NEW j \in JobIds, CommitSend(j) PROVE Reasons'
  <2>1. pc[j] = "commit" /\ pc'[j] = "finish" /\ UNCHANGED <<qstate, target>>
        /\ \A i \in JobIds : i # j => pc'[i] = pc[i]
    BY <1>4 DEF CommitSend, At, WellFormed, TypeOK
  <2>2. AlreadySent(target[j])'
    BY <1>4, <2>1 DEF CommitSend, AlreadySent
  <2> QED
    BY <1>e, <2>1, <2>2
<1>5. ASSUME NEW j \in JobIds, Complete(j) PROVE Reasons'
  <2>1. /\ pc[j] = "finish" /\ pc'[j] = "idle"
        /\ \A i \in JobIds : i # j => pc'[i] = pc[i] /\ qstate'[i] = qstate[i]
    BY <1>5 DEF Complete, MoveJob, WellFormed, TypeOK, QueueTypeOK
  <2>2. ASSUME NEW i \in JobIds, qstate'[i] = "done"
        PROVE  AlreadySent(target[i])' \/ Excused(target[i])'
    <3>1. AlreadySent(target[i]) \/ Excused(target[i])
      BY <2>1, <2>2 DEF Reasons, RunsHaveReasons, NoSilentDrop, Excused
    <3>2. qstate[i] # "none"
      BY <1>c, <2>1, <2>2
    <3> QED
      BY <1>a, <3>1, <3>2, ExcusesLast
  <2>3. ASSUME NEW i \in JobIds
        PROVE  /\ pc'[i] = "cancel" => Excused(target[i])'
               /\ pc'[i] = "finish" => AlreadySent(target[i])' \/ Excused(target[i])'
    BY <1>a, <1>c, <2>1, ExcusesLast DEF Reasons, RunsHaveReasons
  <2>4. RunsHaveReasons'
    BY <2>3 DEF RunsHaveReasons
  <2>5. NoSilentDrop'
    BY <2>2 DEF NoSilentDrop, Excused
  <2> QED
    BY <1>b, <2>4, <2>5 DEF Reasons
<1>6. ASSUME NEW j \in JobIds, Check(j) \/ MarkSending(j) \/ ProviderAccept(j)
                               \/ (\E retryable \in BOOLEAN : ProviderReject(j, retryable))
                               \/ CommitConflict(j)
      PROVE  Reasons'
  <2>1. UNCHANGED qstate
    BY <1>6 DEF Check, MarkSending, ProviderAccept, ProviderReject, CommitConflict, At
  <2>2. \A i \in JobIds : pc'[i] = pc[i] \/ pc'[i] \notin {"cancel", "finish"}
    BY <1>6 DEF Check, MarkSending, ProviderAccept, ProviderReject, CommitConflict, At,
       WellFormed, TypeOK
  <2> QED
    BY <1>d, <2>1, <2>2
<1>7. ASSUME NEW j \in JobIds, Fail(j) \/ Promote(j) \/ Pick(j) \/ Stall(j) \/ DbError(j)
      PROVE  Reasons'
  BY <1>7, <1>d DEF Fail, FailJob, Promote, Pick, Stall, StallJob, MoveJob, DbError,
     WellFormed, TypeOK, QueueTypeOK
<1>8. ASSUME NEW r \in Reminders, EnqueueAdd(r) \/ Redeliver(r) PROVE Reasons'
  <2>1. PICK j \in JobIds, s \in {"waiting", "delayed"} : AddJob(j, r, s)
    BY <1>8 DEF EnqueueAdd, Redeliver, EnqueueNow, FirstState, JobIds
  <2>2. UNCHANGED pc
    BY <1>8 DEF EnqueueAdd, Redeliver
  <2> QED
    BY <2>1, <2>2, <1>d DEF AddJob, WellFormed, TypeOK, QueueTypeOK
<1>9. ASSUME NEW c \in Calls, ReplayAdd(c) PROVE Reasons'
  <2>1. PICK j \in JobIds : AddJob(j, adding[c], "waiting")
    BY <1>9 DEF ReplayAdd, EnqueueNow, JobIds
  <2>2. UNCHANGED pc
    BY <1>9 DEF ReplayAdd
  <2> QED
    BY <2>1, <2>2, <1>d DEF AddJob, WellFormed, TypeOK, QueueTypeOK
<1>10. CASE UNCHANGED <<pc, qstate>>
  BY <1>10, <1>d
<1>11. CASE Crash
  BY <1>11, <1>d DEF Crash
<1> QED
  BY <1>1, <1>2, <1>3, <1>4, <1>5, <1>6, <1>7, <1>8, <1>9, <1>10, <1>11
     DEF Next, Tick, Create, EnqueueFails, Reply, ReplyMatch, ReplyWrite, Booking, EnqueueFlip,
     RunStep, Provider, HandleFailed, HandlerFails, StartReplay, Replay, ReplayReset,
     ReplayFails, vars

\* A job leaves the queue for good only when its reminder is on record as sent,
\* its event has started or was cancelled at some time.
THEOREM NoJobIsDroppedSilently == Spec => []NoSilentDrop
<1>1. Init => Reasons
  BY DEF Init, QueueInit, Reasons, CancelsAreKnown, RunsHaveReasons, NoSilentDrop
<1>2. Spec => []Reasons
  BY <1>1, ReasonsStep, WellFormedAlways, RecordsAlways, UnbookedAlways, PTL DEF Spec
<1>3. Reasons => NoSilentDrop
  BY DEF Reasons
<1> QED
  BY <1>2, <1>3, PTL

-----------------------------------------------------------------------------
(* Rows and the jobs behind them.                                          *)

HasJob(r) == \E j \in JobIds : target[j] = r

\* Who is about to write a row on the strength of its job.
FlipsHaveJobs   == \A r \in Reminders : enq[r] = "flip" => HasJob(r)
ReplaysHaveJobs == \A c \in Calls : \A r \in todo[c] : HasJob(r)

JobsBehind == OnlyPendingLackJobs /\ FlipsHaveJobs /\ ReplaysHaveJobs

\* Jobs stay, so it is enough to look at the rows that a step brings past PENDING
\* and at the calls that begin to rest on a job.
LEMMA JobsBehindFrame ==
  ASSUME JobsBehind, \A r \in Reminders : HasJob(r) => HasJob(r)',
         \A r \in Reminders : state'[r] \notin {"ABSENT", "PENDING"} =>
           HasJob(r)' \/ state[r] \notin {"ABSENT", "PENDING"} \/ enq[r] = "flip"
             \/ \E c \in Calls : r \in todo[c],
         \A r \in Reminders : enq'[r] = "flip" => HasJob(r)' \/ enq[r] = "flip",
         \A c \in Calls : \A r \in todo'[c] : r \in Reminders /\
           (r \in todo[c] \/ state[r] \notin {"ABSENT", "PENDING"})
  PROVE  JobsBehind'
<1>1. OnlyPendingLackJobs'
  BY DEF JobsBehind, OnlyPendingLackJobs, FlipsHaveJobs, ReplaysHaveJobs, HasJob
<1>2. FlipsHaveJobs'
  BY DEF JobsBehind, FlipsHaveJobs
<1>3. ReplaysHaveJobs'
  BY DEF JobsBehind, OnlyPendingLackJobs, ReplaysHaveJobs, HasJob
<1> QED
  BY <1>1, <1>2, <1>3 DEF JobsBehind

\* A job that is added is one more.
LEMMA AddKeepsJobs ==
  ASSUME WellFormed, NEW j \in JobIds, NEW q \in Reminders, NEW s \in {"waiting", "delayed"},
         AddJob(j, q, s)
  PROVE  HasJob(q)' /\ \A r \in Reminders : HasJob(r) => HasJob(r)'
<1>1. target[j] = None /\ None \notin Reminders
  BY ConstantFacts DEF AddJob, WellFormed, JobsHaveTargets
<1>2. target' = [target EXCEPT ![j] = q] /\ target \in [JobIds -> Reminders \cup {None}]
  BY DEF AddJob, WellFormed, TypeOK, QueueTypeOK
<1> QED
  BY <1>1, <1>2 DEF HasJob

\* Every step keeps the jobs behind the rows; the cases are the actions of Next.
LEMMA JobsBehindStep == WellFormed /\ JobsBehind /\ [Next]_vars => JobsBehind'
<1> SUFFICES ASSUME WellFormed, JobsBehind, [Next]_vars PROVE JobsBehind'
  OBVIOUS
<1> USE DEF queueVars, dbVars, ghostVars, replayVars, bounds
<1>0. \A c \in Calls : todo[c] \subseteq Reminders
  BY DEF WellFormed, TypeOK
<1>1. ASSUME NEW e \in Events, NEW s \in Starts, Create(e, s) PROVE JobsBehind'
  BY <1>0, <1>1, JobsBehindFrame DEF Create, HasJob
<1>2. ASSUME NEW q \in Reminders, EnqueueAdd(q) PROVE JobsBehind'
  <2>1. HasJob(q)' /\ \A r \in Reminders : HasJob(r) => HasJob(r)'
    BY <1>2, AddKeepsJobs DEF EnqueueAdd, JobIds, FirstState
  <2> QED
    BY <1>0, <1>2, <2>1, JobsBehindFrame DEF EnqueueAdd, WellFormed, TypeOK
<1>3. ASSUME NEW q \in Reminders, EnqueueFlip(q) PROVE JobsBehind'
  BY <1>0, <1>3, JobsBehindFrame DEF EnqueueFlip, WellFormed, TypeOK, HasJob
<1>4. ASSUME NEW q \in Reminders, Redeliver(q) PROVE JobsBehind'
  <2>1. HasJob(q)' /\ \A r \in Reminders : HasJob(r) => HasJob(r)'
    BY <1>4, AddKeepsJobs DEF Redeliver, EnqueueNow, JobIds
  <2> QED
    BY <1>0, <1>4, <2>1, JobsBehindFrame DEF Redeliver
<1>5. ASSUME NEW c \in Calls, ReplayAdd(c) PROVE JobsBehind'
  <2>1. \A r \in Reminders : HasJob(r) => HasJob(r)'
    BY <1>5, AddKeepsJobs DEF ReplayAdd, EnqueueNow, JobIds, WellFormed, TypeOK
  <2> QED
    BY <1>0, <1>5, <2>1, JobsBehindFrame DEF ReplayAdd
<1>6. ASSUME NEW c \in Calls, NEW q \in Reminders, ReplayReset(c, q) PROVE JobsBehind'
  BY <1>0, <1>6, JobsBehindFrame DEF ReplayReset, WellFormed, TypeOK, HasJob
<1>7. ASSUME NEW c \in Calls, StartReplay(c) PROVE JobsBehind'
  BY <1>0, <1>7, JobsBehindFrame DEF StartReplay, Dead, WellFormed, TypeOK, HasJob
<1>8. ASSUME NEW c \in Calls, ReplayFails(c) PROVE JobsBehind'
  BY <1>0, <1>8, JobsBehindFrame DEF ReplayFails, WellFormed, TypeOK, HasJob
<1>9. ASSUME NEW j \in JobIds, RunStep(j) PROVE JobsBehind'
  <2>1. UNCHANGED <<enq, todo, target>>
    BY <1>9 DEF RunStep, Load, SkipRow, Check, Dedupe, MarkSending, Provider, ProviderAccept,
       ProviderReject, CommitSend, CommitConflict, Complete, Fail, At, MoveJob, FailJob
  <2>2. \A r \in Reminders : target[j] # r => state'[r] = state[r]
    BY <1>9 DEF RunStep, Load, SkipRow, Check, Dedupe, MarkSending, Provider, ProviderAccept,
       ProviderReject, CommitSend, CommitConflict, Complete, Fail, At, WellFormed, TypeOK
  <2> QED
    BY <1>0, <2>1, <2>2, JobsBehindFrame DEF HasJob
<1>10. ASSUME NEW h \in failures, HandleFailed(h) PROVE JobsBehind'
  <2>1. h.job \in JobIds
    BY DEF WellFormed, TypeOK
  <2> QED
    BY <1>0, <1>10, <2>1, JobsBehindFrame DEF HandleFailed, WellFormed, TypeOK, HasJob
<1>11. ASSUME NEW e \in Events, EnqueueFails(e) PROVE JobsBehind'
  BY <1>0, <1>11, JobsBehindFrame DEF EnqueueFails, HasJob
<1>12. CASE Crash
  BY <1>0, <1>12, JobsBehindFrame DEF Crash, HasJob
<1>13. CASE UNCHANGED <<target, state, enq, todo>>
  BY <1>0, <1>13, JobsBehindFrame DEF HasJob
<1> QED
  BY <1>1, <1>2, <1>3, <1>4, <1>5, <1>6, <1>7, <1>8, <1>9, <1>10, <1>11, <1>12, <1>13
     DEF Next, Tick, Reply, ReplyMatch, ReplyWrite, Booking, Promote, Pick, DbError, Stall,
     StallJob, MoveJob, HandlerFails, Replay, vars

\* Through every crash and failed call, a reminder without a job says PENDING.
THEOREM JoblessRowsSayPending == Spec => []OnlyPendingLackJobs
<1>1. Init => JobsBehind
  BY DEF Init, JobsBehind, OnlyPendingLackJobs, FlipsHaveJobs, ReplaysHaveJobs
<1>2. JobsBehind => OnlyPendingLackJobs
  BY DEF JobsBehind
<1> QED
  BY <1>1, <1>2, JobsBehindStep, WellFormedAlways, PTL DEF Spec

-----------------------------------------------------------------------------
(* Reminders with nothing left to send.                                    *)

\* The statements from the check of the row to the call of the provider are come
\* to one after the other, each past the condition of the one before; a call is
\* made from the last of them only.
OnTheWayToCall ==
  \A j \in JobIds :
    /\ pc'[j] = "check" => \/ pc[j] = "check"
                           \/ pc[j] = "load" /\ ~IsCancelled(target[j]) /\ ~Stale(target[j])
    /\ pc'[j] = "mark" => pc[j] = "mark" \/ (pc[j] = "check" /\ ~AlreadySent(target[j]))
    /\ pc'[j] = "call" => pc[j] \in {"mark", "call"}
    /\ calls'[j] # calls[j] => pc[j] = "call"

\* The steps of a run go in that order; the cases are the actions of Next.
LEMMA RunsGoInOrder == WellFormed /\ [Next]_vars => OnTheWayToCall
<1> SUFFICES ASSUME WellFormed, [Next]_vars PROVE OnTheWayToCall
  OBVIOUS
<1> USE DEF WellFormed, TypeOK, queueVars, dbVars, ghostVars, replayVars, bounds
<1>1. ASSUME NEW j \in JobIds, RunStep(j) PROVE OnTheWayToCall
  <2>1. \A k \in JobIds : k # j => pc'[k] = pc[k] /\ calls'[k] = calls[k]
    BY <1>1 DEF RunStep, Load, SkipRow, Check, Dedupe, MarkSending, Provider, ProviderAccept,
       ProviderReject, CommitSend, CommitConflict, Complete, Fail, At
  <2>2. /\ pc'[j] = "check" => pc[j] = "load" /\ ~IsCancelled(target[j]) /\ ~Stale(target[j])
        /\ pc'[j] = "mark" => pc[j] = "check" /\ ~AlreadySent(target[j])
        /\ pc'[j] = "call" => pc[j] = "mark"
    BY <1>1 DEF RunStep, Load, SkipRow, Check, Dedupe, MarkSending, Provider, ProviderAccept,
       ProviderReject, CommitSend, CommitConflict, Complete, Fail, At
  <2>3. calls'[j] # calls[j] => pc[j] = "call"
    BY <1>1 DEF RunStep, Load, SkipRow, Check, Dedupe, MarkSending, Provider, ProviderAccept,
       ProviderReject, CommitSend, CommitConflict, Complete, Fail, At
  <2> QED
    BY <2>1, <2>2, <2>3 DEF OnTheWayToCall
<1>2. ASSUME NEW j \in JobIds, Pick(j) \/ DbError(j) PROVE OnTheWayToCall
  BY <1>2 DEF Pick, DbError, OnTheWayToCall
<1>3. CASE Crash
  BY <1>3 DEF Crash, OnTheWayToCall
<1>4. CASE UNCHANGED <<pc, calls>>
  BY <1>4 DEF OnTheWayToCall
<1> QED
  BY <1>1, <1>2, <1>3, <1>4
     DEF Next, Tick, Create, EnqueueFails, Reply, ReplyMatch, ReplyWrite, Booking, EnqueueAdd,
     EnqueueFlip, Redeliver, Promote, Stall, HandleFailed, HandlerFails, StartReplay, Replay,
     ReplayAdd, ReplayReset, ReplayFails, vars

\* A cancelled event is confirmed only by a reply matched before.
CancelledLasts ==
  \A e \in Events : event[e] = "CANCELLED" /\ <<e, "CONFIRMED">> \notin replying =>
    event'[e] = "CANCELLED" /\ <<e, "CONFIRMED">> \notin replying'

\* Every step leaves a cancelled event so; the cases are the actions of Next.
LEMMA RepliesAreMatchedFirst == WellFormed /\ [Next]_vars => CancelledLasts
<1> SUFFICES ASSUME WellFormed, [Next]_vars PROVE CancelledLasts
  OBVIOUS
<1> USE DEF WellFormed, TypeOK, CancelledLasts, queueVars, dbVars, ghostVars, replayVars, bounds
<1>1. ASSUME NEW e \in Events, NEW s \in Starts, Create(e, s) PROVE CancelledLasts
  BY <1>1 DEF Create
<1>2. ASSUME NEW e \in Events, NEW s \in {"CONFIRMED", "CANCELLED"}, ReplyMatch(e, s)
      PROVE  CancelledLasts
  BY <1>2 DEF ReplyMatch
<1>3. ASSUME NEW e \in Events, NEW s \in {"CONFIRMED", "CANCELLED"}, ReplyWrite(e, s)
      PROVE  CancelledLasts
  BY <1>3 DEF ReplyWrite
<1>4. ASSUME NEW j \in JobIds, RunStep(j) PROVE CancelledLasts
  BY <1>4 DEF RunStep, Load, SkipRow, Check, Dedupe, MarkSending, Provider, ProviderAccept,
     ProviderReject, CommitSend, CommitConflict, Complete, Fail, At
<1>5. CASE Crash
  BY <1>5 DEF Crash
<1>6. CASE UNCHANGED <<event, replying>>
  BY <1>6
<1> QED
  BY <1>1, <1>2, <1>3, <1>4, <1>5, <1>6
     DEF Next, Tick, EnqueueFails, Reply, Booking, EnqueueAdd, EnqueueFlip, Redeliver, Promote,
     Pick, DbError, Stall, HandleFailed, HandlerFails, StartReplay, Replay, ReplayAdd,
     ReplayReset, ReplayFails, vars

\* From what only moves forward: a quiet reminder stays quiet and is not called for.
LEMMA QuietStep ==
  ASSUME WellFormed, WellFormed', Forward, OnTheWayToCall, CancelledLasts,
         NEW r \in Reminders, Quiet(r)
  PROVE  Quiet(r)' /\ \A j \in JobIds : target[j] = r => calls'[j] = calls[j]
<1> DEFINE e == EventOf(r)
<1>e. e \in Events
  BY ConstantFacts
<1> HIDE DEF e
<1>1. \A j \in JobIds : target[j] = r => pc[j] # "call"
  BY DEF Quiet, RunsAt
<1>2. \A j \in JobIds : target[j] = r => calls'[j] = calls[j]
  BY <1>1 DEF OnTheWayToCall
<1>3. \A j \in JobIds : target'[j] = r /\ pc'[j] \in {"check", "mark", "call"} => target[j] = r
  <2>1. SUFFICES ASSUME NEW j \in JobIds, target'[j] = r, pc'[j] \in {"check", "mark", "call"}
                 PROVE  target[j] = r
    OBVIOUS
  <2>2. pc[j] # "idle"
    BY <2>1 DEF OnTheWayToCall
  <2> QED
    BY <2>1, <2>2 DEF Forward, WellFormed, RunsAreActive
<1>4. CASE r \in sendKeys /\ RunsAt(r, {"mark", "call"}) = {}
  <2>1. r \in sendKeys'
    BY <1>4 DEF Forward
  <2>2. RunsAt(r, {"mark", "call"})' = {}
    BY <1>3, <1>4 DEF RunsAt, OnTheWayToCall, AlreadySent
  <2> QED
    BY <1>2, <2>1, <2>2 DEF Quiet
<1>5. CASE event[e] # "NONE" /\ startsAt[e] <= now /\ RunsAt(r, {"check", "mark", "call"}) = {}
  <2>1. event'[e] # "NONE" /\ startsAt'[e] <= now'
    BY <1>5, <1>e DEF Forward, WellFormed, TypeOK
  <2>2. RunsAt(r, {"check", "mark", "call"})' = {}
    BY <1>3, <1>5 DEF RunsAt, OnTheWayToCall, Stale, e
  <2> QED
    BY <1>2, <2>1, <2>2 DEF Quiet, e, EventOf
<1>6. CASE /\ event[e] = "CANCELLED" /\ <<e, "CONFIRMED">> \notin replying
           /\ RunsAt(r, {"check", "mark", "call"}) = {}
  <2>1. event'[e] = "CANCELLED" /\ <<e, "CONFIRMED">> \notin replying'
    BY <1>6, <1>e DEF CancelledLasts
  <2>2. RunsAt(r, {"check", "mark", "call"})' = {}
    BY <1>3, <1>6 DEF RunsAt, OnTheWayToCall, IsCancelled, e
  <2> QED
    BY <1>2, <2>1, <2>2 DEF Quiet, e, EventOf
<1> QED
  BY <1>4, <1>5, <1>6 DEF Quiet, e

\* Once its reminder is recorded as sent, or its event has started or is cancelled,
\* and no run is past the checks, the worker never calls the provider for it again.
THEOREM QuietForGood == Spec => QuietStaysQuiet
<1> DEFINE Step == \A r \in Reminders : Quiet(r) =>
                     Quiet(r)' /\ \A j \in JobIds : target[j] = r => calls'[j] = calls[j]
<1>1. WellFormed /\ WellFormed' /\ [Next]_vars => [Step]_vars
  BY StepsGoForward, RunsGoInOrder, RepliesAreMatchedFirst, QuietStep
<1> QED
  BY <1>1, WellFormedAlways, PTL DEF Spec, QuietStaysQuiet

-----------------------------------------------------------------------------
(* Reminders whose jobs were all given up.                                 *)

\* A 'failed' event tells of at least one attempt.
FailuresCount == \A h \in failures : h.made > 0

\* All their jobs were given up, and neither a handler nor a replay is on them.
GivenUp ==
  {r \in Reminders :
     /\ \E j \in JobIds : target[j] = r
     /\ \A j \in JobIds : target[j] = r => qstate[j] = "failed"
     /\ \A h \in failures : target[h.job] # r
     /\ \A c \in Calls : adding[c] # r}

\* A reminder that was given up was tried.
GivenUpCounted == \A r \in GivenUp : attempts[r] > 0

\* What the counts show: all failures, and what was given up where nothing broke.
Shows == FailuresCount /\ (crashes + errors = 0 => GivenUpCounted)

\* Where nothing becomes given up the count stands, unless it is reset.
LEMMA ShowsFrame ==
  ASSUME GivenUpCounted,
         GivenUp' \subseteq GivenUp, \A r \in GivenUp' : attempts'[r] = attempts[r]
  PROVE  GivenUpCounted'
BY DEF GivenUpCounted

\* A job that is added is not given up, and nobody else's jobs change.
LEMMA AddShows ==
  ASSUME WellFormed, WellFormed', NEW j \in JobIds, NEW q \in Reminders,
         NEW s \in {"waiting", "delayed"}, AddJob(j, q, s),
         UNCHANGED <<attempts, failures>>,
         \A c \in Calls : adding'[c] = adding[c] \/ adding[c] = q
  PROVE  GivenUp' \subseteq GivenUp /\ \A r \in GivenUp' : attempts'[r] = attempts[r]
<1> SUFFICES ASSUME NEW r \in GivenUp' PROVE r \in GivenUp
  OBVIOUS
<1>1. /\ target'[j] = q /\ qstate'[j] = s
      /\ \A k \in JobIds : k # j => target'[k] = target[k] /\ qstate'[k] = qstate[k]
  BY DEF AddJob, WellFormed, TypeOK, QueueTypeOK
<1>2. r # q
  BY <1>1 DEF GivenUp
<1>3. target[j] = None /\ None \notin Reminders
  BY ConstantFacts DEF AddJob, WellFormed, JobsHaveTargets
<1>4. \A h \in failures : h.job \in JobIds
  BY DEF WellFormed, TypeOK
<1> QED
  BY <1>1, <1>2, <1>3, <1>4 DEF GivenUp

\* Every step keeps what the counts show; the cases are the actions of Next.
LEMMA ShowsStep == WellFormed /\ WellFormed' /\ Shows /\ [Next]_vars => Shows'
<1> SUFFICES ASSUME WellFormed, WellFormed', Shows, [Next]_vars PROVE Shows'
  OBVIOUS
<1> USE DEF queueVars, dbVars, ghostVars, replayVars, bounds
<1>0. /\ \A h \in failures : h.job \in JobIds /\ h.made \in Nat
      /\ crashes \in Nat /\ errors \in Nat
  BY DEF WellFormed, TypeOK
<1>1. FailuresCount'
  <2>1. ASSUME NEW j \in JobIds, Fail(j) PROVE FailuresCount'
    BY <2>1 DEF Fail, Shows, FailuresCount, WellFormed, TypeOK, QueueTypeOK
  <2>2. CASE failures' \subseteq failures
    BY <2>2 DEF Shows, FailuresCount
  <2> QED
    BY <2>1, <2>2
    DEF Next, Tick, Crash, Create, EnqueueFails, Reply, ReplyMatch, ReplyWrite, Booking,
       EnqueueAdd, EnqueueFlip, Redeliver, Promote, Pick, RunStep, Load, SkipRow, Check, Dedupe,
       MarkSending, Provider, ProviderAccept, ProviderReject, CommitSend, CommitConflict,
       Complete, At, DbError, Stall, HandleFailed, HandlerFails, StartReplay, Replay, ReplayAdd,
       ReplayReset, ReplayFails, vars
<1>2. CASE \/ crashes' = crashes + 1 /\ errors' = errors
           \/ crashes' = crashes /\ errors' = errors + 1
  BY <1>0, <1>1, <1>2 DEF Shows
<1> SUFFICES ASSUME GivenUpCounted, UNCHANGED <<crashes, errors>> PROVE GivenUpCounted'
  <2>1. \/ UNCHANGED <<crashes, errors>>
        \/ crashes' = crashes + 1 /\ errors' = errors
        \/ crashes' = crashes /\ errors' = errors + 1
    BY DEF Next, Tick, Crash, Create, EnqueueFails, Reply, ReplyMatch, ReplyWrite, Booking,
       EnqueueAdd, EnqueueFlip, Redeliver, Promote, Pick, RunStep, Load, SkipRow, Check, Dedupe,
       MarkSending, Provider, ProviderAccept, ProviderReject, CommitSend, CommitConflict,
       Complete, Fail, At, DbError, Stall, HandleFailed, HandlerFails, StartReplay, Replay,
       ReplayAdd, ReplayReset, ReplayFails, vars
  <2> QED
    BY <1>1, <1>2, <2>1 DEF Shows
<1>3. crashes' # crashes + 1 /\ errors' # errors + 1
  BY <1>0
<1>4. ASSUME NEW r \in Reminders, EnqueueAdd(r) PROVE GivenUpCounted'
  BY <1>4, AddShows, ShowsFrame DEF EnqueueAdd, JobIds, FirstState
<1>5. ASSUME NEW r \in Reminders, Redeliver(r) PROVE GivenUpCounted'
  BY <1>5, AddShows, ShowsFrame DEF Redeliver, EnqueueNow, JobIds
<1>6. ASSUME NEW c \in Calls, ReplayAdd(c) PROVE GivenUpCounted'
  <2>1. adding[c] \in Reminders /\ \A d \in Calls : adding'[d] = adding[d] \/ adding[d] = adding[c]
    BY <1>6 DEF ReplayAdd, WellFormed, TypeOK
  <2> QED
    BY <1>6, <2>1, AddShows, ShowsFrame DEF ReplayAdd, EnqueueNow, JobIds
<1>7. ASSUME NEW c \in Calls, NEW q \in Reminders, ReplayReset(c, q) PROVE GivenUpCounted'
  <2>1. /\ adding[c] = None /\ None \notin Reminders /\ adding'[c] = q
        /\ \A d \in Calls : d # c => adding'[d] = adding[d]
        /\ \A r \in Reminders : r # q => attempts'[r] = attempts[r]
        /\ UNCHANGED <<target, qstate, failures>>
    BY <1>7, ConstantFacts DEF ReplayReset, WellFormed, TypeOK
  <2>2. q \notin GivenUp'
    BY <2>1 DEF GivenUp
  <2>3. GivenUp' \subseteq GivenUp /\ GivenUp' \subseteq Reminders
    BY <2>1 DEF GivenUp
  <2> QED
    BY <2>1, <2>2, <2>3, ShowsFrame
<1>8. ASSUME NEW h \in failures, HandleFailed(h) PROVE GivenUpCounted'
  <2>1. /\ UNCHANGED <<target, qstate, adding>> /\ failures' = failures \ {h}
        /\ \A r \in Reminders : attempts'[r] = IF r = target[h.job] THEN h.made ELSE attempts[r]
    BY <1>8 DEF HandleFailed, WellFormed, TypeOK
  <2> SUFFICES ASSUME NEW r \in GivenUp' PROVE attempts'[r] > 0
    BY DEF GivenUpCounted
  <2>r. r \in Reminders
    BY DEF GivenUp
  <2>2. CASE r = target[h.job]
    BY <1>0, <2>1, <2>2, <2>r DEF Shows, FailuresCount
  <2>3. CASE r # target[h.job]
    <3>1. r \in GivenUp
      BY <1>0, <2>1, <2>3 DEF GivenUp
    <3> QED
      BY <2>1, <2>3, <2>r, <3>1 DEF GivenUpCounted
  <2> QED
    BY <2>2, <2>3
<1>9. ASSUME NEW j \in JobIds, Fail(j) PROVE GivenUpCounted'
  <2>1. /\ UNCHANGED <<target, attempts, adding>> /\ failures \subseteq failures'
        /\ \A k \in JobIds : k # j => qstate'[k] = qstate[k]
    BY <1>9 DEF Fail, FailJob, WellFormed, TypeOK, QueueTypeOK
  <2>3. \E h \in failures' : h.job = j
    <3> DEFINE f == [job |-> j, made |-> made[j] + 1,
                     dead |-> Exhausted(made[j] + 1, pc[j] = "fatal")]
    <3>1. f \in failures' /\ f.job = j
      BY <1>9 DEF Fail
    <3> QED
      BY <3>1
  <2>2. ASSUME NEW r \in GivenUp' PROVE r \in GivenUp
    <3>1. target[j] # r
      BY <2>1, <2>2, <2>3 DEF GivenUp
    <3> QED
      BY <2>1, <2>2, <3>1 DEF GivenUp
  <2> QED
    BY <2>1, <2>2, ShowsFrame
<1>10. ASSUME NEW j \in JobIds, Promote(j) \/ Pick(j) \/ Complete(j) \/ Stall(j)
       PROVE  GivenUpCounted'
  <2>1. /\ UNCHANGED <<target, attempts, adding, failures>>
        /\ \A k \in JobIds : qstate'[k] = "failed" => qstate[k] = "failed"
    BY <1>10 DEF Promote, Pick, Complete, Stall, StallJob, MoveJob, WellFormed, TypeOK, QueueTypeOK
  <2> QED
    BY <2>1, ShowsFrame DEF GivenUp
<1>11. CASE UNCHANGED <<target, qstate, attempts, adding, failures>>
  BY <1>11, ShowsFrame DEF GivenUp
<1> QED
  BY <1>3, <1>4, <1>5, <1>6, <1>7, <1>8, <1>9, <1>10, <1>11
  DEF Next, Tick, Crash, Create, EnqueueFails, Reply, ReplyMatch, ReplyWrite, Booking, EnqueueFlip,
      RunStep, Load, SkipRow, Check, Dedupe, MarkSending, Provider, ProviderAccept,
      ProviderReject, CommitSend, CommitConflict, At, DbError, HandlerFails, StartReplay, Replay,
      ReplayFails, vars

\* While nothing fails but sends, a row whose jobs were all given up counts attempts.
THEOREM GivenUpRowsShow == Spec => []GivenUpShows
<1>1. Init => Shows
  BY ConstantFacts DEF Init, QueueInit, Shows, FailuresCount, GivenUpCounted, GivenUp
<1>2. Spec => []Shows
  BY <1>1, ShowsStep, WellFormedAlways, PTL DEF Spec
<1>3. WellFormed /\ Shows => GivenUpShows
  <2> SUFFICES ASSUME WellFormed, GivenUpCounted, NEW r \in Reminders,
                      {j \in JobIds : target[j] = r} # {},
                      \A j \in {j \in JobIds : target[j] = r} : qstate[j] = "failed",
                      \A h \in failures : h.job \notin {j \in JobIds : target[j] = r},
                      \A c \in Calls : adding[c] # r
               PROVE  attempts[r] > 0
    BY DEF Shows, GivenUpShows
  <2>1. \A h \in failures : h.job \in JobIds
    BY DEF WellFormed, TypeOK
  <2> QED
    BY <2>1 DEF GivenUpCounted, GivenUp
<1> QED
  BY <1>2, <1>3, WellFormedAlways, PTL
=============================================================================
