--------------------------- MODULE DeliveryProofs ---------------------------
(***************************************************************************)
(* Theorems about Delivery, for any number of events, queue ids, replay    *)
(* calls, attempts, stalls, crashes and errors; the last one is that it    *)
(* implements DeliveryLedger.                                              *)
(***************************************************************************)
EXTENDS DeliveryRefinement, TLAPS

\* The configurations' assumptions in the form the steps use them.
LEMMA ConstantFacts ==
  /\ Reminders = Events \X Kinds /\ Starts \subseteq Nat
  /\ Lead \in [Kinds -> Nat] /\ MaxAttempts \in Nat /\ MaxStalls \in Nat
  /\ None \notin Reminders /\ \A j \in FreshJobs : j \notin Reminders
  /\ \A r \in Reminders : EventOf(r) \in Events /\ r[2] \in Kinds
BY QueueAssumption, DeliveryAssumption DEF EventOf

-----------------------------------------------------------------------------
(* Types, and who holds what.                                              *)

\* Every step keeps the types, the link between runs and active jobs and the
\* targets of the jobs; the cases are the actions of Next.
LEMMA WellFormedStep == WellFormed /\ [Next]_vars => WellFormed'
<1> SUFFICES ASSUME WellFormed, [Next]_vars PROVE WellFormed'
  OBVIOUS
<1> USE ConstantFacts DEF WellFormed, TypeOK, QueueTypeOK, RunsAreActive, JobsHaveTargets,
      JobIds, queueVars, dbVars, ghostVars, replayVars, bounds, Statuses, RowStates,
      RunStates, QueueStates
<1>1. ASSUME Tick PROVE WellFormed'
  BY <1>1 DEF Tick
<1>2. ASSUME Crash PROVE WellFormed'
  BY <1>2 DEF Crash
<1>3. ASSUME NEW e \in Events, NEW s \in Starts, Create(e, s) PROVE WellFormed'
  BY <1>3 DEF Create
<1>4. ASSUME NEW e \in Events, EnqueueFails(e) PROVE WellFormed'
  BY <1>4 DEF EnqueueFails
<1>5. ASSUME NEW e \in Events, NEW s \in {"CONFIRMED", "CANCELLED"}, ReplyMatch(e, s)
      PROVE WellFormed'
  BY <1>5 DEF ReplyMatch
<1>6. ASSUME NEW e \in Events, NEW s \in {"CONFIRMED", "CANCELLED"}, ReplyWrite(e, s)
      PROVE WellFormed'
  BY <1>6 DEF ReplyWrite
<1>7. ASSUME NEW r \in Reminders, EnqueueAdd(r) PROVE WellFormed'
  BY <1>7 DEF EnqueueAdd, AddJob, FirstState
<1>8. ASSUME NEW r \in Reminders, EnqueueFlip(r) PROVE WellFormed'
  BY <1>8 DEF EnqueueFlip
<1>9. ASSUME NEW r \in Reminders, Redeliver(r) PROVE WellFormed'
  <2>1. PICK j \in FreshJobs : AddJob(j, r, "waiting")
    BY <1>9 DEF Redeliver, EnqueueNow
  <2> QED
    BY <1>9, <2>1 DEF Redeliver, AddJob
<1>10. ASSUME NEW j \in JobIds, Promote(j) PROVE WellFormed'
  BY <1>10 DEF Promote, MoveJob
<1>11. ASSUME NEW j \in JobIds, Pick(j) PROVE WellFormed'
  BY <1>11 DEF Pick, MoveJob
<1>12. ASSUME NEW j \in JobIds, RunStep(j) PROVE WellFormed'
  <2>1. CASE Load(j)
    BY <2>1 DEF Load, At
  <2>2. CASE SkipRow(j)
    BY <2>2 DEF SkipRow, At
  <2>3. CASE Dedupe(j)
    BY <2>3 DEF Dedupe, At
  <2>4. CASE MarkSending(j)
    BY <2>4 DEF MarkSending, At
  <2>5. CASE ProviderAccept(j)
    BY <2>5 DEF ProviderAccept, At
  <2>6. ASSUME NEW retryable \in BOOLEAN, ProviderReject(j, retryable) PROVE WellFormed'
    BY <2>6 DEF ProviderReject, At
  <2>7. CASE CommitSend(j)
    BY <2>7 DEF CommitSend, At
  <2>8. CASE Complete(j)
    BY <2>8 DEF Complete, MoveJob
  <2>9. CASE Fail(j)
    <3>1. Exhausted(made[j] + 1, pc[j] = "fatal") \in BOOLEAN
      BY ZenonT(20) DEF Exhausted
    <3>2. failures' \subseteq [job : JobIds, made : Nat, dead : BOOLEAN]
      BY <2>9, <3>1 DEF Fail
    <3> QED
      BY <2>9, <3>2 DEF Fail, FailJob
  <2>10. CASE Check(j)
    BY <2>10 DEF Check, At
  <2>11. CASE CommitConflict(j)
    BY <2>11 DEF CommitConflict, At
  <2> HIDE DEF WellFormed
  <2> QED
    BY <1>12, <2>1, <2>2, <2>3, <2>4, <2>5, <2>6, <2>7, <2>8, <2>9, <2>10, <2>11
       DEF RunStep, Provider
<1>13. ASSUME NEW j \in JobIds, DbError(j) PROVE WellFormed'
  BY <1>13 DEF DbError
<1>14. ASSUME NEW j \in JobIds, Stall(j) PROVE WellFormed'
  BY <1>14 DEF Stall, StallJob
<1>15. ASSUME NEW h \in failures, HandleFailed(h) PROVE WellFormed'
  BY <1>15 DEF HandleFailed
<1>16. ASSUME NEW h \in failures, HandlerFails(h) PROVE WellFormed'
  BY <1>16 DEF HandlerFails
<1>17. ASSUME NEW c \in Calls, StartReplay(c) PROVE WellFormed'
  BY <1>17 DEF StartReplay, Dead
<1>18. ASSUME NEW c \in Calls, Replay(c) PROVE WellFormed'
  <2>1. CASE ReplayAdd(c)
    <3>1. PICK j \in FreshJobs : AddJob(j, adding[c], "waiting")
      BY <2>1 DEF ReplayAdd, EnqueueNow
    <3> QED
      BY <2>1, <3>1 DEF ReplayAdd, AddJob
  <2>2. ASSUME NEW r \in Reminders, ReplayReset(c, r) PROVE WellFormed'
    BY <2>2 DEF ReplayReset
  <2> HIDE DEF WellFormed
  <2> QED
    BY <1>18, <2>1, <2>2 DEF Replay
<1>19. ASSUME NEW c \in Calls, ReplayFails(c) PROVE WellFormed'
  BY <1>19 DEF ReplayFails
<1>20. CASE UNCHANGED vars
  BY <1>20 DEF vars
<1> HIDE DEF WellFormed
<1> QED
  BY <1>1, <1>2, <1>3, <1>4, <1>5, <1>6, <1>7, <1>8, <1>9, <1>10, <1>11, <1>12,
     <1>13, <1>14, <1>15, <1>16, <1>17, <1>18, <1>19, <1>20
     DEF Next, Reply, Booking

\* Nothing is queued and nothing runs before the first booking.
LEMMA WellFormedInit == Init => WellFormed
BY ConstantFacts DEF Init, QueueInit, WellFormed, TypeOK, QueueTypeOK, RunsAreActive,
   JobsHaveTargets, JobIds, Statuses, RowStates, RunStates, QueueStates

\* Every reachable state is well formed.
THEOREM WellFormedAlways == Spec => []WellFormed
BY WellFormedInit, WellFormedStep, PTL DEF Spec

\* Every variable keeps its type.
THEOREM TypeCorrect == Spec => []TypeOK
<1>1. WellFormed => TypeOK
  BY DEF WellFormed
<1> QED
  BY <1>1, WellFormedAlways, PTL

-----------------------------------------------------------------------------
(* What the provider accepted and what the database says of it.            *)

\* Steps that record nothing and accept nothing: jobs already added keep their
\* target, no row becomes SENT, and a run only moves to a statement from which
\* nothing can be concluded.
LEMMA RecordsFrame ==
  ASSUME WellFormed, WellFormed', Records,
         UNCHANGED <<sendKeys, logged, accepted, lost>>,
         \A r \in Reminders : state'[r] = "SENT" => state[r] = "SENT",
         \A j \in JobIds : qstate[j] # "none" =>
           qstate'[j] # "none" /\ target'[j] = target[j],
         \A j \in JobIds :
           \/ pc'[j] = pc[j]
           \/ /\ pc'[j] \in {"idle", "load", "cancel", "check", "finish", "retry", "fatal"}
              /\ pc[j] = "commit" => target[j] \in sendKeys
  PROVE  Records'
<1> USE DEF Records, WellFormed, TypeOK, QueueTypeOK, AlreadySent
<1>1. UnaddedUncalled'
  BY DEF UnaddedUncalled
<1>2. RunEvidence'
  BY DEF RunEvidence, RunsAreActive
<1>3. KeyEvidence'
  BY DEF KeyEvidence, UnaddedUncalled
<1>4. SentEvidence'
  BY DEF SentEvidence
<1>5. OneDeliveryRecord'
  BY DEF OneDeliveryRecord, AlreadySent
<1>6. GapCount'
  <2> SUFFICES ASSUME NEW j \in JobIds
               PROVE  /\ accepted'[j] <= 1 + lost'[j]
                      /\ target'[j] \notin sendKeys' /\ pc'[j] # "commit"
                           => accepted'[j] <= lost'[j]
                      /\ pc'[j] \in {"mark", "call"} => accepted'[j] <= lost'[j]
    BY DEF GapCount
  <2>1. CASE qstate[j] = "none"
    BY <2>1 DEF UnaddedUncalled
  <2>2. CASE qstate[j] # "none"
    BY <2>2 DEF GapCount
  <2> QED
    BY <2>1, <2>2
<1> QED
  BY <1>1, <1>2, <1>3, <1>4, <1>5, <1>6

\* Every step keeps the evidence; all but seven actions are framed.
LEMMA RecordsStep == WellFormed /\ WellFormed' /\ Records /\ [Next]_vars => Records'
<1> SUFFICES ASSUME WellFormed, WellFormed', Records, [Next]_vars PROVE Records'
  OBVIOUS
<1> USE ConstantFacts DEF queueVars, dbVars, ghostVars, replayVars, bounds
<1>1. ASSUME Tick PROVE Records'
  BY <1>1, RecordsFrame DEF Tick, WellFormed, TypeOK, QueueTypeOK
<1>2. ASSUME NEW e \in Events, NEW s \in Starts, Create(e, s) PROVE Records'
  BY <1>2, RecordsFrame DEF Create, WellFormed, TypeOK, QueueTypeOK
<1>3. ASSUME NEW e \in Events, EnqueueFails(e) PROVE Records'
  BY <1>3, RecordsFrame DEF EnqueueFails, WellFormed, TypeOK, QueueTypeOK
<1>4. ASSUME NEW e \in Events, Reply(e) PROVE Records'
  BY <1>4, RecordsFrame DEF Reply, ReplyMatch, ReplyWrite, WellFormed, TypeOK, QueueTypeOK
<1>5. ASSUME NEW r \in Reminders, EnqueueAdd(r) PROVE Records'
  BY <1>5, RecordsFrame DEF EnqueueAdd, AddJob, FirstState, JobIds, WellFormed, TypeOK,
     QueueTypeOK
<1>6. ASSUME NEW r \in Reminders, EnqueueFlip(r) PROVE Records'
  BY <1>6, RecordsFrame DEF EnqueueFlip, WellFormed, TypeOK, QueueTypeOK
<1>7. ASSUME NEW r \in Reminders, Redeliver(r) PROVE Records'
  <2>1. PICK j \in FreshJobs : AddJob(j, r, "waiting")
    BY <1>7 DEF Redeliver, EnqueueNow
  <2> QED
    BY <1>7, <2>1, RecordsFrame DEF Redeliver, AddJob, JobIds, WellFormed, TypeOK,
       QueueTypeOK
<1>8. ASSUME NEW j \in JobIds, Promote(j) PROVE Records'
  BY <1>8, RecordsFrame DEF Promote, MoveJob, WellFormed, TypeOK, QueueTypeOK
<1>9. ASSUME NEW j \in JobIds, Pick(j) PROVE Records'
  BY <1>9, RecordsFrame DEF Pick, MoveJob, RunsAreActive, WellFormed, TypeOK, QueueTypeOK
<1>10. ASSUME NEW j \in JobIds, Load(j) PROVE Records'
  BY <1>10, RecordsFrame DEF Load, At, WellFormed, TypeOK, QueueTypeOK
<1>11. ASSUME NEW j \in JobIds, SkipRow(j) PROVE Records'
  BY <1>11, RecordsFrame DEF SkipRow, At, WellFormed, TypeOK, QueueTypeOK
<1>12. ASSUME NEW j \in JobIds, Check(j) PROVE Records'
  <2> USE DEF At, Records, WellFormed, TypeOK, QueueTypeOK, AlreadySent
  <2>1. UnaddedUncalled'
    BY <1>12 DEF Check, UnaddedUncalled, RunsAreActive
  <2>2. RunEvidence'
    BY <1>12 DEF Check, RunEvidence, RunsAreActive
  <2>3. KeyEvidence'
    BY <1>12 DEF Check, KeyEvidence
  <2>4. SentEvidence'
    BY <1>12 DEF Check, SentEvidence, RunEvidence
  <2>5. OneDeliveryRecord'
    BY <1>12 DEF Check, OneDeliveryRecord
  <2>6. GapCount'
    BY <1>12 DEF Check, GapCount, RunEvidence
  <2> QED
    BY <2>1, <2>2, <2>3, <2>4, <2>5, <2>6
<1>13. ASSUME NEW j \in JobIds, Dedupe(j) PROVE Records'
  <2> USE DEF At, Records, WellFormed, TypeOK, QueueTypeOK, AlreadySent
  <2>1. UnaddedUncalled'
    BY <1>13 DEF Dedupe, UnaddedUncalled, RunsAreActive
  <2>2. RunEvidence'
    BY <1>13 DEF Dedupe, RunEvidence, RunsAreActive
  <2>3. KeyEvidence'
    BY <1>13 DEF Dedupe, KeyEvidence
  <2>4. SentEvidence'
    BY <1>13 DEF Dedupe, SentEvidence, RunEvidence
  <2>5. OneDeliveryRecord'
    BY <1>13 DEF Dedupe, OneDeliveryRecord
  <2>6. GapCount'
    BY <1>13 DEF Dedupe, GapCount, RunEvidence
  <2> QED
    BY <2>1, <2>2, <2>3, <2>4, <2>5, <2>6
<1>14. ASSUME NEW j \in JobIds, MarkSending(j) PROVE Records'
  <2> USE DEF At, Records, WellFormed, TypeOK, QueueTypeOK, AlreadySent
  <2>1. UnaddedUncalled'
    BY <1>14 DEF MarkSending, UnaddedUncalled, RunsAreActive
  <2>2. RunEvidence'
    BY <1>14 DEF MarkSending, RunEvidence, RunsAreActive
  <2>3. KeyEvidence'
    BY <1>14 DEF MarkSending, KeyEvidence
  <2>4. SentEvidence'
    BY <1>14 DEF MarkSending, SentEvidence, RunEvidence
  <2>5. OneDeliveryRecord'
    BY <1>14 DEF MarkSending, OneDeliveryRecord
  <2>6. GapCount'
    BY <1>14 DEF MarkSending, GapCount, RunEvidence
  <2> QED
    BY <2>1, <2>2, <2>3, <2>4, <2>5, <2>6
<1>15. ASSUME NEW j \in JobIds, ProviderAccept(j) PROVE Records'
  <2> USE DEF At, Records, WellFormed, TypeOK, QueueTypeOK, AlreadySent
  <2>1. UnaddedUncalled'
    BY <1>15 DEF ProviderAccept, UnaddedUncalled, RunsAreActive
  <2>2. RunEvidence'
    BY <1>15 DEF ProviderAccept, RunEvidence, RunsAreActive
  <2>3. KeyEvidence'
    BY <1>15 DEF ProviderAccept, KeyEvidence
  <2>4. SentEvidence'
    BY <1>15 DEF ProviderAccept, SentEvidence, RunEvidence
  <2>5. OneDeliveryRecord'
    BY <1>15 DEF ProviderAccept, OneDeliveryRecord
  <2>6. GapCount'
    BY <1>15 DEF ProviderAccept, GapCount, RunEvidence
  <2> QED
    BY <2>1, <2>2, <2>3, <2>4, <2>5, <2>6
<1>16. ASSUME NEW j \in JobIds, NEW t \in BOOLEAN, ProviderReject(j, t)
      PROVE Records'
  BY <1>16, RecordsFrame DEF ProviderReject, At, WellFormed, TypeOK, QueueTypeOK
<1>17. ASSUME NEW j \in JobIds, CommitSend(j) PROVE Records'
  <2> USE DEF At, Records, WellFormed, TypeOK, QueueTypeOK, AlreadySent
  <2>1. UnaddedUncalled'
    BY <1>17 DEF CommitSend, UnaddedUncalled, RunsAreActive
  <2>2. RunEvidence'
    BY <1>17 DEF CommitSend, RunEvidence, RunsAreActive
  <2>3. KeyEvidence'
    BY <1>17 DEF CommitSend, KeyEvidence, RunEvidence
  <2>4. SentEvidence'
    BY <1>17 DEF CommitSend, SentEvidence, RunEvidence
  <2>5. OneDeliveryRecord'
    BY <1>17 DEF CommitSend, Conflict, OneDeliveryRecord, RunsAreActive, JobsHaveTargets
  <2>6. GapCount'
    BY <1>17 DEF CommitSend, GapCount, RunEvidence
  <2> QED
    BY <2>1, <2>2, <2>3, <2>4, <2>5, <2>6
<1>18. ASSUME NEW j \in JobIds, CommitConflict(j) PROVE Records'
  BY <1>18, RecordsFrame DEF CommitConflict, Conflict, At, WellFormed, TypeOK, QueueTypeOK
<1>19. ASSUME NEW j \in JobIds, Complete(j) PROVE Records'
  BY <1>19, RecordsFrame DEF Complete, MoveJob, WellFormed, TypeOK, QueueTypeOK
<1>20. ASSUME NEW j \in JobIds, Fail(j) PROVE Records'
  BY <1>20, RecordsFrame DEF Fail, FailJob, WellFormed, TypeOK, QueueTypeOK
<1>21. ASSUME NEW j \in JobIds, DbError(j) PROVE Records'
  <2> USE DEF At, Records, WellFormed, TypeOK, QueueTypeOK, AlreadySent
  <2>1. UnaddedUncalled'
    BY <1>21 DEF DbError, UnaddedUncalled, RunsAreActive
  <2>2. RunEvidence'
    BY <1>21 DEF DbError, RunEvidence, RunsAreActive
  <2>3. KeyEvidence'
    BY <1>21 DEF DbError, KeyEvidence
  <2>4. SentEvidence'
    BY <1>21 DEF DbError, SentEvidence, RunEvidence
  <2>5. OneDeliveryRecord'
    BY <1>21 DEF DbError, OneDeliveryRecord
  <2>6. GapCount'
    BY <1>21 DEF DbError, GapCount, RunEvidence
  <2> QED
    BY <2>1, <2>2, <2>3, <2>4, <2>5, <2>6
<1>22. ASSUME NEW j \in JobIds, Stall(j) PROVE Records'
  BY <1>22, RecordsFrame DEF Stall, StallJob, WellFormed, TypeOK, QueueTypeOK
<1>23. ASSUME NEW h \in failures, HandleFailed(h) PROVE Records'
  BY <1>23, RecordsFrame DEF HandleFailed, WellFormed, TypeOK, QueueTypeOK
<1>24. ASSUME NEW h \in failures, HandlerFails(h) PROVE Records'
  BY <1>24, RecordsFrame DEF HandlerFails, WellFormed, TypeOK, QueueTypeOK
<1>25. ASSUME NEW c \in Calls, StartReplay(c) PROVE Records'
  BY <1>25, RecordsFrame DEF StartReplay, WellFormed, TypeOK, QueueTypeOK
<1>26. ASSUME NEW c \in Calls, ReplayAdd(c) PROVE Records'
  <2>1. PICK j \in FreshJobs : AddJob(j, adding[c], "waiting")
    BY <1>26 DEF ReplayAdd, EnqueueNow
  <2> QED
    BY <1>26, <2>1, RecordsFrame DEF ReplayAdd, AddJob, JobIds, WellFormed, TypeOK,
       QueueTypeOK
<1>27. ASSUME NEW c \in Calls, NEW r \in Reminders, ReplayReset(c, r) PROVE Records'
  BY <1>27, RecordsFrame DEF ReplayReset, WellFormed, TypeOK, QueueTypeOK
<1>28. ASSUME NEW c \in Calls, ReplayFails(c) PROVE Records'
  BY <1>28, RecordsFrame DEF ReplayFails, WellFormed, TypeOK, QueueTypeOK
<1>29. ASSUME Crash PROVE Records'
  <2> USE DEF At, Records, WellFormed, TypeOK, QueueTypeOK, AlreadySent
  <2>1. UnaddedUncalled'
    BY <1>29 DEF Crash, UnaddedUncalled, RunsAreActive
  <2>2. RunEvidence'
    BY <1>29 DEF Crash, RunEvidence, RunsAreActive
  <2>3. KeyEvidence'
    BY <1>29 DEF Crash, KeyEvidence
  <2>4. SentEvidence'
    BY <1>29 DEF Crash, SentEvidence, RunEvidence
  <2>5. OneDeliveryRecord'
    BY <1>29 DEF Crash, OneDeliveryRecord
  <2>6. GapCount'
    BY <1>29 DEF Crash, GapCount, RunEvidence
  <2> QED
    BY <2>1, <2>2, <2>3, <2>4, <2>5, <2>6
<1>30. CASE UNCHANGED vars
  BY <1>30, RecordsFrame DEF vars, WellFormed, TypeOK, QueueTypeOK
<1> QED
  BY <1>1, <1>2, <1>3, <1>4, <1>5, <1>6, <1>7, <1>8, <1>9, <1>10, <1>11, <1>12,
     <1>13, <1>14, <1>15, <1>16, <1>17, <1>18, <1>19, <1>20, <1>21, <1>22,
     <1>23, <1>24, <1>25, <1>26, <1>27, <1>28, <1>29, <1>30
     DEF Next, RunStep, Provider, Booking, Replay

\* No call, key or log row exists before the first booking.
LEMMA RecordsInit == Init => Records
BY ConstantFacts DEF Init, QueueInit, Records, UnaddedUncalled, RunEvidence, KeyEvidence,
   SentEvidence, OneDeliveryRecord, GapCount, AlreadySent

\* The evidence is there in every reachable state.
THEOREM RecordsAlways == Spec => []Records
BY RecordsInit, RecordsStep, WellFormedAlways, PTL DEF Spec

\* No row claims a delivery that was not accepted and recorded.
THEOREM SentIsTrue == Spec => []SentMeansDelivered
<1>1. Records => SentMeansDelivered
  BY DEF Records, SentMeansDelivered, SentEvidence, KeyEvidence
<1> QED
  BY <1>1, RecordsAlways, PTL

\* One log row and one SEND key per reminder, written together.
THEOREM DeliveredOnceOnRecord == Spec => []OneDeliveryRecord
<1>1. Records => OneDeliveryRecord
  BY DEF Records
<1> QED
  BY <1>1, RecordsAlways, PTL

\* A job's message is accepted again only after an acceptance was lost.
THEOREM ResendsAreLosses == Spec => []ResendOnlyThroughTheGap
<1>1. Records => ResendOnlyThroughTheGap
  BY DEF Records, ResendOnlyThroughTheGap, GapCount
<1> QED
  BY <1>1, RecordsAlways, PTL

-----------------------------------------------------------------------------
(* Dead letters.                                                           *)

\* A step that leaves the handlers' verdicts alone, marks no row DEAD and takes
\* no job out of the failed set keeps Parked.
LEMMA ParkedFrame ==
  ASSUME WellFormed, Parked,
         failures' \subseteq failures,
         \A r \in Reminders : state'[r] = "DEAD" => state[r] = "DEAD",
         \A j \in JobIds : qstate[j] = "failed" =>
           qstate'[j] = "failed" /\ target'[j] = target[j]
  PROVE  Parked'
BY DEF Parked, DeadVerdicts, DeadIsParked, WellFormed, TypeOK

\* Every step keeps DEAD rows and DEAD verdicts backed by a parked job.
LEMMA ParkedStep == WellFormed /\ Parked /\ [Next]_vars => Parked'
<1> SUFFICES ASSUME WellFormed, Parked, [Next]_vars PROVE Parked'
  OBVIOUS
<1> USE ConstantFacts DEF queueVars, dbVars, ghostVars, replayVars, bounds
<1>1. ASSUME Tick \/ Crash PROVE Parked'
  BY <1>1, ParkedFrame DEF Tick, Crash, WellFormed, TypeOK, QueueTypeOK
<1>2. ASSUME NEW e \in Events, NEW s \in Starts, Create(e, s) PROVE Parked'
  BY <1>2, ParkedFrame DEF Create, WellFormed, TypeOK, QueueTypeOK
<1>3. ASSUME NEW e \in Events, EnqueueFails(e) \/ Reply(e) PROVE Parked'
  BY <1>3, ParkedFrame DEF EnqueueFails, Reply, ReplyMatch, ReplyWrite, WellFormed,
     TypeOK, QueueTypeOK
<1>4. ASSUME NEW r \in Reminders, Booking(r) PROVE Parked'
  BY <1>4, ParkedFrame DEF Booking, EnqueueAdd, EnqueueFlip, AddJob, WellFormed,
     TypeOK, QueueTypeOK
<1>5. ASSUME NEW r \in Reminders, Redeliver(r) PROVE Parked'
  BY <1>5, ParkedFrame DEF Redeliver, EnqueueNow, AddJob, WellFormed, TypeOK,
     QueueTypeOK
<1>6. ASSUME NEW j \in JobIds, Promote(j) \/ Pick(j) \/ Complete(j) \/ Stall(j)
      PROVE Parked'
  BY <1>6, ParkedFrame DEF Promote, Pick, Complete, Stall, MoveJob, StallJob,
     WellFormed, TypeOK, QueueTypeOK
<1>7. ASSUME NEW j \in JobIds, Load(j) \/ SkipRow(j) \/ Check(j) \/ Dedupe(j)
      PROVE Parked'
  BY <1>7, ParkedFrame DEF Load, SkipRow, Check, Dedupe, At, WellFormed, TypeOK,
     QueueTypeOK
<1>8. ASSUME NEW j \in JobIds, MarkSending(j) \/ Provider(j) PROVE Parked'
  BY <1>8, ParkedFrame DEF MarkSending, Provider, ProviderAccept, ProviderReject, At,
     WellFormed, TypeOK, QueueTypeOK
<1>9. ASSUME NEW j \in JobIds, CommitSend(j) \/ CommitConflict(j) \/ DbError(j)
      PROVE Parked'
  BY <1>9, ParkedFrame DEF CommitSend, CommitConflict, DbError, At, WellFormed,
     TypeOK, QueueTypeOK
<1>10. ASSUME NEW j \in JobIds, Fail(j) PROVE Parked'
  <2>1. Exhausted(made[j] + 1, pc[j] = "fatal") <=> ~MayRetry(j, pc[j] = "fatal")
    BY DEF Exhausted, MayRetry, WellFormed, TypeOK, QueueTypeOK
  <2>2. DeadVerdicts'
    BY <1>10, <2>1 DEF Fail, FailJob, Parked, DeadVerdicts, WellFormed, TypeOK, QueueTypeOK
  <2>3. DeadIsParked'
    BY <1>10 DEF Fail, FailJob, Parked, DeadIsParked, WellFormed, TypeOK, QueueTypeOK
  <2> QED
    BY <2>2, <2>3 DEF Parked
<1>11. ASSUME NEW h \in failures, HandleFailed(h) PROVE Parked'
  <2>1. DeadVerdicts'
    BY <1>11 DEF HandleFailed, Parked, DeadVerdicts
  <2>2. DeadIsParked'
    BY <1>11 DEF HandleFailed, Parked, DeadVerdicts, DeadIsParked, WellFormed, TypeOK,
       QueueTypeOK
  <2> QED
    BY <2>1, <2>2 DEF Parked
<1>12. ASSUME NEW h \in failures, HandlerFails(h) PROVE Parked'
  BY <1>12, ParkedFrame DEF HandlerFails, WellFormed, TypeOK, QueueTypeOK
<1>13. ASSUME NEW c \in Calls, StartReplay(c) \/ ReplayFails(c) PROVE Parked'
  BY <1>13, ParkedFrame DEF StartReplay, ReplayFails, WellFormed, TypeOK, QueueTypeOK
<1>14. ASSUME NEW c \in Calls, Replay(c) PROVE Parked'
  BY <1>14, ParkedFrame DEF Replay, ReplayAdd, ReplayReset, EnqueueNow, AddJob,
     WellFormed, TypeOK, QueueTypeOK
<1>15. CASE UNCHANGED vars
  BY <1>15, ParkedFrame DEF vars, WellFormed, TypeOK, QueueTypeOK
<1> QED
  BY <1>1, <1>2, <1>3, <1>4, <1>5, <1>6, <1>7, <1>8, <1>9, <1>10, <1>11, <1>12,
     <1>13, <1>14, <1>15
     DEF Next, RunStep

\* No row is DEAD and no handler is pending at the start.
LEMMA ParkedInit == Init => Parked
BY DEF Init, Parked, DeadVerdicts, DeadIsParked

\* A DEAD row always has a job in the failed set: the handler never gives a
\* reminder up before the queue does.
THEOREM DeadLettersAreParked == Spec => []DeadIsParked
<1>1. Spec => []Parked
  BY ParkedInit, ParkedStep, WellFormedAlways, PTL DEF Spec
<1>2. Parked => DeadIsParked
  BY DEF Parked
<1> QED
  BY <1>1, <1>2, PTL

-----------------------------------------------------------------------------
(* The budget of provider calls.                                           *)

\* A step that moves only one job settles the accounts of all the others.
LEMMA OtherAccounts ==
  ASSUME NEW j \in JobIds, CallAccount, WellFormed,
         \A i \in JobIds \ {j} : /\ qstate'[i] = qstate[i] /\ made'[i] = made[i]
                                 /\ stalls'[i] = stalls[i] /\ calls'[i] = calls[i]
                                 /\ pc'[i] = pc[i],
         Account(j)'
  PROVE  CallAccount'
<1>1. ASSUME NEW i \in JobIds \ {j} PROVE Account(i)'
  BY <1>1 DEF CallAccount, Account, StalledOut, Extra, Charged
<1> QED
  BY <1>1 DEF CallAccount

\* Every step of the code keeps every job's account of provider calls.
LEMMA CallAccountStep == WellFormed /\ CallAccount /\ [Next]_vars => CallAccount'
<1> SUFFICES ASSUME WellFormed, CallAccount, [Next]_vars PROVE CallAccount'
  OBVIOUS
<1>a. \A j \in JobIds : Account(j)
  BY DEF CallAccount
<1>b. /\ qstate \in [JobIds -> QueueStates] /\ pc \in [JobIds -> RunStates]
      /\ made \in [JobIds -> Nat] /\ stalls \in [JobIds -> Nat] /\ calls \in [JobIds -> Nat]
      /\ \A j \in JobIds : pc[j] # "idle" => qstate[j] = "active"
  BY DEF WellFormed, TypeOK, QueueTypeOK, RunsAreActive
<1> USE ConstantFacts DEF queueVars, dbVars, ghostVars, replayVars, bounds
<1>1. ASSUME Tick PROVE CallAccount'
  BY <1>1 DEF Tick, CallAccount, Account, StalledOut, Extra, Charged
<1>2. ASSUME Crash PROVE CallAccount'
  BY <1>2, <1>a, <1>b DEF Crash, CallAccount, Account, StalledOut, Extra, Charged
<1>3. ASSUME NEW e \in Events, NEW s \in Starts, Create(e, s) PROVE CallAccount'
  BY <1>3 DEF Create, CallAccount, Account, StalledOut, Extra, Charged
<1>4. ASSUME NEW e \in Events, EnqueueFails(e) \/ Reply(e) PROVE CallAccount'
  BY <1>4 DEF EnqueueFails, Reply, ReplyMatch, ReplyWrite, CallAccount, Account,
     StalledOut, Extra, Charged
<1>5. ASSUME NEW r \in Reminders, EnqueueAdd(r) PROVE CallAccount'
  <2>1. r \in JobIds
    BY DEF JobIds
  <2>2. Account(r)'
    BY <1>5, <2>1, <1>a, <1>b DEF EnqueueAdd, AddJob, FirstState, Account, StalledOut,
       Extra, Charged
  <2> QED
    BY <1>5, <2>1, <2>2, <1>b, OtherAccounts DEF EnqueueAdd, AddJob
<1>6. ASSUME NEW r \in Reminders, EnqueueFlip(r) PROVE CallAccount'
  BY <1>6 DEF EnqueueFlip, CallAccount, Account, StalledOut, Extra, Charged
<1>7. ASSUME NEW r \in Reminders, Redeliver(r) PROVE CallAccount'
  <2>1. PICK j \in FreshJobs : AddJob(j, r, "waiting")
    BY <1>7 DEF Redeliver, EnqueueNow
  <2>2. j \in JobIds
    BY DEF JobIds
  <2>3. Account(j)'
    BY <1>7, <2>1, <2>2, <1>a, <1>b DEF Redeliver, AddJob, Account, StalledOut, Extra,
       Charged
  <2> QED
    BY <1>7, <2>1, <2>2, <2>3, <1>b, OtherAccounts DEF Redeliver, AddJob
<1>8. ASSUME NEW j \in JobIds, Promote(j) PROVE CallAccount'
  <2>1. Account(j)'
    BY <1>8, <1>a, <1>b DEF Promote, MoveJob,
       Account, StalledOut, Extra, Charged, QueueStates, RunStates
  <2> QED
    BY <1>8, <2>1, <1>b, OtherAccounts DEF Promote, MoveJob
<1>9. ASSUME NEW j \in JobIds, Pick(j) PROVE CallAccount'
  <2>1. Account(j)'
    BY <1>9, <1>a, <1>b DEF Pick, MoveJob,
       Account, StalledOut, Extra, Charged, QueueStates, RunStates
  <2> QED
    BY <1>9, <2>1, <1>b, OtherAccounts DEF Pick, MoveJob
<1>10. ASSUME NEW j \in JobIds, Load(j) \/ SkipRow(j) PROVE CallAccount'
  <2>1. Account(j)'
    BY <1>10, <1>a, <1>b DEF Load, SkipRow, At,
       Account, StalledOut, Extra, Charged, QueueStates, RunStates
  <2> QED
    BY <1>10, <2>1, <1>b, OtherAccounts DEF Load, SkipRow, At
<1>11. ASSUME NEW j \in JobIds, Check(j) \/ Dedupe(j) \/ MarkSending(j)
      PROVE CallAccount'
  <2>1. Account(j)'
    BY <1>11, <1>a, <1>b DEF Check, Dedupe, MarkSending, At,
       Account, StalledOut, Extra, Charged, QueueStates, RunStates
  <2> QED
    BY <1>11, <2>1, <1>b, OtherAccounts DEF Check, Dedupe, MarkSending, At
<1>12. ASSUME NEW j \in JobIds, Provider(j) PROVE CallAccount'
  <2>1. Account(j)'
    BY <1>12, <1>a, <1>b DEF Provider, ProviderAccept, ProviderReject, At,
       Account, StalledOut, Extra, Charged, QueueStates, RunStates
  <2> QED
    BY <1>12, <2>1, <1>b, OtherAccounts DEF Provider, ProviderAccept, ProviderReject, At
<1>13. ASSUME NEW j \in JobIds, CommitSend(j) \/ CommitConflict(j)
      PROVE CallAccount'
  <2>1. Account(j)'
    BY <1>13, <1>a, <1>b DEF CommitSend, CommitConflict, At,
       Account, StalledOut, Extra, Charged, QueueStates, RunStates
  <2> QED
    BY <1>13, <2>1, <1>b, OtherAccounts DEF CommitSend, CommitConflict, At
<1>14. ASSUME NEW j \in JobIds, Complete(j) PROVE CallAccount'
  <2>1. Account(j)'
    BY <1>14, <1>a, <1>b DEF Complete, MoveJob,
       Account, StalledOut, Extra, Charged, QueueStates, RunStates
  <2> QED
    BY <1>14, <2>1, <1>b, OtherAccounts DEF Complete, MoveJob
<1>15. ASSUME NEW j \in JobIds, Fail(j) PROVE CallAccount'
  <2>1. Account(j)'
    BY <1>15, <1>a, <1>b DEF Fail, FailJob, MayRetry,
       Account, StalledOut, Extra, Charged, QueueStates, RunStates
  <2> QED
    BY <1>15, <2>1, <1>b, OtherAccounts DEF Fail, FailJob, MayRetry
<1>16. ASSUME NEW j \in JobIds, DbError(j) PROVE CallAccount'
  <2>1. Account(j)'
    BY <1>16, <1>a, <1>b DEF DbError,
       Account, StalledOut, Extra, Charged, QueueStates, RunStates
  <2> QED
    BY <1>16, <2>1, <1>b, OtherAccounts DEF DbError
<1>17. ASSUME NEW j \in JobIds, Stall(j) PROVE CallAccount'
  <2>1. Account(j)'
    BY <1>17, <1>a, <1>b DEF Stall, StallJob,
       Account, StalledOut, Extra, Charged, QueueStates, RunStates
  <2> QED
    BY <1>17, <2>1, <1>b, OtherAccounts DEF Stall, StallJob
<1>18. ASSUME NEW h \in failures, HandleFailed(h) \/ HandlerFails(h)
      PROVE CallAccount'
  BY <1>18 DEF HandleFailed, HandlerFails, CallAccount, Account, StalledOut, Extra, Charged
<1>19. ASSUME NEW c \in Calls, StartReplay(c) \/ ReplayFails(c) PROVE CallAccount'
  BY <1>19 DEF StartReplay, ReplayFails, CallAccount, Account, StalledOut, Extra, Charged
<1>20. ASSUME NEW c \in Calls, ReplayAdd(c) PROVE CallAccount'
  <2>1. PICK j \in FreshJobs : AddJob(j, adding[c], "waiting")
    BY <1>20 DEF ReplayAdd, EnqueueNow
  <2>2. j \in JobIds
    BY DEF JobIds
  <2>3. Account(j)'
    BY <1>20, <2>1, <2>2, <1>a, <1>b DEF ReplayAdd, AddJob, Account, StalledOut, Extra,
       Charged
  <2> QED
    BY <1>20, <2>1, <2>2, <2>3, <1>b, OtherAccounts DEF ReplayAdd, AddJob
<1>21. ASSUME NEW c \in Calls, NEW r \in Reminders, ReplayReset(c, r)
      PROVE CallAccount'
  BY <1>21 DEF ReplayReset, CallAccount, Account, StalledOut, Extra, Charged
<1>22. CASE UNCHANGED vars
  BY <1>22 DEF vars, CallAccount, Account, StalledOut, Extra, Charged
<1> QED
  BY <1>1, <1>2, <1>3, <1>4, <1>5, <1>6, <1>7, <1>8, <1>9, <1>10, <1>11, <1>12,
     <1>13, <1>14, <1>15, <1>16, <1>17, <1>18, <1>19, <1>20, <1>21, <1>22
     DEF Next, RunStep, Booking, Replay

\* No job has been called at the start.
LEMMA CallAccountInit == Init => CallAccount
BY QueueAssumption DEF Init, QueueInit, CallAccount, Account, StalledOut, Extra, Charged

\* Every job's account of provider calls balances.
THEOREM CallAccountAlways == Spec => []CallAccount
BY CallAccountInit, CallAccountStep, WellFormedAlways, PTL DEF Spec

\* However attempts fail and runs are cut short, no job makes the provider work
\* more often than its attempts and its stalls together allow.
THEOREM CallsAreBudgeted == Spec => []CallBudget
<1>2. WellFormed /\ CallAccount => CallBudget
  BY ConstantFacts DEF WellFormed, TypeOK, QueueTypeOK, CallAccount, Account,
     CallBudget, StalledOut,
     Extra, Charged
<1> QED
  BY CallAccountAlways, <1>2, WellFormedAlways, PTL

-----------------------------------------------------------------------------
(* The ledger: every action of Delivery is one step of it, or none.        *)

\* Nothing is carried, accepted or recorded before the first booking.
LEMMA LedgerInit == Init => Ledger!Init
BY ConstantFacts DEF Init, QueueInit, Ledger!Init, InHand, RowsSent

\* A step that accepts, loses and records nothing and shows no more rows as
\* SENT is no more than a Hide of the ledger.
LEMMA HideOnly ==
  ASSUME UNCHANGED <<target, accepted, lost, sendKeys>>,
         \A j \in JobIds : pc'[j] = "commit" <=> pc[j] = "commit",
         \A r \in Reminders : state'[r] = "SENT" => state[r] = "SENT"
  PROVE  Ledger!Next
<1>1. InHand' = InHand /\ RowsSent' \in SUBSET RowsSent
  BY DEF InHand, RowsSent, JobIds
<1>2. Ledger!Hide
  BY <1>1 DEF Ledger!Hide
<1> QED
  BY <1>2 DEF Ledger!Next

\* A job that is added is engaged.
LEMMA AddEngages ==
  ASSUME WellFormed, NEW j \in JobIds, NEW r \in Reminders, NEW s, AddJob(j, r, s),
         UNCHANGED <<accepted, lost, sendKeys, state, pc>>
  PROVE  Ledger!Next
<1>1. target[j] = None
  BY DEF WellFormed, JobsHaveTargets, AddJob
<1>2. InHand' = InHand /\ RowsSent' = RowsSent
  BY DEF InHand, RowsSent, JobIds
<1>3. Ledger!Engage(j, r)
  BY <1>1, <1>2 DEF Ledger!Engage, AddJob
<1> QED
  BY <1>3 DEF Ledger!Next

\* The next statement of a run.
LEMMA RunStepLedger ==
  ASSUME WellFormed, WellFormed', Records, NEW j \in JobIds, RunStep(j)
  PROVE  Ledger!Next
<1> USE DEF queueVars, dbVars, ghostVars, replayVars, bounds
<1>0. pc[j] # "idle" => target[j] \in Reminders
  BY DEF WellFormed, RunsAreActive, JobsHaveTargets
<1>1. CASE Load(j)
  BY <1>1, HideOnly DEF Load, At, WellFormed, TypeOK
<1>2. CASE SkipRow(j)
  BY <1>2, HideOnly DEF SkipRow, At, WellFormed, TypeOK
<1>3. CASE Check(j)
  BY <1>3, HideOnly DEF Check, At, WellFormed, TypeOK
<1>4. CASE MarkSending(j)
  BY <1>4, HideOnly DEF MarkSending, At, WellFormed, TypeOK
<1>5. ASSUME NEW retryable \in BOOLEAN, ProviderReject(j, retryable) PROVE Ledger!Next
  BY <1>5, HideOnly DEF ProviderReject, At, WellFormed, TypeOK
<1>6. CASE Complete(j)
  BY <1>6, HideOnly DEF Complete, MoveJob, WellFormed, TypeOK
<1>7. CASE Fail(j)
  BY <1>7, HideOnly DEF Fail, FailJob, WellFormed, TypeOK
<1>8. CASE Dedupe(j)
  <2>1. target[j] \in sendKeys /\ target[j] \in Reminders
    BY <1>0, <1>8 DEF Dedupe, At, Records, RunEvidence, AlreadySent
  <2>2. InHand' = InHand /\ RowsSent' = RowsSent \cup {target[j]}
    BY <1>8, <2>1 DEF Dedupe, At, InHand, RowsSent, WellFormed, TypeOK
  <2>3. Ledger!Show(target[j])
    BY <1>8, <2>1, <2>2 DEF Ledger!Show, Dedupe, At
  <2> QED
    BY <2>1, <2>3 DEF Ledger!Next
<1>9. CASE ProviderAccept(j)
  <2>1. j \notin InHand /\ accepted[j] <= lost[j] /\ target[j] \in Reminders
    BY <1>0, <1>9 DEF ProviderAccept, At, InHand, Records, GapCount
  <2>2. InHand' = InHand \cup {j} /\ RowsSent' = RowsSent
    BY <1>9 DEF ProviderAccept, At, InHand, RowsSent, WellFormed, TypeOK
  <2>3. Ledger!Accept(j)
    BY <1>9, <2>1, <2>2 DEF Ledger!Accept, ProviderAccept, At
  <2> QED
    BY <2>3 DEF Ledger!Next
<1>10. CASE CommitSend(j)
  <2>1. j \in InHand /\ target[j] \notin sendKeys /\ target[j] \in Reminders
    BY <1>0, <1>10 DEF CommitSend, At, Conflict, InHand
  <2>2. InHand' = InHand \ {j} /\ RowsSent' = RowsSent \cup {target[j]}
    BY <1>10, <2>1 DEF CommitSend, At, InHand, RowsSent, WellFormed, TypeOK
  <2>3. Ledger!Record(j)
    BY <1>10, <2>1, <2>2 DEF Ledger!Record, CommitSend, At
  <2> QED
    BY <2>3 DEF Ledger!Next
<1>11. CASE CommitConflict(j)
  <2>1. j \in InHand /\ target[j] \in sendKeys
    BY <1>11 DEF CommitConflict, At, Conflict, InHand
  <2>2. InHand' = InHand \ {j} /\ RowsSent' = RowsSent
    BY <1>11 DEF CommitConflict, At, InHand, RowsSent, WellFormed, TypeOK
  <2>3. Ledger!Discard(j)
    BY <1>11, <2>1, <2>2 DEF Ledger!Discard, CommitConflict, At
  <2> QED
    BY <2>3 DEF Ledger!Next
<1> QED
  BY <1>1, <1>2, <1>3, <1>4, <1>5, <1>6, <1>7, <1>8, <1>9, <1>10, <1>11
     DEF RunStep, Provider

\* Every step of the code is a step of the ledger or leaves it as it is.
LEMMA LedgerStep ==
  WellFormed /\ WellFormed' /\ Records /\ [Next]_vars => [Ledger!Next]_(Ledger!ledgerVars)
<1> SUFFICES ASSUME WellFormed, WellFormed', Records, [Next]_vars
             PROVE  Ledger!Next \/ UNCHANGED Ledger!ledgerVars
  OBVIOUS
<1> USE DEF queueVars, dbVars, ghostVars, replayVars, bounds
<1>1. ASSUME Tick PROVE Ledger!Next
  BY <1>1, HideOnly DEF Tick
<1>2. ASSUME NEW e \in Events, NEW s \in Starts, Create(e, s) PROVE Ledger!Next
  BY <1>2, HideOnly DEF Create
<1>3. ASSUME NEW e \in Events, EnqueueFails(e) PROVE Ledger!Next
  BY <1>3, HideOnly DEF EnqueueFails
<1>4. ASSUME NEW e \in Events, Reply(e) PROVE Ledger!Next
  BY <1>4, HideOnly DEF Reply, ReplyMatch, ReplyWrite
<1>5. ASSUME NEW r \in Reminders, EnqueueAdd(r) PROVE Ledger!Next
  BY <1>5, AddEngages DEF EnqueueAdd, JobIds
<1>6. ASSUME NEW r \in Reminders, EnqueueFlip(r) PROVE Ledger!Next
  BY <1>6, HideOnly DEF EnqueueFlip, WellFormed, TypeOK
<1>7. ASSUME NEW r \in Reminders, Redeliver(r) PROVE Ledger!Next
  BY <1>7, AddEngages DEF Redeliver, EnqueueNow, JobIds
<1>8. ASSUME NEW j \in JobIds, Promote(j) PROVE Ledger!Next
  BY <1>8, HideOnly DEF Promote, MoveJob
<1>9. ASSUME NEW j \in JobIds, Pick(j) PROVE Ledger!Next
  BY <1>9, HideOnly DEF Pick, MoveJob, RunsAreActive, WellFormed, TypeOK
<1>10. ASSUME NEW j \in JobIds, Stall(j) PROVE Ledger!Next
  BY <1>10, HideOnly DEF Stall, StallJob
<1>11. ASSUME NEW j \in JobIds, DbError(j) PROVE Ledger!Next
  <2>1. InHand' = InHand \ {j} /\ RowsSent' = RowsSent
    BY <1>11 DEF DbError, InHand, RowsSent, WellFormed, TypeOK
  <2>2. lost' = [i \in JobIds |-> IF i \in InHand \ InHand' THEN lost[i] + 1 ELSE lost[i]]
    BY <1>11, <2>1 DEF DbError, InHand, WellFormed, TypeOK
  <2>3. Ledger!Lose
    BY <1>11, <2>1, <2>2 DEF Ledger!Lose, DbError
  <2> QED
    BY <2>3 DEF Ledger!Next
<1>12. ASSUME Crash PROVE Ledger!Next
  <2>1. InHand' = {} /\ RowsSent' = RowsSent
    BY <1>12 DEF Crash, InHand, RowsSent
  <2>2. lost' = [i \in JobIds |-> IF i \in InHand \ InHand' THEN lost[i] + 1 ELSE lost[i]]
    BY <1>12, <2>1 DEF Crash, InHand
  <2>3. Ledger!Lose
    BY <1>12, <2>1, <2>2 DEF Ledger!Lose, Crash
  <2> QED
    BY <2>3 DEF Ledger!Next
<1>13. ASSUME NEW h \in failures, HandleFailed(h) PROVE Ledger!Next
  BY <1>13, HideOnly DEF HandleFailed, WellFormed, TypeOK
<1>14. ASSUME NEW h \in failures, HandlerFails(h) PROVE Ledger!Next
  BY <1>14, HideOnly DEF HandlerFails
<1>15. ASSUME NEW c \in Calls, StartReplay(c) PROVE Ledger!Next
  BY <1>15, HideOnly DEF StartReplay
<1>16. ASSUME NEW c \in Calls, ReplayAdd(c) PROVE Ledger!Next
  <2>1. adding[c] \in Reminders
    BY <1>16 DEF ReplayAdd, WellFormed, TypeOK
  <2> QED
    BY <1>16, <2>1, AddEngages DEF ReplayAdd, EnqueueNow, JobIds
<1>17. ASSUME NEW c \in Calls, NEW r \in Reminders, ReplayReset(c, r) PROVE Ledger!Next
  BY <1>17, HideOnly DEF ReplayReset, WellFormed, TypeOK
<1>18. ASSUME NEW c \in Calls, ReplayFails(c) PROVE Ledger!Next
  BY <1>18, HideOnly DEF ReplayFails
<1>19. CASE UNCHANGED vars
  BY <1>19 DEF vars, Ledger!ledgerVars, InHand, RowsSent
<1> QED
  BY <1>1, <1>2, <1>3, <1>4, <1>5, <1>6, <1>7, <1>8, <1>9, <1>10, <1>11, <1>12, <1>13,
     <1>14, <1>15, <1>16, <1>17, <1>18, <1>19, RunStepLedger DEF Next, Booking, Replay

\* The code implements the ledger.
THEOREM LedgerImplemented == Spec => LedgerKept
<1>1. Init /\ []WellFormed /\ []Records /\ [][Next]_vars => Ledger!Spec
  BY LedgerInit, LedgerStep, PTL DEF Ledger!Spec
<1> QED
  BY <1>1, WellFormedAlways, RecordsAlways, PTL DEF Spec, LedgerKept
=============================================================================
