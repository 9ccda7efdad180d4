--------------------------- MODULE DeliveryClaims ---------------------------
(***************************************************************************)
(* What comments and documents of the repository say of the delivery of    *)
(* reminders and the code does not keep.  Each is checked by a run of its  *)
(* own, whose counterexample shows how.                                    *)
(***************************************************************************)
EXTENDS Delivery

JobsOf(r) == {j \in JobIds : target[j] = r}

\* A job of r is still in the queue and not given up.
HasLiveJob(r) == \E j \in JobsOf(r) : ~Settled(j)

\* "FAILED: transient failure, will retry": a FAILED row that no handler is about
\* to write again, of an event that is not cancelled, has a job that will still run.
FailedWillRetry ==
  \A r \in Reminders :
    /\ state[r] = "FAILED" /\ ~IsCancelled(r)
    /\ \A h \in failures : target[h.job] # r
    => HasLiveJob(r)

\* "marked DEAD and left in the queue's failed set so it can be replayed
\* later": an unsent reminder whose last job was given up, with no handler and
\* no replay still at work on it, is DEAD, the only state replayDead looks for.
ParkedIsReplayable ==
  \A r \in Reminders :
    /\ \E j \in JobsOf(r) : qstate[j] = "failed"
    /\ ~HasLiveJob(r) /\ r \notin sendKeys /\ enq[r] = "idle"
    /\ \A h \in failures : target[h.job] # r
    /\ \A c \in Calls : adding[c] # r
    => state[r] = "DEAD"
=============================================================================
