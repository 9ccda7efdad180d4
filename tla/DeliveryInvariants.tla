------------------------- MODULE DeliveryInvariants -------------------------
(***************************************************************************)
(* What is true at every await of the delivery code, written so that each  *)
(* step preserves it: the invariants the proofs of DeliveryProofs carry    *)
(* through the steps, in layers that each rest on the ones before.         *)
(***************************************************************************)
EXTENDS Delivery

-----------------------------------------------------------------------------
(* Who holds what.                                                         *)

\* A job with a run is active.
RunsAreActive == \A j \in JobIds : pc[j] # "idle" => qstate[j] = "active"

\* A job names a reminder, its own if it has a row's id, from when it is added.
JobsHaveTargets ==
  \A j \in JobIds :
    /\ qstate[j] = "none" => target[j] = None
    /\ qstate[j] # "none" => target[j] \in Reminders /\ (j \in Reminders => target[j] = j)

WellFormed == TypeOK /\ RunsAreActive /\ JobsHaveTargets

-----------------------------------------------------------------------------
(* What the provider accepted and what the database says of it.            *)

\* A job that was never added was never accepted.
UnaddedUncalled == \A j \in JobIds : qstate[j] = "none" => accepted[j] = 0

\* A run that is about to commit, or found the key, has an acceptance or the
\* key behind it; a key has an acceptance behind it.
RunEvidence ==
  \A j \in JobIds :
    /\ pc[j] = "commit" => accepted[j] > 0
    /\ pc[j] = "dedupe" => AlreadySent(target[j])

KeyEvidence ==
  \A r \in sendKeys : \E j \in JobIds : target[j] = r /\ accepted[j] > 0

SentEvidence == \A r \in Reminders : state[r] = "SENT" => r \in sendKeys

\* Every acceptance of a job but the one in hand or on record was lost.
GapCount ==
  \A j \in JobIds :
    /\ accepted[j] <= 1 + lost[j]
    /\ ~AlreadySent(target[j]) /\ pc[j] # "commit" => accepted[j] <= lost[j]
    /\ pc[j] \in {"mark", "call"} => accepted[j] <= lost[j]

Records ==
  UnaddedUncalled /\ RunEvidence /\ KeyEvidence /\ SentEvidence
  /\ OneDeliveryRecord /\ GapCount

-----------------------------------------------------------------------------
(* Dead letters.                                                           *)

\* The handler that will write DEAD belongs to a job the queue gave up.
DeadVerdicts == \A h \in failures : h.dead => qstate[h.job] = "failed"

Parked == DeadVerdicts /\ DeadIsParked

-----------------------------------------------------------------------------
(* The budget of provider calls.                                           *)

\* The call of the current attempt has been made, or there is none to make.
Charged(j) ==
  /\ qstate[j] \in {"active", "done"}
  /\ pc[j] \notin {"load", "cancel", "check", "dedupe", "mark", "call"}

Extra(j) == IF Charged(j) THEN 1 ELSE 0

\* Each call but the current one was followed by a failed attempt or a stall;
\* a job that stalled too often is never run again.
Account(j) ==
  /\ made[j] <= MaxAttempts
  /\ qstate[j] # "failed" => made[j] < MaxAttempts
  /\ qstate[j] = "none" => stalls[j] = 0 /\ calls[j] = 0 /\ made[j] = 0
  /\ ~StalledOut(j) => calls[j] <= made[j] + stalls[j] + Extra(j)
  /\ StalledOut(j) => /\ calls[j] <= MaxAttempts + MaxStalls
                      /\ pc[j] \in {"idle", "fatal"}

CallAccount == \A j \in JobIds : Account(j)

-----------------------------------------------------------------------------
(* Due times, and why jobs leave the queue.                                *)

\* Before an event is booked nothing is at work on its reminders.
Unbooked ==
  \A r \in Reminders : event[EventOf(r)] = "NONE" =>
    /\ state[r] = "ABSENT" /\ enq[r] = "idle"
    /\ \A c \in Calls : r \notin todo[c] /\ adding[c] # r
    /\ \A j \in JobIds : target[j] # r

\* A reminder's own job that has left its delay, now or before, is due.
LeftItsDelay(r) ==
  \/ qstate[r] \in {"waiting", "active", "failed", "done"}
  \/ made[r] > 0 \/ calls[r] > 0

Timely == \A r \in Reminders : LeftItsDelay(r) => now >= RunAt(r)

\* The reasons a job may end without a failure.
Excused(r) == Stale(r) \/ EventOf(r) \in cancelled

CancelsAreKnown == \A e \in Events : event[e] = "CANCELLED" => e \in cancelled

RunsHaveReasons ==
  \A j \in JobIds :
    /\ pc[j] = "cancel" => Excused(target[j])
    /\ pc[j] = "finish" => AlreadySent(target[j]) \/ Excused(target[j])

Reasons == CancelsAreKnown /\ RunsHaveReasons /\ NoSilentDrop

IInv == WellFormed /\ Records /\ Parked /\ CallAccount /\ Unbooked /\ Timely /\ Reasons
=============================================================================
