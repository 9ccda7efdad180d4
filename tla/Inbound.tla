------------------------------ MODULE Inbound -------------------------------
(***************************************************************************)
(* Customer replies: POST /webhooks/:tenantId/inbound and                  *)
(* InboundService.handle.  The provider delivers a message at least once,  *)
(* so several webhook calls may carry one message and overlap; calls of    *)
(* different messages overlap too.  One tenant.                            *)
(***************************************************************************)
EXTENDS Integers, FiniteSets

CONSTANTS
  Hooks,      \* webhook calls
  Messages,   \* provider message ids
  MessageOf,  \* the message each call carries
  Phones,     \* phone numbers appointments are booked for
  Sender,     \* the phone each message comes from, maybe nobody's
  Meaning,    \* what each body reads as: CONFIRMED, CANCELLED or unrecognized
  Events, Owner, StartsAt,
  None,
  MaxTime, MaxCrashes, MaxErrors

ASSUME InboundAssumption ==
  /\ MessageOf \in [Hooks -> Messages]
  /\ Meaning \in [Messages -> {"CONFIRMED", "CANCELLED", "unrecognized"}]
  /\ DOMAIN Sender = Messages
  /\ Owner \in [Events -> Phones]
  /\ StartsAt \in [Events -> Nat]
  /\ None \notin Events
  /\ MaxTime \in Nat /\ MaxCrashes \in Nat /\ MaxErrors \in Nat

VARIABLES
  now,
  status,     \* Event.status; NONE before the booking commits
  recipients, \* phones with a recipient row
  claimed,    \* messages with an INBOUND key
  log,        \* INBOUND MessageLog rows: message and the event it was linked to
  changedBy,  \* history: the messages that changed each event
  pc,         \* the await each call is at
  known,      \* calls that found a recipient
  found,      \* the event each call matched, or None
  result,     \* what each call answered
  crashes, errors

vars == <<now, status, recipients, claimed, log, changedBy, pc, known, found, result,
          crashes, errors>>

Results == {"none", "duplicate", "no_recipient", "no_upcoming_event",
            "unrecognized", "updated", "500"}

TypeOK ==
  /\ now \in Nat
  /\ status \in [Events -> {"NONE", "SCHEDULED", "CONFIRMED", "CANCELLED"}]
  /\ recipients \subseteq Phones /\ claimed \subseteq Messages
  /\ log \subseteq [by : Hooks, event : Events \cup {None}]
  /\ changedBy \in [Events -> SUBSET Messages]
  /\ pc \in [Hooks -> {"new", "recipient", "event", "log", "update", "end"}]
  /\ known \subseteq Hooks
  /\ found \in [Hooks -> Events \cup {None}]
  /\ result \in [Hooks -> Results]
  /\ crashes \in Nat /\ errors \in Nat

Init ==
  /\ now = 0
  /\ status = [e \in Events |-> "NONE"]
  /\ recipients = {} /\ claimed = {} /\ log = {}
  /\ changedBy = [e \in Events |-> {}]
  /\ pc = [h \in Hooks |-> "new"]
  /\ known = {} /\ found = [h \in Hooks |-> None]
  /\ result = [h \in Hooks |-> "none"]
  /\ crashes = 0 /\ errors = 0

Tick ==
  /\ now < MaxTime
  /\ now' = now + 1
  /\ UNCHANGED <<status, recipients, claimed, log, changedBy, pc, known, found, result,
                 crashes, errors>>

\* An appointment is booked meanwhile; the recipient row is there from then on.
Book(e) ==
  /\ status[e] = "NONE" /\ StartsAt[e] > now
  /\ status' = [status EXCEPT ![e] = "SCHEDULED"]
  /\ recipients' = recipients \cup {Owner[e]}
  /\ UNCHANGED <<now, claimed, log, changedBy, pc, known, found, result, crashes, errors>>

Goto(h, from, to) == pc[h] = from /\ pc' = [pc EXCEPT ![h] = to]
Answer(h, r) == result' = [result EXCEPT ![h] = r]

From(h) == Sender[MessageOf[h]]
Reads(h) == Meaning[MessageOf[h]]

\* Mutant: the provider message id is not unique.
AlwaysFresh(m) == TRUE

Fresh(m) == m \notin claimed

\* The INBOUND key is inserted before any work; a duplicate ends here.
Claim(h) ==
  /\ IF Fresh(MessageOf[h])
       THEN Goto(h, "new", "recipient") /\ UNCHANGED result
       ELSE Goto(h, "new", "end") /\ Answer(h, "duplicate")
  /\ claimed' = claimed \cup {MessageOf[h]}
  /\ UNCHANGED <<now, status, recipients, log, changedBy, known, found, crashes, errors>>

\* The recipient by phone; without one no event is looked for.
FindRecipient(h) ==
  /\ IF From(h) \in recipients
       THEN Goto(h, "recipient", "event") /\ known' = known \cup {h}
       ELSE Goto(h, "recipient", "log") /\ UNCHANGED known
  /\ UNCHANGED <<now, status, recipients, claimed, log, changedBy, found, result,
                 crashes, errors>>

\* Mutant: the sender is not looked at.
AnyUpcoming(c) == {e \in Events : status[e] = "SCHEDULED" /\ StartsAt[e] > now}

\* The sender's appointments that are still scheduled and still to come.
Upcoming(c) ==
  {e \in Events : Owner[e] = c /\ status[e] = "SCHEDULED" /\ StartsAt[e] > now}

Nearest(E) == {e \in E : \A d \in E : StartsAt[e] <= StartsAt[d]}

\* The first of the recipient's upcoming events by start.
FindEvent(h) ==
  /\ Goto(h, "event", "log")
  /\ IF Upcoming(From(h)) = {}
       THEN UNCHANGED found
       ELSE \E e \in Nearest(Upcoming(From(h))) : found' = [found EXCEPT ![h] = e]
  /\ UNCHANGED <<now, status, recipients, claimed, log, changedBy, known, result,
                 crashes, errors>>

\* What is answered without touching an event, or "none" when one is updated: from
\* what the call found, whoever has become a recipient since.
Outcome(h) ==
  CASE h \notin known -> "no_recipient"
    [] h \in known /\ found[h] = None -> "no_upcoming_event"
    [] found[h] # None /\ Reads(h) = "unrecognized" -> "unrecognized"
    [] OTHER -> "none"

\* The message is logged before it is interpreted.
Log(h) ==
  /\ IF Outcome(h) = "none"
       THEN Goto(h, "log", "update") /\ UNCHANGED result
       ELSE Goto(h, "log", "end") /\ Answer(h, Outcome(h))
  /\ log' = log \cup {[by |-> h, event |-> found[h]]}
  /\ UNCHANGED <<now, status, recipients, claimed, changedBy, known, found, crashes, errors>>

\* The update names the event only: whatever its status is by now.
Update(h) ==
  /\ Goto(h, "update", "end")
  /\ status' = [status EXCEPT ![found[h]] = Reads(h)]
  /\ changedBy' = [changedBy EXCEPT ![found[h]] = @ \cup {MessageOf[h]}]
  /\ Answer(h, "updated")
  /\ UNCHANGED <<now, recipients, claimed, log, known, found, crashes, errors>>

\* A statement throws: 500, and the provider may deliver the message again.
Fails(h) ==
  /\ errors < MaxErrors
  /\ pc[h] # "end"
  /\ Goto(h, pc[h], "end")
  /\ Answer(h, "500")
  /\ errors' = errors + 1
  /\ UNCHANGED <<now, status, recipients, claimed, log, changedBy, known, found, crashes>>

Crash ==
  /\ crashes < MaxCrashes
  /\ crashes' = crashes + 1
  /\ pc' = [h \in Hooks |-> IF pc[h] = "new" THEN "new" ELSE "end"]
  /\ UNCHANGED <<now, status, recipients, claimed, log, changedBy, known, found, result, errors>>

Handle(h) == Claim(h) \/ FindRecipient(h) \/ FindEvent(h) \/ Log(h) \/ Update(h)

Next ==
  \/ Tick \/ Crash
  \/ \E e \in Events : Book(e)
  \/ \E h \in Hooks : Handle(h) \/ Fails(h)

Spec == Init /\ [][Next]_vars

-----------------------------------------------------------------------------

\* However often the provider delivers a message, it is logged once and
\* changes at most one event.
OncePerMessage ==
  \A m \in Messages :
    /\ Cardinality({l \in log : MessageOf[l.by] = m}) <= 1
    /\ Cardinality({e \in Events : m \in changedBy[e]}) <= 1

\* An appointment is confirmed or cancelled only by a message of its customer
\* that reads so and that the log links to it, written before the change.
ChangesAreAccountedFor ==
  \A e \in Events : status[e] \in {"CONFIRMED", "CANCELLED"} =>
    \E l \in log : /\ l.event = e /\ MessageOf[l.by] \in changedBy[e]
                   /\ From(l.by) = Owner[e] /\ Reads(l.by) = status[e]

-----------------------------------------------------------------------------
(* What comments and documents say and the code does not keep.             *)

\* "At-least-once like everything else ... so we dedupe": a call answered
\* duplicate carries a message that some other call logged or is handling.
DuplicateMeansHandled ==
  \A h \in Hooks : result[h] = "duplicate" =>
    \E g \in Hooks \ {h} :
      /\ MessageOf[g] = MessageOf[h]
      /\ pc[g] \in {"recipient", "event", "log", "update"} \/ \E l \in log : l.by = g

\* "a cancel stops its pending reminders": an event that was cancelled is not
\* confirmed again, by any reply.
CancelSticks ==
  [][\A e \in Events : status[e] = "CANCELLED" => status'[e] = "CANCELLED"]_vars
=============================================================================
