------------------------------ MODULE Booking -------------------------------
(***************************************************************************)
(* POST /v1/events under an optional Idempotency-Key.  Requests carrying   *)
(* the same key are a client's retries: they may overlap, and the process  *)
(* may die between any two of their statements.  One tenant: keys are      *)
(* unique per tenant and no statement crosses tenants.                     *)
(***************************************************************************)
EXTENDS Integers, FiniteSets

CONSTANTS
  Requests,    \* the HTTP requests that arrive, retries included
  Keys,        \* Idempotency-Key values
  KeyOf,       \* the key of each request, or None
  None,
  MaxCrashes, MaxErrors

ASSUME BookingAssumption ==
  /\ None \notin Keys \cup Requests
  /\ KeyOf \in [Requests -> Keys \cup {None}]
  /\ MaxCrashes \in Nat /\ MaxErrors \in Nat

VARIABLES
  pc,        \* the await each request is at
  booked,    \* requests whose transaction committed; each makes its own event
  reminders, \* what the enqueue loop left of the rows of each event
  reserved,  \* keys with an API_REQUEST row
  response,  \* the stored response of each key: the event it names, or None
  answer,    \* the HTTP answer each request got
  crashes, errors

vars == <<pc, booked, reminders, reserved, response, answer, crashes, errors>>

\* A 201 body names the event and the states of its reminders.
Body == [event : Requests, reminders : {"SCHEDULED", "PENDING"}]
BodyOf(q) == [event |-> q, reminders |-> reminders[q]]

ASSUME NoBodyAssumption == None \notin Body

\* Code 0: not answered; -1: the connection died with the process.
Answers == [code : {0, -1, 201, 409, 422, 500}, body : Body \cup {None}]
Answer(c, b) == [code |-> c, body |-> b]

TypeOK ==
  /\ pc \in [Requests -> {"new", "lookup", "create", "enqueue", "complete", "end"}]
  /\ booked \subseteq Requests
  /\ reminders \in [Requests -> {"PENDING", "SCHEDULED"}]
  /\ reserved \subseteq Keys
  /\ response \in [Keys -> Body \cup {None}]
  /\ answer \in [Requests -> Answers]
  /\ crashes \in Nat /\ errors \in Nat

Init ==
  /\ pc = [q \in Requests |-> "new"]
  /\ booked = {}
  /\ reminders = [q \in Requests |-> "PENDING"]
  /\ reserved = {}
  /\ response = [k \in Keys |-> None]
  /\ answer = [q \in Requests |-> Answer(0, None)]
  /\ crashes = 0 /\ errors = 0

Goto(q, from, to) == pc[q] = from /\ pc' = [pc EXCEPT ![q] = to]
Reply(q, c, b) == answer' = [answer EXCEPT ![q] = Answer(c, b)]

\* Without a key there is nothing to reserve.
StartUnkeyed(q) ==
  /\ KeyOf[q] = None
  /\ Goto(q, "new", "create")
  /\ UNCHANGED <<booked, reminders, reserved, response, answer, crashes, errors>>

\* Mutant: the key column is not unique.
AlwaysFree(k) == TRUE

Free(k) == k \notin reserved

\* The insert of the row either succeeds or hits the unique constraint.
Reserve(q) ==
  /\ KeyOf[q] # None
  /\ Goto(q, "new", IF Free(KeyOf[q]) THEN "create" ELSE "lookup")
  /\ reserved' = reserved \cup {KeyOf[q]}
  /\ UNCHANGED <<booked, reminders, response, answer, crashes, errors>>

\* Mutant: a retry gets an answer of its own instead of the stored one.
FreshAnswer(q) == [event |-> q, reminders |-> "SCHEDULED"]

\* The stored response of the key's first request, if it is there.
Stored(q) == response[KeyOf[q]]

Lookup(q) ==
  /\ Goto(q, "lookup", "end")
  /\ IF response[KeyOf[q]] # None THEN Reply(q, 201, Stored(q)) ELSE Reply(q, 409, None)
  /\ UNCHANGED <<booked, reminders, reserved, response, crashes, errors>>

\* createEvent refuses a start that is malformed or past.  A reserved key
\* stays reserved.
Reject(q) ==
  /\ Goto(q, "create", "end")
  /\ Reply(q, 422, None)
  /\ UNCHANGED <<booked, reminders, reserved, response, crashes, errors>>

Commit(q) ==
  /\ Goto(q, "create", "enqueue")
  /\ booked' = booked \cup {q}
  /\ UNCHANGED <<reminders, reserved, response, answer, crashes, errors>>

\* The enqueue loop finishes, or throws and leaves rows PENDING: the request
\* goes on either way, to the stored response or straight to the answer.
Enqueued(q, s) ==
  /\ s = "PENDING" => errors < MaxErrors
  /\ errors' = IF s = "PENDING" THEN errors + 1 ELSE errors
  /\ reminders' = [reminders EXCEPT ![q] = s]
  /\ IF KeyOf[q] # None
       THEN Goto(q, "enqueue", "complete") /\ UNCHANGED answer
       ELSE Goto(q, "enqueue", "end") /\ Reply(q, 201, [event |-> q, reminders |-> s])
  /\ UNCHANGED <<booked, reserved, response, crashes>>

\* Mutant: the response is not stored.
CompleteUnstored(q) ==
  /\ Goto(q, "complete", "end")
  /\ Reply(q, 201, BodyOf(q))
  /\ UNCHANGED <<booked, reminders, reserved, response, crashes, errors>>

Complete(q) ==
  /\ Goto(q, "complete", "end")
  /\ response' = [response EXCEPT ![KeyOf[q]] = BodyOf(q)]
  /\ Reply(q, 201, BodyOf(q))
  /\ UNCHANGED <<booked, reminders, reserved, crashes, errors>>

\* A statement throws: the error handler answers 500.
Fails(q) ==
  /\ errors < MaxErrors
  /\ pc[q] \in {"new", "lookup", "create", "complete"}
  /\ Goto(q, pc[q], "end")
  /\ Reply(q, 500, None)
  /\ errors' = errors + 1
  /\ UNCHANGED <<booked, reminders, reserved, response, crashes>>

InFlight(q) == pc[q] \notin {"new", "end"}

\* Requests in flight get no answer; the rows stay.
Crash ==
  /\ crashes < MaxCrashes
  /\ crashes' = crashes + 1
  /\ pc' = [q \in Requests |-> IF InFlight(q) THEN "end" ELSE pc[q]]
  /\ answer' = [q \in Requests |-> IF InFlight(q) THEN Answer(-1, None) ELSE answer[q]]
  /\ UNCHANGED <<booked, reminders, reserved, response, errors>>

Handle(q) ==
  \/ StartUnkeyed(q) \/ Reserve(q) \/ Lookup(q) \/ Reject(q) \/ Commit(q)
  \/ \E s \in {"SCHEDULED", "PENDING"} : Enqueued(q, s)
  \/ Complete(q)

Next == Crash \/ \E q \in Requests : Handle(q) \/ Fails(q)

Spec == Init /\ [][Next]_vars

-----------------------------------------------------------------------------

\* Requests that carry one and the same key.
SameKey(p, q) == KeyOf[p] = KeyOf[q] /\ KeyOf[p] # None

\* Retries with one key make at most one event between them, whatever overlaps
\* and whatever dies half way.
OneBookingPerKey == \A p, q \in booked : SameKey(p, q) => p = q

\* All 201 answers to one key are the same answer, and name a booked event.
AnswersAgree ==
  \A p, q \in Requests :
    SameKey(p, q) /\ answer[p].code = 201 /\ answer[q].code = 201
      => answer[p] = answer[q] /\ answer[p].body.event \in booked

\* Once a key has answered 201, no later request with it is turned away or
\* rejected: only a failure of its own can deny it the stored response.
AnsweredStaysAnswered ==
  [][\A p, q \in Requests :
       SameKey(p, q) /\ answer[p].code = 201 /\ answer'[q] # answer[q]
         => answer'[q].code \in {201, 500, -1}]_vars

\* "First request is still in flight": a request is answered 409 only while
\* another with its key is being handled, or once one has failed, been refused
\* or died and left the key reserved for good.
ConflictHasCause ==
  [][\A q \in Requests : answer'[q].code = 409 /\ answer[q].code = 0 =>
       \E p \in Requests \ {q} : /\ SameKey(p, q)
                                 /\ InFlight(p) \/ answer[p].code \in {422, 500, -1}]_vars
=============================================================================
