--------------------------- MODULE BookingProofs ----------------------------
(***************************************************************************)
(* Theorems about Booking, for any number of requests, keys, crashes and   *)
(* errors.  The argument: of the requests with a key at most one gets past *)
(* the unique constraint, and only that one books and stores a response.   *)
(***************************************************************************)
EXTENDS Booking, TLAPS

\* A request got past the unique constraint of its key.
Past(q) == pc[q] \in {"create", "enqueue", "complete"} \/ q \in booked

\* It holds the key, alone.
HoldersReserve == \A q \in Requests : KeyOf[q] # None /\ Past(q) => KeyOf[q] \in reserved
OneHolder == \A p, q \in Requests : SameKey(p, q) /\ Past(p) /\ Past(q) => p = q

\* Those that look a response up have a key that was taken; those that enqueue
\* or complete have booked.
LookersHaveKeys ==
  \A q \in Requests : pc[q] = "lookup" => KeyOf[q] # None /\ KeyOf[q] \in reserved
EnqueuersBooked == \A q \in Requests : pc[q] \in {"enqueue", "complete"} => q \in booked

\* Only a request with a key stores a response.
CompleteHasKey == \A q \in Requests : pc[q] = "complete" => KeyOf[q] # None

\* A stored response is that of the request that holds the key, which has ended.
StoredByHolder ==
  \A k \in Keys : response[k] # None =>
    LET q == response[k].event IN q \in booked /\ KeyOf[q] = k /\ pc[q] = "end"

\* A 201 to a key is its stored response.
AnsweredFromStore ==
  \A q \in Requests : KeyOf[q] # None /\ answer[q].code = 201 =>
    response[KeyOf[q]] # None /\ answer[q].body = response[KeyOf[q]]

\* A key without a response is being worked on, or its request came to grief.
KeysHaveCauses ==
  \A k \in reserved : response[k] = None =>
    \E p \in Requests :
      /\ KeyOf[p] = k
      /\ \/ pc[p] \in {"create", "enqueue", "complete"}
         \/ pc[p] = "end" /\ answer[p].code \in {422, 500, -1}

BInv ==
  /\ TypeOK
  /\ HoldersReserve /\ OneHolder /\ LookersHaveKeys /\ EnqueuersBooked /\ CompleteHasKey
  /\ StoredByHolder /\ AnsweredFromStore /\ KeysHaveCauses

-----------------------------------------------------------------------------

\* Nothing is reserved, booked or answered at first.
LEMMA BookingInit == Init => BInv
BY BookingAssumption DEF Init, BInv, TypeOK, Answers, Answer, Body, HoldersReserve, OneHolder,
   Past, LookersHaveKeys, EnqueuersBooked, CompleteHasKey, StoredByHolder, AnsweredFromStore,
   KeysHaveCauses, SameKey

\* A step keeps the types.
LEMMA BookingTypes ==
  TypeOK /\ LookersHaveKeys /\ CompleteHasKey /\ [Next]_vars => TypeOK'
<1> SUFFICES ASSUME TypeOK, LookersHaveKeys, CompleteHasKey, [Next]_vars PROVE TypeOK'
  OBVIOUS
<1> USE BookingAssumption DEF LookersHaveKeys, CompleteHasKey, TypeOK, Answers, Answer, Body, BodyOf, Goto, Reply
<1>1. ASSUME Crash PROVE TypeOK'
  BY <1>1 DEF Crash
<1>2. ASSUME NEW q \in Requests, Handle(q) PROVE TypeOK'
  <2>1. CASE StartUnkeyed(q)
    BY <2>1 DEF StartUnkeyed
  <2>2. CASE Reserve(q)
    BY <2>2 DEF Reserve, Free
  <2>3. CASE Lookup(q)
    <3>1. pc[q] = "lookup" /\ pc' = [pc EXCEPT ![q] = "end"]
      BY <2>3 DEF Lookup
    <3>2. CASE response[KeyOf[q]] # None
      BY <2>3, <3>2 DEF Lookup, Stored
    <3>3. CASE response[KeyOf[q]] = None
      BY <2>3, <3>3 DEF Lookup
    <3> QED
      BY <3>2, <3>3
  <2>4. CASE Reject(q)
    BY <2>4 DEF Reject
  <2>5. CASE Commit(q)
    BY <2>5 DEF Commit
  <2>6. ASSUME NEW s \in {"SCHEDULED", "PENDING"}, Enqueued(q, s) PROVE TypeOK'
    BY <2>6 DEF Enqueued
  <2>7. CASE Complete(q)
    BY <2>7 DEF Complete
  <2> QED
    BY <1>2, <2>1, <2>2, <2>3, <2>4, <2>5, <2>6, <2>7 DEF Handle
<1>3. ASSUME NEW q \in Requests, Fails(q) PROVE TypeOK'
  BY <1>3 DEF Fails
<1>4. CASE UNCHANGED vars
  BY <1>4 DEF vars
<1> QED
  BY <1>1, <1>2, <1>3, <1>4 DEF Next

\* A step keeps who holds what; the cases are the actions of Next.
LEMMA BookingStep == BInv /\ [Next]_vars => BInv'
<1> SUFFICES ASSUME BInv, [Next]_vars PROVE BInv'
  OBVIOUS
<1>t. TypeOK'
  BY BookingTypes DEF BInv
<1> DEFINE Rest == /\ HoldersReserve /\ OneHolder /\ LookersHaveKeys /\ EnqueuersBooked
                   /\ CompleteHasKey /\ StoredByHolder /\ AnsweredFromStore /\ KeysHaveCauses
<1> SUFFICES Rest'
  BY <1>t DEF BInv
<1> USE BookingAssumption DEF BInv, TypeOK, HoldersReserve, OneHolder, Past, SameKey,
      LookersHaveKeys, EnqueuersBooked, CompleteHasKey, StoredByHolder, AnsweredFromStore,
      KeysHaveCauses, Answers, Answer, Body, BodyOf, Goto, Reply
<1>1. ASSUME Crash PROVE Rest'
  BY <1>1 DEF Crash, InFlight
<1>2. ASSUME NEW q \in Requests, Handle(q) PROVE Rest'
  <2>1. CASE StartUnkeyed(q)
    BY <2>1 DEF StartUnkeyed
  <2>2. CASE Reserve(q)
    BY <2>2 DEF Reserve, Free
  <2>3. CASE Lookup(q)
    BY <2>3 DEF Lookup, Stored
  <2>4. CASE Reject(q)
    BY <2>4 DEF Reject
  <2>5. CASE Commit(q)
    BY <2>5 DEF Commit
  <2>6. ASSUME NEW s \in {"SCHEDULED", "PENDING"}, Enqueued(q, s) PROVE Rest'
    <3>1. \A p \in Requests : Past(p)' <=> Past(p)
      BY <2>6 DEF Enqueued
    <3>2. (HoldersReserve /\ OneHolder /\ LookersHaveKeys /\ EnqueuersBooked)'
      BY <2>6, <3>1 DEF Enqueued
    <3>3. (CompleteHasKey /\ StoredByHolder)'
      BY <2>6 DEF Enqueued
    <3>4. AnsweredFromStore'
      BY <2>6 DEF Enqueued
    <3>5. KeysHaveCauses'
      BY <2>6 DEF Enqueued
    <3> QED
      BY <3>2, <3>3, <3>4, <3>5
  <2>7. CASE Complete(q)
    <3>1. \A p \in Requests : Past(p)' <=> Past(p)
      BY <2>7 DEF Complete
    <3>2. (HoldersReserve /\ OneHolder /\ LookersHaveKeys /\ EnqueuersBooked /\ CompleteHasKey)'
      BY <2>7, <3>1 DEF Complete
    <3>3. response[KeyOf[q]] = None
      BY <2>7 DEF Complete
    <3>4. /\ KeyOf[q] \in Keys /\ BodyOf(q).event = q /\ BodyOf(q) # None
          /\ response' = [response EXCEPT ![KeyOf[q]] = BodyOf(q)]
          /\ answer' = [answer EXCEPT ![q] = Answer(201, BodyOf(q))]
          /\ q \in booked /\ pc' = [pc EXCEPT ![q] = "end"] /\ booked' = booked
      BY <2>7, NoBodyAssumption DEF Complete
    <3> HIDE DEF BodyOf
    <3>5. StoredByHolder'
      BY <3>4
    <3>6. AnsweredFromStore'
      BY <3>3, <3>4
    <3>7. KeysHaveCauses'
      BY <2>7, <3>4 DEF Complete
    <3> QED
      BY <3>2, <3>5, <3>6, <3>7
  <2> QED
    BY <1>2, <2>1, <2>2, <2>3, <2>4, <2>5, <2>6, <2>7 DEF Handle
<1>3. ASSUME NEW q \in Requests, Fails(q) PROVE Rest'
  BY <1>3 DEF Fails
<1>4. CASE UNCHANGED vars
  BY <1>4 DEF vars
<1> QED
  BY <1>1, <1>2, <1>3, <1>4 DEF Next

\* Every reachable state keeps the invariant.
THEOREM BookingInvariant == Spec => []BInv
<1>1. Init => BInv
  BY BookingInit
<1>2. BInv /\ [Next]_vars => BInv'
  BY BookingStep
<1> QED
  BY <1>1, <1>2, PTL DEF Spec

\* Every variable keeps its type.
THEOREM BookingTypeCorrect == Spec => []TypeOK
<1>1. BInv => TypeOK
  BY DEF BInv
<1> QED
  BY <1>1, BookingInvariant, PTL

-----------------------------------------------------------------------------

\* Retries with one key make at most one event between them: eventController's
\* reserve lets one of them pass.
THEOREM BookedOnce == Spec => []OneBookingPerKey
<1>1. BInv => OneBookingPerKey
  BY DEF BInv, TypeOK, OneHolder, Past, OneBookingPerKey
<1> QED
  BY <1>1, BookingInvariant, PTL

\* All 201 answers to one key are the same answer, and name a booked event.
THEOREM SameAnswers == Spec => []AnswersAgree
<1>1. BInv => AnswersAgree
  <2> SUFFICES ASSUME BInv, NEW p \in Requests, NEW q \in Requests, SameKey(p, q),
                      answer[p].code = 201, answer[q].code = 201
               PROVE  answer[p] = answer[q] /\ answer[p].body.event \in booked
    BY DEF AnswersAgree
  <2>1. KeyOf[p] \in Keys /\ KeyOf[q] = KeyOf[p]
    BY BookingAssumption DEF SameKey
  <2>2. answer[p] \in Answers /\ answer[q] \in Answers
    BY DEF BInv, TypeOK
  <2>3. /\ answer[p].body = response[KeyOf[p]] /\ answer[q].body = answer[p].body
        /\ response[KeyOf[p]] # None
    BY <2>1 DEF BInv, AnsweredFromStore, SameKey
  <2>4. response[KeyOf[p]].event \in booked
    BY <2>1, <2>3 DEF BInv, StoredByHolder
  <2>5. answer[p] = answer[q]
    BY <2>2, <2>3 DEF Answers
  <2> QED
    BY <2>3, <2>4, <2>5
<1> QED
  BY <1>1, BookingInvariant, PTL

\* A 409 has a cause: another request with the key in flight, or one that came
\* to grief and left the key reserved.
THEOREM ConflictsHaveCauses == Spec => ConflictHasCause
<1>1. ASSUME BInv, [Next]_vars, NEW q \in Requests, answer'[q].code = 409, answer[q].code = 0
      PROVE  \E p \in Requests \ {q} :
               /\ SameKey(p, q)
               /\ InFlight(p) \/ answer[p].code \in {422, 500, -1}
  <2>1. pc[q] = "lookup" /\ response[KeyOf[q]] = None
    <3> USE <1>1 DEF BInv, TypeOK, Answers, Answer, Reply
    <3>1. CASE Crash
      BY <3>1 DEF Crash
    <3>2. ASSUME NEW r \in Requests, Handle(r) PROVE pc[q] = "lookup" /\ response[KeyOf[q]] = None
      BY <3>2 DEF Handle, StartUnkeyed, Reserve, Lookup, Reject, Commit, Enqueued, Complete, Goto
    <3>3. ASSUME NEW r \in Requests, Fails(r) PROVE pc[q] = "lookup" /\ response[KeyOf[q]] = None
      BY <3>3 DEF Fails
    <3>4. CASE UNCHANGED vars
      BY <3>4 DEF vars
    <3> QED
      BY <3>1, <3>2, <3>3, <3>4 DEF Next
  <2>2. KeyOf[q] \in reserved /\ KeyOf[q] # None
    BY <1>1, <2>1 DEF BInv, LookersHaveKeys
  <2>3. PICK p \in Requests :
          /\ KeyOf[p] = KeyOf[q]
          /\ \/ pc[p] \in {"create", "enqueue", "complete"}
             \/ pc[p] = "end" /\ answer[p].code \in {422, 500, -1}
    BY <1>1, <2>1, <2>2 DEF BInv, KeysHaveCauses
  <2>4. p # q /\ SameKey(p, q) /\ (InFlight(p) \/ answer[p].code \in {422, 500, -1})
    BY <2>1, <2>2, <2>3 DEF SameKey, InFlight
  <2> QED
    BY <2>4
<1>2. BInv /\ [Next]_vars =>
        [\A q \in Requests : answer'[q].code = 409 /\ answer[q].code = 0 =>
           \E p \in Requests \ {q} : /\ SameKey(p, q)
                                     /\ InFlight(p) \/ answer[p].code \in {422, 500, -1}]_vars
  BY <1>1
<1> QED
  BY <1>2, BookingInvariant, PTL DEF ConflictHasCause, Spec

\* Once a key has answered 201, no later request with it is turned away.
THEOREM AnswersStay == Spec => AnsweredStaysAnswered
<1>1. ASSUME BInv, [Next]_vars, NEW p \in Requests, NEW q \in Requests, SameKey(p, q),
             answer[p].code = 201, answer'[q] # answer[q]
      PROVE  answer'[q].code \in {201, 500, -1}
  <2>1. KeyOf[p] \in Keys /\ KeyOf[q] = KeyOf[p] /\ response[KeyOf[q]] # None
    BY <1>1, BookingAssumption DEF SameKey, BInv, AnsweredFromStore
  <2>2. pc[q] # "create"
    <3>1. LET h == response[KeyOf[q]].event IN h \in booked /\ KeyOf[h] = KeyOf[q] /\ pc[h] = "end"
      BY <1>1, <2>1 DEF BInv, StoredByHolder
    <3> QED
      BY <1>1, <2>1, <3>1 DEF BInv, OneHolder, Past, SameKey, TypeOK
  <2> USE <1>1 DEF BInv, TypeOK, Answers, Answer, Reply
  <2>3. CASE Crash
    BY <2>3 DEF Crash
  <2>4. ASSUME NEW r \in Requests, Handle(r) PROVE answer'[q].code \in {201, 500, -1}
    BY <2>1, <2>2, <2>4
       DEF Handle, StartUnkeyed, Reserve, Lookup, Reject, Commit, Enqueued, Complete, Goto
  <2>5. ASSUME NEW r \in Requests, Fails(r) PROVE answer'[q].code \in {201, 500, -1}
    BY <2>5 DEF Fails
  <2>6. CASE UNCHANGED vars
    BY <2>6 DEF vars
  <2> QED
    BY <2>3, <2>4, <2>5, <2>6 DEF Next
<1>2. BInv /\ [Next]_vars =>
        [\A p, q \in Requests :
           SameKey(p, q) /\ answer[p].code = 201 /\ answer'[q] # answer[q]
             => answer'[q].code \in {201, 500, -1}]_vars
  BY <1>1
<1> QED
  BY <1>2, BookingInvariant, PTL DEF AnsweredStaysAnswered, Spec
=============================================================================
