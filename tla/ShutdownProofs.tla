--------------------------- MODULE ShutdownProofs ---------------------------
(***************************************************************************)
(* Theorems about Shutdown, for any number of requests, jobs, signals and  *)
(* errors.  The argument: every shutdown call closes the same resources in *)
(* the same order, so that however many overlap, what is closed is a       *)
(* prefix of that order, and what was drained stays empty.                 *)
(***************************************************************************)
EXTENDS Shutdown, FiniteSetTheorems, TLAPS

\* What is closed is a prefix of the order of the awaits.
ClosedInOrder ==
  /\ "worker" \in closed => "app" \in closed
  /\ "queue" \in closed => "worker" \in closed
  /\ "redis" \in closed => "queue" \in closed
  /\ "db" \in closed => "redis" \in closed

\* A call has begun to close what it waits for.
CallsClosing == \A s \in Signals : stage[s] \in Resources => stage[s] \in closing

\* A call has closed all that comes before the await it is at.
CallsInOrder ==
  proc \in {"up", "exit0", "exit1"} => \A s \in Signals :
    /\ stage[s] = "worker" => "app" \in closed
    /\ stage[s] = "queue" => "worker" \in closed
    /\ stage[s] = "redis" => "queue" \in closed
    /\ stage[s] = "db" => "redis" \in closed
    /\ stage[s] = "end" => "db" \in closed

\* What was drained takes nothing new.
DrainedStays ==
  /\ "app" \in closed => inflight = {}
  /\ "worker" \in closed => active = {}

\* There are no calls before the handlers are registered.
NoCallsYet == proc \in {"boot", "listening"} => \A s \in Signals : stage[s] = "none"

\* A call that got beyond Redis closed it.
SomebodyQuit == "redis" \in closed => \E s \in Signals : stage[s] \in {"db", "end"}

Called == {s \in Signals : stage[s] # "none"}

\* There are finitely many calls, and an exit with code 1 but for an error took two.
CallsCounted ==
  /\ IsFiniteSet(Called)
  /\ proc = "exit1" /\ errors = 0 => \E s, p \in Called : s # p

Inv ==
  /\ TypeOK /\ CallsClosing /\ ClosedInOrder /\ CallsInOrder /\ DrainedStays /\ NoCallsYet
  /\ SomebodyQuit /\ CallsCounted /\ CleanExit

-----------------------------------------------------------------------------

\* Nothing is closed at the start.
LEMMA ShutdownInit == Init => Inv
<1> SUFFICES ASSUME Init PROVE Inv
  OBVIOUS
<1>1. Called = {}
  BY DEF Init, Called
<1>2. CallsCounted
  BY <1>1, FS_EmptySet DEF Init, CallsCounted
<1> QED
  BY <1>2 DEF Init, Inv, TypeOK, CallsClosing, ClosedInOrder, CallsInOrder, DrainedStays, NoCallsYet,
              SomebodyQuit, CleanExit, Resources

\* A step of the calls, one after the other.
LEMMA CloseStep == ASSUME Inv, NEW s \in Signals, Close(s) PROVE Inv'
<1> DEFINE r == stage[s]
<1>1. /\ proc = "up" /\ proc' = "up" /\ r \in Resources /\ Drained(r) /\ ~Refused(r)
      /\ closed' = closed \cup {r} /\ closing' = closing \cup ({Following[r]} \ {"end"})
      /\ stage' = [stage EXCEPT ![s] = Following[r]]
      /\ UNCHANGED <<inflight, active, handlers, served, ran, errors>>
  BY DEF Close
<1>2. /\ r = "app" => Following[r] = "worker"
      /\ r = "worker" => Following[r] = "queue"
      /\ r = "queue" => Following[r] = "redis"
      /\ r = "redis" => Following[r] = "db"
      /\ r = "db" => Following[r] = "end"
  BY <1>1 DEF Following, Resources
<1>3. r \in {"app", "worker", "queue", "redis", "db"}
  BY <1>1 DEF Resources
<1>4. r = stage[s] /\ r # "none"
  BY <1>3
<1> HIDE DEF r
<1>5. \A p \in Signals : stage'[p] = IF p = s THEN Following[r] ELSE stage[p]
  BY <1>1 DEF Inv, TypeOK
<1>6. Following[r] \in {"worker", "queue", "redis", "db", "end"}
  BY <1>2, <1>3
<1>7. TypeOK'
  <2>1. stage' \in [Signals -> {"none", "end"} \cup Resources]
    BY <1>1, <1>6 DEF Inv, TypeOK, Resources
  <2>2. closed' \subseteq closing' /\ closing' \subseteq Resources
    <3>1. r \in closing
      BY <1>1, <1>4 DEF Inv, CallsClosing
    <3> QED
      BY <1>1, <1>6, <3>1 DEF Inv, TypeOK, Resources
  <2> QED
    BY <1>1, <2>1, <2>2 DEF Inv, TypeOK
<1>8. CallsClosing'
  BY <1>1, <1>5, <1>6 DEF Inv, CallsClosing, Resources
<1>9. ClosedInOrder' /\ CallsInOrder'
  BY <1>1, <1>2, <1>3, <1>4, <1>5 DEF Inv, ClosedInOrder, CallsInOrder
<1>10. DrainedStays'
  BY <1>1, <1>3 DEF Inv, DrainedStays, Drained
<1>11. NoCallsYet' /\ CleanExit'
  BY <1>1 DEF NoCallsYet, CleanExit
<1>12. SomebodyQuit'
  BY <1>1, <1>2, <1>3, <1>4, <1>5 DEF Inv, SomebodyQuit
<1>13. CallsCounted'
  <2>1. Called' = Called
    BY <1>4, <1>5, <1>6 DEF Called
  <2> QED
    BY <1>1, <2>1 DEF Inv, CallsCounted
<1> QED
  BY <1>7, <1>8, <1>9, <1>10, <1>11, <1>12, <1>13 DEF Inv

\* A new signal, before or after there are handlers.
LEMMA SignalStep == ASSUME Inv, NEW s \in Signals, Signal(s) PROVE Inv'
<1>1. CallsCounted'
  <2>1. Called' = Called \cup {s}
    BY DEF Signal, Called, Inv, TypeOK
  <2>2. IsFiniteSet(Called')
    BY <2>1, FS_AddElement DEF Inv, CallsCounted
  <2> QED
    BY <2>2 DEF Signal, CallsCounted
<1>2. TypeOK' /\ CallsClosing'
  BY DEF Signal, Inv, TypeOK, CallsClosing, Resources
<1>3. ClosedInOrder' /\ CallsInOrder' /\ DrainedStays' /\ NoCallsYet' /\ CleanExit'
  BY DEF Signal, Inv, TypeOK, ClosedInOrder, CallsInOrder, DrainedStays, NoCallsYet, CleanExit
<1>4. SomebodyQuit'
  BY DEF Signal, Inv, TypeOK, SomebodyQuit
<1> QED
  BY <1>1, <1>2, <1>3, <1>4 DEF Inv

\* A call that throws: of its own only where Redis was quit by another call.
LEMMA FailStep == ASSUME Inv, NEW s \in Signals, CloseFails(s) PROVE Inv'
<1>1. TypeOK'
  BY ShutdownAssumption DEF CloseFails, Inv, TypeOK
<1>2. CallsCounted'
  <2>1. Called' = Called /\ s \in Called
    BY DEF CloseFails, Called, Resources
  <2>2. CASE errors < MaxErrors /\ errors' = errors + 1
    BY <2>1, <2>2 DEF Inv, TypeOK, CallsCounted
  <2>3. CASE Refused(stage[s])
    BY <2>1, <2>3 DEF Refused, Inv, SomebodyQuit, CallsCounted, Called
  <2> QED
    BY <2>1, <2>2, <2>3 DEF CloseFails
<1> QED
  BY <1>1, <1>2 DEF CloseFails, Inv, CallsClosing, ClosedInOrder, CallsInOrder, DrainedStays,
                    NoCallsYet, SomebodyQuit, CleanExit

\* The invariant is inductive; the cases are the actions of Next.
LEMMA ShutdownStep == Inv /\ [Next]_vars => Inv'
<1> SUFFICES ASSUME Inv, [Next]_vars PROVE Inv'
  OBVIOUS
<1> USE DEF Inv, TypeOK, CallsClosing, ClosedInOrder, CallsInOrder, DrainedStays, NoCallsYet,
            SomebodyQuit, CleanExit, CallsCounted, Called
<1>1. CASE Listen
  BY <1>1, ShutdownAssumption DEF Listen
<1>2. CASE StartWorker
  BY <1>2 DEF StartWorker
<1>3. ASSUME NEW q \in Requests, Arrive(q) \/ Answer(q) PROVE Inv'
  BY <1>3 DEF Arrive, Answer, Running
<1>4. ASSUME NEW j \in Jobs, Take(j) \/ Complete(j) \/ Fail(j) \/ Handled(j) PROVE Inv'
  BY <1>4 DEF Take, Complete, Fail, Handled
<1>5. ASSUME NEW s \in Signals, Exit(s) PROVE Inv'
  BY <1>5 DEF Exit, Resources
<1>6. CASE UNCHANGED vars
  BY <1>6 DEF vars
<1> QED
  BY <1>1, <1>2, <1>3, <1>4, <1>5, <1>6, CloseStep, SignalStep, FailStep DEF Next

\* Every reachable state keeps the invariant.
THEOREM ShutdownInvariant == Spec => []Inv
<1>1. Init => Inv
  BY ShutdownInit
<1>2. Inv /\ [Next]_vars => Inv'
  BY ShutdownStep
<1> QED
  BY <1>1, <1>2, PTL DEF Spec

\* Every variable keeps its type.
THEOREM ShutdownTypeCorrect == Spec => []TypeOK
<1>1. Inv => TypeOK
  BY DEF Inv
<1> QED
  BY <1>1, ShutdownInvariant, PTL

\* However many shutdown calls overlap, the queue, Redis and the database stay
\* open while a request or a job that uses them is under way.
THEOREM UsersGoFirst == Spec => []UsersFirst
<1>1. Inv => UsersFirst
  BY DEF Inv, TypeOK, ClosedInOrder, DrainedStays, UsersFirst
<1> QED
  BY <1>1, ShutdownInvariant, PTL

\* Code 0 means that everything was closed and nothing was left half done.
THEOREM ExitsClean == Spec => []CleanExit
<1>1. Inv => CleanExit
  BY DEF Inv
<1> QED
  BY <1>1, ShutdownInvariant, PTL

\* Without an error code 1 takes two signals.
THEOREM OneSignalSuffices == Spec => []OneSignalExitsZero
<1>1. Inv => OneSignalExitsZero
  <2> SUFFICES ASSUME Inv, proc = "exit1", errors = 0 PROVE Cardinality(Called) > 1
    BY DEF OneSignalExitsZero, Called
  <2>1. PICK s, p \in Called : s # p
    BY DEF Inv, CallsCounted
  <2>2. IsFiniteSet(Called) /\ IsFiniteSet({p} \cup {s}) /\ Cardinality({p} \cup {s}) = 2
    <3>1. IsFiniteSet({p}) /\ Cardinality({p}) = 1 /\ s \notin {p}
      BY <2>1, FS_Singleton
    <3>2. IsFiniteSet({p} \cup {s}) /\ Cardinality({p} \cup {s}) = 1 + 1
      BY <3>1, FS_AddElement
    <3> QED
      BY <3>2 DEF Inv, CallsCounted
  <2>3. Cardinality({p} \cup {s}) <= Cardinality(Called)
    BY <2>1, <2>2, FS_Subset
  <2>4. Cardinality(Called) \in Nat
    BY <2>2, FS_CardinalityType
  <2> QED
    BY <2>2, <2>3, <2>4
<1> QED
  BY <1>1, ShutdownInvariant, PTL
=============================================================================
