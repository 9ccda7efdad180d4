--------------------------- MODULE InboundProofs ----------------------------
(***************************************************************************)
(* Theorems about Inbound, for any number of webhook calls, messages,      *)
(* customers and events.  The argument: of the calls that carry a message  *)
(* at most one gets past the claim, that one logs it once, and what it     *)
(* changes is what it logged.                                              *)
(***************************************************************************)
EXTENDS Inbound, FiniteSetTheorems, TLAPS

Logged(h) == \E l \in log : l.by = h

\* A call got past the claim of its message.
Past(h) == pc[h] \in {"recipient", "event", "log", "update"} \/ Logged(h)

PastClaimed == \A h \in Hooks : Past(h) => MessageOf[h] \in claimed
OnePast == \A g, h \in Hooks : MessageOf[g] = MessageOf[h] /\ Past(g) /\ Past(h) => g = h

\* A call logs its message once, after it has looked for the event.
LogsOnce ==
  /\ \A l, k \in log : l.by = k.by => l = k
  /\ \A h \in Hooks : pc[h] \in {"new", "recipient", "event", "log"} => ~Logged(h)

\* What a call found is its sender's.
FoundIsOwn == \A h \in Hooks : found[h] # None => Owner[found[h]] = From(h)

\* A call that is about to update has logged what it found and reads as a status.
UpdatersLogged ==
  \A h \in Hooks : pc[h] = "update" =>
    /\ found[h] # None /\ Reads(h) # "unrecognized"
    /\ [by |-> h, event |-> found[h]] \in log

\* A message that changed an event is logged with it.
ChangesLogged ==
  \A e \in Events : \A m \in changedBy[e] : \E l \in log : MessageOf[l.by] = m /\ l.event = e

Inv ==
  /\ TypeOK /\ PastClaimed /\ OnePast /\ LogsOnce /\ FoundIsOwn /\ UpdatersLogged
  /\ ChangesLogged /\ ChangesAreAccountedFor

-----------------------------------------------------------------------------

\* Nothing is claimed, logged or changed at first.
LEMMA InboundInit == Init => Inv
BY InboundAssumption DEF Init, Inv, TypeOK, Results, PastClaimed, OnePast, Past, Logged, LogsOnce,
   FoundIsOwn, UpdatersLogged, ChangesLogged, ChangesAreAccountedFor

\* A step keeps the types; only calls that update need to have found something.
LEMMA InboundTypes == TypeOK /\ UpdatersLogged /\ [Next]_vars => TypeOK'
<1> SUFFICES ASSUME TypeOK, UpdatersLogged, [Next]_vars PROVE TypeOK'
  OBVIOUS
<1> USE InboundAssumption DEF TypeOK, Results, Goto, Answer
<1>1. CASE Tick
  BY <1>1 DEF Tick
<1>2. CASE Crash
  BY <1>2 DEF Crash
<1>3. ASSUME NEW e \in Events, Book(e) PROVE TypeOK'
  BY <1>3 DEF Book
<1>4. ASSUME NEW h \in Hooks, Handle(h) PROVE TypeOK'
  <2>1. CASE Claim(h)
    BY <2>1 DEF Claim, Fresh
  <2>2. CASE FindRecipient(h) \/ FindEvent(h)
    BY <2>2 DEF FindRecipient, FindEvent, Nearest, Upcoming
  <2>3. CASE Log(h)
    <3>1. Outcome(h) \in Results
      BY DEF Outcome
    <3> QED
      BY <2>3, <3>1 DEF Log
  <2>4. CASE Update(h)
    <3>1. found[h] \in Events /\ Reads(h) \in {"CONFIRMED", "CANCELLED"}
      BY <2>4 DEF Update, UpdatersLogged, Reads
    <3> QED
      BY <2>4, <3>1 DEF Update
  <2> QED
    BY <1>4, <2>1, <2>2, <2>3, <2>4 DEF Handle
<1>5. ASSUME NEW h \in Hooks, Fails(h) PROVE TypeOK'
  BY <1>5 DEF Fails
<1>6. CASE UNCHANGED vars
  BY <1>6 DEF vars
<1> QED
  BY <1>1, <1>2, <1>3, <1>4, <1>5, <1>6 DEF Next

\* A step keeps what the log and the claims say; the cases are the actions of Next.
LEMMA InboundStep == Inv /\ [Next]_vars => Inv'
<1> SUFFICES ASSUME Inv, [Next]_vars PROVE Inv'
  OBVIOUS
<1>t. TypeOK'
  BY InboundTypes DEF Inv
<1> DEFINE Rest == /\ PastClaimed /\ OnePast /\ LogsOnce /\ FoundIsOwn /\ UpdatersLogged
                   /\ ChangesLogged /\ ChangesAreAccountedFor
<1> SUFFICES Rest'
  BY <1>t DEF Inv
<1> USE InboundAssumption DEF Inv, TypeOK, PastClaimed, OnePast, Past, Logged, LogsOnce, FoundIsOwn,
      UpdatersLogged, ChangesLogged, ChangesAreAccountedFor, From, Reads, Goto, Answer
<1>1. CASE Tick
  BY <1>1 DEF Tick
<1>2. CASE Crash
  BY <1>2 DEF Crash
<1>3. ASSUME NEW e \in Events, Book(e) PROVE Rest'
  BY <1>3 DEF Book
<1>4. ASSUME NEW h \in Hooks, Handle(h) PROVE Rest'
  <2>1. CASE Claim(h)
    BY <2>1 DEF Claim, Fresh
  <2>2. CASE FindRecipient(h) \/ FindEvent(h)
    BY <2>2 DEF FindRecipient, FindEvent, Nearest, Upcoming
  <2>3. CASE Log(h)
    <3>1. Outcome(h) = "none" => found[h] # None /\ Reads(h) # "unrecognized"
      BY DEF Outcome
    <3> QED
      BY <2>3, <3>1 DEF Log
  <2>4. CASE Update(h)
    <3>1. /\ found[h] \in Events /\ [by |-> h, event |-> found[h]] \in log
          /\ From(h) = Owner[found[h]] /\ MessageOf[h] \in Messages
      BY <2>4 DEF Update
    <3>2. (PastClaimed /\ OnePast /\ LogsOnce /\ FoundIsOwn /\ UpdatersLogged)'
      BY <2>4 DEF Update
    <3>3. ChangesLogged'
      BY <2>4, <3>1 DEF Update
    <3>4. ASSUME NEW e \in Events, status'[e] \in {"CONFIRMED", "CANCELLED"}
          PROVE  \E l \in log' :
                   /\ l.event = e /\ MessageOf[l.by] \in changedBy'[e]
                   /\ From(l.by) = Owner[e] /\ Reads(l.by) = status'[e]
      <4>1. CASE e = found[h]
        BY <2>4, <3>1, <4>1 DEF Update
      <4>2. CASE e # found[h]
        BY <2>4, <3>4, <4>2 DEF Update
      <4> QED
        BY <4>1, <4>2
    <3>5. ChangesAreAccountedFor'
      BY <3>4
    <3> QED
      BY <3>2, <3>3, <3>5
  <2> QED
    BY <1>4, <2>1, <2>2, <2>3, <2>4 DEF Handle
<1>5. ASSUME NEW h \in Hooks, Fails(h) PROVE Rest'
  BY <1>5 DEF Fails
<1>6. CASE UNCHANGED vars
  BY <1>6 DEF vars
<1> QED
  BY <1>1, <1>2, <1>3, <1>4, <1>5, <1>6 DEF Next

\* Every reachable state keeps the invariant.
THEOREM InboundInvariant == Spec => []Inv
<1>1. Init => Inv
  BY InboundInit
<1>2. Inv /\ [Next]_vars => Inv'
  BY InboundStep
<1> QED
  BY <1>1, <1>2, PTL DEF Spec

\* Every variable keeps its type.
THEOREM InboundTypeCorrect == Spec => []TypeOK
<1>1. Inv => TypeOK
  BY DEF Inv
<1> QED
  BY <1>1, InboundInvariant, PTL

-----------------------------------------------------------------------------

\* A set without two elements has at most one.
LEMMA AtMostOne ==
  ASSUME NEW S, \A x, y \in S : x = y
  PROVE  Cardinality(S) <= 1
<1>1. CASE S = {}
  BY <1>1, FS_EmptySet
<1>2. CASE S # {}
  <2>1. PICK x \in S : S = {x}
    BY <1>2
  <2> QED
    BY <2>1, FS_Singleton
<1> QED
  BY <1>1, <1>2

\* However often the provider delivers a message, InboundService.handle logs it
\* once and changes at most one event.
THEOREM HandledOnce == Spec => []OncePerMessage
<1>1. Inv => OncePerMessage
  <2> SUFFICES ASSUME Inv, NEW m \in Messages
               PROVE  /\ Cardinality({l \in log : MessageOf[l.by] = m}) <= 1
                      /\ Cardinality({e \in Events : m \in changedBy[e]}) <= 1
    BY DEF OncePerMessage
  <2>1. \A k, l \in log : MessageOf[k.by] = m /\ MessageOf[l.by] = m => k = l
    <3>1. \A l \in log : l.by \in Hooks /\ Past(l.by)
      BY DEF Inv, TypeOK, Past, Logged
    <3> QED
      BY <3>1 DEF Inv, OnePast, LogsOnce
  <2>2. Cardinality({l \in log : MessageOf[l.by] = m}) <= 1
    <3> DEFINE L == {l \in log : MessageOf[l.by] = m}
    <3>1. \A k, l \in L : k = l
      BY <2>1
    <3> HIDE DEF L
    <3>2. Cardinality(L) <= 1
      BY <3>1, AtMostOne
    <3> QED
      BY <3>2 DEF L
  <2>3. \A d, e \in Events : m \in changedBy[d] /\ m \in changedBy[e] => d = e
    BY <2>1 DEF Inv, ChangesLogged
  <2>4. Cardinality({e \in Events : m \in changedBy[e]}) <= 1
    <3> DEFINE E == {e \in Events : m \in changedBy[e]}
    <3>1. \A d, e \in E : d = e
      BY <2>3
    <3> HIDE DEF E
    <3>2. Cardinality(E) <= 1
      BY <3>1, AtMostOne
    <3> QED
      BY <3>2 DEF E
  <2> QED
    BY <2>2, <2>4
<1> QED
  BY <1>1, InboundInvariant, PTL

\* An appointment is confirmed or cancelled only by a message of its customer that
\* reads so and was logged with it.
THEOREM ChangesAreLogged == Spec => []ChangesAreAccountedFor
<1>1. Inv => ChangesAreAccountedFor
  BY DEF Inv
<1> QED
  BY <1>1, InboundInvariant, PTL
=============================================================================
