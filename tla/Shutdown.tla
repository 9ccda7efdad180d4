------------------------------ MODULE Shutdown ------------------------------
(***************************************************************************)
(* The life of the process: server.ts starts the API and then the worker,  *)
(* and on SIGTERM or SIGINT closes, one after the other, the server, the   *)
(* worker, the queue, Redis and the database, and exits.  Each signal      *)
(* starts a shutdown call of its own.  Requests, jobs and the handlers of  *)
(* 'failed' events run beside all of this.                                 *)
(***************************************************************************)
EXTENDS Integers, FiniteSets

CONSTANTS Requests, Jobs, Signals, MaxErrors

ASSUME ShutdownAssumption == MaxErrors \in Nat

VARIABLES
  proc,      \* boot, listening, up; exit0, exit1, or killed by a signal
  closing,   \* what a shutdown call has started to close
  closed,    \* what is closed
  stage,     \* the await each shutdown call is at
  inflight,  \* requests being handled; they use the queue and the database
  active,    \* jobs whose run has not ended; they use the database
  handlers,  \* jobs whose 'failed' handler has not written the row
  served, ran, errors

vars == <<proc, closing, closed, stage, inflight, active, handlers, served, ran, errors>>

Resources == {"app", "worker", "queue", "redis", "db"}

\* A job has ended before its handler starts.
TypeOK ==
  /\ proc \in {"boot", "listening", "up", "exit0", "exit1", "killed"}
  /\ closing \subseteq Resources /\ closed \subseteq closing
  /\ stage \in [Signals -> {"none", "end"} \cup Resources]
  /\ served \subseteq Requests /\ inflight \subseteq served
  /\ ran \subseteq Jobs /\ active \subseteq ran /\ handlers \subseteq ran \ active
  /\ errors \in Nat

Init ==
  /\ proc = "boot"
  /\ closing = {} /\ closed = {}
  /\ stage = [s \in Signals |-> "none"]
  /\ inflight = {} /\ active = {} /\ handlers = {} /\ served = {} /\ ran = {}
  /\ errors = 0

Running == proc \in {"listening", "up"}

\* app.listen succeeds, or the process exits.
Listen ==
  /\ proc = "boot"
  /\ \/ proc' = "listening" /\ UNCHANGED errors
     \/ errors < MaxErrors /\ proc' = "exit1" /\ errors' = errors + 1
  /\ UNCHANGED <<closing, closed, stage, inflight, active, handlers, served, ran>>

\* The worker starts and the signals get their handlers in one go.
StartWorker ==
  /\ proc = "listening" /\ proc' = "up"
  /\ UNCHANGED <<closing, closed, stage, inflight, active, handlers, served, ran, errors>>

-----------------------------------------------------------------------------
(* Work.                                                                   *)

Arrive(q) ==
  /\ Running /\ "app" \notin closing /\ q \notin served
  /\ inflight' = inflight \cup {q} /\ served' = served \cup {q}
  /\ UNCHANGED <<proc, closing, closed, stage, active, handlers, ran, errors>>

Answer(q) ==
  /\ Running /\ q \in inflight
  /\ inflight' = inflight \ {q}
  /\ UNCHANGED <<proc, closing, closed, stage, active, handlers, served, ran, errors>>

Take(j) ==
  /\ proc = "up" /\ "worker" \notin closing /\ j \notin ran
  /\ active' = active \cup {j} /\ ran' = ran \cup {j}
  /\ UNCHANGED <<proc, closing, closed, stage, inflight, handlers, served, errors>>

Complete(j) ==
  /\ proc = "up" /\ j \in active
  /\ active' = active \ {j}
  /\ UNCHANGED <<proc, closing, closed, stage, inflight, handlers, served, ran, errors>>

\* The worker does not wait for the handler of the 'failed' event.
Fail(j) ==
  /\ proc = "up" /\ j \in active
  /\ active' = active \ {j} /\ handlers' = handlers \cup {j}
  /\ UNCHANGED <<proc, closing, closed, stage, inflight, served, ran, errors>>

Handled(j) ==
  /\ proc = "up" /\ j \in handlers
  /\ handlers' = handlers \ {j}
  /\ UNCHANGED <<proc, closing, closed, stage, inflight, active, served, ran, errors>>

-----------------------------------------------------------------------------
(* Shutdown.                                                               *)

\* Before the handlers are registered a signal simply kills.
Signal(s) ==
  /\ proc \in {"boot", "listening", "up"} /\ stage[s] = "none"
  /\ IF proc = "up"
       THEN /\ stage' = [stage EXCEPT ![s] = "app"] /\ closing' = closing \cup {"app"}
            /\ UNCHANGED proc
       ELSE proc' = "killed" /\ stage' = [stage EXCEPT ![s] = "end"] /\ UNCHANGED closing
  /\ UNCHANGED <<closed, inflight, active, handlers, served, ran, errors>>

\* Mutants: the queue is closed before the worker is drained; the process is
\* left to end by itself.
QueueBeforeWorker ==
  [app |-> "queue", queue |-> "worker", worker |-> "redis", redis |-> "db", db |-> "end"]
NoExit(s) == FALSE /\ UNCHANGED vars
\* Mutant: closing the queue ends the connection it shares.
RefusedAfterQueue(r) == r = "redis" /\ "queue" \in closed

\* The order of the awaits.
Following ==
  [app |-> "worker", worker |-> "queue", queue |-> "redis", redis |-> "db", db |-> "end"]

\* app.close and worker.close wait for what is under way.
Drained(r) == (r = "app" => inflight = {}) /\ (r = "worker" => active = {})

\* Closing again what is closed is harmless, but for a quit on a connection
\* that is gone.
Refused(r) == r = "redis" /\ r \in closed

Close(s) ==
  LET r == stage[s] IN
  /\ proc = "up" /\ r \in Resources /\ Drained(r) /\ ~Refused(r)
  /\ closed' = closed \cup {r}
  /\ closing' = closing \cup ({Following[r]} \ {"end"})
  /\ stage' = [stage EXCEPT ![s] = Following[r]]
  /\ UNCHANGED <<proc, inflight, active, handlers, served, ran, errors>>

Exit(s) ==
  /\ proc = "up" /\ stage[s] = "end"
  /\ proc' = "exit0"
  /\ UNCHANGED <<closing, closed, stage, inflight, active, handlers, served, ran, errors>>

\* A step of the call throws: exit with what is left open.
CloseFails(s) ==
  /\ proc = "up" /\ stage[s] \in Resources
  /\ \/ Refused(stage[s]) /\ UNCHANGED errors
     \/ errors < MaxErrors /\ errors' = errors + 1
  /\ proc' = "exit1"
  /\ UNCHANGED <<closing, closed, stage, inflight, active, handlers, served, ran>>

-----------------------------------------------------------------------------

Shut(s) ==
  \/ Close(s) \/ Exit(s)
  \/ Refused(stage[s]) /\ CloseFails(s)
Work == \/ \E q \in Requests : Answer(q)
        \/ \E j \in Jobs : Complete(j) \/ Fail(j)

Next ==
  \/ Listen \/ StartWorker
  \/ \E q \in Requests : Arrive(q) \/ Answer(q)
  \/ \E j \in Jobs : Take(j) \/ Complete(j) \/ Fail(j) \/ Handled(j)
  \/ \E s \in Signals : Signal(s) \/ Close(s) \/ Exit(s) \/ CloseFails(s)

Spec == Init /\ [][Next]_vars

\* What is under way goes on, and so does every shutdown call; a handler whose
\* write hangs is nobody's concern.
Fairness ==
  /\ WF_vars(Listen) /\ WF_vars(StartWorker) /\ WF_vars(Work)
  /\ \A s \in Signals : WF_vars(Shut(s))

FairSpec == Spec /\ Fairness

-----------------------------------------------------------------------------

\* Nothing is taken away from those who use it, whatever signals overlap:
\* while a request or a job is under way the queue, Redis and the database
\* stay open.
UsersFirst ==
  proc = "up" /\ inflight \cup active # {} => closed \cap {"queue", "redis", "db"} = {}

\* An exit with code 0 leaves nothing open and no request or job half done;
\* only handlers of 'failed' events may be cut short.
CleanExit == proc = "exit0" => closed = Resources /\ inflight = {} /\ active = {}

\* One signal and no failure end in code 0: only a second signal, or a step
\* that throws, makes it 1.
OneSignalExitsZero ==
  proc = "exit1" /\ errors = 0 => Cardinality({s \in Signals : stage[s] # "none"}) > 1

\* A signal ends the process.
SignalEnds == \A s \in Signals : stage[s] # "none" ~> proc \in {"exit0", "exit1", "killed"}
=============================================================================
