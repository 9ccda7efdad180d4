-------------------------------- MODULE Sweep -------------------------------
(***************************************************************************)
(* experiments/sweep.sh and run-one.sh.  P slots share a list of runs,     *)
(* each taking every P-th; a run brings up the stack of its slot, books a  *)
(* batch of reminders, polls until all are settled or it is out of time,   *)
(* reads the results, writes them to the file of the run and takes the     *)
(* stack down.  What exists is skipped, so a sweep that was killed can be  *)
(* started again.                                                          *)
(***************************************************************************)
EXTENDS Naturals, Sequences, FiniteSets

CONSTANTS
  Files,      \* one for each run there can be
  P,          \* parallel slots
  MaxSweeps   \* bound on how often the sweep is started

ASSUME SweepAssumption == P \in Nat \ {0} /\ MaxSweeps \in Nat

Slots == 0 .. P - 1

VARIABLES
  jobs,     \* the list of runs, each by its file
  sweep,    \* how often it was started
  line,     \* per slot, the lines of the list it has read
  at,       \* per slot, where its run is
  torn, whole,  \* the result files that are opened and not closed, and that are closed
  rows,     \* per slot, the batches in the database of its stack
  rowsIn,   \* which batches the results in each file were read from
  broke,    \* history: runs that failed
  left      \* history: batches whose stack was not taken down

sweepVars == <<jobs, sweep, line, at, torn, whole, rows, rowsIn, broke, left>>

Batches == Files \X (1 .. MaxSweeps)

Steps == {"read", "up", "poll", "save", "write", "exit", "gone"}

SweepTypeOK ==
  /\ sweep \in 0 .. MaxSweeps
  /\ line \in [Slots -> 0 .. Len(jobs)]
  /\ at \in [Slots -> Steps]
  /\ torn \subseteq Files /\ whole \subseteq Files
  /\ rows \in [Slots -> SUBSET Batches] /\ rowsIn \subseteq Files \X Batches
  /\ broke \subseteq Files /\ left \subseteq Batches

\* Nothing runs; the files of done are there from earlier sweeps.
SweepInit(list, done, earlier) ==
  /\ jobs = list /\ sweep = earlier
  /\ line = [s \in Slots |-> 0] /\ at = [s \in Slots |-> "gone"]
  /\ torn = {} /\ whole = done
  /\ rows = [s \in Slots |-> {}] /\ rowsIn = {}
  /\ broke = {} /\ left = {}

\* The run a slot is at, and the lines of the list that are its own.
Current(s) == jobs[line[s]]
OwnLines(s) == {i \in DOMAIN jobs : (i - 1) % P = s}

Exists(f) == f \in torn \cup whole

\* The slots have read the list to its end, or were killed.
Over == \A s \in Slots : at[s] = "gone"

Launch ==
  /\ Over /\ sweep < MaxSweeps
  /\ sweep' = sweep + 1
  /\ line' = [s \in Slots |-> 0] /\ at' = [s \in Slots |-> "read"]
  /\ UNCHANGED <<jobs, torn, whole, rows, rowsIn, broke, left>>

\* A slot reads on to its next own line, and skips a run whose file exists.
TakeRun(s) ==
  /\ at[s] = "read"
  /\ \E i \in OwnLines(s) :
       /\ i > line[s] /\ \A h \in OwnLines(s) : h > line[s] => i <= h
       /\ line' = [line EXCEPT ![s] = i]
       /\ at' = [at EXCEPT ![s] = IF Exists(jobs[i]) THEN "read" ELSE "up"]
  /\ UNCHANGED <<jobs, sweep, torn, whole, rows, rowsIn, broke, left>>

ListRead(s) ==
  /\ at[s] = "read" /\ \A i \in OwnLines(s) : i <= line[s]
  /\ at' = [at EXCEPT ![s] = "gone"]
  /\ UNCHANGED <<jobs, sweep, line, torn, whole, rows, rowsIn, broke, left>>

\* The stack is up, with what its volumes hold, and the batch is booked.
Book(s) ==
  /\ at[s] = "up"
  /\ rows' = [rows EXCEPT ![s] = @ \cup {<<Current(s), sweep>>}]
  /\ at' = [at EXCEPT ![s] = "poll"]
  /\ UNCHANGED <<jobs, sweep, line, torn, whole, rowsIn, broke, left>>

\* The results are counts over all rows of the database.
Measure(s) ==
  /\ at[s] = "poll"
  /\ rowsIn' = rowsIn \cup ({Current(s)} \X rows[s])
  /\ at' = [at EXCEPT ![s] = "save"]
  /\ UNCHANGED <<jobs, sweep, line, torn, whole, rows, broke, left>>

Open(s) ==
  /\ at[s] = "save"
  /\ torn' = torn \cup {Current(s)}
  /\ at' = [at EXCEPT ![s] = "write"]
  /\ UNCHANGED <<jobs, sweep, line, whole, rows, rowsIn, broke, left>>

Save(s) ==
  /\ at[s] = "write"
  /\ torn' = torn \ {Current(s)} /\ whole' = whole \cup {Current(s)}
  /\ at' = [at EXCEPT ![s] = "exit"]
  /\ UNCHANGED <<jobs, sweep, line, rows, rowsIn, broke, left>>

\* A command fails: set -e ends the run, the trap still takes the stack down.
Break(s) ==
  /\ at[s] \in {"up", "poll", "save", "write"}
  /\ broke' = broke \cup {Current(s)}
  /\ at' = [at EXCEPT ![s] = "exit"]
  /\ UNCHANGED <<jobs, sweep, line, torn, whole, rows, rowsIn, left>>

\* Mutant: the stack goes down without -v and keeps its volumes.
TakeDownKeepingVolumes(s) ==
  /\ at[s] = "exit"
  /\ at' = [at EXCEPT ![s] = "read"]
  /\ UNCHANGED <<jobs, sweep, line, torn, whole, rows, rowsIn, broke, left>>

\* Mutant: the run shares its standard input with the loop and eats the list.
TakeDownEatingInput(s) ==
  /\ at[s] = "exit"
  /\ rows' = [rows EXCEPT ![s] = {}]
  /\ line' = [line EXCEPT ![s] = Len(jobs)]
  /\ at' = [at EXCEPT ![s] = "read"]
  /\ UNCHANGED <<jobs, sweep, torn, whole, rowsIn, broke, left>>

\* cleanup: dc down -v.
TakeDown(s) ==
  /\ at[s] = "exit"
  /\ rows' = [rows EXCEPT ![s] = {}]
  /\ at' = [at EXCEPT ![s] = "read"]
  /\ UNCHANGED <<jobs, sweep, line, torn, whole, rowsIn, broke, left>>

\* ... || true.
TakeDownFails(s) ==
  /\ at[s] = "exit"
  /\ left' = left \cup rows[s]
  /\ at' = [at EXCEPT ![s] = "read"]
  /\ UNCHANGED <<jobs, sweep, line, torn, whole, rows, rowsIn, broke>>

\* The machine, or the sweep with its runs, dies; the stacks' volumes stay.
Kill ==
  /\ ~Over
  /\ at' = [s \in Slots |-> "gone"]
  /\ left' = left \cup UNION {rows[s] : s \in Slots}
  /\ broke' = broke \cup {Current(s) : s \in {s \in Slots : at[s] \notin {"read", "gone"}}}
  /\ UNCHANGED <<jobs, sweep, line, torn, whole, rows, rowsIn>>

SweepNext ==
  \/ Launch \/ Kill
  \/ \E s \in Slots :
       \/ TakeRun(s) \/ ListRead(s)
       \/ Book(s) \/ Measure(s) \/ Open(s) \/ Save(s)
       \/ Break(s) \/ TakeDown(s) \/ TakeDownFails(s)

-----------------------------------------------------------------------------

\* The results in a whole file are of its own batch only ("fresh DB: every row
\* is this batch", run-one.sh), except for batches whose stack a kill or a failed
\* teardown left behind.
OwnRowsOnly ==
  \A x \in rowsIn : x[1] \in whole /\ x[2] \notin left => x[2][1] = x[1]

\* The slots share out the whole list: when each has read it to its end, every
\* run has a file or has failed.  (Kill stops the slots elsewhere.)
SweepCovers ==
  (\A s \in Slots : at[s] = "read" /\ \A i \in OwnLines(s) : i <= line[s])
    => \A i \in DOMAIN jobs : Exists(jobs[i]) \/ jobs[i] \in broke

SweepSpec ==
  /\ \E list \in Seq(Files), done \in SUBSET Files, n \in 0 .. MaxSweeps :
       SweepInit(list, done, n)
  /\ [][SweepNext]_sweepVars
=============================================================================
