------------------------------ MODULE MCOutage ------------------------------
(* Values of the constants of Outage for the runs of TLC.                  *)
EXTENDS Outage

CONSTANTS r1, r2, f1

MCKeys == {r1, r2}
MCJobs == {r1, r2, f1}

\* One plain reminder beside one with at most one trigger word.
MCWords == [k \in MCKeys |->
  IF k = r1 THEN {{}} ELSE {{}} \cup {{w} : w \in P!Triggers}]

LastBeside == 5

\* In one run of the process and of every job, which BooksBalance is about, handlers
\* of plain reminders overtake each other and one may be lost; beside a trigger word,
\* a replay or a restart one at a time is late.  The clock stops earlier beside a
\* replay or a restart.
MCNext ==
  /\ OutageNext
  /\ OneRun' \/ now' <= LastBeside
  /\ (OneRun' /\ \A k \in Keys : trait[k] = {}) \/ (slips' = 0 /\ Cardinality(writes') <= 1)

MCSpec == OutageInit /\ [][MCNext]_allVars
=============================================================================
