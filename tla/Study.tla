-------------------------------- MODULE Study -------------------------------
(***************************************************************************)
(* The measurement study: the sweep, and runs of experiments/analyze.py,   *)
(* which may start while the sweep is still at work.  An analysis checks   *)
(* its constants against env.ts, reads the result files one after another, *)
(* and writes its outputs in a fixed order, with Analysis.tla's numbers;   *)
(* it is run with the light theme and, if that succeeded, with the dark.   *)
(***************************************************************************)
EXTENDS Sweep, Analysis

CONSTANTS
  ResultOf(_),   \* what the result file of a run says
  Plans,         \* what a study may start from: see StudyInit
  MaxAnalyses    \* bound on how often analyze.py is run

ASSUME StudyAssumption ==
  /\ MaxAnalyses \in Nat
  /\ \A p \in Plans : /\ p.list \in Seq(Files) /\ p.done \in SUBSET Files
                      /\ p.sweeps \in 0 .. MaxSweeps

Themes == {"light", "dark"}

Tables == <<"summary.csv", "summary.md", "derived.json", "derived.md">>
Figures == <<"fig1", "fig2", "fig3", "fig4", "fig5">>
Outputs == Tables \o Figures

VARIABLES
  env,       \* src/config/env.ts: absent, matching or drifted
  pc,        \* where the analysis is: idle, list, read, records or write
  stage,     \* the output it writes next
  theme,
  analyses,
  pending,   \* listed files it has not read yet
  out        \* per output (a figure once per theme), the files it was made from

analysisVars == <<env, pc, stage, theme, analyses, pending, runs, outageRuns, out>>
studyVars == <<sweepVars, analysisVars>>

\* The files it has read.
loaded == DOMAIN runs

\* Where output i goes.
Place(i, t) == <<Outputs[i], IF i <= Len(Tables) THEN "any" ELSE t>>
Places == {Place(i, t) : i \in DOMAIN Outputs, t \in Themes}

\* A plan has the list of runs, the files there are, the state of env.ts, and
\* how many sweeps and analyses there have been.
StudyInit ==
  /\ \E p \in Plans :
       /\ SweepInit(p.list, p.done, p.sweeps)
       /\ env = p.env /\ analyses = p.analyses
  /\ pc = "idle" /\ stage = 1 /\ theme = "light"
  /\ pending = {} /\ runs = <<>> /\ outageRuns = <<>>
  /\ out = [o \in Places |-> {}]

\* check_env_defaults: the constants match env.ts, or it is not there.
ConstantsHold == env # "drifted"

\* A process of analyze.py begins; its memory is gone when it ends.
Begin(t) ==
  /\ pc' = IF ConstantsHold THEN "list" ELSE "idle"
  /\ theme' = t
  /\ pending' = {} /\ runs' = <<>> /\ outageRuns' = <<>>

End ==
  /\ pc' = "idle"
  /\ pending' = {} /\ runs' = <<>> /\ outageRuns' = <<>>
  /\ UNCHANGED theme

Analyse ==
  /\ pc = "idle" /\ analyses < MaxAnalyses
  /\ analyses' = analyses + 1
  /\ Begin("light")
  /\ UNCHANGED <<sweepVars, env, stage, out>>

\* glob: every file there is.
List ==
  /\ pc = "list"
  /\ pending' = torn \cup whole
  /\ pc' = "read"
  /\ UNCHANGED <<sweepVars, env, stage, theme, analyses, runs, outageRuns, out>>

\* The files are read one by one, in an order that makes no difference.
Read ==
  /\ pc = "read" /\ pending # {}
  /\ LET f == CHOOSE f \in pending : TRUE IN
       /\ f \in whole
       /\ runs' = [g \in loaded \cup {f} |-> IF g = f THEN ResultOf(f) ELSE runs[g]]
       /\ pending' = pending \ {f}
  /\ UNCHANGED <<sweepVars, env, pc, stage, theme, analyses, outageRuns, out>>

\* json.load raises on a torn file.
ReadTorn ==
  /\ pc = "read" /\ pending # {}
  /\ (CHOOSE f \in pending : TRUE) \notin whole
  /\ End
  /\ UNCHANGED <<sweepVars, env, stage, analyses, out>>

\* Without rows there is no summary.
ReadAll ==
  /\ pc = "read" /\ pending = {}
  /\ IF loaded = {} THEN pc' = "records" /\ stage' = 3
                    ELSE pc' = "write" /\ stage' = 1
  /\ UNCHANGED <<sweepVars, env, theme, analyses, pending, runs, outageRuns, out>>

\* What a run with rows of another in its results says is not known.
Mixed(R) == \E x \in rowsIn : x[1] \in R /\ x[2][1] # x[1]

StageRaises(i) ==
  \/ Outputs[i] = "derived.json" /\ DeriveRaises(loaded)
  \/ Outputs[i] = "fig2" /\ LatencyFigureRaises(loaded)

Raises == IF pc = "records" THEN RecordsRaise(loaded) ELSE StageRaises(stage)
MayRaise == IF Mixed(loaded) THEN TRUE ELSE Raises
MaySucceed == IF Mixed(loaded) THEN TRUE ELSE ~Raises

Raise ==
  /\ pc \in {"records", "write"} /\ (pc = "write" => stage \in DOMAIN Outputs)
  /\ MayRaise
  /\ End
  /\ UNCHANGED <<sweepVars, env, stage, analyses, out>>

\* The checks and the records of the outage runs.
Records ==
  /\ pc = "records"
  /\ MaySucceed
  /\ outageRuns' = OutageRuns(loaded)
  /\ pc' = "write"
  /\ UNCHANGED <<sweepVars, env, stage, theme, analyses, pending, runs, out>>

\* Mutant: a stage works on the result files as they are now.
StageFilesNow == whole

\* The results a stage works on: those that were loaded.
StageFiles == loaded

Write ==
  /\ pc = "write" /\ stage \in DOMAIN Outputs
  /\ MaySucceed
  /\ out' = [out EXCEPT ![Place(stage, theme)] = StageFiles]
  /\ stage' = stage + 1
  /\ pc' = IF Outputs[stage] = "summary.md" THEN "records" ELSE "write"
  /\ UNCHANGED <<sweepVars, env, theme, analyses, pending, runs, outageRuns>>

\* "python3 analyze.py && THEME=dark python3 analyze.py"
Drawn ==
  /\ pc = "write" /\ stage > Len(Outputs)
  /\ IF theme = "light" THEN Begin("dark") ELSE End
  /\ UNCHANGED <<sweepVars, env, stage, analyses, out>>

Interrupt ==
  /\ pc # "idle"
  /\ End
  /\ UNCHANGED <<sweepVars, env, stage, analyses, out>>

AnalysisNext ==
  \/ Analyse \/ List \/ Read \/ ReadTorn \/ ReadAll
  \/ Records \/ Raise \/ Write \/ Drawn \/ Interrupt

StudyNext ==
  \/ SweepNext /\ UNCHANGED analysisVars
  \/ AnalysisNext

StudySpec == StudyInit /\ [][StudyNext]_studyVars

-----------------------------------------------------------------------------

\* The outputs tell one story although an analysis may die between any two of
\* them while result files keep appearing: each was made from files that every
\* output written before it was made from too, and only from whole ones.
OutputsInStep ==
  /\ \A t \in Themes : \A j \in DOMAIN Outputs : \A i \in 1 .. j :
       out[Place(j, t)] \subseteq out[Place(i, t)]
  /\ \A o \in Places : out[o] \subseteq whole
=============================================================================
