----------------------------- MODULE StudyProofs ----------------------------
(***************************************************************************)
(* Theorems about the study, in the order of its data: Sweep, for any list *)
(* of runs, any number of slots and any number of sweeps, each of which    *)
(* may be killed at any point; what the analyses of Study leave behind,    *)
(* whatever the results say; what the result file of any run of Cohort     *)
(* says; what an analysis holds in memory if its files came from such      *)
(* runs; and from these the claims of StudyNumbers.                        *)
(***************************************************************************)
EXTENDS StudyNumbers, Cohort, MeasurementProofs, SequenceTheorems

\* A slot at one of these steps works on a run.
Busy == {"up", "poll", "save", "write", "exit"}

\* A slot at work has read a line, in a sweep that was started.
AtALine ==
  \A s \in Slots : /\ at[s] # "gone" => sweep \in 1 .. MaxSweeps
                   /\ at[s] \in Busy => line[s] \in DOMAIN jobs

\* What the database of a slot holds is of its run, or was left behind.
RowsAreOwnOrLeft ==
  \A s \in Slots : \A b \in rows[s] :
    b \in left \/ (at[s] \in Busy \ {"up"} /\ b = <<Current(s), sweep>>)

\* So is what the results were read from.
ResultsAreOwnOrLeft == \A x \in rowsIn : x[2] \in left \/ x[2][1] = x[1]

\* The runs that have a file or failed.
Finished == torn \cup whole \cup broke

\* A slot has settled the own lines it has read, but for the run it is at.
LinesSettled ==
  \A s \in Slots : at[s] # "gone" => \A i \in OwnLines(s) :
    i <= line[s] => \/ jobs[i] \in Finished
                    \/ i = line[s] /\ at[s] \in {"up", "poll", "save", "write"}

\* The inductive invariant of Sweep.
Inv ==
  /\ jobs \in Seq(Files) /\ SweepTypeOK /\ AtALine
  /\ RowsAreOwnOrLeft /\ ResultsAreOwnOrLeft /\ LinesSettled

\* The states a sweep may start from.
AnyStart ==
  \E list \in Seq(Files), done \in SUBSET Files, n \in 0 .. MaxSweeps : SweepInit(list, done, n)

-----------------------------------------------------------------------------

\* Nothing has been read or left behind at the start.
LEMMA SweepStart == AnyStart => Inv
  BY DEF AnyStart, SweepInit, Inv, SweepTypeOK, AtALine, RowsAreOwnOrLeft, ResultsAreOwnOrLeft,
         LinesSettled, Busy, Steps

\* The run of a slot at work is one of the list.
LEMMA CurrentIsListed ==
  ASSUME Inv, NEW s \in Slots, at[s] \in Busy
  PROVE  /\ line[s] \in DOMAIN jobs /\ Current(s) \in Files
         /\ sweep \in 1 .. MaxSweeps /\ <<Current(s), sweep>> \in Batches
<1>1. line[s] \in DOMAIN jobs /\ sweep \in 1 .. MaxSweeps
  BY DEF Inv, AtALine, Busy
<1>2. Current(s) \in Files
  BY <1>1 DEF Current, Inv
<1> QED
  BY <1>1, <1>2 DEF Batches

\* The types.
LEMMA SweepTypes == Inv /\ [SweepNext]_sweepVars => (jobs \in Seq(Files) /\ SweepTypeOK)'
<1> SUFFICES ASSUME Inv, [SweepNext]_sweepVars PROVE (jobs \in Seq(Files) /\ SweepTypeOK)'
  OBVIOUS
<1> USE DEF SweepTypeOK, Steps
<1>1. CASE Launch
  BY <1>1, SweepAssumption DEF Launch, Inv
<1>2. CASE Kill
  <2>1. \A s \in Slots : at[s] \notin {"read", "gone"} => Current(s) \in Files
    BY CurrentIsListed DEF Busy, Inv
  <2> QED
    BY <1>2, <2>1 DEF Kill, Inv
<1>3. ASSUME NEW s \in Slots, TakeRun(s) \/ ListRead(s) PROVE (jobs \in Seq(Files) /\ SweepTypeOK)'
  BY <1>3, SMTT(30) DEF TakeRun, ListRead, OwnLines, Inv
<1>4. ASSUME NEW s \in Slots, at[s] \in Busy,
             Book(s) \/ Measure(s) \/ Open(s) \/ Save(s) \/ Break(s) \/ TakeDown(s) \/ TakeDownFails(s)
      PROVE  (jobs \in Seq(Files) /\ SweepTypeOK)'
  <2>1. Current(s) \in Files /\ <<Current(s), sweep>> \in Batches
    BY <1>4, CurrentIsListed
  <2>2. CASE Book(s)
    BY <2>1, <2>2 DEF Book, Inv
  <2>3. CASE Measure(s)
    BY <2>1, <2>3 DEF Measure, Inv
  <2>4. CASE Open(s) \/ Save(s) \/ Break(s)
    BY <2>1, <2>4 DEF Open, Save, Break, Inv
  <2>5. CASE TakeDown(s) \/ TakeDownFails(s)
    BY <2>5 DEF TakeDown, TakeDownFails, Inv
  <2> QED
    BY <1>4, <2>2, <2>3, <2>4, <2>5
<1>5. CASE UNCHANGED sweepVars
  BY <1>5 DEF sweepVars, Inv
<1> QED
  BY <1>1, <1>2, <1>3, <1>4, <1>5
  DEF SweepNext, Busy, Book, Measure, Open, Save, Break, TakeDown, TakeDownFails

\* What the databases and the results hold, step by step.
LEMMA RowsStep ==
  Inv /\ [SweepNext]_sweepVars => (AtALine /\ RowsAreOwnOrLeft /\ ResultsAreOwnOrLeft)'
<1> DEFINE Goal == AtALine /\ RowsAreOwnOrLeft /\ ResultsAreOwnOrLeft
<1> SUFFICES ASSUME Inv, [SweepNext]_sweepVars PROVE Goal'
  OBVIOUS
<1> USE DEF Inv, SweepTypeOK, AtALine, RowsAreOwnOrLeft, ResultsAreOwnOrLeft, Busy, Current
<1>1. CASE Launch
  <2>1. /\ UNCHANGED <<jobs, rows, rowsIn, left>> /\ sweep' \in 1 .. MaxSweeps
        /\ \A s \in Slots : at[s] = "gone" /\ at'[s] = "read"
    BY <1>1, SweepAssumption DEF Launch, Over
  <2> QED
    BY <2>1
<1>2. CASE Kill
  <2>1. /\ UNCHANGED <<jobs, sweep, line, rows, rowsIn>> /\ left \subseteq left'
        /\ \A s \in Slots : at'[s] = "gone"
    BY <1>2 DEF Kill
  <2>2. \A s \in Slots : \A b \in rows[s] : b \in left'
    BY <1>2 DEF Kill
  <2> QED
    BY <2>1, <2>2
<1>3. ASSUME NEW s \in Slots, TakeRun(s) \/ ListRead(s) PROVE Goal'
  <2>1. /\ UNCHANGED <<jobs, sweep, rows, rowsIn, left>> /\ at[s] = "read"
        /\ \A t \in Slots : t # s => at'[t] = at[t] /\ line'[t] = line[t]
        /\ at'[s] \in {"read", "up", "gone"}
        /\ at'[s] = "up" => line'[s] \in DOMAIN jobs
    BY <1>3 DEF TakeRun, ListRead, OwnLines
  <2> QED
    BY <2>1
<1>4. ASSUME NEW s \in Slots, Book(s) PROVE Goal'
  BY <1>4 DEF Book
<1>5. ASSUME NEW s \in Slots, Measure(s) PROVE Goal'
  BY <1>5 DEF Measure
<1>6. ASSUME NEW s \in Slots, Open(s) \/ Save(s) \/ Break(s) PROVE Goal'
  BY <1>6 DEF Open, Save, Break
<1>7. ASSUME NEW s \in Slots, TakeDown(s) \/ TakeDownFails(s) PROVE Goal'
  BY <1>7 DEF TakeDown, TakeDownFails
<1>8. CASE UNCHANGED sweepVars
  BY <1>8 DEF sweepVars
<1> QED
  BY <1>1, <1>2, <1>3, <1>4, <1>5, <1>6, <1>7, <1>8 DEF SweepNext

\* What is settled stays so: a result file is never removed.
LEMMA FinishedStays ==
  Inv /\ [SweepNext]_sweepVars => jobs' = jobs /\ Finished \subseteq Finished'
  BY DEF SweepNext, Launch, Kill, TakeRun, ListRead, Book, Measure, Open, Save, Break, TakeDown,
         TakeDownFails, sweepVars, Finished, Exists

\* What the slots have settled, step by step.
LEMMA LinesStep == Inv /\ [SweepNext]_sweepVars => LinesSettled'
<1> SUFFICES ASSUME Inv, [SweepNext]_sweepVars PROVE LinesSettled'
  OBVIOUS
<1>1. jobs' = jobs /\ Finished \subseteq Finished'
  BY FinishedStays
<1> SUFFICES ASSUME NEW t \in Slots, at'[t] # "gone",
                    NEW i \in DOMAIN jobs, (i - 1) % P = t, i <= line'[t]
             PROVE  \/ jobs'[i] \in Finished'
                    \/ i = line'[t] /\ at'[t] \in {"up", "poll", "save", "write"}
  BY <1>1 DEF LinesSettled, OwnLines
<1>2. at[t] # "gone" /\ i <= line[t] =>
        \/ jobs[i] \in Finished
        \/ i = line[t] /\ at[t] \in {"up", "poll", "save", "write"}
  BY DEF Inv, LinesSettled, OwnLines
<1> USE DEF Inv, SweepTypeOK
<1>3. CASE Launch
  BY <1>3 DEF Launch
<1>4. CASE Kill
  BY <1>4 DEF Kill
<1>5. ASSUME NEW s \in Slots, TakeRun(s)
      PROVE  \/ jobs'[i] \in Finished'
             \/ i = line'[t] /\ at'[t] \in {"up", "poll", "save", "write"}
  <2>1. CASE s = t
    <3>1. i <= line[t] \/ i = line'[t]
      BY <1>5, <2>1 DEF TakeRun, OwnLines
    <3>2. i = line'[t] => at'[t] = "up" \/ Exists(jobs[i])
      BY <1>5, <2>1 DEF TakeRun
    <3> QED
      BY <1>1, <1>2, <1>5, <2>1, <3>1, <3>2 DEF TakeRun, Finished, Exists
  <2>2. CASE s # t
    BY <1>1, <1>2, <1>5, <2>2 DEF TakeRun
  <2> QED
    BY <2>1, <2>2
<1>6. ASSUME NEW s \in Slots, ListRead(s) \/ Book(s) \/ Measure(s) \/ Open(s) \/ TakeDown(s) \/ TakeDownFails(s)
      PROVE  \/ jobs'[i] \in Finished'
             \/ i = line'[t] /\ at'[t] \in {"up", "poll", "save", "write"}
  BY <1>1, <1>2, <1>6 DEF ListRead, Book, Measure, Open, TakeDown, TakeDownFails
<1>7. ASSUME NEW s \in Slots, Save(s) \/ Break(s)
      PROVE  \/ jobs'[i] \in Finished'
             \/ i = line'[t] /\ at'[t] \in {"up", "poll", "save", "write"}
  BY <1>1, <1>2, <1>7 DEF Save, Break, Finished, Exists, Current
<1>8. CASE UNCHANGED sweepVars
  BY <1>1, <1>2, <1>8 DEF sweepVars
<1> QED
  BY <1>3, <1>4, <1>5, <1>6, <1>7, <1>8 DEF SweepNext

\* Every reachable state keeps the invariant.
THEOREM SweepInvariant == SweepSpec => []Inv
<1>1. AnyStart => Inv
  BY SweepStart
<1>2. Inv /\ [SweepNext]_sweepVars => Inv'
  BY SweepTypes, RowsStep, LinesStep DEF Inv
<1>3. SweepSpec => AnyStart /\ [][SweepNext]_sweepVars
  BY DEF SweepSpec, AnyStart
<1> QED
  BY <1>1, <1>2, <1>3, PTL

\* Every variable keeps its type.
THEOREM SweepTypeCorrect == SweepSpec => []SweepTypeOK
<1>1. Inv => SweepTypeOK
  BY DEF Inv
<1> QED
  BY <1>1, SweepInvariant, PTL

\* A result file speaks of its own batch, except for batches whose stack was not
\* taken down.
THEOREM RowsAreOwn == SweepSpec => []OwnRowsOnly
<1>1. Inv => OwnRowsOnly
  BY DEF Inv, ResultsAreOwnOrLeft, OwnRowsOnly
<1> QED
  BY <1>1, SweepInvariant, PTL

\* When the slots have read the list to its end every run has its file or failed,
\* whatever the number of slots and whatever files were there before.
THEOREM SweepIsCovering == SweepSpec => []SweepCovers
<1>1. Inv => SweepCovers
  <2> SUFFICES ASSUME Inv, NEW i \in DOMAIN jobs,
                      \A s \in Slots : at[s] = "read" /\ \A h \in OwnLines(s) : h <= line[s]
               PROVE  jobs[i] \in Finished
    BY DEF SweepCovers, Finished, Exists
  <2>1. (i - 1) % P \in Slots
    <3>1. i \in Nat \ {0} /\ P \in Nat \ {0}
      BY SweepAssumption DEF Inv
    <3> QED
      BY <3>1 DEF Slots
  <2>2. i \in OwnLines((i - 1) % P)
    BY DEF OwnLines
  <2> QED
    BY <2>1, <2>2 DEF Inv, LinesSettled
<1> QED
  BY <1>1, SweepInvariant, PTL

-----------------------------------------------------------------------------
(* The outputs of the analyses.                                            *)

\* Nine outputs, no two alike.
LEMMA OutputNames ==
  /\ DOMAIN Outputs = 1 .. 9 /\ Len(Tables) = 4 /\ Len(Outputs) = 9
  /\ \A i, j \in 1 .. 9 : Outputs[i] = Outputs[j] => i = j
<1> DEFINE Names == {"summary.csv", "summary.md", "derived.json", "derived.md",
                     "fig1", "fig2", "fig3", "fig4", "fig5"}
<1>1. Len(Tables) = 4 /\ Len(Figures) = 5
  BY DEF Tables, Figures
<1>a. Tables \in Seq(Names)
  BY DEF Tables
<1>b. Figures \in Seq(Names)
  BY DEF Figures
<1> HIDE DEF Names
<1>2. Len(Outputs) = 9
  <2>1. \A S, s, t : s \in Seq(S) /\ t \in Seq(S) => Len(s \o t) = Len(s) + Len(t)
    OBVIOUS
  <2>2. Len(Tables \o Figures) = Len(Tables) + Len(Figures)
    BY <1>a, <1>b, <2>1
  <2>3. Len(Tables \o Figures) = 9
    BY <1>1, <2>2
  <2> QED
    BY <2>3 DEF Outputs
<1>c. DOMAIN Outputs = 1 .. 9
  BY <1>2, <1>a, <1>b DEF Outputs
<1>3. /\ Outputs[1] = "summary.csv" /\ Outputs[2] = "summary.md" /\ Outputs[3] = "derived.json"
      /\ Outputs[4] = "derived.md" /\ Outputs[5] = "fig1" /\ Outputs[6] = "fig2"
      /\ Outputs[7] = "fig3" /\ Outputs[8] = "fig4" /\ Outputs[9] = "fig5"
  BY DEF Outputs, Tables, Figures
<1> QED
  BY <1>1, <1>2, <1>c, <1>3

\* Where two outputs go is one place only if they are one output.
LEMMA PlacesDiffer ==
  ASSUME NEW i \in 1 .. 9, NEW j \in 1 .. 9, NEW t, NEW u, Place(i, t) = Place(j, u)
  PROVE  i = j /\ (i <= 4 \/ t = u)
  BY OutputNames DEF Place

\* Every output was made from whole files, and an analysis that has listed the
\* files has found all of them; what it wrote it made from what it loaded.
WrittenFromWhole ==
  /\ DOMAIN out = Places /\ theme \in Themes
  /\ pc \in {"idle", "list", "read", "records", "write"} /\ stage \in 1 .. 10
  /\ loaded \subseteq whole
  /\ \A o \in Places : out[o] \subseteq whole

\* An analysis reads what was there when it listed the files, and all that its
\* previous outputs were made from; what it has written was made from all it read.
ListedAll ==
  /\ pc \in {"list", "idle"} => loaded = {}
  /\ pc = "read" => \A o \in Places : out[o] \subseteq pending \cup loaded
  /\ pc \in {"records", "write"} =>
       /\ \A o \in Places : out[o] \subseteq loaded
       /\ \A i \in 1 .. 9 : i < stage => out[Place(i, theme)] = loaded

\* An earlier output was made from no fewer files than a later one.
InStep ==
  \A t \in Themes : \A i, j \in 1 .. 9 : i <= j => out[Place(j, t)] \subseteq out[Place(i, t)]

\* The inductive invariant of the analyses.
SInv == WrittenFromWhole /\ ListedAll /\ InStep

\* A place for every output and theme.
LEMMA PlacesAre == \A i \in 1 .. 9, t \in Themes : Place(i, t) \in Places
  BY OutputNames DEF Places

\* It holds before the first analysis.
LEMMA StudyStart == StudyInit => SInv
<1> SUFFICES ASSUME StudyInit PROVE SInv
  OBVIOUS
<1>1. loaded = {} /\ \A o \in Places : out[o] = {}
  BY DEF StudyInit, loaded
<1> QED
  BY <1>1, PlacesAre
  DEF StudyInit, SInv, WrittenFromWhole, ListedAll, InStep, Themes

\* Outputs that do not change stay in step.
LEMMA StaysInStep == ASSUME InStep, UNCHANGED out PROVE InStep'
  BY DEF InStep, Place

\* A process begins or ends with nothing loaded.
LEMMA EmptyHanded ==
  ASSUME SInv, UNCHANGED <<out, stage>>, runs' = <<>>, whole \subseteq whole',
         pc' \in {"idle", "list"}, theme' \in Themes
  PROVE  SInv'
<1>1. loaded' = {}
  BY DEF loaded
<1>2. WrittenFromWhole'
  BY <1>1 DEF SInv, WrittenFromWhole, Places, Place
<1>3. ListedAll'
  BY <1>1 DEF ListedAll
<1> QED
  BY <1>2, <1>3, StaysInStep DEF SInv

\* A step that writes nothing and loads nothing.
LEMMA Unwritten ==
  ASSUME SInv, UNCHANGED <<out, pc, stage, theme, pending>>, loaded' = loaded,
         whole \subseteq whole'
  PROVE  SInv'
<1>1. WrittenFromWhole' /\ ListedAll'
  BY DEF SInv, WrittenFromWhole, ListedAll, Place, Places
<1> QED
  BY <1>1, StaysInStep DEF SInv

\* The sweep adds whole files and removes none.
LEMMA SweepGrows == [SweepNext]_sweepVars => whole \subseteq whole'
  BY DEF SweepNext, Launch, Kill, TakeRun, ListRead, Book, Measure, Open, Save, Break, TakeDown,
         TakeDownFails, sweepVars

\* An output is written after all those before it, by a process that found all
\* files the others were made from.
LEMMA WriteStep == ASSUME SInv, Write PROVE SInv'
<1>1. /\ pc = "write" /\ stage \in 1 .. 9 /\ stage' = stage + 1 /\ pc' \in {"records", "write"}
      /\ UNCHANGED <<sweepVars, theme, runs>> /\ theme \in Themes
      /\ out' = [out EXCEPT ![Place(stage, theme)] = loaded]
  BY OutputNames DEF Write, StageFiles, SInv, WrittenFromWhole
<1>2. loaded' = loaded /\ whole' = whole
  BY <1>1 DEF loaded, sweepVars
<1>3. Place(stage, theme) \in Places /\ DOMAIN out = Places
  BY <1>1, PlacesAre DEF SInv, WrittenFromWhole
<1>4. \A o \in Places : out'[o] = IF o = Place(stage, theme) THEN loaded ELSE out[o]
  BY <1>1, <1>3
<1>5. \A o \in Places : out[o] \subseteq loaded
  BY <1>1 DEF SInv, ListedAll
<1>6. WrittenFromWhole'
  BY <1>1, <1>2, <1>4 DEF SInv, WrittenFromWhole, Places
<1>7. \A i \in 1 .. 9 : i < stage' => out'[Place(i, theme)] = loaded
  <2> SUFFICES ASSUME NEW i \in 1 .. 9, i < stage + 1 PROVE out'[Place(i, theme)] = loaded
    BY <1>1
  <2>1. Place(i, theme) \in Places
    BY <1>1, PlacesAre
  <2>2. i = stage \/ i < stage
    BY <1>1
  <2> QED
    BY <1>1, <1>4, <2>1, <2>2 DEF SInv, ListedAll
<1>8. ListedAll'
  BY <1>1, <1>2, <1>4, <1>5, <1>7 DEF ListedAll, Place, Places
<1>9. InStep'
  <2> SUFFICES ASSUME NEW t \in Themes, NEW i \in 1 .. 9, NEW j \in 1 .. 9, i <= j
               PROVE  out'[Place(j, t)] \subseteq out'[Place(i, t)]
    BY DEF InStep, Place
  <2>1. Place(i, t) \in Places /\ Place(j, t) \in Places
    BY PlacesAre
  <2>2. CASE Place(j, t) = Place(stage, theme)
    <3>1. j = stage /\ (j <= 4 \/ t = theme)
      BY <1>1, <2>2, PlacesDiffer
    <3>2. Place(i, t) = Place(i, theme)
      BY <3>1, OutputNames DEF Place
    <3>3. out'[Place(i, theme)] = loaded
      BY <1>1, <1>7, <3>1
    <3> QED
      BY <1>4, <2>1, <2>2, <3>2, <3>3
  <2>3. CASE Place(j, t) # Place(stage, theme)
    <3>1. out'[Place(j, t)] = out[Place(j, t)] /\ out[Place(j, t)] \subseteq loaded
      BY <1>4, <1>5, <2>1, <2>3
    <3>2. out[Place(j, t)] \subseteq out[Place(i, t)]
      BY DEF SInv, InStep
    <3> QED
      BY <1>4, <2>1, <3>1, <3>2
  <2> QED
    BY <2>2, <2>3
<1> QED
  BY <1>6, <1>8, <1>9 DEF SInv

\* The other steps of an analysis only list, read and compute.
LEMMA AnalysisStep == SInv /\ [StudyNext]_studyVars => SInv'
<1> SUFFICES ASSUME SInv, [StudyNext]_studyVars PROVE SInv'
  OBVIOUS
<1>1. CASE SweepNext /\ UNCHANGED analysisVars
  <2>1. whole \subseteq whole' /\ loaded' = loaded
    BY <1>1, SweepGrows DEF analysisVars, loaded
  <2>2. UNCHANGED <<out, pc, stage, theme, pending>>
    BY <1>1 DEF analysisVars
  <2> QED
    BY <2>1, <2>2, Unwritten
<1>2. CASE Analyse \/ ReadTorn \/ Raise \/ Drawn \/ Interrupt
  <2>1. /\ UNCHANGED <<out, stage, whole>> /\ runs' = <<>>
        /\ pc' \in {"idle", "list"} /\ theme' \in Themes
    BY <1>2 DEF Analyse, ReadTorn, Raise, Drawn, Interrupt, Begin, End, sweepVars, Themes, SInv,
                WrittenFromWhole
  <2> QED
    BY <2>1, EmptyHanded
<1>3. CASE List
  <2>1. loaded' = loaded
    BY <1>3 DEF List, loaded
  <2>2. /\ UNCHANGED <<out, stage, theme, whole>> /\ pc = "list" /\ pc' = "read"
        /\ whole \subseteq pending'
    BY <1>3 DEF List, sweepVars
  <2>3. WrittenFromWhole' /\ ListedAll'
    BY <2>1, <2>2 DEF SInv, WrittenFromWhole, ListedAll, Place, Places
  <2> QED
    BY <2>2, <2>3, StaysInStep DEF SInv
<1>4. CASE Read
  <2>1. PICK f \in pending : /\ f \in whole /\ pending' = pending \ {f}
                             /\ loaded' = loaded \cup {f}
    BY <1>4 DEF Read, loaded
  <2>2. UNCHANGED <<out, stage, theme, pc, whole>> /\ pc = "read"
    BY <1>4 DEF Read, sweepVars
  <2>3. WrittenFromWhole' /\ ListedAll'
    BY <2>1, <2>2 DEF SInv, WrittenFromWhole, ListedAll, Place, Places
  <2> QED
    BY <2>2, <2>3, StaysInStep DEF SInv
<1>5. CASE ReadAll
  <2>1. /\ loaded' = loaded /\ UNCHANGED <<out, theme, whole>> /\ pc = "read" /\ pending = {}
        /\ \/ loaded = {} /\ pc' = "records" /\ stage' = 3
           \/ pc' = "write" /\ stage' = 1
    BY <1>5 DEF ReadAll, loaded, sweepVars
  <2>2. \A o \in Places : out[o] \subseteq loaded
    BY <2>1 DEF SInv, ListedAll
  <2>3. \A i \in 1 .. 9 : i < stage' => out[Place(i, theme)] = loaded
    <3> TAKE i \in 1 .. 9
    <3> HAVE i < stage'
    <3>1. loaded = {} \/ stage' = 1
      BY <2>1
    <3>2. loaded = {}
      BY <3>1
    <3>3. theme \in Themes /\ Place(i, theme) \in Places
      BY PlacesAre DEF SInv, WrittenFromWhole
    <3>4. out[Place(i, theme)] \subseteq {}
      BY <2>2, <3>2, <3>3, Zenon
    <3>5. out' = out
      BY <2>1
    <3> QED
      BY <3>2, <3>4, <3>5
  <2>4. WrittenFromWhole'
    BY <2>1 DEF SInv, WrittenFromWhole, Place, Places
  <2>5. ListedAll'
    BY <2>1, <2>2, <2>3 DEF ListedAll, Place, Places
  <2> QED
    BY <2>1, <2>4, <2>5, StaysInStep DEF SInv
<1>6. CASE Records
  <2>1. /\ loaded' = loaded /\ UNCHANGED <<out, stage, theme, whole>>
        /\ pc = "records" /\ pc' = "write"
    BY <1>6 DEF Records, loaded, sweepVars
  <2>2. WrittenFromWhole' /\ ListedAll'
    BY <2>1 DEF SInv, WrittenFromWhole, ListedAll, Place, Places
  <2> QED
    BY <2>1, <2>2, StaysInStep DEF SInv
<1>7. CASE UNCHANGED studyVars
  <2>1. UNCHANGED <<out, pc, stage, theme, pending>> /\ loaded' = loaded /\ whole' = whole
    BY <1>7 DEF studyVars, sweepVars, analysisVars, loaded
  <2> QED
    BY <2>1, Unwritten
<1> QED
  BY <1>1, <1>2, <1>3, <1>4, <1>5, <1>6, <1>7, WriteStep DEF StudyNext, AnalysisNext

\* However analyses are interrupted, and however many result files appear beside
\* them, every output was made from whole files and from no file that an output
\* written before it was not made from too.
THEOREM OutputsAgree == StudySpec => []OutputsInStep
<1>1. SInv => OutputsInStep
  BY OutputNames DEF SInv, InStep, WrittenFromWhole, OutputsInStep
<1> QED
  BY <1>1, StudyStart, AnalysisStep, PTL DEF StudySpec

-----------------------------------------------------------------------------
(* What a schedule guarantees and what the trials survive.                 *)

\* The trials of a schedule: every sequence of draws, and what its waits sum to.
LEMMA TrialsAre ==
  ASSUME NEW s \in Strategies, NEW b \in Nat \ {0}
  PROVE  LET D == [1 .. b - 1 -> 0 .. Grid - 1] IN
         /\ IsFiniteSet(D) /\ McWaitSums(s, b) \in [D -> Nat]
         /\ \A d \in D : GuaranteedSum(s, b) <= McWaitSums(s, b)[d]
         /\ \A d \in D : Reach(s, McWaitSums(s, b)[d], b - 1)
         /\ \E d \in D : McWaitSums(s, b)[d] = GuaranteedSum(s, b)
<1> DEFINE D == [1 .. b - 1 -> 0 .. Grid - 1]
           M == McWaitSums(s, b)
<1>1. b - 1 \in Nat /\ (b - 1) + 1 = b /\ Grid \in Nat \ {0}
  BY WaitsAssumption
<1>2. IsFiniteSet(D)
  <2> DEFINE U == 0 .. Grid - 1
  <2>1. IsFiniteSet(U)
    <3>1. 0 \in Int /\ Grid - 1 \in Int
      BY <1>1
    <3> QED
      BY <3>1, FS_Interval
  <2> HIDE DEF U
  <2>2. \A n \in Nat : IsFiniteSet([1 .. n -> U])
    BY <2>1, FinitelyMany
  <2> QED
    BY <1>1, <2>2 DEF U
<1>3. M = [d \in D |-> WaitSum(s, d)]
  BY DEF McWaitSums
<1>4. \A d \in D : M[d] = WaitSum(s, d)
  BY <1>3
<1>5. \A d \in D : /\ M[d] \in Nat /\ GuaranteedSum(s, b) <= M[d] /\ Reach(s, M[d], b - 1)
                   /\ (\A n \in 1 .. b - 1 : d[n] = 0) => M[d] = GuaranteedSum(s, b)
  <2> SUFFICES ASSUME NEW d \in D
               PROVE  /\ WaitSum(s, d) \in Nat /\ GuaranteedSum(s, b) <= WaitSum(s, d)
                      /\ Reach(s, WaitSum(s, d), b - 1)
                      /\ (\A n \in 1 .. b - 1 : d[n] = 0) => WaitSum(s, d) = GuaranteedSum(s, b)
    BY <1>4
  <2>1. PICK m \in Nat : m = b - 1
    BY <1>1
  <2>2. d \in [1 .. m -> 0 .. Grid - 1] /\ m + 1 = b
    BY <1>1, <2>1
  <2> QED
    BY <2>1, <2>2, WaitSumFacts
<1>6. M \in [D -> Nat]
  <2>1. \A d \in D : WaitSum(s, d) \in Nat
    BY <1>4, <1>5
  <2> QED
    BY <1>3, <2>1
<1>7. \E d \in D : M[d] = GuaranteedSum(s, b)
  <2> DEFINE d0 == [n \in 1 .. b - 1 |-> 0]
  <2>1. d0 \in D /\ \A n \in 1 .. b - 1 : d0[n] = 0
    BY <1>1
  <2> HIDE DEF d0
  <2> QED
    BY <1>5, <2>1
<1> QED
  BY <1>2, <1>5, <1>6, <1>7

\* The guaranteed sums are natural numbers.
LEMMA Guaranteed == \A s \in Strategies, b \in Nat \ {0} : GuaranteedSum(s, b) \in Nat
<1> SUFFICES ASSUME NEW s \in Strategies, NEW b \in Nat \ {0} PROVE GuaranteedSum(s, b) \in Nat
  OBVIOUS
<1>1. PICK d \in [1 .. b - 1 -> 0 .. Grid - 1] : McWaitSums(s, b)[d] = GuaranteedSum(s, b)
  BY TrialsAre
<1>2. McWaitSums(s, b)[d] \in Nat
  BY <1>1, TrialsAre
<1> QED
  BY <1>1, <1>2

\* Predicted survival leaves 100 % at the guaranteed sum, and never grows.
LEMMA CurveLeavesAtReach ==
  ASSUME NEW s \in Strategies, NEW w \in 0 .. Longest
  PROVE  /\ SurvivalCurve[s][w] = Trials <=> w <= GuaranteedSum(s, OutageAttempts)
         /\ w > 0 => SurvivalCurve[s][w] <= SurvivalCurve[s][w - 1]
<1> DEFINE D == [1 .. OutageAttempts - 1 -> 0 .. Grid - 1]
           f == McWaitSums(s, OutageAttempts)
<1>1. OutageAttempts \in Nat \ {0} /\ Longest \in Nat
  BY AnalysisAssumption, WaitsAssumption, Product DEF Longest
<1>2. Trials = Cardinality(D)
  <2>1. "none" \in Strategies
    BY DEF Strategies
  <2>2. DOMAIN Sums["none"] = D
    BY <2>1 DEF Sums, McWaitSums
  <2> QED
    BY <2>2 DEF Trials
<1>3. /\ IsFiniteSet(D) /\ f \in [D -> Nat]
      /\ \A d \in D : GuaranteedSum(s, OutageAttempts) <= f[d]
      /\ \E d \in D : f[d] = GuaranteedSum(s, OutageAttempts)
  BY <1>1, TrialsAre
<1>4. Sums[s] = f
  BY DEF Sums
<1>5. \A x \in 0 .. Longest : SurvivalCurve[s][x] = SurvivalCount(f, 4 * x)
  BY <1>4 DEF SurvivalCurve, SurvivalGrid
<1> HIDE DEF D, f
<1>6. GuaranteedSum(s, OutageAttempts) \in Nat
  BY <1>1, Guaranteed
<1>7. SurvivalCount(f, 4 * w) = Cardinality(D) <=> \A d \in D : 4 * w <= 4 * f[d]
  <2>1. 4 * w \in Int /\ 4 * w <= 4 * w
    OBVIOUS
  <2> QED
    BY <1>3, <2>1, SurvivalFacts
<1>8. (\A d \in D : 4 * w <= 4 * f[d]) <=> w <= GuaranteedSum(s, OutageAttempts)
  <2>1. \A d \in D : f[d] \in Nat
    BY <1>3
  <2>2. w \in Nat
    OBVIOUS
  <2> QED
    BY <1>3, <1>6, <2>1, <2>2
<1>9. ASSUME w > 0 PROVE SurvivalCurve[s][w] <= SurvivalCurve[s][w - 1]
  <2>1. w - 1 \in 0 .. Longest /\ 4 * (w - 1) \in Int /\ 4 * w \in Int /\ 4 * (w - 1) <= 4 * w
    BY <1>1, <1>9
  <2>2. SurvivalCount(f, 4 * w) <= SurvivalCount(f, 4 * (w - 1))
    BY <1>3, <2>1, SurvivalFacts
  <2> QED
    BY <1>5, <2>1, <2>2
<1> QED
  BY <1>2, <1>5, <1>7, <1>8, <1>9

\* The reach of equal jitter begins at the guaranteed sum and stays below the
\* exponential one.
LEMMA ReachOfEqualJitter ==
  ASSUME NEW b \in Nat \ {0}
  PROVE  LET reach == EqualJitterReach(b) IN
         /\ reach.least = reach.floor /\ reach.floor = GuaranteedSum("equal_jitter", b)
         /\ reach.greatest <= reach.most
<1> DEFINE s == "equal_jitter"
           D == [1 .. b - 1 -> 0 .. Grid - 1]
           f == McWaitSums(s, b)
           sums == {f[d] : d \in D}
           most == ExpSum[b - 1] - (b - 1)
           g == GuaranteedSum(s, b)
<1>1. s \in Strategies /\ b - 1 \in Nat
  BY DEF Strategies
<1>2. /\ f \in [D -> Nat] /\ \A d \in D : g <= f[d] /\ Reach(s, f[d], b - 1)
      /\ \E d \in D : f[d] = g
  BY <1>1, TrialsAre
<1>3. most \in Int /\ g \in Nat /\ g = FloorSum[b - 1]
  <2>1. ExpSum[b - 1] \in Nat
    BY <1>1, ExpSumFacts
  <2> QED
    BY <1>1, <2>1, Guaranteed DEF GuaranteedSum
<1>4. \A d \in D : f[d] <= most
  BY <1>2 DEF Reach
<1>5. sums \in SUBSET Int /\ g \in sums /\ \A y \in sums : g <= y /\ y <= most
  <2>1. \A d \in D : f[d] \in Int
    <3> HIDE DEF D, f
    <3> QED
      BY <1>2
  <2>2. \A y \in sums : \E d \in D : y = f[d]
    OBVIOUS
  <2>3. g \in sums
    BY <1>2
  <2> HIDE DEF sums, f, D, g, most
  <2>4. \A y \in sums : y \in Int /\ g <= y /\ y <= most
    BY <1>2, <1>4, <2>1, <2>2
  <2> QED
    BY <2>3, <2>4
<1>6. EqualJitterReach(b) = [floor |-> FloorSum[b - 1], most |-> most, least |-> Min(sums), greatest |-> Max(sums)]
  <2>1. DOMAIN f = D
    BY <1>2
  <2> QED
    BY <2>1 DEF EqualJitterReach
<1> HIDE DEF sums, most, g, f, D
<1>7. Min(sums) = g
  BY <1>5, MinIs
<1>8. PICK m \in sums : \A y \in sums : y <= m
  <2>1. sums # {}
    BY <1>5
  <2> QED
    BY <1>3, <1>5, <2>1, GreatestExists, Zenon
<1>9. Max(sums) = m
  BY <1>5, <1>8, MaxIs
<1> QED
  BY <1>3, <1>5, <1>6, <1>7, <1>8, <1>9 DEF g

\* The budget said to cover a window is the least that does.
LEMMA BudgetCovers ==
  ASSUME NEW w \in 1 .. Longest
  PROVE  /\ w <= GuaranteedSum("equal_jitter", NeedAttempts(w))
         /\ NeedAttempts(w) > 2 => GuaranteedSum("equal_jitter", NeedAttempts(w) - 1) < w
<1> DEFINE T == {n \in Nat : w <= FloorSum[n]}
           Covers(n) == FloorSum[n] >= w /\ (n > 1 => FloorSum[n - 1] < w)
<1>1. Longest \in Nat /\ w \in Nat /\ w > 0 /\ w <= Longest
  BY AnalysisAssumption, WaitsAssumption, Product DEF Longest
<1>2. \A n \in Nat : FloorSum[n] \in Nat
  BY FloorSumFacts
<1>3. PICK k \in 1 .. 99 : k \in T
  BY <1>1, <1>2, SearchAssumption
<1>d. T \in SUBSET Nat
  OBVIOUS
<1>4. PICK n \in T : \A m \in T : n <= m
  BY <1>3, <1>d, LeastNat
<1>5. n \in Nat /\ n # 0 /\ n <= 99
  <2>1. FloorSum[0] = 0
    BY FloorSumFacts
  <2> QED
    BY <1>1, <1>3, <1>4, <2>1
<1>6. Covers(n)
  <2>1. FloorSum[n] >= w
    BY <1>4
  <2>2. n - 1 \in Nat /\ n - 1 \notin T
    BY <1>4, <1>5
  <2> QED
    BY <1>1, <1>2, <2>1, <2>2
<1>7. \E m \in 1 .. 99 : Covers(m)
  BY <1>5, <1>6
<1>8. PICK m \in 1 .. 99 : NeedAttempts(w) = 1 + m /\ Covers(m)
  BY <1>7 DEF NeedAttempts
<1>9. (1 + m) - 1 = m /\ ((1 + m) - 1) - 1 = m - 1 /\ m \in Nat /\ m - 1 \in Nat
  BY <1>8
<1>10. GuaranteedSum("equal_jitter", 1 + m) = FloorSum[m] /\ GuaranteedSum("equal_jitter", (1 + m) - 1) = FloorSum[m - 1]
  BY <1>9 DEF GuaranteedSum
<1>11. FloorSum[m] >= w /\ (m > 1 => FloorSum[m - 1] < w)
  BY <1>8
<1> QED
  BY <1>1, <1>2, <1>8, <1>9, <1>10, <1>11

\* The reach the report quotes is where predicted survival leaves 100 %, for every
\* strategy, schedule, base, cap and resolution of the random numbers.
THEOREM ReachQuotedIsSurvived == StudySpec => []ReachIsSurvival
<1>1. ReachIsSurvival
  <2>1. OutageAttempts \in Nat \ {0} /\ DefaultAttempts \in Nat \ {0}
    BY AnalysisAssumption
  <2>2. ExpSchedule[OutageAttempts] = GuaranteedSum("exp", OutageAttempts)
    BY <2>1 DEF ExpSchedule, GuaranteedSum
  <2> QED
    BY <2>1, <2>2, CurveLeavesAtReach, ReachOfEqualJitter, BudgetCovers DEF ReachIsSurvival
<1> QED
  BY <1>1, PTL

-----------------------------------------------------------------------------
(* How a run came about.                                                   *)

\* Where an attempt stands: its time, the waits before it and the memory of the
\* last one.
Standings == [t : Nat, sum : Nat, prev : {p \in Nat : Floor <= p}]

\* Where the first attempt of a reminder stands.
First(c, k) == [t |-> c.due + k * c.stagger, sum |-> 0, prev |-> Floor]

\* The attempt after one that stands at p.
Retry(c, k, n, p) ==
  [t    |-> p.t + ComputeBackoff(c.strategy, n, c.draws[k][n], p.prev) + c.late,
   sum  |-> p.sum + ComputeBackoff(c.strategy, n, c.draws[k][n], p.prev),
   prev |-> Draw(c.draws[k][n], p.prev)]

\* F has the attempts of reminder k, from 0.
IsCourse(F, c, k) ==
  /\ F \in [Nat -> Standings] /\ F[0] = First(c, k)
  /\ \A n \in 1 .. c.budget - 1 : F[n] = Retry(c, k, n, F[n - 1])

\* Numbers of a run are naturals.
LEMMA RunNumbers ==
  ASSUME NEW c, IsRun(c), NEW k \in Cohort
  PROVE  /\ c.due \in Nat /\ c.stagger \in Nat /\ c.late \in Nat /\ c.budget \in Nat \ {0}
         /\ c.strategy \in Strategies /\ c.recover \in Nat /\ c.cut \in Nat
         /\ \A n \in 1 .. c.budget - 1 : c.draws[k][n] \in 0 .. Grid - 1
         /\ c.dice[k] \in Nat /\ (c.failure = 0 => c.dice[k] = 0)
         /\ k \in Nat \ {0} /\ k * c.stagger \in Nat /\ c.stagger <= k * c.stagger
<1>1. k \in Nat \ {0} /\ N \in Nat
  BY CohortAssumption DEF Cohort
<1>2. c.stagger \in Nat
  BY DEF IsRun
<1>3. k * c.stagger \in Nat /\ 1 * c.stagger <= k * c.stagger /\ 1 * c.stagger = c.stagger
  BY <1>1, <1>2, Product
<1> QED
  BY <1>1, <1>2, <1>3 DEF IsRun

\* A retry is where the waits put it.
LEMMA RetryFacts ==
  ASSUME NEW c, IsRun(c), NEW k \in Cohort, NEW n \in 1 .. c.budget - 1, NEW p \in Standings
  PROVE  /\ Retry(c, k, n, p) \in Standings
         /\ p.t \in Nat /\ p.sum \in Nat /\ p.prev \in Nat /\ Floor <= p.prev
         /\ \E w \in Nat : /\ w = ComputeBackoff(c.strategy, n, c.draws[k][n], p.prev)
                           /\ Retry(c, k, n, p).t = p.t + w + c.late
                           /\ Retry(c, k, n, p).sum = p.sum + w
<1>1. n \in Nat \ {0} /\ c.late \in Nat /\ c.strategy \in Strategies /\ c.draws[k][n] \in 0 .. Grid - 1
  BY RunNumbers
<1>2. p.t \in Nat /\ p.sum \in Nat /\ p.prev \in Nat /\ Floor <= p.prev
  BY DEF Standings
<1> DEFINE w == ComputeBackoff(c.strategy, n, c.draws[k][n], p.prev)
           d == Draw(c.draws[k][n], p.prev)
<1>3. w \in Nat
  BY <1>1, <1>2, WaitBounds
<1>4. d \in Nat /\ Floor <= d
  BY <1>1, <1>2, DrawBounds
<1>5. Retry(c, k, n, p) = [t |-> p.t + w + c.late, sum |-> p.sum + w, prev |-> d]
  BY DEF Retry
<1> HIDE DEF w, d
<1>6. Retry(c, k, n, p) \in Standings
  BY <1>1, <1>2, <1>3, <1>4, <1>5 DEF Standings
<1> QED
  BY <1>2, <1>3, <1>5, <1>6 DEF w

\* Every reminder has a course.
LEMMA CourseExists ==
  ASSUME NEW c, IsRun(c), NEW k \in Cohort
  PROVE  \E F : IsCourse(F, c, k)
<1> DEFINE X == Standings
           h == [n \in Nat |-> [p \in X |-> IF n + 1 \in 1 .. c.budget - 1 THEN Retry(c, k, n + 1, p) ELSE p]]
<1>1. h \in [Nat -> [X -> X]]
  <2> SUFFICES ASSUME NEW n \in Nat, NEW p \in X, n + 1 \in 1 .. c.budget - 1
               PROVE  Retry(c, k, n + 1, p) \in X
    OBVIOUS
  <2> QED
    BY RetryFacts
<1>2. First(c, k) \in X
  <2>1. Floor \in Nat
    BY WaitsAssumption, Product DEF Floor
  <2> QED
    BY <2>1, RunNumbers DEF First, Standings
<1>3. \A n \in Nat : n + 1 \in 1 .. c.budget - 1 => \A p \in X : h[n][p] = Retry(c, k, n + 1, p)
  OBVIOUS
<1> HIDE DEF h
<1>4. Stepper(X, First(c, k), h)
  BY <1>1, <1>2 DEF Stepper
<1>5. Recurses(X, First(c, k), h)
  BY <1>4, Recursion
<1>6. PICK F \in [Nat -> X] : F[0] = First(c, k) /\ \A n \in Nat : F[n + 1] = h[n][F[n]]
  BY <1>5 DEF Recurses
<1>7. ASSUME NEW n \in 1 .. c.budget - 1 PROVE F[n] = Retry(c, k, n, F[n - 1])
  <2>1. n - 1 \in Nat /\ (n - 1) + 1 = n
    OBVIOUS
  <2>2. F[n] = h[n - 1][F[n - 1]] /\ F[n - 1] \in X
    BY <1>6, <2>1
  <2>3. h[n - 1][F[n - 1]] = Retry(c, k, (n - 1) + 1, F[n - 1])
    BY <1>3, <2>1, <2>2
  <2> QED
    BY <2>1, <2>2, <2>3
<1> QED
  BY <1>6, <1>7 DEF IsCourse

\* Each attempt is the one of the course.
LEMMA StartOfCourse ==
  ASSUME NEW c, IsRun(c), NEW k \in Cohort, NEW F, IsCourse(F, c, k), NEW i \in 1 .. c.budget
  PROVE  Start(c, k, i) = F[i - 1]
<1> DEFINE Rec(f) == f = [n \in 1 .. i |-> IF n = 1 THEN First(c, k) ELSE Retry(c, k, n - 1, f[n - 1])]
           g == [n \in 1 .. i |-> F[n - 1]]
<1>0. c.budget \in Nat \ {0}
  BY RunNumbers
<1>1. Start(c, k, i) = (CHOOSE f : Rec(f))[i]
  BY DEF Start, First, Retry, Floor
<1>2. Rec(g)
  <2>1. ASSUME NEW n \in 1 .. i PROVE g[n] = IF n = 1 THEN First(c, k) ELSE Retry(c, k, n - 1, g[n - 1])
    <3>1. CASE n = 1
      BY <3>1 DEF IsCourse
    <3>2. CASE n # 1
      <4>1. n - 1 \in 1 .. i /\ n - 1 \in 1 .. c.budget - 1
        BY <1>0, <3>2
      <4>2. g[n] = F[n - 1] /\ g[n - 1] = F[(n - 1) - 1]
        BY <4>1
      <4> QED
        BY <3>2, <4>1, <4>2 DEF IsCourse
    <3> QED
      BY <3>1, <3>2
  <2> QED
    BY <2>1
<1>3. PICK f : Rec(f) /\ Start(c, k, i) = f[i]
  BY <1>1, <1>2
<1>4. \A n \in 1 .. i : f[n] = IF n = 1 THEN First(c, k) ELSE Retry(c, k, n - 1, f[n - 1])
  BY <1>3
<1> DEFINE T == {n \in Nat : n + 1 \in 1 .. i => f[n + 1] = F[n]}
<1>5. 0 \in T
  BY <1>4 DEF IsCourse
<1>6. ASSUME NEW n \in Nat, n \in T PROVE n + 1 \in T
  <2> SUFFICES ASSUME (n + 1) + 1 \in 1 .. i PROVE f[(n + 1) + 1] = F[n + 1]
    OBVIOUS
  <2>1. n + 1 \in 1 .. i /\ n + 1 \in 1 .. c.budget - 1 /\ (n + 1) + 1 # 1 /\ ((n + 1) + 1) - 1 = n + 1
        /\ (n + 1) - 1 = n
    BY <1>0
  <2>2. f[n + 1] = F[n]
    BY <1>6, <2>1
  <2>3. f[(n + 1) + 1] = Retry(c, k, n + 1, f[n + 1])
    BY <1>4, <2>1
  <2>4. F[n + 1] = Retry(c, k, n + 1, F[n])
    BY <2>1 DEF IsCourse
  <2> QED
    BY <2>2, <2>3, <2>4
<1> HIDE DEF T
<1>7. Nat \subseteq T
  BY <1>5, <1>6, Induct
<1>8. i - 1 \in T /\ (i - 1) + 1 = i
  BY <1>7
<1> QED
  BY <1>3, <1>8 DEF T

\* An attempt comes after the stagger, the waits and the delays before it; the waits
\* are in reach; and no later attempt comes earlier.
LEMMA AttemptFacts ==
  ASSUME NEW c, IsRun(c), NEW k \in Cohort
  PROVE  \A i \in 1 .. c.budget :
           /\ Start(c, k, i).t \in Nat /\ Start(c, k, i).sum \in Nat
           /\ Start(c, k, i).t = c.due + k * c.stagger + Start(c, k, i).sum + (i - 1) * c.late
           /\ Reach(c.strategy, Start(c, k, i).sum, i - 1)
           /\ \A j \in 1 .. i : Start(c, k, j).t <= Start(c, k, i).t
<1>1. PICK F : IsCourse(F, c, k)
  BY CourseExists
<1> DEFINE b == c.budget
           s == c.strategy
           A == c.due + k * c.stagger
           Q(n) == /\ F[n] \in Standings /\ F[n].t \in Nat /\ F[n].sum \in Nat
                   /\ F[n].t = A + F[n].sum + n * c.late
                   /\ Reach(s, F[n].sum, n)
                   /\ \A m \in 0 .. n : F[m].t <= F[n].t
           T == {n \in Nat : n + 1 <= b => Q(n)}
<1>2. b \in Nat \ {0} /\ A \in Nat /\ c.late \in Nat /\ s \in Strategies
  BY RunNumbers
<1>3. /\ F \in [Nat -> Standings] /\ F[0].t = A /\ F[0].sum = 0
      /\ \A n \in 1 .. b - 1 : F[n] = Retry(c, k, n, F[n - 1])
  BY <1>1 DEF IsCourse, First
<1> HIDE DEF b, s, A
<1>4. Q(0)
  <2>1. ExpSum[0] = 0 /\ FloorSum[0] = 0 /\ Base \in Nat /\ Cap \in Nat
    BY ExpSumFacts, FloorSumFacts, WaitsAssumption
  <2>2. Reach(s, 0, 0)
    BY <2>1 DEF Reach
  <2>3. 0 * c.late = 0 /\ F[0] \in Standings
    BY <1>2, <1>3
  <2>4. \A m \in 0 .. 0 : F[m].t <= F[0].t
    BY <1>2, <1>3
  <2> QED
    BY <1>2, <1>3, <2>2, <2>3, <2>4
<1>5. ASSUME NEW n \in Nat, Q(n), (n + 1) + 1 <= b PROVE Q(n + 1)
  <2>1. n + 1 \in 1 .. b - 1 /\ n + 1 \in Nat \ {0} /\ (n + 1) - 1 = n
    BY <1>2, <1>5
  <2>2. F[n + 1] = Retry(c, k, n + 1, F[n]) /\ F[n + 1] \in Standings
    BY <1>3, <2>1
  <2>3. PICK w \in Nat : /\ w = ComputeBackoff(s, n + 1, c.draws[k][n + 1], F[n].prev)
                         /\ F[n + 1].t = F[n].t + w + c.late
                         /\ F[n + 1].sum = F[n].sum + w
    BY <1>5, <2>1, <2>2, RetryFacts DEF b, s
  <2>4. F[n].prev \in Nat /\ Floor <= F[n].prev /\ c.draws[k][n + 1] \in 0 .. Grid - 1
    BY <1>5, <2>1, RunNumbers DEF Standings, b
  <2>5. Reach(s, F[n].sum + w, n + 1)
    <3>1. PICK x \in Nat, p \in Nat, u \in 0 .. Grid - 1 :
            x = F[n].sum /\ p = F[n].prev /\ u = c.draws[k][n + 1] /\ Floor <= p /\ Reach(s, x, n)
      BY <1>5, <2>4
    <3>2. Reach(s, x + ComputeBackoff(s, n + 1, u, p), n + 1)
      BY <1>2, <3>1, ReachGrows
    <3> QED
      BY <2>3, <3>1, <3>2
  <2>6. (n + 1) * c.late = n * c.late + c.late /\ n * c.late \in Nat
    <3>1. \A l \in Nat : (n + 1) * l = n * l + l /\ n * l \in Nat
      OBVIOUS
    <3> QED
      BY <1>2, <3>1
  <2> DEFINE y == n * c.late
             z == (n + 1) * c.late
  <2>7. z = y + c.late /\ y \in Nat /\ F[n].t = A + F[n].sum + y
    BY <1>5, <2>6
  <2> HIDE DEF y, z
  <2>8. /\ F[n + 1].t \in Nat /\ F[n + 1].sum \in Nat /\ F[n].t <= F[n + 1].t
        /\ F[n + 1].t = A + F[n + 1].sum + z
    BY <1>2, <1>5, <2>3, <2>7
  <2>9. \A m \in 0 .. n + 1 : F[m].t <= F[n + 1].t
    <3> SUFFICES ASSUME NEW m \in 0 .. n + 1, m # n + 1 PROVE F[m].t <= F[n + 1].t
      BY <2>8
    <3>1. m \in 0 .. n /\ F[m].t \in Nat
      BY <1>3 DEF Standings
    <3>2. F[m].t <= F[n].t
      BY <1>5, <3>1
    <3> QED
      BY <1>5, <2>8, <3>1, <3>2
  <2>10. Reach(s, F[n + 1].sum, n + 1)
    BY <2>3, <2>5
  <2>11. F[n + 1].t = A + F[n + 1].sum + (n + 1) * c.late
    BY <2>8 DEF z
  <2> QED
    BY <2>2, <2>8, <2>9, <2>10, <2>11
<1>6. 0 \in T /\ \A n \in Nat : n \in T => n + 1 \in T
  <2>1. \A n \in Nat : (n + 1) + 1 <= b => n + 1 <= b
    BY <1>2
  <2> HIDE DEF Q
  <2> QED
    BY <1>4, <1>5, <2>1
<1> HIDE DEF T
<1>7. Nat \subseteq T
  BY <1>6, Induct
<1>8. ASSUME NEW i \in 1 .. b
      PROVE  Start(c, k, i) = F[i - 1] /\ Q(i - 1)
  <2>1. i - 1 \in T /\ (i - 1) + 1 <= b
    BY <1>2, <1>7
  <2>2. Start(c, k, i) = F[i - 1]
    BY <1>1, <1>8, StartOfCourse DEF b
  <2> HIDE DEF Q
  <2> QED
    BY <2>1, <2>2 DEF T
<1> SUFFICES ASSUME NEW i \in 1 .. b
             PROVE  /\ Start(c, k, i).t \in Nat /\ Start(c, k, i).sum \in Nat
                    /\ Start(c, k, i).t = A + Start(c, k, i).sum + (i - 1) * c.late
                    /\ Reach(s, Start(c, k, i).sum, i - 1)
                    /\ \A j \in 1 .. i : Start(c, k, j).t <= Start(c, k, i).t
  BY DEF A, s, b
<1>9. Q(i - 1) /\ Start(c, k, i) = F[i - 1]
  BY <1>8
<1>10. ASSUME NEW j \in 1 .. i PROVE Start(c, k, j).t <= Start(c, k, i).t
  <2>1. j - 1 \in 0 .. i - 1 /\ j \in 1 .. b
    BY <1>2
  <2>2. Start(c, k, j) = F[j - 1]
    BY <1>8, <2>1
  <2> QED
    BY <1>9, <2>1, <2>2
<1> QED
  BY <1>9, <1>10

\* The last attempt there can be is the first one accepted, or none before the
\* last of the budget is.
LEMMA LastAttemptFacts ==
  ASSUME NEW c, IsRun(c), NEW k \in Cohort
  PROVE  /\ LastAttempt(c, k) \in 1 .. c.budget
         /\ LastAttempt(c, k) = c.budget \/ Accepts(c, k, LastAttempt(c, k))
         /\ \A i \in 1 .. c.budget : i < LastAttempt(c, k) => ~Accepts(c, k, i)
<1> DEFINE S == {i \in 1 .. c.budget : i = c.budget \/ Accepts(c, k, i)}
<1>1. c.budget \in Nat \ {0}
  BY RunNumbers
<1>2. S \in SUBSET Nat /\ S # {}
  <2>1. c.budget \in S
    BY <1>1
  <2> QED
    BY <2>1
<1>3. PICK m \in S : \A y \in S : m <= y
  BY <1>2, LeastNat
<1>4. LastAttempt(c, k) = Min(S)
  BY DEF LastAttempt
<1>5. \A i \in 1 .. c.budget : i \in S <=> (i = c.budget \/ Accepts(c, k, i))
  OBVIOUS
<1>6. S \in SUBSET (1 .. c.budget)
  OBVIOUS
<1> HIDE DEF S
<1>7. S \in SUBSET Int
  BY <1>2
<1>8. LastAttempt(c, k) = m
  BY <1>3, <1>4, <1>7, MinIs
<1>9. m \in 1 .. c.budget /\ (m = c.budget \/ Accepts(c, k, m))
  BY <1>5, <1>6
<1>10. ASSUME NEW i \in 1 .. c.budget, i < m PROVE ~Accepts(c, k, i)
  <2>1. i \notin S
    <3>1. i \in S => m <= i
      BY <1>3
    <3> QED
      BY <1>9, <1>10, <3>1
  <2> QED
    BY <1>5, <2>1
<1> QED
  BY <1>8, <1>9, <1>10

\* The order of the log.
InTime(c) == {p \in Entries(c) \X Entries(c) : Before(p[1], p[2])}

\* The entries are what was made, finitely many and in one order.
LEMMA EntryFacts ==
  ASSUME NEW c, IsRun(c)
  PROVE  /\ \A k \in Cohort : \A i \in Made(c, k) :
              <<Start(c, k, i).t, k, i>> \in Entries(c) /\ i \in 1 .. c.budget
         /\ \A a \in Entries(c) : \E k \in Cohort : \E i \in Made(c, k) :
              /\ a = <<Start(c, k, i).t, k, i>> /\ i \in 1 .. c.budget
              /\ Start(c, k, i).t \in Nat
         /\ IsFiniteSet(Entries(c)) /\ Orders(InTime(c), Entries(c))
<1> DEFINE E == Entries(c)
           b == c.budget
<1>1. b \in Nat \ {0} /\ \A k \in Cohort : LastAttempt(c, k) \in 1 .. b
  <2>1. b \in Nat \ {0}
    BY DEF IsRun
  <2> QED
    BY <2>1, LastAttemptFacts
<1>2. \A k \in Cohort : \A i \in Made(c, k) : i \in 1 .. b /\ Start(c, k, i).t \in Nat
  <2> SUFFICES ASSUME NEW k \in Cohort, NEW i \in Made(c, k)
               PROVE  i \in 1 .. b /\ Start(c, k, i).t \in Nat
    OBVIOUS
  <2>1. i \in 1 .. b
    BY <1>1 DEF Made
  <2> QED
    BY <2>1, AttemptFacts
<1>3. \A k \in Cohort : \A i \in Made(c, k) : <<Start(c, k, i).t, k, i>> \in E
  BY DEF Entries
<1>4. \A a \in E : \E k \in Cohort : \E i \in Made(c, k) : a = <<Start(c, k, i).t, k, i>>
  BY DEF Entries
<1> HIDE DEF E, b
<1>5. \A a \in E : \E k \in Cohort : \E i \in 1 .. b :
        a = <<Start(c, k, i).t, k, i>> /\ i \in Made(c, k) /\ Start(c, k, i).t \in Nat
  BY <1>2, <1>4
<1>6. IsFiniteSet(E)
  <2> DEFINE U == 1 .. b
             B == Cohort \X U
             f == [a \in E |-> <<a[2], a[3]>>]
  <2>1. IsFiniteSet(Cohort) /\ IsFiniteSet(U)
    <3>1. 1 \in Int /\ N \in Int /\ b \in Int
      BY <1>1, CohortAssumption
    <3> QED
      BY <3>1, FS_Interval DEF Cohort
  <2>2. f \in [E -> B]
    <3> SUFFICES ASSUME NEW a \in E PROVE <<a[2], a[3]>> \in B
      OBVIOUS
    <3>1. PICK k \in Cohort, i \in U : a = <<Start(c, k, i).t, k, i>>
      BY <1>5
    <3> QED
      BY <3>1
  <2>3. ASSUME NEW x \in E, NEW y \in E, f[x] = f[y] PROVE x = y
    <3>1. PICK k \in Cohort, i \in U : x = <<Start(c, k, i).t, k, i>>
      BY <1>5
    <3>2. PICK l \in Cohort, j \in U : y = <<Start(c, l, j).t, l, j>>
      BY <1>5
    <3>3. f[x] = <<k, i>> /\ f[y] = <<l, j>>
      BY <3>1, <3>2
    <3>4. k = l /\ i = j
      BY <2>3, <3>3
    <3> QED
      BY <3>1, <3>2, <3>4
  <2> HIDE DEF U
  <2>4. IsFiniteSet(B)
    BY <2>1, FS_Product
  <2> HIDE DEF f, B
  <2>5. f \in Injection(E, B)
    BY <2>2, <2>3 DEF Injection, IsInjective
  <2> QED
    BY <2>4, <2>5, FS_Injection
<1>7. Orders(InTime(c), E)
  <2>1. \A x \in E : \E u \in Nat, v \in Nat, w \in Nat : x = <<u, v, w>>
    <3> SUFFICES ASSUME NEW x \in E PROVE \E u \in Nat, v \in Nat, w \in Nat : x = <<u, v, w>>
      OBVIOUS
    <3>1. PICK k \in Cohort, i \in 1 .. b : x = <<Start(c, k, i).t, k, i>> /\ Start(c, k, i).t \in Nat
      BY <1>5
    <3>2. k \in Nat /\ i \in Nat
      BY <1>1, CohortAssumption DEF Cohort
    <3> QED
      BY <3>1, <3>2
  <2>2. \A x \in E, y \in E : <<x, y>> \in InTime(c) <=> Before(x, y)
    BY DEF InTime, E
  <2>3. \A x \in E : ~Before(x, x)
    <3> SUFFICES ASSUME NEW x \in E PROVE ~Before(x, x)
      OBVIOUS
    <3>1. PICK u \in Nat, v \in Nat, w \in Nat : x = <<u, v, w>>
      BY <2>1
    <3> QED
      BY <3>1 DEF Before
  <2>4. \A x \in E, y \in E : x = y \/ Before(x, y) \/ Before(y, x)
    <3> SUFFICES ASSUME NEW x \in E, NEW y \in E PROVE x = y \/ Before(x, y) \/ Before(y, x)
      OBVIOUS
    <3>1. PICK u \in Nat, v \in Nat, w \in Nat : x = <<u, v, w>>
      BY <2>1
    <3>2. PICK p \in Nat, q \in Nat, r \in Nat : y = <<p, q, r>>
      BY <2>1
    <3> QED
      BY <3>1, <3>2 DEF Before
  <2>5. \A x \in E, y \in E, z \in E : Before(x, y) /\ Before(y, z) => Before(x, z)
    <3> SUFFICES ASSUME NEW x \in E, NEW y \in E, NEW z \in E, Before(x, y), Before(y, z)
                 PROVE  Before(x, z)
      OBVIOUS
    <3>1. PICK u \in Nat, v \in Nat, w \in Nat : x = <<u, v, w>>
      BY <2>1
    <3>2. PICK p \in Nat, q \in Nat, r \in Nat : y = <<p, q, r>>
      BY <2>1
    <3>3. PICK d \in Nat, e \in Nat, g \in Nat : z = <<d, e, g>>
      BY <2>1
    <3> QED
      BY <3>1, <3>2, <3>3 DEF Before
  <2> QED
    BY <2>2, <2>3, <2>4, <2>5 DEF Orders
<1> QED
  BY <1>2, <1>3, <1>5, <1>6, <1>7 DEF E, b

\* What the log has of an entry.
Logged(c, a) == [t |-> a[1], ok |-> Accepts(c, a[2], a[3]), key |-> a[2]]

\* The log is every entry in its order.
LEMMA LogInOrder ==
  ASSUME NEW c, IsRun(c)
  PROVE  \E f : /\ Enumerates(f, InTime(c), Entries(c))
                /\ Log(c) = [i \in 1 .. Cardinality(Entries(c)) |-> Logged(c, f[i])]
<1> DEFINE E == Entries(c)
           n == Cardinality(E)
           At(i) == CHOOSE a \in E : Cardinality({b \in E : Before(b, a)}) = i - 1
           nth == [i \in 1 .. n |-> At(i)]
<1>1. Log(c) = [i \in 1 .. n |-> Logged(c, nth[i])]
  BY DEF Log, Logged
<1>2. \A a \in E : Below(InTime(c), E, a) = {b \in E : Before(b, a)}
  BY DEF Below, InTime
<1>3. \A i \in 1 .. n : \A a \in E : Cardinality({b \in E : Before(b, a)}) = i - 1
        => nth[i] \in E /\ Cardinality({b \in E : Before(b, nth[i])}) = i - 1
  <2> SUFFICES ASSUME NEW i \in 1 .. n, NEW a \in E, Cardinality({b \in E : Before(b, a)}) = i - 1
               PROVE  nth[i] \in E /\ Cardinality({b \in E : Before(b, nth[i])}) = i - 1
    OBVIOUS
  <2> DEFINE Placed(x) == Cardinality({b \in E : Before(b, x)}) = i - 1
  <2>1. nth[i] = At(i) /\ At(i) = CHOOSE x \in E : Placed(x)
    OBVIOUS
  <2>2. Placed(a)
    OBVIOUS
  <2> HIDE DEF nth, At, Placed
  <2>3. nth[i] \in E /\ Placed(nth[i])
    BY <2>1, <2>2
  <2> QED
    BY <2>3 DEF Placed
<1> HIDE DEF At
<1>4. nth = [i \in 1 .. n |-> nth[i]]
  OBVIOUS
<1> HIDE DEF nth
<1>5. Ranks(nth, InTime(c), E)
  BY <1>2, <1>3, <1>4 DEF Ranks
<1>6. IsFiniteSet(E) /\ Orders(InTime(c), E)
  BY EntryFacts
<1> HIDE DEF E
<1>7. Enumerates(nth, InTime(c), E)
  BY <1>5, <1>6, InOrder
<1> QED
  BY <1>1, <1>7 DEF E

\* The successes and the failures of a result file's log.
OkAt(r) == {i \in DOMAIN r.log : r.log[i].ok}
FailedAt(r) == {i \in DOMAIN r.log : ~r.log[i].ok}

\* The log is in order; nothing succeeds before the provider is up and, if it fails
\* nothing else, nothing fails after.
LogHolds(r) ==
  /\ r.log \in Seq([t : Nat, ok : BOOLEAN, key : Cohort])
  /\ \A i, j \in DOMAIN r.log : i <= j => r.log[i].t <= r.log[j].t
  /\ \A i \in OkAt(r) : r.up <= r.log[i].t
  /\ r.failure = 0 => \A i \in FailedAt(r) : r.log[i].t < r.up

\* What the database and the counters say is no more than what the log says, and the
\* same once all is settled.
BooksHold(r) ==
  LET ok == Cardinality(OkAt(r))
      failed == Cardinality(FailedAt(r))
  IN  /\ r.n = N /\ r.sent \in Nat /\ r.dead \in Nat /\ r.open \in Nat /\ r.inflight \in Nat
      /\ r.retries \in Nat /\ r.calls \in Nat /\ ok \in Nat /\ failed \in Nat
      /\ (ok = 0 <=> OkAt(r) = {}) /\ Len(r.log) = failed + ok
      /\ r.sent <= ok /\ r.retries <= failed /\ r.calls <= Len(r.log)
      /\ ok + r.dead + r.inflight <= N
      /\ r.open = 0 /\ r.orderly =>
           /\ r.sent = ok /\ r.retries = failed /\ r.calls = Len(r.log)
           /\ r.sent + r.dead = N /\ r.inflight = 0

\* The settings are those of a run, and what is delivered has a latency.
SettingsHold(r) ==
  /\ r.strategy \in Strategies /\ r.failure \in 0 .. 100 /\ r.budget \in Nat \ {0}
  /\ r.recover \in Nat /\ r.up = r.recover
  /\ DOMAIN r.latencies \in SUBSET Cohort /\ \A k \in DOMAIN r.latencies : r.latencies[k] \in Int
  /\ r.sent > 0 => DOMAIN r.latencies # {}

\* The reminders whose waits reach w.
Outlasting(r, w) == {k \in Cohort : w <= r.sums[k]}

\* What survived is what its waits carry past the recovery, as far as the run tells.
SurvivalHolds(r) ==
  /\ r.sums \in [Cohort -> Nat] /\ \A k \in Cohort : Reach(r.strategy, r.sums[k], r.budget - 1)
  /\ r.open = 0 /\ r.orderly /\ r.log # <<>> =>
       /\ r.failure = 0 => Cardinality(Outlasting(r, r.up - r.log[1].t)) <= r.sent
       /\ r.prompt => r.sent <= Cardinality(Outlasting(r, r.up - r.log[1].t))

\* In a finished run without an outage the reminders that fail fewer times than they
\* may be tried are delivered, not before the delays of their attempts, and without
\* waits just then.
Delays(r, k) == k * r.stagger + r.dice[k] * r.late
LatencyHolds(r) ==
  /\ r.late \in Nat /\ r.stagger \in Nat /\ \A k \in Cohort : r.dice[k] \in Nat
  /\ r.recover = 0 /\ r.open = 0 /\ r.orderly =>
       /\ DOMAIN r.latencies = {k \in Cohort : r.dice[k] < r.budget}
       /\ \A k \in DOMAIN r.latencies :
            /\ Delays(r, k) \in Nat /\ Delays(r, k) <= r.latencies[k]
            /\ r.strategy = "none" => r.latencies[k] = Delays(r, k)

\* Which attempt of its reminder entry h of a result file's log is.
NthIn(r, h) == Cardinality({g \in 1 .. h : r.log[g].key = r.log[h].key})

\* Every success comes at an attempt of the budget; in a run of the exponential
\* schedule without late attempts or other failures, at the first its schedule puts
\* after the recovery.
OrderHolds(r) ==
  /\ \A h \in OkAt(r) : NthIn(r, h) \in 1 .. r.budget
  /\ r.strategy = "exp" /\ r.prompt /\ r.failure = 0 =>
       \A h \in OkAt(r) :
         /\ r.up - r.log[1].t <= ExpSum[NthIn(r, h) - 1]
         /\ NthIn(r, h) > 1 => ExpSum[NthIn(r, h) - 2] < r.up - r.log[1].t

\* What is true of every result file that came from a run.
Truthful(r) ==
  /\ LogHolds(r) /\ BooksHold(r) /\ SettingsHold(r) /\ SurvivalHolds(r)
  /\ LatencyHolds(r) /\ OrderHolds(r)

\* The reminders delivered.
SentOf(c) == {k \in Cohort : Done(c, k) /\ Accepts(c, k, LastAttempt(c, k))}
DeadOf(c) == {k \in Cohort : Done(c, k)} \ SentOf(c)

\* The rows of the database, and the calls counted, at T.
SentRows(c, T) == {k \in Cohort : SentAt(c, k, T)}
DeadRows(c, T) == {k \in Cohort : DeadAt(c, k, T)}
OpenRows(c, T) == {k \in Cohort : ~(SentAt(c, k, T) \/ DeadAt(c, k, T))}
CommittedRows(c, T) == {k \in Cohort : Committed(c, k, T)}
EntriesBefore(c, T) == {e \in Entries(c) : e[1] < T}

\* An attempt is accepted once the provider is up, unless it is to fail besides.
LEMMA AcceptedWhenUp ==
  ASSUME NEW c, IsRun(c), NEW k \in Cohort, NEW i \in 1 .. c.budget
  PROVE  /\ Accepts(c, k, i) \in BOOLEAN
         /\ Accepts(c, k, i) => c.recover <= Start(c, k, i).t
         /\ c.failure = 0 => (Accepts(c, k, i) <=> c.recover <= Start(c, k, i).t)
<1>1. /\ c.recover \in Nat /\ c.dice[k] \in Nat /\ (c.failure = 0 => c.dice[k] = 0)
      /\ c.budget \in Nat
  BY RunNumbers
<1>2. Start(c, k, i).t \in Nat
  BY AttemptFacts
<1>3. Accepts(c, k, i) <=> (Start(c, k, i).t >= c.recover /\ i > c.dice[k])
  BY DEF Accepts
<1>4. Accepts(c, k, i) \in BOOLEAN
  BY DEF Accepts
<1>5. i \in Nat \ {0}
  BY <1>1
<1>6. Start(c, k, i).t >= c.recover <=> c.recover <= Start(c, k, i).t
  BY <1>1, <1>2
<1>7. c.failure = 0 => i > c.dice[k]
  BY <1>1, <1>5
<1> QED
  BY <1>3, <1>4, <1>6, <1>7

\* What there is at each place of the log.
LEMMA LogEntry ==
  ASSUME NEW c, IsRun(c), NEW f, Enumerates(f, InTime(c), Entries(c)),
         Log(c) = [i \in 1 .. Cardinality(Entries(c)) |-> Logged(c, f[i])]
  PROVE  /\ Cardinality(Entries(c)) \in Nat /\ DOMAIN Log(c) = 1 .. Cardinality(Entries(c))
         /\ \A i \in DOMAIN Log(c) : \E k \in Cohort : \E j \in Made(c, k) :
              /\ j \in 1 .. c.budget /\ f[i] = <<Start(c, k, j).t, k, j>>
              /\ Log(c)[i].t = Start(c, k, j).t /\ Start(c, k, j).t \in Nat
              /\ Log(c)[i].ok = Accepts(c, k, j) /\ Log(c)[i].key = k
              /\ Log(c)[i] \in [t : Nat, ok : BOOLEAN, key : Cohort]
         /\ \A k \in Cohort : \A j \in Made(c, k) :
              \E i \in DOMAIN Log(c) : f[i] = <<Start(c, k, j).t, k, j>>
<1> DEFINE E == Entries(c)
           n == Cardinality(E)
<1>1. n \in Nat
  BY EntryFacts, FS_CardinalityType
<1>2. f \in [1 .. n -> E] /\ \A a \in E : \E i \in 1 .. n : f[i] = a
  BY DEF Enumerates
<1>3. DOMAIN Log(c) = 1 .. n /\ \A i \in 1 .. n : Log(c)[i] = Logged(c, f[i])
  OBVIOUS
<1>4. ASSUME NEW i \in 1 .. n
      PROVE  \E k \in Cohort : \E j \in Made(c, k) :
              /\ j \in 1 .. c.budget /\ f[i] = <<Start(c, k, j).t, k, j>>
              /\ Log(c)[i].t = Start(c, k, j).t /\ Start(c, k, j).t \in Nat
              /\ Log(c)[i].ok = Accepts(c, k, j) /\ Log(c)[i].key = k
              /\ Log(c)[i] \in [t : Nat, ok : BOOLEAN, key : Cohort]
  <2>1. f[i] \in E
    BY <1>2
  <2>a. PICK k \in Cohort : \E j \in Made(c, k) : /\ f[i] = <<Start(c, k, j).t, k, j>>
                                                  /\ j \in 1 .. c.budget /\ Start(c, k, j).t \in Nat
    BY <2>1, EntryFacts
  <2>2. PICK j \in Made(c, k) : /\ f[i] = <<Start(c, k, j).t, k, j>>
                                /\ j \in 1 .. c.budget /\ Start(c, k, j).t \in Nat
    BY <2>a
  <2>3. Log(c)[i] = [t |-> Start(c, k, j).t, ok |-> Accepts(c, k, j), key |-> k]
    BY <1>3, <2>2 DEF Logged
  <2>4. Accepts(c, k, j) \in BOOLEAN
    BY <2>2, AcceptedWhenUp
  <2> QED
    BY <2>2, <2>3, <2>4
<1>5. ASSUME NEW k \in Cohort, NEW j \in Made(c, k)
      PROVE  \E i \in 1 .. n : f[i] = <<Start(c, k, j).t, k, j>>
  <2>1. <<Start(c, k, j).t, k, j>> \in E
    BY EntryFacts, SMTT(30)
  <2> QED
    BY <1>2, <2>1
<1> QED
  BY <1>1, <1>3, <1>4, <1>5

\* The fields of a result file.
LEMMA ResultFields ==
  ASSUME NEW c
  PROVE  LET r == ResultFile(c) IN
         /\ r.log = Log(c) /\ r.up = c.recover /\ r.recover = c.recover
         /\ r.failure = c.failure /\ r.strategy = c.strategy /\ r.budget = c.budget
         /\ r.n = N /\ r.sent = Cardinality(SentRows(c, c.reads.sent))
         /\ r.dead = Cardinality(DeadRows(c, c.reads.dead))
         /\ r.open = Cardinality(OpenRows(c, c.reads.left))
         /\ r.inflight = Cardinality(Cohort \ (SentOf(c) \cup DeadOf(c)))
         /\ r.orderly = Orderly(c)
         /\ r.calls = Cardinality(EntriesBefore(c, c.reads.calls))
         /\ r.retries = Total([k \in Cohort |-> Attempts(c, k, c.reads.retries)], Cohort)
         /\ r.prompt = (c.late = 0 /\ c.stagger = 0)
         /\ r.sums = [k \in Cohort |-> Start(c, k, c.budget).sum]
         /\ r.latencies = [k \in CommittedRows(c, c.reads.latencies) |->
                              Start(c, k, LastAttempt(c, k)).t - c.due]
<1>1. {k \in Cohort : ~Done(c, k)} = Cohort \ (SentOf(c) \cup DeadOf(c))
  BY DEF SentOf, DeadOf
<1> QED
  BY <1>1 DEF ResultFile, SentRows, DeadRows, OpenRows, EntriesBefore, CommittedRows, Total

\* The log of a run holds.
LEMMA LogOfRun ==
  ASSUME NEW c, IsRun(c)
  PROVE  LogHolds(ResultFile(c))
<1> DEFINE r == ResultFile(c)
           L == Log(c)
           n == Cardinality(Entries(c))
<1>1. r.log = L /\ r.up = c.recover /\ r.failure = c.failure
  BY ResultFields
<1>2. PICK f : Enumerates(f, InTime(c), Entries(c)) /\ L = [i \in 1 .. n |-> Logged(c, f[i])]
  BY LogInOrder
<1>3. n \in Nat /\ DOMAIN L = 1 .. n
  BY <1>2, LogEntry
<1>4. \A i \in 1 .. n : \E k \in Cohort : \E j \in 1 .. c.budget :
        /\ f[i] = <<Start(c, k, j).t, k, j>>
        /\ L[i].t = Start(c, k, j).t /\ Start(c, k, j).t \in Nat
        /\ L[i].ok = Accepts(c, k, j)
        /\ L[i] \in [t : Nat, ok : BOOLEAN, key : Cohort]
  BY <1>2, <1>3, LogEntry, SMTT(30)
<1>5. L = [i \in 1 .. n |-> L[i]]
  BY <1>2
<1> HIDE DEF L, n, r
<1>6. L \in Seq([t : Nat, ok : BOOLEAN, key : Cohort])
  <2> DEFINE S == [t : Nat, ok : BOOLEAN, key : Cohort]
  <2>1. \A i \in 1 .. n : L[i] \in S
    BY <1>4
  <2> HIDE DEF S
  <2>2. L \in [1 .. n -> S]
    BY <1>5, <2>1
  <2>3. L \in Seq(S)
    BY <1>3, <2>2
  <2> QED
    BY <2>3 DEF S
<1>7. ASSUME NEW i \in 1 .. n, NEW j \in 1 .. n, i <= j PROVE L[i].t <= L[j].t
  <2>1. PICK k \in Cohort, x \in 1 .. c.budget :
          f[i] = <<Start(c, k, x).t, k, x>> /\ L[i].t = Start(c, k, x).t /\ L[i].t \in Nat
    BY <1>4
  <2>2. PICK m \in Cohort, y \in 1 .. c.budget :
          f[j] = <<Start(c, m, y).t, m, y>> /\ L[j].t = Start(c, m, y).t /\ L[j].t \in Nat
    BY <1>4
  <2>3. CASE i = j
    BY <2>1, <2>3
  <2>4. CASE i # j
    <3>1. i < j
      BY <1>3, <1>7, <2>4
    <3>2. <<f[i], f[j]>> \in InTime(c)
      BY <1>2, <3>1 DEF Enumerates, n
    <3>3. Before(f[i], f[j])
      BY <3>2 DEF InTime
    <3>4. Start(c, k, x).t \in Nat /\ Start(c, m, y).t \in Nat
      BY <2>1, <2>2
    <3>5. Start(c, k, x).t <= Start(c, m, y).t
      BY <2>1, <2>2, <3>3, <3>4 DEF Before
    <3> QED
      BY <2>1, <2>2, <3>5
  <2> QED
    BY <2>3, <2>4
<1>8. ASSUME NEW i \in 1 .. n
      PROVE  /\ L[i].ok => c.recover <= L[i].t
             /\ c.failure = 0 /\ ~L[i].ok => L[i].t < c.recover
  <2>1. PICK k \in Cohort, j \in 1 .. c.budget :
          L[i].t = Start(c, k, j).t /\ L[i].t \in Nat /\ L[i].ok = Accepts(c, k, j)
    BY <1>4
  <2>2. c.recover \in Nat
    BY DEF IsRun
  <2>3. /\ Accepts(c, k, j) => c.recover <= Start(c, k, j).t
        /\ c.failure = 0 /\ ~Accepts(c, k, j) => ~(c.recover <= Start(c, k, j).t)
    BY AcceptedWhenUp
  <2> QED
    BY <2>1, <2>2, <2>3
<1> SUFFICES LogHolds(r)
  BY DEF r
<1> QED
  BY <1>1, <1>3, <1>6, <1>7, <1>8 DEF LogHolds, OkAt, FailedAt

\* Whatever is sent has one success in the log, and each success is of one that is.
LEMMA SuccessesAreSent ==
  ASSUME NEW c, IsRun(c)
  PROVE  Cardinality(SentOf(c)) = Cardinality(OkAt(ResultFile(c)))
<1> DEFINE L == Log(c)
           n == Cardinality(Entries(c))
           S == {i \in 1 .. n : L[i].ok}
           T == SentOf(c)
           g == [i \in S |-> L[i].key]
<1>1. PICK f : Enumerates(f, InTime(c), Entries(c)) /\ L = [i \in 1 .. n |-> Logged(c, f[i])]
  BY LogInOrder
<1>2. n \in Nat /\ DOMAIN L = 1 .. n
  BY <1>1, LogEntry
<1>3. OkAt(ResultFile(c)) = S
  BY <1>2, ResultFields DEF OkAt
<1>a. \A i \in 1 .. n : \E k \in Cohort : \E j \in 1 .. c.budget :
        /\ j \in Made(c, k) /\ f[i] = <<Start(c, k, j).t, k, j>>
        /\ L[i].ok = Accepts(c, k, j) /\ L[i].key = k
  BY <1>1, <1>2, LogEntry
<1>4. \A i \in S : \E k \in Cohort : \E j \in 1 .. c.budget :
        /\ j \in Made(c, k) /\ f[i] = <<Start(c, k, j).t, k, j>>
        /\ Accepts(c, k, j) /\ L[i].key = k
  <2> HIDE DEF L, n
  <2>1. \A i \in S : i \in 1 .. n /\ L[i].ok
    OBVIOUS
  <2> QED
    BY <1>a, <2>1
<1>5. \A k \in Cohort : \A j \in Made(c, k) : \E i \in 1 .. n :
        f[i] = <<Start(c, k, j).t, k, j>> /\ L[i] = Logged(c, f[i])
  BY <1>1, <1>2, LogEntry
<1>6. \A i, j \in 1 .. n : f[i] = f[j] => i = j
  BY <1>1 DEF Enumerates
<1>7. ASSUME NEW k \in Cohort, NEW j \in 1 .. c.budget, j \in Made(c, k), Accepts(c, k, j)
      PROVE  j = LastAttempt(c, k) /\ k \in T
  <2>1. /\ LastAttempt(c, k) \in 1 .. c.budget /\ j \in 1 .. LastAttempt(c, k)
        /\ ~(j < LastAttempt(c, k))
    BY <1>7, LastAttemptFacts DEF Made
  <2>2. c.budget \in Nat
    BY RunNumbers
  <2>3. j = LastAttempt(c, k)
    BY <2>1, <2>2
  <2> QED
    BY <1>7, <2>3 DEF SentOf, Done
<1>8. \A i \in S : i \in 1 .. n
  OBVIOUS
<1>9. \A i \in 1 .. n : L[i].ok => i \in S
  OBVIOUS
<1> HIDE DEF S, L, n
<1>10. g \in [S -> T]
  <2> SUFFICES ASSUME NEW i \in S PROVE L[i].key \in T
    OBVIOUS
  <2> QED
    BY <1>4, <1>7
<1>11. ASSUME NEW x \in S, NEW y \in S, g[x] = g[y] PROVE x = y
  <2>1. PICK k \in Cohort, j \in 1 .. c.budget :
          /\ j \in Made(c, k) /\ f[x] = <<Start(c, k, j).t, k, j>>
          /\ Accepts(c, k, j) /\ L[x].key = k
    BY <1>4
  <2>2. PICK m \in Cohort, i \in 1 .. c.budget :
          /\ i \in Made(c, m) /\ f[y] = <<Start(c, m, i).t, m, i>>
          /\ Accepts(c, m, i) /\ L[y].key = m
    BY <1>4
  <2>3. k = m
    BY <1>11, <2>1, <2>2
  <2>4. j = LastAttempt(c, k) /\ i = LastAttempt(c, m)
    BY <1>7, <2>1, <2>2
  <2>5. f[x] = f[y]
    BY <2>1, <2>2, <2>3, <2>4
  <2> QED
    BY <1>6, <1>8, <2>5
<1>12. ASSUME NEW k \in T PROVE \E i \in S : g[i] = k
  <2> DEFINE j == LastAttempt(c, k)
  <2>1. k \in Cohort /\ j \in Made(c, k) /\ Accepts(c, k, j)
    BY DEF SentOf, Done
  <2> HIDE DEF j
  <2>2. PICK i \in 1 .. n : f[i] = <<Start(c, k, j).t, k, j>> /\ L[i] = Logged(c, f[i])
    BY <1>5, <2>1
  <2>3. L[i].ok /\ L[i].key = k
    BY <2>1, <2>2 DEF Logged
  <2> QED
    BY <1>9, <2>3
<1> HIDE DEF g, T
<1>13. g \in Injection(S, T) /\ g \in Surjection(S, T)
  BY <1>10, <1>11, <1>12 DEF Injection, IsInjective, Surjection
<1>14. IsFiniteSet(S)
  <2>1. IsFiniteSet(1 .. n)
    <3>1. 1 \in Int /\ n \in Int
      BY <1>2
    <3> QED
      BY <3>1, FS_Interval
  <2> QED
    BY <1>8, <2>1, FS_Subset
<1>15. Cardinality(T) = Cardinality(S)
  BY <1>13, <1>14, FS_Surjection
<1> QED
  BY <1>3, <1>15 DEF T

\* The cohort is finite, and so is what is sent and what is dead of it.
LEMMA CohortFacts ==
  /\ IsFiniteSet(Cohort) /\ Cardinality(Cohort) = N /\ N \in Nat \ {0} /\ 1 \in Cohort
  /\ \A c : /\ SentOf(c) \in SUBSET Cohort /\ DeadOf(c) \in SUBSET Cohort
            /\ SentOf(c) \cap DeadOf(c) = {}
<1>1. 1 \in Int /\ N \in Int /\ N \in Nat \ {0} /\ ~(1 > N) /\ N - 1 + 1 = N
  BY CohortAssumption
<1>2. IsFiniteSet(1 .. N) /\ Cardinality(1 .. N) = N
  BY <1>1, FS_Interval
<1> QED
  BY <1>1, <1>2 DEF SentOf, DeadOf, Cohort

\* The failed attempts made of a reminder.
FailedMade(c, k) == {i \in Made(c, k) : ~Accepts(c, k, i)}

\* The reads come one after another, the log last.
LEMMA ReadFacts ==
  ASSUME NEW c, IsRun(c)
  PROVE  LET r == c.reads IN
         /\ r.left \in Nat /\ r.sent \in Nat /\ r.dead \in Nat /\ r.retries \in Nat
         /\ r.latencies \in Nat /\ r.calls \in Nat /\ c.cut \in Nat
         /\ r.left <= r.sent /\ r.left <= r.dead /\ r.left <= r.retries
         /\ r.left <= r.latencies /\ r.left <= r.calls /\ r.left <= c.cut
         /\ r.sent <= r.latencies /\ r.sent <= c.cut /\ r.dead <= c.cut /\ r.retries <= c.cut
         /\ r.latencies <= c.cut /\ r.calls <= c.cut
<1> DEFINE r == c.reads
<1>1. /\ {r.left, r.sent, r.dead, r.retries, r.latencies, r.calls} \subseteq Nat /\ c.cut \in Nat
      /\ r.left <= r.sent /\ r.sent <= r.dead /\ r.dead <= r.retries
      /\ r.retries <= r.latencies /\ r.latencies <= r.calls /\ r.calls <= c.cut
  BY DEF IsRun
<1>2. /\ r.left \in Nat /\ r.sent \in Nat /\ r.dead \in Nat /\ r.retries \in Nat
      /\ r.latencies \in Nat /\ r.calls \in Nat /\ c.cut \in Nat
  BY <1>1, Zenon
<1> QED
  BY <1>1, <1>2

\* A write lands after its attempt started.
LEMMA LandsFacts ==
  ASSUME NEW c, IsRun(c), NEW k \in Cohort, NEW i \in 1 .. c.budget
  PROVE  Lands(c, k, i) \in Nat /\ Start(c, k, i).t \in Nat /\ Start(c, k, i).t <= Lands(c, k, i)
<1>1. Start(c, k, i).t \in Nat
  BY AttemptFacts
<1>2. c.lag[k][i] \in Nat
  BY DEF IsRun
<1> QED
  BY <1>1, <1>2 DEF Lands

\* What has landed of a reminder was made; its attempts are that of one of these
\* writes, or 0.
LEMMA AttemptsFacts ==
  ASSUME NEW c, IsRun(c), NEW k \in Cohort, NEW T \in Nat, T <= c.cut
  PROVE  /\ Attempts(c, k, T) \in Nat
         /\ Attempts(c, k, T) = 0 \/ Attempts(c, k, T) \in Landed(c, k, T)
         /\ \A i \in Landed(c, k, T) : i \in 1 .. LastAttempt(c, k) /\ i \in FailedMade(c, k)
         /\ 1 .. Attempts(c, k, T) \in SUBSET FailedMade(c, k)
<1> DEFINE L == LastAttempt(c, k)
           S == Landed(c, k, T)
           a == Attempts(c, k, T)
<1>1. /\ L \in 1 .. c.budget /\ \A i \in 1 .. c.budget : i < L => ~Accepts(c, k, i)
      /\ c.budget \in Nat /\ c.cut \in Nat
  BY LastAttemptFacts, RunNumbers
<1>2. \A i \in S : i \in 1 .. L /\ ~Accepts(c, k, i) /\ Lands(c, k, i) < T
  BY DEF Landed
<1> HIDE DEF L, S
<1>3. ASSUME NEW i \in S PROVE i \in FailedMade(c, k) /\ i \in 1 .. c.budget
  <2>1. i \in 1 .. c.budget
    BY <1>1, <1>2
  <2>2. Start(c, k, i).t < c.cut
    BY <1>1, <1>2, <2>1, LandsFacts
  <2> QED
    BY <1>2, <2>1, <2>2 DEF FailedMade, Made, L
<1>4. a \in {0} \cup S
  <2> DEFINE landed == {Lands(c, k, i) : i \in S}
             Z == {0} \cup {i \in S : Lands(c, k, i) = Max(landed)}
  <2>1. Z \in SUBSET ({0} \cup S) /\ 0 \in Z
    OBVIOUS
  <2>2. \A z \in Z : z \in Int /\ z <= c.budget
    BY <1>1, <1>3
  <2>3. Attempts(c, k, T) = Max(Z)
    BY DEF Attempts, S
  <2> HIDE DEF Z
  <2>4. PICK z \in Z : \A y \in Z : y <= z
    <3>1. Z \in SUBSET Int /\ Z # {} /\ c.budget \in Int
      BY <1>1, <2>1, <2>2
    <3> QED
      BY <2>2, <3>1, GreatestExists, Zenon
  <2>5. Max(Z) = z
    <3>1. Z \in SUBSET Int
      BY <2>2
    <3> QED
      BY <2>4, <3>1, MaxIs
  <2> QED
    BY <2>1, <2>3, <2>4, <2>5
<1>5. a \in Nat
  BY <1>1, <1>2, <1>4
<1>6. ASSUME NEW i \in 1 .. a PROVE i \in FailedMade(c, k)
  <2>1. a \in S /\ a \in 1 .. L /\ a \in 1 .. c.budget
    BY <1>2, <1>3, <1>4, <1>5
  <2>2. i \in 1 .. c.budget /\ i \in 1 .. L
    BY <1>1, <2>1
  <2>3. Start(c, k, i).t <= Start(c, k, a).t /\ Start(c, k, i).t \in Nat /\ Start(c, k, a).t \in Nat
    BY <2>1, <2>2, AttemptFacts
  <2>4. Start(c, k, a).t < c.cut
    BY <1>3, <2>1 DEF FailedMade, Made
  <2>5. ~Accepts(c, k, i)
    <3>1. CASE i = a
      BY <1>2, <2>1, <3>1
    <3>2. CASE i # a
      <4>1. i < L
        BY <1>1, <2>1, <2>2, <3>2
      <4> QED
        BY <1>1, <2>2, <4>1
    <3> QED
      BY <3>1, <3>2
  <2>6. Start(c, k, i).t < c.cut
    BY <1>1, <2>3, <2>4
  <2> QED
    BY <2>2, <2>5, <2>6 DEF FailedMade, Made, L
<1>7. a = 0 \/ a \in S
  BY <1>4
<1> QED
  BY <1>2, <1>3, <1>5, <1>6, <1>7 DEF L, S

\* While the writes come in order, the last to land is that of the last attempt.
LEMMA NewestIsLast ==
  ASSUME NEW c, IsRun(c), Orderly(c), NEW k \in Cohort, NEW T \in Nat, T <= c.cut,
         NEW m \in Nat, m <= LastAttempt(c, k), Landed(c, k, T) = 1 .. m
  PROVE  Attempts(c, k, T) = m
<1> DEFINE L == LastAttempt(c, k)
           S == Landed(c, k, T)
           a == Attempts(c, k, T)
<1>1. L \in 1 .. c.budget /\ c.budget \in Nat
  BY LastAttemptFacts, RunNumbers
<1>2. a \in Nat /\ (a = 0 \/ a \in 1 .. m)
  BY AttemptsFacts
<1>3. CASE m = 0
  BY <1>2, <1>3
<1>4. CASE m # 0
  <2> DEFINE landed == {Lands(c, k, i) : i \in S}
             Z == {0} \cup {i \in S : Lands(c, k, i) = Max(landed)}
  <2>1. m \in S /\ m \in 1 .. c.budget
    BY <1>1, <1>4
  <2>2. \A i \in S : Lands(c, k, i) \in Nat /\ Lands(c, k, i) <= Lands(c, k, m)
    <3> SUFFICES ASSUME NEW i \in 1 .. m PROVE Lands(c, k, i) \in Nat /\ Lands(c, k, i) <= Lands(c, k, m)
      OBVIOUS
    <3>1. i \in 1 .. c.budget /\ Lands(c, k, i) \in Nat /\ Lands(c, k, m) \in Nat
      <4>1. i \in 1 .. c.budget
        BY <1>1
      <4> QED
        BY <2>1, <4>1, LandsFacts
    <3>2. CASE i = m
      BY <3>1, <3>2
    <3>3. CASE i # m
      <4>1. i \in 1 .. L - 1 /\ i + 1 \in 1 .. m /\ i + 1 \in 1 .. c.budget
        BY <1>1, <3>1, <3>3
      <4>2. Lands(c, k, i) <= Start(c, k, i + 1).t
        BY <4>1 DEF Orderly
      <4>3. Start(c, k, i + 1).t <= Start(c, k, m).t
        BY <2>1, <4>1, AttemptFacts
      <4>4. Start(c, k, m).t <= Lands(c, k, m) /\ Start(c, k, m).t \in Nat /\ Start(c, k, i + 1).t \in Nat
        BY <2>1, <4>1, LandsFacts
      <4> QED
        BY <3>1, <4>2, <4>3, <4>4
    <3> QED
      BY <3>2, <3>3
  <2>3. a = Max(Z)
    BY DEF Attempts
  <2>4. \A i \in S : i \in Nat /\ i <= m
    OBVIOUS
  <2> HIDE DEF S, L
  <2>5. Max(landed) = Lands(c, k, m)
    <3>1. landed \in SUBSET Int /\ Lands(c, k, m) \in landed /\ \A y \in landed : y <= Lands(c, k, m)
      BY <2>1, <2>2
    <3> HIDE DEF landed
    <3> QED
      BY <3>1, MaxIs
  <2>6. m \in Z /\ Z \in SUBSET Int /\ \A z \in Z : z <= m
    <3> HIDE DEF landed
    <3>1. m \in Z
      BY <2>1, <2>5
    <3>2. \A z \in Z : z = 0 \/ z \in S
      OBVIOUS
    <3> HIDE DEF Z
    <3> QED
      BY <2>4, <3>1, <3>2
  <2> HIDE DEF Z, a
  <2>7. Max(Z) = m
    BY <2>6, MaxIs
  <2> QED
    BY <2>3, <2>7 DEF a
<1> QED
  BY <1>3, <1>4

\* What is SENT or DEAD in order stays so, and its row says all there is to say.
LEMMA SettledRow ==
  ASSUME NEW c, IsRun(c), Orderly(c), NEW k \in Cohort, NEW U \in Nat,
         SentAt(c, k, U) \/ DeadAt(c, k, U), NEW T \in Nat, U <= T, T <= c.cut
  PROVE  /\ Done(c, k) /\ \A i \in Made(c, k) : Start(c, k, i).t < T
         /\ Committed(c, k, T) <=> Accepts(c, k, LastAttempt(c, k))
         /\ SentAt(c, k, T) <=> Accepts(c, k, LastAttempt(c, k))
         /\ DeadAt(c, k, T) <=> ~Accepts(c, k, LastAttempt(c, k))
         /\ FailedMade(c, k) = 1 .. Attempts(c, k, T)
<1> DEFINE L == LastAttempt(c, k)
<1>1. /\ L \in 1 .. c.budget /\ \A i \in 1 .. c.budget : i < L => ~Accepts(c, k, i)
      /\ c.budget \in Nat /\ c.cut \in Nat
  BY LastAttemptFacts, RunNumbers
<1>2. \A i \in 1 .. L : /\ i \in 1 .. c.budget
                        /\ Start(c, k, i).t \in Nat /\ Start(c, k, i).t <= Start(c, k, L).t
                        /\ Lands(c, k, i) \in Nat /\ Start(c, k, i).t <= Lands(c, k, i)
                        /\ i # L => /\ ~Accepts(c, k, i)
                                    /\ Lands(c, k, i) <= Start(c, k, L).t
  <2> SUFFICES ASSUME NEW i \in 1 .. L
               PROVE  /\ i \in 1 .. c.budget
                      /\ Start(c, k, i).t \in Nat /\ Start(c, k, i).t <= Start(c, k, L).t
                      /\ Lands(c, k, i) \in Nat /\ Start(c, k, i).t <= Lands(c, k, i)
                      /\ i # L => ~Accepts(c, k, i) /\ Lands(c, k, i) <= Start(c, k, L).t
    OBVIOUS
  <2>1. i \in 1 .. c.budget
    BY <1>1
  <2>2. Start(c, k, i).t \in Nat /\ Start(c, k, i).t <= Start(c, k, L).t
    BY <1>1, <2>1, AttemptFacts
  <2>3. Lands(c, k, i) \in Nat /\ Start(c, k, i).t <= Lands(c, k, i)
    BY <2>1, LandsFacts
  <2>4. ASSUME i # L PROVE ~Accepts(c, k, i) /\ Lands(c, k, i) <= Start(c, k, L).t
    <3>1. i < L /\ i \in 1 .. L - 1 /\ i + 1 \in 1 .. L /\ i + 1 \in 1 .. c.budget
      BY <1>1, <2>1, <2>4
    <3>2. Lands(c, k, i) <= Start(c, k, i + 1).t
      BY <3>1 DEF Orderly
    <3>3. Start(c, k, i + 1).t <= Start(c, k, L).t /\ Start(c, k, i + 1).t \in Nat /\ Start(c, k, L).t \in Nat
      BY <1>1, <3>1, AttemptFacts
    <3> QED
      BY <1>1, <2>1, <2>3, <3>1, <3>2, <3>3
  <2> QED
    BY <2>1, <2>2, <2>3, <2>4
<1>3. L \in 1 .. L /\ Start(c, k, L).t \in Nat /\ U <= c.cut
  BY <1>1, <1>2
<1>4. Start(c, k, L).t < U
  <2>1. CASE SentAt(c, k, U)
    BY <2>1 DEF SentAt, Committed
  <2>2. CASE DeadAt(c, k, U)
    <3>1. L \in Landed(c, k, U)
      <4>1. Attempts(c, k, U) = L /\ L # 0
        BY <1>1, <2>2 DEF DeadAt
      <4> QED
        BY <1>3, <4>1, AttemptsFacts
    <3>2. Lands(c, k, L) < U
      BY <3>1 DEF Landed
    <3> QED
      BY <1>2, <1>3, <3>2
  <2> QED
    BY <2>1, <2>2
<1>5. Start(c, k, L).t < T /\ Start(c, k, L).t < c.cut
  BY <1>1, <1>3, <1>4
<1>6. Made(c, k) = 1 .. L
  <2>1. \A i \in 1 .. L : Start(c, k, i).t < c.cut
    BY <1>1, <1>2, <1>3, <1>5
  <2>2. Made(c, k) = {i \in 1 .. L : Start(c, k, i).t < c.cut}
    BY DEF Made
  <2> HIDE DEF L
  <2> QED
    BY <2>1, <2>2, Zenon
<1>7. Done(c, k) /\ \A i \in Made(c, k) : Start(c, k, i).t < T
  BY <1>2, <1>3, <1>5, <1>6 DEF Done
<1>8. Committed(c, k, T) <=> Accepts(c, k, L)
  BY <1>5 DEF Committed
<1>9. CASE Accepts(c, k, L)
  <2>1. Landed(c, k, T) = 1 .. L - 1
    <3>1. ASSUME NEW i \in 1 .. L - 1 PROVE i \in Landed(c, k, T)
      <4>1. i \in 1 .. L /\ i # L
        BY <1>1
      <4>2. ~Accepts(c, k, i) /\ Lands(c, k, i) < T
        BY <1>2, <1>3, <1>5, <4>1
      <4> QED
        BY <4>1, <4>2 DEF Landed
    <3>2. ASSUME NEW i \in Landed(c, k, T) PROVE i \in 1 .. L - 1
      BY <1>1, <1>9, <3>2 DEF Landed
    <3> QED
      BY <3>1, <3>2
  <2>2. Attempts(c, k, T) = L - 1
    <3>1. L - 1 \in Nat /\ L - 1 <= L
      BY <1>1
    <3> QED
      BY <2>1, <3>1, NewestIsLast
  <2>3. SentAt(c, k, T)
    <3>1. \A i \in Landed(c, k, T) : i \in 1 .. L /\ i # L
      BY <1>1, <2>1
    <3> QED
      BY <1>2, <1>8, <1>9, <3>1 DEF SentAt
  <2>4. FailedMade(c, k) = 1 .. L - 1
    <3>1. \A i : i \in 1 .. L - 1 <=> i \in 1 .. L /\ i # L
      BY <1>1
    <3> QED
      BY <1>2, <1>6, <1>9, <3>1 DEF FailedMade
  <2>5. ~DeadAt(c, k, T)
    BY <1>9 DEF DeadAt
  <2> QED
    BY <1>7, <1>8, <1>9, <2>2, <2>3, <2>4, <2>5
<1>10. CASE ~Accepts(c, k, L)
  <2>1. \A i \in 1 .. L : ~Accepts(c, k, i) /\ Lands(c, k, i) < T
    <3>1. DeadAt(c, k, U)
      BY <1>10 DEF SentAt, Committed
    <3>2. L \in Landed(c, k, U)
      <4>1. Attempts(c, k, U) = L /\ L # 0
        BY <1>1, <3>1 DEF DeadAt
      <4> QED
        BY <1>3, <4>1, AttemptsFacts
    <3>3. Lands(c, k, L) < T /\ Lands(c, k, L) \in Nat
      BY <1>2, <1>3, <3>2 DEF Landed
    <3>4. ASSUME NEW i \in 1 .. L PROVE ~Accepts(c, k, i) /\ Lands(c, k, i) < T
      <4>1. CASE i = L
        BY <1>10, <3>3, <4>1
      <4>2. CASE i # L
        BY <1>2, <1>3, <1>5, <4>2
      <4> QED
        BY <4>1, <4>2
    <3> QED
      BY <3>4
  <2>2. Landed(c, k, T) = 1 .. L
    BY <2>1 DEF Landed
  <2>3. Attempts(c, k, T) = L
    <3>1. L \in Nat /\ L <= L
      BY <1>1
    <3> QED
      BY <2>2, <3>1, NewestIsLast
  <2>4. DeadAt(c, k, T) /\ ~SentAt(c, k, T)
    BY <1>10, <2>3 DEF DeadAt, SentAt, Committed
  <2>5. FailedMade(c, k) = 1 .. L
    BY <1>6, <2>1 DEF FailedMade
  <2> QED
    BY <1>7, <1>8, <1>10, <2>3, <2>4, <2>5
<1> QED
  BY <1>9, <1>10

\* The failures of the log are the failed attempts made, and its entries all of them.
LEMMA FailuresAreMade ==
  ASSUME NEW c, IsRun(c)
  PROVE  /\ \A k \in Cohort : IsFiniteSet(FailedMade(c, k))
         /\ \E e : /\ SumsOver(e, [k \in Cohort |-> Cardinality(FailedMade(c, k))], Cohort)
                   /\ Cardinality(FailedAt(ResultFile(c))) = e[Cohort]
         /\ Len(ResultFile(c).log) = Cardinality(Entries(c)) /\ IsFiniteSet(Entries(c))
<1> DEFINE L == Log(c)
           E == Entries(c)
           n == Cardinality(E)
           S == {i \in 1 .. n : ~L[i].ok}
           D == {a \in E : ~Accepts(c, a[2], a[3])}
<1>1. PICK f : Enumerates(f, InTime(c), Entries(c)) /\ L = [i \in 1 .. n |-> Logged(c, f[i])]
  BY LogInOrder
<1>2. n \in Nat /\ DOMAIN L = 1 .. n
  BY <1>1, LogEntry
<1>3. FailedAt(ResultFile(c)) = S
  BY <1>2, ResultFields DEF FailedAt
<1>4. Len(ResultFile(c).log) = n
  <2>1. ResultFile(c).log = L
    BY ResultFields
  <2> QED
    BY <1>1, <1>2, <2>1
<1>5. IsFiniteSet(E) /\ IsFiniteSet(D)
  <2>1. IsFiniteSet(E) /\ D \in SUBSET E
    BY EntryFacts
  <2> HIDE DEF D, E
  <2> QED
    BY <2>1, FS_Subset
<1>6. Cardinality(S) = Cardinality(D)
  <2> DEFINE g == [i \in S |-> f[i]]
  <2>1. /\ f \in [1 .. n -> E] /\ \A a \in E : \E i \in 1 .. n : f[i] = a
        /\ \A i, j \in 1 .. n : f[i] = f[j] => i = j
    BY <1>1 DEF Enumerates
  <2>2. \A i \in 1 .. n : L[i].ok = Accepts(c, f[i][2], f[i][3])
    BY <1>1 DEF Logged
  <2>3. \A i \in 1 .. n : i \in S <=> f[i] \in D
    BY <2>1, <2>2
  <2>4. S \in SUBSET (1 .. n) /\ D \in SUBSET E
    OBVIOUS
  <2> HIDE DEF S, D, E, L, n
  <2>5. g \in [S -> D] /\ (\A x, y \in S : g[x] = g[y] => x = y) /\ \A a \in D : \E i \in S : g[i] = a
    BY <2>1, <2>3, <2>4
  <2> HIDE DEF g
  <2>6. g \in Injection(S, D) /\ g \in Surjection(S, D)
    BY <2>5 DEF Injection, IsInjective, Surjection
  <2>7. IsFiniteSet(S)
    <3>1. 1 \in Int /\ n \in Int
      BY <1>2
    <3>2. IsFiniteSet(1 .. n)
      BY <3>1, FS_Interval
    <3> QED
      BY <2>4, <3>2, FS_Subset
  <2> QED
    BY <2>6, <2>7, FS_Surjection
<1> DEFINE key == [a \in D |-> a[2]]
           g == [k \in Cohort |-> Cardinality(FailedMade(c, k))]
<1>7. ASSUME NEW k \in Cohort
      PROVE  IsFiniteSet(FailedMade(c, k)) /\ g[k] = Cardinality(ClassOf(key, D, k))
  <2> DEFINE M == FailedMade(c, k)
             C == ClassOf(key, D, k)
             h == [i \in M |-> <<Start(c, k, i).t, k, i>>]
  <2>1. ASSUME NEW i \in M PROVE h[i] \in C
    <3>1. i \in Made(c, k) /\ ~Accepts(c, k, i)
      BY DEF FailedMade
    <3>2. <<Start(c, k, i).t, k, i>> \in E
      BY <3>1, EntryFacts, SMTT(30)
    <3>3. <<Start(c, k, i).t, k, i>> \in D /\ key[<<Start(c, k, i).t, k, i>>] = k
      BY <3>1, <3>2
    <3> QED
      BY <3>3 DEF ClassOf
  <2>2. ASSUME NEW a \in C PROVE \E i \in M : h[i] = a
    <3>1. a \in E /\ ~Accepts(c, a[2], a[3]) /\ a[2] = k
      BY DEF ClassOf
    <3>a. PICK m \in Cohort : \E i \in Made(c, m) : a = <<Start(c, m, i).t, m, i>>
      BY <3>1, EntryFacts
    <3>2. PICK i \in Made(c, m) : a = <<Start(c, m, i).t, m, i>>
      BY <3>a
    <3>3. m = k /\ a[3] = i
      BY <3>1, <3>2
    <3>4. i \in M
      BY <3>1, <3>2, <3>3 DEF FailedMade
    <3> QED
      BY <3>2, <3>3, <3>4
  <2>3. \A i \in M : h[i][3] = i
    OBVIOUS
  <2>4. h = [i \in M |-> h[i]]
    OBVIOUS
  <2>5. C \in SUBSET D
    BY DEF ClassOf
  <2> HIDE DEF M, C, h, D, key
  <2>6. h \in Injection(M, C) /\ h \in Surjection(M, C)
    BY <2>1, <2>2, <2>3, <2>4 DEF Injection, IsInjective, Surjection
  <2>7. IsFiniteSet(C)
    BY <1>5, <2>5, FS_Subset
  <2>8. IsFiniteSet(M)
    BY <2>6, <2>7, FS_Injection
  <2>9. Cardinality(C) = Cardinality(M)
    BY <2>6, <2>8, FS_Surjection
  <2> QED
    BY <2>8, <2>9 DEF M, C
<1>8. \A k \in Cohort : g[k] \in Nat
  BY <1>7, FS_CardinalityType
<1>9. \A a \in D : key[a] \in Cohort
  <2> SUFFICES ASSUME NEW a \in D PROVE a[2] \in Cohort
    OBVIOUS
  <2>1. \E m \in Cohort : \E i \in Made(c, m) : a = <<Start(c, m, i).t, m, i>>
    BY EntryFacts
  <2> QED
    BY <2>1
<1>10. IsFiniteSet(Cohort)
  BY CohortFacts
<1> HIDE DEF key, D, S, L
<1>11. PICK e : SumsOver(e, g, Cohort)
  <2> HIDE DEF g
  <2>1. \A k \in Cohort : g[k] \in Int
    BY <1>8
  <2> QED
    BY <1>10, <2>1, SumsExist
<1>12. e[Cohort] = Cardinality(D)
  <2> HIDE DEF g
  <2> QED
    BY <1>5, <1>7, <1>9, <1>10, <1>11, ClassesCount
<1> QED
  BY <1>3, <1>4, <1>5, <1>6, <1>7, <1>11, <1>12

\* In a settled run every reminder is done with, and the rows stayed as the script
\* first saw them.
LEMMA SettledRun ==
  ASSUME NEW c, IsRun(c), ResultFile(c).open = 0, ResultFile(c).orderly
  PROVE  LET t == c.reads IN
         /\ SentRows(c, t.sent) = SentOf(c) /\ DeadRows(c, t.dead) = DeadOf(c)
         /\ CommittedRows(c, t.latencies) = SentOf(c) /\ SentOf(c) \cup DeadOf(c) = Cohort
         /\ \A k \in Cohort : /\ Done(c, k)
                              /\ FailedMade(c, k) = 1 .. Attempts(c, k, t.retries)
                              /\ \A i \in Made(c, k) : Start(c, k, i).t < t.calls
<1> DEFINE t == c.reads
<1>1. Orderly(c) /\ Cardinality(OpenRows(c, t.left)) = 0
  BY ResultFields
<1>2. \A k \in Cohort : SentAt(c, k, t.left) \/ DeadAt(c, k, t.left)
  <2>1. OpenRows(c, t.left) \in SUBSET Cohort
    BY DEF OpenRows
  <2>2. IsFiniteSet(OpenRows(c, t.left))
    BY <2>1, CohortFacts, FS_Subset
  <2>3. OpenRows(c, t.left) = {}
    BY <1>1, <2>2, FS_EmptySet
  <2> QED
    BY <2>3 DEF OpenRows
<1>3. /\ t.left \in Nat /\ t.sent \in Nat /\ t.dead \in Nat /\ t.retries \in Nat /\ t.calls \in Nat
      /\ t.latencies \in Nat /\ t.left <= t.sent /\ t.left <= t.dead /\ t.left <= t.retries
      /\ t.left <= t.calls /\ t.left <= t.latencies /\ t.sent <= c.cut /\ t.dead <= c.cut
      /\ t.retries <= c.cut /\ t.calls <= c.cut /\ t.latencies <= c.cut
  BY ReadFacts
<1> HIDE DEF t
<1>4. ASSUME NEW k \in Cohort, NEW T \in Nat, t.left <= T, T <= c.cut
      PROVE  /\ Done(c, k) /\ \A i \in Made(c, k) : Start(c, k, i).t < T
             /\ Committed(c, k, T) <=> Accepts(c, k, LastAttempt(c, k))
             /\ SentAt(c, k, T) <=> Accepts(c, k, LastAttempt(c, k))
             /\ DeadAt(c, k, T) <=> ~Accepts(c, k, LastAttempt(c, k))
             /\ FailedMade(c, k) = 1 .. Attempts(c, k, T)
  BY <1>1, <1>2, <1>3, <1>4, SettledRow
<1>5. \A k \in Cohort : /\ Done(c, k)
                        /\ SentAt(c, k, t.sent) <=> Accepts(c, k, LastAttempt(c, k))
                        /\ DeadAt(c, k, t.dead) <=> ~Accepts(c, k, LastAttempt(c, k))
                        /\ Committed(c, k, t.latencies) <=> Accepts(c, k, LastAttempt(c, k))
  BY <1>3, <1>4
<1>6. \A k \in Cohort : /\ FailedMade(c, k) = 1 .. Attempts(c, k, t.retries)
                        /\ \A i \in Made(c, k) : Start(c, k, i).t < t.calls
  BY <1>3, <1>4
<1>7. /\ SentRows(c, t.sent) = SentOf(c) /\ DeadRows(c, t.dead) = DeadOf(c)
      /\ CommittedRows(c, t.latencies) = SentOf(c) /\ SentOf(c) \cup DeadOf(c) = Cohort
  BY <1>5 DEF SentRows, DeadRows, CommittedRows, SentOf, DeadOf
<1> QED
  BY <1>5, <1>6, <1>7 DEF t

\* The log is its failures and its successes.
LEMMA LogCounts ==
  ASSUME NEW c, IsRun(c)
  PROVE  LET r == ResultFile(c)
             ok == Cardinality(OkAt(r))
             failed == Cardinality(FailedAt(r))
         IN  /\ ok \in Nat /\ failed \in Nat /\ (ok = 0 <=> OkAt(r) = {})
             /\ Len(r.log) \in Nat /\ Len(r.log) = failed + ok
<1> DEFINE r == ResultFile(c)
           A == OkAt(r)
           B == FailedAt(r)
           U == 1 .. Len(r.log)
<1>1. Len(r.log) \in Nat /\ DOMAIN r.log = U
  BY LogOfRun DEF LogHolds
<1>2. IsFiniteSet(U) /\ Cardinality(U) = Len(r.log)
  <2>1. 1 \in Int /\ Len(r.log) \in Int
    BY <1>1
  <2>2. IsFiniteSet(U) /\ Cardinality(U) = IF 1 > Len(r.log) THEN 0 ELSE Len(r.log) - 1 + 1
    BY <2>1, FS_Interval
  <2> QED
    BY <1>1, <2>2
<1>3. A \in SUBSET U /\ B = U \ A /\ U \cap A = A
  BY <1>1 DEF OkAt, FailedAt
<1> HIDE DEF U, A, B
<1>4. Cardinality(B) = Cardinality(U) - Cardinality(U \cap A) /\ IsFiniteSet(B)
  BY <1>2, <1>3, FS_Difference
<1>5. Cardinality(A) \in Nat /\ Cardinality(B) \in Nat /\ IsFiniteSet(A)
  BY <1>2, <1>3, <1>4, FS_Subset, FS_CardinalityType
<1>6. Len(r.log) = Cardinality(B) + Cardinality(A)
  <2> DEFINE a == Cardinality(A)
             b == Cardinality(B)
             n == Len(r.log)
  <2>1. a \in Nat /\ b \in Nat /\ n \in Nat /\ b = n - a
    BY <1>1, <1>2, <1>3, <1>4, <1>5
  <2> HIDE DEF a, b, n
  <2>2. n = b + a
    BY <2>1
  <2> QED
    BY <2>2 DEF a, b, n
<1>7. Cardinality(A) = 0 <=> A = {}
  BY <1>5, FS_EmptySet
<1> QED
  BY <1>1, <1>5, <1>6, <1>7 DEF A, B

\* The books of a run hold.
LEMMA BooksOfRun ==
  ASSUME NEW c, IsRun(c)
  PROVE  BooksHold(ResultFile(c))
<1> DEFINE r == ResultFile(c)
           t == c.reads
           S == SentOf(c)
           D == DeadOf(c)
           ok == Cardinality(OkAt(r))
           failed == Cardinality(FailedAt(r))
           g == [k \in Cohort |-> Attempts(c, k, t.retries)]
           d == [k \in Cohort |-> Cardinality(FailedMade(c, k))]
           settled == r.open = 0 /\ r.orderly
<1>1. IsFiniteSet(Cohort) /\ Cardinality(Cohort) = N /\ N \in Nat
      /\ S \in SUBSET Cohort /\ D \in SUBSET Cohort /\ S \cap D = {}
  BY CohortFacts
<1>2. /\ r.n = N /\ r.sent = Cardinality(SentRows(c, t.sent)) /\ r.dead = Cardinality(DeadRows(c, t.dead))
      /\ r.open = Cardinality(OpenRows(c, t.left)) /\ r.inflight = Cardinality(Cohort \ (S \cup D))
      /\ r.orderly = Orderly(c) /\ r.calls = Cardinality(EntriesBefore(c, t.calls))
      /\ r.retries = Total(g, Cohort)
  BY ResultFields
<1>3. /\ t.left \in Nat /\ t.sent \in Nat /\ t.dead \in Nat /\ t.retries \in Nat /\ t.calls \in Nat
      /\ c.cut \in Nat /\ t.left <= t.sent /\ t.left <= t.dead /\ t.left <= t.retries
      /\ t.left <= t.calls /\ t.sent <= c.cut /\ t.dead <= c.cut /\ t.retries <= c.cut
      /\ t.calls <= c.cut /\ t.left <= c.cut
  BY ReadFacts
<1>4. /\ IsFiniteSet(S) /\ IsFiniteSet(D) /\ Cardinality(S) = ok /\ ok \in Nat
      /\ Cardinality(D) \in Nat
  BY <1>1, FS_Subset, FS_CardinalityType, SuccessesAreSent
<1>5. /\ failed \in Nat /\ (ok = 0 <=> OkAt(r) = {}) /\ Len(r.log) = failed + ok
      /\ Len(r.log) \in Nat
  BY LogCounts
<1>7. ASSUME settled
      PROVE  /\ SentRows(c, t.sent) = S /\ DeadRows(c, t.dead) = D /\ S \cup D = Cohort
             /\ \A k \in Cohort : /\ FailedMade(c, k) = 1 .. Attempts(c, k, t.retries)
                                  /\ \A i \in Made(c, k) : Start(c, k, i).t < t.calls
  BY <1>7, SettledRun
<1>8. /\ SentRows(c, t.sent) \in SUBSET S /\ DeadRows(c, t.dead) \in SUBSET D
      /\ settled => SentRows(c, t.sent) = S /\ DeadRows(c, t.dead) = D /\ S \cup D = Cohort
  <2>1. ASSUME NEW k \in Cohort, SentAt(c, k, t.sent) PROVE k \in S
    <3>1. /\ LastAttempt(c, k) \in 1 .. c.budget /\ Accepts(c, k, LastAttempt(c, k))
          /\ Start(c, k, LastAttempt(c, k)).t < t.sent /\ c.budget \in Nat
      BY <2>1, LastAttemptFacts, RunNumbers DEF SentAt, Committed
    <3>2. Start(c, k, LastAttempt(c, k)).t \in Nat
      BY <3>1, AttemptFacts
    <3>3. LastAttempt(c, k) \in 1 .. LastAttempt(c, k) /\ Start(c, k, LastAttempt(c, k)).t < c.cut
      BY <1>3, <3>1, <3>2
    <3> QED
      BY <3>1, <3>3 DEF SentOf, Done, Made
  <2>2. ASSUME NEW k \in Cohort, DeadAt(c, k, t.dead) PROVE k \in D
    <3>1. LastAttempt(c, k) \in 1 .. c.budget /\ c.budget \in Nat
      BY LastAttemptFacts, RunNumbers
    <3>2. Attempts(c, k, t.dead) = LastAttempt(c, k) /\ ~Accepts(c, k, LastAttempt(c, k))
      BY <2>2 DEF DeadAt
    <3>3. Attempts(c, k, t.dead) # 0 /\ Attempts(c, k, t.dead) \in Landed(c, k, t.dead)
      <4>1. Attempts(c, k, t.dead) # 0
        BY <3>1, <3>2
      <4> QED
        BY <1>3, <4>1, AttemptsFacts
    <3>4. LastAttempt(c, k) \in FailedMade(c, k)
      BY <1>3, <3>2, <3>3, AttemptsFacts
    <3> QED
      BY <3>2, <3>4 DEF DeadOf, SentOf, Done, FailedMade
  <2> QED
    BY <1>7, <2>1, <2>2 DEF SentRows, DeadRows
<1>9. /\ r.sent \in Nat /\ r.dead \in Nat /\ r.sent <= ok /\ r.dead <= Cardinality(D)
      /\ settled => r.sent = ok /\ r.dead = Cardinality(D)
  <2>1. /\ Cardinality(SentRows(c, t.sent)) \in Nat /\ Cardinality(SentRows(c, t.sent)) <= Cardinality(S)
        /\ Cardinality(DeadRows(c, t.dead)) \in Nat /\ Cardinality(DeadRows(c, t.dead)) <= Cardinality(D)
    BY <1>4, <1>8, FS_Subset, FS_CardinalityType
  <2> HIDE DEF S, D, r
  <2> QED
    BY <1>2, <1>4, <1>8, <2>1
<1>10. /\ r.inflight \in Nat /\ ok + Cardinality(D) + r.inflight = N
       /\ settled => r.inflight = 0
  <2> DEFINE u == Cardinality(S \cup D)
             v == Cardinality(Cohort \ (S \cup D))
  <2>1. u = Cardinality(S) + Cardinality(D) - Cardinality(S \cap D) /\ Cardinality(S \cap D) = 0
    BY <1>1, <1>4, FS_Union, FS_EmptySet
  <2>2. v = Cardinality(Cohort) - Cardinality(Cohort \cap (S \cup D)) /\ IsFiniteSet(Cohort \ (S \cup D))
    BY <1>1, FS_Difference
  <2>3. Cohort \cap (S \cup D) = S \cup D
    BY <1>1
  <2>4. v \in Nat
    BY <2>2, FS_CardinalityType
  <2>5. settled => v = 0
    <3>1. settled => Cohort \ (S \cup D) = {}
      BY <1>8
    <3> QED
      BY <3>1, FS_EmptySet
  <2>6. r.inflight = v /\ v = N - u /\ u = ok + Cardinality(D)
    <3>1. r.inflight = v
      BY <1>2
    <3>2. v = N - u
      BY <1>1, <2>2, <2>3
    <3> HIDE DEF u, v, S, D, ok
    <3>3. u = ok + Cardinality(D)
      BY <1>4, <2>1
    <3> QED
      BY <3>1, <3>2, <3>3
  <2> HIDE DEF u, v, S, D, ok, settled, r
  <2> QED
    BY <1>1, <1>4, <2>4, <2>5, <2>6
<1>11. r.open \in Nat
  <2>1. OpenRows(c, t.left) \in SUBSET Cohort
    BY DEF OpenRows
  <2>2. Cardinality(OpenRows(c, t.left)) \in Nat
    BY <1>1, <2>1, FS_Subset, FS_CardinalityType
  <2> QED
    BY <1>2, <2>2
<1>12. /\ r.retries \in Nat /\ r.retries <= failed
       /\ settled => r.retries = failed
  <2>1. PICK e : SumsOver(e, d, Cohort) /\ failed = e[Cohort]
    BY FailuresAreMade
  <2>2. ASSUME NEW k \in Cohort
        PROVE  /\ g[k] \in Nat /\ d[k] \in Nat /\ g[k] <= d[k]
               /\ settled => g[k] = d[k]
    <3> DEFINE a == Attempts(c, k, t.retries)
               F == FailedMade(c, k)
    <3>1. a \in Nat /\ 1 .. a \in SUBSET F /\ IsFiniteSet(F)
      BY <1>3, AttemptsFacts, FailuresAreMade
    <3>2. settled => F = 1 .. a
      BY <1>7
    <3>3. g[k] = a /\ d[k] = Cardinality(F)
      OBVIOUS
    <3> HIDE DEF a, F, g, d, settled
    <3>4. Cardinality(1 .. a) = a
      <4>1. 1 \in Int /\ a \in Int
        BY <3>1
      <4>2. Cardinality(1 .. a) = IF 1 > a THEN 0 ELSE a - 1 + 1
        BY <4>1, FS_Interval
      <4> QED
        BY <3>1, <4>2
    <3>5. Cardinality(F) \in Nat /\ Cardinality(1 .. a) <= Cardinality(F)
      BY <3>1, FS_Subset, FS_CardinalityType
    <3>6. settled => Cardinality(F) = a
      BY <3>2, <3>4
    <3> QED
      BY <3>1, <3>3, <3>4, <3>5, <3>6
  <2> HIDE DEF g, d, failed, r, settled
  <2>3. \A k \in Cohort : g[k] \in Int
    BY <2>2
  <2>4. PICK f : SumsOver(f, g, Cohort) /\ Total(g, Cohort) = f[Cohort]
    BY <1>1, <2>3, TotalIsSum
  <2>5. f[Cohort] \in Nat /\ f[Cohort] <= e[Cohort]
    BY <1>1, <2>1, <2>2, <2>4, SumsCompare
  <2>6. ASSUME settled PROVE e[Cohort] \in Nat /\ e[Cohort] <= f[Cohort]
    <3>1. \A k \in Cohort : g[k] \in Nat /\ d[k] \in Nat /\ d[k] <= g[k]
      BY <2>2, <2>6
    <3> QED
      BY <1>1, <2>1, <2>4, <3>1, SumsCompare
  <2>7. r.retries = f[Cohort]
    BY <1>2, <2>4
  <2> QED
    BY <2>1, <2>5, <2>6, <2>7
<1>13. /\ r.calls \in Nat /\ r.calls <= Len(r.log)
       /\ settled => r.calls = Len(r.log)
  <2> DEFINE E == Entries(c)
             B == EntriesBefore(c, t.calls)
  <2>1. IsFiniteSet(E) /\ Len(r.log) = Cardinality(E) /\ B \in SUBSET E
    BY FailuresAreMade DEF EntriesBefore
  <2>2. Cardinality(B) \in Nat /\ Cardinality(B) <= Cardinality(E)
    <3> HIDE DEF B, E
    <3> QED
      BY <2>1, FS_Subset, FS_CardinalityType
  <2>3. ASSUME settled PROVE B = E
    <3>1. ASSUME NEW a \in E PROVE a[1] < t.calls
      <4>a. PICK k \in Cohort : \E i \in Made(c, k) : a = <<Start(c, k, i).t, k, i>>
        BY EntryFacts
      <4>1. PICK i \in Made(c, k) : a = <<Start(c, k, i).t, k, i>>
        BY <4>a
      <4>2. Start(c, k, i).t < t.calls
        BY <1>7, <2>3
      <4> QED
        BY <4>1, <4>2
    <3> QED
      BY <3>1 DEF EntriesBefore
  <2> HIDE DEF E, B, r, settled
  <2> QED
    BY <1>2, <2>1, <2>2, <2>3 DEF B
<1> HIDE DEF ok, failed, S, D, r
<1>14. BooksHold(r)
  <2>1. ok + r.dead + r.inflight <= N /\ (settled => r.sent + r.dead = N)
    <3> DEFINE x == Cardinality(D)
    <3>1. x \in Nat
      BY <1>4
    <3> HIDE DEF x, settled
    <3>2. r.dead <= x /\ ok + x + r.inflight = N /\ (settled => r.sent = ok /\ r.dead = x /\ r.inflight = 0)
      BY <1>9, <1>10 DEF x
    <3> QED
      BY <1>1, <1>4, <1>9, <1>10, <3>1, <3>2
  <2> QED
    BY <1>2, <1>4, <1>5, <1>9, <1>10, <1>11, <1>12, <1>13, <2>1 DEF BooksHold, ok, failed
<1> QED
  BY <1>14 DEF r

\* The settings of a run hold.
LEMMA SettingsOfRun ==
  ASSUME NEW c, IsRun(c)
  PROVE  SettingsHold(ResultFile(c))
<1> DEFINE r == ResultFile(c)
           R == CommittedRows(c, c.reads.latencies)
           S == SentRows(c, c.reads.sent)
<1>1. /\ r.up = c.recover /\ r.recover = c.recover /\ r.failure = c.failure
      /\ r.strategy = c.strategy /\ r.budget = c.budget
      /\ r.sent = Cardinality(S)
      /\ r.latencies = [k \in R |-> Start(c, k, LastAttempt(c, k)).t - c.due]
  BY ResultFields
<1>2. R \in SUBSET Cohort
  BY DEF CommittedRows
<1>3. r.sent > 0 => R # {}
  <2>1. S \in SUBSET R
    <3> SUFFICES ASSUME NEW k \in Cohort, SentAt(c, k, c.reads.sent)
                 PROVE  Committed(c, k, c.reads.latencies)
      BY DEF SentRows, CommittedRows
    <3>1. /\ LastAttempt(c, k) \in 1 .. c.budget /\ Accepts(c, k, LastAttempt(c, k))
          /\ Start(c, k, LastAttempt(c, k)).t < c.reads.sent
      BY LastAttemptFacts DEF SentAt, Committed
    <3>2. Start(c, k, LastAttempt(c, k)).t \in Nat
      BY <3>1, AttemptFacts
    <3>3. c.reads.sent \in Nat /\ c.reads.latencies \in Nat /\ c.reads.sent <= c.reads.latencies
      BY ReadFacts
    <3> QED
      BY <3>1, <3>2, <3>3 DEF Committed
  <2>2. Cardinality({}) = 0
    BY FS_EmptySet
  <2> HIDE DEF R, S, r
  <2> QED
    BY <1>1, <2>1, <2>2
<1>4. \A k \in R : Start(c, k, LastAttempt(c, k)).t - c.due \in Int
  <2> SUFFICES ASSUME NEW k \in R PROVE Start(c, k, LastAttempt(c, k)).t - c.due \in Int
    OBVIOUS
  <2>1. k \in Cohort /\ c.due \in Nat
    BY <1>2 DEF IsRun
  <2>2. LastAttempt(c, k) \in 1 .. c.budget
    BY <2>1, LastAttemptFacts
  <2>3. Start(c, k, LastAttempt(c, k)).t \in Nat
    BY <2>1, <2>2, AttemptFacts
  <2> QED
    BY <2>1, <2>3
<1>5. DOMAIN r.latencies = R /\ \A k \in R : r.latencies[k] \in Int
  BY <1>1, <1>4
<1> HIDE DEF r
<1>6. SettingsHold(r)
  BY <1>1, <1>2, <1>3, <1>5 DEF SettingsHold, IsRun
<1> QED
  BY <1>6 DEF r

\* The times in the log are those of the attempts made.
LEMMA LogTimes ==
  ASSUME NEW c, IsRun(c)
  PROVE  /\ \A i \in DOMAIN Log(c) : \E k \in Cohort : \E j \in 1 .. c.budget :
              Log(c)[i].t = Start(c, k, j).t /\ Start(c, k, j).t \in Nat
         /\ \A k \in Cohort : \A j \in Made(c, k) : \E i \in DOMAIN Log(c) :
              Log(c)[i].t = Start(c, k, j).t
<1> DEFINE L == Log(c)
           n == Cardinality(Entries(c))
<1>1. PICK f : Enumerates(f, InTime(c), Entries(c)) /\ L = [i \in 1 .. n |-> Logged(c, f[i])]
  BY LogInOrder
<1>2. n \in Nat /\ DOMAIN L = 1 .. n
  BY <1>1, LogEntry
<1>3. \A i \in 1 .. n : \E k \in Cohort : \E j \in 1 .. c.budget :
        L[i].t = Start(c, k, j).t /\ Start(c, k, j).t \in Nat
  BY <1>1, <1>2, LogEntry
<1>5. \A k \in Cohort : \A j \in Made(c, k) : \E i \in 1 .. n :
        f[i] = <<Start(c, k, j).t, k, j>> /\ L[i] = Logged(c, f[i])
  BY <1>1, <1>2, LogEntry
<1> HIDE DEF L, n
<1>6. \A k \in Cohort : \A j \in Made(c, k) : \E i \in 1 .. n : L[i].t = Start(c, k, j).t
  <2> SUFFICES ASSUME NEW k \in Cohort, NEW j \in Made(c, k)
               PROVE  \E i \in 1 .. n : L[i].t = Start(c, k, j).t
    OBVIOUS
  <2>1. PICK i \in 1 .. n : f[i] = <<Start(c, k, j).t, k, j>> /\ L[i] = Logged(c, f[i])
    BY <1>5
  <2>2. L[i].t = f[i][1]
    BY <2>1 DEF Logged
  <2> QED
    BY <2>1, <2>2
<1> QED
  BY <1>2, <1>3, <1>6 DEF L

\* In a finished run every reminder made its first attempt, and no logged attempt is
\* earlier than the first of the log.
LEMMA FirstOfLog ==
  ASSUME NEW c, IsRun(c), Log(c) # <<>>
  PROVE  /\ Log(c)[1].t \in Nat /\ c.due <= Log(c)[1].t
         /\ \A k \in Cohort : Done(c, k) => Log(c)[1].t <= c.due + k * c.stagger
<1> DEFINE L == Log(c)
           n == Cardinality(Entries(c))
<1>1. PICK f : Enumerates(f, InTime(c), Entries(c)) /\ L = [i \in 1 .. n |-> Logged(c, f[i])]
  BY LogInOrder
<1>2. n \in Nat /\ DOMAIN L = 1 .. n
  BY <1>1, LogEntry
<1>3. /\ \A i \in 1 .. n : \E k \in Cohort : \E j \in 1 .. c.budget :
           L[i].t = Start(c, k, j).t /\ Start(c, k, j).t \in Nat
      /\ \A k \in Cohort : \A j \in Made(c, k) : \E i \in 1 .. n : L[i].t = Start(c, k, j).t
  BY <1>2, LogTimes
<1>4. ResultFile(c).log = L
  BY ResultFields
<1>5. /\ \A i, j \in 1 .. n : i <= j => L[i].t <= L[j].t
      /\ L \in Seq([t : Nat, ok : BOOLEAN, key : Cohort])
  BY <1>2, <1>4, LogOfRun DEF LogHolds
<1> HIDE DEF L, n
<1>6. 1 \in 1 .. n
  <2>1. L # <<>>
    BY DEF L
  <2> QED
    BY <1>2, <1>5, <2>1
<1>7. L[1].t \in Nat /\ c.due <= L[1].t
  <2>1. PICK k \in Cohort, j \in 1 .. c.budget : L[1].t = Start(c, k, j).t /\ Start(c, k, j).t \in Nat
    BY <1>3, <1>6
  <2>2. /\ c.due \in Nat /\ k * c.stagger \in Nat /\ c.late \in Nat /\ c.budget \in Nat
    BY RunNumbers
  <2>3. (j - 1) * c.late \in Nat
    <3>1. j - 1 \in Nat
      BY <2>2
    <3> QED
      BY <2>2, <3>1
  <2>4. /\ Start(c, k, j).t = c.due + k * c.stagger + Start(c, k, j).sum + (j - 1) * c.late
        /\ Start(c, k, j).sum \in Nat
    BY AttemptFacts
  <2> DEFINE x == k * c.stagger
             y == (j - 1) * c.late
  <2>5. x \in Nat /\ y \in Nat /\ Start(c, k, j).t = c.due + x + Start(c, k, j).sum + y
    BY <2>2, <2>3, <2>4
  <2> HIDE DEF x, y
  <2> QED
    BY <2>1, <2>2, <2>4, <2>5
<1>8. ASSUME NEW k \in Cohort, Done(c, k) PROVE L[1].t <= c.due + k * c.stagger
  <2> DEFINE l == LastAttempt(c, k)
  <2>1. l \in 1 .. c.budget /\ c.budget \in Nat /\ l \in 1 .. l /\ Start(c, k, l).t < c.cut
    BY <1>8, LastAttemptFacts, RunNumbers DEF Done, Made
  <2> HIDE DEF l
  <2>2. 1 \in 1 .. l /\ 1 \in 1 .. c.budget
    BY <2>1
  <2>3. /\ Start(c, k, 1).t \in Nat /\ Start(c, k, l).t \in Nat
        /\ Start(c, k, 1).t <= Start(c, k, l).t
    BY <2>1, <2>2, AttemptFacts
  <2>4. 1 \in Made(c, k)
    <3>1. c.cut \in Nat
      BY RunNumbers
    <3>2. Start(c, k, 1).t < c.cut
      BY <2>1, <2>3, <3>1
    <3> QED
      BY <2>2, <3>2 DEF Made, l
  <2>6. PICK i \in 1 .. n : L[i].t = Start(c, k, 1).t
    BY <1>3, <2>4
  <2>7. L[1].t <= Start(c, k, 1).t
    <3>1. 1 <= i
      BY <1>2
    <3> QED
      BY <1>5, <1>6, <2>6, <3>1
  <2>8. Start(c, k, 1).t = c.due + k * c.stagger
    <3>1. /\ Start(c, k, 1).t = c.due + k * c.stagger + Start(c, k, 1).sum + (1 - 1) * c.late
          /\ Start(c, k, 1).sum \in Nat /\ Reach(c.strategy, Start(c, k, 1).sum, 1 - 1)
      BY <2>2, AttemptFacts
    <3>2. c.late \in Nat /\ c.due \in Nat /\ k * c.stagger \in Nat /\ c.strategy \in Strategies
      BY RunNumbers
    <3>3. (1 - 1) * c.late = 0 /\ 1 - 1 = 0
      BY <3>2
    <3>4. Start(c, k, 1).sum = 0
      <4>1. ExpSum[0] = 0 /\ 0 * Base = 0 /\ 0 * Cap = 0
        BY ExpSumFacts, WaitsAssumption
      <4>2. \A s \in Strategies, x \in Nat : Reach(s, x, 0) => x = 0
        BY <4>1 DEF Reach, Strategies
      <4> QED
        BY <3>1, <3>2, <3>3, <4>2
    <3> DEFINE x == k * c.stagger
               y == (1 - 1) * c.late
    <3>5. Start(c, k, 1).t = c.due + x + 0 + y /\ y = 0 /\ x \in Nat
      BY <3>1, <3>2, <3>3, <3>4
    <3> HIDE DEF x, y
    <3>6. Start(c, k, 1).t = c.due + x
      BY <3>2, <3>5
    <3> QED
      BY <3>6 DEF x
  <2> QED
    BY <2>7, <2>8
<1> QED
  BY <1>7, <1>8 DEF L

\* The last attempt of a budget comes after all the waits.
LEMMA LastOfBudget ==
  ASSUME NEW c, IsRun(c), NEW k \in Cohort
  PROVE  /\ Start(c, k, c.budget).sum \in Nat
         /\ Reach(c.strategy, Start(c, k, c.budget).sum, c.budget - 1)
         /\ c.due + k * c.stagger + Start(c, k, c.budget).sum <= Start(c, k, c.budget).t
         /\ c.late = 0 /\ c.stagger = 0 =>
              Start(c, k, c.budget).t = c.due + Start(c, k, c.budget).sum
         /\ Start(c, k, c.budget).t \in Nat
         /\ \A j \in 1 .. c.budget : Start(c, k, j).t <= Start(c, k, c.budget).t
<1> DEFINE b == c.budget
           m == (b - 1) * c.late
           x == k * c.stagger
<1>1. b \in Nat \ {0} /\ c.late \in Nat /\ c.due \in Nat /\ x \in Nat /\ b - 1 \in Nat /\ k \in Nat
  BY RunNumbers
<1>2. m \in Nat /\ (c.late = 0 => m = 0) /\ (c.stagger = 0 => x = 0)
  BY <1>1
<1>3. b \in 1 .. c.budget
  BY <1>1
<1>4. /\ Start(c, k, b).t \in Nat /\ Start(c, k, b).sum \in Nat
      /\ Start(c, k, b).t = c.due + x + Start(c, k, b).sum + m
      /\ Reach(c.strategy, Start(c, k, b).sum, b - 1)
      /\ \A j \in 1 .. b : Start(c, k, j).t <= Start(c, k, b).t
  BY <1>3, AttemptFacts
<1> HIDE DEF b, m, x
<1>5. /\ c.due + x + Start(c, k, b).sum <= Start(c, k, b).t
      /\ c.late = 0 /\ c.stagger = 0 => Start(c, k, b).t = c.due + Start(c, k, b).sum
  BY <1>1, <1>2, <1>4
<1> QED
  BY <1>4, <1>5 DEF b, x

\* What survives is what its waits carry past the recovery.
LEMMA SurvivalOfRun ==
  ASSUME NEW c, IsRun(c)
  PROVE  SurvivalHolds(ResultFile(c))
<1> DEFINE r == ResultFile(c)
           S == SentOf(c)
           t0 == Log(c)[1].t
           O == Outlasting(r, r.up - r.log[1].t)
<1>1. /\ r.log = Log(c) /\ r.up = c.recover /\ r.strategy = c.strategy /\ r.budget = c.budget
      /\ r.failure = c.failure /\ r.prompt = (c.late = 0 /\ c.stagger = 0)
      /\ r.sums = [k \in Cohort |-> Start(c, k, c.budget).sum]
  BY ResultFields
<1>2. \A k \in Cohort : r.sums[k] = Start(c, k, c.budget).sum
  BY <1>1
<1>3. r.sums \in [Cohort -> Nat] /\ \A k \in Cohort : Reach(r.strategy, r.sums[k], r.budget - 1)
  <2>1. \A k \in Cohort : /\ Start(c, k, c.budget).sum \in Nat
                          /\ Reach(c.strategy, Start(c, k, c.budget).sum, c.budget - 1)
    BY LastOfBudget
  <2> HIDE DEF r
  <2> QED
    BY <1>1, <1>2, <2>1
<1>a. r.open = 0 /\ r.orderly => r.sent = Cardinality(S) /\ \A k \in Cohort : Done(c, k)
  BY SettledRun, ResultFields
<1> HIDE DEF r
<1>4. ASSUME r.open = 0, r.orderly, r.log # <<>>, r.failure = 0 PROVE O \in SUBSET S
  <2> SUFFICES ASSUME NEW k \in Cohort, c.recover - t0 <= Start(c, k, c.budget).sum PROVE k \in S
    BY <1>1, <1>2 DEF Outlasting
  <2> DEFINE x == Start(c, k, c.budget).sum
             z == Start(c, k, c.budget).t
             y == c.due + k * c.stagger
  <2>1. Done(c, k)
    BY <1>4, <1>a
  <2>2. t0 \in Nat /\ t0 <= y
    BY <1>1, <1>4, <2>1, FirstOfLog
  <2>3. x \in Nat /\ z \in Nat /\ y + x <= z
    BY LastOfBudget
  <2>4. y \in Nat /\ c.recover \in Nat
    BY RunNumbers
  <2> HIDE DEF t0, y
  <2>5. c.recover <= z
    <3>1. c.recover - t0 <= x
      OBVIOUS
    <3> HIDE DEF x, z
    <3> QED
      BY <2>2, <2>3, <2>4, <3>1
  <2>6. c.budget \in 1 .. c.budget
    BY RunNumbers
  <2>7. Accepts(c, k, c.budget)
    BY <1>1, <1>4, <2>5, <2>6, AcceptedWhenUp
  <2>8. Accepts(c, k, LastAttempt(c, k))
    BY <2>7, LastAttemptFacts
  <2> QED
    BY <2>1, <2>8 DEF SentOf
<1>5. ASSUME r.open = 0, r.orderly, r.log # <<>>, r.prompt PROVE S \in SUBSET O
  <2> SUFFICES ASSUME NEW k \in Cohort, Accepts(c, k, LastAttempt(c, k))
               PROVE  c.recover - t0 <= Start(c, k, c.budget).sum
    BY <1>1, <1>2 DEF Outlasting, SentOf
  <2> DEFINE x == Start(c, k, c.budget).sum
             z == Start(c, k, c.budget).t
             y == Start(c, k, LastAttempt(c, k)).t
  <2>1. LastAttempt(c, k) \in 1 .. c.budget
    BY LastAttemptFacts
  <2>2. c.recover <= y /\ y \in Nat /\ c.recover \in Nat
    BY <2>1, AcceptedWhenUp, AttemptFacts, RunNumbers
  <2>3. x \in Nat /\ z \in Nat /\ z = c.due + x /\ y <= z
    BY <1>1, <1>5, <2>1, LastOfBudget
  <2>4. t0 \in Nat /\ c.due <= t0 /\ c.due \in Nat
    BY <1>1, <1>5, FirstOfLog, RunNumbers
  <2> HIDE DEF x, y, z, t0
  <2>5. c.recover - t0 <= x
    BY <2>2, <2>3, <2>4
  <2> QED
    BY <2>5 DEF x, t0
<1>6. IsFiniteSet(Cohort) /\ S \in SUBSET Cohort /\ O \in SUBSET Cohort
  BY CohortFacts DEF Outlasting
<1> HIDE DEF S, O
<1>7. IsFiniteSet(S) /\ IsFiniteSet(O)
  BY <1>6, FS_Subset
<1>8. r.open = 0 /\ r.orderly /\ r.log # <<>> =>
        /\ r.failure = 0 => Cardinality(O) <= r.sent
        /\ r.prompt => r.sent <= Cardinality(O)
  <2>1. O \in SUBSET S => Cardinality(O) <= Cardinality(S)
    BY <1>7, FS_Subset
  <2>2. S \in SUBSET O => Cardinality(S) <= Cardinality(O)
    BY <1>7, FS_Subset
  <2> QED
    BY <1>a, <1>4, <1>5, <2>1, <2>2
<1>9. SurvivalHolds(r)
  BY <1>3, <1>8 DEF SurvivalHolds, O
<1> QED
  BY <1>9 DEF r

\* Without an outage the attempt after the failing calls is the last.
LEMMA LastWithoutOutage ==
  ASSUME NEW c, IsRun(c), NEW k \in Cohort, c.recover = 0
  PROVE  /\ Accepts(c, k, LastAttempt(c, k)) <=> c.dice[k] < c.budget
         /\ c.dice[k] < c.budget => LastAttempt(c, k) = c.dice[k] + 1
<1> DEFINE L == LastAttempt(c, k)
           d == c.dice[k]
           b == c.budget
<1>1. b \in Nat \ {0} /\ d \in Nat
  BY RunNumbers
<1>2. /\ L \in 1 .. b /\ (L = b \/ Accepts(c, k, L))
      /\ \A i \in 1 .. b : i < L => ~Accepts(c, k, i)
  BY LastAttemptFacts
<1>3. \A i \in 1 .. b : Accepts(c, k, i) <=> i > d
  <2> SUFFICES ASSUME NEW i \in 1 .. c.budget PROVE Accepts(c, k, i) <=> i > d
    OBVIOUS
  <2>1. Start(c, k, i).t \in Nat
    BY AttemptFacts
  <2> QED
    BY <2>1 DEF Accepts
<1> HIDE DEF L, d, b
<1>4. d < b => L = d + 1 /\ Accepts(c, k, L)
  <2> SUFFICES ASSUME d < b PROVE L = d + 1 /\ Accepts(c, k, L)
    OBVIOUS
  <2>1. d + 1 \in 1 .. b /\ b \in 1 .. b
    BY <1>1
  <2>2. Accepts(c, k, d + 1) /\ Accepts(c, k, b)
    BY <1>1, <1>3, <2>1
  <2>3. Accepts(c, k, L)
    BY <1>2, <2>2
  <2>4. ~(d + 1 < L)
    BY <1>2, <2>1, <2>2
  <2>5. L > d
    BY <1>2, <1>3, <2>3
  <2> QED
    BY <1>1, <1>2, <2>3, <2>4, <2>5
<1>5. Accepts(c, k, L) => d < b
  BY <1>1, <1>2, <1>3, SMTT(30)
<1> QED
  BY <1>4, <1>5 DEF L, d, b

\* The latencies of a run hold.
LEMMA LatencyOfRun ==
  ASSUME NEW c, IsRun(c)
  PROVE  LatencyHolds(ResultFile(c))
<1> DEFINE r == ResultFile(c)
<1>1. /\ r.recover = c.recover /\ r.strategy = c.strategy /\ r.budget = c.budget
      /\ r.late = c.late /\ r.stagger = c.stagger /\ r.dice = c.dice
      /\ r.latencies = [k \in CommittedRows(c, c.reads.latencies) |->
                           Start(c, k, LastAttempt(c, k)).t - c.due]
  BY ResultFields DEF ResultFile
<1>2. r.late \in Nat /\ r.stagger \in Nat /\ \A k \in Cohort : r.dice[k] \in Nat
  BY <1>1 DEF IsRun
<1>3. r.open = 0 /\ r.orderly =>
        /\ DOMAIN r.latencies = SentOf(c) /\ \A k \in Cohort : Done(c, k)
        /\ \A k \in SentOf(c) : r.latencies[k] = Start(c, k, LastAttempt(c, k)).t - c.due
  BY <1>1, SettledRun
<1> HIDE DEF r
<1>5. ASSUME r.recover = 0, r.open = 0, r.orderly
      PROVE  SentOf(c) = {k \in Cohort : r.dice[k] < r.budget}
  <2>1. \A k \in Cohort : k \in SentOf(c) <=> Accepts(c, k, LastAttempt(c, k))
    BY <1>3, <1>5 DEF SentOf
  <2>2. \A k \in Cohort : Accepts(c, k, LastAttempt(c, k)) <=> c.dice[k] < c.budget
    BY <1>1, <1>5, LastWithoutOutage
  <2>3. SentOf(c) \in SUBSET Cohort
    BY CohortFacts
  <2> QED
    BY <1>1, <2>1, <2>2, <2>3
<1>6. ASSUME r.recover = 0, r.open = 0, r.orderly, NEW k \in SentOf(c)
      PROVE  /\ Delays(r, k) \in Nat /\ Delays(r, k) <= r.latencies[k]
             /\ r.strategy = "none" => r.latencies[k] = Delays(r, k)
  <2> DEFINE L == LastAttempt(c, k)
             x == k * c.stagger
             y == (L - 1) * c.late
             s == Start(c, k, L).sum
             t == Start(c, k, L).t
  <2>1. k \in Cohort /\ c.dice[k] < c.budget
    BY <1>1, <1>5, <1>6
  <2>2. L = c.dice[k] + 1 /\ L \in 1 .. c.budget
    BY <1>1, <1>6, <2>1, LastWithoutOutage, LastAttemptFacts
  <2>3. /\ c.due \in Nat /\ x \in Nat /\ c.late \in Nat /\ c.dice[k] \in Nat
    BY <2>1, RunNumbers
  <2>4. /\ s \in Nat /\ t = c.due + x + s + y /\ Reach(c.strategy, s, L - 1)
    BY <2>1, <2>2, AttemptFacts
  <2>5. c.strategy = "none" => s = 0
    BY <2>4 DEF Reach
  <2>6. Delays(r, k) = x + y
    <3>1. L - 1 = c.dice[k]
      BY <2>2, <2>3
    <3> QED
      BY <1>1, <3>1 DEF Delays
  <2>7. y \in Nat
    <3>1. L - 1 \in Nat
      BY <2>2, <2>3
    <3> QED
      BY <2>3, <3>1
  <2>8. r.latencies[k] = t - c.due
    BY <1>3, <1>6
  <2> HIDE DEF x, y, s, t
  <2> QED
    BY <1>1, <2>3, <2>4, <2>5, <2>6, <2>7, <2>8
<1>7. LatencyHolds(r)
  BY <1>2, <1>3, <1>5, <1>6 DEF LatencyHolds
<1> QED
  BY <1>7 DEF r

\* The entry of a success is as often after entries of its reminder as the attempt is
\* after others.
LEMMA NthOfRun ==
  ASSUME NEW c, IsRun(c), NEW h \in OkAt(ResultFile(c))
  PROVE  \E k \in Cohort : \E j \in 1 .. c.budget :
           /\ j \in Made(c, k) /\ Accepts(c, k, j) /\ j = LastAttempt(c, k)
           /\ NthIn(ResultFile(c), h) = j
<1> DEFINE L == Log(c)
           n == Cardinality(Entries(c))
<1>1. PICK f : Enumerates(f, InTime(c), Entries(c)) /\ L = [i \in 1 .. n |-> Logged(c, f[i])]
  BY LogInOrder
<1>2. n \in Nat /\ DOMAIN L = 1 .. n
  BY <1>1, LogEntry
<1>3. ResultFile(c).log = L
  BY ResultFields
<1>4. h \in 1 .. n /\ L[h].ok
  BY <1>2, <1>3 DEF OkAt
<1>5. \A i \in 1 .. n : \E k \in Cohort : \E j \in 1 .. c.budget :
        /\ j \in Made(c, k) /\ f[i] = <<Start(c, k, j).t, k, j>>
        /\ L[i].ok = Accepts(c, k, j) /\ L[i].key = k
  <2> SUFFICES ASSUME NEW i \in 1 .. n
               PROVE  \E k \in Cohort : \E j \in 1 .. c.budget :
                        /\ j \in Made(c, k) /\ f[i] = <<Start(c, k, j).t, k, j>>
                        /\ L[i].ok = Accepts(c, k, j) /\ L[i].key = k
    OBVIOUS
  <2>1. \A k \in Cohort : \A j \in Made(c, k) : j \in 1 .. c.budget
    BY EntryFacts
  <2>2. \E k \in Cohort : \E j \in Made(c, k) :
          /\ f[i] = <<Start(c, k, j).t, k, j>>
          /\ L[i].ok = Accepts(c, k, j) /\ L[i].key = k
    BY <1>1, <1>2, LogEntry
  <2> QED
    BY <2>1, <2>2
<1>6. \A k \in Cohort : \A j \in Made(c, k) : \E i \in 1 .. n :
        f[i] = <<Start(c, k, j).t, k, j>> /\ L[i] = Logged(c, f[i])
  BY <1>1, <1>2, LogEntry
<1>7. /\ \A i, j \in 1 .. n : f[i] = f[j] => i = j
      /\ \A i, j \in 1 .. n : i < j => Before(f[i], f[j])
  <2>1. \A i, j \in 1 .. n : i < j => <<f[i], f[j]>> \in InTime(c)
    BY <1>1 DEF Enumerates
  <2> QED
    BY <1>1, <2>1 DEF Enumerates, InTime
<1> HIDE DEF L, n
<1>8. PICK k \in Cohort : \E j \in 1 .. c.budget :
        /\ j \in Made(c, k) /\ f[h] = <<Start(c, k, j).t, k, j>> /\ Accepts(c, k, j) /\ L[h].key = k
  BY <1>4, <1>5
<1>9. PICK j \in 1 .. c.budget :
        /\ j \in Made(c, k) /\ f[h] = <<Start(c, k, j).t, k, j>> /\ Accepts(c, k, j) /\ L[h].key = k
  BY <1>8
<1>10. c.budget \in Nat \ {0} /\ c.cut \in Nat
  BY RunNumbers
<1>11. j = LastAttempt(c, k)
  <2>1. /\ LastAttempt(c, k) \in 1 .. c.budget /\ j \in 1 .. LastAttempt(c, k)
        /\ ~(j < LastAttempt(c, k))
    BY <1>9, LastAttemptFacts DEF Made
  <2> QED
    BY <1>10, <2>1
<1>12. \A x \in 1 .. j : /\ Start(c, k, x).t \in Nat /\ Start(c, k, x).t <= Start(c, k, j).t
                         /\ Start(c, k, j).t \in Nat /\ x \in Made(c, k)
  <2> SUFFICES ASSUME NEW x \in 1 .. j
               PROVE  /\ Start(c, k, x).t \in Nat /\ Start(c, k, x).t <= Start(c, k, j).t
                      /\ Start(c, k, j).t \in Nat /\ x \in Made(c, k)
    OBVIOUS
  <2>1. x \in 1 .. c.budget /\ Start(c, k, j).t < c.cut
    BY <1>9, <1>10 DEF Made
  <2>2. /\ Start(c, k, x).t \in Nat /\ Start(c, k, x).t <= Start(c, k, j).t
        /\ Start(c, k, j).t \in Nat
    BY <2>1, AttemptFacts
  <2>3. Start(c, k, x).t < c.cut
    BY <1>10, <2>1, <2>2
  <2> QED
    BY <1>11, <2>2, <2>3 DEF Made
<1> DEFINE G == {g \in 1 .. h : L[g].key = L[h].key}
           b == [g \in G |-> f[g][3]]
<1>13. \A g \in G : /\ g \in 1 .. n /\ g \in 1 .. h /\ b[g] \in 1 .. j
                    /\ f[g] = <<Start(c, k, b[g]).t, k, b[g]>>
  <2> SUFFICES ASSUME NEW g \in G
               PROVE  /\ g \in 1 .. n /\ g \in 1 .. h /\ b[g] \in 1 .. j
                      /\ f[g] = <<Start(c, k, b[g]).t, k, b[g]>>
    OBVIOUS
  <2>1. g \in 1 .. n /\ g \in 1 .. h /\ L[g].key = k
    BY <1>2, <1>4, <1>9
  <2>2. PICK x \in 1 .. c.budget : x \in Made(c, k) /\ f[g] = <<Start(c, k, x).t, k, x>>
    BY <1>5, <2>1
  <2>3. b[g] = x /\ x \in 1 .. j
    BY <1>11, <2>2 DEF Made
  <2> QED
    BY <2>1, <2>2, <2>3
<1>14. \A g \in 1 .. h : L[g].key = k => g \in G
  BY <1>9
<1> HIDE DEF G, b
<1>15. ASSUME NEW x \in 1 .. j PROVE \E g \in G : b[g] = x
  <2>1. x \in Made(c, k) /\ Start(c, k, x).t \in Nat /\ Start(c, k, j).t \in Nat
        /\ Start(c, k, x).t <= Start(c, k, j).t
    BY <1>12, <1>15
  <2>2. PICK g \in 1 .. n : f[g] = <<Start(c, k, x).t, k, x>> /\ L[g] = Logged(c, f[g])
    BY <1>6, <2>1
  <2>3. L[g].key = k
    BY <2>2 DEF Logged
  <2>4. ~(h < g)
    <3> SUFFICES ASSUME h < g PROVE FALSE
      OBVIOUS
    <3>1. Before(f[h], f[g])
      BY <1>4, <1>7
    <3>2. j \in Nat /\ x \in Nat /\ x <= j /\ k \in Nat
      BY <1>10, RunNumbers
    <3> QED
      BY <1>9, <2>1, <2>2, <3>1, <3>2 DEF Before
  <2>5. g \in 1 .. h
    BY <1>2, <1>4, <2>4
  <2>6. g \in G
    BY <1>14, <2>3, <2>5
  <2>7. b[g] = x
    BY <1>13, <2>2, <2>6
  <2> QED
    BY <2>6, <2>7
<1>16. b \in Bijection(G, 1 .. j)
  <2>1. b = [g \in G |-> b[g]]
    BY DEF b
  <2>2. b \in [G -> 1 .. j]
    BY <1>13, <2>1
  <2>3. \A x, y \in G : b[x] = b[y] => x = y
    BY <1>7, <1>13
  <2> QED
    BY <1>15, <2>2, <2>3 DEF Bijection, Injection, Surjection, IsInjective
<1>17. IsFiniteSet(1 .. j) /\ Cardinality(1 .. j) = j
  <2>1. 1 \in Int /\ j \in Int /\ ~(1 > j) /\ j - 1 + 1 = j
    BY <1>10
  <2> QED
    BY <2>1, FS_Interval
<1>18. IsFiniteSet(G)
  <2>1. 1 \in Int /\ h \in Int
    BY <1>2, <1>4
  <2>2. IsFiniteSet(1 .. h)
    BY <2>1, FS_Interval
  <2>3. G \in SUBSET (1 .. h)
    BY DEF G
  <2> QED
    BY <2>2, <2>3, FS_Subset
<1>19. Cardinality(G) = Cardinality(1 .. j)
  BY <1>16, <1>18, FS_Bijection DEF ExistsBijection
<1>20. NthIn(ResultFile(c), h) = Cardinality(G)
  BY <1>3 DEF NthIn, G, L
<1> QED
  BY <1>9, <1>11, <1>17, <1>19, <1>20

\* If no attempt is late, the first of the log is made when the cohort falls due.
LEMMA PromptStart ==
  ASSUME NEW c, IsRun(c), c.late = 0, c.stagger = 0, NEW k \in Cohort, NEW j \in Made(c, k)
  PROVE  /\ Log(c)[1].t = c.due
         /\ \A i \in 1 .. c.budget :
              /\ Start(c, k, i).t = c.due + Start(c, k, i).sum /\ Start(c, k, i).sum \in Nat
              /\ c.strategy = "exp" => Start(c, k, i).sum = ExpSum[i - 1]
<1>1. /\ c.due \in Nat /\ c.budget \in Nat \ {0} /\ c.cut \in Nat /\ k \in Nat
      /\ LastAttempt(c, k) \in 1 .. c.budget
  BY RunNumbers, LastAttemptFacts
<1>2. \A i \in 1 .. c.budget :
        /\ Start(c, k, i).t = c.due + Start(c, k, i).sum /\ Start(c, k, i).sum \in Nat
        /\ Start(c, k, i).t \in Nat /\ Reach(c.strategy, Start(c, k, i).sum, i - 1)
        /\ Start(c, k, 1).t <= Start(c, k, i).t
  <2> SUFFICES ASSUME NEW i \in 1 .. c.budget
               PROVE  /\ Start(c, k, i).t = c.due + Start(c, k, i).sum /\ Start(c, k, i).sum \in Nat
                      /\ Start(c, k, i).t \in Nat /\ Reach(c.strategy, Start(c, k, i).sum, i - 1)
                      /\ Start(c, k, 1).t <= Start(c, k, i).t
    OBVIOUS
  <2>1. 1 \in 1 .. i
    BY <1>1
  <2>2. /\ Start(c, k, i).t = c.due + k * c.stagger + Start(c, k, i).sum + (i - 1) * c.late
        /\ Start(c, k, i).sum \in Nat
        /\ Start(c, k, i).t \in Nat /\ Reach(c.strategy, Start(c, k, i).sum, i - 1)
        /\ Start(c, k, 1).t <= Start(c, k, i).t
    BY <2>1, AttemptFacts
  <2>3. k * c.stagger = 0 /\ (i - 1) * c.late = 0
    <3>1. k * 0 = 0 /\ (i - 1) * 0 = 0
      BY <1>1
    <3> QED
      BY <3>1
  <2> QED
    BY <1>1, <2>2, <2>3
<1>3. c.strategy = "exp" => \A i \in 1 .. c.budget : Start(c, k, i).sum = ExpSum[i - 1]
  BY <1>2 DEF Reach
<1>4. 1 \in 1 .. c.budget /\ Start(c, k, 1).sum = 0
  <2>1. 1 \in 1 .. c.budget /\ 1 - 1 = 0
    BY <1>1
  <2>2. Reach(c.strategy, Start(c, k, 1).sum, 0) /\ Start(c, k, 1).sum \in Nat /\ c.strategy \in Strategies
    BY <1>2, <2>1, RunNumbers
  <2>3. ExpSum[0] = 0 /\ 0 * Base = 0 /\ 0 * Cap = 0
    BY ExpSumFacts, WaitsAssumption
  <2>4. \A s \in Strategies, x \in Nat : Reach(s, x, 0) => x = 0
    BY <2>3 DEF Reach, Strategies
  <2> QED
    BY <2>1, <2>2, <2>4
<1>5. 1 \in Made(c, k)
  <2>1. j \in 1 .. c.budget /\ Start(c, k, j).t < c.cut /\ 1 \in 1 .. LastAttempt(c, k)
    BY <1>1 DEF Made
  <2>2. Start(c, k, 1).t < c.cut
    BY <1>1, <1>2, <1>4, <2>1
  <2> QED
    BY <2>1, <2>2 DEF Made
<1>6. PICK i \in DOMAIN Log(c) : Log(c)[i].t = Start(c, k, 1).t
  BY <1>5, LogTimes
<1>7. Log(c)[i].t = c.due
  <2>1. Start(c, k, 1).t = c.due + Start(c, k, 1).sum
    BY <1>2, <1>4
  <2> QED
    BY <1>1, <1>4, <1>6, <2>1
<1>8. Log(c) # <<>>
  BY <1>6
<1>9. c.due <= Log(c)[1].t /\ Log(c)[1].t \in Nat
  BY <1>8, FirstOfLog
<1>10. Log(c)[1].t <= Log(c)[i].t
  <2>1. /\ \A x, y \in DOMAIN Log(c) : x <= y => Log(c)[x].t <= Log(c)[y].t
        /\ Log(c) \in Seq([t : Nat, ok : BOOLEAN, key : Cohort])
    <3>1. ResultFile(c).log = Log(c)
      BY ResultFields
    <3> QED
      BY <3>1, LogOfRun DEF LogHolds
  <2>2. 1 \in DOMAIN Log(c) /\ 1 <= i
    BY <1>6, <2>1
  <2> QED
    BY <1>6, <2>1, <2>2
<1>11. Log(c)[1].t = c.due
  BY <1>1, <1>7, <1>9, <1>10
<1> QED
  BY <1>2, <1>3, <1>11

\* The order of a run's attempts holds.
LEMMA OrderOfRun ==
  ASSUME NEW c, IsRun(c)
  PROVE  OrderHolds(ResultFile(c))
<1> DEFINE r == ResultFile(c)
<1>1. /\ r.budget = c.budget /\ r.strategy = c.strategy /\ r.failure = c.failure
      /\ r.prompt = (c.late = 0 /\ c.stagger = 0) /\ r.up = c.recover /\ r.log = Log(c)
  BY ResultFields
<1>2. \A h \in OkAt(r) : \E k \in Cohort : \E j \in 1 .. c.budget :
        /\ j \in Made(c, k) /\ Accepts(c, k, j) /\ j = LastAttempt(c, k) /\ NthIn(r, h) = j
  BY NthOfRun
<1> HIDE DEF r
<1>3. ASSUME NEW h \in OkAt(r)
      PROVE  /\ NthIn(r, h) \in 1 .. c.budget
             /\ c.strategy = "exp" /\ c.late = 0 /\ c.stagger = 0 /\ c.failure = 0 =>
                  /\ c.recover - Log(c)[1].t <= ExpSum[NthIn(r, h) - 1]
                  /\ NthIn(r, h) > 1 => ExpSum[NthIn(r, h) - 2] < c.recover - Log(c)[1].t
  <2>1. PICK k \in Cohort : \E j \in 1 .. c.budget :
          /\ j \in Made(c, k) /\ Accepts(c, k, j) /\ j = LastAttempt(c, k) /\ NthIn(r, h) = j
    BY <1>2, <1>3
  <2>2. PICK j \in 1 .. c.budget :
          /\ j \in Made(c, k) /\ Accepts(c, k, j) /\ j = LastAttempt(c, k) /\ NthIn(r, h) = j
    BY <2>1
  <2>3. ASSUME c.strategy = "exp", c.late = 0, c.stagger = 0, c.failure = 0
        PROVE  /\ c.recover - Log(c)[1].t <= ExpSum[j - 1]
               /\ j > 1 => ExpSum[j - 2] < c.recover - Log(c)[1].t
    <3>1. /\ Log(c)[1].t = c.due /\ c.due \in Nat /\ c.recover \in Nat /\ c.budget \in Nat
          /\ \A i \in 1 .. c.budget :
               /\ Start(c, k, i).t = c.due + Start(c, k, i).sum /\ Start(c, k, i).sum \in Nat
               /\ Start(c, k, i).sum = ExpSum[i - 1]
      BY <2>2, <2>3, PromptStart, RunNumbers
    <3>2. c.recover <= Start(c, k, j).t
      BY <2>2, AcceptedWhenUp
    <3>3. c.recover - Log(c)[1].t <= ExpSum[j - 1]
      <4>1. Start(c, k, j).t = c.due + Start(c, k, j).sum /\ Start(c, k, j).sum \in Nat
            /\ Start(c, k, j).sum = ExpSum[j - 1]
        BY <3>1
      <4> QED
        BY <3>1, <3>2, <4>1
    <3>4. ASSUME j > 1 PROVE ExpSum[j - 2] < c.recover - Log(c)[1].t
      <4>1. j - 1 \in 1 .. c.budget /\ j - 1 < LastAttempt(c, k) /\ (j - 1) - 1 = j - 2
        BY <2>2, <3>1, <3>4
      <4>2. ~(c.recover <= Start(c, k, j - 1).t)
        BY <2>3, <4>1, LastAttemptFacts, AcceptedWhenUp
      <4>3. /\ Start(c, k, j - 1).t = c.due + Start(c, k, j - 1).sum /\ Start(c, k, j - 1).sum \in Nat
            /\ Start(c, k, j - 1).sum = ExpSum[j - 2]
        BY <3>1, <4>1
      <4> QED
        BY <3>1, <4>2, <4>3
    <3> QED
      BY <3>3, <3>4
  <2> QED
    BY <2>2, <2>3
<1>4. OrderHolds(r)
  BY <1>1, <1>3 DEF OrderHolds
<1> QED
  BY <1>4 DEF r

\* Everything a result file says is true of its run.
LEMMA ResultsAreTruthful ==
  ASSUME NEW c, IsRun(c)
  PROVE  Truthful(ResultFile(c))
BY LogOfRun, BooksOfRun, SettingsOfRun, SurvivalOfRun, LatencyOfRun, OrderOfRun DEF Truthful

-----------------------------------------------------------------------------
(* What the analysis derives from a run.                                   *)

\* t is when the first success of a result file came, after its first attempt.
FirstAt(r, t) ==
  \E i \in OkAt(r) : /\ t = r.log[i].t - r.log[1].t /\ t \in Int
                     /\ \A j \in OkAt(r) : t <= r.log[j].t - r.log[1].t

\* o is what is derived from the result file r of a run with an outage.
Recorded(r, o) ==
  /\ r.log # <<>> /\ r.budget = OutageAttempts
  /\ OkAt(r) = {} => r.strategy # "exp" /\ o.bracket = None /\ o.peak = None
  /\ OkAt(r) # {} => /\ FirstAt(r, o.bracket[2])
                     /\ \E i \in FailedAt(r) : o.bracket[1] = r.log[i].t - r.log[1].t
                     /\ o.bracket # None /\ o.peak # None
                     /\ r.strategy = "exp" => FirstAt(r, o.spread[1])

\* The times of a log, counted from its first entry.
LEMMA TimesOfLog ==
  ASSUME NEW f, LogHolds(runs[f]), runs[f].log # <<>>
  PROVE  /\ Len(runs[f].log) \in Nat \ {0} /\ DOMAIN runs[f].log = 1 .. Len(runs[f].log)
         /\ IsFiniteSet(DOMAIN runs[f].log) /\ 1 \in DOMAIN runs[f].log
         /\ \A i \in DOMAIN runs[f].log : /\ runs[f].log[i].t \in Nat /\ runs[f].log[i].ok \in BOOLEAN
                                          /\ runs[f].log[i].t - T0(f) \in Nat
         /\ Successes(f) = OkAt(runs[f]) /\ Failures(f) = FailedAt(runs[f])
         /\ T0(f) = runs[f].log[1].t /\ T0(f) \in Nat
<1> DEFINE L == runs[f].log
           n == Len(L)
<1>1. /\ L \in Seq([t : Nat, ok : BOOLEAN, key : Cohort])
      /\ \A i, j \in DOMAIN L : i <= j => L[i].t <= L[j].t
  BY DEF LogHolds
<1>2. /\ Successes(f) = OkAt(runs[f]) /\ Failures(f) = FailedAt(runs[f])
      /\ T0(f) = L[1].t
  BY DEF Successes, OkAt, Failures, FailedAt, T0
<1>3. L # <<>>
  OBVIOUS
<1> HIDE DEF L
<1>4. n \in Nat \ {0} /\ DOMAIN L = 1 .. n
  BY <1>1, <1>3
<1>5. \A i \in 1 .. n : L[i].t \in Nat /\ L[i].ok \in BOOLEAN
  <2>1. \A i \in 1 .. n : L[i] \in [t : Nat, ok : BOOLEAN, key : Cohort]
    <3> DEFINE S == [t : Nat, ok : BOOLEAN, key : Cohort]
    <3>1. L \in Seq(S)
      BY <1>1
    <3> HIDE DEF S
    <3>2. \A i \in 1 .. n : L[i] \in S
      BY <3>1
    <3> QED
      BY <3>2 DEF S
  <2> QED
    BY <2>1
<1> HIDE DEF n
<1>6. 1 \in 1 .. n /\ IsFiniteSet(1 .. n)
  <2>1. 1 \in Int /\ n \in Int
    BY <1>4
  <2> QED
    BY <1>4, <2>1, FS_Interval
<1>7. \A i \in 1 .. n : L[i].t - L[1].t \in Nat
  <2> SUFFICES ASSUME NEW i \in 1 .. n PROVE L[i].t - L[1].t \in Nat
    OBVIOUS
  <2>1. 1 <= i
    BY <1>4
  <2>2. L[1].t <= L[i].t /\ L[1].t \in Nat /\ L[i].t \in Nat
    BY <1>1, <1>4, <1>5, <1>6, <2>1
  <2> QED
    BY <2>2
<1> QED
  BY <1>2, <1>4, <1>5, <1>6, <1>7 DEF L, n

\* The first success is the least of the times of all.
LEMMA FirstSuccessIs ==
  ASSUME NEW f, LogHolds(runs[f]), runs[f].log # <<>>
  PROVE  IF OkAt(runs[f]) = {} THEN FirstSuccess(f) = None
                               ELSE FirstSuccess(f) \in Int /\ FirstAt(runs[f], FirstSuccess(f))
<1>1. CASE OkAt(runs[f]) = {}
  BY <1>1, TimesOfLog DEF FirstSuccess
<1>2. CASE OkAt(runs[f]) # {}
  <2> DEFINE D == DOMAIN runs[f].log
             S == OkAt(runs[f])
             x == [i \in D |-> runs[f].log[i].t - T0(f)]
             V == Times(f, S)
  <2>1. IsFiniteSet(D) /\ S \in SUBSET D /\ \A i \in D : x[i] \in Int
    BY TimesOfLog DEF OkAt
  <2>2. PICK i \in S : \A j \in S : x[i] <= x[j]
    <3> HIDE DEF D, S, x
    <3>1. S # {}
      BY <1>2 DEF S
    <3> QED
      BY <2>1, <3>1, Extremes
  <2>3. \A j \in S : x[j] = runs[f].log[j].t - T0(f) /\ x[j] \in Int
    BY <2>1
  <2>4. V = {x[j] : j \in S}
    BY <2>3 DEF Times
  <2>5. FirstSuccess(f) = Min(V)
    BY <1>2, TimesOfLog DEF FirstSuccess
  <2> HIDE DEF x, V
  <2>6. V \in SUBSET Int /\ x[i] \in V /\ \A y \in V : x[i] <= y
    BY <2>2, <2>3, <2>4
  <2>7. Min(V) = x[i]
    <3>1. PICK v \in V : v = x[i]
      BY <2>6
    <3> QED
      BY <2>6, <3>1, MinIs
  <2>8. FirstAt(runs[f], x[i]) /\ x[i] \in Int
    <3>1. T0(f) = runs[f].log[1].t
      BY DEF T0
    <3> QED
      BY <2>2, <2>3, <3>1 DEF FirstAt
  <2> QED
    BY <1>2, <2>5, <2>7, <2>8
<1> QED
  BY <1>1, <1>2

\* The last failure before it is the greatest of the times of those.
LEMMA LastFailureIs ==
  ASSUME NEW f, LogHolds(runs[f]), runs[f].log # <<>>, EarlierFailures(f) # {}
  PROVE  \E i \in FailedAt(runs[f]) : /\ LastFailure(f) = runs[f].log[i].t - runs[f].log[1].t
                                      /\ LastFailure(f) \in Int
<1> DEFINE D == DOMAIN runs[f].log
           S == {i \in FailedAt(runs[f]) : runs[f].log[i].t - T0(f) < FirstSuccess(f)}
           x == [i \in D |-> runs[f].log[i].t - T0(f)]
           V == EarlierFailures(f)
<1>1. IsFiniteSet(D) /\ S \in SUBSET D /\ \A i \in D : x[i] \in Int
  BY TimesOfLog DEF FailedAt
<1>2. \A j \in S : x[j] = runs[f].log[j].t - T0(f) /\ x[j] \in Int
  BY <1>1
<1>3. V = {x[j] : j \in S}
  BY <1>2, TimesOfLog DEF Times, EarlierFailures
<1>4. \A j \in S : j \in FailedAt(runs[f])
  OBVIOUS
<1> HIDE DEF x, V, S, D
<1>5. S # {}
  BY <1>3 DEF V
<1>6. PICK i \in S : \A j \in S : x[j] <= x[i]
  BY <1>1, <1>5, Extremes
<1>7. V \in SUBSET Int /\ x[i] \in V /\ \A y \in V : y <= x[i]
  BY <1>2, <1>3, <1>6
<1>8. Max(V) = x[i]
  <2>1. PICK v \in V : v = x[i]
    BY <1>7
  <2> QED
    BY <1>7, <2>1, MaxIs
<1>9. T0(f) = runs[f].log[1].t
  BY DEF T0
<1>10. LastFailure(f) = x[i]
  BY <1>8 DEF LastFailure, V
<1> QED
  BY <1>2, <1>4, <1>9, <1>10

\* The load from the first success on is a number.
LEMMA PeakOfRecovery ==
  ASSUME NEW f, LogHolds(runs[f]), runs[f].log # <<>>
  PROVE  SlidingPeak(InRecovery(f)) \in Int
<1> DEFINE s == AttemptTimes(f)
           n == Len(runs[f].log)
           B == {i \in 1 .. n : s[i] < FirstSuccess(f)}
           m == CallsBefore(f) + 1
<1>1. /\ n \in Nat \ {0} /\ DOMAIN s = 1 .. n /\ \A i \in 1 .. n : s[i] \in Int
      /\ IsFiniteSet(1 .. n)
  BY TimesOfLog DEF AttemptTimes
<1>2. CallsBefore(f) = Cardinality(B)
  BY <1>1 DEF CallsBefore, SearchLeft
<1>3. InRecovery(f) = SubSeq(s, m, n)
  BY DEF InRecovery
<1> HIDE DEF s, n
<1>4. B \in SUBSET (1 .. n)
  OBVIOUS
<1> HIDE DEF B
<1>5. Cardinality(B) \in Nat
  BY <1>1, <1>4, FS_Subset, FS_CardinalityType
<1>6. m \in Nat \ {0}
  BY <1>2, <1>5
<1> HIDE DEF m
<1>7. \A i \in m .. n : s[i] \in Int
  BY <1>1, <1>6
<1>8. SubSeq(s, m, n) \in Seq(Int)
  BY <1>1, <1>6, <1>7, SubSeqProperties
<1> QED
  BY <1>3, <1>8, PeakIsNumber

\* The record of a run that has one.
LEMMA RecordHolds ==
  ASSUME NEW f, Truthful(runs[f]), runs[f].log # <<>>, runs[f].budget = OutageAttempts,
         ~RunRaises(f)
  PROVE  Recorded(runs[f], RunRecord(f))
<1> DEFINE r == runs[f]
           o == RunRecord(f)
<1>1. LogHolds(r) /\ None \notin Int /\ None \notin Int \X Int
  BY AnalysisAssumption DEF Truthful
<1>2. /\ o.bracket = IF FirstSuccess(f) # None THEN <<LastFailure(f), FirstSuccess(f)>> ELSE None
      /\ o.peak = IF FirstSuccess(f) # None THEN SlidingPeak(InRecovery(f)) ELSE None
      /\ r.strategy = "exp" => o.spread[1] = FirstSuccess(f)
  BY DEF RunRecord
<1>3. /\ FirstSuccess(f) = None => r.strategy # "exp"
      /\ FirstSuccess(f) # None => EarlierFailures(f) # {}
  BY DEF RunRaises
<1> HIDE DEF o
<1>4. CASE OkAt(r) = {}
  <2>1. FirstSuccess(f) = None
    BY <1>1, <1>4, FirstSuccessIs
  <2> QED
    BY <1>2, <1>3, <1>4, <2>1 DEF Recorded, o
<1>5. CASE OkAt(r) # {}
  <2>1. FirstSuccess(f) \in Int /\ FirstAt(r, FirstSuccess(f))
    BY <1>1, <1>5, FirstSuccessIs
  <2>2. FirstSuccess(f) # None /\ EarlierFailures(f) # {}
    BY <1>1, <1>3, <2>1
  <2>3. PICK i \in FailedAt(r) : LastFailure(f) = r.log[i].t - r.log[1].t /\ LastFailure(f) \in Int
    BY <1>1, <2>2, LastFailureIs
  <2>4. o.peak \in Int /\ o.peak # None
    BY <1>1, <1>2, <2>2, PeakOfRecovery
  <2>5. o.bracket = <<LastFailure(f), FirstSuccess(f)>> /\ o.bracket # None
    BY <1>1, <1>2, <2>1, <2>2, <2>3
  <2>6. o.bracket[1] = LastFailure(f) /\ o.bracket[2] = FirstSuccess(f)
    BY <2>5
  <2>7. r.strategy = "exp" => FirstAt(r, o.spread[1])
    BY <1>2, <2>1
  <2>8. \E j \in FailedAt(r) : o.bracket[1] = r.log[j].t - r.log[1].t
    BY <2>3, <2>6
  <2>9. FirstAt(r, o.bracket[2])
    BY <2>1, <2>6
  <2>10. r.log # <<>> /\ r.budget = OutageAttempts
    OBVIOUS
  <2> HIDE DEF r
  <2>11. Recorded(r, o)
    BY <1>5, <2>4, <2>5, <2>7, <2>8, <2>9, <2>10 DEF Recorded
  <2> QED
    BY <2>11 DEF o, r
<1> QED
  BY <1>4, <1>5

\* The outputs that Write and StageRaises tell by name.
LEMMA OutputSeconds == Outputs[2] = "summary.md" /\ Outputs[3] = "derived.json" /\ Outputs[6] = "fig2"
BY DEF Outputs, Tables, Figures

-----------------------------------------------------------------------------
(* What an analysis holds in memory.                                       *)

\* Every result file there can be comes from a run.
Told == \A f \in Files : \E c : IsRun(c) /\ ResultOf(f) = ResultFile(c)

\* The outage runs of rs have their records in os, those loaded the ones RunRecord
\* makes, and some run with jitter has a bracket.
AllRecorded(rs, os) == \A f \in DOMAIN rs : rs[f].recover > 0 => Recorded(rs[f], os[f])
AreRecords(os) == \A f \in loaded : runs[f].recover > 0 => os[f] = RunRecord(f)
SomeBracketed(rs, os) ==
  \E f \in DOMAIN rs : rs[f].recover > 0 /\ rs[f].strategy \in Jittered /\ os[f].bracket # None

\* What is loaded is what the files say; once the records are made, they are of all
\* outage runs, and once the derived numbers are written there was a bracket.
Known ==
  /\ loaded \in SUBSET Files /\ IsFiniteSet(loaded) /\ \A f \in loaded : runs[f] = ResultOf(f)
  /\ pc = "records" => stage = 3
  /\ pc = "write" /\ stage >= 3 /\ ~Mixed(loaded) =>
       AllRecorded(runs, outageRuns) /\ AreRecords(outageRuns)
  /\ pc = "write" /\ stage >= 4 /\ ~Mixed(loaded) => SomeBracketed(runs, outageRuns)

\* What is loaded is true.
LEMMA LoadedIsTruthful ==
  ASSUME Told, Known, NEW f \in loaded
  PROVE  Truthful(runs[f])
<1>1. f \in Files /\ runs[f] = ResultOf(f)
  BY DEF Known
<1>2. PICK c : IsRun(c) /\ ResultOf(f) = ResultFile(c)
  BY <1>1 DEF Told
<1> QED
  BY <1>1, <1>2, ResultsAreTruthful

\* If the records do not raise, every outage run gets one.
LEMMA RecordsComplete ==
  ASSUME Told, Known, ~RecordsRaise(loaded)
  PROVE  AllRecorded(runs, OutageRuns(loaded)) /\ AreRecords(OutageRuns(loaded))
<1> SUFFICES ASSUME NEW f \in loaded, runs[f].recover > 0
             PROVE  /\ Recorded(runs[f], OutageRuns(loaded)[f])
                    /\ OutageRuns(loaded)[f] = RunRecord(f)
  BY DEF AllRecorded, AreRecords, loaded
<1>1. f \in Outages(loaded)
  BY DEF Outages, IsOutage
<1>2. runs[f].log # <<>> /\ runs[f].budget = OutageAttempts /\ ~RunRaises(f)
  BY <1>1 DEF RecordsRaise, LeadRaises, BudgetAsserted
<1>3. OutageRuns(loaded)[f] = RunRecord(f)
  BY <1>1, <1>2 DEF OutageRuns
<1> QED
  BY <1>2, <1>3, LoadedIsTruthful, RecordHolds

\* If the derived numbers do not raise, there is a bracket.
LEMMA BracketedSome ==
  ASSUME Known, ~DeriveRaises(loaded)
  PROVE  SomeBracketed(runs, outageRuns)
BY DEF DeriveRaises, Bracketed, Outages, IsOutage, SomeBracketed, loaded

\* Nothing is loaded at the start.
LEMMA KnownStart == StudyInit => Known
<1> SUFFICES ASSUME StudyInit PROVE Known
  OBVIOUS
<1>1. loaded = {} /\ pc = "idle"
  BY DEF StudyInit, loaded
<1> QED
  BY <1>1, FS_EmptySet DEF Known

\* So it is when a process begins or ends.
LEMMA KnownNothing ==
  ASSUME runs' = <<>>, pc' \in {"idle", "list"}
  PROVE  Known'
<1>1. loaded' = {}
  BY DEF loaded
<1>2. IsFiniteSet({})
  BY FS_EmptySet
<1> QED
  BY <1>1, <1>2 DEF Known

\* A record is made of its own result file and nothing else.
LEMMA RecordStays ==
  ASSUME runs' = runs
  PROVE  \A f : RunRecord(f)' = RunRecord(f)
BY DEF RunRecord, FirstSuccess, LastFailure, EarlierFailures, Successes, Failures, Times, T0,
       AttemptTimes, CallsBefore, InOutage, InRecovery, AttemptNo, SuccessIndex

\* A step that leaves the memory alone, while results may be read from more batches.
LEMMA KnownStays ==
  ASSUME Known, UNCHANGED <<runs, outageRuns, pc, stage>>, rowsIn \subseteq rowsIn'
  PROVE  Known'
<1>1. loaded' = loaded
  BY DEF loaded
<1>2. Mixed(loaded) => Mixed(loaded)'
  BY <1>1 DEF Mixed
<1>3. AreRecords(outageRuns) => AreRecords(outageRuns)'
  BY <1>1, RecordStays DEF AreRecords
<1> QED
  BY <1>1, <1>2, <1>3 DEF Known

\* The sweep takes back no results.
LEMMA ResultsStay == [SweepNext]_sweepVars => rowsIn \subseteq rowsIn'
BY DEF SweepNext, Launch, Kill, TakeRun, ListRead, Book, Measure, Open, Save, Break, TakeDown,
       TakeDownFails, sweepVars

\* Each step keeps what is known.
LEMMA KnownStep ==
  ASSUME Told PROVE Inv /\ SInv /\ Known /\ [StudyNext]_studyVars => Known'
<1> SUFFICES ASSUME Inv, SInv, Known, [StudyNext]_studyVars PROVE Known'
  OBVIOUS
<1>1. CASE SweepNext /\ UNCHANGED analysisVars
  BY <1>1, KnownStays, ResultsStay DEF analysisVars
<1>2. CASE Analyse \/ ReadTorn \/ Raise \/ Drawn \/ Interrupt
  <2>1. runs' = <<>> /\ pc' \in {"idle", "list"}
    BY <1>2 DEF Analyse, ReadTorn, Raise, Drawn, Interrupt, Begin, End
  <2> QED
    BY <2>1, KnownNothing
<1>3. CASE List
  <2>1. loaded' = loaded /\ runs' = runs /\ pc' = "read"
    BY <1>3 DEF List, loaded
  <2> QED
    BY <2>1 DEF Known
<1>4. CASE Read
  <2>1. PICK f \in pending : /\ f \in whole /\ pc' = "read"
                             /\ runs' = [g \in loaded \cup {f} |-> IF g = f THEN ResultOf(f) ELSE runs[g]]
    BY <1>4 DEF Read
  <2>2. loaded' = loaded \cup {f} /\ f \in Files
    BY <2>1 DEF loaded, Inv, SweepTypeOK
  <2>3. \A g \in loaded' : runs'[g] = ResultOf(g)
    BY <2>1, <2>2 DEF Known
  <2>4. IsFiniteSet(loaded \cup {f})
    BY FS_AddElement DEF Known
  <2>5. loaded' \in SUBSET Files
    BY <2>2 DEF Known
  <2> QED
    BY <2>1, <2>2, <2>3, <2>4, <2>5 DEF Known
<1>5. CASE ReadAll
  <2>1. /\ loaded' = loaded /\ runs' = runs
        /\ \/ pc' = "records" /\ stage' = 3
           \/ pc' = "write" /\ stage' = 1
    BY <1>5 DEF ReadAll, loaded
  <2> QED
    BY <2>1 DEF Known
<1>6. CASE Records
  <2>1. /\ loaded' = loaded /\ runs' = runs /\ rowsIn' = rowsIn /\ stage' = stage
        /\ pc = "records" /\ pc' = "write" /\ stage = 3 /\ outageRuns' = OutageRuns(loaded)
    BY <1>6 DEF Records, loaded, sweepVars, Known
  <2>2. Mixed(loaded)' <=> Mixed(loaded)
    BY <2>1 DEF Mixed
  <2>3. ~Mixed(loaded) => AllRecorded(runs, OutageRuns(loaded)) /\ AreRecords(OutageRuns(loaded))
    <3>1. ~Mixed(loaded) => ~RecordsRaise(loaded)
      BY <1>6, <2>1 DEF Records, MaySucceed, Raises
    <3> QED
      BY <3>1, RecordsComplete
  <2>4. ~(stage' >= 4)
    BY <2>1
  <2>5. AreRecords(OutageRuns(loaded)) => AreRecords(outageRuns)'
    BY <2>1, RecordStays DEF AreRecords
  <2> QED
    BY <2>1, <2>2, <2>3, <2>4, <2>5 DEF Known
<1>7. CASE Write
  <2>1. /\ loaded' = loaded /\ runs' = runs /\ rowsIn' = rowsIn /\ outageRuns' = outageRuns
        /\ pc = "write" /\ stage \in 1 .. 9 /\ stage' = stage + 1
        /\ pc' = IF Outputs[stage] = "summary.md" THEN "records" ELSE "write"
    BY <1>7, OutputNames DEF Write, loaded, sweepVars
  <2>2. Mixed(loaded)' <=> Mixed(loaded)
    BY <2>1 DEF Mixed
  <2>3. Outputs[2] = "summary.md" /\ Outputs[3] = "derived.json"
    BY OutputSeconds
  <2>4. (Outputs[stage] = "summary.md") <=> stage = 2
    BY <2>1, <2>3, OutputNames
  <2>5. stage = 3 /\ ~Mixed(loaded) => SomeBracketed(runs, outageRuns)
    <3>1. stage = 3 /\ ~Mixed(loaded) => ~DeriveRaises(loaded)
      BY <1>7, <2>1, <2>3 DEF Write, MaySucceed, Raises, StageRaises
    <3> QED
      BY <3>1, BracketedSome
  <2>6. /\ pc' = "records" => stage' = 3
        /\ pc' = "write" /\ stage' >= 3 => stage >= 3
        /\ pc' = "write" /\ stage' >= 4 => stage >= 4 \/ stage = 3
    BY <2>1, <2>4
  <2>7. AreRecords(outageRuns) => AreRecords(outageRuns)'
    BY <2>1, RecordStays DEF AreRecords
  <2> QED
    BY <2>1, <2>2, <2>5, <2>6, <2>7 DEF Known
<1>8. CASE UNCHANGED studyVars
  BY <1>8, KnownStays DEF studyVars, sweepVars, analysisVars
<1> QED
  BY <1>1, <1>2, <1>3, <1>4, <1>5, <1>6, <1>7, <1>8 DEF StudyNext, AnalysisNext

\* The sweep of a study is one.
LEMMA StudyIsSweep ==
  /\ StudyInit => AnyStart
  /\ [StudyNext]_studyVars => [SweepNext]_sweepVars
<1>1. StudyInit => AnyStart
  <2> SUFFICES ASSUME NEW p \in Plans, SweepInit(p.list, p.done, p.sweeps) PROVE AnyStart
    BY DEF StudyInit
  <2>1. p.list \in Seq(Files) /\ p.done \in SUBSET Files /\ p.sweeps \in 0 .. MaxSweeps
    BY StudyAssumption
  <2> QED
    BY <2>1 DEF AnyStart
<1>2. [StudyNext]_studyVars => [SweepNext]_sweepVars
  BY DEF StudyNext, AnalysisNext, Analyse, List, Read, ReadTorn, ReadAll, Records, Raise, Write,
         Drawn, Interrupt, studyVars
<1> QED
  BY <1>1, <1>2

\* In every reachable state, what an analysis holds is what the files say.
THEOREM MemoryIsTrue == ASSUME Told PROVE StudySpec => [](Inv /\ SInv /\ Known)
<1>1. StudyInit => Inv /\ SInv /\ Known
  BY StudyIsSweep, SweepStart, StudyStart, KnownStart
<1>2. Inv /\ SInv /\ Known /\ [StudyNext]_studyVars => (Inv /\ SInv /\ Known)'
  <2>1. Inv /\ [SweepNext]_sweepVars => Inv'
    BY SweepTypes, RowsStep, LinesStep DEF Inv
  <2> QED
    BY <2>1, StudyIsSweep, AnalysisStep, KnownStep
<1> QED
  BY <1>1, <1>2, PTL DEF StudySpec

\* The study runs beside the sweep and does nothing to it: what is proved of a sweep
\* holds while it is analysed.
THEOREM StudyImplementsSweep == StudySpec => SweepSpec
<1>1. StudySpec => AnyStart /\ [][SweepNext]_sweepVars
  BY StudyIsSweep, PTL DEF StudySpec
<1> QED
  BY <1>1 DEF SweepSpec, AnyStart

-----------------------------------------------------------------------------
(* The checks on the raw data.                                             *)

\* The books of a settled run balance; and if the rows say as many attempts as the
\* log has failures, they balance only if nothing was in flight.
LEMMA BooksTellUnfinished ==
  ASSUME NEW r, BooksHold(r)
  PROVE  /\ r.open = 0 /\ r.orderly => Len(r.log) - r.n = r.retries - r.dead
         /\ r.retries = Cardinality(FailedAt(r)) /\ Len(r.log) - r.n = r.retries - r.dead
              => r.inflight = 0
<1> DEFINE l == Len(r.log)
           ok == Cardinality(OkAt(r))
           failed == Cardinality(FailedAt(r))
           settled == r.open = 0 /\ r.orderly
<1>1. /\ r.n = N /\ r.dead \in Nat /\ r.inflight \in Nat /\ r.sent \in Nat
      /\ ok \in Nat /\ failed \in Nat /\ l = failed + ok /\ ok + r.dead + r.inflight <= N
      /\ settled => r.retries = failed /\ r.sent = ok /\ r.sent + r.dead = N
  BY DEF BooksHold
<1>2. N \in Nat
  BY CohortAssumption
<1> HIDE DEF l, ok, failed, settled
<1>3. settled => l - r.n = r.retries - r.dead
  BY <1>1, <1>2
<1>4. r.retries = failed /\ l - r.n = r.retries - r.dead => r.inflight = 0
  BY <1>1, <1>2
<1> QED
  BY <1>3, <1>4 DEF l, failed, settled

\* The checks of analyze.py pass on runs settled by the first of the reads; and where
\* the attempts in the database are as many as the failures in the log, which are read
\* later, and the books balance, no run was read while a reminder had attempts to come.
THEOREM UnfinishedRunsAreFound == ASSUME Told PROVE StudySpec => []ChecksFindUnfinished
<1>1. Known => ChecksFindUnfinished
  <2> SUFFICES ASSUME Known PROVE ChecksFindUnfinished
    OBVIOUS
  <2>1. ASSUME NEW f \in loaded
        PROVE  /\ Settled(f) => /\ runs[f].retries = Cardinality(Failures(f))
                                /\ runs[f].calls = Len(runs[f].log)
                                /\ Len(runs[f].log) - runs[f].n = runs[f].retries - runs[f].dead
               /\ /\ runs[f].retries = Cardinality(Failures(f))
                  /\ Len(runs[f].log) - runs[f].n = runs[f].retries - runs[f].dead
                  => runs[f].inflight = 0
    <3>1. BooksHold(runs[f])
      BY LoadedIsTruthful DEF Truthful
    <3>2. Failures(f) = FailedAt(runs[f])
      BY DEF Failures, FailedAt
    <3>3. Settled(f) => /\ runs[f].retries = Cardinality(FailedAt(runs[f]))
                        /\ runs[f].calls = Len(runs[f].log)
      BY <3>1 DEF BooksHold, Settled
    <3> QED
      BY <3>1, <3>2, <3>3, BooksTellUnfinished DEF Settled
  <2>2. LET c == Checks(loaded) IN
        /\ (\A f \in loaded : Settled(f)) =>
             c.retriesAreFailures /\ c.callsAreLogged /\ c.booksBalance
        /\ c.retriesAreFailures /\ c.booksBalance => \A f \in loaded : runs[f].inflight = 0
    BY <2>1 DEF Checks
  <2> QED
    BY <2>2 DEF ChecksFindUnfinished
<1> QED
  BY <1>1, MemoryIsTrue, PTL

-----------------------------------------------------------------------------
(* Runs of the sweep's own kind are analysed to the end.                   *)

\* What is delivered is logged.
LEMMA DeliveredIsLogged ==
  ASSUME NEW r, Truthful(r)
  PROVE  /\ r.sent \in Nat /\ r.n = N
         /\ r.sent > 0 => OkAt(r) # {}
         /\ r.sent > 0 => DOMAIN r.latencies # {}
         /\ Len(r.log) \in Nat /\ r.sent <= Len(r.log) /\ r.sent <= N
         /\ r.sent > 0 => r.log # <<>>
         /\ r.up = r.recover /\ r.recover \in Nat
<1> DEFINE l == Len(r.log)
           ok == Cardinality(OkAt(r))
           failed == Cardinality(FailedAt(r))
<1>1. /\ r.sent \in Nat /\ ok \in Nat /\ failed \in Nat /\ (ok = 0 <=> OkAt(r) = {})
      /\ l = failed + ok /\ r.n = N /\ r.sent <= ok /\ ok + r.dead + r.inflight <= N
      /\ r.dead \in Nat /\ r.inflight \in Nat
  BY DEF Truthful, BooksHold
<1>2. (r.sent > 0 => DOMAIN r.latencies # {}) /\ r.up = r.recover /\ r.recover \in Nat
  BY DEF Truthful, SettingsHold
<1>3. r.log = <<>> => l = 0
  OBVIOUS
<1>4. N \in Nat
  BY CohortAssumption
<1> HIDE DEF l, ok, failed
<1>5. l \in Nat /\ r.sent <= l /\ r.sent <= N /\ (r.sent > 0 => ok # 0 /\ l # 0)
  BY <1>1, <1>4
<1> QED
  BY <1>1, <1>2, <1>3, <1>5 DEF l

\* A run whose outage outlasts its first attempt fails before it succeeds.
LEMMA OutageRunHasRecord ==
  ASSUME NEW f, Truthful(runs[f]), runs[f].log # <<>>, OwnWindow(f) > 0,
         runs[f].strategy = "exp" \/ Successes(f) # {} => runs[f].sent > 0
  PROVE  ~RunRaises(f)
<1> DEFINE r == runs[f]
<1>1. LogHolds(r) /\ None \notin Int
  BY AnalysisAssumption DEF Truthful
<1>2. /\ r.sent \in Nat /\ (r.sent > 0 => OkAt(r) # {})
      /\ r.up = r.recover /\ r.recover \in Nat
  BY DeliveredIsLogged
<1>3. FirstSuccess(f) = None <=> OkAt(r) = {}
  BY <1>1, FirstSuccessIs
<1>4. ASSUME OkAt(r) # {} PROVE EarlierFailures(f) # {}
  <2>1. FirstSuccess(f) \in Int /\ FirstAt(r, FirstSuccess(f))
    BY <1>1, <1>4, FirstSuccessIs
  <2>2. /\ 1 \in DOMAIN r.log /\ T0(f) = r.log[1].t /\ T0(f) \in Nat /\ r.log[1].ok \in BOOLEAN
        /\ Failures(f) = FailedAt(r) /\ \A i \in DOMAIN r.log : r.log[i].t \in Nat
    BY <1>1, TimesOfLog
  <2>3. PICK i \in OkAt(r) : FirstSuccess(f) = r.log[i].t - r.log[1].t
    BY <2>1 DEF FirstAt
  <2>4. r.up <= r.log[i].t /\ r.log[i].t \in Nat
    BY <1>1, <2>2 DEF LogHolds, OkAt
  <2>5. r.up - T0(f) > 0
    BY DEF OwnWindow
  <2>6. 0 < FirstSuccess(f) /\ ~(r.up <= r.log[1].t)
    <3>1. PICK u \in Nat, x \in Nat, y \in Nat : u = r.up /\ x = r.log[1].t /\ y = r.log[i].t
      BY <1>2, <2>2, <2>4
    <3>2. u - x > 0 /\ u <= y
      BY <2>2, <2>4, <2>5, <3>1
    <3>3. 0 < y - x /\ ~(u <= x)
      BY <3>1, <3>2
    <3> QED
      BY <2>3, <3>1, <3>3
  <2>7. 1 \in FailedAt(r)
    BY <1>1, <2>2, <2>6 DEF LogHolds, OkAt, FailedAt
  <2>8. r.log[1].t - T0(f) = 0
    BY <2>2
  <2>9. 0 \in Times(f, Failures(f))
    BY <2>2, <2>7, <2>8 DEF Times
  <2> QED
    BY <2>6, <2>9 DEF EarlierFailures
<1> HIDE DEF r
<1>5. r.strategy = "exp" \/ OkAt(r) # {} => r.sent > 0
  BY DEF r, Successes, OkAt
<1>6. r.sent > 0 <=> r.sent # 0
  BY <1>2
<1> QED
  BY <1>2, <1>3, <1>4, <1>5, <1>6 DEF RunRaises, r

\* The sums over runs are sums.
LEMMA CallsAreSum ==
  ASSUME NEW R, NEW x, LET C == {f \in Steadies(R) : runs[f].failure = x} IN
         IsFiniteSet(C) /\ \A f \in C : Len(runs[f].log) \in Nat
  PROVE  LET C == {f \in Steadies(R) : runs[f].failure = x} IN
         \E e : SumsOver(e, [f \in C |-> Len(runs[f].log)], C) /\ InjectionAt(R, x).calls = e[C]
<1> DEFINE C == {f \in Steadies(R) : runs[f].failure = x}
           g == [f \in C |-> Len(runs[f].log)]
           Rec(e) == e = [s \in SUBSET C |-> IF s = {} THEN 0
                                             ELSE Len(runs[Some(s)].log) + e[s \ {Some(s)}]]
<1>1. InjectionAt(R, x).calls = (CHOOSE e : Rec(e))[C]
  BY DEF InjectionAt, MapThenSumSet, MapThenFoldSet, Some
<1>2. IsFiniteSet(C) /\ \A f \in C : g[f] \in Nat /\ g[f] = Len(runs[f].log)
  OBVIOUS
<1> SUFFICES \E e : SumsOver(e, g, C) /\ InjectionAt(R, x).calls = e[C]
  OBVIOUS
<1> HIDE DEF C, g
<1>3. \A s \in SUBSET C : s # {} => Some(s) \in C
  BY DEF Some
<1>4. \A e : Rec(e) <=> SumsOver(e, g, C)
  BY <1>2, <1>3 DEF SumsOver
<1>5. \E e : SumsOver(e, g, C)
  BY <1>2, SumsExist
<1> HIDE DEF Rec
<1> QED
  BY <1>1, <1>4, <1>5

\* So are the deliveries.
LEMMA SentIsSum ==
  ASSUME NEW C, IsFiniteSet(C), \A f \in C : runs[f].sent \in Nat
  PROVE  \E e : SumsOver(e, [f \in C |-> runs[f].sent], C) /\ Sent(C) = e[C]
<1> DEFINE g == [f \in C |-> runs[f].sent]
           Rec(e) == e = [s \in SUBSET C |-> IF s = {} THEN 0
                                             ELSE runs[Some(s)].sent + e[s \ {Some(s)}]]
<1>1. Sent(C) = (CHOOSE e : Rec(e))[C]
  BY DEF Sent, MapThenSumSet, MapThenFoldSet, Some
<1>2. \A f \in C : g[f] \in Nat /\ g[f] = runs[f].sent
  OBVIOUS
<1> SUFFICES \E e : SumsOver(e, g, C) /\ Sent(C) = e[C]
  OBVIOUS
<1> HIDE DEF g
<1>3. \A s \in SUBSET C : s # {} => Some(s) \in C
  BY DEF Some
<1>4. \A e : Rec(e) <=> SumsOver(e, g, C)
  BY <1>2, <1>3 DEF SumsOver
<1>5. \E e : SumsOver(e, g, C)
  BY <1>2, SumsExist
<1> HIDE DEF Rec
<1> QED
  BY <1>1, <1>4, <1>5

\* So are the reminders.
LEMMA RemindersAreSum ==
  ASSUME NEW C, IsFiniteSet(C), \A f \in C : runs[f].n \in Nat
  PROVE  \E e : SumsOver(e, [f \in C |-> runs[f].n], C) /\ Reminders(C) = e[C]
<1> DEFINE g == [f \in C |-> runs[f].n]
           Rec(e) == e = [s \in SUBSET C |-> IF s = {} THEN 0
                                             ELSE runs[Some(s)].n + e[s \ {Some(s)}]]
<1>1. Reminders(C) = (CHOOSE e : Rec(e))[C]
  BY DEF Reminders, MapThenSumSet, MapThenFoldSet, Some
<1>2. \A f \in C : g[f] \in Nat /\ g[f] = runs[f].n
  OBVIOUS
<1> SUFFICES \E e : SumsOver(e, g, C) /\ Reminders(C) = e[C]
  OBVIOUS
<1> HIDE DEF g
<1>3. \A s \in SUBSET C : s # {} => Some(s) \in C
  BY DEF Some
<1>4. \A e : Rec(e) <=> SumsOver(e, g, C)
  BY <1>2, <1>3 DEF SumsOver
<1>5. \E e : SumsOver(e, g, C)
  BY <1>2, SumsExist
<1> HIDE DEF Rec
<1> QED
  BY <1>1, <1>4, <1>5

\* Runs that delivered something have called.
LEMMA CallsPositive ==
  ASSUME Told, Known, NEW g \in Steadies(loaded), runs[g].sent > 0
  PROVE  InjectionAt(loaded, runs[g].failure).calls # 0
<1> DEFINE x == runs[g].failure
           C == {f \in Steadies(loaded) : runs[f].failure = x}
           h == [f \in C |-> Len(runs[f].log)]
<1>1. C \in SUBSET loaded /\ g \in C
  BY DEF Steadies
<1>2. IsFiniteSet(C)
  <2> HIDE DEF C
  <2> QED
    BY <1>1, FS_Subset DEF Known
<1>3. \A f \in C : /\ runs[f].sent \in Nat /\ Len(runs[f].log) \in Nat
                   /\ runs[f].sent <= Len(runs[f].log)
  BY <1>1, LoadedIsTruthful, DeliveredIsLogged
<1>4. PICK e : SumsOver(e, h, C) /\ InjectionAt(loaded, x).calls = e[C]
  BY <1>2, <1>3, CallsAreSum
<1>5. \A f \in C : h[f] = Len(runs[f].log)
  OBVIOUS
<1> HIDE DEF C, h
<1>6. e[C] \in Nat /\ h[g] <= e[C]
  BY <1>1, <1>2, <1>3, <1>4, <1>5, SumsCompare
<1>7. h[g] \in Nat /\ h[g] > 0
  <2> DEFINE l == Len(runs[g].log)
  <2>1. l \in Nat /\ runs[g].sent \in Nat /\ runs[g].sent <= l /\ h[g] = l
    BY <1>1, <1>3, <1>5
  <2> HIDE DEF l
  <2> QED
    BY <2>1
<1> QED
  BY <1>4, <1>6, <1>7

\* The percentile of positive latencies is positive.
LEMMA LatencyPositive ==
  ASSUME Told, Known, NEW R \in SUBSET loaded, NEW g \in R, runs[g].sent > 0,
         \A f \in R : \A k \in DOMAIN runs[f].latencies : runs[f].latencies[k] > 0,
         NEW q \in 0 .. 100
  PROVE  Latency(R, q) \notin {None, 0}
<1> DEFINE D == UNION {{<<f, k>> : k \in DOMAIN runs[f].latencies} : f \in R}
           x == [d \in D |-> runs[d[1]].latencies[d[2]]]
<1>1. Latencies(R) = x
  BY DEF Latencies
<1>2. \A f \in R : /\ DOMAIN runs[f].latencies \in SUBSET Cohort
                   /\ \A k \in DOMAIN runs[f].latencies : runs[f].latencies[k] \in Int
  BY LoadedIsTruthful DEF Truthful, SettingsHold
<1>3. D \in SUBSET (R \X Cohort)
  BY <1>2
<1>4. IsFiniteSet(R \X Cohort)
  <2>1. IsFiniteSet(R)
    BY FS_Subset DEF Known
  <2> QED
    BY <2>1, CohortFacts, FS_Product
<1>5. DOMAIN runs[g].latencies # {}
  BY LoadedIsTruthful, DeliveredIsLogged
<1>6. PICK k \in DOMAIN runs[g].latencies : <<g, k>> \in D
  BY <1>5
<1>7. \A d \in D : x[d] \in Int /\ 1 <= x[d]
  <2> SUFFICES ASSUME NEW d \in D PROVE x[d] \in Int /\ 1 <= x[d]
    OBVIOUS
  <2>1. PICK f \in R : \E j \in DOMAIN runs[f].latencies : d = <<f, j>>
    OBVIOUS
  <2>2. PICK j \in DOMAIN runs[f].latencies : d = <<f, j>>
    BY <2>1
  <2>3. x[d] = runs[f].latencies[j]
    BY <2>2
  <2>4. runs[f].latencies[j] \in Int /\ runs[f].latencies[j] > 0
    BY <1>2
  <2> HIDE DEF x, D
  <2> QED
    BY <2>3, <2>4
<1>8. x \in [D -> Int] /\ DOMAIN x = D
  BY <1>7
<1> HIDE DEF D, x
<1>9. IsFiniteSet(D) /\ D # {}
  BY <1>3, <1>4, <1>6, FS_Subset
<1>10. PICK m \in D : \A d \in D : x[d] <= x[m]
  BY <1>7, <1>9, Extremes
<1>11. Percentile(x, q) \in Int /\ 100 * 1 <= Percentile(x, q)
  <2>1. PICK hi \in Int : hi = x[m]
    BY <1>7
  <2>2. PICK lo \in Int : lo = 1
    OBVIOUS
  <2>3. \A d \in D : lo <= x[d] /\ x[d] <= hi
    BY <1>7, <1>10, <2>1, <2>2
  <2>4. Percentile(x, q) \in Int /\ 100 * lo <= Percentile(x, q)
    BY <1>8, <1>9, <2>3, PercentileBetween
  <2> QED
    BY <2>2, <2>4
<1>12. Latency(R, q) = Percentile(x, q)
  BY <1>1, <1>8, <1>9 DEF Latency
<1> QED
  BY <1>11, <1>12, AnalysisAssumption

\* What a sweep like the repository's own produces, when it is analysed.
Complete ==
  LET R == loaded
      S == {f \in R : runs[f].up = 0}
      O == {f \in R : runs[f].up > 0}
      Delivered(f) == runs[f].sent > 0
  IN  /\ S # {} /\ \E f \in O : runs[f].strategy = "equal_jitter" /\ Delivered(f)
      /\ \A f \in S : Delivered(f) /\ runs[f].failure \in {10, 30, 50}
                        /\ \A k \in DOMAIN runs[f].latencies : runs[f].latencies[k] > 0
      /\ \A f \in S, s \in {"none", "exp", "full_jitter"} :
           \E g \in S : runs[g].strategy = s /\ runs[g].failure = runs[f].failure
      /\ \A f \in O : /\ runs[f].budget = OutageAttempts
                      /\ runs[f].log # <<>> /\ OwnWindow(f) > 0
                      /\ runs[f].strategy = "exp" \/ Successes(f) # {} => Delivered(f)

\* The runs without an outage are the steady ones.
LEMMA GroupsAre ==
  ASSUME Told, Known
  PROVE  /\ Outages(loaded) = {f \in loaded : runs[f].up > 0}
         /\ Steadies(loaded) = {f \in loaded : runs[f].up = 0}
<1>1. \A f \in loaded : runs[f].up = runs[f].recover /\ runs[f].recover \in Nat
  BY LoadedIsTruthful, DeliveredIsLogged
<1>2. \A f \in loaded : runs[f].up > 0 <=> runs[f].recover > 0
  BY <1>1
<1>3. \A f \in loaded : runs[f].up = 0 <=> ~(runs[f].recover > 0)
  BY <1>1
<1>4. Outages(loaded) = {f \in loaded : runs[f].up > 0}
  BY <1>2 DEF Outages, IsOutage
<1> QED
  BY <1>3, <1>4 DEF Outages, IsOutage, Steadies

\* The checks and the records do not raise.
LEMMA CompleteHasRecords ==
  ASSUME Told, Known, Complete
  PROVE  ~RecordsRaise(loaded)
<1> DEFINE S == Steadies(loaded)
           O == Outages(loaded)
<1>1. /\ S # {} /\ O # {}
      /\ \A f \in S : runs[f].sent > 0 /\ runs[f].failure \in {10, 30, 50}
      /\ \A f \in O : /\ runs[f].budget = OutageAttempts
                      /\ runs[f].log # <<>> /\ OwnWindow(f) > 0
                      /\ runs[f].strategy = "exp" \/ Successes(f) # {} => runs[f].sent > 0
  BY GroupsAre DEF Complete
<1>2. S \cup O = loaded
  BY DEF Steadies, Outages
<1>3. ~InjectionRaises(loaded)
  <2>1. Rates(loaded) # {}
    <3>1. S # {}
      BY <1>1
    <3> QED
      BY <3>1 DEF Rates
  <2>2. ASSUME NEW x \in Rates(loaded)
        PROVE  InjectionAt(loaded, x).calls # 0 /\ x \notin {0, 100}
    <3>1. PICK g \in S : x = runs[g].failure
      BY DEF Rates
    <3> QED
      BY <1>1, <3>1, CallsPositive
  <2> QED
    BY <2>1, <2>2 DEF InjectionRaises
<1>4. ASSUME NEW f \in loaded PROVE runs[f].log # <<>>
  <2>1. CASE f \in O
    BY <1>1, <2>1
  <2>2. CASE f \in S
    BY <1>1, <2>2, LoadedIsTruthful, DeliveredIsLogged
  <2> QED
    BY <1>2, <2>1, <2>2
<1>5. ASSUME NEW f \in O PROVE ~RunRaises(f)
  <2>1. f \in loaded
    BY DEF Outages
  <2> QED
    BY <1>1, <2>1, LoadedIsTruthful, OutageRunHasRecord
<1>6. BudgetAsserted(loaded) /\ ~LeadRaises(loaded)
  BY <1>1, <1>4 DEF BudgetAsserted, LeadRaises
<1> QED
  BY <1>3, <1>5, <1>6 DEF RecordsRaise

\* Where something was delivered at a rate, latencies have positive percentiles.
LEMMA CompleteHasLatencies ==
  ASSUME Told, Known, Complete, NEW x \in Rates(loaded), NEW s \in {"none", "exp", "full_jitter"}
  PROVE  s \in StrategiesAt(loaded, x) /\ Latency(Cell(loaded, s, x), 95) \notin {None, 0}
<1> DEFINE S == Steadies(loaded)
           C == Cell(loaded, s, x)
<1>1. /\ \A f \in S : /\ runs[f].sent > 0
                      /\ \A k \in DOMAIN runs[f].latencies : runs[f].latencies[k] > 0
      /\ \A f \in S : \E g \in S : runs[g].strategy = s /\ runs[g].failure = runs[f].failure
  BY GroupsAre DEF Complete
<1>2. PICK f \in S : x = runs[f].failure
  BY DEF Rates
<1>3. PICK g \in C : g \in S
  BY <1>1, <1>2 DEF Cell
<1>4. C \in SUBSET S /\ S \in SUBSET loaded
  BY DEF Cell, Steadies
<1>5. s \in Strategies
  BY DEF Strategies
<1> HIDE DEF C, S
<1>6. Latency(C, 95) \notin {None, 0}
  <2>1. C \in SUBSET loaded /\ runs[g].sent > 0
    BY <1>1, <1>3, <1>4
  <2>2. \A h \in C : \A k \in DOMAIN runs[h].latencies : runs[h].latencies[k] > 0
    BY <1>1, <1>4
  <2>3. 95 \in 0 .. 100
    OBVIOUS
  <2> QED
    BY <1>3, <2>1, <2>2, <2>3, LatencyPositive
<1> QED
  BY <1>3, <1>5, <1>6 DEF StrategiesAt, C

\* The derived numbers do not raise.
LEMMA CompleteIsDerived ==
  ASSUME Told, Known, Complete, AllRecorded(runs, outageRuns)
  PROVE  ~DeriveRaises(loaded)
<1>1. /\ \E f \in Outages(loaded) : runs[f].strategy = "equal_jitter" /\ runs[f].sent > 0
      /\ \A f \in Outages(loaded) : runs[f].strategy = "exp" => runs[f].sent > 0
  BY GroupsAre DEF Complete
<1>2. ASSUME NEW f \in Outages(loaded), runs[f].sent > 0
      PROVE  outageRuns[f].bracket # None /\ outageRuns[f].peak # None
  <2>1. f \in loaded /\ runs[f].recover > 0
    BY DEF Outages, IsOutage
  <2>2. Recorded(runs[f], outageRuns[f])
    BY <2>1 DEF AllRecorded, loaded
  <2>3. OkAt(runs[f]) # {}
    BY <1>2, <2>1, LoadedIsTruthful, DeliveredIsLogged
  <2> QED
    BY <2>2, <2>3 DEF Recorded
<1>3. Bracketed(loaded) # {}
  BY <1>1, <1>2 DEF Bracketed, Jittered
<1>4. ~HeadlineRaises(loaded)
  BY <1>1, <1>2 DEF HeadlineRaises, Recovered, RunsOf
<1>5. ~SteadyRaises(loaded)
  BY CompleteHasLatencies DEF SteadyRaises
<1> QED
  BY <1>3, <1>4, <1>5 DEF DeriveRaises

\* With results of the sweep's own kind, however its runs came out, no stage raises.
THEOREM OwnSweepIsAnalysed == ASSUME Told PROVE StudySpec => []CompleteSweepIsAnalysed
<1>1. SInv /\ Known => CompleteSweepIsAnalysed
  <2> SUFFICES ASSUME SInv, Known, Complete, pc \in {"records", "write"}, ~Mixed(loaded),
                      ~(stage > Len(Outputs))
               PROVE  ~Raises
    BY DEF CompleteSweepIsAnalysed, Complete
  <2>1. CASE pc = "records"
    BY <2>1, CompleteHasRecords DEF Raises
  <2>2. CASE pc = "write"
    <3>1. stage \in 1 .. 9
      BY OutputNames DEF SInv, WrittenFromWhole
    <3>2. Outputs[stage] = "derived.json" => ~DeriveRaises(loaded)
      <4> SUFFICES ASSUME Outputs[stage] = "derived.json" PROVE ~DeriveRaises(loaded)
        OBVIOUS
      <4>1. stage = 3
        BY <3>1, OutputSeconds, OutputNames
      <4>2. AllRecorded(runs, outageRuns)
        BY <2>2, <4>1 DEF Known
      <4> QED
        BY <4>2, CompleteIsDerived
    <3>3. ~LatencyFigureRaises(loaded)
      <4>1. Rates(loaded) # {}
        <5>1. Steadies(loaded) # {}
          BY GroupsAre DEF Complete
        <5> QED
          BY <5>1 DEF Rates
      <4> QED
        BY <4>1, CompleteHasLatencies DEF LatencyFigureRaises
    <3> QED
      BY <2>2, <3>2, <3>3 DEF Raises, StageRaises
  <2> QED
    BY <2>1, <2>2
<1> QED
  BY <1>1, MemoryIsTrue, PTL

-----------------------------------------------------------------------------
(* The recovery is in the bracket.                                         *)

\* If nothing but the outage fails, the last failure before the first success comes
\* before the recovery and the first success not before it.
LEMMA BracketHolds ==
  ASSUME NEW r, LogHolds(r), r.up \in Nat, r.failure = 0, NEW o, Recorded(r, o), OkAt(r) # {}
  PROVE  /\ o.bracket[1] \in Int /\ o.bracket[2] \in Int /\ r.up - r.log[1].t \in Int
         /\ o.bracket[1] < r.up - r.log[1].t
         /\ r.up - r.log[1].t <= o.bracket[2]
<1> DEFINE S == [t : Nat, ok : BOOLEAN, key : Cohort]
           L == r.log
<1>1. L \in Seq(S) /\ L # <<>>
  BY DEF LogHolds, Recorded
<1>2. /\ \A i \in OkAt(r) : i \in DOMAIN L /\ r.up <= L[i].t
      /\ \A i \in FailedAt(r) : i \in DOMAIN L /\ L[i].t < r.up
  BY DEF LogHolds, OkAt, FailedAt
<1>3. PICK i \in OkAt(r) : o.bracket[2] = L[i].t - L[1].t
  BY DEF Recorded, FirstAt
<1>4. PICK j \in FailedAt(r) : o.bracket[1] = L[j].t - L[1].t
  BY DEF Recorded
<1> HIDE DEF L, S
<1>5. 1 \in DOMAIN L /\ \A k \in DOMAIN L : L[k] \in S
  BY <1>1
<1>6. \A k \in DOMAIN L : L[k].t \in Nat
  BY <1>5 DEF S
<1>7. L[1].t \in Nat /\ L[i].t \in Nat /\ L[j].t \in Nat /\ r.up <= L[i].t /\ L[j].t < r.up
  BY <1>2, <1>5, <1>6
<1>8. /\ o.bracket[1] \in Int /\ o.bracket[2] \in Int /\ r.up - L[1].t \in Int
      /\ o.bracket[1] < r.up - L[1].t
      /\ r.up - L[1].t <= o.bracket[2]
  BY <1>3, <1>4, <1>7
<1> QED
  BY <1>8 DEF L

\* The least and the greatest of finitely many numbers.
LEMMA LeastGreatest ==
  ASSUME NEW D, IsFiniteSet(D), D # {}, NEW x, \A a \in D : x[a] \in Int
  PROVE  /\ Min({x[a] : a \in D}) \in Int /\ Max({x[a] : a \in D}) \in Int
         /\ \A a \in D : Min({x[b] : b \in D}) <= x[a] /\ x[a] <= Max({x[b] : b \in D})
<1> DEFINE V == {x[a] : a \in D}
<1>1. PICK a \in D : \A b \in D : x[a] <= x[b]
  BY Extremes
<1>2. PICK c \in D : \A b \in D : x[b] <= x[c]
  BY Extremes
<1>3. /\ V \in SUBSET Int /\ x[a] \in V /\ x[c] \in V
      /\ \A y \in V : x[a] <= y /\ y <= x[c]
  BY <1>1, <1>2
<1> HIDE DEF V
<1>4. Min(V) = x[a]
  <2>1. PICK v \in V : v = x[a]
    BY <1>3
  <2> QED
    BY <1>3, <2>1, MinIs
<1>5. Max(V) = x[c]
  <2>1. PICK v \in V : v = x[c]
    BY <1>3
  <2> QED
    BY <1>3, <2>1, MaxIs
<1>6. Min(V) \in Int /\ Max(V) \in Int /\ \A b \in D : Min(V) <= x[b] /\ x[b] <= Max(V)
  BY <1>1, <1>2, <1>4, <1>5
<1> QED
  BY <1>6 DEF V

\* The numbers of an analysis whose outage runs had no failures but the outage: each
\* bracket holds its run's recovery, and W all brackets.
LEMMA WindowHolds ==
  ASSUME Told, Known, JustDerived, OnlyOutage(loaded)
  PROVE  LET lo == WLo(loaded)
             hi == WHi(loaded)
             B == Bracketed(loaded)
         IN  /\ IsFiniteSet(B) /\ B # {} /\ B \in SUBSET loaded /\ lo \in Int /\ hi \in Int
             /\ \A f \in B :
                  /\ outageRuns[f].bracket[1] \in Int /\ outageRuns[f].bracket[2] \in Int
                  /\ OwnWindow(f) \in Int
                  /\ outageRuns[f].bracket[1] < OwnWindow(f)
                  /\ OwnWindow(f) <= outageRuns[f].bracket[2]
                  /\ lo <= outageRuns[f].bracket[1] /\ outageRuns[f].bracket[2] <= hi
<1> DEFINE B == Bracketed(loaded)
           a == [f \in B |-> outageRuns[f].bracket[1]]
           b == [f \in B |-> outageRuns[f].bracket[2]]
<1>1. AllRecorded(runs, outageRuns) /\ SomeBracketed(runs, outageRuns)
  BY OutputNames DEF JustDerived, Known
<1>2. B \in SUBSET loaded /\ IsFiniteSet(B)
  <2>1. B \in SUBSET loaded
    BY DEF Bracketed, Outages
  <2> QED
    BY <2>1, FS_Subset DEF Known
<1>3. B # {}
  BY <1>1 DEF SomeBracketed, Bracketed, Outages, IsOutage, loaded
<1>4. ASSUME NEW f \in B
      PROVE  /\ outageRuns[f].bracket[1] \in Int /\ outageRuns[f].bracket[2] \in Int
             /\ OwnWindow(f) \in Int
             /\ outageRuns[f].bracket[1] < OwnWindow(f)
             /\ OwnWindow(f) <= outageRuns[f].bracket[2]
  <2>1. f \in loaded /\ runs[f].recover > 0 /\ outageRuns[f].bracket # None /\ runs[f].failure = 0
    BY DEF Bracketed, Outages, IsOutage, OnlyOutage
  <2>2. Recorded(runs[f], outageRuns[f])
    BY <1>1, <2>1 DEF AllRecorded, loaded
  <2>3. LogHolds(runs[f]) /\ runs[f].up \in Nat
    BY <2>1, LoadedIsTruthful, DeliveredIsLogged DEF Truthful
  <2>4. OkAt(runs[f]) # {}
    BY <2>1, <2>2 DEF Recorded
  <2>5. OwnWindow(f) = runs[f].up - runs[f].log[1].t
    BY DEF OwnWindow, T0
  <2> QED
    BY <2>1, <2>2, <2>3, <2>4, <2>5, BracketHolds
<1>5. /\ \A f \in B : a[f] = outageRuns[f].bracket[1] /\ b[f] = outageRuns[f].bracket[2]
      /\ WLo(loaded) = Min({a[f] : f \in B}) /\ WHi(loaded) = Max({b[f] : f \in B})
  <2>1. \A f \in B : a[f] = outageRuns[f].bracket[1] /\ b[f] = outageRuns[f].bracket[2]
    OBVIOUS
  <2>2. {outageRuns[f].bracket[1] : f \in B} = {a[f] : f \in B}
    BY <2>1
  <2>3. {outageRuns[f].bracket[2] : f \in B} = {b[f] : f \in B}
    BY <2>1
  <2> QED
    BY <2>1, <2>2, <2>3 DEF WLo, WHi
<1> HIDE DEF a, b, B
<1>6. \A f \in B : a[f] \in Int /\ b[f] \in Int
  BY <1>4, <1>5
<1>7. /\ WLo(loaded) \in Int /\ WHi(loaded) \in Int
      /\ \A f \in B : WLo(loaded) <= a[f] /\ b[f] <= WHi(loaded)
  <2>1. /\ Min({a[f] : f \in B}) \in Int
        /\ \A f \in B : Min({a[g] : g \in B}) <= a[f]
    BY <1>2, <1>3, <1>6, LeastGreatest
  <2>2. /\ Max({b[f] : f \in B}) \in Int
        /\ \A f \in B : b[f] <= Max({b[g] : g \in B})
    BY <1>2, <1>3, <1>6, LeastGreatest
  <2> QED
    BY <1>5, <2>1, <2>2
<1>8. \A f \in B : WLo(loaded) <= outageRuns[f].bracket[1] /\ outageRuns[f].bracket[2] <= WHi(loaded)
  BY <1>5, <1>7
<1> QED
  BY <1>2, <1>3, <1>4, <1>7, <1>8 DEF B

\* The midpoint of W is between its ends.
LEMMA MidpointBetween ==
  ASSUME Told, Known, JustDerived, OnlyOutage(loaded)
  PROVE  4 * WLo(loaded) <= WMid(loaded) /\ WMid(loaded) <= 4 * WHi(loaded)
<1> DEFINE B == Bracketed(loaded)
           x == [f \in B |-> 2 * (outageRuns[f].bracket[1] + outageRuns[f].bracket[2])]
           lo == WLo(loaded)
           hi == WHi(loaded)
<1>1. /\ IsFiniteSet(B) /\ B # {} /\ lo \in Int /\ hi \in Int
      /\ \A f \in B : /\ outageRuns[f].bracket[1] \in Int /\ outageRuns[f].bracket[2] \in Int
                      /\ OwnWindow(f) \in Int
                      /\ outageRuns[f].bracket[1] < OwnWindow(f)
                      /\ OwnWindow(f) <= outageRuns[f].bracket[2]
                      /\ lo <= outageRuns[f].bracket[1] /\ outageRuns[f].bracket[2] <= hi
  BY WindowHolds
<1>2. WMid(loaded) = Percentile(x, 50) \div 100
  BY DEF WMid
<1> HIDE DEF B, lo, hi
<1>3. ASSUME NEW f \in B PROVE x[f] \in Int /\ 4 * lo <= x[f] /\ x[f] <= 4 * hi
  <2>1. x[f] = 2 * (outageRuns[f].bracket[1] + outageRuns[f].bracket[2])
    OBVIOUS
  <2> QED
    BY <1>1, <2>1
<1>4. x \in [B -> Int]
  BY <1>3
<1> HIDE DEF x
<1>5. PICK u \in Int, v \in Int : u = 4 * lo /\ v = 4 * hi
  BY <1>1
<1>6. \A f \in B : u <= x[f] /\ x[f] <= v
  BY <1>3, <1>5
<1>7. /\ Percentile(x, 50) \in Int /\ 100 * u <= Percentile(x, 50)
      /\ Percentile(x, 50) <= 100 * v
  <2>1. 50 \in 0 .. 100
    OBVIOUS
  <2> QED
    BY <1>1, <1>4, <1>6, <2>1, PercentileBetween
<1>8. \A p, s, t \in Int : 100 * s <= p /\ p <= 100 * t => s <= p \div 100 /\ p \div 100 <= t
  OBVIOUS
<1>9. u <= Percentile(x, 50) \div 100 /\ Percentile(x, 50) \div 100 <= v
  BY <1>7, <1>8
<1> QED
  BY <1>2, <1>5, <1>9 DEF lo, hi

\* The stated range of the delay holds the delay of every run whose recovery is in W.
LEMMA DelayHolds ==
  ASSUME Told, Known, JustDerived, OnlyOutage(loaded), NEW f \in RunsOf(loaded, "exp"),
         WLo(loaded) < OwnWindow(f), OwnWindow(f) <= WHi(loaded)
  PROVE  /\ ExpWave(loaded).delay[1] <= FirstSuccess(f) - OwnWindow(f)
         /\ FirstSuccess(f) - OwnWindow(f) <= ExpWave(loaded).delay[2]
<1> DEFINE X == RunsOf(loaded, "exp")
           x == [g \in X |-> outageRuns[g].spread[1]]
           lo == WLo(loaded)
           hi == WHi(loaded)
<1>1. AllRecorded(runs, outageRuns)
  BY OutputNames DEF JustDerived, Known
<1>2. X \in SUBSET loaded /\ IsFiniteSet(X)
  <2>1. X \in SUBSET loaded
    BY DEF RunsOf, Outages
  <2> QED
    BY <2>1, FS_Subset DEF Known
<1>3. ASSUME NEW g \in X
      PROVE  outageRuns[g].spread[1] = FirstSuccess(g) /\ FirstSuccess(g) \in Int
  <2>1. g \in loaded /\ runs[g].recover > 0 /\ runs[g].strategy = "exp"
    BY DEF RunsOf, Outages, IsOutage
  <2>2. Recorded(runs[g], outageRuns[g])
    BY <1>1, <2>1 DEF AllRecorded, loaded
  <2>3. LogHolds(runs[g])
    BY <2>1, LoadedIsTruthful DEF Truthful
  <2>4. OkAt(runs[g]) # {} /\ FirstAt(runs[g], outageRuns[g].spread[1]) /\ runs[g].log # <<>>
    BY <2>1, <2>2 DEF Recorded
  <2>5. FirstAt(runs[g], FirstSuccess(g)) /\ FirstSuccess(g) \in Int
    BY <2>3, <2>4, FirstSuccessIs
  <2>6. \A t, u : FirstAt(runs[g], t) /\ FirstAt(runs[g], u) => t = u
    <3> SUFFICES ASSUME NEW t, NEW u, FirstAt(runs[g], t), FirstAt(runs[g], u) PROVE t = u
      OBVIOUS
    <3>1. t \in Int /\ u \in Int /\ t <= u /\ u <= t
      BY DEF FirstAt
    <3> QED
      BY <3>1
  <2> QED
    BY <2>4, <2>5, <2>6
<1>4. \A g \in X : x[g] = outageRuns[g].spread[1] /\ x[g] = FirstSuccess(g) /\ x[g] \in Int
  BY <1>3
<1>5. {outageRuns[g].spread[1] : g \in X} = {x[g] : g \in X}
  BY <1>4
<1>6. ExpWave(loaded).delay = <<Min({outageRuns[g].spread[1] : g \in X}) - hi,
                                Max({outageRuns[g].spread[1] : g \in X}) - lo>>
  BY DEF ExpWave
<1>7. lo \in Int /\ hi \in Int
  BY WindowHolds
<1>8. OwnWindow(f) \in Int
  <2>1. f \in loaded
    BY <1>2
  <2>2. f \in Outages(loaded)
    BY DEF RunsOf
  <2>3. Recorded(runs[f], outageRuns[f])
    BY <1>1, <2>1, <2>2 DEF AllRecorded, loaded, Outages, IsOutage
  <2>4. T0(f) \in Nat
    BY <2>1, <2>3, LoadedIsTruthful, TimesOfLog DEF Truthful, Recorded
  <2>5. runs[f].up \in Nat
    BY <2>1, LoadedIsTruthful, DeliveredIsLogged
  <2> QED
    BY <2>4, <2>5 DEF OwnWindow
<1>9. lo < OwnWindow(f) /\ OwnWindow(f) <= hi
  OBVIOUS
<1>10. f \in X
  OBVIOUS
<1> HIDE DEF x, X, lo, hi
<1> DEFINE m == Min({x[g] : g \in X})
           n == Max({x[g] : g \in X})
<1>11. m \in Int /\ n \in Int /\ m <= x[f] /\ x[f] <= n
  BY <1>2, <1>4, <1>10, LeastGreatest
<1>12. ExpWave(loaded).delay = <<m - hi, n - lo>>
  BY <1>5, <1>6
<1> HIDE DEF m, n
<1>13. ExpWave(loaded).delay[1] = m - hi /\ ExpWave(loaded).delay[2] = n - lo
  BY <1>12
<1>14. FirstSuccess(f) = x[f] /\ x[f] \in Int
  BY <1>4, <1>10
<1> QED
  BY <1>7, <1>8, <1>9, <1>11, <1>13, <1>14

\* "recovery happened inside it".
THEOREM RecoveryIsBracketed == ASSUME Told PROVE StudySpec => []RecoveryInBracket
<1>1. Known => RecoveryInBracket
  <2> SUFFICES ASSUME Known, JustDerived, OnlyOutage(loaded) PROVE RecoveryInBracket
    BY DEF RecoveryInBracket
  <2> DEFINE lo == WLo(loaded)
             hi == WHi(loaded)
             Inside(f) == lo < OwnWindow(f) /\ OwnWindow(f) <= hi
  <2>1. \A f \in Bracketed(loaded) :
          /\ outageRuns[f].bracket[1] < OwnWindow(f)
          /\ OwnWindow(f) <= outageRuns[f].bracket[2]
          /\ Inside(f)
    <3> SUFFICES ASSUME NEW f \in Bracketed(loaded)
                 PROVE  /\ outageRuns[f].bracket[1] < OwnWindow(f)
                        /\ OwnWindow(f) <= outageRuns[f].bracket[2]
                        /\ Inside(f)
      OBVIOUS
    <3>1. /\ outageRuns[f].bracket[1] \in Int /\ outageRuns[f].bracket[2] \in Int
          /\ OwnWindow(f) \in Int /\ lo \in Int /\ hi \in Int
          /\ outageRuns[f].bracket[1] < OwnWindow(f)
          /\ OwnWindow(f) <= outageRuns[f].bracket[2]
          /\ lo <= outageRuns[f].bracket[1] /\ outageRuns[f].bracket[2] <= hi
      BY WindowHolds
    <3> HIDE DEF lo, hi
    <3> QED
      BY <3>1
  <2>2. 4 * lo <= WMid(loaded) /\ WMid(loaded) <= 4 * hi
    BY MidpointBetween
  <2>3. \A f \in RunsOf(loaded, "exp") : Inside(f) =>
          /\ ExpWave(loaded).delay[1] <= FirstSuccess(f) - OwnWindow(f)
          /\ FirstSuccess(f) - OwnWindow(f) <= ExpWave(loaded).delay[2]
    BY DelayHolds
  <2> QED
    BY <2>1, <2>2, <2>3 DEF RecoveryInBracket
<1> QED
  BY <1>1, MemoryIsTrue, PTL

-----------------------------------------------------------------------------
(* Who survives an outage.                                                 *)

\* What the analysis counts as surviving w are the reminders whose waits reach w.
LEMMA OutlastingIsCount ==
  ASSUME NEW r, r.sums \in [Cohort -> Nat], NEW w \in Int
  PROVE  SurvivalCount(r.sums, 4 * w) = Cardinality(Outlasting(r, w))
<1> DEFINE v == 4 * w
           S == {k \in Cohort : v <= 4 * r.sums[k]}
<1>1. IsFiniteSet(Cohort)
  BY CohortFacts
<1>2. v \in Int
  OBVIOUS
<1>3. S = Outlasting(r, w)
  <2>1. \A k \in Cohort : v <= 4 * r.sums[k] <=> w <= r.sums[k]
    <3> SUFFICES ASSUME NEW k \in Cohort PROVE v <= 4 * r.sums[k] <=> w <= r.sums[k]
      OBVIOUS
    <3>1. r.sums[k] \in Nat
      OBVIOUS
    <3> QED
      BY <3>1
  <2> QED
    BY <2>1 DEF Outlasting
<1> HIDE DEF v
<1>4. SurvivalCount(r.sums, v) = Cardinality(S)
  BY <1>1, <1>2, SurvivalIsCount
<1> QED
  BY <1>3, <1>4 DEF v

\* The window of an outage run whose records were made.
LEMMA OwnWindowIs ==
  ASSUME Told, Known, JustDerived, NEW f \in Outages(loaded)
  PROVE  /\ f \in loaded /\ Truthful(runs[f]) /\ Recorded(runs[f], outageRuns[f])
         /\ OwnWindow(f) \in Int /\ OwnWindow(f) = runs[f].up - runs[f].log[1].t
<1>1. f \in loaded /\ runs[f].recover > 0
  BY DEF Outages, IsOutage
<1>2. Truthful(runs[f])
  BY <1>1, LoadedIsTruthful
<1>3. AllRecorded(runs, outageRuns)
  BY OutputNames DEF JustDerived, Known
<1>4. Recorded(runs[f], outageRuns[f])
  BY <1>1, <1>3 DEF AllRecorded, loaded
<1>5. T0(f) \in Nat /\ T0(f) = runs[f].log[1].t
  BY <1>2, <1>4, TimesOfLog DEF Truthful, Recorded
<1>6. runs[f].up \in Nat
  BY <1>2, DeliveredIsLogged
<1> QED
  BY <1>1, <1>2, <1>4, <1>5, <1>6 DEF OwnWindow

\* In a finished run whose recovery is in W, the waits decide who survives.
LEMMA SurvivalCompared ==
  ASSUME Told, Known, JustDerived, OnlyOutage(loaded), NEW f \in Outages(loaded), Settled(f),
         WLo(loaded) < OwnWindow(f), OwnWindow(f) <= WHi(loaded)
  PROVE  /\ Cardinality(Outlasting(runs[f], OwnWindow(f))) <= runs[f].sent
         /\ runs[f].prompt => runs[f].sent <= Cardinality(Outlasting(runs[f], OwnWindow(f)))
         /\ SurvivalCount(runs[f].sums, 4 * WHi(loaded)) <= runs[f].sent
         /\ runs[f].prompt => runs[f].sent <= SurvivalCount(runs[f].sums, 4 * WLo(loaded))
<1> DEFINE r == runs[f]
           own == OwnWindow(f)
           lo == WLo(loaded)
           hi == WHi(loaded)
           c == Cardinality(Outlasting(r, own))
<1>1. /\ Truthful(r) /\ own \in Int /\ own = r.up - r.log[1].t
      /\ Recorded(r, outageRuns[f])
  BY OwnWindowIs
<1>2. r.open = 0 /\ r.orderly /\ r.log # <<>> /\ r.failure = 0
  BY <1>1 DEF Settled, Recorded, OnlyOutage
<1>3. lo \in Int /\ hi \in Int /\ lo < own /\ own <= hi
  BY WindowHolds
<1>4. r.sums \in [Cohort -> Nat] /\ c <= r.sent /\ (r.prompt => r.sent <= c)
  BY <1>1, <1>2 DEF Truthful, SurvivalHolds
<1>5. r.sent \in Nat /\ IsFiniteSet(Cohort)
  BY <1>1, DeliveredIsLogged, CohortFacts
<1>6. SurvivalCount(r.sums, 4 * own) = c
  BY <1>1, <1>4, OutlastingIsCount
<1> HIDE DEF r, own, lo, hi, c
<1> DEFINE u == 4 * own
           v == 4 * lo
           w == 4 * hi
<1>7. u \in Int /\ v \in Int /\ w \in Int /\ v <= u /\ u <= w
  BY <1>1, <1>3
<1> HIDE DEF u, v, w
<1>8. /\ SurvivalCount(r.sums, w) <= SurvivalCount(r.sums, u)
      /\ SurvivalCount(r.sums, w) \in Nat /\ SurvivalCount(r.sums, u) \in Nat
  BY <1>4, <1>5, <1>7, SurvivalFacts
<1>9. SurvivalCount(r.sums, u) <= SurvivalCount(r.sums, v) /\ SurvivalCount(r.sums, v) \in Nat
  BY <1>4, <1>5, <1>7, SurvivalFacts
<1>10. SurvivalCount(r.sums, u) = c
  BY <1>6 DEF u
<1>11. /\ SurvivalCount(r.sums, w) <= r.sent
       /\ r.prompt => r.sent <= SurvivalCount(r.sums, v)
  BY <1>4, <1>5, <1>8, <1>9, <1>10
<1> QED
  BY <1>4, <1>11 DEF u, v, w, lo, hi, r, own, c

\* The waits of a strategy without randomness add up to one sum, so its trials
\* survive all or none, and so do the reminders of its runs.
LEMMA PredictionOfPlain ==
  ASSUME NEW s \in {"none", "fixed", "exp"}, NEW w \in Int
  PROVE  /\ Trials \in Nat
         /\ SurvivalCount(Sums[s], w)
              = IF w <= 4 * GuaranteedSum(s, OutageAttempts) THEN Trials ELSE 0
<1> DEFINE D == [1 .. OutageAttempts - 1 -> 0 .. Grid - 1]
           F == McWaitSums(s, OutageAttempts)
           g == GuaranteedSum(s, OutageAttempts)
<1>1. OutageAttempts \in Nat \ {0} /\ s \in Strategies
  BY AnalysisAssumption DEF Strategies
<1>2. /\ IsFiniteSet(D) /\ F \in [D -> Nat] /\ \A d \in D : Reach(s, F[d], OutageAttempts - 1)
      /\ g \in Nat
  BY <1>1, TrialsAre, Guaranteed
<1>3. \A d \in D : F[d] = g
  BY <1>1, <1>2 DEF Reach, GuaranteedSum
<1>4. Sums[s] = F /\ Trials = Cardinality(D)
  <2>1. "none" \in Strategies
    BY DEF Strategies
  <2>2. Sums["none"] = McWaitSums("none", OutageAttempts) /\ Sums[s] = F
    BY <1>1, <2>1 DEF Sums
  <2>3. DOMAIN McWaitSums("none", OutageAttempts) = D
    BY DEF McWaitSums
  <2> QED
    BY <2>2, <2>3 DEF Trials
<1> HIDE DEF D, F, g
<1>5. /\ SurvivalCount(F, w) = Cardinality({d \in D : w <= 4 * F[d]})
  BY <1>2, SurvivalIsCount
<1>6. {d \in D : w <= 4 * F[d]} = IF w <= 4 * g THEN D ELSE {}
  BY <1>3
<1>7. Cardinality(D) \in Nat /\ Cardinality({}) = 0
  BY <1>2, FS_CardinalityType, FS_EmptySet
<1> QED
  BY <1>4, <1>5, <1>6, <1>7 DEF g

\* So do the reminders of such a run: all N outlast a window, or none.
LEMMA SurvivorsOfPlain ==
  ASSUME Told, Known, JustDerived, NEW s \in {"none", "fixed", "exp"},
         NEW f \in RunsOf(loaded, s), NEW w \in Int
  PROVE  Cardinality(Outlasting(runs[f], w))
           = IF w <= GuaranteedSum(s, OutageAttempts) THEN N ELSE 0
<1> DEFINE r == runs[f]
           g == GuaranteedSum(s, OutageAttempts)
           O == Outlasting(r, w)
<1>1. f \in Outages(loaded) /\ r.strategy = s
  BY DEF RunsOf
<1>2. Truthful(r) /\ r.budget = OutageAttempts
  BY <1>1, OwnWindowIs DEF Recorded
<1>3. r.sums \in [Cohort -> Nat] /\ \A k \in Cohort : Reach(s, r.sums[k], OutageAttempts - 1)
  BY <1>1, <1>2 DEF Truthful, SurvivalHolds
<1>4. \A k \in Cohort : r.sums[k] = g
  BY <1>3 DEF Reach, GuaranteedSum
<1> HIDE DEF r, g
<1>5. O = IF w <= g THEN Cohort ELSE {}
  BY <1>4 DEF Outlasting
<1>6. Cardinality(Cohort) = N /\ Cardinality({}) = 0
  BY CohortFacts, FS_EmptySet
<1> QED
  BY <1>5, <1>6 DEF r, g

\* The pooled deliveries of some runs: no more than their reminders, as many if every
\* run delivered all of its own, none if none delivered any.
LEMMA PooledBetween ==
  ASSUME Told, Known, NEW X \in SUBSET loaded
  PROVE  /\ Sent(X) \in Nat /\ Reminders(X) \in Nat /\ Sent(X) <= Reminders(X)
         /\ (\A f \in X : runs[f].sent = N) => Sent(X) = Reminders(X)
         /\ (\A f \in X : runs[f].sent = 0) => Sent(X) = 0
<1> DEFINE g == [f \in X |-> runs[f].sent]
           d == [f \in X |-> runs[f].n]
<1>1. IsFiniteSet(X)
  BY FS_Subset DEF Known
<1>2. \A f \in X : /\ runs[f].sent \in Nat /\ runs[f].n = N /\ N \in Nat
                   /\ runs[f].sent <= runs[f].n
  BY LoadedIsTruthful, DeliveredIsLogged, CohortFacts
<1>3. PICK e : SumsOver(e, g, X) /\ Sent(X) = e[X]
  BY <1>1, <1>2, SentIsSum
<1>4. PICK h : SumsOver(h, d, X) /\ Reminders(X) = h[X]
  BY <1>1, <1>2, RemindersAreSum
<1>5. \A f \in X : g[f] = runs[f].sent /\ d[f] = runs[f].n
  OBVIOUS
<1> HIDE DEF g, d
<1>6. \A f \in X : g[f] \in Nat /\ d[f] \in Nat /\ g[f] <= d[f]
  BY <1>2, <1>5
<1>7. Sent(X) \in Nat /\ Reminders(X) \in Nat /\ Sent(X) <= Reminders(X)
  BY <1>1, <1>3, <1>4, <1>6, SumsCompare
<1>8. ASSUME \A f \in X : runs[f].sent = N PROVE Reminders(X) <= Sent(X)
  <2>1. \A f \in X : d[f] \in Nat /\ g[f] \in Nat /\ d[f] <= g[f]
    BY <1>2, <1>5, <1>6, <1>8
  <2> QED
    BY <1>1, <1>3, <1>4, <2>1, SumsCompare
<1>9. ASSUME \A f \in X : runs[f].sent = 0 PROVE Sent(X) = 0
  <2>1. \A f \in X : g[f] = 0
    BY <1>5, <1>9
  <2> QED
    BY <1>1, <1>3, <1>6, <2>1, SumsGrow
<1> QED
  BY <1>7, <1>8, <1>9

\* Nobody or everybody: if the runs of a strategy without randomness are finished and
\* prompt and their recoveries are in W, the pooled delivery is in the predicted band.
LEMMA PlainAgrees ==
  ASSUME Told, Known, JustDerived, OnlyOutage(loaded), NEW s \in {"none", "fixed", "exp"},
         RunsOf(loaded, s) # {},
         \A f \in RunsOf(loaded, s) : /\ Settled(f) /\ runs[f].prompt
                                      /\ WLo(loaded) < OwnWindow(f) /\ OwnWindow(f) <= WHi(loaded)
  PROVE  Agrees(loaded, s)
<1> DEFINE X == RunsOf(loaded, s)
           lo == WLo(loaded)
           hi == WHi(loaded)
           g == GuaranteedSum(s, OutageAttempts)
           p == Predicted(loaded, s)
           sent == Sent(X)
           n == Reminders(X)
<1>1. X \in SUBSET loaded /\ X \in SUBSET Outages(loaded)
  BY DEF RunsOf, Outages
<1>2. /\ sent \in Nat /\ n \in Nat /\ sent <= n
      /\ (\A f \in X : runs[f].sent = N) => sent = n
      /\ (\A f \in X : runs[f].sent = 0) => sent = 0
  BY <1>1, PooledBetween
<1>3. lo \in Int /\ hi \in Int
  BY WindowHolds
<1>4. g \in Nat
  <2>1. OutageAttempts \in Nat \ {0} /\ s \in Strategies
    BY AnalysisAssumption DEF Strategies
  <2> QED
    BY <2>1, Guaranteed
<1>5. Trials \in Nat /\ p.lo = (IF lo <= g THEN Trials ELSE 0)
                     /\ p.hi = (IF hi <= g THEN Trials ELSE 0)
  <2>1. Trials \in Nat /\ p.lo = SurvivalCount(Sums[s], 4 * lo)
                       /\ p.hi = SurvivalCount(Sums[s], 4 * hi)
    BY <1>3, PredictionOfPlain DEF Predicted
  <2>2. PICK u \in Int : u = 4 * lo
    BY <1>3
  <2>3. PICK v \in Int : v = 4 * hi
    BY <1>3
  <2> HIDE DEF p, lo, hi, g
  <2>4. /\ SurvivalCount(Sums[s], u) = IF u <= 4 * g THEN Trials ELSE 0
        /\ SurvivalCount(Sums[s], v) = IF v <= 4 * g THEN Trials ELSE 0
    BY PredictionOfPlain DEF g
  <2>5. (u <= 4 * g <=> lo <= g) /\ (v <= 4 * g <=> hi <= g)
    BY <1>3, <1>4, <2>2, <2>3
  <2> QED
    BY <2>1, <2>2, <2>3, <2>4, <2>5
<1>6. ASSUME NEW f \in X
      PROVE  /\ lo < OwnWindow(f) /\ OwnWindow(f) <= hi /\ OwnWindow(f) \in Int
             /\ runs[f].sent = IF OwnWindow(f) <= g THEN N ELSE 0
  <2>1. f \in Outages(loaded) /\ f \in loaded
    BY <1>1
  <2>2. OwnWindow(f) \in Int /\ Truthful(runs[f])
    BY <2>1, OwnWindowIs
  <2>3. Settled(f) /\ runs[f].prompt /\ lo < OwnWindow(f) /\ OwnWindow(f) <= hi
    OBVIOUS
  <2> DEFINE c == Cardinality(Outlasting(runs[f], OwnWindow(f)))
  <2>4. c <= runs[f].sent /\ runs[f].sent <= c
    BY <2>1, <2>3, SurvivalCompared
  <2>5. PICK w \in Int : w = OwnWindow(f)
    BY <2>2
  <2>6. c = IF OwnWindow(f) <= g THEN N ELSE 0
    BY <2>5, SurvivorsOfPlain
  <2>7. runs[f].sent \in Nat /\ N \in Nat
    BY <2>2, DeliveredIsLogged, CohortFacts
  <2> HIDE DEF c, g, lo, hi
  <2> QED
    BY <2>2, <2>3, <2>4, <2>6, <2>7
<1>7. PICK f \in X : TRUE
  OBVIOUS
<1> DEFINE a == sent * Trials
           b == n * Trials
<1> HIDE DEF X, lo, hi, g, sent, n, p
<1>8. lo > g => sent = 0 /\ hi > g
  <2> SUFFICES ASSUME lo > g PROVE sent = 0 /\ hi > g
    OBVIOUS
  <2>1. \A k \in X : runs[k].sent = 0
    BY <1>3, <1>4, <1>6
  <2>2. hi > g
    BY <1>3, <1>4, <1>6, <1>7
  <2> QED
    BY <1>2, <2>1, <2>2
<1>9. hi <= g => sent = n
  <2> SUFFICES ASSUME hi <= g PROVE sent = n
    OBVIOUS
  <2>1. \A k \in X : runs[k].sent = N
    BY <1>3, <1>4, <1>6
  <2> QED
    BY <1>2, <2>1
<1>10. /\ a \in Int /\ b \in Int /\ 0 <= a /\ a <= b
       /\ (sent = 0 => a = 0) /\ (sent = n => a = b)
       /\ Trials * n = b /\ 0 * n = 0
  <2>1. a \in Int /\ b \in Int /\ 0 <= a
    BY <1>2, <1>5
  <2>2. a <= b
    BY <1>2, <1>5
  <2> QED
    BY <1>2, <1>5, <2>1, <2>2
<1> HIDE DEF a, b
<1>11. a - GreaterOf(p.lo, p.hi) * n <= 0
  <2>1. CASE lo <= g
    <3>1. GreaterOf(p.lo, p.hi) = Trials
      BY <1>3, <1>4, <1>5, <2>1 DEF GreaterOf
    <3> QED
      BY <1>10, <3>1
  <2>2. CASE lo > g
    <3>1. GreaterOf(p.lo, p.hi) = 0 /\ a = 0
      BY <1>3, <1>4, <1>5, <1>8, <1>10, <2>2 DEF GreaterOf
    <3> QED
      BY <1>10, <3>1
  <2> QED
    BY <1>3, <1>4, <2>1, <2>2
<1>12. LesserOf(p.lo, p.hi) * n - a <= 0
  <2>1. CASE hi <= g
    <3>1. LesserOf(p.lo, p.hi) \in {0, Trials} /\ a = b
      BY <1>5, <1>9, <1>10, <2>1 DEF LesserOf
    <3>2. LesserOf(p.lo, p.hi) * n \in {0, b}
      BY <1>10, <3>1
    <3> QED
      BY <1>10, <3>1, <3>2
  <2>2. CASE hi > g
    <3>1. LesserOf(p.lo, p.hi) = 0
      BY <1>3, <1>4, <1>5, <2>2 DEF LesserOf
    <3> QED
      BY <1>10, <3>1
  <2> QED
    BY <1>3, <1>4, <2>1, <2>2
<1> QED
  BY <1>11, <1>12 DEF Agrees, WithinTwoRoots, a, X, n, sent, p

\* "a job survives iff the sum of its waits >= W".
THEOREM WaitsDecideSurvival == ASSUME Told PROVE StudySpec => []SurvivesByItsWaits
<1>1. Known => SurvivesByItsWaits
  <2> SUFFICES ASSUME Known, JustDerived, OnlyOutage(loaded) PROVE SurvivesByItsWaits
    BY DEF SurvivesByItsWaits
  <2> DEFINE Compared(f) == /\ Settled(f) /\ WLo(loaded) < OwnWindow(f)
                            /\ OwnWindow(f) <= WHi(loaded)
  <2>1. \A f \in Outages(loaded) : Compared(f) =>
          /\ SurvivalCount(runs[f].sums, 4 * WHi(loaded)) <= runs[f].sent
          /\ runs[f].prompt => runs[f].sent <= SurvivalCount(runs[f].sums, 4 * WLo(loaded))
    BY SurvivalCompared
  <2>2. \A s \in {"none", "fixed", "exp"} :
          (\A f \in RunsOf(loaded, s) : Compared(f) /\ runs[f].prompt)
            => RunsOf(loaded, s) = {} \/ Agrees(loaded, s)
    BY PlainAgrees
  <2> QED
    BY <2>1, <2>2 DEF SurvivesByItsWaits
<1> QED
  BY <1>1, MemoryIsTrue, PTL

-----------------------------------------------------------------------------
(* Percentiles of the latencies.                                           *)

\* The pooled latencies of some runs are finitely many numbers.
LEMMA SamplesAre ==
  ASSUME Told, Known, NEW R \in SUBSET loaded
  PROVE  LET L == Latencies(R)
             D == DOMAIN L
         IN  /\ IsFiniteSet(D) /\ L \in [D -> Int]
             /\ \A d : d \in D <=> \E f \in R : \E k \in DOMAIN runs[f].latencies : d = <<f, k>>
             /\ \A f \in R : \A k \in DOMAIN runs[f].latencies :
                  <<f, k>> \in D /\ L[<<f, k>>] = runs[f].latencies[k]
<1> DEFINE D == UNION {{<<f, k>> : k \in DOMAIN runs[f].latencies} : f \in R}
           x == [d \in D |-> runs[d[1]].latencies[d[2]]]
<1>1. Latencies(R) = x
  BY DEF Latencies
<1>2. \A f \in R : /\ DOMAIN runs[f].latencies \in SUBSET Cohort
                   /\ \A k \in DOMAIN runs[f].latencies : runs[f].latencies[k] \in Int
  BY LoadedIsTruthful DEF Truthful, SettingsHold
<1>3. \A d : d \in D <=> \E f \in R : \E k \in DOMAIN runs[f].latencies : d = <<f, k>>
  OBVIOUS
<1>4. \A f \in R : \A k \in DOMAIN runs[f].latencies :
        <<f, k>> \in D /\ x[<<f, k>>] = runs[f].latencies[k]
  <2> SUFFICES ASSUME NEW f \in R, NEW k \in DOMAIN runs[f].latencies
               PROVE  <<f, k>> \in D /\ x[<<f, k>>] = runs[f].latencies[k]
    OBVIOUS
  <2>1. <<f, k>> \in D
    BY <1>3
  <2> QED
    BY <2>1
<1>5. IsFiniteSet(D)
  <2>1. D \in SUBSET (R \X Cohort)
    BY <1>2
  <2>2. IsFiniteSet(R)
    BY FS_Subset DEF Known
  <2>3. IsFiniteSet(R \X Cohort)
    BY <2>2, CohortFacts, FS_Product
  <2> HIDE DEF D
  <2> QED
    BY <2>1, <2>3, FS_Subset
<1> HIDE DEF D
<1>6. \A d \in D : x[d] \in Int
  <2> SUFFICES ASSUME NEW d \in D PROVE x[d] \in Int
    OBVIOUS
  <2>1. PICK f \in R : \E k \in DOMAIN runs[f].latencies : d = <<f, k>>
    BY <1>3
  <2>a. PICK k \in DOMAIN runs[f].latencies : d = <<f, k>>
    BY <2>1
  <2>2. x[d] = runs[f].latencies[k]
    BY <1>4, <2>a
  <2> QED
    BY <1>2, <2>2
<1>7. DOMAIN x = D /\ x \in [D -> Int]
  BY <1>6
<1> HIDE DEF x
<1> QED
  BY <1>1, <1>3, <1>4, <1>5, <1>7

\* The percentiles of a cell's latencies, as numpy would have them.
LEMMA PercentilesOfCell ==
  ASSUME Told, Known, NEW R \in SUBSET loaded, DOMAIN Latencies(R) # {}
  PROVE  LET L == Latencies(R)
             p == [q \in {50, 95, 99} |-> Latency(R, q)]
             UpTo(v) == Cardinality({d \in DOMAIN L : 100 * L[d] <= v})
         IN  /\ p[50] <= p[95] /\ p[95] <= p[99]
             /\ \A q \in DOMAIN p :
                  LET h == (Cardinality(DOMAIN L) - 1) * q IN
                  /\ 100 * UpTo(p[q]) > h
                  /\ UpTo(p[q] - 1) * 100 <= h + 99
<1> DEFINE L == Latencies(R)
           D == DOMAIN L
           p == [q \in {50, 95, 99} |-> Latency(R, q)]
           UpTo(v) == Cardinality({d \in D : 100 * L[d] <= v})
<1>1. IsFiniteSet(D) /\ D # {} /\ L \in [D -> Int]
  BY SamplesAre
<1>2. \A q \in {50, 95, 99} : p[q] = Percentile(L, q)
  BY DEF Latency
<1>3. 50 \in 0 .. 100 /\ 95 \in 0 .. 100 /\ 99 \in 0 .. 100 /\ 50 <= 95 /\ 95 <= 99
  OBVIOUS
<1>4. DOMAIN p = {50, 95, 99}
  OBVIOUS
<1> HIDE DEF L, D, p
<1>5. p[50] <= p[95]
  <2>1. PICK q \in 0 .. 100, r \in 0 .. 100 : q = 50 /\ r = 95 /\ q <= r
    BY <1>3
  <2>2. Percentile(L, q) <= Percentile(L, r)
    BY <1>1, <2>1, PercentilesRise
  <2> QED
    BY <1>2, <2>1, <2>2
<1>6. p[95] <= p[99]
  <2>1. PICK q \in 0 .. 100, r \in 0 .. 100 : q = 95 /\ r = 99 /\ q <= r
    BY <1>3
  <2>2. Percentile(L, q) <= Percentile(L, r)
    BY <1>1, <2>1, PercentilesRise
  <2> QED
    BY <1>2, <2>1, <2>2
<1>7. ASSUME NEW q \in {50, 95, 99}
      PROVE  /\ 100 * UpTo(p[q]) > (Cardinality(D) - 1) * q
             /\ UpTo(p[q] - 1) * 100 <= (Cardinality(D) - 1) * q + 99
  <2>1. q \in 0 .. 100
    BY <1>3, SMTT(30)
  <2>2. /\ (Cardinality(D) - 1) * q < 100 * Cardinality({d \in D : 100 * L[d] <= Percentile(L, q)})
        /\ Cardinality({d \in D : 100 * L[d] <= Percentile(L, q) - 1}) * 100
             <= (Cardinality(D) - 1) * q + 99
    BY <1>1, <2>1, PercentileEncloses
  <2> DEFINE h == (Cardinality(D) - 1) * q
             u == Cardinality({d \in D : 100 * L[d] <= Percentile(L, q)})
  <2>3. h \in Int /\ u \in Int
    <3>1. Cardinality(D) \in Nat
      BY <1>1, FS_CardinalityType
    <3>2. {d \in D : 100 * L[d] <= Percentile(L, q)} \in SUBSET D
      OBVIOUS
    <3>3. u \in Nat
      BY <1>1, <3>2, FS_Subset, FS_CardinalityType
    <3>4. (Cardinality(D) - 1) \in Int /\ q \in Int
      BY <3>1, <2>1
    <3> QED
      BY <3>3, <3>4
  <2>4. h < 100 * u
    BY <2>2
  <2> HIDE DEF h, u
  <2>5. 100 * u > h
    BY <2>3, <2>4
  <2> QED
    BY <1>2, <2>2, <2>5 DEF h, u
<1> QED
  BY <1>4, <1>5, <1>6, <1>7 DEF L, D, p

\* The pooled deliveries of a rate are within the range of its runs'.
LEMMA RangeHolds ==
  ASSUME Told, Known, NEW C \in SUBSET loaded, C # {}
  PROVE  /\ Min({runs[f].sent : f \in C}) * Cardinality(C) <= Sent(C)
         /\ Sent(C) <= Max({runs[f].sent : f \in C}) * Cardinality(C)
<1> DEFINE g == [f \in C |-> runs[f].sent]
<1>1. IsFiniteSet(C)
  BY FS_Subset DEF Known
<1>2. \A f \in C : runs[f].sent \in Nat
  BY LoadedIsTruthful, DeliveredIsLogged
<1>3. PICK e : SumsOver(e, g, C) /\ Sent(C) = e[C]
  BY <1>1, <1>2, SentIsSum
<1>4. \A f \in C : g[f] = runs[f].sent
  OBVIOUS
<1>5. {g[f] : f \in C} = {runs[f].sent : f \in C}
  BY <1>4
<1> HIDE DEF g
<1>6. \A f \in C : g[f] \in Nat /\ g[f] \in Int
  BY <1>2, <1>4
<1> DEFINE V == {g[f] : f \in C}
<1>7. /\ Min(V) \in Int /\ Max(V) \in Int /\ \A f \in C : Min(V) <= g[f] /\ g[f] <= Max(V)
  BY <1>1, <1>6, LeastGreatest
<1>8. Min(V) \in Nat /\ Max(V) \in Nat
  <2>1. PICK f \in C : TRUE
    OBVIOUS
  <2>2. PICK a \in C : \A b \in C : g[a] <= g[b]
    BY <1>1, <1>6, Extremes
  <2>3. V \in SUBSET Int /\ g[a] \in V /\ \A y \in V : g[a] <= y
    BY <1>6, <2>2
  <2> HIDE DEF V
  <2>4. Min(V) = g[a]
    <3>1. PICK v \in V : v = g[a]
      BY <2>3
    <3> QED
      BY <2>3, <3>1, MinIs
  <2>5. Min(V) <= g[f] /\ g[f] <= Max(V) /\ g[f] \in Nat /\ g[a] \in Nat
    BY <1>6, <1>7, <2>1
  <2> QED
    BY <1>7, <2>4, <2>5
<1>9. PICK m \in Nat, M \in Nat : m = Min(V) /\ M = Max(V)
  BY <1>8
<1> HIDE DEF V
<1>10. \A f \in C : g[f] \in Nat /\ m <= g[f] /\ g[f] <= M
  BY <1>6, <1>7, <1>9
<1>11. m * Cardinality(C) <= e[C] /\ e[C] <= M * Cardinality(C)
  BY <1>1, <1>3, <1>10, SumsWithin
<1> QED
  BY <1>3, <1>5, <1>9, <1>11 DEF V

\* Two runs without an outage that are alike deliver the same reminders, with the
\* same delays.
LEMMA AlikeRuns ==
  ASSUME Told, Known, NEW x, Alike(x), NEW f, NEW g,
         f \in UNION {Cell(loaded, s, x) : s \in Strategies},
         g \in UNION {Cell(loaded, s, x) : s \in Strategies}
  PROVE  /\ f \in loaded /\ DOMAIN runs[f].latencies # {}
         /\ DOMAIN runs[f].latencies = DOMAIN runs[g].latencies
         /\ \A k \in DOMAIN runs[f].latencies :
              /\ runs[f].latencies[k] \in Int /\ Delays(runs[f], k) \in Nat
              /\ Delays(runs[f], k) = Delays(runs[g], k)
              /\ Delays(runs[f], k) <= runs[f].latencies[k]
              /\ runs[f].strategy = "none" => runs[f].latencies[k] = Delays(runs[f], k)
<1> DEFINE C == UNION {Cell(loaded, s, x) : s \in Strategies}
<1>1. \A h \in C : /\ h \in loaded /\ ~IsOutage(h)
                   /\ Settled(h) /\ runs[h].sent > 0
  BY DEF Cell, Steadies, Outages, Alike
<1>2. \A y \in {"budget", "dice", "late", "stagger"} : runs[f][y] = runs[g][y]
  BY DEF Alike
<1>3. /\ runs[f].budget = runs[g].budget /\ runs[f].dice = runs[g].dice
      /\ runs[f].late = runs[g].late /\ runs[f].stagger = runs[g].stagger
  BY <1>2
<1>4. f \in C /\ g \in C
  OBVIOUS
<1> HIDE DEF C
<1>5. \A h \in C : /\ Truthful(runs[h]) /\ runs[h].recover = 0
                   /\ runs[h].open = 0 /\ runs[h].orderly
  <2> SUFFICES ASSUME NEW h \in C
               PROVE  /\ Truthful(runs[h]) /\ runs[h].recover = 0
                      /\ runs[h].open = 0 /\ runs[h].orderly
    OBVIOUS
  <2>1. Truthful(runs[h])
    BY <1>1, LoadedIsTruthful
  <2>2. runs[h].recover \in Nat
    BY <2>1, DeliveredIsLogged
  <2> QED
    BY <1>1, <2>1, <2>2 DEF IsOutage, Settled
<1>6. \A h \in C : /\ DOMAIN runs[h].latencies = {k \in Cohort : runs[h].dice[k] < runs[h].budget}
                   /\ DOMAIN runs[h].latencies # {}
                   /\ \A k \in DOMAIN runs[h].latencies :
                        /\ runs[h].latencies[k] \in Int
                        /\ Delays(runs[h], k) \in Nat /\ Delays(runs[h], k) <= runs[h].latencies[k]
                        /\ runs[h].strategy = "none" => runs[h].latencies[k] = Delays(runs[h], k)
  BY <1>1, <1>5, DeliveredIsLogged DEF Truthful, LatencyHolds, SettingsHold
<1>7. \A k : Delays(runs[f], k) = Delays(runs[g], k)
  BY <1>3 DEF Delays
<1> QED
  BY <1>1, <1>3, <1>4, <1>6, <1>7

\* Not waiting has the lowest latencies.
LEMMA NoneIsLowest ==
  ASSUME Told, Known, NEW x, Alike(x), NEW s \in StrategiesAt(loaded, x), NEW q \in 0 .. 100
  PROVE  ~(Latency(Cell(loaded, s, x), q) < Latency(Cell(loaded, "none", x), q))
<1> DEFINE A == Cell(loaded, "none", x)
           B == Cell(loaded, s, x)
           C == UNION {Cell(loaded, t, x) : t \in Strategies}
           LA == Latencies(A)
           LB == Latencies(B)
           D == DOMAIN LA
           E == DOMAIN LB
<1>1. s \in Strategies /\ "none" \in Strategies /\ B # {}
  BY DEF StrategiesAt, Strategies
<1>2. A \in SUBSET C /\ B \in SUBSET C /\ C \in SUBSET loaded
  BY <1>1 DEF Cell, Steadies
<1>3. Cardinality(B) = Cardinality(A)
  BY DEF Alike
<1>4. \A f \in A : runs[f].strategy = "none"
  BY DEF Cell
<1>5. \A f \in C, g \in C :
         /\ DOMAIN runs[f].latencies # {}
         /\ DOMAIN runs[f].latencies = DOMAIN runs[g].latencies
         /\ \A k \in DOMAIN runs[f].latencies :
              /\ runs[f].latencies[k] \in Int /\ Delays(runs[f], k) \in Nat
              /\ Delays(runs[f], k) = Delays(runs[g], k)
              /\ Delays(runs[f], k) <= runs[f].latencies[k]
              /\ runs[f].strategy = "none" => runs[f].latencies[k] = Delays(runs[f], k)
  BY AlikeRuns
<1> HIDE DEF A, B, C
<1>6. A \in SUBSET loaded /\ B \in SUBSET loaded
  BY <1>2
<1>7. IsFiniteSet(A) /\ IsFiniteSet(B)
  BY <1>6, FS_Subset DEF Known
<1>8. PICK m : m \in Bijection(A, B)
  BY <1>3, <1>7, FS_SameCardinalityBij DEF ExistsBijection
<1>9. /\ \A f \in A : m[f] \in B
      /\ \A f, g \in A : m[f] = m[g] => f = g
      /\ \A g \in B : \E f \in A : m[f] = g
  BY <1>8 DEF Bijection, Injection, Surjection, IsInjective
<1>10. PICK f0 \in A : f0 \in C
  BY <1>1, <1>2, <1>9
<1> DEFINE K == DOMAIN runs[f0].latencies
<1>11. K # {} /\ \A f \in C : DOMAIN runs[f].latencies = K
  BY <1>5, <1>10
<1>12. /\ IsFiniteSet(D) /\ LA \in [D -> Int]
       /\ \A d : d \in D <=> \E f \in A : \E k \in DOMAIN runs[f].latencies : d = <<f, k>>
       /\ \A f \in A : \A k \in DOMAIN runs[f].latencies :
            <<f, k>> \in D /\ LA[<<f, k>>] = runs[f].latencies[k]
  BY <1>6, SamplesAre
<1>13. /\ IsFiniteSet(E) /\ LB \in [E -> Int]
       /\ \A d : d \in E <=> \E f \in B : \E k \in DOMAIN runs[f].latencies : d = <<f, k>>
       /\ \A f \in B : \A k \in DOMAIN runs[f].latencies :
            <<f, k>> \in E /\ LB[<<f, k>>] = runs[f].latencies[k]
  BY <1>6, SamplesAre
<1>14. Latency(A, q) = (IF D = {} THEN None ELSE Percentile(LA, q))
       /\ Latency(B, q) = (IF E = {} THEN None ELSE Percentile(LB, q))
  BY DEF Latency
<1> HIDE DEF LA, LB, D, E, K
<1> DEFINE b == [d \in D |-> <<m[d[1]], d[2]>>]
<1>15. \A d \in D : \E f \in A : \E k \in K :
         /\ d = <<f, k>> /\ b[d] = <<m[f], k>> /\ b[d] \in E /\ LA[d] <= LB[b[d]]
  <2> SUFFICES ASSUME NEW d \in D
               PROVE  \E f \in A : \E k \in K :
                        /\ d = <<f, k>> /\ b[d] = <<m[f], k>> /\ b[d] \in E /\ LA[d] <= LB[b[d]]
    OBVIOUS
  <2>1. PICK f \in A : \E k \in DOMAIN runs[f].latencies : d = <<f, k>>
    BY <1>12
  <2>2. PICK k \in DOMAIN runs[f].latencies : d = <<f, k>>
    BY <2>1
  <2>3. f \in C /\ m[f] \in C /\ m[f] \in B
    BY <1>2, <1>9
  <2>4. k \in K /\ k \in DOMAIN runs[m[f]].latencies
    BY <1>11, <2>3
  <2>5. b[d] = <<m[f], k>>
    BY <2>2
  <2>6. <<m[f], k>> \in E /\ LB[<<m[f], k>>] = runs[m[f]].latencies[k]
    BY <1>13, <2>3, <2>4
  <2>7. LA[d] = runs[f].latencies[k]
    BY <1>12, <2>2
  <2>8. runs[f].latencies[k] = Delays(runs[f], k)
    BY <1>4, <1>5, <2>3
  <2>9. Delays(runs[f], k) = Delays(runs[m[f]], k)
    BY <1>5, <2>3
  <2>10. Delays(runs[m[f]], k) <= runs[m[f]].latencies[k]
    BY <1>5, <2>3, <2>4
  <2>11. LA[d] <= LB[<<m[f], k>>]
    BY <2>6, <2>7, <2>8, <2>9, <2>10
  <2> QED
    BY <2>2, <2>4, <2>5, <2>6, <2>11
<1>16. b \in [D -> E] /\ \A d \in D : LA[d] <= LB[b[d]]
  BY <1>15
<1>17. \A c, d \in D : b[c] = b[d] => c = d
  <2> SUFFICES ASSUME NEW c \in D, NEW d \in D, b[c] = b[d] PROVE c = d
    OBVIOUS
  <2> HIDE DEF b
  <2>1. PICK f \in A, k \in K : c = <<f, k>> /\ b[c] = <<m[f], k>>
    BY <1>15
  <2>2. PICK g \in A, l \in K : d = <<g, l>> /\ b[d] = <<m[g], l>>
    BY <1>15
  <2>3. m[f] = m[g] /\ k = l
    BY <2>1, <2>2
  <2> QED
    BY <1>9, <2>1, <2>2, <2>3
<1>18. \A e \in E : \E d \in D : b[d] = e
  <2> SUFFICES ASSUME NEW e \in E PROVE \E d \in D : b[d] = e
    OBVIOUS
  <2>1. PICK g \in B : \E k \in DOMAIN runs[g].latencies : e = <<g, k>>
    BY <1>13
  <2>2. PICK k \in DOMAIN runs[g].latencies : e = <<g, k>>
    BY <2>1
  <2>3. PICK f \in A : m[f] = g
    BY <1>9
  <2>4. k \in DOMAIN runs[f].latencies
    BY <1>2, <1>11, <2>3
  <2>5. <<f, k>> \in D
    BY <1>12, <2>4
  <2>6. b[<<f, k>>] = <<m[f], k>>
    BY <2>5
  <2> QED
    BY <2>2, <2>3, <2>5, <2>6
<1> HIDE DEF b
<1>19. b \in Bijection(D, E)
  <2>1. b \in Injection(D, E)
    BY <1>16, <1>17 DEF Injection, IsInjective
  <2>2. b \in Surjection(D, E)
    BY <1>16, <1>18 DEF Surjection
  <2> QED
    BY <2>1, <2>2 DEF Bijection
<1>20. Under(LA, LB, D, E, b)
  BY <1>16, <1>19 DEF Under
<1>21. D # {} /\ E # {}
  <2>1. PICK k \in K : TRUE
    BY <1>11
  <2>2. k \in DOMAIN runs[f0].latencies
    BY DEF K
  <2>3. <<f0, k>> \in D
    BY <1>12, <2>2
  <2> QED
    BY <1>16, <2>3
<1>22. Percentile(LA, q) <= Percentile(LB, q)
  BY <1>12, <1>13, <1>20, <1>21, PercentilesFollow
<1>23. Percentile(LA, q) \in Int /\ Percentile(LB, q) \in Int
  BY <1>12, <1>13, <1>21, PercentileParts, PercentileLies
<1>24. ~(Latency(B, q) < Latency(A, q))
  BY <1>14, <1>21, <1>22, <1>23
<1> QED
  BY <1>24 DEF A, B

\* The percentiles rank, and none has the lowest.
THEOREM PercentilesAreRanked == ASSUME Told PROVE StudySpec => []PercentilesRank
<1>1. Known => PercentilesRank
  <2> SUFFICES ASSUME Known, JustDerived, NEW x \in Rates(loaded)
               PROVE  LET row == SteadyRow(loaded, x)
                          C == UNION {Cell(loaded, s, x) : s \in Strategies}
                      IN  /\ \A s \in StrategiesAt(loaded, x) :
                               LET L == Latencies(Cell(loaded, s, x))
                                   p == row.latency[s]
                                   UpTo(v) == Cardinality({d \in DOMAIN L : 100 * L[d] <= v})
                               IN  DOMAIN L # {} =>
                                     /\ p[50] <= p[95] /\ p[95] <= p[99]
                                     /\ \A q \in DOMAIN p :
                                          LET h == (Cardinality(DOMAIN L) - 1) * q IN
                                          /\ 100 * UpTo(p[q]) > h
                                          /\ UpTo(p[q] - 1) * 100 <= h + 99
                          /\ Alike(x) => \A q \in DOMAIN row.rank : row.rank[q] = 1
                          /\ row.range[1] * Cardinality(C) <= row.pooled[1]
                          /\ row.pooled[1] <= row.range[2] * Cardinality(C)
    BY DEF PercentilesRank
  <2> DEFINE row == SteadyRow(loaded, x)
             C == UNION {Cell(loaded, s, x) : s \in Strategies}
  <2>1. ASSUME NEW s \in StrategiesAt(loaded, x), DOMAIN Latencies(Cell(loaded, s, x)) # {}
        PROVE  LET L == Latencies(Cell(loaded, s, x))
                   p == row.latency[s]
                   UpTo(v) == Cardinality({d \in DOMAIN L : 100 * L[d] <= v})
               IN  /\ p[50] <= p[95] /\ p[95] <= p[99]
                   /\ \A q \in DOMAIN p :
                        LET h == (Cardinality(DOMAIN L) - 1) * q IN
                        /\ 100 * UpTo(p[q]) > h
                        /\ UpTo(p[q] - 1) * 100 <= h + 99
    <3>1. row.latency[s] = [q \in {50, 95, 99} |-> Latency(Cell(loaded, s, x), q)]
      BY DEF SteadyRow
    <3>2. Cell(loaded, s, x) \in SUBSET loaded
      BY DEF Cell, Steadies
    <3> HIDE DEF row
    <3> QED
      BY <2>1, <3>1, <3>2, PercentilesOfCell
  <2>2. ASSUME Alike(x), NEW q \in {50, 95, 99} PROVE row.rank[q] = 1
    <3> DEFINE S == {s \in StrategiesAt(loaded, x) :
                       Latency(Cell(loaded, s, x), q) < Latency(Cell(loaded, "none", x), q)}
    <3>1. row.rank[q] = 1 + Cardinality(S)
      BY DEF SteadyRow
    <3>2. q \in 0 .. 100
      OBVIOUS
    <3>3. S = {}
      BY <2>2, <3>2, NoneIsLowest
    <3> HIDE DEF S, row
    <3> QED
      BY <3>1, <3>3, FS_EmptySet
  <2>3. DOMAIN row.rank = {50, 95, 99}
    BY DEF SteadyRow
  <2>4. /\ row.range[1] * Cardinality(C) <= row.pooled[1]
        /\ row.pooled[1] <= row.range[2] * Cardinality(C)
    <3>1. /\ row.range[1] = Min({runs[f].sent : f \in C}) /\ row.range[2] = Max({runs[f].sent : f \in C})
          /\ row.pooled[1] = Sent(C)
      BY DEF SteadyRow
    <3>2. C \in SUBSET loaded
      BY DEF Cell, Steadies
    <3>3. C # {}
      <4>1. PICK f \in Steadies(loaded) : runs[f].failure = x
        BY DEF Rates
      <4>2. f \in loaded
        BY DEF Steadies
      <4>3. runs[f].strategy \in Strategies
        BY <4>2, LoadedIsTruthful DEF Truthful, SettingsHold
      <4>4. f \in Cell(loaded, runs[f].strategy, x)
        BY <4>1 DEF Cell
      <4> QED
        BY <4>3, <4>4
    <3> HIDE DEF row, C
    <3> QED
      BY <3>1, <3>2, <3>3, RangeHolds
  <2> HIDE DEF row, C
  <2> QED
    BY <2>1, <2>2, <2>3, <2>4 DEF row, C
<1> QED
  BY <1>1, MemoryIsTrue, PTL

-----------------------------------------------------------------------------
(* The loads.                                                              *)

\* The times of the attempts are numbers in order.
LEMMA AttemptTimesAre ==
  ASSUME NEW f, LogHolds(runs[f]), runs[f].log # <<>>
  PROVE  /\ Len(runs[f].log) \in Nat \ {0} /\ DOMAIN runs[f].log = 1 .. Len(runs[f].log)
         /\ Sized(AttemptTimes(f), Len(runs[f].log)) /\ Ascending(AttemptTimes(f))
         /\ AttemptTimes(f) \in [1 .. Len(runs[f].log) -> Nat]
         /\ \A i \in 1 .. Len(runs[f].log) : AttemptTimes(f)[i] = runs[f].log[i].t - T0(f)
<1> DEFINE L == runs[f].log
           n == Len(L)
           s == AttemptTimes(f)
<1>1. /\ n \in Nat \ {0} /\ DOMAIN L = 1 .. n
      /\ \A i \in 1 .. n : L[i].t \in Nat /\ L[i].t - T0(f) \in Nat
      /\ T0(f) \in Nat
  BY TimesOfLog
<1>2. \A i, j \in DOMAIN L : i <= j => L[i].t <= L[j].t
  BY DEF LogHolds
<1>3. s = [i \in 1 .. n |-> L[i].t - T0(f)]
  BY <1>1 DEF AttemptTimes
<1> HIDE DEF L, n, s
<1>4. s \in [1 .. n -> Nat] /\ \A i \in 1 .. n : s[i] = L[i].t - T0(f)
  BY <1>1, <1>3
<1>5. Ascending(s)
  <2> SUFFICES ASSUME NEW i \in 1 .. n, NEW j \in 1 .. n, i <= j PROVE s[i] <= s[j]
    BY <1>4 DEF Ascending
  <2>1. L[i].t <= L[j].t /\ s[i] = L[i].t - T0(f) /\ s[j] = L[j].t - T0(f)
    BY <1>1, <1>2, <1>4
  <2> QED
    BY <1>1, <2>1
<1>6. s # <<>>
  <2>1. 1 \in DOMAIN s
    BY <1>1, <1>4
  <2> QED
    BY <2>1
<1>7. Sized(s, n)
  BY <1>1, <1>4, <1>6 DEF Sized
<1> QED
  BY <1>1, <1>4, <1>5, <1>7 DEF L, n, s

\* The bins of the herd figure hold every call, each no more than the worst window,
\* which two that meet hold.
LEMMA BinsAgree ==
  ASSUME NEW f, LogHolds(runs[f]), runs[f].log # <<>>
  PROVE  LET B == Bins(f)
             all == SlidingPeak(AttemptTimes(f))
         IN  /\ Total(B, DOMAIN B) = Len(runs[f].log)
             /\ \A b \in DOMAIN B : B[b] <= all
             /\ \E b \in DOMAIN B : all <= B[b] + (IF b + 1 \in DOMAIN B THEN B[b + 1] ELSE 0)
<1> DEFINE n == Len(runs[f].log)
           s == AttemptTimes(f)
           D == 1 .. n
           c == [i \in D |-> Bin(f, i)]
           M == Max({c[i] : i \in D})
           S == 0 .. M
           B == Bins(f)
           all == SlidingPeak(s)
           Of(b) == ClassOf(c, D, b)
<1>1. /\ n \in Nat \ {0} /\ DOMAIN runs[f].log = D
      /\ Sized(s, n) /\ Ascending(s) /\ s \in [D -> Nat]
      /\ \A i \in D : s[i] = runs[f].log[i].t - T0(f)
  BY AttemptTimesAre
<1>2. Window \in Nat \ {0}
  BY AnalysisAssumption
<1>3. \A i \in D : c[i] = s[i] \div Window
  BY <1>1 DEF Bin
<1>4. {Bin(f, i) : i \in D} = {c[i] : i \in D}
  OBVIOUS
<1>5. B = [b \in S |-> Cardinality({i \in D : Bin(f, i) = b})]
  BY <1>1, <1>4 DEF Bins
<1>6. B = [b \in S |-> Cardinality(Of(b))]
  <2>1. \A b : Of(b) = {i \in D : Bin(f, i) = b}
    BY DEF ClassOf
  <2> QED
    BY <1>5, <2>1
<1> HIDE DEF n, s, c, B
<1>7. IsFiniteSet(D) /\ Cardinality(D) = n /\ D # {}
  <2>1. 1 \in Int /\ n \in Int /\ ~(1 > n) /\ n - 1 + 1 = n /\ 1 \in D
    BY <1>1
  <2> QED
    BY <2>1, FS_Interval
<1>8. \A i \in D : /\ s[i] \in Nat /\ c[i] \in Nat
                   /\ \A b \in Int : c[i] = b <=> b * Window <= s[i] /\ s[i] < b * Window + Window
  <2> SUFFICES ASSUME NEW i \in D
               PROVE  /\ s[i] \in Nat /\ c[i] \in Nat
                      /\ \A b \in Int : c[i] = b <=> b * Window <= s[i] /\ s[i] < b * Window + Window
    OBVIOUS
  <2>1. PICK x \in Nat : x = s[i]
    BY <1>1
  <2>2. \A w \in Nat \ {0}, y \in Nat : /\ y \div w \in Nat
                                       /\ \A b \in Int : y \div w = b <=> b * w <= y /\ y < b * w + w
    OBVIOUS
  <2>3. PICK w \in Nat \ {0} : w = Window
    BY <1>2
  <2>4. c[i] = x \div w
    BY <1>3, <2>1, <2>3
  <2>5. /\ x \div w \in Nat
        /\ \A b \in Int : x \div w = b <=> b * w <= x /\ x < b * w + w
    BY <2>2
  <2> QED
    BY <2>1, <2>3, <2>4, <2>5
<1>9. M \in Nat /\ \A i \in D : c[i] \in S
  <2>1. M \in Int /\ \A i \in D : c[i] <= M
    <3> HIDE DEF D
    <3>1. \A i \in D : c[i] \in Int
      BY <1>8
    <3> QED
      BY <1>7, <3>1, LeastGreatest
  <2>2. 1 \in D
    BY <1>1
  <2> HIDE DEF M
  <2> QED
    BY <1>8, <2>1, <2>2
<1>10. \A b \in Nat : /\ b * Window \in Int
                      /\ InWindow(s, b * Window) = Cardinality(Of(b))
  <2> SUFFICES ASSUME NEW b \in Nat
               PROVE  b * Window \in Int /\ InWindow(s, b * Window) = Cardinality(Of(b))
    OBVIOUS
  <2>1. b * Window \in Int /\ DOMAIN s = D
    BY <1>1, <1>2
  <2>2. {i \in D : b * Window <= s[i] /\ s[i] < b * Window + Window} = Of(b)
    BY <1>8 DEF ClassOf
  <2> QED
    BY <2>1, <2>2 DEF InWindow
<1> HIDE DEF M
<1>11. DOMAIN B = S /\ \A b \in S : B[b] = Cardinality(Of(b)) /\ b \in Nat /\ B[b] \in Nat
  <2>1. DOMAIN B = S /\ \A b \in S : B[b] = Cardinality(Of(b)) /\ b \in Nat
    BY <1>6, <1>9
  <2>2. \A b : Of(b) \in SUBSET D
    BY DEF ClassOf
  <2> HIDE DEF Of, D
  <2>3. \A b : Cardinality(Of(b)) \in Nat
    BY <1>7, <2>2, FS_Subset, FS_CardinalityType
  <2> QED
    BY <2>1, <2>3
<1>12. IsFiniteSet(S)
  <2>1. 0 \in Int /\ M \in Int
    BY <1>9
  <2> QED
    BY <2>1, FS_Interval
<1>13. Total(B, S) = n
  <2>1. \A b \in S : B[b] = Cardinality(ClassOf(c, D, b))
    BY <1>11
  <2>4. \A b \in S : B[b] \in Int
    BY <1>11
  <2>5. \A d \in D : c[d] \in S
    BY <1>9
  <2>6. IsFiniteSet(D) /\ IsFiniteSet(S)
    BY <1>7, <1>12
  <2> HIDE DEF D, S
  <2>2. PICK e : SumsOver(e, B, S) /\ Total(B, S) = e[S]
    BY <2>4, <2>6, TotalIsSum
  <2>3. e[S] = Cardinality(D)
    BY <2>1, <2>2, <2>5, <2>6, ClassesCount
  <2> QED
    BY <1>7, <2>2, <2>3
<1> HIDE DEF Of
<1>14. /\ all \in Nat /\ \A t \in Int : InWindow(s, t) \in Nat /\ InWindow(s, t) <= all
       /\ \E i \in D : all = InWindow(s, s[i])
  BY <1>1, <1>2, PeakHolds DEF Sized
<1>15. \A b \in S : B[b] <= all
  BY <1>10, <1>11, <1>14
<1>16. \E b \in S : all <= B[b] + (IF b + 1 \in S THEN B[b + 1] ELSE 0)
  <2>1. PICK i \in D : all = InWindow(s, s[i])
    BY <1>14
  <2>2. PICK b \in S : b = c[i]
    BY <1>9
  <2>3. PICK u \in Int : u = b * Window /\ u <= s[i] /\ s[i] < u + Window
    BY <1>8, <1>10, <1>11, <2>2
  <2>4. s[i] \in Int
    BY <1>8
  <2>5. /\ InWindow(s, u) \in Nat /\ InWindow(s, u + Window) \in Nat
        /\ InWindow(s, s[i]) <= InWindow(s, u) + InWindow(s, u + Window)
    BY <1>1, <1>2, <2>3, <2>4, WindowInTwo
  <2>6. InWindow(s, u) = B[b]
    BY <1>10, <1>11, <2>3
  <2>7. u + Window = (b + 1) * Window /\ b + 1 \in Nat
    BY <1>2, <1>11, <2>3
  <2>8. InWindow(s, u + Window) = Cardinality(Of(b + 1))
    BY <1>10, <2>7
  <2>9. CASE b + 1 \in S
    BY <1>11, <2>1, <2>5, <2>6, <2>8, <2>9
  <2>10. CASE b + 1 \notin S
    <3>1. Of(b + 1) = {}
      BY <1>9, <2>10 DEF Of, ClassOf
    <3>2. InWindow(s, u + Window) = 0
      BY <2>8, <3>1, FS_EmptySet
    <3> QED
      BY <1>11, <2>1, <2>5, <2>6, <2>10, <3>2
  <2> QED
    BY <2>9, <2>10
<1>17. /\ Total(B, DOMAIN B) = n /\ \A b \in DOMAIN B : B[b] <= all
       /\ \E b \in DOMAIN B : all <= B[b] + (IF b + 1 \in DOMAIN B THEN B[b + 1] ELSE 0)
  BY <1>11, <1>13, <1>15, <1>16
<1> QED
  BY <1>17 DEF B, n, all, s

\* What the record of a run has of its load.
LEMMA RecordFields ==
  ASSUME NEW f
  PROVE  LET o == RunRecord(f)
             r == runs[f]
             recovered == FirstSuccess(f) # None
         IN  /\ o.delivered = r.sent /\ o.retries = Len(r.log) - r.n
             /\ o.callsBefore = Len(InOutage(f)) /\ o.peakBefore = SlidingPeak(InOutage(f))
             /\ o.peak = IF recovered THEN SlidingPeak(InRecovery(f)) ELSE None
             /\ r.strategy = "exp" =>
                  /\ o.index = SuccessIndex(f)
                  /\ o.spread = <<FirstSuccess(f), Max(Times(f, Successes(f)))>>
BY DEF RunRecord

\* The first success parts the attempts, and no success is before it.
LEMMA RecoveryParts ==
  ASSUME NEW f, LogHolds(runs[f]), runs[f].log # <<>>, OkAt(runs[f]) # {}
  PROVE  LET n == Len(runs[f].log)
             s == AttemptTimes(f)
             m == CallsBefore(f)
         IN  /\ FirstSuccess(f) \in Int /\ FirstSuccess(f) # None
             /\ m \in 0 .. n /\ \A i \in 1 .. n : s[i] < FirstSuccess(f) <=> i <= m
             /\ \A i \in OkAt(runs[f]) : i \in 1 .. n /\ FirstSuccess(f) <= s[i]
             /\ Parts(s, InOutage(f), InRecovery(f), n, m)
             /\ Sized(InOutage(f), m) /\ Sized(InRecovery(f), n - m)
             /\ Len(InOutage(f)) = m /\ Len(InRecovery(f)) = n - m
<1> DEFINE n == Len(runs[f].log)
           s == AttemptTimes(f)
           t == FirstSuccess(f)
           m == CallsBefore(f)
           p == SubSeq(s, 1, m)
           q == SubSeq(s, m + 1, n)
<1>1. /\ n \in Nat \ {0} /\ DOMAIN runs[f].log = 1 .. n
      /\ s \in [1 .. n -> Nat] /\ Ascending(s)
      /\ \A i \in 1 .. n : s[i] = runs[f].log[i].t - T0(f)
  BY AttemptTimesAre
<1>2. t \in Int /\ t # None /\ FirstAt(runs[f], t) /\ None \notin Int
  BY FirstSuccessIs, AnalysisAssumption
<1>3. \A i \in OkAt(runs[f]) : i \in 1 .. n /\ t <= s[i]
  BY <1>1, <1>2 DEF FirstAt, OkAt, T0
<1>4. m = SearchLeft(s, t)
  BY DEF CallsBefore
<1>5. InOutage(f) = p /\ InRecovery(f) = q
  BY <1>2 DEF InOutage, InRecovery
<1> HIDE DEF n, s, t, m
<1>6. m \in 0 .. n /\ \A i \in 1 .. n : s[i] < t <=> i <= m
  BY <1>1, <1>2, <1>4, SearchIsPrefix
<1>7. m \in Nat /\ m <= n /\ n \in Nat /\ m + 1 \in Nat /\ n - m \in Nat
  BY <1>1, <1>6
<1>8. /\ Len(p) = m /\ p \in Seq(Nat) /\ \A i \in 1 .. m : p[i] = s[i]
  <2>1. \A i \in 1 .. m : s[i] \in Nat
    BY <1>1, <1>7
  <2>2. /\ p \in Seq(Nat) /\ Len(p) = IF 1 <= m THEN m - 1 + 1 ELSE 0
        /\ \A i \in 1 .. m - 1 + 1 : p[i] = s[1 + i - 1]
    BY <1>7, <2>1, SubSeqProperties
  <2> HIDE DEF p
  <2>3. m - 1 + 1 = m /\ \A i \in 1 .. m : 1 + i - 1 = i
    BY <1>7
  <2>4. \A i \in 1 .. m : p[i] = s[i]
    BY <2>2, <2>3
  <2> QED
    BY <1>7, <2>2, <2>4
<1>9. /\ Len(q) = n - m /\ q \in Seq(Nat) /\ \A i \in 1 .. n - m : q[i] = s[m + i]
  <2>1. \A i \in m + 1 .. n : s[i] \in Nat
    BY <1>1, <1>7
  <2>2. /\ q \in Seq(Nat) /\ Len(q) = IF m + 1 <= n THEN n - (m + 1) + 1 ELSE 0
        /\ \A i \in 1 .. n - (m + 1) + 1 : q[i] = s[(m + 1) + i - 1]
    BY <1>7, <2>1, SubSeqProperties
  <2> HIDE DEF q
  <2>3. n - (m + 1) + 1 = n - m /\ \A i \in 1 .. n - m : (m + 1) + i - 1 = m + i
    BY <1>7
  <2>4. \A i \in 1 .. n - m : q[i] = s[m + i]
    BY <2>2, <2>3
  <2> QED
    BY <1>7, <2>2, <2>3, <2>4
<1> HIDE DEF p, q
<1>10. p \in [1 .. m -> Nat] /\ q \in [1 .. n - m -> Nat]
  BY <1>7, <1>8, <1>9
<1>11. Sized(p, m) /\ Sized(q, n - m)
  <2>1. (m = 0 <=> p = <<>>) /\ (n - m = 0 <=> q = <<>>)
    BY <1>8, <1>9
  <2> QED
    BY <1>10, <2>1 DEF Sized
<1>12. Parts(s, p, q, n, m)
  BY <1>1, <1>6, <1>7, <1>8, <1>9, <1>10 DEF Parts
<1> QED
  BY <1>2, <1>3, <1>5, <1>6, <1>8, <1>9, <1>11, <1>12 DEF n, s, t, m

\* The peaks before and from the first success agree with the peak of all, and if
\* all successes are in one window the latter is no less than what was delivered.
LEMMA PeaksAgree ==
  ASSUME NEW f, Truthful(runs[f]), runs[f].log # <<>>
  PROVE  LET o == RunRecord(f)
             all == SlidingPeak(AttemptTimes(f))
         IN  IF OkAt(runs[f]) = {}
               THEN o.peak = None /\ o.callsBefore = Len(runs[f].log) /\ o.peakBefore = all
               ELSE /\ o.peak # None
                    /\ GreaterOf(o.peak, o.peakBefore) <= all /\ all <= o.peak + o.peakBefore
                    /\ o.callsBefore + Len(InRecovery(f)) = Len(runs[f].log)
                    /\ runs[f].strategy = "exp" /\ o.spread[2] - o.spread[1] < Window
                         => o.peak >= o.delivered
<1> DEFINE n == Len(runs[f].log)
           s == AttemptTimes(f)
           o == RunRecord(f)
           all == SlidingPeak(s)
<1>1. LogHolds(runs[f]) /\ Window \in Nat \ {0} /\ None \notin Int
  BY AnalysisAssumption DEF Truthful
<1>2. /\ o.delivered = runs[f].sent
      /\ o.callsBefore = Len(InOutage(f)) /\ o.peakBefore = SlidingPeak(InOutage(f))
      /\ o.peak = IF FirstSuccess(f) # None THEN SlidingPeak(InRecovery(f)) ELSE None
      /\ runs[f].strategy = "exp" =>
           o.spread = <<FirstSuccess(f), Max(Times(f, Successes(f)))>>
  BY RecordFields
<1>3. n \in Nat \ {0} /\ Sized(s, n) /\ Ascending(s) /\ s \in [1 .. n -> Nat]
  BY <1>1, AttemptTimesAre
<1> HIDE DEF o
<1>4. CASE OkAt(runs[f]) = {}
  <2>1. FirstSuccess(f) = None
    BY <1>1, <1>4, FirstSuccessIs
  <2>2. InOutage(f) = s
    BY <2>1 DEF InOutage
  <2>3. Len(s) = n
    <3> HIDE DEF s, n
    <3> QED
      BY <1>3
  <2> QED
    BY <1>2, <1>4, <2>1, <2>2, <2>3 DEF o
<1>5. CASE OkAt(runs[f]) # {}
  <2> DEFINE t == FirstSuccess(f)
             m == CallsBefore(f)
             p == InOutage(f)
             q == InRecovery(f)
  <2>1. /\ t \in Int /\ t # None
        /\ m \in 0 .. n /\ \A i \in 1 .. n : s[i] < t <=> i <= m
        /\ \A i \in OkAt(runs[f]) : i \in 1 .. n /\ t <= s[i]
        /\ Parts(s, p, q, n, m) /\ Sized(p, m) /\ Sized(q, n - m)
        /\ Len(p) = m /\ Len(q) = n - m
    BY <1>1, <1>5, RecoveryParts
  <2>2. o.peak = SlidingPeak(q) /\ o.peakBefore = SlidingPeak(p) /\ o.callsBefore = m
    BY <1>2, <2>1
  <2>3. Successes(f) = OkAt(runs[f]) /\ T0(f) \in Nat
        /\ \A i \in 1 .. n : s[i] = runs[f].log[i].t - T0(f)
    BY <1>1, TimesOfLog, AttemptTimesAre
  <2>4. runs[f].sent <= Cardinality(OkAt(runs[f])) /\ runs[f].sent \in Nat
    BY DEF Truthful, BooksHold
  <2> HIDE DEF n, s, t, m, p, q
  <2>5. /\ SlidingPeak(p) \in Nat /\ SlidingPeak(q) \in Nat /\ SlidingPeak(s) \in Nat
        /\ SlidingPeak(p) <= SlidingPeak(s) /\ SlidingPeak(q) <= SlidingPeak(s)
        /\ SlidingPeak(s) <= SlidingPeak(q) + SlidingPeak(p)
        /\ \A x \in Int : InWindow(q, x) <= SlidingPeak(q)
    BY <1>1, <1>3, <2>1, PeakOfParts
  <2>6. /\ GreaterOf(o.peak, o.peakBefore) <= all /\ all <= o.peak + o.peakBefore
    BY <2>2, <2>5 DEF GreaterOf
  <2>7. o.callsBefore + Len(q) = n
    BY <1>3, <2>1, <2>2
  <2>8. o.peak # None
    BY <1>1, <2>2, <2>5
  <2>9. ASSUME runs[f].strategy = "exp", o.spread[2] - o.spread[1] < Window
        PROVE  o.peak >= o.delivered
    <3> DEFINE S == OkAt(runs[f])
               V == Times(f, S)
               x == [i \in S |-> s[i]]
    <3>1. o.spread[1] = t /\ o.spread[2] = Max(V)
      BY <1>2, <2>3, <2>9 DEF t
    <3>2. IsFiniteSet(1 .. n) /\ S \in SUBSET (1 .. n)
      <4>1. 1 \in Int /\ n \in Int
        BY <1>3
      <4> QED
        BY <2>1, <4>1, FS_Interval
    <3>3. V = {x[i] : i \in S}
      <4>1. \A i \in S : x[i] = runs[f].log[i].t - T0(f)
        BY <2>3, <3>2
      <4> QED
        BY <4>1 DEF Times
    <3>4. \A i \in S : x[i] = s[i] /\ x[i] \in Int
      BY <1>3, <3>2
    <3> HIDE DEF x, V
    <3>5. IsFiniteSet(S) /\ S # {}
      BY <1>5, <3>2, FS_Subset
    <3>6. Max(V) \in Int /\ \A i \in S : x[i] <= Max(V)
      <4>1. \A i \in S : x[i] \in Int
        BY <3>4
      <4> HIDE DEF S
      <4>2. Max({x[i] : i \in S}) \in Int /\ \A i \in S : x[i] <= Max({x[j] : j \in S})
        BY <3>5, <4>1, LeastGreatest
      <4> QED
        BY <3>3, <4>2
    <3>7. \A i \in S : i \in 1 .. n /\ t <= s[i] /\ s[i] < t + Window
      <4> SUFFICES ASSUME NEW i \in S PROVE i \in 1 .. n /\ t <= s[i] /\ s[i] < t + Window
        OBVIOUS
      <4>1. i \in 1 .. n /\ t <= s[i] /\ s[i] \in Int /\ s[i] <= Max(V)
        BY <2>1, <3>4, <3>6
      <4>2. Max(V) - t < Window
        BY <2>9, <3>1
      <4> QED
        BY <1>1, <2>1, <3>6, <4>1, <4>2
    <3> DEFINE W == {i \in 1 .. n : t <= s[i] /\ s[i] < t + Window}
               E == {i \in 1 .. m : t <= p[i] /\ p[i] < t + Window}
    <3>8. InWindow(s, t) = Cardinality(W) /\ S \in SUBSET W /\ W \in SUBSET (1 .. n)
      <4>1. DOMAIN s = 1 .. n
        BY <1>3
      <4> QED
        BY <3>7, <4>1 DEF InWindow
    <3>9. InWindow(p, t) = 0
      <4>1. DOMAIN p = 1 .. m
        BY <2>1 DEF Sized
      <4>2. InWindow(p, t) = Cardinality(E)
        BY <4>1 DEF InWindow
      <4>3. \A i \in 1 .. m : ~(t <= p[i])
        <5> SUFFICES ASSUME NEW i \in 1 .. m PROVE ~(t <= p[i])
          OBVIOUS
        <5>1. i \in 1 .. n /\ i <= m /\ p[i] = s[i]
          BY <1>3, <2>1 DEF Parts
        <5>2. s[i] < t /\ s[i] \in Nat
          BY <1>3, <2>1, <5>1
        <5> QED
          BY <2>1, <5>1, <5>2
      <4>4. E = {}
        BY <4>3
      <4> QED
        BY <4>2, <4>4, FS_EmptySet
    <3>10. InWindow(s, t) = InWindow(p, t) + InWindow(q, t) /\ InWindow(q, t) \in Nat
      BY <2>1, WindowOfParts
    <3> HIDE DEF W, S
    <3>11. IsFiniteSet(W) /\ Cardinality(S) <= Cardinality(W) /\ Cardinality(S) \in Nat
      <4>1. IsFiniteSet(W)
        BY <3>2, <3>8, FS_Subset
      <4> QED
        BY <3>5, <3>8, <4>1, FS_Subset, FS_CardinalityType
    <3>12. InWindow(q, t) <= SlidingPeak(q)
      BY <2>1, <2>5
    <3>13. o.delivered <= Cardinality(S) /\ o.delivered \in Nat
      BY <1>2, <2>4 DEF S
    <3> QED
      BY <2>2, <2>5, <3>8, <3>9, <3>10, <3>11, <3>12, <3>13
  <2> QED
    BY <1>5, <2>6, <2>7, <2>8, <2>9 DEF o, n, q, s
<1> QED
  BY <1>4, <1>5

\* The attempts of the exponential wave that succeeded are no fewer than its
\* deliveries, in a settled run as many, and if no attempt was late and nothing failed
\* besides the outage they are those the schedule puts first after the recovery.
LEMMA IndexAgrees ==
  ASSUME NEW f, Truthful(runs[f]), runs[f].log # <<>>, runs[f].budget = OutageAttempts,
         runs[f].strategy = "exp"
  PROVE  LET x == SuccessIndex(f) IN
         /\ DOMAIN x = 1 .. OutageAttempts
         /\ runs[f].sent <= Total(x, DOMAIN x)
         /\ runs[f].open = 0 /\ runs[f].orderly => Total(x, DOMAIN x) = runs[f].sent
         /\ runs[f].prompt /\ runs[f].failure = 0 =>
              \A i \in DOMAIN x : x[i] > 0 =>
                /\ runs[f].up - runs[f].log[1].t <= ExpSum[i - 1]
                /\ i > 1 => ExpSum[i - 2] < runs[f].up - runs[f].log[1].t
<1> DEFINE D == OkAt(runs[f])
           S == 1 .. OutageAttempts
           c == [j \in D |-> NthIn(runs[f], j)]
           x == SuccessIndex(f)
           w == runs[f].up - runs[f].log[1].t
           Of(i) == ClassOf(c, D, i)
<1>1. /\ LogHolds(runs[f]) /\ OutageAttempts \in Nat \ {0}
      /\ runs[f].sent <= Cardinality(D)
      /\ runs[f].open = 0 /\ runs[f].orderly => runs[f].sent = Cardinality(D)
      /\ \A h \in D : NthIn(runs[f], h) \in S
  BY AnalysisAssumption DEF Truthful, BooksHold, OrderHolds
<1>2. /\ Successes(f) = D /\ IsFiniteSet(DOMAIN runs[f].log) /\ D \in SUBSET DOMAIN runs[f].log
  BY <1>1, TimesOfLog DEF OkAt
<1>3. \A j : AttemptNo(f, j) = NthIn(runs[f], j)
  BY DEF AttemptNo, NthIn
<1>4. \A i : {j \in Successes(f) : AttemptNo(f, j) = i} = Of(i)
  BY <1>2, <1>3 DEF ClassOf
<1>5. x = [i \in S |-> Cardinality(Of(i))]
  BY <1>4 DEF SuccessIndex
<1>6. IsFiniteSet(D)
  BY <1>2, FS_Subset
<1>7. IsFiniteSet(S)
  <2>1. 1 \in Int /\ OutageAttempts \in Int
    BY <1>1
  <2> QED
    BY <2>1, FS_Interval
<1>8. \A d \in D : c[d] \in S /\ c[d] = NthIn(runs[f], d)
  BY <1>1
<1>9. \A i : Of(i) \in SUBSET D
  BY DEF ClassOf
<1> HIDE DEF D, S, c, x
<1>10. \A i \in S : x[i] = Cardinality(Of(i)) /\ x[i] \in Nat
  <2>1. \A i : IsFiniteSet(Of(i))
    BY <1>6, <1>9, FS_Subset
  <2> QED
    BY <1>5, <2>1, FS_CardinalityType
<1>11. DOMAIN x = S
  BY <1>5
<1>12. Total(x, S) = Cardinality(D)
  <2>1. \A i \in S : x[i] \in Int
    BY <1>10
  <2>2. \A i \in S : x[i] = Cardinality(ClassOf(c, D, i))
    BY <1>10
  <2>3. PICK e : SumsOver(e, x, S) /\ Total(x, S) = e[S]
    BY <1>7, <2>1, TotalIsSum
  <2>4. \A d \in D : c[d] \in S
    BY <1>8
  <2>5. e[S] = Cardinality(D)
    BY <1>6, <1>7, <2>2, <2>3, <2>4, ClassesCount
  <2> QED
    BY <2>3, <2>5
<1>13. ASSUME runs[f].prompt, runs[f].failure = 0, NEW i \in S, x[i] > 0
       PROVE  w <= ExpSum[i - 1] /\ (i > 1 => ExpSum[i - 2] < w)
  <2>1. Of(i) # {}
    <3>1. x[i] = Cardinality(Of(i)) /\ x[i] # 0
      BY <1>10, <1>13
    <3> QED
      BY <3>1, FS_EmptySet
  <2>2. PICK h \in D : NthIn(runs[f], h) = i
    BY <1>8, <2>1 DEF ClassOf
  <2>3. \A g \in D : /\ w <= ExpSum[NthIn(runs[f], g) - 1]
                     /\ NthIn(runs[f], g) > 1 => ExpSum[NthIn(runs[f], g) - 2] < w
    BY <1>13 DEF Truthful, OrderHolds, D
  <2> QED
    BY <2>2, <2>3
<1>14. /\ DOMAIN x = S /\ runs[f].sent <= Total(x, DOMAIN x)
       /\ runs[f].open = 0 /\ runs[f].orderly => Total(x, DOMAIN x) = runs[f].sent
       /\ runs[f].prompt /\ runs[f].failure = 0 =>
            \A i \in DOMAIN x : x[i] > 0 => w <= ExpSum[i - 1] /\ (i > 1 => ExpSum[i - 2] < w)
  BY <1>1, <1>11, <1>12, <1>13
<1> QED
  BY <1>14 DEF x, S

\* The three counts of a run's load agree.
LEMMA RunLoads ==
  ASSUME Told, Known, JustDerived, NEW f \in Outages(loaded)
  PROVE  RunLoadAgrees(f)
<1> DEFINE o == outageRuns[f]
           B == Bins(f)
           s == AttemptTimes(f)
<1>1. /\ f \in loaded /\ runs[f].recover > 0 /\ Truthful(runs[f])
      /\ runs[f].log # <<>> /\ runs[f].budget = OutageAttempts
      /\ OwnWindow(f) \in Int /\ OwnWindow(f) = runs[f].up - runs[f].log[1].t
      /\ OkAt(runs[f]) = {} => runs[f].strategy # "exp"
  BY OwnWindowIs DEF Recorded, Outages, IsOutage
<1>2. o = RunRecord(f)
  <2>1. AreRecords(outageRuns)
    BY OutputNames DEF JustDerived, Known
  <2> QED
    BY <1>1, <2>1 DEF AreRecords
<1>3. LogHolds(runs[f])
  BY <1>1 DEF Truthful
<1>4. /\ Total(B, DOMAIN B) = Len(runs[f].log)
      /\ \A b \in DOMAIN B : B[b] <= SlidingPeak(s)
      /\ \E b \in DOMAIN B :
           SlidingPeak(s) <= B[b] + (IF b + 1 \in DOMAIN B THEN B[b + 1] ELSE 0)
  BY <1>1, <1>3, BinsAgree
<1>5. IF OkAt(runs[f]) = {}
        THEN o.peak = None /\ o.callsBefore = Len(runs[f].log) /\ o.peakBefore = SlidingPeak(s)
        ELSE /\ o.peak # None
             /\ GreaterOf(o.peak, o.peakBefore) <= SlidingPeak(s)
             /\ SlidingPeak(s) <= o.peak + o.peakBefore
             /\ o.callsBefore + Len(InRecovery(f)) = Len(runs[f].log)
             /\ runs[f].strategy = "exp" /\ o.spread[2] - o.spread[1] < Window
                  => o.peak >= o.delivered
  BY <1>1, <1>2, PeaksAgree
<1>6. IF o.peak = None
        THEN o.callsBefore = Calls(f) /\ o.peakBefore = SlidingPeak(s)
        ELSE /\ GreaterOf(o.peak, o.peakBefore) <= SlidingPeak(s)
             /\ SlidingPeak(s) <= o.peak + o.peakBefore
             /\ o.callsBefore + Len(InRecovery(f)) = Calls(f)
  <2> HIDE DEF o, s
  <2> QED
    BY <1>5 DEF Calls
<1>7. ASSUME runs[f].strategy = "exp"
      PROVE  /\ o.delivered <= Total(o.index, DOMAIN o.index)
             /\ Settled(f) => Total(o.index, DOMAIN o.index) = o.delivered
             /\ o.spread[2] - o.spread[1] < Window => o.peak >= o.delivered
             /\ runs[f].prompt /\ runs[f].failure = 0 =>
                  \A i \in DOMAIN o.index : o.index[i] > 0 =>
                    /\ ExpSchedule[i] >= OwnWindow(f)
                    /\ i > 1 => ExpSchedule[i - 1] < OwnWindow(f)
  <2>1. o.index = SuccessIndex(f) /\ o.delivered = runs[f].sent
    BY <1>2, <1>7, RecordFields
  <2>2. /\ DOMAIN o.index = 1 .. OutageAttempts
        /\ o.delivered <= Total(o.index, DOMAIN o.index)
        /\ Settled(f) => Total(o.index, DOMAIN o.index) = o.delivered
        /\ runs[f].prompt /\ runs[f].failure = 0 =>
             \A i \in DOMAIN o.index : o.index[i] > 0 =>
               /\ OwnWindow(f) <= ExpSum[i - 1]
               /\ i > 1 => ExpSum[i - 2] < OwnWindow(f)
    BY <1>1, <1>7, <2>1, IndexAgrees DEF Settled
  <2>3. o.spread[2] - o.spread[1] < Window => o.peak >= o.delivered
    <3> HIDE DEF o
    <3> QED
      BY <1>1, <1>5, <1>7
  <2>4. \A i \in 1 .. OutageAttempts :
          /\ ExpSchedule[i] = ExpSum[i - 1] /\ ExpSum[i - 1] \in Nat
          /\ i > 1 => ExpSchedule[i - 1] = ExpSum[i - 2] /\ ExpSum[i - 2] \in Nat
    <3> SUFFICES ASSUME NEW i \in 1 .. OutageAttempts
                 PROVE  /\ ExpSchedule[i] = ExpSum[i - 1] /\ ExpSum[i - 1] \in Nat
                        /\ i > 1 => ExpSchedule[i - 1] = ExpSum[i - 2] /\ ExpSum[i - 2] \in Nat
      OBVIOUS
    <3>1. i \in Nat /\ i - 1 \in Nat /\ (i > 1 => i - 2 \in Nat /\ i - 1 \in 1 .. OutageAttempts
                                               /\ (i - 1) - 1 = i - 2)
      BY AnalysisAssumption
    <3> QED
      BY <3>1, ExpSumFacts DEF ExpSchedule
  <2> HIDE DEF o
  <2> QED
    BY <1>1, <2>2, <2>3, <2>4
<1>8. LET r == outageRuns[f]
          B1 == Bins(f)
          all == SlidingPeak(AttemptTimes(f))
      IN  /\ Total(B1, DOMAIN B1) = Calls(f)
          /\ \A b \in DOMAIN B1 : B1[b] <= all
          /\ \E b \in DOMAIN B1 : all <= B1[b] + (IF b + 1 \in DOMAIN B1 THEN B1[b + 1] ELSE 0)
          /\ IF r.peak = None
               THEN r.callsBefore = Calls(f) /\ r.peakBefore = all
               ELSE /\ GreaterOf(r.peak, r.peakBefore) <= all /\ all <= r.peak + r.peakBefore
                    /\ r.callsBefore + Len(InRecovery(f)) = Calls(f)
          /\ runs[f].strategy = "exp" =>
               /\ LET deliveries == Total(r.index, DOMAIN r.index) IN
                    r.delivered <= deliveries /\ (Settled(f) => deliveries = r.delivered)
               /\ r.spread[2] - r.spread[1] < Window => r.peak >= r.delivered
               /\ runs[f].prompt /\ runs[f].failure = 0 =>
                    \A i \in DOMAIN r.index : r.index[i] > 0 =>
                      /\ ExpSchedule[i] >= OwnWindow(f)
                      /\ i > 1 => ExpSchedule[i - 1] < OwnWindow(f)
  BY <1>4, <1>6, <1>7 DEF Calls
<1> QED
  BY <1>8 DEF RunLoadAgrees, Total

\* What stays of the retries of the runs of X, as the records count them.
RetriesOf(X) == MapThenSumSet(LAMBDA f : outageRuns[f].retries, X)

\* The counts of the summary and the load are sums.
LEMMA LoadSums ==
  ASSUME NEW X, IsFiniteSet(X), NEW s,
         \A f \in X : /\ runs[f].retries \in Nat /\ runs[f].dead \in Nat
                      /\ outageRuns[f].callsBefore \in Nat /\ outageRuns[f].retries \in Int
  PROVE  /\ \E e : SumsOver(e, [f \in X |-> runs[f].retries], X) /\ SummaryRow(X).failed = e[X]
         /\ \E e : SumsOver(e, [f \in X |-> runs[f].dead], X) /\ SummaryRow(X).dead = e[X]
         /\ \E e : SumsOver(e, [f \in X |-> outageRuns[f].retries], X) /\ RetriesOf(X) = e[X]
         /\ X = RunsOf(loaded, s) =>
              \E e : /\ SumsOver(e, [f \in X |-> outageRuns[f].callsBefore], X)
                     /\ Load(loaded, s).before = e[X]
<1>1. \A part \in SUBSET X : part # {} => Some(part) \in X
  BY DEF Some
<1>2. \E e : SumsOver(e, [f \in X |-> runs[f].retries], X) /\ SummaryRow(X).failed = e[X]
  <2> DEFINE g == [f \in X |-> runs[f].retries]
             Rec(e) == e = [part \in SUBSET X |-> IF part = {} THEN 0
                                               ELSE runs[Some(part)].retries + e[part \ {Some(part)}]]
  <2>1. SummaryRow(X).failed = (CHOOSE e : Rec(e))[X]
    BY DEF SummaryRow, MapThenSumSet, MapThenFoldSet, Some
  <2>2. \A f \in X : g[f] \in Nat /\ g[f] = runs[f].retries
    OBVIOUS
  <2> SUFFICES \E e : SumsOver(e, g, X) /\ SummaryRow(X).failed = e[X]
    OBVIOUS
  <2> HIDE DEF g
  <2>3. \A e : Rec(e) <=> SumsOver(e, g, X)
    BY <1>1, <2>2 DEF SumsOver
  <2>4. \E e : SumsOver(e, g, X)
    BY <2>2, SumsExist
  <2> HIDE DEF Rec
  <2> QED
    BY <2>1, <2>3, <2>4
<1>3. \E e : SumsOver(e, [f \in X |-> runs[f].dead], X) /\ SummaryRow(X).dead = e[X]
  <2> DEFINE g == [f \in X |-> runs[f].dead]
             Rec(e) == e = [part \in SUBSET X |-> IF part = {} THEN 0
                                               ELSE runs[Some(part)].dead + e[part \ {Some(part)}]]
  <2>1. SummaryRow(X).dead = (CHOOSE e : Rec(e))[X]
    BY DEF SummaryRow, MapThenSumSet, MapThenFoldSet, Some
  <2>2. \A f \in X : g[f] \in Nat /\ g[f] = runs[f].dead
    OBVIOUS
  <2> SUFFICES \E e : SumsOver(e, g, X) /\ SummaryRow(X).dead = e[X]
    OBVIOUS
  <2> HIDE DEF g
  <2>3. \A e : Rec(e) <=> SumsOver(e, g, X)
    BY <1>1, <2>2 DEF SumsOver
  <2>4. \E e : SumsOver(e, g, X)
    BY <2>2, SumsExist
  <2> HIDE DEF Rec
  <2> QED
    BY <2>1, <2>3, <2>4
<1>4. \E e : SumsOver(e, [f \in X |-> outageRuns[f].retries], X) /\ RetriesOf(X) = e[X]
  <2> DEFINE g == [f \in X |-> outageRuns[f].retries]
             Rec(e) == e = [part \in SUBSET X |-> IF part = {} THEN 0
                                               ELSE outageRuns[Some(part)].retries + e[part \ {Some(part)}]]
  <2>1. RetriesOf(X) = (CHOOSE e : Rec(e))[X]
    BY DEF RetriesOf, MapThenSumSet, MapThenFoldSet, Some
  <2>2. \A f \in X : g[f] \in Int /\ g[f] = outageRuns[f].retries
    OBVIOUS
  <2> SUFFICES \E e : SumsOver(e, g, X) /\ RetriesOf(X) = e[X]
    OBVIOUS
  <2> HIDE DEF g
  <2>3. \A e : Rec(e) <=> SumsOver(e, g, X)
    BY <1>1, <2>2 DEF SumsOver
  <2>4. \E e : SumsOver(e, g, X)
    BY <2>2, SumsExist
  <2> HIDE DEF Rec
  <2> QED
    BY <2>1, <2>3, <2>4
<1>5. ASSUME X = RunsOf(loaded, s)
      PROVE  \E e : /\ SumsOver(e, [f \in X |-> outageRuns[f].callsBefore], X)
                    /\ Load(loaded, s).before = e[X]
  <2> DEFINE g == [f \in X |-> outageRuns[f].callsBefore]
             Rec(e) == e = [part \in SUBSET X |->
                              IF part = {} THEN 0
                              ELSE outageRuns[Some(part)].callsBefore + e[part \ {Some(part)}]]
  <2>1. Load(loaded, s).before = (CHOOSE e : Rec(e))[X]
    BY <1>5 DEF Load, MapThenSumSet, MapThenFoldSet, Some
  <2>2. \A f \in X : g[f] \in Nat /\ g[f] = outageRuns[f].callsBefore
    OBVIOUS
  <2> SUFFICES \E e : SumsOver(e, g, X) /\ Load(loaded, s).before = e[X]
    OBVIOUS
  <2> HIDE DEF g
  <2>3. \A e : Rec(e) <=> SumsOver(e, g, X)
    BY <1>1, <2>2 DEF SumsOver
  <2>4. \E e : SumsOver(e, g, X)
    BY <2>2, SumsExist
  <2> HIDE DEF Rec
  <2> QED
    BY <2>1, <2>3, <2>4
<1> QED
  BY <1>2, <1>3, <1>4, <1>5

\* The calls before the first success failed; if nothing fails besides the outage
\* they are all that failed, and the rows count no more of them than that, in a
\* settled run no fewer.
LEMMA BeforeFirstSuccess ==
  ASSUME NEW f, Truthful(runs[f]), runs[f].log # <<>>
  PROVE  LET o == RunRecord(f)
             r == runs[f]
         IN  /\ o.callsBefore \in Nat /\ r.retries \in Nat
             /\ r.failure = 0 => r.retries <= o.callsBefore
             /\ o.peak = None => r.sent = 0
             /\ r.sent \in Nat /\ r.dead \in Nat /\ r.n \in Nat /\ o.retries \in Int
             /\ r.open = 0 /\ r.orderly =>
                  /\ o.callsBefore <= r.retries
                  /\ r.sent + r.dead = r.n /\ r.retries = o.retries + r.dead
<1> DEFINE o == RunRecord(f)
           L == runs[f].log
           n == Len(L)
           T == FailedAt(runs[f])
<1>1. LogHolds(runs[f])
  BY DEF Truthful
<1>2. LET ok == Cardinality(OkAt(runs[f]))
          failed == Cardinality(T)
      IN  /\ runs[f].n = N /\ runs[f].sent \in Nat /\ runs[f].dead \in Nat
          /\ runs[f].retries \in Nat /\ ok \in Nat /\ failed \in Nat
          /\ (ok = 0 <=> OkAt(runs[f]) = {}) /\ n = failed + ok
          /\ runs[f].sent <= ok /\ runs[f].retries <= failed
          /\ runs[f].open = 0 /\ runs[f].orderly =>
               /\ runs[f].sent = ok /\ runs[f].retries = failed
               /\ runs[f].sent + runs[f].dead = N
  BY DEF Truthful, BooksHold
<1>3. o.callsBefore = Len(InOutage(f)) /\ o.retries = n - runs[f].n
  BY RecordFields
<1>4. IF OkAt(runs[f]) = {} THEN o.peak = None /\ o.callsBefore = n ELSE o.peak # None
  BY PeaksAgree
<1>5. /\ n \in Nat \ {0} /\ DOMAIN L = 1 .. n /\ IsFiniteSet(DOMAIN L)
      /\ \A i \in 1 .. n : L[i].t \in Nat /\ L[i].ok \in BOOLEAN
  BY <1>1, TimesOfLog
<1>6. N \in Nat
  BY CohortAssumption
<1>7. T \in SUBSET (1 .. n) /\ \A i \in 1 .. n : i \in T <=> i \notin OkAt(runs[f])
  BY <1>5 DEF FailedAt, OkAt
<1> HIDE DEF o, n, T
<1>8. ASSUME OkAt(runs[f]) = {}
      PROVE  o.callsBefore \in Nat /\ o.callsBefore = Cardinality(T)
  <2>1. Cardinality(OkAt(runs[f])) = 0 /\ o.callsBefore = n
    BY <1>2, <1>4, <1>8
  <2> QED
    BY <1>2, <2>1
<1>9. ASSUME OkAt(runs[f]) # {}
      PROVE  /\ o.callsBefore \in Nat /\ o.callsBefore <= Cardinality(T)
             /\ runs[f].failure = 0 => o.callsBefore = Cardinality(T)
  <2> DEFINE m == CallsBefore(f)
             t == FirstSuccess(f)
             s == AttemptTimes(f)
             P1 == 1 .. m
  <2>1. /\ m \in 0 .. n /\ \A i \in 1 .. n : s[i] < t <=> i <= m
        /\ \A i \in OkAt(runs[f]) : i \in 1 .. n /\ t <= s[i]
        /\ Len(InOutage(f)) = m /\ t \in Int
    BY <1>1, <1>9, RecoveryParts DEF n, L
  <2>2. \A i \in 1 .. n : s[i] = L[i].t - T0(f) /\ s[i] \in Nat
    BY <1>1, AttemptTimesAre DEF n
  <2>3. T0(f) = L[1].t /\ T0(f) \in Nat
    BY <1>1, TimesOfLog
  <2>4. PICK j \in OkAt(runs[f]) : t = L[j].t - L[1].t
    BY <1>1, <1>9, FirstSuccessIs DEF FirstAt
  <2> HIDE DEF m, t, s, L
  <2>5. m \in Nat /\ m <= n
    BY <1>5, <2>1
  <2>6. P1 \in SUBSET T
    <3> SUFFICES ASSUME NEW i \in 1 .. m PROVE i \in T
      OBVIOUS
    <3>1. i \in 1 .. n /\ i <= m
      BY <1>5, <2>5
    <3>2. s[i] < t /\ s[i] \in Nat
      BY <2>1, <2>2, <3>1
    <3>3. i \notin OkAt(runs[f])
      BY <2>1, <3>2
    <3> QED
      BY <1>7, <3>1, <3>3
  <2>7. IsFiniteSet(P1) /\ Cardinality(P1) = m
    <3>1. 1 \in Int /\ m \in Int /\ (1 > m => m = 0) /\ m - 1 + 1 = m
      BY <2>5
    <3> QED
      BY <3>1, FS_Interval
  <2>8. IsFiniteSet(T)
    BY <1>5, <1>7, FS_Subset
  <2>9. ASSUME runs[f].failure = 0 PROVE T \in SUBSET P1
    <3> SUFFICES ASSUME NEW i \in T PROVE i \in 1 .. m
      OBVIOUS
    <3>1. i \in 1 .. n /\ j \in 1 .. n
      BY <1>7, <2>1
    <3>2. L[i].t < runs[f].up
      BY <1>1, <2>9 DEF LogHolds, T, L
    <3>3. runs[f].up <= L[j].t
      BY <1>1 DEF LogHolds, L
    <3>4. runs[f].up \in Nat
      BY DeliveredIsLogged
    <3>5. s[i] < t
      <4>1. s[i] = L[i].t - L[1].t /\ t = L[j].t - L[1].t
        BY <2>2, <2>3, <2>4, <3>1
      <4>2. L[i].t \in Nat /\ L[j].t \in Nat /\ L[1].t \in Nat
        BY <1>5, <2>3, <3>1 DEF L
      <4> QED
        BY <3>2, <3>3, <3>4, <4>1, <4>2
    <3> QED
      BY <2>1, <2>5, <3>1, <3>5
  <2> HIDE DEF P1
  <2>10. Cardinality(P1) <= Cardinality(T) /\ Cardinality(T) \in Nat
    BY <2>6, <2>8, FS_Subset, FS_CardinalityType
  <2>11. runs[f].failure = 0 => P1 = T
    BY <2>6, <2>9
  <2> QED
    BY <1>2, <1>3, <2>1, <2>5, <2>7, <2>10, <2>11
<1>10. /\ o.peak = None => runs[f].sent = 0
       /\ o.retries \in Int
       /\ runs[f].open = 0 /\ runs[f].orderly =>
            /\ runs[f].sent + runs[f].dead = runs[f].n
            /\ runs[f].retries = o.retries + runs[f].dead
  <2>1. o.peak = None => runs[f].sent = 0
    BY <1>2, <1>4
  <2>2. o.retries = n - N
    BY <1>2, <1>3
  <2>3. ASSUME runs[f].open = 0, runs[f].orderly
        PROVE  runs[f].sent + runs[f].dead = N /\ n = runs[f].retries + runs[f].sent
    BY <1>2, <2>3
  <2>4. n \in Nat /\ N \in Nat /\ runs[f].n = N
        /\ runs[f].sent \in Nat /\ runs[f].dead \in Nat /\ runs[f].retries \in Nat
    BY <1>2, <1>5, <1>6
  <2>5. o.retries \in Int
    BY <2>2, <2>4
  <2>6. ASSUME runs[f].open = 0, runs[f].orderly
        PROVE  /\ runs[f].sent + runs[f].dead = runs[f].n
               /\ runs[f].retries = o.retries + runs[f].dead
    <3>1. runs[f].sent + runs[f].dead = N /\ n = runs[f].retries + runs[f].sent
      BY <2>3, <2>6
    <3> QED
      BY <2>2, <2>4, <3>1
  <2> QED
    BY <2>1, <2>5, <2>6
<1>11. /\ o.callsBefore \in Nat /\ o.callsBefore <= Cardinality(T)
       /\ runs[f].failure = 0 => o.callsBefore = Cardinality(T)
  BY <1>2, <1>8, <1>9
<1>12. /\ runs[f].failure = 0 => runs[f].retries <= o.callsBefore
       /\ runs[f].open = 0 /\ runs[f].orderly => o.callsBefore <= runs[f].retries
  BY <1>2, <1>11
<1> QED
  BY <1>2, <1>6, <1>10, <1>11, <1>12 DEF o

\* The rows of the summary and the load agree.
LEMMA TablesAreAlike ==
  ASSUME Told, Known, JustDerived, NEW s
  PROVE  TablesAgree(s)
<1> DEFINE X == RunsOf(loaded, s)
           failed == SummaryRow(X).failed
           dead == SummaryRow(X).dead
           before == Load(loaded, s).before
           kept == RetriesOf(X)
           gf == [f \in X |-> runs[f].retries]
           gd == [f \in X |-> runs[f].dead]
           gb == [f \in X |-> outageRuns[f].callsBefore]
           gk == [f \in X |-> outageRuns[f].retries]
           gs == [f \in X |-> runs[f].sent]
           gn == [f \in X |-> runs[f].n]
<1>1. /\ IsFiniteSet(X) /\ X \in SUBSET Outages(loaded)
  <2>1. X \in SUBSET loaded /\ IsFiniteSet(loaded)
    BY DEF RunsOf, Outages, Known
  <2> QED
    BY <2>1, FS_Subset DEF RunsOf
<1>2. \A f \in X :
        /\ outageRuns[f].callsBefore \in Nat /\ runs[f].retries \in Nat
        /\ runs[f].failure = 0 => runs[f].retries <= outageRuns[f].callsBefore
        /\ outageRuns[f].peak = None => runs[f].sent = 0
        /\ runs[f].sent \in Nat /\ runs[f].dead \in Nat /\ runs[f].n \in Nat
        /\ outageRuns[f].retries \in Int
        /\ runs[f].open = 0 /\ runs[f].orderly =>
             /\ outageRuns[f].callsBefore <= runs[f].retries
             /\ runs[f].sent + runs[f].dead = runs[f].n
             /\ runs[f].retries = outageRuns[f].retries + runs[f].dead
  <2> SUFFICES ASSUME NEW f \in X
               PROVE  LET o == outageRuns[f]
                          r == runs[f]
                      IN  /\ o.callsBefore \in Nat /\ r.retries \in Nat
                          /\ r.failure = 0 => r.retries <= o.callsBefore
                          /\ o.peak = None => r.sent = 0
                          /\ r.sent \in Nat /\ r.dead \in Nat /\ r.n \in Nat /\ o.retries \in Int
                          /\ r.open = 0 /\ r.orderly =>
                               /\ o.callsBefore <= r.retries
                               /\ r.sent + r.dead = r.n /\ r.retries = o.retries + r.dead
    OBVIOUS
  <2>1. f \in Outages(loaded)
    BY <1>1
  <2>2. f \in loaded /\ Truthful(runs[f]) /\ runs[f].log # <<>> /\ runs[f].recover > 0
    BY <2>1, OwnWindowIs DEF Recorded, Outages, IsOutage
  <2>3. outageRuns[f] = RunRecord(f)
    <3>1. AreRecords(outageRuns)
      BY OutputNames DEF JustDerived, Known
    <3> QED
      BY <2>2, <3>1 DEF AreRecords
  <2> QED
    BY <2>2, <2>3, BeforeFirstSuccess
<1> HIDE DEF X
<1>3. /\ \A f \in X : /\ runs[f].retries \in Nat /\ runs[f].dead \in Nat
                      /\ outageRuns[f].callsBefore \in Nat /\ outageRuns[f].retries \in Int
      /\ \A f \in X : runs[f].sent \in Nat
      /\ \A f \in X : runs[f].n \in Nat
  BY <1>2
<1>4. PICK ef : SumsOver(ef, gf, X) /\ failed = ef[X]
  BY <1>1, <1>3, LoadSums
<1>5. PICK ed : SumsOver(ed, gd, X) /\ dead = ed[X]
  BY <1>1, <1>3, LoadSums
<1>6. PICK ek : SumsOver(ek, gk, X) /\ kept = ek[X]
  BY <1>1, <1>3, LoadSums
<1>7. PICK eb : SumsOver(eb, gb, X) /\ before = eb[X]
  <2>1. X = RunsOf(loaded, s)
    BY DEF X
  <2> QED
    BY <1>1, <1>3, <2>1, LoadSums, ZenonT(60)
<1>8. PICK es : SumsOver(es, gs, X) /\ SummaryRow(X).sent = es[X]
  <2>1. SummaryRow(X).sent = Sent(X)
    BY DEF SummaryRow
  <2> QED
    BY <1>1, <1>3, <2>1, SentIsSum
<1>9. PICK en : SumsOver(en, gn, X) /\ SummaryRow(X).of = en[X]
  <2>1. SummaryRow(X).of = Reminders(X)
    BY DEF SummaryRow
  <2> QED
    BY <1>1, <1>3, <2>1, RemindersAreSum
<1>10. \A f \in X : /\ gf[f] = runs[f].retries /\ gd[f] = runs[f].dead
                    /\ gb[f] = outageRuns[f].callsBefore /\ gk[f] = outageRuns[f].retries
                    /\ gs[f] = runs[f].sent /\ gn[f] = runs[f].n
  OBVIOUS
<1>12. Load(loaded, s).recovered = Cardinality({f \in X : outageRuns[f].peak # None})
  BY DEF Load, Recovered, X
<1> HIDE DEF failed, dead, kept, before, gf, gd, gb, gk, gs, gn
<1>13. ASSUME \A f \in X : runs[f].failure = 0 PROVE failed <= before
  <2>1. \A f \in X : gb[f] \in Nat /\ gf[f] \in Nat /\ gf[f] <= gb[f]
    BY <1>2, <1>10, <1>13
  <2> QED
    BY <1>1, <1>4, <1>7, <2>1, SumsCompare
<1>14. ASSUME \A f \in X : runs[f].open = 0 /\ runs[f].orderly PROVE before <= failed
  <2>1. \A f \in X : gb[f] \in Nat /\ gf[f] \in Nat /\ gb[f] <= gf[f]
    BY <1>2, <1>10, <1>14
  <2> QED
    BY <1>1, <1>4, <1>7, <2>1, SumsCompare
<1>15. ASSUME Load(loaded, s).recovered = 0 PROVE SummaryRow(X).sent = 0
  <2> DEFINE Y == {f \in X : outageRuns[f].peak # None}
  <2>1. IsFiniteSet(Y) /\ Cardinality(Y) = 0
    BY <1>1, <1>12, <1>15, FS_Subset
  <2>2. Y = {}
    BY <2>1, FS_EmptySet
  <2>3. \A f \in X : gs[f] = 0 /\ gs[f] \in Nat
    BY <1>2, <1>10, <2>2
  <2> QED
    BY <1>1, <1>8, <2>3, SumsGrow
<1>16. ASSUME \A f \in X : Settled(f)
       PROVE  /\ before <= failed
              /\ SummaryRow(X).sent + dead = SummaryRow(X).of
              /\ kept = failed - dead
  <2>1. \A f \in X : runs[f].open = 0 /\ runs[f].orderly
    BY <1>16 DEF Settled
  <2>2. \A f \in X : gs[f] \in Int /\ gd[f] \in Int /\ gn[f] = gs[f] + gd[f]
    BY <1>2, <1>10, <2>1
  <2>3. \A f \in X : gk[f] \in Int /\ gd[f] \in Int /\ gf[f] = gk[f] + gd[f]
    BY <1>2, <1>10, <2>1
  <2>4. en[X] = es[X] + ed[X]
    BY <1>1, <1>5, <1>8, <1>9, <2>2, SumsAdd
  <2>5. ek[X] \in Int /\ ed[X] \in Int /\ ef[X] = ek[X] + ed[X]
    BY <1>1, <1>4, <1>5, <1>6, <2>3, SumsAdd
  <2> QED
    BY <1>4, <1>5, <1>6, <1>8, <1>9, <1>14, <2>1, <2>4, <2>5
<1>17. LET X1 == RunsOf(loaded, s)
           row == SummaryRow(X1)
           load == Load(loaded, s)
       IN  /\ (\A f \in X1 : runs[f].failure = 0) => row.failed <= load.before
           /\ load.recovered = 0 => row.sent = 0
           /\ (\A f \in X1 : Settled(f)) =>
                /\ load.before <= row.failed
                /\ row.sent + row.dead = row.of
                /\ RetriesOf(X1) = row.failed - row.dead
  BY <1>13, <1>14, <1>15, <1>16 DEF X, failed, dead, before, kept
<1> QED
  BY <1>17 DEF TablesAgree, RetriesOf

\* Every count of the load agrees with every other.
THEOREM LoadsAgree == ASSUME Told PROVE StudySpec => []LoadCountsAgree
<1>1. Known => LoadCountsAgree
  <2> SUFFICES ASSUME Known, JustDerived PROVE LoadCountsAgree
    BY DEF LoadCountsAgree
  <2>1. \A f \in Outages(loaded) : RunLoadAgrees(f)
    BY RunLoads
  <2>2. \A s \in Strategies : TablesAgree(s)
    BY TablesAreAlike
  <2> QED
    BY <2>1, <2>2 DEF LoadCountsAgree
<1> QED
  BY <1>1, MemoryIsTrue, PTL
=============================================================================
