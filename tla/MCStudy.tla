------------------------------ MODULE MCStudy -------------------------------
(***************************************************************************)
(* Values of the constants of Study for TLC.  A file is a number, whose    *)
(* digits are the choices its run was made with:                           *)
(*   0 .. 971      outages under the strategies with jitter: strategy, the *)
(*                 draws of three waits, length of the outage, lateness    *)
(*   972 .. 1007   outages under the other strategies                      *)
(*   1008 .. 1055  steady runs: strategy, failure rate, failing calls      *)
(*   1056 .. 1379  outages in which a handler is late or fails, and the    *)
(*                 script reads while the run goes on                      *)
(*   1380 ..       runs that went wrong                                    *)
(***************************************************************************)
EXTENDS StudyNumbers, Cohort

Digit(i, m, d) == (i \div m) % d

Ends == <<11, 17, 23>>
Never == 99

\* When the script makes its reads, all at t or one after another.
Reads(t) ==
  [left |-> t[1], sent |-> t[2], dead |-> t[3], retries |-> t[4], latencies |-> t[5],
   calls |-> t[6]]
ReadsAt(t) == Reads([i \in 1 .. 6 |-> t])

Draws(a, b, c) == <<<<a, b, c>>, <<(a + 1) % 3, c, b>>>>

OutageRun(s, draws, due, up, late, stagger) ==
  [strategy |-> s, failure |-> 0, recover |-> up, budget |-> OutageAttempts, repeat |-> 1,
   due |-> due, draws |-> draws, dice |-> <<0, 0>>, late |-> late, stagger |-> stagger,
   lag |-> <<<<0, 0, 0, 0>>, <<0, 0, 0, 0>>>>, reads |-> ReadsAt(Never), cut |-> Never]

JitteredRun(i) ==
  OutageRun(<<"full_jitter", "equal_jitter", "decorrelated">>[1 + Digit(i, 1, 3)],
            Draws(Digit(i, 3, 3), Digit(i, 9, 3), Digit(i, 27, 3)),
            IF Digit(i, 3, 3) = 1 THEN 4 ELSE 3,
            Ends[1 + Digit(i, 81, 3)], Digit(i, 243, 2), Digit(i, 486, 2))

PlainRun(i) ==
  OutageRun(<<"none", "fixed", "exp">>[1 + Digit(i, 1, 3)], Draws(0, 0, 0), 3,
            Ends[1 + Digit(i, 3, 3)], Digit(i, 9, 2), Digit(i, 18, 2))

Dice == <<<<0, 0>>, <<1, 0>>, <<2, 1>>, <<3, 0>>>>

SteadyRun(i) ==
  LET fails == Dice[1 + Digit(i, 12, 4)] IN
  [OutageRun(<<"none", "exp", "full_jitter", "decorrelated", "equal_jitter", "fixed">>
               [1 + Digit(i, 1, 6)], Draws(1, 2, 0), 3, 0, 0, 1)
     EXCEPT !.failure = IF Digit(i, 6, 2) = 0 THEN 30 ELSE 50,
            !.budget = DefaultAttempts, !.dice = fails]

\* The first reminder's writes in time, after another attempt or never, in an outage
\* that ends or does not.  Exponential attempts are made at 3, 7, 15 and 27.
LaggingRun(i) ==
  LET run == IF Digit(i, 1, 2) = 0 THEN PlainRun(2) ELSE JitteredRun(1)
      Lag(m) == <<0, 9, Never>>[1 + Digit(i, m, 3)]
      read == 1 + Digit(i, 108, 3)
  IN  [run EXCEPT !.recover = IF Digit(i, 2, 2) = 0 THEN 11 ELSE 60,
         !.lag = <<<<Lag(4), Lag(12), Lag(36), Lag(36)>>, @[2]>>,
         !.reads = <<@, Reads(<<6, 6, 7, 8, 16, 16>>), Reads(<<14, 15, 16, 16, 17, 28>>)>>[read],
         !.cut = <<@, 16, 40>>[read]]

WrongRuns ==
  LET jit == JitteredRun(1)   \* equal_jitter
      exp == PlainRun(2)
  IN <<[jit EXCEPT !.cut = 9, !.reads = ReadsAt(9)],  \* out of time after the first failures
       [exp EXCEPT !.cut = 9, !.reads = ReadsAt(9)],
       [jit EXCEPT !.recover = 2],  \* up before the first attempt
       [jit EXCEPT !.recover = 60], \* out of every reach
       [exp EXCEPT !.recover = 60],
       [jit EXCEPT !.cut = 1, !.reads = ReadsAt(1)],  \* nothing logged
       [jit EXCEPT !.budget = DefaultAttempts],
       [jit EXCEPT !.failure = 30, !.dice = <<3, 0>>],
       [jit EXCEPT !.failure = 30, !.recover = 5, !.dice = <<3, 3>>]>>  \* fails after it is up

ChoicesOf(i) ==
  IF i < 972 THEN JitteredRun(i)
  ELSE IF i < 1008 THEN PlainRun(i - 972)
  ELSE IF i < 1056 THEN SteadyRun(i - 1008)
  ELSE IF i < 1380 THEN LaggingRun(i - 1056)
  ELSE WrongRuns[i - 1379]

MCFiles == 0 .. 1379 + Len(WrongRuns)
MCResultOf(i) == ResultFile(ChoicesOf(i))

\* The choices are such as a run can be made with.
ASSUME ChoicesAssumption == \A i \in MCFiles : IsRun(ChoicesOf(i))

-----------------------------------------------------------------------------

\* Steady runs: strategy a (from 0), rate b, failing calls c.
Steady(a, b, c) == 1008 + a + 6 * b + 12 * c

\* The plain run of strategy a with the outage and lateness of jittered run i.
PlainLike(i, a) == 972 + a + 3 * Digit(i, 81, 3) + 9 * Digit(i, 243, 4)

\* Another draw, and the next strategy, in the same outage.
OtherLike(i) == (i \div 81) * 81 + (((i % 81) * 7 + 4) % 81)

Analysed(done) ==
  [list |-> <<>>, done |-> done, env |-> "matching", sweeps |-> MaxSweeps, analyses |-> MaxAnalyses - 1]

\* Every jittered run beside a plain one; those that were on time also beside
\* another jittered one.
Outaged ==
  {Analysed({Steady(0, 0, 1), i, PlainLike(i, (Digit(i, 3, 3) + Digit(i, 9, 3)) % 3)}) :
     i \in 0 .. 971} \cup
  {Analysed({Steady(0, 0, 1), i, OtherLike(i)}) : i \in 0 .. 242}

Base3 == {1, 82, PlainLike(1, 2)}

SteadyPlans ==
  {Analysed(Base3 \cup {Steady(s, b, (c + s * d) % 4) : s \in 0 .. 3, b \in B}) :
     c \in 0 .. 3, d \in 0 .. 1, B \in {{0}, {1}, {0, 1}}} \cup
  {Analysed(Base3 \cup {Steady(s, 0, c) : s \in 0 .. 3, c \in C}) : C \in SUBSET (0 .. 3)}

WrongPlans ==
  {Analysed({Steady(0, 0, 1), 1, PlainLike(1, 2), x}) : x \in 1056 .. 1379 + Len(WrongRuns)} \cup
  {Analysed({Steady(0, 0, 1), 1380 + 3, 1380 + 4}), Analysed({Steady(0, 0, 1)}),
   [Analysed({1, PlainLike(1, 2)}) EXCEPT !.env = "absent"]}

\* A sweep from nothing, while the analysis is run beside it once or, without the
\* analysis and with the run of the second slot done, started a second time.
Fresh(e, swept, done) ==
  [list |-> <<Steady(0, 0, 1), 1, PlainLike(1, 2)>>, done |-> {}, env |-> e,
   sweeps |-> swept, analyses |-> done]

FreshPlans ==
  {Fresh("matching", MaxSweeps - 1, MaxAnalyses - 1), Fresh("drifted", MaxSweeps - 1, MaxAnalyses - 1),
   [Fresh("matching", MaxSweeps - 2, MaxAnalyses) EXCEPT !.done = {1}]}

MCPlans == Outaged \cup SteadyPlans \cup WrongPlans \cup FreshPlans
=============================================================================
