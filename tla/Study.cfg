SPECIFICATION StudySpec
CONSTANTS
  None = None
  N = 2
  Lead = 2
  Base = 4
  Cap = 12
  Grid = 3
  Window = 4
  OutageAttempts = 4
  DefaultAttempts = 3
  P = 2
  MaxSweeps = 2
  MaxAnalyses = 1
  Files <- MCFiles
  ResultOf <- MCResultOf
  Plans <- MCPlans
INVARIANTS
  RecoveryInBracket
  SurvivesByItsWaits
  ReachIsSurvival
  LoadCountsAgree
  PercentilesRank
  ChecksFindUnfinished
  CompleteSweepIsAnalysed
  OutputsInStep
  OwnRowsOnly
  SweepCovers
CHECK_DEADLOCK FALSE
