SPECIFICATION MCSpec
CONSTANTS
  r1 = r1
  r2 = r2
  f1 = f1
  None = None
  Keys <- MCKeys
  FreshJobs = {f1}
  Jobs <- MCJobs
  Words <- MCWords
  Base = 2
  Cap = 3
  MaxAttempts = 3
  Grid = 2
  MaxRestarts = 1
  RecoverAfter = 4
  LogLimit = 3
  Due = 2
  Window = 2
  MaxNow = 7
  MaxLate = 0
  MaxWrites = 2
  MaxSlips = 1
INVARIANTS
  BooksBalance
  OutageTypeOK
  GivenUpFellShort
  SizingRule
  WordsKeepTheirPromise
  PeakIsWorstWindow
CHECK_DEADLOCK FALSE
