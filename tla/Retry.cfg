SPECIFICATION FairSpec
CONSTANTS
  Events = {e1}
  FreshJobs = {}
  Calls = {}
  None = None
  Reminders <- MCReminders
  Lead <- MCLead
  Starts = {2}
  MaxAttempts = 2
  MaxStalls = 1
  Concurrency = 1
  MaxTime = 2
  MaxCrashes = 2
  MaxErrors = 1
INVARIANTS
  ResendOnlyThroughTheGap
  CallBudget
  NeverEarly
  DeadIsParked
  OnlyPendingLackJobs
  NoSilentDrop
PROPERTIES
  JobSettles
  LedgerKept
CHECK_DEADLOCK FALSE
