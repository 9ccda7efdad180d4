SPECIFICATION Spec
CONSTANTS
  Events = {e1}
  FreshJobs = {}
  Calls = {}
  None = None
  Reminders <- MCReminders
  Lead <- MCLead
  Starts = {2}
  MaxAttempts = 2
  MaxStalls = 1
  Concurrency = 1
  MaxTime = 1
  MaxCrashes = 1
  MaxErrors = 0
INVARIANTS
  ParkedIsReplayable
CHECK_DEADLOCK FALSE
