SPECIFICATION Spec
CONSTANTS
  Events = {e1}
  FreshJobs = {f1, f2}
  Calls = {c1, c2}
  None = None
  Reminders <- MCReminders
  Lead <- MCLead
  Starts = {2}
  MaxAttempts = 1
  MaxStalls = 1
  Concurrency = 2
  MaxTime = 2
  MaxCrashes = 0
  MaxErrors = 1
SYMMETRY MCSymmetry
INVARIANTS
  SentMeansDelivered
  OneDeliveryRecord
  GivenUpShows
PROPERTIES
  QuietStaysQuiet
CHECK_DEADLOCK FALSE
