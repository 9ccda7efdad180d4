SPECIFICATION FairSpec
CONSTANTS
  Requests = {q1, q2}
  Jobs = {j1, j2}
  Signals = {s1, s2}
  MaxErrors = 1
INVARIANTS
  UsersFirst
  OneSignalExitsZero
PROPERTIES
  SignalEnds
CHECK_DEADLOCK FALSE
