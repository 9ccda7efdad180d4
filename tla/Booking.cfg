SPECIFICATION Spec
CONSTANTS
  q1 = q1
  q2 = q2
  q3 = q3
  q4 = q4
  k1 = k1
  Requests = {q1, q2, q3, q4}
  Keys = {k1}
  None = None
  KeyOf <- MCKeyOf
  MaxCrashes = 1
  MaxErrors = 1
INVARIANTS
  OneBookingPerKey
  AnswersAgree
PROPERTIES
  ConflictHasCause
CHECK_DEADLOCK FALSE
