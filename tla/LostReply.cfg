SPECIFICATION Spec
CONSTANTS
  h1 = h1
  h2 = h2
  h3 = h3
  h4 = h4
  h5 = h5
  m1 = m1
  m2 = m2
  m3 = m3
  m4 = m4
  ann = ann
  bob = bob
  eve = eve
  e1 = e1
  e2 = e2
  e3 = e3
  Hooks = {h1, h2, h3, h4, h5}
  Messages = {m1, m2, m3, m4}
  MessageOf <- MCMessageOf
  Phones = {ann, bob}
  Sender <- MCSender
  Meaning <- MCMeaning
  Events = {e1, e2, e3}
  Owner <- MCOwner
  StartsAt <- MCStartsAt
  None = None
  MaxTime = 0
  MaxCrashes = 1
  MaxErrors = 0
INVARIANTS
  DuplicateMeansHandled
CHECK_DEADLOCK FALSE
