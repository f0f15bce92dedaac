SPECIFICATION FairSpec
CONSTANTS
  Calls = {c1}
  BigAnswers = TRUE
  Waiters = {}
  Stops = {}
  OutQueue = 1
  UrgentQueue = 1
  EventQueue = 1
  WireRoom = 1
  None = None
PROPERTY NeverWaitsForTimeout
CHECK_DEADLOCK FALSE
