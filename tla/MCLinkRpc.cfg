SPECIFICATION CallsSpec
CONSTANTS
  Calls = {c1, c2}
  BigAnswers = TRUE
  Waiters = {}
  Stops = {}
  OutQueue = 1
  UrgentQueue = 1
  EventQueue = 1
  WireRoom = 1
  None = None
INVARIANTS TypeOK CancelFollowsRequest NoOrphans SlotsMatch
SYMMETRY Alike
CHECK_DEADLOCK FALSE
