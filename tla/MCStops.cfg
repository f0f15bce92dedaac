SPECIFICATION StopsSpec
CONSTANTS
  Calls = {}
  BigAnswers = FALSE
  Waiters = {w1, w2}
  Stops = {s1, s2}
  OutQueue = 1
  UrgentQueue = 1
  EventQueue = 1
  WireRoom = 1
  None = None
  MaxRuns = 3
  MaxStopIds = 2
  MaxBinds = 1
  MaxSends = 3
  MaxSpawns = 2
  MaxLinks = 2
  MaxFast = 1
INVARIANTS SlotsMatch
INVARIANTS StoppedExitEndsItsOwn StopHitsItsOwn
INVARIANTS NoStrayProcess LiveRunGoesOn
SYMMETRY Alike
CHECK_DEADLOCK FALSE
