SPECIFICATION LinksSpec
CONSTANTS
  MaxGen = 2
  MaxEpoch = 1
  MaxLags = 1
  Calls = {c1}
  BigAnswers = FALSE
  Waiters = {}
  Stops = {}
  OutQueue = 1
  UrgentQueue = 1
  EventQueue = 1
  WireRoom = 1
  None = None
INVARIANTS ExecutorTypeOK OnlyNewestOpen NothingOutlivesStop NoStaleEffect StopIsFinal
PROPERTIES RevokedLinksClose CallsReturn HandlersLearn
CHECK_DEADLOCK FALSE
