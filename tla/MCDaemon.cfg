SPECIFICATION MCSpec
CONSTANTS
  Readers = {r1, r2}
  Flights = {f1, f2}
  NoFlight = NoFlight
  MaxVersion = 1
  MaxInvalidations = 2
  Requests = {q1, q2, q3}
  NoAttempt = NoAttempt
INVARIANTS CachedSinceInvalidation FreshReads OneTaker NothingForgotten
PROPERTIES ReadsReturnUnlessEvicted GraceEnds
CHECK_DEADLOCK FALSE
