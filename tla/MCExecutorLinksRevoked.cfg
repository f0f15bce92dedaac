SPECIFICATION ExecutorFairSpec
CONSTANTS
  MaxGen = 2
  MaxEpoch = 1
  MaxLags = 1
PROPERTY RevokedAgentsStop
CHECK_DEADLOCK FALSE
