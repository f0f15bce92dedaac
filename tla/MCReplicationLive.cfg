SPECIFICATION FairSpec
CONSTANTS
  MaxSeq = 2
  MaxGen = 5
  MaxFaults = 2
  AckBatch = 2
  Faults = {"cut", "headRestart", "machineRestart", "failedClaim", "failedBind", "probe"}
PROPERTY EveryRecordAcknowledged
CHECK_DEADLOCK FALSE
