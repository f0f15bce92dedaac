SPECIFICATION Spec
CONSTANTS
  MaxSeq = 2
  MaxGen = 6
  MaxFaults = 3
  AckBatch = 2
  Faults = {"cut", "headRestart", "machineRestart", "failedSave", "failedClaim", "failedBind", "probe"}
INVARIANTS TypeOK KeptUntilSaved NoGap NeverAhead
PROPERTY ImplementsRecordLog
CHECK_DEADLOCK FALSE
