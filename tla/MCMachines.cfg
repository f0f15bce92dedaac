SPECIFICATION AllSpec
CONSTANTS
  Leases = {l1, l2}
  NoLease = NoLease
  NoFile = NoFile
  MaxSeq = 3
  Faults = {"kill", "power", "opening", "dropping", "renewing", "acked", "deleted"}
  MaxStops = 2
  MaxLinks = 2
  MaxFaults = 1
  MaxRestarts = 1
  Owner = owner
  Sharer = sharer
  MaxLaunches = 3
  MaxSweeps = 1
  MaxNotices = 2
INVARIANTS TypeOK NeverCorrupt OnlyOwnRecords BacklogReadable DurableWithoutKills
INVARIANTS SettlesOnce QueuedIsResent
INVARIANTS RemovesAlone WaitsAreAnswered PushedBeforeRemoval
PROPERTY GraceKeepsRecord
CHECK_DEADLOCK FALSE
