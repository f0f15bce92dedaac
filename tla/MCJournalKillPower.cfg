CONSTANTS
    Leases = {l1, l2}
    NoLease = NoLease
    NoFile = NoFile
    MaxSeq = 3
    Faults = {"kill", "power"}
SPECIFICATION MCSpec
INVARIANTS StreamedIsDurable
CHECK_DEADLOCK FALSE
