CONSTANTS
    Leases = {l1, l2}
    NoLease = NoLease
    NoFile = NoFile
    MaxSeq = 3
    Faults = {"kill", "appended", "renewed", "deleting"}
SPECIFICATION MCSpec
INVARIANTS NeverCorrupt
CHECK_DEADLOCK FALSE
