SPECIFICATION Spec
CONSTANTS
    Files <- MCOneFile
    MaxRetries = 2
    ChanCap = 3
    Faults <- MCReorder
INVARIANT NoDuplicate
CHECK_DEADLOCK FALSE
