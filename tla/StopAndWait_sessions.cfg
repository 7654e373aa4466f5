SPECIFICATION FairSpec
CONSTANTS
    Files <- MCThreeFiles
    MaxRetries = 3
    ChanCap = 3
    Faults <- MCOrderKept
INVARIANTS TypeOK InOrder Contiguous OkMeansAllButFirst
PROPERTIES KeepsPromise AckMeansInPhase SessionEnds
CHECK_DEADLOCK FALSE
