SPECIFICATION Spec
CONSTANTS
    Files <- MCEvenThenAny
    MaxRetries = 2
    ChanCap = 2
    Faults <- MCNone
INVARIANT OkMeansDelivered
CHECK_DEADLOCK FALSE
