CONSTANTS
    Invocation = {i1}
    Operator = {o1}
    Nobody = Nobody
    LeaseDuration = 3
    Minute = 2
    MistakenStops = TRUE
    Horizon = 3
    MaxTime = 8
    MaxRev = 3
    MaxFaults = 2
SPECIFICATION FairSpec
PROPERTY AbandonedLockIsRecovered
CHECK_DEADLOCK FALSE
