CONSTANTS
    LeaseDuration = 6
    HeartbeatInterval = 2
    SafetyMargin = 2
    FailureThreshold = 3
    MaxLatency = 3
    Preparation = 1
    MaxTime = 16
SPECIFICATION Spec
INVARIANT HeldWithinLease
PROPERTY ConfirmedByRenewal
CHECK_DEADLOCK FALSE
