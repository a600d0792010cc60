CONSTANTS
    Invocation = {i1, i2}
    Operator = {o1}
    Nobody = Nobody
    LeaseDuration = 2
    Minute = 2
    MistakenStops = FALSE
    Horizon = 4
    MaxTime = 4
    MaxRev = 2
    MaxFaults = 1
SPECIFICATION Spec
SYMMETRY Symmetry
INVARIANT TypeOK
INVARIANT MutualExclusion
INVARIANT AuditedReleaseHappened
PROPERTY ForcedOnlyAfterLease
PROPERTY ImplementsMutex
CHECK_DEADLOCK FALSE
