SPECIFICATION Spec
CONSTANTS
    a = a
    b = b
    Node = {a, b}
    DependsOn <- Chain
    Order <- ChainOrder
    NonIdempotent = {a}
    Invocation = {i1, i2}
    None = None
    Exclusive = TRUE
    BrakeLimit = 3
    MaxFaults = 1
    MaxCalls = 2
SYMMETRY Symmetry
PROPERTY ImplementsWorkflow
INVARIANT SuccessIsTruthful
INVARIANT SuccessfulRunIsFinal
INVARIANT StopBoundary
PROPERTY StartsAfterDependencies
CHECK_DEADLOCK FALSE
