SPECIFICATION Spec
CONSTANTS
    a = a
    b = b
    Node = {a}
    DependsOn <- Single
    Order <- SingleOrder
    NonIdempotent = {}
    Invocation = {i1, i2, i3}
    None = None
    Exclusive = TRUE
    BrakeLimit = 2
    MaxFaults = 0
    MaxCalls = 1
SYMMETRY Symmetry
PROPERTY RetryBrakeHolds
CHECK_DEADLOCK FALSE
