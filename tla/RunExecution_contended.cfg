SPECIFICATION Spec
CONSTANTS
    a = a
    b = b
    Node = {a}
    DependsOn <- Single
    Order <- SingleOrder
    NonIdempotent = {a}
    Invocation = {i1, i2}
    None = None
    Exclusive = FALSE
    BrakeLimit = 3
    MaxFaults = 1
    MaxCalls = 0
SYMMETRY Symmetry
INVARIANT AtMostOnce
CHECK_DEADLOCK FALSE
