SPECIFICATION FairSpec
CONSTANTS
    a = a
    b = b
    Node = {a, b}
    DependsOn <- Chain
    Order <- ChainOrder
    NonIdempotent = {b}
    Invocation = {i1, i2}
    None = None
    Exclusive = TRUE
    BrakeLimit = 3
    MaxFaults = 1
    MaxCalls = 0
PROPERTY InvocationEnds
CHECK_DEADLOCK FALSE
