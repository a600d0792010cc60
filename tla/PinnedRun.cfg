\* What a Run executes, when its files change and its invocations die.
SPECIFICATION FairSpec
CONSTANTS
    c1 = c1
    c2 = c2
    Content = {c1, c2}
    None = None
    MaxInvocations = 3
    MaxRepairs = 1
    MaxEdits = 2
    MaxFaults = 1
INVARIANT RunsAsPinned
INVARIANT InputsPinned
INVARIANT BaselineBeforeExecution
INVARIANT ResultIsTruthful
PROPERTY InvocationEnds
CHECK_DEADLOCK FALSE
