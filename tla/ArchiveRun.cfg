SPECIFICATION Spec
CONSTANTS
    c1 = c1
    c2 = c2
    inv = inv
    None = None
    Archiver = {c1, c2}
    Resumer = inv
    MaxRev = 3
    MaxFaults = 3
INVARIANT OutcomeTruthful
INVARIANT AuditOnce
INVARIANT ExitZeroIsClean
PROPERTY ArchivesFinishedRunsOnly
CHECK_DEADLOCK FALSE
