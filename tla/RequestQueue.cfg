SPECIFICATION FairSpec
CONSTANTS
    p1 = p1
    p2 = p2
    None = None
    Poller = {p1, p2}
    NumRequests = 1
    PostType = {"RERUN", "STOP", "RELEASE", "START", "CLOSE"}
    StaleAfter = 3
    FetchLimit = 2
    MaxBeats = 1
    MaxOutside = 1
    MaxFaults = 1
INVARIANT ExecutedOnce
INVARIANT WithdrawnNeverRuns
INVARIANT ResultIsTruthful
INVARIANT HealthyClaimSurvives
PROPERTY EndedStaysEnded
PROPERTY ImplementsService
PROPERTY RequestsSettle
