SPECIFICATION BoardSpec
CONSTANTS
    p1 = p1
    None = None
    Poller = {p1}
    NumRequests = 1
    PostType = {"CLOSE"}
    StaleAfter = 1
    FetchLimit = 2
    MaxBeats = 0
    MaxOutside = 0
    MaxFaults = 0
    MaxLoads = 3
    MaxDialogs = 1
    MaxSlips = 1
INVARIANT CancelAnswerHonoured
INVARIANT NoOfferWhileCreatedPends
INVARIANT OffersAreServed
CHECK_DEADLOCK FALSE
