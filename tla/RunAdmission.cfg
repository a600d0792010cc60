\* Definitions from the file to the Runs of their periods.
SPECIFICATION Spec
CONSTANTS
    p1 = p1
    p2 = p2
    Callers = {p1, p2}
    Offset <- MCOffset
    HoursPerDay = 2
    DaysPerMonth = 2
    MonthsPerYear = 2
    Definitions <- MCDefinitions
    NodeIds = {"a", "b", "c", "d", "z"}
    CalledPolicies <- MCCalledPolicies
    Instants <- MCInstants
    GivenKeys <- MCGivenKeys
    MaxCalls = 3
INVARIANT OrderIsStable
INVARIANT LoadVerdict
INVARIANT SelectionIsDescendants
INVARIANT OneRunPerPeriod
INVARIANT ActiveRunsBounded
CHECK_DEADLOCK FALSE
