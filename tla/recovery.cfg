SPECIFICATION Spec
CONSTANTS
    a = a
    b = b
    c = c
    NoNode = 0
    Job = {a, b}
    Node = {1, 2}
    Team <- OneTeam
    Request <- UnitRequests
    Priority <- EqualPriorities
    MaxRetries <- OneRetry
    Capacity <- OneSlot
    MaxClock = 2
    Algorithm = "best-fit"
    EnablePreemption = FALSE
    StarvationThreshold = 5
    AgingFactor = 1
    MaxFaults = 0
    MaxOutages = 2
    Commands = {"ready", "draining"}
INVARIANTS TypeOK NothingSoldTwice NoOvercommit DownNodesVacated RetryBudgetKept PlacementsAudited
