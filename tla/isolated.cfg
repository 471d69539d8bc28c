SPECIFICATION IsolatedSpec
CONSTANTS
    a = a
    b = b
    c = c
    c1 = c1
    c2 = c2
    NoNode = 0
    Job = {a, b, c}
    Node = {1, 2}
    Team <- OneTeam
    Request <- MixedRequests
    Priority <- EqualPriorities
    MaxRetries <- OneRetry
    Capacity <- TwoSlots
    MaxClock = 3
    Algorithm = "best-fit"
    EnablePreemption = FALSE
    StarvationThreshold = 5
    AgingFactor = 1
    MaxFaults = 0
    MaxOutages = 0
    Commands = {}
    Client = {}
INVARIANTS LedgerMatches
PROPERTIES ImplementsAllocation
