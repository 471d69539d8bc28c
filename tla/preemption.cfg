SPECIFICATION Spec
CONSTANTS
    a = a
    b = b
    c = c
    NoNode = 0
    Job = {a, b, c}
    Node = {1}
    Team <- TwoTeams
    Request <- MixedRequests
    Priority <- RisingPriorities
    MaxRetries <- OneRetry
    Capacity <- TwoSlots
    MaxClock = 3
    Algorithm = "fair-share"
    EnablePreemption = TRUE
    StarvationThreshold = 1
    AgingFactor = 1
    MaxFaults = 2
    MaxOutages = 1
    Commands = {}
INVARIANTS AvailabilityInRange EvictionsPayOff
PROPERTIES ImplementsJobLife
