SPECIFICATION ClusterSpec
CONSTANTS
    a = a
    b = b
    c = c
    c1 = c1
    c2 = c2
    NoNode = 0
    Job = {a}
    Node = {1}
    Team <- OneTeam
    Request <- UnitRequests
    Priority <- EqualPriorities
    MaxRetries <- OneRetry
    Capacity <- OneSlot
    MaxClock = 1
    Algorithm = "first-fit"
    EnablePreemption = FALSE
    StarvationThreshold = 5
    AgingFactor = 1
    MaxFaults = 1
    MaxOutages = 1
    Commands = {}
    Client = {c1, c2}
SYMMETRY ClientSymmetry
INVARIANTS ClusterTypeOK ClusterAvailabilityInRange ScheduledHasNode VerdictsEarned
