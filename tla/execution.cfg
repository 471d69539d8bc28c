SPECIFICATION ClusterSpec
CONSTANTS
    a = a
    b = b
    c = c
    c1 = c1
    c2 = c2
    NoNode = 0
    Job = {a}
    Node = {1}
    Team <- OneTeam
    Request <- UnitRequests
    Priority <- OneUrgent
    MaxRetries <- OneRetry
    Capacity <- OneSlot
    MaxClock = 1
    Algorithm = "best-fit"
    EnablePreemption = FALSE
    StarvationThreshold = 5
    AgingFactor = 1
    MaxFaults = 1
    MaxOutages = 2
    Commands = {}
    Client = {}
PROPERTIES ActiveJobsEnd
