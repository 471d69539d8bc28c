SPECIFICATION ClusterSpec
CONSTANTS
    a = a
    b = b
    c = c
    c1 = c1
    c2 = c2
    NoNode = 0
    Job = {a}
    Node = {1}
    Team <- OneTeam
    Request <- UnitRequests
    Priority <- EqualPriorities
    MaxRetries <- OneRetry
    Capacity <- OneSlot
    MaxClock = 2
    Algorithm = "best-fit"
    EnablePreemption = FALSE
    StarvationThreshold = 5
    AgingFactor = 1
    MaxFaults = 0
    MaxOutages = 0
    Commands = {}
    Client = {c1}
PROPERTIES TerminalIsFinal
