SPECIFICATION Spec
CONSTANTS
    a = a
    b = b
    c = c
    NoNode = 0
    Job = {a, b}
    Node = {1, 2}
    Team <- OneTeam
    Request <- UnitRequests
    Priority <- TwoUrgent
    MaxRetries <- OneRetry
    Capacity <- OneSlot
    MaxClock = 2
    Algorithm = "priority"
    EnablePreemption = TRUE
    StarvationThreshold = 5
    AgingFactor = 1
    MaxFaults = 0
    MaxOutages = 1
    Commands = {"draining"}
PROPERTIES DeadNodesEmptied DrainTakesEffect PreemptedReturns NoJobPassedOver
