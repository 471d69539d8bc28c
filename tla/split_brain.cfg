SPECIFICATION ReplicasSpec
CONSTANTS
    a = a
    NoNode = 0
    Job = {a}
    Node = {1}
    Team <- OneTeam
    Request <- UnitRequests
    Priority <- EqualPriorities
    MaxRetries <- OneRetry
    Capacity <- OneSlot
    MaxClock = 1
    Algorithm = "best-fit"
    EnablePreemption = FALSE
    StarvationThreshold = 5
    AgingFactor = 1
    MaxFaults = 0
    MaxOutages = 0
    Commands = {}
    First = r1
    Second = r2
    Replica = {r1, r2}
    NoOne = NoOne
    Periods = 3
    MaxLate = 2
    MaxRedisFaults = 0
    MaxCrashes = 0
PROPERTIES OnlyLeaderSchedules
CHECK_DEADLOCK FALSE
