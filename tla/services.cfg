SPECIFICATION ServicesSpec
CONSTANTS
    q1 = q1
    q2 = q2
    q3 = q3
    Service = {"api-gateway", "scheduler", "metrics", "node-agent"}
    MaxBreaks = 1
    Req = {q1, q2, q3}
    Address <- OneAddress
    Kind <- Kinds
    AuthEnabled = TRUE
    NoBucket = NoBucket
    Burst = 1
    Rate = 1
    Grain = 2
    MaxNow = 2
    Stream = {s1, s2}
    Keep = 2
    Fallback = 1
    MaxLines = 2
    MaxLogFaults = 1
    Tracked = {j1}
    MaxMoves = 3
    MaxCountFaults = 1
INVARIANTS ServicesTypeOK ExitTellsTruth SchemaInPlace LimiterExact LatestLinesServed LogsBounded CountsReliable
PROPERTIES ShutdownCompletes
CHECK_DEADLOCK FALSE
