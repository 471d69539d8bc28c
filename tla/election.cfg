SPECIFICATION ElectionSpec
CONSTANTS
    Replica = {r1, r2, r3}
    NoOne = NoOne
    Periods = 3
    MaxLate = 2
    MaxRedisFaults = 1
    MaxCrashes = 1
INVARIANTS ElectionTypeOK LeadersOwnTheLease StoppingHandsOver
PROPERTIES LeasesEndDuly FailoverHappens DeposedStepDown
CHECK_DEADLOCK FALSE
