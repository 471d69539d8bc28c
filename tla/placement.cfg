SPECIFICATION Spec
CONSTANTS
    Job = {1, 2, 3, 4, 5}
    Node = {1, 2}
    NoNode = 0
    Team <- OneTeam
    Request <- Requests
    Priority <- Priorities
    MaxRetries <- NoRetries
    Pending = 5
    Free <- FreeVectors
    Statuses = {"ready", "cordoned"}
    Moments = {0, 1, 3, 7, 12, 14}
    Aging <- OneInTwo
INVARIANTS LoopsAgree PlansSuffice FragmentationMeaning ReportsAgree AgingPreventsStarvation
CHECK_DEADLOCK FALSE
