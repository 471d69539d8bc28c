---------------------------- MODULE ControlPlane ----------------------------
(***************************************************************************)
(* One scheduling engine, the submissions and operator commands that reach *)
(* the tables through the gateway, and node membership.  Nothing executes  *)
(* jobs here: this is the engine against everything but the handlers that  *)
(* finish or cancel jobs, which Cluster adds.                              *)
(***************************************************************************)
EXTENDS Engine, Gateway, NodeService

vars == <<store, membership, tick>>

Init == StoreInit /\ MembershipInit /\ EngineInit

Engines == EngineNext /\ UNCHANGED membership

Users == (GatewayNext \/ TickClock) /\ UNCHANGED <<membership, tick>>

Agents ==
    /\ \E n \in Node : Register(n) \/ SendHeartbeat(n) \/ HeartbeatLapse(n) \/ AgentExit(n)
    /\ UNCHANGED tick

Next == Engines \/ Users \/ Agents

(* The engine's goroutine keeps running while its process leads, a live    *)
(* agent keeps sending heartbeats, and those of a dead one become stale.   *)
Fairness ==
    /\ WF_vars(TickStep /\ UNCHANGED membership)
    /\ \A n \in Node :
          /\ WF_vars(SendHeartbeat(n) /\ UNCHANGED tick)
          /\ WF_vars(~ up[n] /\ HeartbeatLapse(n) /\ UNCHANGED tick)

Spec == Init /\ [][Next]_vars /\ Fairness

-----------------------------------------------------------------------------
(* Every table and every local of the tick keeps its type; in particular   *)
(* no availability, stored or in the engine's view, ever goes negative.    *)
TypeOK == StoreTypeOK /\ MembershipTypeOK /\ EngineTypeOK

(* A node's availability never exceeds its capacity, in the table or in    *)
(* the engine's view of it, whatever statements fail and wherever the tick *)
(* stops: Release clamps, and Reserve only follows a successful Fits.      *)
AvailabilityInRange ==
    \A n \in Node, d \in Dim :
        /\ nodes[n].avail[d] <= nodes[n].cap[d]
        /\ tick.view[n].avail[d] <= tick.view[n].cap[d]

Occupants(n) == {j \in Job : IsActive(jobs[j].status) /\ jobs[j].node = n}

Used(n, d) == Total(d, Occupants(n))

(* The jobs scheduled on or running on a node never need more than it has. *)
NoOvercommit == \A n \in Node, d \in Dim : Used(n, d) <= nodes[n].cap[d]

(* Outside a tick the availability a node row advertises is really free:   *)
(* it never counts a resource an active job holds; and until a node is     *)
(* lost it is all that is free: nodes.go, availability is written "after   *)
(* placement/release so the persisted view matches reservations".          *)
NothingSoldTwice ==
    tick.phase = "idle" =>
        \A n \in Node, d \in Dim :
            /\ nodes[n].avail[d] + Used(n, d) <= nodes[n].cap[d]
            /\ outages = 0 => nodes[n].avail[d] + Used(n, d) = nodes[n].cap[d]

(* Once reconcileDeadNodes is through, no active job is left on a node     *)
(* that is down, however heartbeats, operators and placements interleave.  *)
DownNodesVacated ==
    tick.phase \notin {"lost", "requeue"} =>
        \A n \in Node : nodes[n].status = "down" => Occupants(n) = {}

(* Node losses requeue a job at most max_retries times, and reconciliation *)
(* fails it only when that budget is used up.                              *)
RetryBudgetKept ==
    \A j \in Job :
        /\ jobs[j].retry <= MaxRetries[j]
        /\ jobs[j].status = "failed" => jobs[j].retry = MaxRetries[j]

(* Outside a tick a placed job's latest audit record names the node it is  *)
(* placed on.                                                              *)
PlacementsAudited ==
    tick.phase = "idle" =>
        \A j \in Job : jobs[j].status = "scheduled" =>
            events[j] = [success |-> TRUE, node |-> jobs[j].node]

(* Evictions are never in vain: once the victims of a plan are released,   *)
(* the job they made way for (if it fits the machine at all) has a node,   *)
(* even if requeueing some of them failed.                                 *)
EvictionsPayOff ==
    tick.phase = "replace" =>
        \A j \in Job :
            Current(j) /\ Enough(tick.view[tick.target].cap, Request[j]) => CanPlace(j)

-----------------------------------------------------------------------------
(* engine.go: a preempted job is returned to the queue "so it competes     *)
(* again next tick".                                                       *)
PreemptedReturns ==
    \A j \in Job : (jobs[j].status = "preempted") ~> (jobs[j].status = "queued")

(* README, "Automatic recovery": a node whose agent died for good is taken *)
(* out of service and its jobs leave it, again and again if operators keep *)
(* putting it back.                                                        *)
DeadNodesEmptied ==
    \A n \in Node :
        <>[](~ up[n]) => []<>(nodes[n].status # "ready" /\ Occupants(n) = {})

(* Draining or cordoning takes effect: once the tick that may have listed  *)
(* the node before is over, no job arrives on a node out of service, for   *)
(* as long as it stays so, whatever stale view a tick started from.        *)
DrainTakesEffect ==
    \A n \in Node, j \in Job :
        [](/\ tick.phase = "idle"
           /\ jobs[j].node # n
           /\ [](nodes[n].status # "ready")
           => [](jobs[j].node # n))

(* No job is passed over for ever: a queued job gets a node or leaves the  *)
(* queue, unless every node in service keeps advertising too little room.  *)
NoJobPassedOver ==
    \A j \in Job, n \in Node :
        []<>~ (/\ jobs[j].status = "queued"
               /\ nodes[n].status = "ready"
               /\ \A d \in Dim : Request[j][d] <= nodes[n].avail[d])
=============================================================================
