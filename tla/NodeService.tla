----------------------------- MODULE NodeService ----------------------------
(***************************************************************************)
(* Node membership: agent processes starting and dying, the Register and   *)
(* Heartbeat calls they make to the node service, and the passage of time  *)
(* that makes a heartbeat stale.                                           *)
(***************************************************************************)
EXTENDS Store

CONSTANTS
    Capacity,    \* Capacity[n]: the capacities node n's agent may be configured with
    MaxOutages   \* bound on agent deaths and on heartbeat outages of live agents

ASSUME NodeServiceAssumption ==
    /\ Capacity \in [Node -> (SUBSET Vec) \ {{}}]
    /\ MaxOutages \in Nat

VARIABLES
    up,        \* [Node -> BOOLEAN]: the agent process runs and has registered
    outages    \* agent deaths and heartbeat outages so far

membership == <<up, outages>>

MembershipInit ==
    /\ up = [n \in Node |-> FALSE]
    /\ outages = 0

MembershipTypeOK ==
    /\ up \in [Node -> BOOLEAN]
    /\ outages \in 0..MaxOutages

(* An agent process starts and registers, retrying until the call succeeds. *)
Register(n) ==
    /\ ~ up[n]
    /\ up' = [up EXCEPT ![n] = TRUE]
    /\ \E cap \in Capacity[n] : nodes' = Upsert(n, cap)
    /\ UNCHANGED <<jobs, events, clock, faults, outages>>

SendHeartbeat(n) ==
    /\ up[n]
    /\ nodes' = Heartbeat(n)
    /\ UNCHANGED <<jobs, events, clock, faults, membership>>

(* More than HeartbeatTTL passes since the last heartbeat that got through. *)
HeartbeatLapse(n) ==
    /\ nodes[n].fresh
    /\ \/ ~ up[n] /\ outages' = outages
       \/ up[n] /\ outages < MaxOutages /\ outages' = outages + 1
    /\ nodes' = [nodes EXCEPT ![n].fresh = FALSE]
    /\ UNCHANGED <<jobs, events, clock, faults, up>>

(* The agent process of n ends, killed or told to stop.                    *)
AgentExit(n) ==
    /\ up[n]
    /\ outages < MaxOutages
    /\ up' = [up EXCEPT ![n] = FALSE]
    /\ outages' = outages + 1
    /\ UNCHANGED store
=============================================================================
