------------------------------ MODULE Replicas ------------------------------
(***************************************************************************)
(* Two scheduler replicas: the election, and in each replica the engine    *)
(* that elector.Run calls while the replica leads, on the shared tables    *)
(* (cmd/scheduler/main.go).  The engine executes no statement once its     *)
(* leaderCtx is cancelled; a statement that was then in flight took effect *)
(* before or not at all.                                                   *)
(***************************************************************************)
EXTENDS Gateway, NodeService, LeaderElection

CONSTANTS
    First, Second,        \* the two replicas, Replica = {First, Second}
    Algorithm, EnablePreemption, StarvationThreshold, AgingFactor

VARIABLES
    tick1, tick2    \* the engines' locals

E1 == INSTANCE Engine WITH tick <- tick1
E2 == INSTANCE Engine WITH tick <- tick2

replicas == <<store, membership, election, tick1, tick2>>

ReplicasInit ==
    /\ StoreInit /\ MembershipInit /\ ElectionInit
    /\ E1!EngineInit /\ E2!EngineInit

Leads(r) == role[r] = "leading" /\ ~ cancelled[r]

Engine1 == Leads(First) /\ E1!TickStep /\ UNCHANGED <<membership, election, tick2>>

Engine2 == Leads(Second) /\ E2!TickStep /\ UNCHANGED <<membership, election, tick1>>

(* Engine.Run returns, or dies with its process, in the middle of a tick:  *)
(* the locals are gone.                                                    *)
Halt(r) ==
    /\ LeadReturns(r) \/ Crash(r)
    /\ tick1' = IF r = First THEN E1!Idle ELSE tick1
    /\ tick2' = IF r = Second THEN E2!Idle ELSE tick2
    /\ UNCHANGED <<store, membership>>

Elections ==
    /\ \/ PeriodEnds
       \/ \E r \in Replica : \/ Campaign(r) \/ TryAcquire(r) \/ Renew(r) \/ CancelRun(r)
                             \/ StragglerRenews(r) \/ ReleaseLease(r) \/ StandDown(r)
    /\ UNCHANGED <<store, membership, tick1, tick2>>

Outside ==
    /\ \/ (GatewayNext \/ TickClock) /\ UNCHANGED membership
       \/ \E n \in Node : Register(n) \/ SendHeartbeat(n) \/ HeartbeatLapse(n) \/ AgentExit(n)
    /\ UNCHANGED <<election, tick1, tick2>>

ReplicasNext == Engine1 \/ Engine2 \/ Elections \/ Outside \/ \E r \in Replica : Halt(r)

ReplicasSpec == ReplicasInit /\ [][ReplicasNext]_replicas

-----------------------------------------------------------------------------
Placed(j) == jobs[j].status = "queued" /\ jobs'[j].status = "scheduled"

(* README, "only the leader schedules": an engine never places a job while *)
(* the lease belongs to the other replica, which leads by then.            *)
OnlyLeaderSchedules ==
    [][\A j \in Job : Placed(j) =>
          lock # IF tick1' # tick1 THEN Second ELSE First]_replicas
=============================================================================
