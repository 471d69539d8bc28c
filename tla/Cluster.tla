------------------------------- MODULE Cluster ------------------------------
(***************************************************************************)
(* The whole control loop: the engine, the REST gateway, the node service  *)
(* and the agents, interleaving statement by statement on the shared       *)
(* tables.                                                                 *)
(***************************************************************************)
EXTENDS ControlPlane, Execution, Cancellation

cluster == <<vars, execution, cancel>>

ClusterInit == Init /\ ExecutionInit /\ CancellationInit

ClusterEngine == Engines /\ UNCHANGED <<execution, cancel>>

ClusterUsers == Users /\ UNCHANGED <<execution, cancel>>

(* Joining and heartbeats; an exiting agent takes its executors along.     *)
ClusterMembership ==
    /\ \E n \in Node :
          \/ (Register(n) \/ SendHeartbeat(n) \/ HeartbeatLapse(n)) /\ UNCHANGED execution
          \/ AgentExit(n) /\ AbandonAll(n)
    /\ UNCHANGED <<tick, cancel>>

(* A live agent polls, claims and executes.                                *)
ClusterExecution ==
    /\ \E n \in Node :
          /\ up[n]
          /\ \/ Poll(n)
             \/ \E j \in Job : \/ Claim(n, j)
                               \/ \E r \in Result : Finish(n, j, r)
                               \/ ReportStep(n, j)
                               \/ DropReport(n, j)
    /\ UNCHANGED <<membership, tick, cancel>>

ClusterCancellation ==
    /\ \E c \in Client, j \in Job : BeginCancel(c, j) \/ CancelStep(c, j) \/ DropCancel(c, j)
    /\ UNCHANGED <<membership, tick, execution>>

ClusterNext ==
    \/ ClusterEngine \/ ClusterUsers \/ ClusterMembership
    \/ ClusterExecution \/ ClusterCancellation

(* A live agent keeps polling and works off what it claimed, workloads     *)
(* end, handlers run to completion, and a dead agent's heartbeat expires.  *)
AgentFairness(n) ==
    /\ WF_cluster(up[n] /\ Poll(n) /\ UNCHANGED <<membership, tick, cancel>>)
    /\ \A j \in Job :
          /\ WF_cluster(up[n] /\ Claim(n, j) /\ UNCHANGED <<membership, tick, cancel>>)
          /\ WF_cluster(up[n] /\ ReportStep(n, j) /\ UNCHANGED <<membership, tick, cancel>>)
          /\ WF_cluster(up[n] /\ (\E r \in Result : Finish(n, j, r))
                              /\ UNCHANGED <<membership, tick, cancel>>)

ClusterFairness ==
    /\ WF_cluster(TickStep /\ UNCHANGED <<membership, execution, cancel>>)
    /\ \A n \in Node :
          /\ AgentFairness(n)
          /\ WF_cluster(~ up[n] /\ HeartbeatLapse(n) /\ UNCHANGED <<tick, execution, cancel>>)
    /\ \A c \in Client, j \in Job :
          WF_cluster(CancelStep(c, j) /\ UNCHANGED <<membership, tick, execution>>)

ClusterSpec == ClusterInit /\ [][ClusterNext]_cluster /\ ClusterFairness

-----------------------------------------------------------------------------
(* Every component's state keeps its type; availabilities, those handlers  *)
(* carry between reading and writing a node included, never go negative.   *)
ClusterTypeOK == TypeOK /\ ExecutionTypeOK /\ CancellationTypeOK

(* However the engine's reservations, completions, cancellations, losses   *)
(* and failures interleave, and although each writes back a value computed *)
(* from a stale read, no node ever advertises more than it has.            *)
ClusterAvailabilityInRange ==
    /\ AvailabilityInRange
    /\ \A n \in Node, j \in Job : exec[n][j].phase = "free" =>
          \A d \in Dim : exec[n][j].avail[d] <= nodes[exec[n][j].on].cap[d]
    /\ \A c \in Client, j \in Job : cancel[c][j].phase = "free" =>
          \A d \in Dim : cancel[c][j].avail[d] <= nodes[cancel[c][j].on].cap[d]

(* A job in status scheduled has a registered node: some agent will be     *)
(* handed it.                                                              *)
ScheduledHasNode ==
    \A j \in Job : jobs[j].status = "scheduled" =>
        jobs[j].node \in Node /\ nodes[jobs[j].node].status # "absent"

(* A terminal verdict is never made up: a completed job ran to a good end  *)
(* at least once, a failed one ran to a bad end or used up its retries.    *)
VerdictsEarned ==
    \A j \in Job :
        /\ jobs[j].status = "completed" => <<j, "completed">> \in ended
        /\ jobs[j].status = "failed" =>
              <<j, "failed">> \in ended \/ jobs[j].retry >= MaxRetries[j]

-----------------------------------------------------------------------------
(* No handler or tick is between two of its statements.                    *)
Working(e) == e.phase \in {"mark", "load", "free", "final"}

Quiet ==
    /\ tick.phase = "idle"
    /\ \A n \in Node, j \in Job : ~ Working(exec[n][j])
    /\ \A c \in Client, j \in Job : cancel[c][j].phase = "none"

(* nodes.go, "so the persisted view matches reservations": when nothing is *)
(* in progress, what is not available on a node is what its jobs hold.     *)
LedgerMatches ==
    Quiet => \A n \in Node, d \in Dim : nodes[n].avail[d] + Used(n, d) = nodes[n].cap[d]

(* job.go: a terminal status "is a final state that will not change".      *)
TerminalIsFinal ==
    [][\A j \in Job : IsTerminal(jobs[j].status) => jobs'[j].status = jobs[j].status]_cluster

(* Nobody has j: no agent works on it or has just been handed it, and      *)
(* none will be, because it has no node, its node's agent, restarted or    *)
(* giving up on a failed report, polls only for scheduled jobs, or its     *)
(* dead node was marked down before and the engine requeues the jobs of a  *)
(* node only in the tick that marks it.                                    *)
Abandoned(j) ==
    /\ \A n \in Node : exec[n][j].phase = "none" /\ j \notin inbox[n]
    /\ LET n == jobs[j].node IN
          \/ n = NoNode
          \/ up[n] /\ jobs[j].status = "running"
          \/ ~ up[n] /\ nodes[n].status = "down" /\ n \notin tick.dead
                   /\ \A row \in tick.lost : row.job # j

(* README, "killing an agent [...] and watch recovery": a job does not     *)
(* stay scheduled or running forever, whether its agent lives, dies,       *)
(* misses heartbeats or is restarted and whichever statement fails, with   *)
(* one exception the README does not make: a job that is abandoned.        *)
ActiveJobsEnd ==
    \A j \in Job : IsActive(jobs[j].status) ~> ~ IsActive(jobs[j].status) \/ Abandoned(j)
=============================================================================
