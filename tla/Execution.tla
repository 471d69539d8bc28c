------------------------------ MODULE Execution -----------------------------
(***************************************************************************)
(* What happens to a job between placement and its terminal status: the    *)
(* agent's poll loop and executor goroutines (internal/agent), and the     *)
(* GetAssignments and UpdateJobStatus handlers they call on the node       *)
(* service (internal/grpc/server.go), one action per SQL statement.        *)
(*                                                                         *)
(* exec[n][j] is the executor goroutine of job j in node n's agent, with   *)
(* the state of the UpdateJobStatus call it is blocked in:                 *)
(*   phase   "none"  j is not in the agent's running map                   *)
(*           "start" reporting running: Jobs.Get                           *)
(*           "mark"  reporting running: Jobs.UpdateStatus                  *)
(*           "work"  executing                                             *)
(*           "fetch" reporting result: Jobs.Get                            *)
(*           "load"  reporting result: Nodes.Get                           *)
(*           "free"  reporting result: Nodes.UpdateAvailability            *)
(*           "final" reporting result: Jobs.UpdateStatus                   *)
(*   result  the terminal status being reported                            *)
(*   on      the job's node_id as read by Jobs.Get                         *)
(*   avail   the node's availability after Release, to be written back     *)
(***************************************************************************)
EXTENDS Store

VARIABLES
    inbox,   \* [Node -> SUBSET Job]: a GetAssignments response being handled
    exec,    \* [Node -> [Job -> Executor]]
    ended    \* history: <<j, result>> for every run of j that reached its end

execution == <<inbox, exec, ended>>

NoExecutor == [phase |-> "none", result |-> "none", on |-> NoNode, avail |-> [d \in Dim |-> 0]]

ExecutionInit ==
    /\ inbox = [n \in Node |-> {}]
    /\ exec = [n \in Node |-> [j \in Job |-> NoExecutor]]
    /\ ended = {}

Result == {"completed", "failed"}

Executor ==
    [phase  : {"none", "start", "mark", "work", "fetch", "load", "free", "final"},
     result : Result \cup {"none"},
     on     : Node \cup {NoNode},
     avail  : Vec]

ExecutionTypeOK ==
    /\ inbox \in [Node -> SUBSET Job]
    /\ exec \in [Node -> [Job -> Executor]]
    /\ ended \subseteq Job \X Result

(* The executor of j on n continues as e.                                  *)
Continue(n, j, e) == exec' = [exec EXCEPT ![n][j] = e]

-----------------------------------------------------------------------------
(* pollLoop: the call, then the loop over its response.                    *)
Poll(n) ==
    /\ inbox[n] = {}
    /\ inbox' = [inbox EXCEPT ![n] = ListScheduledForNode(n)]
    /\ UNCHANGED <<store, exec, ended>>

Claim(n, j) ==
    /\ j \in inbox[n]
    /\ inbox' = [inbox EXCEPT ![n] = @ \ {j}]
    /\ IF exec[n][j].phase = "none"
       THEN Continue(n, j, [NoExecutor EXCEPT !.phase = "start"])
       ELSE exec' = exec
    /\ UNCHANGED <<store, ended>>

-----------------------------------------------------------------------------
(* execute: report(running); a report that fails is only logged.           *)
StartReport(n, j) ==
    /\ exec[n][j].phase = "start"
    /\ \E ok \in BOOLEAN :
          /\ Statement(ok)
          /\ Continue(n, j, [exec[n][j] EXCEPT !.phase = IF ok THEN "mark" ELSE "work"])
    /\ UNCHANGED <<jobs, nodes, events, clock, inbox, ended>>

MarkRunning(n, j) ==
    /\ exec[n][j].phase = "mark"
    /\ \E ok \in BOOLEAN :
          /\ Statement(ok)
          /\ jobs' \in After(ok, jobs, UpdateStatus(j, "running"))
    /\ Continue(n, j, [exec[n][j] EXCEPT !.phase = "work"])
    /\ UNCHANGED <<nodes, events, clock, inbox, ended>>

(* The workload ends, well or badly.                                       *)
Finish(n, j, r) ==
    /\ exec[n][j].phase = "work"
    /\ Continue(n, j, [exec[n][j] EXCEPT !.phase = "fetch", !.result = r])
    /\ ended' = ended \cup {<<j, r>>}
    /\ UNCHANGED <<store, inbox>>

-----------------------------------------------------------------------------
(* UpdateJobStatus / releaseAndFinalize with a terminal status.  Neither   *)
(* the job's current status nor which node reports is looked at.           *)
FetchJob(n, j) ==
    /\ exec[n][j].phase = "fetch"
    /\ \E ok \in BOOLEAN :
          /\ Statement(ok)
          /\ Continue(n, j, IF ok THEN [exec[n][j] EXCEPT
                                          !.on = jobs[j].node,
                                          !.phase = IF jobs[j].node = NoNode THEN "final" ELSE "load"]
                            ELSE NoExecutor)
    /\ UNCHANGED <<jobs, nodes, events, clock, inbox, ended>>

LoadNode(n, j) ==
    /\ exec[n][j].phase = "load"
    /\ \E ok \in BOOLEAN :
          /\ Statement(ok)
          /\ Continue(n, j, IF ok THEN [exec[n][j] EXCEPT
                                          !.avail = Release(nodes[exec[n][j].on], Request[j]).avail,
                                          !.phase = "free"]
                            ELSE [exec[n][j] EXCEPT !.phase = "final", !.on = NoNode])
    /\ UNCHANGED <<jobs, nodes, events, clock, inbox, ended>>

FreeNode(n, j) ==
    /\ exec[n][j].phase = "free"
    /\ \E ok \in BOOLEAN :
          /\ Statement(ok)
          /\ nodes' \in After(ok, nodes, UpdateAvailability(exec[n][j].on, exec[n][j].avail))
    /\ Continue(n, j, [NoExecutor EXCEPT !.phase = "final", !.result = exec[n][j].result])
    /\ UNCHANGED <<jobs, events, clock, inbox, ended>>

\* mutant: the job is never removed from the agent's running map
FinalizeKeepsClaim(n, j) ==
    /\ exec[n][j].phase = "final"
    /\ jobs' = UpdateStatus(j, exec[n][j].result)
    /\ Continue(n, j, [NoExecutor EXCEPT !.phase = "done"])
    /\ UNCHANGED <<nodes, events, clock, faults, inbox, ended>>

Finalize(n, j) ==
    /\ exec[n][j].phase = "final"
    /\ \E ok \in BOOLEAN :
          /\ Statement(ok)
          /\ jobs' \in After(ok, jobs, UpdateStatus(j, exec[n][j].result))
    /\ Continue(n, j, NoExecutor)
    /\ UNCHANGED <<nodes, events, clock, inbox, ended>>

(* The call is cut off between two statements: its deadline passes or the  *)
(* replica serving it dies.  The executor gives up on the report.          *)
DropReport(n, j) ==
    /\ exec[n][j].phase \in {"load", "free"}
    /\ faults < MaxFaults
    /\ faults' = faults + 1
    /\ Continue(n, j, NoExecutor)
    /\ UNCHANGED <<jobs, nodes, events, clock, inbox, ended>>

(* One step of an executor that is not waiting for its workload.           *)
ReportStep(n, j) ==
    \/ StartReport(n, j) \/ MarkRunning(n, j)
    \/ FetchJob(n, j) \/ LoadNode(n, j) \/ FreeNode(n, j) \/ Finalize(n, j)

(* The agent process is gone, and its executors with it.                   *)
AbandonAll(n) ==
    /\ inbox' = [inbox EXCEPT ![n] = {}]
    /\ exec' = [exec EXCEPT ![n] = [j \in Job |-> NoExecutor]]
    /\ UNCHANGED ended
=============================================================================
