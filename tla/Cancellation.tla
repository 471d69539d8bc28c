---------------------------- MODULE Cancellation ----------------------------
(***************************************************************************)
(* handleCancelJob of the REST gateway, one action per SQL statement.      *)
(* cancel[c][j] is client c's request to cancel j, if one is in progress:  *)
(*   phase  "none", "load" (Nodes.Get), "free" (UpdateAvailability) or     *)
(*          "final" (UpdateStatus)                                         *)
(*   on     the job's node_id as read by Jobs.Get                          *)
(*   avail  the node's availability after Release, to be written back      *)
(***************************************************************************)
EXTENDS Store

CONSTANTS
    Client    \* requests to cancel the same job that may be in progress together

ASSUME CancellationAssumption == IsFiniteSet(Client)

VARIABLES
    cancel    \* [Client -> [Job -> Cancel]]

NoCancel == [phase |-> "none", on |-> NoNode, avail |-> [d \in Dim |-> 0]]

CancellationInit == cancel = [c \in Client |-> [j \in Job |-> NoCancel]]

Cancel ==
    [phase : {"none", "load", "free", "final"},
     on    : Node \cup {NoNode},
     avail : Vec]

CancellationTypeOK == cancel \in [Client -> [Job -> Cancel]]

(* Client c's request for j continues as r.                                *)
Answer(c, j, r) == cancel' = [cancel EXCEPT ![c][j] = r]

(* The job exists and is not terminal; only an active job that has a node  *)
(* is taken to hold resources.                                             *)
BeginCancel(c, j) ==
    /\ cancel[c][j].phase = "none"
    /\ jobs[j].status # "absent"
    /\ ~ IsTerminal(jobs[j].status)
    /\ Answer(c, j, IF IsActive(jobs[j].status) /\ jobs[j].node # NoNode
                    THEN [NoCancel EXCEPT !.phase = "load", !.on = jobs[j].node]
                    ELSE [NoCancel EXCEPT !.phase = "final"])
    /\ UNCHANGED store

CancelLoad(c, j) ==
    /\ cancel[c][j].phase = "load"
    /\ \E ok \in BOOLEAN :
          /\ Statement(ok)
          /\ Answer(c, j,
                IF ok THEN [cancel[c][j] EXCEPT !.phase = "free",
                              !.avail = Release(nodes[cancel[c][j].on], Request[j]).avail]
                      ELSE [NoCancel EXCEPT !.phase = "final"])
    /\ UNCHANGED <<jobs, nodes, events, clock>>

CancelFree(c, j) ==
    /\ cancel[c][j].phase = "free"
    /\ \E ok \in BOOLEAN :
          /\ Statement(ok)
          /\ nodes' \in After(ok, nodes, UpdateAvailability(cancel[c][j].on, cancel[c][j].avail))
    /\ Answer(c, j, [NoCancel EXCEPT !.phase = "final"])
    /\ UNCHANGED <<jobs, events, clock>>

CancelFinal(c, j) ==
    /\ cancel[c][j].phase = "final"
    /\ \E ok \in BOOLEAN :
          /\ Statement(ok)
          /\ jobs' \in After(ok, jobs, UpdateStatus(j, "cancelled"))
    /\ Answer(c, j, NoCancel)
    /\ UNCHANGED <<nodes, events, clock>>

(* The client hangs up or the gateway dies between two statements.         *)
DropCancel(c, j) ==
    /\ cancel[c][j].phase \in {"load", "free"}
    /\ faults < MaxFaults
    /\ faults' = faults + 1
    /\ Answer(c, j, NoCancel)
    /\ UNCHANGED <<jobs, nodes, events, clock>>

CancelStep(c, j) == CancelLoad(c, j) \/ CancelFree(c, j) \/ CancelFinal(c, j)
=============================================================================
