------------------------------- MODULE Gateway ------------------------------
(***************************************************************************)
(* The single-statement handlers of the REST gateway: job submission and   *)
(* the operator's cordon / drain / uncordon.  (Cancelling a job takes      *)
(* several statements and has its own module, Cancellation.)               *)
(***************************************************************************)
EXTENDS Store

CONSTANTS
    Commands    \* the node statuses operators set

ASSUME GatewayAssumption == Commands \subseteq {"ready", "cordoned", "draining"}

(* handleSubmitJob on a request that passed validateSubmit.  Submissions   *)
(* get distinct created_at stamps: time moves on with each.                *)
SubmitJob(j) ==
    /\ jobs[j].status = "absent"
    /\ clock < MaxClock
    /\ jobs' = Create(j)
    /\ clock' = clock + 1
    /\ UNCHANGED <<nodes, events, faults>>

(* setNodeStatus: the node must exist; its current status is not examined. *)
SetNodeStatus(n, s) ==
    /\ nodes[n].status # "absent"
    /\ nodes' = SetStatus(n, s)
    /\ UNCHANGED <<jobs, events, clock, faults>>

GatewayNext ==
    \/ \E j \in Job : SubmitJob(j)
    \/ \E n \in Node, s \in Commands : SetNodeStatus(n, s)
=============================================================================
