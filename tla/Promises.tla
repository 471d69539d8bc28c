------------------------------ MODULE Promises ------------------------------
(***************************************************************************)
(* The tables of the control plane, seen as the promises of JobLife.       *)
(***************************************************************************)
EXTENDS ControlPlane

Stage(s) ==
    CASE s = "absent" -> "none"
      [] s \in {"queued", "preempted"} -> "waiting"
      [] IsActive(s) -> "placed"
      [] IsTerminal(s) -> "done"

Promise == INSTANCE JobLife WITH
    life <- [j \in Job |-> Stage(jobs[j].status)],
    at   <- [j \in Job |-> IF IsActive(jobs[j].status) THEN jobs[j].node ELSE NoNode],
    size <- [n \in Node |-> nodes[n].cap]

(* Every step of the engine on a job's row, reconciliation, placement,     *)
(* eviction and return included, and whichever statements fail, is one of  *)
(* the steps a job's life allows: no job is placed twice, moved, or taken  *)
(* back from a terminal status.                                            *)
ImplementsJobLife == Promise!LifeSpec

(* And as long as no statement fails, every placement, although made from  *)
(* the view read at the start of the tick, has room for its job.           *)
ImplementsAllocation == Promise!AllocationSpec
=============================================================================
