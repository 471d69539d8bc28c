------------------------------- MODULE Models -------------------------------
(***************************************************************************)
(* The domain types of internal/models: job and node statuses, resource    *)
(* vectors, and the arithmetic a node performs on its availability.        *)
(*                                                                         *)
(* Node ids are integers in hostname order, which is the order in which    *)
(* NodeRepository.List hands them to the scheduler.  The columns of a job  *)
(* that no statement ever updates (request, priority, team, max_retries)   *)
(* are constant functions of the job.                                      *)
(***************************************************************************)
EXTENDS Integers, FiniteSets

CONSTANTS
    Job,         \* the jobs users may submit
    Node,        \* the machines, numbered in hostname order
    NoNode,      \* node_id IS NULL
    Team,        \* Team[j]: team_id
    Request,     \* Request[j]: the resource request of j, a vector
    Priority,    \* Priority[j]: base priority, already clamped to 0..10
    MaxRetries   \* MaxRetries[j]: retry budget

Dim == {"gpu", "cpu", "mem"}

Vec == [Dim -> Nat]

(* validateSubmit and clamp let only such jobs into the jobs table.        *)
ASSUME JobAssumption ==
    /\ IsFiniteSet(Job)
    /\ Request \in [Job -> Vec]
    /\ Priority \in [Job -> 0..10]
    /\ MaxRetries \in [Job -> Nat]
    /\ DOMAIN Team = Job

ASSUME NodeAssumption ==
    /\ IsFiniteSet(Node)
    /\ Node \subseteq Nat
    /\ NoNode \notin Node

-----------------------------------------------------------------------------
(* "absent" stands for a row that has not been inserted yet.               *)
JobStatus == {"absent", "queued", "scheduled", "running", "completed",
              "failed", "cancelled", "preempted"}

IsTerminal(s) == s \in {"completed", "failed", "cancelled"}

IsActive(s) == s \in {"scheduled", "running"}

NodeStatus == {"absent", "ready", "draining", "cordoned", "down"}

\* mutant: a draining node still takes jobs
SchedulableWhileDraining(s) == s \in {"ready", "draining"}

Schedulable(s) == s = "ready"

JobRow == [status : JobStatus, node : Node \cup {NoNode}, retry : Nat, created : Nat]

(* last_heartbeat matters only through whether it is older than the TTL.   *)
NodeRow == [status : NodeStatus, cap : Vec, avail : Vec, fresh : BOOLEAN]

-----------------------------------------------------------------------------
\* mutant: one dimension is enough
EnoughInSome(avail, r) == \E d \in Dim : avail[d] >= r[d]

\* mutant: a job may not take the last unit
EnoughToSpare(avail, r) == \A d \in Dim : avail[d] > r[d]

Enough(avail, r) == \A d \in Dim : avail[d] >= r[d]

(* What the jobs of S ask for of resource d: the units, and how many.      *)
Units(d, S) == UNION {{j} \X (1..Request[j][d]) : j \in S}

Total(d, S) == Cardinality(Units(d, S))

Fits(node, r) == Schedulable(node.status) /\ Enough(node.avail, r)

Reserve(node, r) == [node EXCEPT !.avail = [d \in Dim |-> node.avail[d] - r[d]]]

\* mutant: the three clamps are missing
ReleaseUnclamped(node, r) ==
    [node EXCEPT !.avail = [d \in Dim |-> node.avail[d] + r[d]]]

\* mutant: only the GPUs are given back
ReleaseGPUs(node, r) ==
    [node EXCEPT !.avail["gpu"] = IF @ + r["gpu"] > node.cap["gpu"] THEN node.cap["gpu"]
                                                                    ELSE @ + r["gpu"]]

Release(node, r) ==
    [node EXCEPT !.avail = [d \in Dim |->
        IF node.avail[d] + r[d] > node.cap[d] THEN node.cap[d]
                                              ELSE node.avail[d] + r[d]]]
=============================================================================
