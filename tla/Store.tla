-------------------------------- MODULE Store -------------------------------
(***************************************************************************)
(* The PostgreSQL tables every component shares, and one operator per SQL  *)
(* statement of internal/store that writes or selects rows.  A statement   *)
(* is atomic and no code path opens a transaction spanning two of them, so *)
(* statements are the unit of interleaving in every module.                *)
(*                                                                         *)
(* Left out: columns no decision reads (names, images, costs, labels) and  *)
(* the started_at / completed_at stamps, read only for reporting.  Of the  *)
(* append-only scheduling_events table the model keeps each job's latest.  *)
(***************************************************************************)
EXTENDS Models

CONSTANTS
    MaxClock,    \* bound on time, in minutes
    MaxFaults    \* bound on failed statements, dropped calls and engine stops

ASSUME StoreAssumption == MaxClock \in Nat /\ MaxFaults \in Nat

VARIABLES
    jobs,     \* [Job -> JobRow]
    nodes,    \* [Node -> NodeRow]
    events,   \* [Job -> Event]: latest scheduling_events row of the job
    clock,    \* now(), in minutes
    faults    \* failures so far

store == <<jobs, nodes, events, clock, faults>>

Event == [success : BOOLEAN, node : Node \cup {NoNode}]

NoEvent == [success |-> FALSE, node |-> NoNode]

NoJobRow == [status |-> "absent", node |-> NoNode, retry |-> 0, created |-> 0]

NoNodeRow ==
    [status |-> "absent", cap |-> [d \in Dim |-> 0], avail |-> [d \in Dim |-> 0],
     fresh |-> FALSE]

StoreInit ==
    /\ jobs = [j \in Job |-> NoJobRow]
    /\ nodes = [n \in Node |-> NoNodeRow]
    /\ events = [j \in Job |-> NoEvent]
    /\ clock = 0
    /\ faults = 0

TickClock ==
    /\ clock < MaxClock
    /\ clock' = clock + 1
    /\ UNCHANGED <<jobs, nodes, events, faults>>

(* The verdict the caller gets on one statement, out of the fault budget.  *)
Statement(ok) ==
    \/ ok /\ faults' = faults
    \/ ~ ok /\ faults < MaxFaults /\ faults' = faults + 1

(* What a table may hold after a statement that turns old into new: a      *)
(* statement reported as failed may still have been applied.               *)
After(ok, old, new) == IF ok THEN {new} ELSE {old, new}

StoreTypeOK ==
    /\ jobs \in [Job -> JobRow]
    /\ nodes \in [Node -> NodeRow]
    /\ events \in [Job -> Event]
    /\ clock \in Nat
    /\ faults \in 0..MaxFaults

-----------------------------------------------------------------------------
(* JobRepository *)

Create(j) ==
    [jobs EXCEPT ![j] = [status |-> "queued", node |-> NoNode, retry |-> 0,
                         created |-> clock]]

ListByStatuses(ss) == {j \in Job : jobs[j].status \in ss}

\* mutant: the status is not tested
ListForNode(n) == {j \in Job : jobs[j].status # "absent" /\ jobs[j].node = n}

ListScheduledForNode(n) == {j \in Job : jobs[j].status = "scheduled" /\ jobs[j].node = n}

UpdateStatus(j, s) == [jobs EXCEPT ![j].status = s]

\* mutant: node_id is not written
ScheduleNowhere(j, n) == [jobs EXCEPT ![j].status = "scheduled"]

Schedule(j, n) == [jobs EXCEPT ![j].status = "scheduled", ![j].node = n]

Requeue(j, s) ==
    [jobs EXCEPT ![j] = [@ EXCEPT !.status = s, !.node = NoNode,
                                  !.retry = jobs[j].retry + 1]]

-----------------------------------------------------------------------------
(* NodeRepository *)

\* mutant: re-registration announces a free machine
UpsertFree(n, cap) ==
    [nodes EXCEPT ![n] =
        IF nodes[n].status = "absent"
        THEN [status |-> "ready", cap |-> cap, avail |-> cap, fresh |-> TRUE]
        ELSE [nodes[n] EXCEPT !.cap = cap, !.avail = cap, !.fresh = TRUE]]

(* Re-registration overwrites capacity but neither status nor availability. *)
Upsert(n, cap) ==
    [nodes EXCEPT ![n] =
        IF nodes[n].status = "absent"
        THEN [status |-> "ready", cap |-> cap, avail |-> cap, fresh |-> TRUE]
        ELSE [nodes[n] EXCEPT !.cap = cap, !.fresh = TRUE]]

UpdateAvailability(n, avail) == [nodes EXCEPT ![n].avail = avail]

Heartbeat(n) ==
    LET status == IF nodes[n].status = "down" THEN "ready" ELSE nodes[n].status
    IN  [nodes EXCEPT ![n] = [nodes[n] EXCEPT !.fresh = TRUE, !.status = status]]

SetStatus(n, s) == [nodes EXCEPT ![n].status = s]

StaleNodes ==
    {n \in Node : nodes[n].status \in {"ready", "draining", "cordoned"} /\ ~ nodes[n].fresh}

MarkStaleDown ==
    [n \in Node |-> IF n \in StaleNodes THEN [nodes[n] EXCEPT !.status = "down"]
                                        ELSE nodes[n]]

\* mutant: selected_node is not written
RecordNowhere(j, ok, n) == [events EXCEPT ![j] = [success |-> ok, node |-> NoNode]]

(* EventRepository.Record *)
Record(j, ok, n) == [events EXCEPT ![j] = [success |-> ok, node |-> n]]
=============================================================================
