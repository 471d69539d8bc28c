------------------------------ MODULE Collector -----------------------------
(***************************************************************************)
(* How the metrics service counts jobs (internal/metricsvc/collector.go):  *)
(* one SELECT COUNT per status, while the other services move the jobs.    *)
(* A sample first counts for the cluster snapshot, as handleUtilization of *)
(* the gateway does, then once more for the gauge of each status.          *)
(*                                                                         *)
(* row[j] is the status of job j.  The statements of the other services    *)
(* appear only through what they do to it.                                 *)
(***************************************************************************)
EXTENDS Integers, Sequences, FiniteSets

CONSTANTS
    Tracked,        \* the jobs
    MaxMoves,       \* bound on status changes
    MaxCountFaults  \* bound on failed counts

ASSUME CollectorAssumption ==
    IsFiniteSet(Tracked) /\ MaxMoves \in Nat /\ MaxCountFaults \in Nat

VARIABLES
    row,       \* [Tracked -> Statuses \cup {"absent"}]
    sample,    \* the sample in progress: statements done, and what they returned
    gauge,     \* [Statuses -> Nat]: cluster_jobs_by_status
    moves,
    countFaults,
    began,     \* history: the jobs in the table when the sample began
    backed     \* history: the jobs moved against the order of the gauges during the sample

collection == <<row, sample, gauge, moves, countFaults, began, backed>>

(* The order of the counts for the snapshot and for the gauges.            *)
SnapshotOrder == <<"running", "scheduled", "queued">>

GaugeOrder ==
    <<"queued", "scheduled", "running", "completed", "failed", "cancelled", "preempted">>

(* The place of a status in the order of the gauges.                       *)
Rank == [absent |-> 0, queued |-> 1, scheduled |-> 2, running |-> 3, completed |-> 4,
         failed |-> 5, cancelled |-> 6, preempted |-> 7]

Statuses == {"queued", "scheduled", "running", "completed", "failed", "cancelled", "preempted"}

Done(k, c) == [step |-> k, counts |-> c]

NoCounts == [s \in {"running", "scheduled", "queued"} |-> 0]

CollectorInit ==
    /\ row = [j \in Tracked |-> "absent"]
    /\ sample = Done(0, NoCounts)
    /\ gauge = [s \in Statuses |-> 0]
    /\ moves = 0
    /\ countFaults = 0
    /\ began = {}
    /\ backed = {}

CollectorTypeOK ==
    /\ row \in [Tracked -> Statuses \cup {"absent"}]
    /\ sample \in [step : 0..10, counts : [{"running", "scheduled", "queued"} -> 0..Cardinality(Tracked)]]
    /\ gauge \in [Statuses -> 0..Cardinality(Tracked)]
    /\ moves \in 0..MaxMoves
    /\ countFaults \in 0..MaxCountFaults
    /\ began \subseteq Tracked
    /\ backed \subseteq Tracked

-----------------------------------------------------------------------------
(* One statement of another service.  A job is created queued; after that  *)
(* every statement writes its status by id, whatever the row says by then, *)
(* and often from a row read long before: any status may follow any other. *)
JobMoves(j) ==
    /\ moves < MaxMoves
    /\ moves' = moves + 1
    /\ \E s \in IF row[j] = "absent" THEN {"queued"} ELSE Statuses :
          /\ row' = [row EXCEPT ![j] = s]
          /\ backed' = IF sample.step # 0 /\ Rank[s] < Rank[row[j]] THEN backed \cup {j} ELSE backed
    /\ UNCHANGED <<sample, gauge, countFaults, began>>

-----------------------------------------------------------------------------
(* What a count returns.  An error is ignored, and the count is then 0;    *)
(* once the context is cancelled there is nothing but errors.              *)
CountByStatus(s, n, cancelled) ==
    \/ ~ cancelled /\ n = Cardinality({j \in Tracked : row[j] = s}) /\ countFaults' = countFaults
    \/ cancelled /\ n = 0 /\ countFaults' = countFaults
    \/ ~ cancelled /\ n = 0 /\ countFaults < MaxCountFaults /\ countFaults' = countFaults + 1

Counts == 0..Cardinality(Tracked)

(* sample: the node listing, whose failure ends it.                        *)
BeginSample(cancelled) ==
    /\ sample.step = 0
    /\ ~ cancelled
    /\ sample' = Done(1, NoCounts)
    /\ began' = {j \in Tracked : row[j] # "absent"}
    /\ backed' = {}
    /\ UNCHANGED <<row, gauge, moves, countFaults>>

\* mutant: the snapshot counts the queue first
CountBackwards(cancelled) ==
    /\ sample.step \in 1..3
    /\ LET s == SnapshotOrder[4 - sample.step]
       IN  \E n \in Counts : /\ CountByStatus(s, n, cancelled)
                             /\ sample' = Done(sample.step + 1, [sample.counts EXCEPT ![s] = n])
    /\ UNCHANGED <<row, gauge, moves, began, backed>>

CountForSnapshot(cancelled) ==
    /\ sample.step \in 1..3
    /\ LET s == SnapshotOrder[sample.step]
       IN  \E n \in Counts : /\ CountByStatus(s, n, cancelled)
                             /\ sample' = Done(sample.step + 1, [sample.counts EXCEPT ![s] = n])
    /\ UNCHANGED <<row, gauge, moves, began, backed>>

CountForGauge(cancelled) ==
    /\ sample.step \in 4..10
    /\ LET s == GaugeOrder[sample.step - 3]
       IN  \E n \in Counts : CountByStatus(s, n, cancelled) /\ gauge' = [gauge EXCEPT ![s] = n]
    /\ sample' = IF sample.step = 10 THEN Done(0, sample.counts)
                                     ELSE Done(sample.step + 1, sample.counts)
    /\ UNCHANGED <<row, moves, began, backed>>

CollectorStep(cancelled) ==
    BeginSample(cancelled) \/ CountForSnapshot(cancelled) \/ CountForGauge(cancelled)

-----------------------------------------------------------------------------
(* What ClusterSnapshot is given.                                          *)
JobsRunning == sample.counts["running"] + sample.counts["scheduled"]

JobsQueued == sample.counts["queued"]

GaugeTotal ==
    gauge["queued"] + gauge["scheduled"] + gauge["running"] + gauge["completed"]
        + gauge["failed"] + gauge["cancelled"] + gauge["preempted"]
=============================================================================
