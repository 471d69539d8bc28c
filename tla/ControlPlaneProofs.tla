------------------------- MODULE ControlPlaneProofs -------------------------
(***************************************************************************)
(* What one step of the engine does and preserves, whatever it runs next   *)
(* to; and the engine next to submissions, operators and node membership:  *)
(* types, availability and the sums of what is free and used, for every    *)
(* number of jobs and nodes, every algorithm and any number of faults and  *)
(* outages.                                                                *)
(***************************************************************************)
EXTENDS ControlPlane, TLAPS

-----------------------------------------------------------------------------
(* The steps of a tick *)

(* The target of a placement or eviction in progress is a node.            *)
TargetOK ==
    tick.phase \in {"persist", "record", "evict", "return", "evicted", "replace"}
        => tick.target \in Node

EngineInv == StoreTypeOK /\ EngineTypeOK /\ TargetOK

(* Reserving what fits leaves a typed row with exactly that much less.     *)
LEMMA ReserveType ==
    ASSUME NEW row \in NodeRow, NEW r \in Vec, Fits(row, r)
    PROVE  /\ Reserve(row, r) \in NodeRow
           /\ Reserve(row, r).cap = row.cap
           /\ Reserve(row, r).status = row.status
           /\ \A d \in Dim : Reserve(row, r).avail[d] = row.avail[d] - r[d]
BY DEF Reserve, NodeRow, Fits, Enough, Vec

(* Releasing leaves a typed row, clamped at the node's capacity.           *)
LEMMA ReleaseType ==
    ASSUME NEW row \in NodeRow, NEW r \in Vec
    PROVE  /\ Release(row, r) \in NodeRow
           /\ Release(row, r).cap = row.cap
           /\ Release(row, r).status = row.status
           /\ \A d \in Dim : Release(row, r).avail[d] <= row.cap[d]
BY DEF Release, NodeRow, Vec

(* Whichever algorithm chose it, the node a job is placed on fits it.      *)
LEMMA PlaceFits ==
    ASSUME NEW n, NEW r, NEW view, Place(Algorithm, n, r, view)
    PROVE  n \in Node /\ Fits(view[n], r)
BY Zenon DEF Place, FirstFitNode, BestFitNode, Fitting

(* The state between two ticks is well typed and plans nothing.            *)
LEMMA IdleType ==
    /\ Idle \in TickState
    /\ Idle.phase = "idle"
    /\ \A n \in Node, d \in Dim : Idle.view[n].avail[d] = 0 /\ Idle.view[n].cap[d] = 0
<1>1. NoNodeRow \in NodeRow
  BY Zenon DEF NoNodeRow, NodeRow, NodeStatus, Vec
<1>2. "idle" \in Phase
  BY Zenon DEF Phase
<1>3. Idle \in TickState
  BY <1>1, <1>2, Zenon DEF Idle, TickState
<1>4. Idle.phase = "idle" /\ Idle.view = [n \in Node |-> NoNodeRow]
  BY Zenon DEF Idle
<1> QED
  BY <1>3, <1>4 DEF NoNodeRow

(* The statements that update job rows keep the table's type.              *)
LEMMA JobStatements ==
    ASSUME jobs \in [Job -> JobRow], NEW j \in Job
    PROVE  /\ \A s \in JobStatus : UpdateStatus(j, s) \in [Job -> JobRow]
           /\ \A s \in JobStatus : Requeue(j, s) \in [Job -> JobRow]
           /\ \A n \in Node : Schedule(j, n) \in [Job -> JobRow]
<1>1. jobs[j] \in JobRow
  BY Zenon
<1>2. \A s \in JobStatus : UpdateStatus(j, s) \in [Job -> JobRow]
  BY <1>1, Zenon DEF UpdateStatus, JobRow
<1>3. ASSUME NEW s \in JobStatus
      PROVE  Requeue(j, s) \in [Job -> JobRow]
  <2> DEFINE row == [jobs[j] EXCEPT !.status = s, !.node = NoNode, !.retry = jobs[j].retry + 1]
  <2>0. jobs[j].retry + 1 \in Nat
    BY <1>1 DEF JobRow
  <2>1. row \in JobRow
    BY <1>1, <2>0, Zenon DEF JobRow
  <2>2. Requeue(j, s) = [jobs EXCEPT ![j] = row]
    BY Zenon DEF Requeue
  <2> HIDE DEF row
  <2> QED
    BY <2>1, <2>2, Zenon
<1>4. ASSUME NEW n \in Node
      PROVE  Schedule(j, n) \in [Job -> JobRow]
  <2>1. "scheduled" \in JobStatus
    BY Zenon DEF JobStatus
  <2> QED
    BY <1>1, <2>1, Zenon DEF Schedule, JobRow
<1> QED
  BY <1>2, <1>3, <1>4, Zenon

(* The statements that update node rows keep the table's type.             *)
LEMMA MarkStaleDownType ==
    ASSUME nodes \in [Node -> NodeRow]
    PROVE  MarkStaleDown \in [Node -> NodeRow]
BY Zenon DEF MarkStaleDown, NodeRow, NodeStatus

(* Writing a typed availability back keeps the table's type.               *)
LEMMA UpdateAvailabilityType ==
    ASSUME nodes \in [Node -> NodeRow], NEW n \in Node, NEW avail \in Vec
    PROVE  UpdateAvailability(n, avail) \in [Node -> NodeRow]
BY Zenon DEF UpdateAvailability, NodeRow

(* Recording a decision keeps the events table's type.                     *)
LEMMA EventStatements ==
    ASSUME events \in [Job -> Event], NEW j \in Job, NEW ok \in BOOLEAN,
           NEW n \in Node \cup {NoNode}
    PROVE  Record(j, ok, n) \in [Job -> Event]
BY Zenon DEF Record, Event

(* A statement draws at most one fault and leaves the table old or new.    *)
LEMMA StatementType ==
    ASSUME faults \in 0..MaxFaults, NEW ok \in BOOLEAN, Statement(ok)
    PROVE  faults' \in 0..MaxFaults
BY StoreAssumption DEF Statement

(* Applied or not, a statement leaves one of two typed tables.             *)
LEMMA AfterType ==
    ASSUME NEW S, NEW old \in S, NEW new \in S, NEW ok \in BOOLEAN, NEW x \in After(ok, old, new)
    PROVE  x \in S
BY Zenon DEF After

(* Moving on to the next job keeps the tick well typed.                    *)
LEMMA AdvanceType ==
    ASSUME NEW t \in TickState, NEW j \in Job
    PROVE  /\ Advance(t, j) \in TickState
           /\ Advance(t, j).phase \in {"idle", "place"}
           /\ Advance(t, j).view = t.view \/ Advance(t, j) = Idle
<1>1. CASE t.pending = {j}
  BY <1>1, IdleType, Zenon DEF Advance
<1>2. CASE t.pending # {j}
  <2>1. "place" \in Phase
    BY Zenon DEF Phase
  <2> QED
    BY <1>2, <2>1, Zenon DEF Advance, TickState
<1> QED
  BY <1>1, <1>2, Zenon

(* Moving on to the next victim keeps the tick well typed.                 *)
LEMMA AfterVictimType ==
    ASSUME NEW t \in TickState, NEW v \in Job
    PROVE  /\ AfterVictim(t, v) \in TickState
           /\ AfterVictim(t, v).view = t.view
           /\ AfterVictim(t, v).target = t.target
<1>1. {"evict", "evicted"} \subseteq Phase
  BY Zenon DEF Phase
<1> QED
  BY <1>1, Zenon DEF AfterVictim, TickState

-----------------------------------------------------------------------------
(* Each of the engine's steps keeps the types of the tables and of the     *)
(* tick's locals, and aims placements and evictions at real nodes.         *)
LEMMA EngineStep ==
    ASSUME EngineInv, EngineNext
    PROVE  EngineInv'
<1>0. /\ jobs \in [Job -> JobRow] /\ nodes \in [Node -> NodeRow]
      /\ events \in [Job -> Event] /\ clock \in Nat /\ faults \in 0..MaxFaults
      /\ tick \in TickState /\ TargetOK
  BY Zenon DEF EngineInv, StoreTypeOK, EngineTypeOK
<1> DEFINE Typed ==
      /\ jobs' \in [Job -> JobRow] /\ nodes' \in [Node -> NodeRow]
      /\ events' \in [Job -> Event] /\ clock' \in Nat /\ faults' \in 0..MaxFaults
      /\ tick' \in TickState
      /\ tick'.phase \in {"persist", "record", "evict", "return", "evicted", "replace"}
           => tick'.target \in Node
<1>1. SUFFICES Typed
  BY Zenon DEF EngineInv, StoreTypeOK, EngineTypeOK, TargetOK
<1>2. ASSUME NEW ok \in BOOLEAN, Statement(ok)
      PROVE  faults' \in 0..MaxFaults
  BY <1>0, <1>2, StatementType, Zenon
<1>3. {"idle", "lost", "requeue", "nodes", "queued", "active", "order", "place", "persist",
       "record", "evict", "return", "evicted", "replace"} \subseteq Phase
  BY Zenon DEF Phase
<1>4. Idle \in TickState /\ Idle.phase = "idle"
  BY IdleType, Zenon
<1>5. CASE StartTick
  <2>1. PICK ok \in BOOLEAN :
          /\ Statement(ok)
          /\ nodes' \in After(ok, nodes, MarkStaleDown)
          /\ tick' = IF ok /\ StaleNodes # {}
                     THEN [tick EXCEPT !.phase = "lost", !.dead = StaleNodes]
                     ELSE [tick EXCEPT !.phase = "nodes"]
    BY <1>5, Zenon DEF StartTick
  <2>2. nodes' \in [Node -> NodeRow]
    BY <1>0, <2>1, MarkStaleDownType, AfterType, Zenon
  <2>3. StaleNodes \subseteq Node
    BY Zenon DEF StaleNodes
  <2>4. tick' \in TickState /\ tick'.phase \in {"lost", "nodes"}
    BY <1>0, <1>3, <2>1, <2>3, Zenon DEF TickState
  <2> QED
    BY <1>0, <1>2, <1>5, <2>1, <2>2, <2>4, Zenon DEF StartTick
<1>6. CASE ListLost
  <2> DEFINE rows == LostActive
             t == [tick EXCEPT !.dead = {}]
             yes == [t EXCEPT !.phase = IF rows = {} THEN "nodes" ELSE "requeue", !.lost = rows]
             no == [t EXCEPT !.phase = "nodes"]
  <2>1. rows \in SUBSET [job : Job, retry : Nat]
    BY <1>0 DEF LostActive, LostRows, ListByStatuses, JobRow
  <2>2. t \in TickState
    BY <1>0, Zenon DEF TickState
  <2>3. Read(yes, no)
    BY <1>6, Zenon DEF ListLost
  <2> HIDE DEF rows, t
  <2>4. /\ yes \in TickState /\ yes.phase \in {"nodes", "requeue"}
        /\ no \in TickState /\ no.phase = "nodes"
    BY <1>3, <2>1, <2>2, Zenon DEF TickState
  <2> HIDE DEF yes, no
  <2> QED
    BY <1>0, <1>2, <2>3, <2>4, Zenon DEF Read
<1>7. CASE RequeueLost
  <2>1. PICK row \in tick.lost, ok \in BOOLEAN :
          /\ Statement(ok)
          /\ jobs' \in After(ok, jobs, IF Exhausted(row)
                                       THEN UpdateStatus(row.job, "failed")
                                       ELSE Requeue(row.job, "queued"))
          /\ tick' = [tick EXCEPT !.lost = @ \ {row},
                                  !.phase = IF tick.lost = {row} THEN "nodes" ELSE @]
    BY <1>7, Zenon DEF RequeueLost
  <2>2. row.job \in Job
    BY <1>0, Zenon DEF TickState
  <2>3. "failed" \in JobStatus /\ "queued" \in JobStatus
    BY Zenon DEF JobStatus
  <2>4. jobs' \in [Job -> JobRow]
    BY <1>0, <2>1, <2>2, <2>3, JobStatements, AfterType, Zenon
  <2>5. tick.phase = "requeue"
    BY <1>7, Zenon DEF RequeueLost
  <2>6. tick' \in TickState /\ tick'.phase \in {"nodes", "requeue"}
    BY <1>0, <1>3, <2>1, <2>5, Zenon DEF TickState
  <2> QED
    BY <1>0, <1>2, <1>7, <2>1, <2>4, <2>6, Zenon DEF RequeueLost
<1>8. CASE ListNodes
  <2> DEFINE yes == [tick EXCEPT !.phase = "queued", !.view = nodes]
  <2>1. Read(yes, Idle)
    BY <1>8, Zenon DEF ListNodes
  <2>2. yes \in TickState /\ yes.phase = "queued"
    BY <1>0, <1>3, Zenon DEF TickState
  <2> HIDE DEF yes
  <2> QED
    BY <1>0, <1>2, <1>4, <2>1, <2>2, Zenon DEF Read
<1>9. CASE ListQueued
  <2> DEFINE yes == [tick EXCEPT !.phase = "active", !.pending = ListByStatuses({"queued"})]
  <2>1. Read(yes, Idle)
    BY <1>9, Zenon DEF ListQueued
  <2>2. ListByStatuses({"queued"}) \in SUBSET Job
    BY Zenon DEF ListByStatuses
  <2>3. yes \in TickState /\ yes.phase = "active"
    BY <1>0, <1>3, <2>2, Zenon DEF TickState
  <2> HIDE DEF yes
  <2> QED
    BY <1>0, <1>2, <1>4, <2>1, <2>3, Zenon DEF Read
<1>10. CASE ListActive
  <2> DEFINE active == ListByStatuses({"scheduled", "running"})
             found == [n \in Node |-> {j \in active : jobs[j].node = n}]
             yes == IF tick.pending = {} THEN Idle
                    ELSE [tick EXCEPT !.phase = "order", !.running = found]
  <2>1. Read(yes, Idle)
    BY <1>10, Zenon DEF ListActive
  <2>2. found \in [Node -> SUBSET Job]
    BY Zenon DEF ListByStatuses
  <2> HIDE DEF found
  <2>3. yes \in TickState /\ yes.phase \in {"idle", "order"}
    BY <1>0, <1>3, <1>4, <2>2, Zenon DEF TickState
  <2> HIDE DEF yes
  <2> QED
    BY <1>0, <1>2, <1>4, <2>1, <2>3, Zenon DEF Read
<1>11. CASE OrderQueue
  <2> DEFINE active == IF Algorithm = "fair-share"
                       THEN ListByStatuses({"scheduled", "running"}) ELSE {}
             no == [tick EXCEPT !.phase = "place", !.now = clock]
             yes == [no EXCEPT !.usage = active]
  <2>1. Read(yes, no)
    BY <1>11, Zenon DEF OrderQueue
  <2>2. active \in SUBSET Job
    BY Zenon DEF ListByStatuses
  <2> HIDE DEF active
  <2>3. no \in TickState /\ no.phase = "place"
    BY <1>0, <1>3, Zenon DEF TickState
  <2> HIDE DEF no
  <2>4. yes \in TickState /\ yes.phase = "place"
    BY <2>2, <2>3, Zenon DEF TickState
  <2> HIDE DEF yes
  <2> QED
    BY <1>0, <1>2, <2>1, <2>3, <2>4, Zenon DEF Read
<1>12. ASSUME NEW j \in Job, NEW n \in Node, CommitPlacement(j, n)
       PROVE  Typed
  <2> DEFINE reserved == Reserve(tick.view[n], Request[j])
             t == [tick EXCEPT !.view[n] = reserved, !.running[n] = @ \cup {j}, !.target = n]
             back == [t EXCEPT !.view[n] = Release(reserved, Request[j])]
  <2>1. PICK ok \in BOOLEAN :
          /\ Statement(ok)
          /\ jobs' \in After(ok, jobs, Schedule(j, n))
          /\ tick' = IF ok THEN [t EXCEPT !.phase = "persist"] ELSE Advance(back, j)
    BY <1>12, Zenon DEF CommitPlacement
  <2>2. jobs' \in [Job -> JobRow]
    BY <1>0, <2>1, JobStatements, AfterType, Zenon
  <2>3. reserved \in NodeRow
    <3>1. Fits(tick.view[n], Request[j])
      BY <1>12, PlaceFits, Zenon DEF CommitPlacement
    <3>2. tick.view[n] \in NodeRow /\ Request[j] \in Vec
      BY <1>0, JobAssumption, Zenon DEF TickState
    <3> QED
      BY <3>1, <3>2, ReserveType, Zenon
  <2>4. Release(reserved, Request[j]) \in NodeRow
    BY <2>3, JobAssumption, ReleaseType, Zenon
  <2> HIDE DEF reserved
  <2>5. t \in TickState /\ t.target = n
    BY <1>0, <2>3, Zenon DEF TickState
  <2> HIDE DEF t
  <2>6. back \in TickState
    BY <2>4, <2>5, Zenon DEF TickState
  <2> HIDE DEF back
  <2>7. CASE ok
    <3>1. tick' \in TickState /\ tick'.target \in Node
      BY <1>3, <2>1, <2>5, <2>7, Zenon DEF TickState
    <3> QED
      BY <1>0, <1>2, <1>12, <2>1, <2>2, <3>1, Zenon DEF CommitPlacement
  <2>8. CASE ~ ok
    <3>1. tick' \in TickState /\ tick'.phase \in {"idle", "place"}
      BY <2>1, <2>6, <2>8, AdvanceType, Zenon
    <3> QED
      BY <1>0, <1>2, <1>12, <2>1, <2>2, <3>1, Zenon DEF CommitPlacement
  <2> QED
    BY <2>7, <2>8, Zenon
<1>13. ASSUME PersistPlacement \/ PersistEviction
       PROVE  Typed
  <2>1. tick.target \in Node
    BY <1>0, <1>13, Zenon DEF PersistPlacement, PersistEviction, TargetOK
  <2>2. PICK ok \in BOOLEAN :
          /\ Statement(ok)
          /\ nodes' \in After(ok, nodes,
                              UpdateAvailability(tick.target, tick.view[tick.target].avail))
    BY <1>13, Zenon DEF PersistPlacement, PersistEviction
  <2>3. tick.view[tick.target].avail \in Vec
    BY <1>0, <2>1, Zenon DEF TickState, NodeRow
  <2>4. nodes' \in [Node -> NodeRow]
    <3>1. UpdateAvailability(tick.target, tick.view[tick.target].avail) \in [Node -> NodeRow]
      BY <1>0, <2>1, <2>3, UpdateAvailabilityType, Zenon
    <3> QED
      BY <1>0, <2>2, <3>1, Zenon DEF After
  <2>5. tick' \in TickState /\ tick'.target = tick.target
    BY <1>0, <1>3, <1>13 DEF PersistPlacement, PersistEviction, TickState
  <2> QED
    BY <1>0, <1>2, <1>13, <2>1, <2>2, <2>4, <2>5, Zenon DEF PersistPlacement, PersistEviction
<1>14. ASSUME NEW j \in Job, RecordPlacement(j) \/ GiveUp(j)
       PROVE  Typed
  <2>1. tick.target \in Node \cup {NoNode}
    BY <1>0, Zenon DEF TickState
  <2>2. \E ok \in BOOLEAN, success \in BOOLEAN, n \in Node \cup {NoNode} :
          Statement(ok) /\ events' \in After(ok, events, Record(j, success, n))
    <3>1. CASE RecordPlacement(j)
      BY <2>1, <3>1, Zenon DEF RecordPlacement, RecordEvent
    <3>2. CASE GiveUp(j)
      BY <3>2, Zenon DEF GiveUp, RecordEvent
    <3> QED
      BY <1>14, <3>1, <3>2, Zenon
  <2>3. PICK ok \in BOOLEAN, success \in BOOLEAN, n \in Node \cup {NoNode} :
          Statement(ok) /\ events' \in After(ok, events, Record(j, success, n))
    BY <2>2, Zenon
  <2>4. events' \in [Job -> Event]
    BY <1>0, <2>3, EventStatements, AfterType, Zenon
  <2>5. tick' \in TickState /\ tick'.phase \in {"idle", "place"}
    BY <1>0, <1>14, AdvanceType, Zenon DEF RecordPlacement, GiveUp
  <2> QED
    BY <1>0, <1>2, <1>14, <2>3, <2>4, <2>5, Zenon DEF RecordPlacement, GiveUp
<1>15. ASSUME NEW j \in Job, PlanPreemption(j)
       PROVE  Typed
  <2>1. PICK p \in Plans(j, tick.view, tick.running, Created) :
          tick' = [tick EXCEPT !.phase = "evict", !.victims = p.victims, !.target = p.node]
    BY <1>15, Zenon DEF PlanPreemption
  <2>2. p.node \in Node /\ p.victims \subseteq Job
    BY <1>0 DEF Plans, Candidates, TickState
  <2>3. tick' \in TickState /\ tick'.target \in Node
    BY <1>0, <1>3, <2>1, <2>2, Zenon DEF TickState
  <2> QED
    BY <1>0, <1>15, <2>3, Zenon DEF PlanPreemption, store
<1>16. ASSUME NEW v \in Job, EvictVictim(v)
       PROVE  Typed
  <2> DEFINE n == tick.target
             t == [tick EXCEPT !.view[n] = Release(@, Request[v])]
  <2>1. PICK ok \in BOOLEAN :
          /\ Statement(ok)
          /\ jobs' \in After(ok, jobs, Requeue(v, "preempted"))
          /\ tick' = IF ok THEN [t EXCEPT !.phase = "return"] ELSE AfterVictim(t, v)
    BY <1>16, Zenon DEF EvictVictim
  <2>2. n \in Node
    BY <1>0, <1>16, Zenon DEF EvictVictim, TargetOK
  <2>3. "preempted" \in JobStatus
    BY Zenon DEF JobStatus
  <2>4. jobs' \in [Job -> JobRow]
    BY <1>0, <2>1, <2>3, JobStatements, AfterType, Zenon
  <2>5. Release(tick.view[n], Request[v]) \in NodeRow
    <3>1. tick.view[n] \in NodeRow /\ Request[v] \in Vec
      BY <1>0, <2>2, JobAssumption, Zenon DEF TickState
    <3> QED
      BY <3>1, ReleaseType, Zenon
  <2>6. t \in TickState /\ t.target = n
    BY <1>0, <2>2, <2>5, Zenon DEF TickState
  <2> HIDE DEF t
  <2>7. tick' \in TickState /\ tick'.target = n
    <3>1. CASE ok
      BY <1>3, <2>1, <2>6, <3>1, Zenon DEF TickState
    <3>2. CASE ~ ok
      BY <2>1, <2>6, <3>2, AfterVictimType, Zenon
    <3> QED
      BY <3>1, <3>2, Zenon
  <2> QED
    BY <1>0, <1>2, <1>16, <2>1, <2>2, <2>4, <2>7, Zenon DEF EvictVictim
<1>17. ASSUME NEW v \in Job, ReturnVictim(v)
       PROVE  Typed
  <2>1. PICK ok \in BOOLEAN :
          /\ Statement(ok)
          /\ jobs' \in After(ok, jobs, UpdateStatus(v, "queued"))
    BY <1>17, Zenon DEF ReturnVictim
  <2>2. "queued" \in JobStatus
    BY Zenon DEF JobStatus
  <2>3. jobs' \in [Job -> JobRow]
    BY <1>0, <2>1, <2>2, JobStatements, AfterType, Zenon
  <2>4. tick.target \in Node
    BY <1>0, <1>17, Zenon DEF ReturnVictim, TargetOK
  <2>5. tick' \in TickState /\ tick'.target = tick.target
    BY <1>0, <1>17, AfterVictimType, Zenon DEF ReturnVictim
  <2> QED
    BY <1>0, <1>2, <1>17, <2>1, <2>3, <2>4, <2>5, Zenon DEF ReturnVictim
<1>18. CASE Stop
  BY <1>0, <1>4, <1>18, StoreAssumption DEF Stop
<1> QED
  BY <1>5, <1>6, <1>7, <1>8, <1>9, <1>10, <1>11, <1>12, <1>13, <1>14, <1>15, <1>16, <1>17,
     <1>18, Zenon DEF EngineNext, TickStep
-----------------------------------------------------------------------------
(* Availability within capacity, in the table and in the engine's view,    *)
(* and the view's capacity no larger than the table's: what the engine     *)
(* writes back is then within the capacity of the row it is written to.    *)
Bounded ==
    \A n \in Node, d \in Dim :
        /\ nodes[n].avail[d] <= nodes[n].cap[d]
        /\ tick.view[n].avail[d] <= tick.view[n].cap[d]
        /\ tick.view[n].cap[d] <= nodes[n].cap[d]

(* The engine writes no node column but status and availability, and       *)
(* availability only from its view.                                        *)
LEMMA EngineWrites ==
    ASSUME EngineInv, EngineNext
    PROVE  \A n \in Node :
              /\ nodes'[n].cap = nodes[n].cap
              /\ nodes'[n].avail = nodes[n].avail \/ nodes'[n].avail = tick.view[n].avail
<1>0. nodes \in [Node -> NodeRow]
  BY Zenon DEF EngineInv, StoreTypeOK
<1>1. CASE nodes' = nodes
  BY <1>1, Zenon
<1>2. CASE nodes' = MarkStaleDown
  BY <1>0, <1>2, Zenon DEF MarkStaleDown, NodeRow
<1>3. CASE /\ tick.target \in Node
           /\ nodes' = UpdateAvailability(tick.target, tick.view[tick.target].avail)
  BY <1>0, <1>3, Zenon DEF UpdateAvailability, NodeRow
<1>4. ASSUME PersistPlacement \/ PersistEviction
      PROVE  \/ nodes' = nodes
             \/ /\ tick.target \in Node
                /\ nodes' = UpdateAvailability(tick.target, tick.view[tick.target].avail)
  BY <1>4, Zenon DEF PersistPlacement, PersistEviction, After, EngineInv, TargetOK
<1>5. StartTick => nodes' = nodes \/ nodes' = MarkStaleDown
  BY Zenon DEF StartTick, After
<1>6. \/ StartTick \/ PersistPlacement \/ PersistEviction \/ nodes' = nodes
  BY Zenon DEF EngineNext, TickStep, ListLost, RequeueLost, ListNodes, ListQueued, ListActive,
         OrderQueue, Read, CommitPlacement, RecordPlacement, GiveUp, PlanPreemption,
         EvictVictim, ReturnVictim, Stop, store
<1> QED
  BY <1>1, <1>2, <1>3, <1>4, <1>5, <1>6, Zenon

(* A row of the engine's view after a step is the row before it with an    *)
(* availability within the same capacity, a row just read, or empty.       *)
ViewStep(n) ==
    \/ tick'.view[n] = tick.view[n]
    \/ /\ tick'.view[n].cap = tick.view[n].cap
       /\ \A d \in Dim : tick'.view[n].avail[d] <= tick.view[n].cap[d]
    \/ tick'.view[n] = nodes[n]
    \/ tick' = Idle

(* Every change an engine step makes to its view is one of the above.      *)
LEMMA EngineViews ==
    ASSUME EngineInv, EngineNext, Bounded
    PROVE  \A n \in Node : ViewStep(n)
<1>0. tick \in TickState /\ TargetOK
  BY Zenon DEF EngineInv, EngineTypeOK
<1>1. CASE tick'.view = tick.view \/ tick' = Idle \/ tick'.view = nodes
  BY <1>1, Zenon DEF ViewStep
<1>2. ASSUME StartTick \/ RequeueLost \/ PersistPlacement \/ PersistEviction \/ Stop
      PROVE  tick'.view = tick.view \/ tick' = Idle
  BY <1>0, <1>2, Zenon DEF StartTick, RequeueLost, PersistPlacement, PersistEviction, Stop, TickState
<1>3. ASSUME ListLost \/ ListNodes \/ ListQueued \/ ListActive \/ OrderQueue
      PROVE  tick'.view = tick.view \/ tick' = Idle \/ tick'.view = nodes
  BY <1>0, <1>3, Zenon DEF ListLost, ListNodes, ListQueued, ListActive, OrderQueue, Read, TickState
<1>4. ASSUME NEW j \in Job, RecordPlacement(j) \/ GiveUp(j) \/ PlanPreemption(j)
      PROVE  tick'.view = tick.view \/ tick' = Idle
  BY <1>0, <1>4, AdvanceType, Zenon DEF RecordPlacement, GiveUp, PlanPreemption, TickState
<1>5. ASSUME NEW v \in Job, ReturnVictim(v)
      PROVE  tick'.view = tick.view
  BY <1>0, <1>5, AfterVictimType, Zenon DEF ReturnVictim
<1>6. ASSUME NEW j \in Job, NEW m \in Node, CommitPlacement(j, m)
      PROVE  \A n \in Node : ViewStep(n)
  <2> DEFINE reserved == Reserve(tick.view[m], Request[j])
             t == [tick EXCEPT !.view[m] = reserved, !.running[m] = @ \cup {j}, !.target = m]
             back == [t EXCEPT !.view[m] = Release(reserved, Request[j])]
  <2>1. PICK ok \in BOOLEAN :
          tick' = IF ok THEN [t EXCEPT !.phase = "persist"] ELSE Advance(back, j)
    BY <1>6, Zenon DEF CommitPlacement
  <2>2. tick.view[m] \in NodeRow /\ Request[j] \in Vec
    BY <1>0, JobAssumption, Zenon DEF TickState
  <2>3. Fits(tick.view[m], Request[j])
    BY <1>6, PlaceFits, Zenon DEF CommitPlacement
  <2>4. /\ reserved \in NodeRow /\ reserved.cap = tick.view[m].cap
        /\ \A d \in Dim : reserved.avail[d] = tick.view[m].avail[d] - Request[j][d]
    BY <2>2, <2>3, ReserveType, Zenon
  <2>5. /\ Release(reserved, Request[j]) \in NodeRow
        /\ Release(reserved, Request[j]).cap = tick.view[m].cap
        /\ \A d \in Dim : Release(reserved, Request[j]).avail[d] <= tick.view[m].cap[d]
    BY <2>2, <2>4, ReleaseType, Zenon
  <2>6. \A d \in Dim : reserved.avail[d] <= tick.view[m].cap[d]
    <3> SUFFICES ASSUME NEW d \in Dim PROVE reserved.avail[d] <= tick.view[m].cap[d]
      BY Zenon
    <3>1. tick.view[m].avail[d] \in Nat /\ tick.view[m].cap[d] \in Nat /\ Request[j][d] \in Nat
      BY <2>2, Zenon DEF NodeRow, Vec
    <3>2. tick.view[m].avail[d] <= tick.view[m].cap[d]
      BY Zenon DEF Bounded
    <3>3. reserved.avail[d] = tick.view[m].avail[d] - Request[j][d]
      BY <2>4, Zenon
    <3> HIDE DEF reserved
    <3> QED
      BY <3>1, <3>2, <3>3
  <2> HIDE DEF reserved
  <2>7. t \in TickState /\ t.view = [tick.view EXCEPT ![m] = reserved]
    BY <1>0, <2>4, Zenon DEF TickState
  <2> HIDE DEF t
  <2>8. /\ back \in TickState
        /\ back.view = [tick.view EXCEPT ![m] = Release(reserved, Request[j])]
    BY <1>0, <2>5, <2>7, Zenon DEF TickState
  <2> HIDE DEF back
  <2>9. tick.view \in [Node -> NodeRow]
    BY <1>0, Zenon DEF TickState
  <2>10. CASE ok
    <3>1. tick'.view = [tick.view EXCEPT ![m] = reserved]
      BY <2>1, <2>7, <2>10, Zenon DEF TickState
    <3> QED
      BY <2>4, <2>6, <2>9, <3>1, Zenon DEF ViewStep
  <2>11. CASE ~ ok
    <3>1. tick'.view = [tick.view EXCEPT ![m] = Release(reserved, Request[j])] \/ tick' = Idle
      BY <2>1, <2>8, <2>11, AdvanceType, Zenon
    <3> QED
      BY <2>5, <2>9, <3>1, Zenon DEF ViewStep
  <2> QED
    BY <2>10, <2>11, Zenon
<1>7. ASSUME NEW v \in Job, EvictVictim(v)
      PROVE  \A n \in Node : ViewStep(n)
  <2> DEFINE m == tick.target
             t == [tick EXCEPT !.view[m] = Release(@, Request[v])]
  <2>1. PICK ok \in BOOLEAN :
          tick' = IF ok THEN [t EXCEPT !.phase = "return"] ELSE AfterVictim(t, v)
    BY <1>7, Zenon DEF EvictVictim
  <2>2. m \in Node
    BY <1>0, <1>7, Zenon DEF EvictVictim, TargetOK
  <2>3. tick.view \in [Node -> NodeRow] /\ Request[v] \in Vec
    BY <1>0, JobAssumption, Zenon DEF TickState
  <2>4. /\ Release(tick.view[m], Request[v]) \in NodeRow
        /\ Release(tick.view[m], Request[v]).cap = tick.view[m].cap
        /\ \A d \in Dim : Release(tick.view[m], Request[v]).avail[d] <= tick.view[m].cap[d]
    BY <2>2, <2>3, ReleaseType, Zenon
  <2>5. /\ t \in TickState
        /\ t.view = [tick.view EXCEPT ![m] = Release(tick.view[m], Request[v])]
    BY <1>0, <2>2, <2>4, Zenon DEF TickState
  <2> HIDE DEF t
  <2>6. tick'.view = t.view
    BY <2>1, <2>5, AfterVictimType, Zenon DEF TickState
  <2> QED
    BY <2>2, <2>3, <2>4, <2>5, <2>6, Zenon DEF ViewStep
<1> QED
  BY <1>1, <1>2, <1>3, <1>4, <1>5, <1>6, <1>7, Zenon DEF EngineNext, TickStep

(* Each of the engine's steps keeps availability within capacity.          *)
LEMMA EngineBounded ==
    ASSUME EngineInv, EngineNext, Bounded
    PROVE  Bounded'
<1>1. \A n \in Node :
         /\ nodes'[n].cap = nodes[n].cap
         /\ nodes'[n].avail = nodes[n].avail \/ nodes'[n].avail = tick.view[n].avail
  BY EngineWrites, Zenon
<1>2. \A n \in Node : ViewStep(n)
  BY EngineViews, Zenon
<1>3. nodes \in [Node -> NodeRow] /\ tick \in TickState
  BY Zenon DEF EngineInv, StoreTypeOK, EngineTypeOK
<1>4. SUFFICES ASSUME NEW n \in Node, NEW d \in Dim
      PROVE  /\ nodes'[n].avail[d] <= nodes'[n].cap[d]
             /\ tick'.view[n].avail[d] <= tick'.view[n].cap[d]
             /\ tick'.view[n].cap[d] <= nodes'[n].cap[d]
  BY Zenon DEF Bounded
<1>5. /\ nodes[n].avail[d] \in Nat /\ nodes[n].cap[d] \in Nat
      /\ tick.view[n].avail[d] \in Nat /\ tick.view[n].cap[d] \in Nat
  BY <1>3 DEF TickState, NodeRow, Vec
<1>6. nodes'[n].avail[d] <= nodes'[n].cap[d]
  BY <1>1, <1>5 DEF Bounded
<1>7. /\ tick'.view[n].avail[d] <= tick'.view[n].cap[d]
      /\ tick'.view[n].cap[d] <= nodes'[n].cap[d]
  <2>1. ViewStep(n) /\ nodes'[n].cap = nodes[n].cap
    BY <1>1, <1>2, Zenon
  <2>2. CASE tick' = Idle
    BY <1>5, <2>1, <2>2, IdleType
  <2>3. CASE tick' # Idle
    <3>1. /\ nodes[n].avail[d] <= nodes[n].cap[d]
          /\ tick.view[n].avail[d] <= tick.view[n].cap[d]
          /\ tick.view[n].cap[d] <= nodes[n].cap[d]
      BY Zenon DEF Bounded
    <3> QED
      BY <1>5, <2>1, <2>3, <3>1 DEF ViewStep
  <2> QED
    BY <2>2, <2>3, Zenon
<1> QED
  BY <1>6, <1>7, Zenon

-----------------------------------------------------------------------------
(* What each step does to the tables and to the locals, field by field *)

KeepsQueue == tick'.pending = tick.pending /\ tick'.usage = tick.usage /\ tick'.now = tick.now

KeepsView == tick'.view = tick.view /\ tick'.running = tick.running

KeepsPlan == tick'.victims = tick.victims /\ tick'.target = tick.target

KeepsLost == tick'.dead = tick.dead /\ tick'.lost = tick.lost

(* The first statement of a tick: either it worked, and the tick looks for *)
(* the jobs of the nodes it marked down, or it goes on to the listings.    *)
LEMMA StartEffect ==
    ASSUME EngineInv, StartTick
    PROVE  /\ tick.phase = "idle" /\ UNCHANGED <<jobs, events, clock>>
           /\ KeepsQueue /\ KeepsView /\ KeepsPlan /\ tick'.lost = tick.lost
           /\ nodes' \in {nodes, MarkStaleDown}
           /\ \/ /\ tick'.phase = "lost" /\ tick'.dead = StaleNodes /\ StaleNodes # {}
                 /\ nodes' = MarkStaleDown /\ faults' = faults
              \/ /\ tick'.phase = "nodes" /\ tick'.dead = tick.dead
                 /\ \/ faults' = faults /\ StaleNodes = {} /\ nodes' = MarkStaleDown
                    \/ faults < MaxFaults /\ faults' = faults + 1
<1>0. tick \in TickState
  BY Zenon DEF EngineInv, EngineTypeOK
<1>1. PICK ok \in BOOLEAN :
        /\ Statement(ok)
        /\ nodes' \in After(ok, nodes, MarkStaleDown)
        /\ tick' = IF ok /\ StaleNodes # {}
                   THEN [tick EXCEPT !.phase = "lost", !.dead = StaleNodes]
                   ELSE [tick EXCEPT !.phase = "nodes"]
  BY Zenon DEF StartTick
<1>2. tick.phase = "idle" /\ UNCHANGED <<jobs, events, clock>>
  BY Zenon DEF StartTick
<1>3. KeepsQueue /\ KeepsView /\ KeepsPlan /\ tick'.lost = tick.lost
  BY <1>0, <1>1, Zenon DEF TickState, KeepsQueue, KeepsView, KeepsPlan
<1>4. CASE ok /\ StaleNodes # {}
  BY <1>0, <1>1, <1>2, <1>3, <1>4, Zenon DEF TickState, Statement, After
<1>5. CASE ~ (ok /\ StaleNodes # {})
  BY <1>0, <1>1, <1>2, <1>3, <1>5, Zenon DEF TickState, Statement, After
<1> QED
  BY <1>4, <1>5, Zenon

(* A read takes the tick to one of two states and fails only for a fault.  *)
LEMMA ReadEffect ==
    ASSUME NEW t, NEW u, Read(t, u)
    PROVE  /\ UNCHANGED <<jobs, nodes, events, clock>>
           /\ \/ tick' = t /\ faults' = faults
              \/ tick' = u /\ faults < MaxFaults /\ faults' = faults + 1
BY Zenon DEF Read, Statement

(* The listing of lost jobs.                                               *)
LEMMA ListLostEffect ==
    ASSUME EngineInv, ListLost
    PROVE  /\ tick.phase = "lost" /\ UNCHANGED <<jobs, nodes, events, clock>>
           /\ KeepsQueue /\ KeepsView /\ KeepsPlan /\ tick'.dead = {}
           /\ \/ /\ tick'.phase = "requeue" /\ tick'.lost = LostActive /\ faults' = faults
              \/ /\ tick'.phase = "nodes"
                 /\ \/ faults' = faults /\ LostActive = {} /\ tick'.lost = {}
                    \/ faults < MaxFaults /\ faults' = faults + 1 /\ tick'.lost = tick.lost
<1>0. tick \in TickState
  BY Zenon DEF EngineInv, EngineTypeOK
<1> DEFINE rows == LostActive
           t == [tick EXCEPT !.dead = {}]
           yes == [t EXCEPT !.phase = IF rows = {} THEN "nodes" ELSE "requeue", !.lost = rows]
           no == [t EXCEPT !.phase = "nodes"]
<1>1. Read(yes, no) /\ tick.phase = "lost"
  BY Zenon DEF ListLost
<1>2. /\ UNCHANGED <<jobs, nodes, events, clock>>
      /\ \/ tick' = yes /\ faults' = faults
         \/ tick' = no /\ faults < MaxFaults /\ faults' = faults + 1
  <2> HIDE DEF yes, no
  <2> QED
    BY <1>1, ReadEffect, Zenon
<1> HIDE DEF rows
<1>3. CASE tick' = yes /\ faults' = faults
  BY <1>0, <1>1, <1>2, <1>3, Zenon DEF TickState, KeepsQueue, KeepsView, KeepsPlan, rows
<1>4. CASE tick' = no /\ faults < MaxFaults /\ faults' = faults + 1
  BY <1>0, <1>1, <1>2, <1>4, Zenon DEF TickState, KeepsQueue, KeepsView, KeepsPlan
<1> QED
  BY <1>2, <1>3, <1>4, Zenon

(* One lost job is failed or requeued, or its statement fails; either way  *)
(* the loop moves past it.                                                 *)
LEMMA RequeueEffect ==
    ASSUME EngineInv, RequeueLost
    PROVE  /\ tick.phase = "requeue" /\ UNCHANGED <<nodes, events, clock>>
           /\ KeepsQueue /\ KeepsView /\ KeepsPlan /\ tick'.dead = tick.dead
           /\ \E row \in tick.lost :
                 /\ row.job \in Job /\ row.retry \in Nat
                 /\ tick'.lost = tick.lost \ {row}
                 /\ tick'.phase = IF tick.lost = {row} THEN "nodes" ELSE "requeue"
                 /\ \/ /\ jobs' = IF Exhausted(row) THEN UpdateStatus(row.job, "failed")
                                                    ELSE Requeue(row.job, "queued")
                    \/ jobs' = jobs /\ faults < MaxFaults
<1>0. tick \in TickState
  BY Zenon DEF EngineInv, EngineTypeOK
<1>1. PICK row \in tick.lost, ok \in BOOLEAN :
        /\ Statement(ok)
        /\ jobs' \in After(ok, jobs, IF Exhausted(row)
                                     THEN UpdateStatus(row.job, "failed")
                                     ELSE Requeue(row.job, "queued"))
        /\ tick' = [tick EXCEPT !.lost = @ \ {row},
                                !.phase = IF tick.lost = {row} THEN "nodes" ELSE @]
  BY Zenon DEF RequeueLost
<1>2. tick.phase = "requeue" /\ UNCHANGED <<nodes, events, clock>>
  BY Zenon DEF RequeueLost
<1>3. row.job \in Job /\ row.retry \in Nat
  BY <1>0, <1>1, Zenon DEF TickState
<1>4. KeepsQueue /\ KeepsView /\ KeepsPlan /\ tick'.dead = tick.dead
  BY <1>0, <1>1, Zenon DEF TickState, KeepsQueue, KeepsView, KeepsPlan
<1>5. /\ tick'.lost = tick.lost \ {row}
      /\ tick'.phase = IF tick.lost = {row} THEN "nodes" ELSE "requeue"
  BY <1>0, <1>1, <1>2, Zenon DEF TickState
<1>6. \/ /\ jobs' = IF Exhausted(row) THEN UpdateStatus(row.job, "failed")
                                      ELSE Requeue(row.job, "queued")
      \/ jobs' = jobs /\ faults < MaxFaults
  BY <1>1, Zenon DEF Statement, After
<1> QED
  BY <1>2, <1>3, <1>4, <1>5, <1>6, Zenon

(* The three listings and the ordering: the copies a tick works on.        *)
LEMMA ListingEffect ==
    ASSUME EngineInv, ListNodes \/ ListQueued \/ ListActive \/ OrderQueue
    PROVE  /\ UNCHANGED <<jobs, nodes, events, clock>>
           /\ \/ tick' = Idle
              \/ /\ tick.phase = "nodes" /\ tick'.phase = "queued" /\ tick'.view = nodes
                 /\ tick'.running = tick.running /\ KeepsQueue /\ KeepsPlan /\ KeepsLost
              \/ /\ tick.phase = "queued" /\ tick'.phase = "active"
                 /\ tick'.pending = ListByStatuses({"queued"})
                 /\ tick'.usage = tick.usage /\ KeepsView /\ KeepsPlan /\ KeepsLost
              \/ /\ tick.phase = "active" /\ tick'.phase = "order"
                 /\ \A n \in Node :
                       tick'.running[n] = {j \in ListByStatuses({"scheduled", "running"}) :
                                              jobs[j].node = n}
                 /\ tick'.view = tick.view /\ KeepsQueue /\ KeepsPlan /\ KeepsLost
              \/ /\ tick.phase = "order" /\ tick'.phase = "place"
                 /\ tick'.pending = tick.pending /\ KeepsView /\ KeepsPlan /\ KeepsLost
<1>0. tick \in TickState
  BY Zenon DEF EngineInv, EngineTypeOK
<1> USE DEF KeepsQueue, KeepsView, KeepsPlan, KeepsLost
<1>1. CASE ListNodes
  <2> DEFINE yes == [tick EXCEPT !.phase = "queued", !.view = nodes]
  <2>1. Read(yes, Idle) /\ tick.phase = "nodes"
    BY <1>1, Zenon DEF ListNodes
  <2>2. UNCHANGED <<jobs, nodes, events, clock>> /\ (tick' = yes \/ tick' = Idle)
    <3> HIDE DEF yes
    <3> QED
      BY <2>1, ReadEffect, Zenon
  <2> QED
    BY <1>0, <2>1, <2>2, Zenon DEF TickState
<1>2. CASE ListQueued
  <2> DEFINE yes == [tick EXCEPT !.phase = "active", !.pending = ListByStatuses({"queued"})]
  <2>1. Read(yes, Idle) /\ tick.phase = "queued"
    BY <1>2, Zenon DEF ListQueued
  <2>2. UNCHANGED <<jobs, nodes, events, clock>> /\ (tick' = yes \/ tick' = Idle)
    <3> HIDE DEF yes
    <3> QED
      BY <2>1, ReadEffect, Zenon
  <2> QED
    BY <1>0, <2>1, <2>2, Zenon DEF TickState
<1>3. CASE ListActive
  <2> DEFINE active == ListByStatuses({"scheduled", "running"})
             found == [n \in Node |-> {j \in active : jobs[j].node = n}]
             yes == IF tick.pending = {} THEN Idle
                    ELSE [tick EXCEPT !.phase = "order", !.running = found]
  <2>1. Read(yes, Idle) /\ tick.phase = "active"
    BY <1>3, Zenon DEF ListActive
  <2>2. UNCHANGED <<jobs, nodes, events, clock>> /\ (tick' = yes \/ tick' = Idle)
    <3> HIDE DEF yes
    <3> QED
      BY <2>1, ReadEffect, Zenon
  <2>3. \A n \in Node : found[n] = {j \in active : jobs[j].node = n}
    BY Zenon
  <2> HIDE DEF found
  <2> QED
    BY <1>0, <2>1, <2>2, <2>3, Zenon DEF TickState
<1>4. CASE OrderQueue
  <2> DEFINE active == IF Algorithm = "fair-share"
                       THEN ListByStatuses({"scheduled", "running"}) ELSE {}
             no == [tick EXCEPT !.phase = "place", !.now = clock]
             yes == [no EXCEPT !.usage = active]
  <2>1. Read(yes, no) /\ tick.phase = "order"
    BY <1>4, Zenon DEF OrderQueue
  <2>2. UNCHANGED <<jobs, nodes, events, clock>> /\ (tick' = yes \/ tick' = no)
    <3> HIDE DEF yes, no
    <3> QED
      BY <2>1, ReadEffect, Zenon
  <2> HIDE DEF active
  <2> QED
    BY <1>0, <2>1, <2>2, Zenon DEF TickState
<1> QED
  BY <1>1, <1>2, <1>3, <1>4, Zenon

-----------------------------------------------------------------------------
(* The loop over the queue has moved past j.                               *)
Advanced(j) ==
    \/ tick' = Idle
    \/ /\ tick'.phase = "place" /\ tick'.pending = tick.pending \ {j}
       /\ tick'.usage = tick.usage /\ tick'.now = tick.now /\ tick'.victims = tick.victims
       /\ KeepsLost

(* Advance drops the job from the queue and the target.                    *)
LEMMA AdvanceEffect ==
    ASSUME NEW t \in TickState, NEW j \in Job
    PROVE  \/ Advance(t, j) = Idle
           \/ /\ Advance(t, j).phase = "place" /\ Advance(t, j).pending = t.pending \ {j}
              /\ Advance(t, j).view = t.view /\ Advance(t, j).running = t.running
              /\ Advance(t, j).usage = t.usage /\ Advance(t, j).now = t.now
              /\ Advance(t, j).victims = t.victims /\ Advance(t, j).dead = t.dead
              /\ Advance(t, j).lost = t.lost
BY Zenon DEF Advance, TickState

(* A placement reserves in the view and writes the job's row; if that      *)
(* fails the reservation is undone, but the row may have been written.     *)
LEMMA CommitEffect ==
    ASSUME EngineInv, NEW j \in Job, NEW n \in Node, CommitPlacement(j, n)
    PROVE  /\ tick.phase \in {"place", "replace"} /\ Current(j) /\ j \in tick.pending
           /\ Fits(tick.view[n], Request[j])
           /\ UNCHANGED <<nodes, events, clock>>
           /\ \A m \in Node \ {n} : tick'.view[m] = tick.view[m] \/ tick' = Idle
           /\ \A m \in Node : \/ tick'.running[m] = tick.running[m]
                              \/ tick'.running[m] = tick.running[m] \cup {j}
                              \/ tick' = Idle
           /\ \/ /\ jobs' = Schedule(j, n) /\ faults' = faults
                 /\ tick'.phase = "persist" /\ tick'.target = n
                 /\ tick'.view[n] = Reserve(tick.view[n], Request[j])
                 /\ KeepsQueue /\ tick'.victims = tick.victims /\ KeepsLost
              \/ /\ jobs' \in {jobs, Schedule(j, n)} /\ faults < MaxFaults
                 /\ faults' = faults + 1 /\ Advanced(j)
                 /\ \/ tick' = Idle
                    \/ tick'.view[n] = Release(Reserve(tick.view[n], Request[j]), Request[j])
<1>0. tick \in TickState
  BY Zenon DEF EngineInv, EngineTypeOK
<1> DEFINE reserved == Reserve(tick.view[n], Request[j])
           t == [tick EXCEPT !.view[n] = reserved, !.running[n] = @ \cup {j}, !.target = n]
           back == [t EXCEPT !.view[n] = Release(reserved, Request[j])]
<1>1. PICK ok \in BOOLEAN :
        /\ Statement(ok)
        /\ jobs' \in After(ok, jobs, Schedule(j, n))
        /\ tick' = IF ok THEN [t EXCEPT !.phase = "persist"] ELSE Advance(back, j)
  BY Zenon DEF CommitPlacement
<1>2. /\ tick.phase \in {"place", "replace"} /\ Current(j) /\ j \in tick.pending
      /\ UNCHANGED <<nodes, events, clock>>
  BY Zenon DEF CommitPlacement, Current
<1>3. Fits(tick.view[n], Request[j])
  BY PlaceFits, Zenon DEF CommitPlacement
<1>4. reserved \in NodeRow /\ Release(reserved, Request[j]) \in NodeRow
  <2>1. tick.view[n] \in NodeRow /\ Request[j] \in Vec
    BY <1>0, JobAssumption, Zenon DEF TickState
  <2> QED
    BY <1>3, <2>1, ReserveType, ReleaseType, Zenon
<1> HIDE DEF reserved
<1>5. /\ t \in TickState /\ t.target = n /\ t.phase = tick.phase
      /\ t.view = [tick.view EXCEPT ![n] = reserved]
      /\ t.running = [tick.running EXCEPT ![n] = @ \cup {j}]
      /\ t.pending = tick.pending /\ t.usage = tick.usage /\ t.now = tick.now
      /\ t.victims = tick.victims /\ t.dead = tick.dead /\ t.lost = tick.lost
  BY <1>0, <1>4, Zenon DEF TickState
<1> HIDE DEF t
<1>6. /\ back \in TickState
      /\ back.view = [tick.view EXCEPT ![n] = Release(reserved, Request[j])]
      /\ back.running = t.running
      /\ back.pending = tick.pending /\ back.usage = tick.usage /\ back.now = tick.now
      /\ back.victims = tick.victims /\ back.dead = tick.dead /\ back.lost = tick.lost
  BY <1>0, <1>4, <1>5, Zenon DEF TickState
<1> HIDE DEF back
<1>7. tick.view \in [Node -> NodeRow] /\ tick.running \in [Node -> SUBSET Job]
  BY <1>0, Zenon DEF TickState
<1>8. CASE ok
  <2>1. /\ tick'.view = t.view /\ tick'.running = t.running /\ tick'.phase = "persist"
        /\ tick'.target = n /\ KeepsQueue /\ tick'.victims = tick.victims /\ KeepsLost
    BY <1>1, <1>5, <1>8, Zenon DEF TickState, KeepsQueue, KeepsLost
  <2>2. jobs' = Schedule(j, n) /\ faults' = faults
    BY <1>1, <1>8, Zenon DEF Statement, After
  <2>3. /\ tick'.view[n] = reserved
        /\ \A m \in Node \ {n} : tick'.view[m] = tick.view[m]
    BY <1>5, <1>7, <2>1
  <2>4. \A m \in Node : \/ tick'.running[m] = tick.running[m]
                         \/ tick'.running[m] = tick.running[m] \cup {j}
    <3>1. tick'.running = [tick.running EXCEPT ![n] = @ \cup {j}]
      BY <1>5, <2>1, Zenon
    <3> QED
      BY <1>7, <3>1, Zenon
  <2> QED
    BY <1>2, <1>3, <2>1, <2>2, <2>3, <2>4, Zenon DEF reserved
<1>9. CASE ~ ok
  <2>1. jobs' \in {jobs, Schedule(j, n)} /\ faults < MaxFaults /\ faults' = faults + 1
    BY <1>1, <1>9, Zenon DEF Statement, After
  <2>2. tick' = Advance(back, j)
    BY <1>1, <1>9, Zenon
  <2>3. CASE tick' = Idle
    BY <1>2, <1>3, <2>1, <2>3, Zenon DEF Advanced
  <2>4. CASE tick' # Idle
    <3>1. /\ tick'.view = back.view /\ tick'.running = t.running
          /\ Advanced(j)
      <4>1. /\ tick'.phase = "place" /\ tick'.pending = back.pending \ {j}
            /\ tick'.view = back.view /\ tick'.running = back.running
            /\ tick'.usage = back.usage /\ tick'.now = back.now
            /\ tick'.victims = back.victims /\ tick'.dead = back.dead /\ tick'.lost = back.lost
        BY <1>6, <2>2, <2>4, AdvanceEffect
      <4> QED
        BY <1>6, <4>1, Zenon DEF Advanced, KeepsLost
    <3>2. /\ tick'.view[n] = Release(reserved, Request[j])
          /\ \A m \in Node \ {n} : tick'.view[m] = tick.view[m]
      BY <1>6, <1>7, <3>1, Zenon
    <3>3. \A m \in Node : \/ tick'.running[m] = tick.running[m]
                           \/ tick'.running[m] = tick.running[m] \cup {j}
      <4>1. tick'.running = [tick.running EXCEPT ![n] = @ \cup {j}]
        BY <1>5, <3>1, Zenon
      <4> QED
        BY <1>7, <4>1, Zenon
    <3> QED
      BY <1>2, <1>3, <2>1, <3>1, <3>2, <3>3, Zenon DEF reserved
  <2> QED
    BY <2>3, <2>4, Zenon
<1> QED
  BY <1>8, <1>9, Zenon

(* The availability of the node a plan or a placement is about is written  *)
(* back.                                                                   *)
LEMMA PersistEffect ==
    ASSUME EngineInv, PersistPlacement \/ PersistEviction
    PROVE  /\ \/ tick.phase = "persist" /\ tick'.phase = "record"
              \/ tick.phase = "evicted" /\ tick'.phase = "replace"
           /\ UNCHANGED <<jobs, events, clock>>
           /\ KeepsQueue /\ KeepsView /\ KeepsPlan /\ KeepsLost
           /\ tick.target \in Node
           /\ \/ nodes' = UpdateAvailability(tick.target, tick.view[tick.target].avail)
              \/ nodes' = nodes /\ faults < MaxFaults
<1>0. tick \in TickState /\ TargetOK
  BY Zenon DEF EngineInv, EngineTypeOK
<1>1. PICK ok \in BOOLEAN :
        /\ Statement(ok)
        /\ nodes' \in After(ok, nodes,
                            UpdateAvailability(tick.target, tick.view[tick.target].avail))
  BY Zenon DEF PersistPlacement, PersistEviction
<1>2. /\ \/ tick.phase = "persist" /\ tick'.phase = "record"
         \/ tick.phase = "evicted" /\ tick'.phase = "replace"
      /\ UNCHANGED <<jobs, events, clock>>
      /\ KeepsQueue /\ KeepsView /\ KeepsPlan /\ KeepsLost
  BY <1>0, Zenon DEF PersistPlacement, PersistEviction, TickState, KeepsQueue, KeepsView, KeepsPlan,
              KeepsLost
<1> QED
  BY <1>0, <1>1, <1>2, Zenon DEF Statement, After, TargetOK

(* The decision about j is recorded and the loop moves on.                 *)
LEMMA RecordEffect ==
    ASSUME EngineInv, NEW j \in Job, RecordPlacement(j) \/ GiveUp(j)
    PROVE  /\ Current(j) /\ j \in tick.pending
           /\ UNCHANGED <<jobs, nodes, clock>>
           /\ Advanced(j) /\ (tick' = Idle \/ KeepsView)
           /\ \/ /\ tick.phase = "record"
                 /\ \/ events' = Record(j, TRUE, tick.target)
                    \/ events' = events /\ faults < MaxFaults
              \/ /\ tick.phase \in {"place", "replace"}
                 /\ events' \in {events, Record(j, FALSE, NoNode)}
<1>0. tick \in TickState
  BY Zenon DEF EngineInv, EngineTypeOK
<1>1. Current(j) /\ j \in tick.pending /\ UNCHANGED <<jobs, nodes, clock>>
  BY Zenon DEF RecordPlacement, GiveUp, Current
<1>2. tick' = Advance(tick, j)
  BY Zenon DEF RecordPlacement, GiveUp
<1>3. Advanced(j) /\ (tick' = Idle \/ KeepsView)
  BY <1>0, <1>2, AdvanceEffect, Zenon DEF Advanced, KeepsView, KeepsLost
<1>4. CASE RecordPlacement(j)
  BY <1>1, <1>3, <1>4, Zenon DEF RecordPlacement, RecordEvent, Statement, After
<1>5. CASE GiveUp(j)
  BY <1>1, <1>3, <1>5, Zenon DEF GiveUp, RecordEvent, Statement, After
<1> QED
  BY <1>4, <1>5, Zenon

(* A plan fixes the target and the victims.                                *)
LEMMA PlanEffect ==
    ASSUME EngineInv, NEW j \in Job, PlanPreemption(j)
    PROVE  /\ EnablePreemption /\ tick.phase = "place" /\ tick'.phase = "evict"
           /\ Current(j) /\ ~ CanPlace(j)
           /\ UNCHANGED store /\ KeepsQueue /\ KeepsView /\ KeepsLost
           /\ \E p \in Plans(j, tick.view, tick.running, Created) :
                 tick'.victims = p.victims /\ tick'.target = p.node
<1>0. tick \in TickState
  BY Zenon DEF EngineInv, EngineTypeOK
<1>1. PICK p \in Plans(j, tick.view, tick.running, Created) :
        /\ EnablePreemption
        /\ tick' = [tick EXCEPT !.phase = "evict", !.victims = p.victims, !.target = p.node]
  BY Zenon DEF PlanPreemption, Preempts
<1>2. tick.phase = "place" /\ Current(j) /\ ~ CanPlace(j) /\ UNCHANGED store
  BY Zenon DEF PlanPreemption
<1>3. /\ tick'.phase = "evict" /\ KeepsQueue /\ KeepsView /\ KeepsLost
      /\ tick'.victims = p.victims /\ tick'.target = p.node
  BY <1>0, <1>1, Zenon DEF TickState, KeepsQueue, KeepsView, KeepsLost
<1> QED
  BY <1>1, <1>2, <1>3, Zenon

(* The loop over the victims has moved past v.                             *)
PastVictim(v) ==
    /\ tick'.victims = tick.victims \ {v}
    /\ tick'.phase = IF tick.victims = {v} THEN "evicted" ELSE "evict"

(* An eviction releases in the view and takes the victim's row off its     *)
(* node; if the statement fails the loop moves on, and the row may have    *)
(* been written.                                                           *)
LEMMA EvictEffect ==
    ASSUME EngineInv, NEW v \in Job, EvictVictim(v)
    PROVE  /\ tick.phase = "evict" /\ NextVictim(v) /\ tick.target \in Node
           /\ UNCHANGED <<nodes, events, clock>>
           /\ KeepsQueue /\ KeepsLost /\ tick'.running = tick.running
           /\ tick'.target = tick.target
           /\ tick'.view[tick.target] = Release(tick.view[tick.target], Request[v])
           /\ \A m \in Node \ {tick.target} : tick'.view[m] = tick.view[m]
           /\ \/ /\ jobs' = Requeue(v, "preempted") /\ tick'.phase = "return"
                 /\ tick'.victims = tick.victims
              \/ jobs' \in {jobs, Requeue(v, "preempted")} /\ PastVictim(v)
<1>0. tick \in TickState /\ TargetOK
  BY Zenon DEF EngineInv, EngineTypeOK
<1> DEFINE n == tick.target
           t == [tick EXCEPT !.view[n] = Release(@, Request[v])]
<1>1. PICK ok \in BOOLEAN :
        /\ Statement(ok)
        /\ jobs' \in After(ok, jobs, Requeue(v, "preempted"))
        /\ tick' = IF ok THEN [t EXCEPT !.phase = "return"] ELSE AfterVictim(t, v)
  BY Zenon DEF EvictVictim
<1>2. tick.phase = "evict" /\ NextVictim(v) /\ UNCHANGED <<nodes, events, clock>> /\ n \in Node
  BY <1>0, Zenon DEF EvictVictim, TargetOK
<1>3. Release(tick.view[n], Request[v]) \in NodeRow /\ tick.view \in [Node -> NodeRow]
  <2>1. tick.view[n] \in NodeRow /\ Request[v] \in Vec
    BY <1>0, <1>2, JobAssumption, Zenon DEF TickState
  <2> QED
    BY <1>0, <2>1, ReleaseType, Zenon DEF TickState
<1>4. /\ t \in TickState /\ t.target = n /\ t.phase = "evict"
      /\ t.view = [tick.view EXCEPT ![n] = Release(tick.view[n], Request[v])]
      /\ t.running = tick.running /\ t.pending = tick.pending /\ t.usage = tick.usage
      /\ t.now = tick.now /\ t.victims = tick.victims /\ t.dead = tick.dead
      /\ t.lost = tick.lost
  BY <1>0, <1>2, <1>3, Zenon DEF TickState
<1> HIDE DEF t
<1>5. /\ KeepsQueue /\ KeepsLost /\ tick'.running = tick.running /\ tick'.target = n
      /\ tick'.view = t.view
  BY <1>1, <1>4, Zenon DEF AfterVictim, TickState, KeepsQueue, KeepsLost
<1>6. /\ tick'.view[n] = Release(tick.view[n], Request[v])
      /\ \A m \in Node \ {n} : tick'.view[m] = tick.view[m]
  BY <1>2, <1>3, <1>4, <1>5, Zenon
<1>7. CASE ok
  <2>1. tick'.phase = "return" /\ tick'.victims = tick.victims
    BY <1>1, <1>4, <1>7, Zenon DEF TickState
  <2> QED
    BY <1>1, <1>2, <1>5, <1>6, <1>7, <2>1, Zenon DEF After
<1>8. CASE ~ ok
  <2>1. PastVictim(v)
    BY <1>1, <1>4, <1>8, Zenon DEF AfterVictim, TickState, PastVictim
  <2> QED
    BY <1>1, <1>2, <1>5, <1>6, <1>8, <2>1, Zenon DEF After
<1> QED
  BY <1>7, <1>8, Zenon

(* The second statement about a victim puts it back in the queue.          *)
LEMMA ReturnEffect ==
    ASSUME EngineInv, NEW v \in Job, ReturnVictim(v)
    PROVE  /\ tick.phase = "return" /\ NextVictim(v)
           /\ UNCHANGED <<nodes, events, clock>>
           /\ KeepsQueue /\ KeepsView /\ KeepsLost /\ tick'.target = tick.target
           /\ PastVictim(v)
           /\ jobs' \in {jobs, UpdateStatus(v, "queued")}
<1>0. tick \in TickState
  BY Zenon DEF EngineInv, EngineTypeOK
<1>1. tick' = AfterVictim(tick, v)
  BY Zenon DEF ReturnVictim
<1>2. /\ KeepsQueue /\ KeepsView /\ KeepsLost /\ tick'.target = tick.target
      /\ PastVictim(v)
  BY <1>0, <1>1, Zenon DEF AfterVictim, TickState, KeepsQueue, KeepsView, KeepsLost, PastVictim
<1> QED
  BY <1>2, Zenon DEF ReturnVictim, After

(* Between two ticks the locals are empty.                                 *)
LEMMA IdleFields ==
    /\ Idle.phase = "idle" /\ Idle.dead = {} /\ Idle.lost = {} /\ Idle.pending = {}
    /\ Idle.victims = {} /\ Idle.target = NoNode
    /\ \A n \in Node : Idle.view[n] = NoNodeRow /\ Idle.running[n] = {}
BY Zenon DEF Idle

-----------------------------------------------------------------------------
(* The engine and the tables *)

(* What the statements on a job's row write, column by column.             *)
LEMMA UpdateEffect ==
    ASSUME jobs \in [Job -> JobRow], NEW j \in Job, NEW s \in JobStatus
    PROVE  /\ \A k \in Job \ {j} : UpdateStatus(j, s)[k] = jobs[k]
           /\ UpdateStatus(j, s)[j].status = s /\ UpdateStatus(j, s)[j].node = jobs[j].node
           /\ UpdateStatus(j, s)[j].retry = jobs[j].retry
           /\ UpdateStatus(j, s)[j].created = jobs[j].created
BY Zenon DEF UpdateStatus, JobRow

(* Requeueing clears the node and counts a retry.                          *)
LEMMA RequeueRow ==
    ASSUME jobs \in [Job -> JobRow], NEW j \in Job, NEW s \in JobStatus
    PROVE  /\ \A k \in Job \ {j} : Requeue(j, s)[k] = jobs[k]
           /\ Requeue(j, s)[j].status = s /\ Requeue(j, s)[j].node = NoNode
           /\ Requeue(j, s)[j].retry = jobs[j].retry + 1
           /\ Requeue(j, s)[j].created = jobs[j].created
BY Zenon DEF Requeue, JobRow

(* Placing a job writes its status and node.                               *)
LEMMA ScheduleEffect ==
    ASSUME jobs \in [Job -> JobRow], NEW j \in Job, NEW n \in Node
    PROVE  /\ \A k \in Job \ {j} : Schedule(j, n)[k] = jobs[k]
           /\ Schedule(j, n)[j].status = "scheduled" /\ Schedule(j, n)[j].node = n
           /\ Schedule(j, n)[j].retry = jobs[j].retry
           /\ Schedule(j, n)[j].created = jobs[j].created
BY Zenon DEF Schedule, JobRow

(* A new row is queued, placed nowhere and never retried.                  *)
LEMMA CreateEffect ==
    ASSUME jobs \in [Job -> JobRow], NEW j \in Job
    PROVE  /\ \A k \in Job \ {j} : Create(j)[k] = jobs[k]
           /\ Create(j)[j].status = "queued" /\ Create(j)[j].node = NoNode
           /\ Create(j)[j].retry = 0
BY Zenon DEF Create

(* The engine marks nodes down at the start of a tick, and only then.      *)
LEMMA StatusWriters ==
    ASSUME EngineInv, EngineNext, ~ StartTick, NEW n \in Node
    PROVE  nodes'[n].status = nodes[n].status
<1>1. CASE PersistPlacement \/ PersistEviction
  <2>1. tick.target \in Node
    BY <1>1, PersistEffect, Zenon
  <2>2. nodes' = nodes \/ nodes' = UpdateAvailability(tick.target, tick.view[tick.target].avail)
    BY <1>1, PersistEffect, Zenon
  <2>3. nodes \in [Node -> NodeRow]
    BY Zenon DEF EngineInv, StoreTypeOK
  <2> QED
    BY <2>1, <2>2, <2>3 DEF UpdateAvailability, NodeRow
<1>2. CASE ~ (PersistPlacement \/ PersistEviction)
  <2>1. nodes' = nodes
    BY <1>2, Zenon DEF EngineNext, TickStep, ListLost, RequeueLost, ListNodes, ListQueued, ListActive,
       OrderQueue, Read, CommitPlacement, RecordPlacement, GiveUp, EvictVictim, ReturnVictim,
       PlanPreemption, Stop, store
  <2> QED
    BY <2>1, Zenon
<1> QED
  BY <1>1, <1>2, Zenon

-----------------------------------------------------------------------------
(* The control plane *)

(* What a machine has does not change between the starts of its agent.     *)
FixedCapacity == \A n \in Node : \A c1, c2 \in Capacity[n] : c1 = c2

(* No row claims a larger capacity than the agent is configured with.      *)
CapacityKnown ==
    \A n \in Node, d \in Dim : \A c \in Capacity[n] : nodes[n].cap[d] <= c[d]

(* Submissions, operator commands and the clock keep the tables' types.    *)
LEMMA UserStep ==
    ASSUME StoreTypeOK, GatewayNext \/ TickClock
    PROVE  /\ StoreTypeOK'
           /\ \A n \in Node : nodes'[n].cap = nodes[n].cap /\ nodes'[n].avail = nodes[n].avail
<1>0. /\ jobs \in [Job -> JobRow] /\ nodes \in [Node -> NodeRow] /\ clock \in Nat
      /\ events \in [Job -> Event] /\ faults \in 0..MaxFaults
  BY Zenon DEF StoreTypeOK
<1>1. CASE TickClock
  BY <1>0, <1>1 DEF TickClock, StoreTypeOK
<1>2. ASSUME NEW j \in Job, SubmitJob(j)
      PROVE  StoreTypeOK' /\ nodes' = nodes
  <2> DEFINE row == [status |-> "queued", node |-> NoNode, retry |-> 0, created |-> clock]
  <2>1. row \in JobRow
    BY <1>0, Zenon DEF JobRow, JobStatus
  <2>2. jobs' = [jobs EXCEPT ![j] = row]
    BY <1>2, Zenon DEF SubmitJob, Create
  <2> HIDE DEF row
  <2>3. jobs' \in [Job -> JobRow]
    BY <1>0, <2>1, <2>2, Zenon
  <2> QED
    BY <1>0, <1>2, <2>3 DEF SubmitJob, StoreTypeOK
<1>3. ASSUME NEW n \in Node, NEW s \in Commands, SetNodeStatus(n, s)
      PROVE  /\ StoreTypeOK'
             /\ \A m \in Node : nodes'[m].cap = nodes[m].cap /\ nodes'[m].avail = nodes[m].avail
  <2>1. s \in NodeStatus
    BY GatewayAssumption, Zenon DEF NodeStatus
  <2>2. nodes' = [nodes EXCEPT ![n].status = s]
    BY <1>3, Zenon DEF SetNodeStatus, SetStatus
  <2>3. nodes' \in [Node -> NodeRow]
    BY <1>0, <2>1, <2>2, Zenon DEF NodeRow
  <2>4. \A m \in Node : nodes'[m].cap = nodes[m].cap /\ nodes'[m].avail = nodes[m].avail
    BY <1>0, <2>2, Zenon DEF NodeRow
  <2> QED
    BY <1>0, <1>3, <2>3, <2>4, Zenon DEF SetNodeStatus, StoreTypeOK
<1> QED
  BY <1>1, <1>2, <1>3, Zenon DEF GatewayNext, TickClock

(* A heartbeat touches freshness and possibly status, nothing else.        *)
LEMMA HeartbeatType ==
    ASSUME nodes \in [Node -> NodeRow], NEW n \in Node
    PROVE  /\ Heartbeat(n) \in [Node -> NodeRow]
           /\ \A m \in Node : /\ Heartbeat(n)[m].cap = nodes[m].cap
                              /\ Heartbeat(n)[m].avail = nodes[m].avail
<1> DEFINE s == IF nodes[n].status = "down" THEN "ready" ELSE nodes[n].status
           row == [nodes[n] EXCEPT !.fresh = TRUE, !.status = s]
<1>1. nodes[n] \in NodeRow /\ "ready" \in NodeStatus
  BY Zenon DEF NodeStatus
<1>2. s \in NodeStatus
  BY <1>1, Zenon DEF NodeRow
<1>3. Heartbeat(n) = [nodes EXCEPT ![n] = row]
  BY Zenon DEF Heartbeat
<1> HIDE DEF s
<1>4. row \in NodeRow /\ row.cap = nodes[n].cap /\ row.avail = nodes[n].avail
  BY <1>1, <1>2, Zenon DEF NodeRow
<1> HIDE DEF row
<1> QED
  BY <1>3, <1>4, Zenon

(* Joining, heartbeats and their lapse, and exits keep the types.          *)
LEMMA MembershipStep ==
    ASSUME StoreTypeOK, MembershipTypeOK, NEW n \in Node,
           Register(n) \/ SendHeartbeat(n) \/ HeartbeatLapse(n) \/ AgentExit(n)
    PROVE  StoreTypeOK' /\ MembershipTypeOK'
<1>0. /\ jobs \in [Job -> JobRow] /\ nodes \in [Node -> NodeRow] /\ clock \in Nat
      /\ events \in [Job -> Event] /\ faults \in 0..MaxFaults
      /\ up \in [Node -> BOOLEAN] /\ outages \in 0..MaxOutages
  BY Zenon DEF StoreTypeOK, MembershipTypeOK
<1>1. nodes[n] \in NodeRow /\ {"ready", "down"} \subseteq NodeStatus
  BY <1>0, Zenon DEF NodeStatus
<1>2. CASE Register(n)
  <2>1. PICK cap \in Capacity[n] : nodes' = Upsert(n, cap)
    BY <1>2, Zenon DEF Register
  <2>2. cap \in Vec
    BY NodeServiceAssumption, Zenon
  <2>3. nodes' \in [Node -> NodeRow]
    BY <1>0, <1>1, <2>1, <2>2, Zenon DEF Upsert, NodeRow
  <2> QED
    BY <1>0, <1>2, <2>3, Zenon DEF Register, StoreTypeOK, MembershipTypeOK
<1>3. CASE SendHeartbeat(n)
  <2>1. nodes' \in [Node -> NodeRow]
    BY <1>0, <1>3, HeartbeatType, Zenon DEF SendHeartbeat
  <2> QED
    BY <1>0, <1>3, <2>1, Zenon DEF SendHeartbeat, StoreTypeOK, MembershipTypeOK, membership
<1>4. CASE HeartbeatLapse(n)
  <2>1. nodes' \in [Node -> NodeRow]
    BY <1>0, <1>1, <1>4, Zenon DEF HeartbeatLapse, NodeRow
  <2>2. outages' \in 0..MaxOutages
    BY <1>0, <1>4, NodeServiceAssumption DEF HeartbeatLapse
  <2> QED
    BY <1>0, <1>4, <2>1, <2>2, Zenon DEF HeartbeatLapse, StoreTypeOK, MembershipTypeOK
<1>5. CASE AgentExit(n)
  BY <1>0, <1>5, NodeServiceAssumption DEF AgentExit, store, StoreTypeOK, MembershipTypeOK
<1> QED
  BY <1>2, <1>3, <1>4, <1>5, Zenon

(* With fixed capacities membership never shrinks a capacity, and touches  *)
(* availability only to announce a new machine as entirely free.           *)
LEMMA MembershipBounds ==
    ASSUME StoreTypeOK, FixedCapacity, CapacityKnown, NEW n \in Node,
           Register(n) \/ SendHeartbeat(n) \/ HeartbeatLapse(n) \/ AgentExit(n)
    PROVE  \A m \in Node, d \in Dim :
              /\ nodes[m].cap[d] <= nodes'[m].cap[d]
              /\ nodes'[m].avail = nodes[m].avail \/ nodes'[m].avail = nodes'[m].cap
              /\ \A c \in Capacity[m] : nodes'[m].cap[d] <= c[d]
<1>0. nodes \in [Node -> NodeRow]
  BY Zenon DEF StoreTypeOK
<1>1. \A m \in Node, d \in Dim : nodes[m].cap[d] \in Nat
  BY <1>0, Zenon DEF NodeRow, Vec
<1>2. CASE Register(n)
  <2>1. PICK cap \in Capacity[n] : nodes' = Upsert(n, cap)
    BY <1>2, Zenon DEF Register
  <2>2. cap \in Vec
    BY NodeServiceAssumption, Zenon
  <2>3. /\ nodes'[n].cap = cap
        /\ nodes'[n].avail = nodes[n].avail \/ nodes'[n].avail = nodes'[n].cap
        /\ \A m \in Node \ {n} : nodes'[m] = nodes[m]
    BY <1>0, <2>1, Zenon DEF Upsert, NodeRow
  <2>4. \A c \in Capacity[n] : c = cap
    BY Zenon DEF FixedCapacity
  <2>5. \A d \in Dim : nodes[n].cap[d] <= cap[d] /\ cap[d] \in Nat
    BY <2>2, Zenon DEF CapacityKnown, Vec
  <2> QED
    BY <1>1, <2>3, <2>4, <2>5 DEF CapacityKnown
<1>3. ASSUME SendHeartbeat(n) \/ HeartbeatLapse(n) \/ AgentExit(n)
      PROVE  \A m \in Node : nodes'[m].cap = nodes[m].cap /\ nodes'[m].avail = nodes[m].avail
  <2>1. CASE SendHeartbeat(n)
    BY <1>0, <2>1, HeartbeatType, Zenon DEF SendHeartbeat
  <2>2. CASE HeartbeatLapse(n)
    BY <1>0, <2>2, Zenon DEF HeartbeatLapse, NodeRow
  <2>3. CASE AgentExit(n)
    BY <2>3, Zenon DEF AgentExit, store
  <2> QED
    BY <1>3, <2>1, <2>2, <2>3, Zenon
<1> QED
  BY <1>1, <1>2, <1>3 DEF CapacityKnown

-----------------------------------------------------------------------------
(* The inductive invariants: types alone, and with them the bounds.        *)
TypeInv == EngineInv /\ MembershipTypeOK

RangeInv == TypeInv /\ Bounded /\ CapacityKnown

(* The empty tables and the idle engine are well typed.                    *)
LEMMA TypeInit == Init => TypeInv
<1> SUFFICES ASSUME Init PROVE TypeInv
  BY Zenon
<1>1. NoJobRow \in JobRow /\ NoNodeRow \in NodeRow /\ NoEvent \in Event
  BY Zenon DEF NoJobRow, JobRow, JobStatus, NoNodeRow, NodeRow, NodeStatus, Vec, NoEvent, Event
<1>2. StoreTypeOK
  BY <1>1, StoreAssumption DEF Init, StoreInit, StoreTypeOK
<1>3. MembershipTypeOK
  BY NodeServiceAssumption DEF Init, MembershipInit, MembershipTypeOK
<1>4. EngineTypeOK /\ TargetOK
  BY IdleType, Zenon DEF Init, EngineInit, EngineTypeOK, TargetOK
<1> QED
  BY <1>2, <1>3, <1>4, Zenon DEF TypeInv, EngineInv

(* Every step of engine, users and agents keeps the types.                 *)
LEMMA TypeStep == TypeInv /\ [Next]_vars => TypeInv'
<1> SUFFICES ASSUME TypeInv, [Next]_vars PROVE TypeInv'
  BY Zenon
<1> USE DEF TypeInv
<1>1. CASE Engines
  BY <1>1, EngineStep, Zenon DEF Engines, membership, MembershipTypeOK
<1>2. CASE Users
  <2>1. StoreTypeOK'
    BY <1>2, UserStep, Zenon DEF Users, EngineInv
  <2> QED
    BY <1>2, <2>1, Zenon DEF Users, membership, MembershipTypeOK, EngineInv, EngineTypeOK, TargetOK
<1>3. CASE Agents
  <2>1. StoreTypeOK' /\ MembershipTypeOK'
    BY <1>3, MembershipStep, Zenon DEF Agents, EngineInv
  <2> QED
    BY <1>3, <2>1, Zenon DEF Agents, EngineInv, EngineTypeOK, TargetOK
<1>4. CASE UNCHANGED vars
  BY <1>4, Zenon DEF vars, store, membership, MembershipTypeOK, EngineInv, StoreTypeOK,
              EngineTypeOK, TargetOK
<1> QED
  BY <1>1, <1>2, <1>3, <1>4, Zenon DEF Next

(* Whatever the engine, users, operators and agents do, and whatever       *)
(* statements fail, tables and locals keep their types: Reserve never      *)
(* drives an availability below zero.                                      *)
THEOREM TypeCorrect == Spec => []TypeOK
<1>1. TypeInv => TypeOK
  BY Zenon DEF TypeInv, EngineInv, TypeOK
<1> QED
  BY <1>1, TypeInit, TypeStep, PTL DEF Spec

(* The empty tables are within their (zero) capacities.                    *)
LEMMA RangeInit == Init => RangeInv
<1> SUFFICES ASSUME Init PROVE RangeInv
  BY Zenon
<1>1. \A n \in Node, d \in Dim : nodes[n].avail[d] = 0 /\ nodes[n].cap[d] = 0
  BY Zenon DEF Init, StoreInit, NoNodeRow
<1>2. tick = Idle
  BY Zenon DEF Init, EngineInit
<1>3. \A n \in Node : \A c \in Capacity[n] : c \in Vec
  BY NodeServiceAssumption, Zenon
<1>4. Bounded
  BY <1>1, <1>2, IdleType DEF Bounded
<1>5. CapacityKnown
  BY <1>1, <1>3 DEF CapacityKnown, Vec
<1> QED
  BY <1>4, <1>5, TypeInit, Zenon DEF RangeInv

(* With fixed capacities every step keeps availability in range.           *)
LEMMA RangeStep ==
    ASSUME FixedCapacity, RangeInv, [Next]_vars
    PROVE  RangeInv'
<1> USE DEF RangeInv
<1>0. TypeInv'
  BY TypeStep, Zenon
<1>1. EngineInv /\ StoreTypeOK
  BY Zenon DEF TypeInv, EngineInv
<1>2. /\ nodes \in [Node -> NodeRow] /\ nodes' \in [Node -> NodeRow]
      /\ tick \in TickState
  BY <1>0, Zenon DEF TypeInv, EngineInv, StoreTypeOK, EngineTypeOK
<1>3. \A n \in Node, d \in Dim :
         /\ nodes[n].avail[d] \in Nat /\ nodes[n].cap[d] \in Nat
         /\ nodes'[n].avail[d] \in Nat /\ nodes'[n].cap[d] \in Nat
         /\ tick.view[n].avail[d] \in Nat /\ tick.view[n].cap[d] \in Nat
  BY <1>2 DEF NodeRow, TickState, Vec
<1>4. CASE Engines
  BY <1>0, <1>1, <1>4, EngineBounded, EngineWrites, Zenon DEF Engines, CapacityKnown
<1>5. CASE Users
  <2>1. \A n \in Node : nodes'[n].cap = nodes[n].cap /\ nodes'[n].avail = nodes[n].avail
    BY <1>1, <1>5, UserStep, Zenon DEF Users
  <2> QED
    BY <1>0, <1>5, <2>1, Zenon DEF Users, Bounded, CapacityKnown
<1>6. CASE Agents
  <2>1. \A n \in Node, d \in Dim :
           /\ nodes[n].cap[d] <= nodes'[n].cap[d]
           /\ nodes'[n].avail = nodes[n].avail \/ nodes'[n].avail = nodes'[n].cap
           /\ \A c \in Capacity[n] : nodes'[n].cap[d] <= c[d]
    BY <1>1, <1>6, MembershipBounds, Zenon DEF Agents
  <2>2. tick' = tick
    BY <1>6, Zenon DEF Agents
  <2>3. Bounded'
    BY <1>3, <2>1, <2>2 DEF Bounded
  <2> QED
    BY <1>0, <2>1, <2>3, Zenon DEF CapacityKnown
<1>7. CASE UNCHANGED vars
  BY <1>0, <1>7, Zenon DEF vars, store, Bounded, CapacityKnown
<1> QED
  BY <1>4, <1>5, <1>6, <1>7, Zenon DEF Next

(* Where machines keep their size, availability never exceeds capacity, in *)
(* the table or in the engine's view of it, however rollbacks, evictions,  *)
(* failed writes and re-registrations interleave.                          *)
THEOREM AvailabilityCorrect ==
    ASSUME FixedCapacity
    PROVE  Spec => []AvailabilityInRange
<1>1. RangeInv => AvailabilityInRange
  BY Zenon DEF RangeInv, Bounded, AvailabilityInRange
<1>2. RangeInv /\ [Next]_vars => RangeInv'
  BY RangeStep, Zenon
<1> QED
  BY <1>1, <1>2, RangeInit, PTL DEF Spec

-----------------------------------------------------------------------------
(* What jobs ask for together *)

(* Totals are numbers, nothing for no job, a request more for each further *)
(* job, and no less for more jobs.  This speaks of the constants alone;    *)
(* EngineProofs derives it, for every set of jobs, from the theory of      *)
(* finite sets.                                                            *)
TotalsAdd ==
    \A d \in Dim :
        /\ Total(d, {}) = 0
        /\ \A S \in SUBSET Job :
              /\ Total(d, S) \in Nat
              /\ \A T \in SUBSET S : Total(d, T) <= Total(d, S)
              /\ \A j \in Job \ S : Total(d, S \cup {j}) = Total(d, S) + Request[j][d]

(* No step changes it.                                                     *)
LEMMA TotalsConstant == ASSUME TotalsAdd PROVE TotalsAdd'
BY Zenon DEF TotalsAdd, Total, Units

(* What a set of jobs asks for is a number.                                *)
LEMMA TotalType ==
    ASSUME TotalsAdd, NEW d \in Dim, NEW S \in SUBSET Job
    PROVE  Total(d, S) \in Nat
BY Zenon DEF TotalsAdd

(* One more job asks for its request more.                                 *)
LEMMA TotalAdd ==
    ASSUME TotalsAdd, NEW d \in Dim, NEW S \in SUBSET Job, NEW j \in Job, j \notin S
    PROVE  Total(d, S \cup {j}) = Total(d, S) + Request[j][d]
BY Zenon DEF TotalsAdd

(* One job fewer asks for its request less.                                *)
LEMMA TotalRemove ==
    ASSUME TotalsAdd, NEW d \in Dim, NEW S \in SUBSET Job, NEW j \in S
    PROVE  /\ Total(d, S \ {j}) = Total(d, S) - Request[j][d]
           /\ Total(d, S \ {j}) \in Nat
<1>1. S \ {j} \in SUBSET Job /\ j \in Job /\ j \notin S \ {j} /\ (S \ {j}) \cup {j} = S
  BY Zenon
<1>2. Total(d, S) = Total(d, S \ {j}) + Request[j][d]
  BY <1>1, TotalAdd, Zenon
<1>3. Total(d, S \ {j}) \in Nat /\ Request[j][d] \in Nat
  BY <1>1, TotalType, JobAssumption DEF Vec
<1> QED
  BY <1>2, <1>3

(* More jobs ask for no less.                                              *)
LEMMA TotalMonotone ==
    ASSUME TotalsAdd, NEW d \in Dim, NEW T \in SUBSET Job, NEW S \in SUBSET T
    PROVE  Total(d, S) <= Total(d, T)
BY Zenon DEF TotalsAdd

-----------------------------------------------------------------------------
(* The order of the queue *)

(* The keys the queue is sorted by are triples of numbers.                 *)
LEMMA KeyType ==
    ASSUME TotalsAdd, EngineInv, NEW j \in Job
    PROVE  Key(j)[1] \in Int /\ Key(j)[2] \in Int /\ Key(j)[3] \in Int
<1>1. tick.now \in Nat /\ tick.usage \in SUBSET Job /\ jobs[j].created \in Nat
  BY Zenon DEF EngineInv, EngineTypeOK, StoreTypeOK, TickState, JobRow
<1>2. Created[j] \in Nat
  BY <1>1, Zenon DEF Created
<1>3. TeamShares[Team[j]] \in Nat
  <2>1. {k \in tick.usage : Team[k] = Team[j]} \in SUBSET Job /\ "gpu" \in Dim
    BY <1>1, Zenon DEF Dim
  <2>2. TeamGPUUsage(Team[j], tick.usage) \in Nat
    BY <2>1, TotalType, Zenon DEF TeamGPUUsage
  <2> QED
    BY <2>2, Zenon DEF TeamShares
<1>4. EffectivePriority(j, Created, tick.now, <<AgingFactor, 1>>) \in Int
  <2> DEFINE waited == (tick.now - Created[j]) * AgingFactor
  <2>1. waited \in Int
    BY <1>1, <1>2, EngineAssumption
  <2>2. waited \div 1 \in Int
    <3> HIDE DEF waited
    <3> QED
      BY <2>1
  <2>3. Priority[j] \in Int
    BY JobAssumption
  <2> QED
    BY <2>2, <2>3 DEF EffectivePriority
<1> DEFINE eff == EffectivePriority(j, Created, tick.now, <<AgingFactor, 1>>)
<1> HIDE DEF eff
<1>5. eff \in Int
  BY <1>4, Zenon DEF eff
<1>6. Key(j) \in {<<0, 0 - eff, Created[j]>>, <<TeamShares[Team[j]], 0 - eff, Created[j]>>,
                 <<0, 0, Created[j]>>}
  BY Zenon DEF Key, OrderKey, ByCreatedAt, eff
<1> QED
  BY <1>2, <1>3, <1>5, <1>6

(* The loop over the queue is at one job at a time.                        *)
LEMMA CurrentUnique ==
    ASSUME TotalsAdd, EngineInv, NEW j \in Job, NEW k \in Job, Current(j), Current(k)
    PROVE  j = k
<1>1. SUFFICES ASSUME j # k PROVE FALSE
  BY Zenon
<1>2. Less(Key(j), Key(k)) /\ Less(Key(k), Key(j))
  BY <1>1, Zenon DEF Current
<1>3. /\ Key(j)[1] \in Int /\ Key(j)[2] \in Int /\ Key(j)[3] \in Int
      /\ Key(k)[1] \in Int /\ Key(k)[2] \in Int /\ Key(k)[3] \in Int
  BY KeyType, Zenon
<1> QED
  BY <1>2, <1>3 DEF Less

(* What is at stake when the queue is ordered: the jobs' submission times  *)
(* and the copies the tick works on.                                       *)
SameOrder ==
    /\ KeepsQueue
    /\ \A n \in Node : tick'.view[n].cap = tick.view[n].cap
    /\ \A j \in tick.pending : jobs'[j].created = jobs[j].created

(* While these stay the same the loop stays at its job.                    *)
LEMMA CurrentKept ==
    ASSUME EngineInv, SameOrder, NEW j \in Job
    PROVE  Current(j)' <=> Current(j)
<1>1. tick.pending \subseteq Job
  BY Zenon DEF EngineInv, EngineTypeOK, TickState
<1>2. /\ tick'.pending = tick.pending /\ tick'.usage = tick.usage /\ tick'.now = tick.now
      /\ \A k \in tick.pending : Created'[k] = Created[k]
  BY <1>1, Zenon DEF SameOrder, KeepsQueue, Created
<1>3. TeamShares' = TeamShares
  <2>1. NoGPUs' <=> NoGPUs
    BY Zenon DEF SameOrder, NoGPUs
  <2> QED
    BY <1>2, <2>1, Zenon DEF TeamShares, TeamGPUUsage
<1>4. ASSUME NEW k \in tick.pending PROVE Key(k)' = Key(k)
  BY <1>2, <1>3, <1>4, Zenon DEF Key, OrderKey, EffectivePriority, ByCreatedAt
<1> QED
  BY <1>2, <1>4, Zenon DEF Current

-----------------------------------------------------------------------------
(* The locals of a tick are filled one after the other.                    *)
Filled ==
    /\ tick.phase = "idle" => tick = Idle
    /\ tick.phase # "requeue" => tick.lost = {}
    /\ tick.phase \in {"idle", "lost", "requeue", "nodes", "queued"} => tick.pending = {}
    /\ tick.phase \in {"idle", "lost", "requeue", "nodes", "queued", "active"} =>
          /\ \A n \in Node : tick.running[n] = {}
          /\ tick.victims = {}

Alive(j) == jobs[j].status \in {"queued", "scheduled", "running", "preempted"}

(* A job the tick is about to place is queued; one it has just placed is   *)
(* the one it is at.                                                       *)
QueueWaits ==
    \A j \in tick.pending :
        \/ jobs[j].status = "queued"
        \/ jobs[j].status = "scheduled" /\ tick.phase \in {"persist", "record"} /\ Current(j)

(* A job in the running map is not in the queue, unless it has just been   *)
(* placed.                                                                 *)
RunningApart ==
    \A n \in Node : \A j \in tick.running[n] :
        /\ Alive(j)
        /\ j \in tick.pending => tick.phase \in {"persist", "record"} /\ Current(j)

VictimsApart == \A v \in tick.victims : Alive(v) /\ v \notin tick.pending

(* Reconciliation works on rows that are still as it read them.            *)
LostFresh ==
    \A row \in tick.lost : IsActive(jobs[row.job].status) /\ jobs[row.job].retry = row.retry

LifeInv ==
    /\ TypeInv /\ TotalsAdd
    /\ Filled /\ QueueWaits /\ RunningApart /\ VictimsApart /\ LostFresh

(* What others than the engine do: they leave the tick, the events and all *)
(* jobs alone, but for new ones; and they neither mark a node down nor     *)
(* remove one.                                                             *)
LEMMA OthersEffect ==
    ASSUME TypeInv, Users \/ Agents \/ UNCHANGED vars
    PROVE  /\ tick' = tick /\ events' = events
           /\ \/ jobs' = jobs
              \/ \E j \in Job : jobs[j].status = "absent" /\ jobs' = Create(j) /\ nodes' = nodes
           /\ \A n \in Node : nodes'[n].status = "down" => nodes[n].status = "down"
<1>0. nodes \in [Node -> NodeRow]
  BY Zenon DEF TypeInv, EngineInv, StoreTypeOK
<1>1. CASE Users
  <2>1. ASSUME NEW j \in Job, SubmitJob(j)
        PROVE  jobs[j].status = "absent" /\ jobs' = Create(j) /\ nodes' = nodes /\ events' = events
    BY <2>1, Zenon DEF SubmitJob
  <2>2. ASSUME NEW n \in Node, NEW s \in Commands, SetNodeStatus(n, s)
        PROVE  /\ jobs' = jobs /\ events' = events
               /\ \A m \in Node : nodes'[m].status = "down" => nodes[m].status = "down"
    BY <1>0, <2>2, GatewayAssumption, Zenon DEF SetNodeStatus, SetStatus, NodeRow
  <2>3. TickClock => UNCHANGED <<jobs, nodes, events>>
    BY Zenon DEF TickClock
  <2>4. tick' = tick
    BY <1>1, Zenon DEF Users
  <2> QED
    BY <1>1, <2>1, <2>2, <2>3, <2>4, Zenon DEF Users, GatewayNext
<1>2. CASE Agents
  <2>1. PICK n \in Node : Register(n) \/ SendHeartbeat(n) \/ HeartbeatLapse(n) \/ AgentExit(n)
    BY <1>2, Zenon DEF Agents
  <2>2. jobs' = jobs /\ events' = events /\ tick' = tick
    BY <1>2, <2>1, Zenon DEF Agents, Register, SendHeartbeat, HeartbeatLapse, AgentExit, store
  <2>3. \A m \in Node : nodes'[m].status = "down" => nodes[m].status = "down"
    <3>1. CASE Register(n)
      BY <1>0, <3>1 DEF Register, Upsert, NodeRow
    <3>2. CASE SendHeartbeat(n)
      BY <1>0, <3>2, Zenon DEF SendHeartbeat, Heartbeat, NodeRow
    <3>3. CASE HeartbeatLapse(n)
      BY <1>0, <3>3, Zenon DEF HeartbeatLapse, NodeRow
    <3>4. CASE AgentExit(n)
      BY <3>4, Zenon DEF AgentExit, store
    <3> QED
      BY <2>1, <3>1, <3>2, <3>3, <3>4, Zenon
  <2> QED
    BY <2>2, <2>3, Zenon
<1>3. CASE UNCHANGED vars
  BY <1>3, Zenon DEF vars, store
<1> QED
  BY <1>1, <1>2, <1>3, Zenon

(* Nothing has happened to a job yet.                                      *)
LEMMA LifeInit ==
    ASSUME TotalsAdd, Init
    PROVE  LifeInv
<1>1. tick = Idle
  BY Zenon DEF Init, EngineInit
<1> QED
  BY <1>1, TypeInit, IdleFields, Zenon DEF LifeInv, Filled, QueueWaits, RunningApart, VictimsApart, LostFresh

(* What others do leaves the queue, the running map and the lost jobs as   *)
(* they are.                                                               *)
LEMMA OthersLife ==
    ASSUME LifeInv, Users \/ Agents \/ UNCHANGED vars
    PROVE  LifeInv'
<1>0. /\ TypeInv /\ TotalsAdd /\ EngineInv /\ jobs \in [Job -> JobRow] /\ tick \in TickState
      /\ Filled /\ QueueWaits /\ RunningApart /\ VictimsApart /\ LostFresh
  BY Zenon DEF LifeInv, TypeInv, EngineInv, StoreTypeOK, EngineTypeOK
<1>1. TypeInv'
  BY <1>0, TypeStep, Zenon DEF Next
<1>2. tick' = tick
  BY <1>0, OthersEffect, Zenon
<1>3. \A j \in Job : jobs'[j] = jobs[j] \/ jobs[j].status = "absent"
  <2>1. CASE jobs' = jobs
    BY <2>1, Zenon
  <2>2. ASSUME NEW j \in Job, jobs[j].status = "absent", jobs' = Create(j)
        PROVE  \A k \in Job : jobs'[k] = jobs[k] \/ jobs[k].status = "absent"
    BY <1>0, <2>2, CreateEffect, Zenon
  <2> QED
    BY <1>0, <2>1, <2>2, OthersEffect, Zenon
<1>4. /\ tick.pending \subseteq Job /\ tick.victims \subseteq Job
      /\ \A n \in Node : tick.running[n] \subseteq Job
      /\ \A row \in tick.lost : row.job \in Job
  BY <1>0, Zenon DEF TickState
<1>5. \A j \in tick.pending : jobs'[j] = jobs[j]
  BY <1>0, <1>3, <1>4, Zenon DEF QueueWaits
<1>6. \A j \in Job : Current(j)' <=> Current(j)
  BY <1>0, <1>2, <1>5, CurrentKept, Zenon DEF SameOrder, KeepsQueue
<1>7. Filled' /\ QueueWaits'
  BY <1>0, <1>2, <1>4, <1>5, <1>6, Zenon DEF Filled, QueueWaits
<1>8. RunningApart' /\ VictimsApart'
  BY <1>0, <1>2, <1>3, <1>4, <1>6, Zenon DEF RunningApart, VictimsApart, Alive
<1>9. LostFresh'
  BY <1>0, <1>2, <1>3, <1>4, Zenon DEF LostFresh, IsActive
<1> QED
  BY <1>0, <1>1, <1>7, <1>8, <1>9, TotalsConstant, Zenon DEF LifeInv

(* Every step of the engine keeps its copies of the jobs in agreement with *)
(* the table: it never holds on to a job whose row has moved on.           *)
LEMMA EngineLife ==
    ASSUME LifeInv, EngineNext
    PROVE  Filled' /\ QueueWaits' /\ RunningApart' /\ VictimsApart' /\ LostFresh'
<1>0. /\ TotalsAdd /\ EngineInv /\ jobs \in [Job -> JobRow] /\ tick \in TickState
      /\ Filled /\ QueueWaits /\ RunningApart /\ VictimsApart /\ LostFresh
  BY Zenon DEF LifeInv, TypeInv, EngineInv, StoreTypeOK, EngineTypeOK
<1>00. /\ tick.pending \subseteq Job /\ tick.victims \subseteq Job
       /\ \A n \in Node : tick.running[n] \subseteq Job
       /\ \A row \in tick.lost : row.job \in Job
  BY <1>0, Zenon DEF TickState
<1>01. \A s \in {"failed", "queued", "preempted"} : s \in JobStatus
  BY Zenon DEF JobStatus
<1> DEFINE Good == Filled' /\ QueueWaits' /\ RunningApart' /\ VictimsApart' /\ LostFresh'
<1>02. SUFFICES Good
  BY Zenon
<1>1. ASSUME tick' = Idle PROVE Good
  BY <1>1, IdleFields, Zenon DEF Filled, QueueWaits, RunningApart, VictimsApart, LostFresh
<1>2. CASE StartTick
  <2>1. /\ tick'.phase \in {"lost", "nodes"} /\ tick.phase = "idle" /\ jobs' = jobs
        /\ KeepsQueue /\ KeepsView /\ KeepsPlan /\ tick'.lost = tick.lost
    BY <1>0, <1>2, StartEffect, Zenon
  <2>2. /\ tick'.pending = {} /\ tick'.lost = {} /\ tick'.victims = {}
        /\ \A n \in Node : tick'.running[n] = {}
    BY <1>0, <2>1, Zenon DEF Filled, KeepsQueue, KeepsView, KeepsPlan
  <2> QED
    BY <2>1, <2>2, Zenon DEF Filled, QueueWaits, RunningApart, VictimsApart, LostFresh
<1>3. CASE ListLost
  <2>1. /\ tick'.phase \in {"requeue", "nodes"} /\ tick.phase = "lost" /\ jobs' = jobs
        /\ KeepsQueue /\ KeepsView /\ KeepsPlan
        /\ tick'.phase = "nodes" => tick'.lost = {}
        /\ tick'.lost = {} \/ tick'.lost = LostActive
    BY <1>0, <1>3, ListLostEffect, Zenon DEF Filled
  <2>2. /\ tick'.pending = {} /\ tick'.victims = {}
        /\ \A n \in Node : tick'.running[n] = {}
    BY <1>0, <2>1, Zenon DEF Filled, KeepsQueue, KeepsView, KeepsPlan
  <2>3. LostFresh'
    BY <2>1 DEF LostFresh, LostActive, LostRows, ListByStatuses, IsActive
  <2> QED
    BY <2>1, <2>2, <2>3, Zenon DEF Filled, QueueWaits, RunningApart, VictimsApart
<1>4. CASE RequeueLost
  <2>1. PICK row \in tick.lost :
          /\ tick'.lost = tick.lost \ {row}
          /\ tick'.phase = IF tick.lost = {row} THEN "nodes" ELSE "requeue"
          /\ \/ jobs' = IF Exhausted(row) THEN UpdateStatus(row.job, "failed")
                                          ELSE Requeue(row.job, "queued")
             \/ jobs' = jobs
    BY <1>0, <1>4, RequeueEffect, Zenon
  <2>2. tick.phase = "requeue" /\ KeepsQueue /\ KeepsView /\ KeepsPlan
    BY <1>0, <1>4, RequeueEffect, Zenon
  <2>3. /\ tick'.pending = {} /\ tick'.victims = {}
        /\ \A n \in Node : tick'.running[n] = {}
    BY <1>0, <2>2, Zenon DEF Filled, KeepsQueue, KeepsView, KeepsPlan
  <2>4. \A k \in Job \ {row.job} : jobs'[k] = jobs[k]
    BY <1>0, <1>00, <1>01, <2>1, UpdateEffect, RequeueRow
  <2>5. \A r \in tick.lost \ {row} : r.job # row.job
    <3>1. SUFFICES ASSUME NEW r \in tick.lost, r.job = row.job PROVE r = row
      BY Zenon
    <3>2. r.retry = row.retry
      BY <1>0, <3>1, Zenon DEF LostFresh
    <3>3. r \in [job : Job, retry : Nat] /\ row \in [job : Job, retry : Nat]
      BY <1>0, Zenon DEF TickState
    <3> QED
      BY <3>1, <3>2, <3>3
  <2>6. LostFresh'
    BY <1>0, <1>00, <2>1, <2>4, <2>5, Zenon DEF LostFresh
  <2> QED
    BY <2>1, <2>2, <2>3, <2>6, Zenon DEF Filled, QueueWaits, RunningApart, VictimsApart
<1>5. CASE ListNodes \/ ListQueued \/ ListActive \/ OrderQueue
  <2>1. UNCHANGED jobs
    BY <1>0, <1>5, ListingEffect, Zenon
  <2> USE DEF Filled, QueueWaits, RunningApart, VictimsApart, LostFresh, KeepsQueue, KeepsView,
              KeepsPlan, KeepsLost
  <2>2. CASE /\ tick.phase = "nodes" /\ tick'.phase = "queued" /\ tick'.view = nodes
             /\ tick'.running = tick.running /\ KeepsQueue /\ KeepsPlan /\ KeepsLost
    BY <1>0, <2>1, <2>2, Zenon
  <2>3. CASE /\ tick.phase = "queued" /\ tick'.phase = "active"
             /\ tick'.pending = ListByStatuses({"queued"})
             /\ tick'.usage = tick.usage /\ KeepsView /\ KeepsPlan /\ KeepsLost
    BY <1>0, <2>1, <2>3, Zenon DEF ListByStatuses
  <2>4. CASE /\ tick.phase = "active" /\ tick'.phase = "order"
             /\ \A n \in Node :
                   tick'.running[n] = {j \in ListByStatuses({"scheduled", "running"}) :
                                          jobs[j].node = n}
             /\ tick'.view = tick.view /\ KeepsQueue /\ KeepsPlan /\ KeepsLost
    BY <1>0, <1>00, <2>1, <2>4 DEF ListByStatuses, Alive
  <2>5. CASE /\ tick.phase = "order" /\ tick'.phase = "place"
             /\ tick'.pending = tick.pending /\ KeepsView /\ KeepsPlan /\ KeepsLost
    BY <1>0, <1>00, <2>1, <2>5, Zenon DEF Alive
  <2> QED
    BY <1>0, <1>1, <1>5, <2>2, <2>3, <2>4, <2>5, ListingEffect, Zenon
<1>6. ASSUME NEW j \in Job, NEW n \in Node, CommitPlacement(j, n) PROVE Good
  <2>1. /\ tick.phase \in {"place", "replace"} /\ Current(j) /\ j \in tick.pending
        /\ Fits(tick.view[n], Request[j])
    BY <1>0, <1>6, CommitEffect, Zenon
  <2>2. jobs' \in {jobs, Schedule(j, n)}
    BY <1>0, <1>6, CommitEffect, Zenon
  <2>3. /\ \A k \in Job \ {j} : jobs'[k] = jobs[k]
        /\ jobs'[j].status \in {"queued", "scheduled"} /\ jobs'[j].created = jobs[j].created
    BY <1>0, <2>1, <2>2, ScheduleEffect DEF QueueWaits
  <2>4. \A k \in Job : Alive(k) => Alive(k)'
    BY <2>3, Zenon DEF Alive
  <2>5. Alive(j)'
    BY <2>3, Zenon DEF Alive
  <2>6. \/ tick' = Idle
        \/ \A m \in Node : \/ tick'.running[m] = tick.running[m]
                           \/ tick'.running[m] = tick.running[m] \cup {j}
    BY <1>0, <1>6, CommitEffect, Zenon
  <2>7. CASE /\ jobs' = Schedule(j, n) /\ tick'.phase = "persist"
             /\ tick'.view[n] = Reserve(tick.view[n], Request[j])
             /\ KeepsQueue /\ tick'.victims = tick.victims /\ KeepsLost
    <3>1. tick' # Idle
      BY <2>7, IdleFields, Zenon
    <3>2. \A m \in Node : tick'.view[m].cap = tick.view[m].cap
      <4>1. tick.view[n] \in NodeRow /\ Request[j] \in Vec
        BY <1>0, JobAssumption, Zenon DEF TickState
      <4>2. tick'.view[n].cap = tick.view[n].cap
        BY <2>1, <2>7, <4>1, ReserveType
      <4>3. \A m \in Node \ {n} : tick'.view[m] = tick.view[m]
        BY <1>0, <1>6, <3>1, CommitEffect, Zenon
      <4> QED
        BY <4>2, <4>3, Zenon
    <3>3. SameOrder
      BY <1>00, <2>3, <2>7, <3>2, Zenon DEF SameOrder
    <3>4. Current(j)'
      BY <1>0, <2>1, <3>3, CurrentKept, Zenon
    <3>5. jobs'[j].status = "scheduled"
      BY <1>0, <2>7, ScheduleEffect, Zenon
    <3>6. Filled' /\ LostFresh'
      BY <1>0, <2>1, <2>7, Zenon DEF Filled, KeepsLost, LostFresh
    <3>7. QueueWaits'
      BY <1>0, <1>00, <2>1, <2>3, <2>7, <3>4, <3>5, Zenon DEF QueueWaits, KeepsQueue
    <3>8. RunningApart'
      BY <1>0, <1>00, <2>1, <2>4, <2>5, <2>6, <2>7, <3>1, <3>4, Zenon DEF RunningApart, KeepsQueue
    <3>9. VictimsApart'
      BY <1>0, <1>00, <2>4, <2>7, Zenon DEF VictimsApart, KeepsQueue
    <3> QED
      BY <3>6, <3>7, <3>8, <3>9, Zenon
  <2>8. CASE Advanced(j) /\ tick' # Idle
    <3>1. /\ tick'.phase = "place" /\ tick'.pending = tick.pending \ {j}
          /\ tick'.victims = tick.victims /\ KeepsLost
      BY <2>8, Zenon DEF Advanced
    <3>2. Filled' /\ LostFresh'
      BY <1>0, <2>1, <3>1, Zenon DEF Filled, KeepsLost, LostFresh
    <3>3. QueueWaits'
      BY <1>0, <1>00, <2>1, <2>3, <3>1, Zenon DEF QueueWaits
    <3>4. RunningApart'
      BY <1>0, <1>00, <2>1, <2>4, <2>5, <2>6, <2>8, <3>1 DEF RunningApart
    <3>5. VictimsApart'
      BY <1>0, <1>00, <2>4, <3>1, Zenon DEF VictimsApart
    <3> QED
      BY <3>2, <3>3, <3>4, <3>5, Zenon
  <2> QED
    BY <1>0, <1>1, <1>6, <2>7, <2>8, CommitEffect, Zenon
<1>7. CASE PersistPlacement \/ PersistEviction
  <2>1. /\ \/ tick.phase = "persist" /\ tick'.phase = "record"
           \/ tick.phase = "evicted" /\ tick'.phase = "replace"
        /\ jobs' = jobs /\ KeepsQueue /\ KeepsView /\ KeepsPlan /\ KeepsLost
    BY <1>0, <1>7, PersistEffect, Zenon
  <2>2. \A j \in Job : Current(j)' <=> Current(j)
    BY <1>0, <2>1, CurrentKept, Zenon DEF SameOrder, KeepsView
  <2>3. Filled' /\ LostFresh'
    BY <1>0, <2>1, Zenon DEF Filled, LostFresh, KeepsLost
  <2>4. QueueWaits'
    BY <1>0, <1>00, <2>1, <2>2, Zenon DEF QueueWaits, KeepsQueue
  <2>5. RunningApart' /\ VictimsApart'
    BY <1>0, <1>00, <2>1, <2>2, Zenon DEF RunningApart, VictimsApart, KeepsQueue, KeepsView, KeepsPlan, Alive
  <2> QED
    BY <2>3, <2>4, <2>5, Zenon
<1>8. ASSUME NEW j \in Job, RecordPlacement(j) \/ GiveUp(j) PROVE Good
  <2>1. /\ Current(j) /\ j \in tick.pending /\ jobs' = jobs /\ Advanced(j)
        /\ tick' = Idle \/ KeepsView
        /\ tick.phase \in {"record", "place", "replace"}
    BY <1>0, <1>8, RecordEffect, Zenon
  <2>2. CASE tick' # Idle
    <3>1. /\ tick'.phase = "place" /\ tick'.pending = tick.pending \ {j}
          /\ tick'.victims = tick.victims /\ KeepsLost /\ KeepsView
      BY <2>1, <2>2, Zenon DEF Advanced
    <3>2. \A k \in tick.pending \ {j} : ~ Current(k)
      BY <1>0, <1>00, <2>1, CurrentUnique, Zenon
    <3>3. Filled' /\ LostFresh'
      BY <1>0, <2>1, <3>1, Zenon DEF Filled, LostFresh, KeepsLost
    <3>4. QueueWaits'
      BY <1>0, <2>1, <3>1, <3>2, Zenon DEF QueueWaits
    <3>5. RunningApart' /\ VictimsApart'
      BY <1>0, <1>00, <2>1, <3>1, <3>2, Zenon DEF RunningApart, VictimsApart, KeepsView, Alive
    <3> QED
      BY <3>3, <3>4, <3>5, Zenon
  <2> QED
    BY <1>1, <2>2, Zenon
<1>9. ASSUME NEW j \in Job, PlanPreemption(j) PROVE Good
  <2>1. /\ tick.phase = "place" /\ tick'.phase = "evict" /\ jobs' = jobs
        /\ KeepsQueue /\ KeepsView /\ KeepsLost
    BY <1>0, <1>9, PlanEffect, Zenon DEF store
  <2>2. PICK p \in Plans(j, tick.view, tick.running, Created) : tick'.victims = p.victims
    BY <1>0, <1>9, PlanEffect, Zenon
  <2>3. p.node \in Node /\ p.victims \subseteq tick.running[p.node]
    BY Zenon DEF Plans, Chosen, Candidates
  <2>4. Filled' /\ LostFresh' /\ QueueWaits'
    BY <1>0, <2>1, Zenon DEF Filled, LostFresh, QueueWaits, KeepsQueue, KeepsLost
  <2>5. RunningApart'
    BY <1>0, <2>1, Zenon DEF RunningApart, KeepsQueue, KeepsView, Alive
  <2>6. VictimsApart'
    BY <1>0, <2>1, <2>2, <2>3, Zenon DEF RunningApart, VictimsApart, KeepsQueue, Alive
  <2> QED
    BY <2>4, <2>5, <2>6, Zenon
<1>10. ASSUME NEW v \in Job, EvictVictim(v) \/ ReturnVictim(v) PROVE Good
  <2>1. /\ tick.phase \in {"evict", "return"} /\ v \in tick.victims
        /\ KeepsQueue /\ KeepsLost /\ tick'.running = tick.running
        /\ tick'.phase \in {"evict", "return", "evicted"}
        /\ tick'.victims = tick.victims \/ tick'.victims = tick.victims \ {v}
        /\ jobs' \in {jobs, Requeue(v, "preempted"), UpdateStatus(v, "queued")}
    BY <1>0, <1>10, EvictEffect, ReturnEffect, Zenon DEF NextVictim, PastVictim, KeepsView
  <2>2. /\ \A k \in Job \ {v} : jobs'[k] = jobs[k]
        /\ jobs'[v] = jobs[v] \/ Alive(v)'
    BY <1>0, <1>01, <2>1, UpdateEffect, RequeueRow DEF Alive
  <2>3. v \notin tick.pending /\ Alive(v)
    BY <1>0, <2>1, Zenon DEF VictimsApart
  <2>4. \A k \in Job : Alive(k) => Alive(k)'
    BY <2>2, <2>3, Zenon DEF Alive
  <2>5. Filled' /\ LostFresh'
    BY <1>0, <2>1, Zenon DEF Filled, LostFresh, KeepsLost
  <2>6. QueueWaits'
    BY <1>0, <1>00, <2>1, <2>2, <2>3, Zenon DEF QueueWaits, KeepsQueue
  <2>7. RunningApart' /\ VictimsApart'
    BY <1>0, <1>00, <2>1, <2>4, Zenon DEF RunningApart, VictimsApart, KeepsQueue
  <2> QED
    BY <2>5, <2>6, <2>7, Zenon
<1>11. CASE Stop
  BY <1>1, <1>11, Zenon DEF Stop
<1> QED
  BY <1>2, <1>3, <1>4, <1>5, <1>6, <1>7, <1>8, <1>9, <1>10, <1>11, Zenon DEF EngineNext, TickStep

(* The invariant of the jobs' lives is kept by every step.                 *)
LEMMA LifeStep == LifeInv /\ [Next]_vars => LifeInv'
<1> SUFFICES ASSUME LifeInv, [Next]_vars PROVE LifeInv'
  BY Zenon
<1>1. CASE Engines
  <2>1. TypeInv' /\ TotalsAdd'
    BY TypeStep, TotalsConstant, Zenon DEF LifeInv
  <2> QED
    BY <1>1, <2>1, EngineLife, Zenon DEF Engines, LifeInv
<1>2. CASE Users \/ Agents \/ UNCHANGED vars
  BY <1>2, OthersLife, Zenon
<1> QED
  BY <1>1, <1>2, Zenon DEF Next

-----------------------------------------------------------------------------
(* Who writes the rows of the jobs *)

(* The engine writes a job's row when it requeues, places, evicts or       *)
(* returns it, and only then.                                              *)
LEMMA JobWriters ==
    ASSUME EngineNext
    PROVE  \/ jobs' = jobs \/ RequeueLost
           \/ \E j \in Job, n \in Node : CommitPlacement(j, n)
           \/ \E v \in Job : EvictVictim(v) \/ ReturnVictim(v)
BY Zenon DEF EngineNext, TickStep, StartTick, ListLost, ListNodes, ListQueued, ListActive,
       OrderQueue, Read, PersistPlacement, PersistEviction, RecordPlacement, GiveUp,
       PlanPreemption, Stop, store

-----------------------------------------------------------------------------
(* What the proofs about particular configurations share *)

(* Preemption happens only where it is enabled.                            *)
NoEvictions == tick.phase \notin {"evict", "return", "evicted", "replace"}

(* The view is filled.                                                     *)
Listed == tick.phase \notin {"idle", "lost", "requeue", "nodes"}

(* Without preemption no tick plans, carries out or follows an eviction.   *)
LEMMA EvictionsOff ==
    ASSUME ~ EnablePreemption, EngineInv, NoEvictions, EngineNext
    PROVE  NoEvictions'
<1> USE DEF NoEvictions
<1>1. ASSUME tick' = Idle PROVE NoEvictions'
  BY <1>1, IdleFields, Zenon
<1>2. CASE StartTick
  BY <1>2, StartEffect, Zenon
<1>3. CASE ListLost
  BY <1>3, ListLostEffect, Zenon
<1>4. CASE RequeueLost
  BY <1>4, RequeueEffect, Zenon
<1>5. CASE ListNodes \/ ListQueued \/ ListActive \/ OrderQueue
  BY <1>1, <1>5, ListingEffect, Zenon
<1>6. ASSUME NEW j \in Job, NEW n \in Node, CommitPlacement(j, n) PROVE NoEvictions'
  BY <1>1, <1>6, CommitEffect, Zenon DEF Advanced
<1>7. CASE PersistPlacement \/ PersistEviction
  BY <1>7, PersistEffect, Zenon
<1>8. ASSUME NEW j \in Job, RecordPlacement(j) \/ GiveUp(j) PROVE NoEvictions'
  BY <1>1, <1>8, RecordEffect, Zenon DEF Advanced
<1>9. ASSUME NEW j \in Job, PlanPreemption(j) PROVE NoEvictions'
  BY <1>9, PlanEffect, Zenon
<1>10. ASSUME NEW v \in Job, EvictVictim(v) \/ ReturnVictim(v) PROVE NoEvictions'
  BY <1>10, EvictEffect, ReturnEffect, Zenon
<1>11. CASE Stop
  BY <1>1, <1>11, Zenon DEF Stop
<1> QED
  BY <1>2, <1>3, <1>4, <1>5, <1>6, <1>7, <1>8, <1>9, <1>10, <1>11, Zenon DEF EngineNext, TickStep

(* Every registered machine is up, and none is about to be reconciled.     *)
AllUp ==
    /\ outages = 0 /\ tick.phase \notin {"lost", "requeue"}
    /\ \A n \in Node : /\ up[n] <=> nodes[n].status # "absent"
                       /\ nodes[n].fresh <=> nodes[n].status # "absent"

(* While nothing is lost or evicted the engine rewrites only rows of       *)
(* queued jobs.                                                            *)
LEMMA RowsPlaced ==
    ASSUME LifeInv, NoEvictions, AllUp, EngineNext, NEW j \in Job
    PROVE  jobs'[j] = jobs[j] \/ (jobs[j].status = "queued" /\ jobs'[j].status = "scheduled")
<1>0. /\ EngineInv /\ QueueWaits /\ jobs \in [Job -> JobRow]
      /\ tick.phase \notin {"lost", "requeue"}
  BY Zenon DEF LifeInv, TypeInv, EngineInv, StoreTypeOK, AllUp
<1>1. ~ RequeueLost
  BY <1>0, RequeueEffect, Zenon
<1>2. ASSUME NEW v \in Job, EvictVictim(v) \/ ReturnVictim(v) PROVE FALSE
  BY <1>0, <1>2, Zenon DEF EvictVictim, ReturnVictim, NoEvictions
<1>3. ASSUME NEW k \in Job, NEW n \in Node, CommitPlacement(k, n)
      PROVE  jobs'[j] = jobs[j] \/ (jobs[j].status = "queued" /\ jobs'[j].status = "scheduled")
  <2>1. /\ tick.phase \in {"place", "replace"} /\ k \in tick.pending
        /\ jobs' \in {jobs, Schedule(k, n)}
    BY <1>0, <1>3, CommitEffect, Zenon
  <2>2. jobs[k].status = "queued"
    BY <1>0, <2>1, Zenon DEF QueueWaits
  <2>3. jobs' = Schedule(k, n) =>
           (jobs'[k].status = "scheduled" /\ \A i \in Job \ {k} : jobs'[i] = jobs[i])
    <3>1. /\ Schedule(k, n)[k].status = "scheduled"
          /\ \A i \in Job \ {k} : Schedule(k, n)[i] = jobs[i]
      BY <1>0, ScheduleEffect, Zenon
    <3> QED
      BY <3>1, Zenon
  <2> QED
    BY <2>1, <2>2, <2>3, Zenon
<1> QED
  BY <1>1, <1>2, <1>3, JobWriters, Zenon

(* What others do to the jobs is to submit them.                           *)
LEMMA OthersRows ==
    ASSUME TypeInv, Users \/ Agents \/ UNCHANGED vars, NEW j \in Job
    PROVE  \/ jobs'[j] = jobs[j]
           \/ jobs[j].status = "absent" /\ jobs'[j].status = "queued" /\ jobs'[j].retry = 0
<1>0. jobs \in [Job -> JobRow]
  BY Zenon DEF TypeInv, EngineInv, StoreTypeOK
<1>1. CASE jobs' = jobs
  BY <1>1, Zenon
<1>2. ASSUME NEW k \in Job, jobs[k].status = "absent", jobs' = Create(k)
      PROVE  \/ jobs'[j] = jobs[j]
             \/ jobs[j].status = "absent" /\ jobs'[j].status = "queued" /\ jobs'[j].retry = 0
  BY <1>0, <1>2, CreateEffect, Zenon
<1> QED
  BY <1>1, <1>2, OthersEffect, Zenon

(* What others do leaves the tick at its job.                              *)
LEMMA OthersOrder ==
    ASSUME LifeInv, Users \/ Agents \/ UNCHANGED vars, NEW j \in Job
    PROVE  Current(j)' <=> Current(j)
<1>0. /\ TypeInv /\ EngineInv /\ QueueWaits /\ tick.pending \subseteq Job
  BY Zenon DEF LifeInv, TypeInv, EngineInv, EngineTypeOK, TickState
<1>1. tick' = tick
  BY <1>0, OthersEffect, Zenon
<1>2. \A k \in tick.pending : jobs'[k] = jobs[k]
  BY <1>0, OthersRows, Zenon DEF QueueWaits
<1> QED
  BY <1>0, <1>1, <1>2, CurrentKept, Zenon DEF SameOrder, KeepsQueue

(* Without faults every statement succeeds and no tick stops midway.       *)
LEMMA NoFaults ==
    ASSUME MaxFaults = 0, EngineInv
    PROVE  ~ faults < MaxFaults /\ ~ Stop
BY DEF EngineInv, StoreTypeOK, Stop

-----------------------------------------------------------------------------
(* What is free and what is used *)

(* What is free on n as far as the engine knows: the view is ahead of the  *)
(* table between Schedule and UpdateAvailability.                          *)
Free(n) ==
    IF tick.phase = "persist" /\ n = tick.target THEN tick.view[n].avail ELSE nodes[n].avail

SoldOnce == \A n \in Node, d \in Dim : Free(n)[d] + Used(n, d) <= nodes[n].cap[d]

(* Elsewhere the view and the table agree on nodes in service.             *)
ViewCurrent ==
    Listed => \A n \in Node : tick.view[n].status = "ready" => tick.view[n].avail = Free(n)

(* The view lists only registered nodes, and jobs are placed only on nodes *)
(* in service.                                                             *)
ViewKnown ==
    /\ Listed => \A n \in Node : tick.view[n].status # "absent" => nodes[n].status # "absent"
    /\ tick.phase = "persist" => tick.view[tick.target].status = "ready"

AbsentEmpty ==
    \A n \in Node : nodes[n].status = "absent" =>
        \A d \in Dim : nodes[n].avail[d] = 0 /\ nodes[n].cap[d] = 0

(* Until the first outage every registered node is up, and all that is     *)
(* free is advertised.                                                     *)
NoneLost ==
    outages = 0 =>
        /\ \A n \in Node : /\ up[n] <=> nodes[n].status # "absent"
                           /\ nodes[n].fresh <=> nodes[n].status # "absent"
        /\ tick.phase \notin {"lost", "requeue"}
        /\ \A n \in Node, d \in Dim : Free(n)[d] + Used(n, d) = nodes[n].cap[d]

LedgerInv ==
    /\ RangeInv /\ LifeInv /\ NoEvictions
    /\ SoldOnce /\ ViewCurrent /\ ViewKnown /\ AbsentEmpty /\ NoneLost

(* The ledger part of the invariant, to be shown for each step.            *)
LedgerOK == SoldOnce /\ ViewCurrent /\ ViewKnown /\ AbsentEmpty /\ NoneLost

(* What is used is a number, and it is decided by who is there.            *)
LEMMA UsedType ==
    ASSUME TotalsAdd, NEW n, NEW d \in Dim
    PROVE  Used(n, d) \in Nat /\ Occupants(n) \in SUBSET Job
<1>1. Occupants(n) \in SUBSET Job
  BY Zenon DEF Occupants
<1> QED
  BY <1>1, TotalType, Zenon DEF Used

(* The same jobs use the same.                                             *)
LEMMA UsedKept ==
    ASSUME NEW n, NEW d, Occupants(n)' = Occupants(n)
    PROVE  Used(n, d)' = Used(n, d)
BY Zenon DEF Used, Total, Units

(* A step that changes neither the free and the used resources nor the     *)
(* capacities keeps the ledger.                                            *)
LEMMA LedgerKept ==
    ASSUME LedgerOK, \A n \in Node : /\ Free(n)' = Free(n) /\ Occupants(n)' = Occupants(n)
                                     /\ nodes'[n].cap = nodes[n].cap
    PROVE  /\ SoldOnce'
           /\ outages = 0 => \A n \in Node, d \in Dim : Free(n)'[d] + Used(n, d)' = nodes'[n].cap[d]
<1>1. \A n \in Node, d \in Dim : Used(n, d)' = Used(n, d)
  BY UsedKept, Zenon
<1> QED
  BY <1>1 DEF LedgerOK, SoldOnce, NoneLost

(* Every step of the engine keeps the ledger.                              *)
LEMMA EngineLedger ==
    ASSUME MaxFaults = 0, ~ EnablePreemption, LedgerInv, EngineNext, UNCHANGED membership
    PROVE  LedgerOK'
<1> TotalsAdd
  BY Zenon DEF LedgerInv, LifeInv
<1>0. /\ EngineInv /\ jobs \in [Job -> JobRow] /\ nodes \in [Node -> NodeRow]
      /\ tick \in TickState /\ QueueWaits /\ LostFresh /\ NoEvictions /\ Bounded
      /\ LedgerOK /\ SoldOnce /\ ViewCurrent /\ ViewKnown /\ AbsentEmpty /\ NoneLost
  BY Zenon DEF LedgerInv, LedgerOK, LifeInv, TypeInv, EngineInv, StoreTypeOK, EngineTypeOK, RangeInv
<1>01. ~ faults < MaxFaults /\ ~ Stop
  BY <1>0, NoFaults, Zenon
<1>02. up' = up /\ outages' = outages
  BY Zenon DEF membership
<1>03. \A n \in Node, d \in Dim :
          /\ nodes[n].avail[d] \in Nat /\ nodes[n].cap[d] \in Nat
          /\ tick.view[n].avail[d] \in Nat /\ tick.view[n].cap[d] \in Nat
          /\ Used(n, d) \in Nat /\ Free(n)[d] \in Nat
  <2>1. \A n \in Node, d \in Dim :
          /\ nodes[n].avail[d] \in Nat /\ nodes[n].cap[d] \in Nat
          /\ tick.view[n].avail[d] \in Nat /\ tick.view[n].cap[d] \in Nat
    BY <1>0 DEF TickState, NodeRow, Vec
  <2> QED
    BY <2>1, UsedType, Zenon DEF Free
<1>1. ASSUME /\ \A n \in Node : Occupants(n)' = Occupants(n)
             /\ nodes' = nodes /\ tick.phase # "persist" /\ tick'.phase # "persist"
             /\ Listed' => tick'.view = nodes \/ (Listed /\ tick'.view = tick.view)
             /\ outages = 0 => tick'.phase \notin {"lost", "requeue"}
      PROVE  LedgerOK'
  <2>1. \A n \in Node : Free(n)' = nodes[n].avail /\ Free(n) = nodes[n].avail
    BY <1>1, Zenon DEF Free
  <2>2. ViewCurrent' /\ ViewKnown'
    BY <1>0, <1>1, <2>1, Zenon DEF ViewCurrent, ViewKnown
  <2>3. AbsentEmpty'
    BY <1>0, <1>1, Zenon DEF AbsentEmpty
  <2>4. /\ SoldOnce'
        /\ outages = 0 => \A n \in Node, d \in Dim : Free(n)'[d] + Used(n, d)' = nodes'[n].cap[d]
    BY <1>0, <1>1, <2>1, LedgerKept, Zenon
  <2>5. NoneLost'
    BY <1>0, <1>02, <1>1, <2>4, Zenon DEF NoneLost
  <2> QED
    BY <2>2, <2>3, <2>4, <2>5, Zenon DEF LedgerOK
<1>2. CASE StartTick
  <2>1. /\ tick.phase = "idle" /\ jobs' = jobs /\ nodes' = MarkStaleDown
        /\ \/ tick'.phase = "lost" /\ StaleNodes # {}
           \/ tick'.phase = "nodes"
    BY <1>0, <1>01, <1>2, StartEffect, Zenon
  <2>2. \A n \in Node : /\ nodes'[n].cap = nodes[n].cap /\ nodes'[n].avail = nodes[n].avail
                        /\ nodes'[n].fresh = nodes[n].fresh
                        /\ nodes'[n].status = "absent" <=> nodes[n].status = "absent"
    BY <1>0, <2>1, Zenon DEF MarkStaleDown, StaleNodes, NodeRow
  <2>3. \A n \in Node : Free(n)' = Free(n) /\ Occupants(n)' = Occupants(n)
    BY <2>1, <2>2, Zenon DEF Free, Occupants
  <2>4. /\ SoldOnce'
        /\ outages = 0 => \A n \in Node, d \in Dim : Free(n)'[d] + Used(n, d)' = nodes'[n].cap[d]
    BY <1>0, <2>2, <2>3, LedgerKept, Zenon
  <2>5. ViewCurrent' /\ ViewKnown'
    BY <2>1, Zenon DEF ViewCurrent, ViewKnown, Listed
  <2>6. AbsentEmpty'
    BY <1>0, <2>2 DEF AbsentEmpty
  <2>7. outages = 0 => StaleNodes = {}
    BY <1>0, Zenon DEF NoneLost, StaleNodes
  <2>8. NoneLost'
    BY <1>0, <1>02, <2>1, <2>2, <2>4, <2>7, Zenon DEF NoneLost
  <2> QED
    BY <2>4, <2>5, <2>6, <2>8, Zenon DEF LedgerOK
<1>3. CASE ListLost
  <2>1. /\ tick.phase = "lost" /\ jobs' = jobs /\ nodes' = nodes
        /\ tick'.phase \in {"requeue", "nodes"}
    BY <1>0, <1>3, ListLostEffect, Zenon
  <2>2. outages # 0
    BY <1>0, <2>1, Zenon DEF NoneLost
  <2> QED
    BY <1>1, <2>1, <2>2, Zenon DEF Occupants, Listed
<1>4. CASE RequeueLost
  <2>1. PICK row \in tick.lost :
          /\ row.job \in Job
          /\ jobs' = IF Exhausted(row) THEN UpdateStatus(row.job, "failed")
                                       ELSE Requeue(row.job, "queued")
    BY <1>0, <1>01, <1>4, RequeueEffect, Zenon
  <2>2. tick.phase = "requeue" /\ nodes' = nodes /\ tick'.phase \in {"nodes", "requeue"}
    BY <1>0, <1>4, RequeueEffect, Zenon
  <2>3. "failed" \in JobStatus /\ "queued" \in JobStatus
    BY Zenon DEF JobStatus
  <2>4. /\ \A k \in Job \ {row.job} : jobs'[k] = jobs[k]
        /\ jobs'[row.job].status \in {"failed", "queued"}
    BY <1>0, <2>1, <2>3, UpdateEffect, RequeueRow
  <2>5. \A n \in Node : Occupants(n)' \subseteq Occupants(n)
    BY <2>4, Zenon DEF Occupants, IsActive
  <2>6. \A n \in Node, d \in Dim : Used(n, d)' <= Used(n, d) /\ Used(n, d)' \in Nat
    <3>1. SUFFICES ASSUME NEW n \in Node, NEW d \in Dim
                   PROVE  Used(n, d)' <= Used(n, d) /\ Used(n, d)' \in Nat
      BY Zenon
    <3>2. Occupants(n) \in SUBSET Job /\ Occupants(n)' \in SUBSET Job
      BY Zenon DEF Occupants
    <3>3. /\ Total(d, Occupants(n)') <= Total(d, Occupants(n))
          /\ Total(d, Occupants(n)') \in Nat
      BY <2>5, <3>2, TotalMonotone, TotalType, Zenon
    <3> QED
      BY <3>3, Zenon DEF Used, Total, Units
  <2>7. \A n \in Node : Free(n)' = Free(n)
    BY <2>2, Zenon DEF Free
  <2>8. SoldOnce'
    <3>1. SUFFICES ASSUME NEW n \in Node, NEW d \in Dim
                   PROVE  Free(n)'[d] + Used(n, d)' <= nodes'[n].cap[d]
      BY Zenon DEF SoldOnce
    <3>2. Free(n)[d] + Used(n, d) <= nodes[n].cap[d]
      BY <1>0, Zenon DEF SoldOnce
    <3> QED
      BY <1>03, <2>2, <2>6, <2>7, <3>2
  <2>9. outages # 0
    BY <1>0, <2>2, Zenon DEF NoneLost
  <2> QED
    BY <1>0, <1>02, <2>2, <2>8, <2>9, Zenon
       DEF LedgerOK, ViewCurrent, ViewKnown, Listed, AbsentEmpty, NoneLost
<1>5. CASE ListNodes \/ ListQueued \/ ListActive \/ OrderQueue
  <2>1. /\ jobs' = jobs /\ nodes' = nodes
        /\ tick'.phase \in {"idle", "queued", "active", "order", "place"}
    BY <1>0, <1>5, ListingEffect, IdleFields, Zenon
  <2>2. tick.phase \in {"nodes", "queued", "active", "order"}
    BY <1>5, Zenon DEF ListNodes, ListQueued, ListActive, OrderQueue
  <2>3. tick'.phase = "idle" \/ tick'.view = nodes \/ (tick'.view = tick.view /\ Listed)
    BY <1>0, <1>5, ListingEffect, IdleFields, Zenon DEF KeepsView, Listed
  <2> QED
    BY <1>1, <2>1, <2>2, <2>3, Zenon DEF Occupants, Listed
<1>6. ASSUME NEW j \in Job, NEW n \in Node, CommitPlacement(j, n) PROVE LedgerOK'
  <2>1. /\ tick.phase = "place" /\ j \in tick.pending
        /\ Fits(tick.view[n], Request[j]) /\ nodes' = nodes
        /\ jobs' = Schedule(j, n) /\ tick'.phase = "persist" /\ tick'.target = n
        /\ tick'.view[n] = Reserve(tick.view[n], Request[j])
        /\ \A m \in Node \ {n} : tick'.view[m] = tick.view[m] \/ tick' = Idle
    BY <1>0, <1>01, <1>6, CommitEffect, Zenon DEF NoEvictions
  <2>2. \A m \in Node \ {n} : tick'.view[m] = tick.view[m]
    BY <2>1, IdleFields, Zenon
  <2>3. /\ \A k \in Job \ {j} : jobs'[k] = jobs[k]
        /\ jobs'[j].node = n /\ jobs'[j].status = "scheduled" /\ jobs[j].status = "queued"
    BY <1>0, <2>1, ScheduleEffect DEF QueueWaits
  <2>4. /\ Occupants(n)' = Occupants(n) \cup {j} /\ j \notin Occupants(n)
        /\ \A m \in Node \ {n} : Occupants(m)' = Occupants(m)
    BY <2>3, Zenon DEF Occupants, IsActive
  <2>5. tick.view[n] \in NodeRow /\ Request[j] \in Vec
    BY <1>0, JobAssumption, Zenon DEF TickState
  <2>6. /\ tick'.view[n].status = tick.view[n].status /\ tick.view[n].status = "ready"
        /\ \A d \in Dim : tick'.view[n].avail[d] = tick.view[n].avail[d] - Request[j][d]
    BY <2>1, <2>5, ReserveType DEF Fits, Schedulable
  <2>7. Listed /\ Listed'
    BY <2>1, Zenon DEF Listed
  <2>8. /\ Free(n)' = tick'.view[n].avail /\ Free(n) = tick.view[n].avail
        /\ \A m \in Node \ {n} : Free(m)' = Free(m)
    BY <1>0, <2>1, <2>6, <2>7, Zenon DEF Free, ViewCurrent
  <2>9. \A d \in Dim : Used(n, d)' = Used(n, d) + Request[j][d]
    <3>1. SUFFICES ASSUME NEW d \in Dim PROVE Used(n, d)' = Used(n, d) + Request[j][d]
      BY Zenon
    <3>2. Total(d, Occupants(n) \cup {j}) = Total(d, Occupants(n)) + Request[j][d]
      BY <2>4, UsedType, TotalAdd, Zenon
    <3>3. Used(n, d)' = Total(d, Occupants(n)')
      BY Zenon DEF Used, Total, Units
    <3> QED
      BY <2>4, <3>2, <3>3, Zenon DEF Used
  <2>10. \A m \in Node \ {n}, d \in Dim : Used(m, d)' = Used(m, d)
    BY <2>4, UsedKept, Zenon
  <2>11. \A m \in Node, d \in Dim : Free(m)'[d] + Used(m, d)' = Free(m)[d] + Used(m, d)
    <3>1. \A d \in Dim : Request[j][d] \in Nat
      BY <2>5, Zenon DEF Vec
    <3>2. \A d \in Dim : Free(n)'[d] + Used(n, d)' = Free(n)[d] + Used(n, d)
      BY <1>03, <2>6, <2>8, <2>9, <3>1
    <3> QED
      BY <2>8, <2>10, <3>2, Zenon
  <2>12. SoldOnce'
    BY <1>0, <2>1, <2>11, Zenon DEF SoldOnce
  <2>13. ViewCurrent'
    BY <1>0, <2>2, <2>7, <2>8, Zenon DEF ViewCurrent
  <2>14. ViewKnown'
    BY <1>0, <2>1, <2>2, <2>6, <2>7, Zenon DEF ViewKnown
  <2>15. AbsentEmpty' /\ NoneLost'
    BY <1>0, <1>02, <2>1, <2>11 DEF AbsentEmpty, NoneLost
  <2> QED
    BY <2>12, <2>13, <2>14, <2>15, Zenon DEF LedgerOK
<1>7. CASE PersistPlacement \/ PersistEviction
  <2>1. /\ tick.phase = "persist" /\ tick'.phase = "record"
        /\ jobs' = jobs /\ tick'.view = tick.view /\ tick'.target = tick.target
        /\ tick.target \in Node
        /\ nodes' = UpdateAvailability(tick.target, tick.view[tick.target].avail)
    BY <1>0, <1>01, <1>7, PersistEffect, Zenon DEF NoEvictions, KeepsView, KeepsPlan
  <2>2. /\ \A n \in Node : /\ nodes'[n].cap = nodes[n].cap /\ nodes'[n].status = nodes[n].status
                           /\ nodes'[n].fresh = nodes[n].fresh
        /\ \A n \in Node \ {tick.target} : nodes'[n].avail = nodes[n].avail
        /\ nodes'[tick.target].avail = tick.view[tick.target].avail
    BY <1>0, <2>1, Zenon DEF UpdateAvailability, NodeRow
  <2>3. \A n \in Node : Free(n)' = Free(n) /\ Occupants(n)' = Occupants(n)
    BY <2>1, <2>2, Zenon DEF Free, Occupants
  <2>4. /\ SoldOnce'
        /\ outages = 0 => \A n \in Node, d \in Dim : Free(n)'[d] + Used(n, d)' = nodes'[n].cap[d]
    BY <1>0, <2>2, <2>3, LedgerKept, Zenon
  <2>5. ViewCurrent' /\ ViewKnown'
    BY <1>0, <2>1, <2>2, <2>3, Zenon DEF ViewCurrent, ViewKnown, Listed
  <2>6. nodes[tick.target].status # "absent"
    BY <1>0, <2>1, Zenon DEF ViewKnown, Listed
  <2>7. AbsentEmpty'
    BY <1>0, <2>2, <2>6 DEF AbsentEmpty
  <2>8. NoneLost'
    <3>1. outages = 0 => \A n \in Node : /\ up'[n] <=> nodes'[n].status # "absent"
                                         /\ nodes'[n].fresh <=> nodes'[n].status # "absent"
      BY <1>0, <1>02, <2>2, Zenon DEF NoneLost
    <3>2. tick'.phase \notin {"lost", "requeue"}
      BY <2>1, Zenon
    <3> QED
      BY <1>02, <2>4, <3>1, <3>2, Zenon DEF NoneLost
  <2> QED
    BY <2>4, <2>5, <2>7, <2>8, Zenon DEF LedgerOK
<1>8. ASSUME NEW j \in Job, RecordPlacement(j) \/ GiveUp(j) PROVE LedgerOK'
  <2>1. /\ jobs' = jobs /\ nodes' = nodes /\ tick.phase \in {"record", "place", "replace"}
        /\ tick'.phase \in {"idle", "place"}
        /\ tick'.phase = "idle" \/ tick'.view = tick.view
    BY <1>0, <1>8, RecordEffect, IdleFields, Zenon DEF Advanced, KeepsView
  <2> QED
    BY <1>1, <2>1, Zenon DEF Occupants, Listed
<1>9. ASSUME NEW j \in Job, PlanPreemption(j) PROVE FALSE
  BY <1>0, <1>9, PlanEffect, Zenon
<1>10. ASSUME NEW v \in Job, EvictVictim(v) \/ ReturnVictim(v) PROVE FALSE
  BY <1>0, <1>10, EvictEffect, ReturnEffect, Zenon DEF NoEvictions
<1> QED
  BY <1>01, <1>2, <1>3, <1>4, <1>5, <1>6, <1>7, <1>8, <1>9, <1>10, Zenon DEF EngineNext, TickStep

(* The columns of a node's row that membership writes.                     *)
LEMMA RegisterEffect ==
    ASSUME nodes \in [Node -> NodeRow], up \in [Node -> BOOLEAN], NEW n \in Node, Register(n)
    PROVE  /\ ~ up[n] /\ up'[n] /\ \A m \in Node \ {n} : up'[m] = up[m] /\ nodes'[m] = nodes[m]
           /\ outages' = outages /\ jobs' = jobs
           /\ nodes'[n].cap \in Capacity[n] /\ nodes'[n].fresh
           /\ IF nodes[n].status = "absent"
              THEN nodes'[n].status = "ready" /\ nodes'[n].avail = nodes'[n].cap
              ELSE nodes'[n].status = nodes[n].status /\ nodes'[n].avail = nodes[n].avail
BY DEF Register, Upsert, NodeRow

(* Other membership steps write only status and freshness.                 *)
LEMMA PresenceEffect ==
    ASSUME nodes \in [Node -> NodeRow], up \in [Node -> BOOLEAN], outages \in Nat, NEW n \in Node,
           SendHeartbeat(n) \/ HeartbeatLapse(n) \/ AgentExit(n)
    PROVE  /\ jobs' = jobs
           /\ \A m \in Node : /\ nodes'[m].cap = nodes[m].cap /\ nodes'[m].avail = nodes[m].avail
                              /\ nodes'[m].status = "absent" <=> nodes[m].status = "absent"
           /\ \/ outages' # 0
              \/ /\ up' = up /\ outages' = outages
                 /\ \/ ~ up[n] /\ nodes[n].fresh
                    \/ /\ up[n] /\ nodes'[n].fresh
                       /\ \A m \in Node \ {n} : nodes'[m].fresh = nodes[m].fresh
<1>1. CASE SendHeartbeat(n)
  BY <1>1, Zenon DEF SendHeartbeat, Heartbeat, NodeRow, membership
<1>2. CASE HeartbeatLapse(n)
  BY <1>2 DEF HeartbeatLapse, NodeRow
<1>3. CASE AgentExit(n)
  BY <1>3 DEF AgentExit, store
<1> QED
  BY <1>1, <1>2, <1>3, Zenon

(* Users and operators neither add nor remove a machine, nor refresh one.  *)
LEMMA UserPresence ==
    ASSUME nodes \in [Node -> NodeRow], GatewayNext \/ TickClock
    PROVE  \A n \in Node : /\ nodes'[n].fresh = nodes[n].fresh
                           /\ nodes'[n].status = "absent" <=> nodes[n].status = "absent"
<1>1. CASE nodes' = nodes
  BY <1>1, Zenon
<1>2. ASSUME NEW m \in Node, NEW s \in Commands, SetNodeStatus(m, s)
      PROVE  \A n \in Node : /\ nodes'[n].fresh = nodes[n].fresh
                             /\ nodes'[n].status = "absent" <=> nodes[n].status = "absent"
  BY <1>2, GatewayAssumption, Zenon DEF SetNodeStatus, SetStatus, NodeRow
<1> QED
  BY <1>1, <1>2, Zenon DEF GatewayNext, SubmitJob, TickClock

(* So do the steps of users and agents: a machine that joins is announced  *)
(* as entirely free, and nothing is on it yet.                             *)
LEMMA OthersLedger ==
    ASSUME FixedCapacity, LedgerInv, Users \/ Agents \/ UNCHANGED vars
    PROVE  LedgerOK'
<1> TotalsAdd
  BY Zenon DEF LedgerInv, LifeInv
<1>0. /\ TypeInv /\ StoreTypeOK /\ nodes \in [Node -> NodeRow] /\ tick \in TickState /\ Bounded
      /\ up \in [Node -> BOOLEAN] /\ outages \in Nat /\ CapacityKnown
      /\ LedgerOK /\ SoldOnce /\ ViewCurrent /\ ViewKnown /\ AbsentEmpty /\ NoneLost
      /\ TargetOK
  BY NodeServiceAssumption DEF LedgerInv, LedgerOK, LifeInv, TypeInv, EngineInv, StoreTypeOK,
     EngineTypeOK, RangeInv, MembershipTypeOK
<1>1. tick' = tick
  BY <1>0, OthersEffect, Zenon
<1>2. \A n \in Node : Occupants(n)' = Occupants(n)
  <2>1. \A j \in Job : \/ jobs'[j] = jobs[j]
                       \/ jobs[j].status = "absent" /\ jobs'[j].status = "queued"
    BY <1>0, OthersRows, Zenon
  <2> QED
    BY <2>1, Zenon DEF Occupants, IsActive
<1>3. ASSUME /\ \A n \in Node : /\ nodes'[n].cap = nodes[n].cap /\ nodes'[n].avail = nodes[n].avail
                                /\ nodes'[n].status = "absent" <=> nodes[n].status = "absent"
             /\ outages' = 0 =>
                   /\ outages = 0
                   /\ \A n \in Node : up'[n] = up[n] /\ (nodes'[n].fresh <=> nodes[n].fresh)
      PROVE  LedgerOK'
  <2>1. \A n \in Node : Free(n)' = Free(n)
    BY <1>1, <1>3, Zenon DEF Free
  <2>2. /\ SoldOnce'
        /\ outages = 0 => \A n \in Node, d \in Dim : Free(n)'[d] + Used(n, d)' = nodes'[n].cap[d]
    BY <1>0, <1>2, <1>3, <2>1, LedgerKept, Zenon
  <2>3. ViewCurrent' /\ ViewKnown' /\ AbsentEmpty'
    BY <1>0, <1>1, <1>3, <2>1 DEF ViewCurrent, ViewKnown, AbsentEmpty, Listed
  <2>4. NoneLost'
    BY <1>0, <1>1, <1>3, <2>2, Zenon DEF NoneLost
  <2> QED
    BY <2>2, <2>3, <2>4, Zenon DEF LedgerOK
<1>4. CASE Users
  <2>1. \A n \in Node : nodes'[n].cap = nodes[n].cap /\ nodes'[n].avail = nodes[n].avail
    BY <1>0, <1>4, UserStep, Zenon DEF Users
  <2>2. up' = up /\ outages' = outages
    BY <1>4, Zenon DEF Users, membership
  <2>3. \A n \in Node : /\ nodes'[n].fresh = nodes[n].fresh
                        /\ nodes'[n].status = "absent" <=> nodes[n].status = "absent"
    BY <1>0, <1>4, UserPresence, Zenon DEF Users
  <2> QED
    BY <1>3, <2>1, <2>2, <2>3, Zenon
<1>5. CASE Agents
  <2>1. PICK n \in Node : Register(n) \/ SendHeartbeat(n) \/ HeartbeatLapse(n) \/ AgentExit(n)
    BY <1>5, Zenon DEF Agents
  <2>2. CASE SendHeartbeat(n) \/ HeartbeatLapse(n) \/ AgentExit(n)
    <3>1. outages' = 0 => /\ outages = 0
                          /\ \A m \in Node : up'[m] = up[m] /\ (nodes'[m].fresh <=> nodes[m].fresh)
      <4> SUFFICES ASSUME outages' = 0
                   PROVE  /\ outages = 0
                          /\ \A m \in Node : up'[m] = up[m] /\ (nodes'[m].fresh <=> nodes[m].fresh)
        BY Zenon
      <4>1. /\ up' = up /\ outages' = outages
            /\ \/ ~ up[n] /\ nodes[n].fresh
               \/ /\ up[n] /\ nodes'[n].fresh
                  /\ \A m \in Node \ {n} : nodes'[m].fresh = nodes[m].fresh
        BY <1>0, <2>2, PresenceEffect, Zenon
      <4>2. up[n] <=> nodes[n].fresh
        BY <1>0, <4>1, Zenon DEF NoneLost
      <4> QED
        BY <4>1, <4>2, Zenon
    <3>2. \A m \in Node : /\ nodes'[m].cap = nodes[m].cap /\ nodes'[m].avail = nodes[m].avail
                          /\ nodes'[m].status = "absent" <=> nodes[m].status = "absent"
      BY <1>0, <2>2, PresenceEffect, Zenon
    <3> QED
      BY <1>3, <3>1, <3>2, Zenon
  <2>3. CASE Register(n)
    <3>0. /\ ~ up[n] /\ up'[n] /\ \A m \in Node \ {n} : up'[m] = up[m] /\ nodes'[m] = nodes[m]
          /\ outages' = outages /\ jobs' = jobs
          /\ nodes'[n].cap \in Capacity[n] /\ nodes'[n].fresh
          /\ IF nodes[n].status = "absent"
             THEN nodes'[n].status = "ready" /\ nodes'[n].avail = nodes'[n].cap
             ELSE nodes'[n].status = nodes[n].status /\ nodes'[n].avail = nodes[n].avail
      BY <1>0, <2>3, RegisterEffect, Zenon
    <3>1. \A m \in Node, d \in Dim : Used(m, d)' = Used(m, d) /\ Used(m, d) \in Nat
      BY <1>2, UsedKept, UsedType, Zenon
    <3>2. \A m \in Node \ {n} : Free(m)' = Free(m)
      BY <1>1, <3>0, Zenon DEF Free
    <3>3. \A d \in Dim : nodes[n].cap[d] <= nodes'[n].cap[d]
      BY <1>0, <3>0, Zenon DEF CapacityKnown
    <3>4. nodes'[n].cap \in Vec
      BY <3>0, NodeServiceAssumption, Zenon
    <3>5. \A d \in Dim : /\ nodes[n].cap[d] \in Nat /\ nodes[n].avail[d] \in Nat
                         /\ nodes'[n].cap[d] \in Nat /\ Free(n)[d] \in Nat
      BY <1>0, <3>4 DEF TickState, NodeRow, Vec, Free
    <3>6. CASE nodes[n].status = "absent"
      <4>1. ~ (tick.phase = "persist" /\ n = tick.target)
        BY <1>0, <3>6, Zenon DEF ViewKnown, Listed
      <4>2. Free(n) = nodes[n].avail /\ Free(n)' = nodes'[n].cap
        BY <1>1, <3>0, <3>6, <4>1, Zenon DEF Free
      <4>3. \A d \in Dim : Used(n, d) = 0
        <5> SUFFICES ASSUME NEW d \in Dim PROVE Used(n, d) = 0
          BY Zenon
        <5>1. Free(n)[d] + Used(n, d) <= nodes[n].cap[d]
          BY <1>0, Zenon DEF SoldOnce
        <5>2. nodes[n].cap[d] = 0
          BY <1>0, <3>6, Zenon DEF AbsentEmpty
        <5> QED
          BY <3>1, <3>5, <5>1, <5>2
      <4>4. \A d \in Dim : Free(n)'[d] + Used(n, d)' = nodes'[n].cap[d]
        BY <3>1, <3>5, <4>2, <4>3
      <4>5. \A d \in Dim : nodes'[n].cap[d] <= nodes'[n].cap[d]
        BY <3>5
      <4>6. SoldOnce'
        BY <1>0, <3>0, <3>1, <3>2, <4>4, <4>5 DEF SoldOnce
      <4>7. ViewCurrent' /\ ViewKnown'
        BY <1>0, <1>1, <3>0, <3>2, <3>6 DEF ViewCurrent, ViewKnown, Listed
      <4>8. AbsentEmpty'
        BY <1>0, <3>0, <3>6 DEF AbsentEmpty
      <4>9. NoneLost'
        BY <1>0, <1>1, <3>0, <3>1, <3>2, <3>6, <4>4 DEF NoneLost
      <4> QED
        BY <4>6, <4>7, <4>8, <4>9, Zenon DEF LedgerOK
    <3>7. CASE nodes[n].status # "absent"
      <4>1. outages # 0
        BY <1>0, <3>0, <3>7, Zenon DEF NoneLost
      <4>2. Free(n)' = Free(n)
        BY <1>1, <3>0, <3>7, Zenon DEF Free
      <4>3. SoldOnce'
        <5> SUFFICES ASSUME NEW m \in Node, NEW d \in Dim
                     PROVE  Free(m)'[d] + Used(m, d)' <= nodes'[m].cap[d]
          BY Zenon DEF SoldOnce
        <5>1. Free(m)[d] + Used(m, d) <= nodes[m].cap[d]
          BY <1>0, Zenon DEF SoldOnce
        <5>2. CASE m = n
          BY <3>1, <3>3, <3>5, <4>2, <5>1, <5>2
        <5>3. CASE m # n
          BY <3>0, <3>1, <3>2, <5>1, <5>3, Zenon
        <5> QED
          BY <5>2, <5>3, Zenon
      <4>4. ViewCurrent' /\ ViewKnown'
        BY <1>0, <1>1, <3>0, <3>2, <3>7, <4>2, Zenon DEF ViewCurrent, ViewKnown, Listed
      <4>5. AbsentEmpty' /\ NoneLost'
        BY <1>0, <3>0, <3>7, <4>1 DEF AbsentEmpty, NoneLost
      <4> QED
        BY <4>3, <4>4, <4>5, Zenon DEF LedgerOK
    <3> QED
      BY <3>6, <3>7, Zenon
  <2> QED
    BY <2>1, <2>2, <2>3, Zenon
<1>6. CASE UNCHANGED vars
  BY <1>3, <1>6, Zenon DEF vars, store, membership
<1> QED
  BY <1>4, <1>5, <1>6, Zenon

(* The empty tables advertise nothing, and nothing is used.                *)
LEMMA LedgerInit ==
    ASSUME TotalsAdd, Init
    PROVE  LedgerInv
<1>1. /\ tick = Idle /\ tick.phase = "idle" /\ \A n \in Node : ~ up[n]
      /\ \A j \in Job : jobs[j].status = "absent"
      /\ \A n \in Node : nodes[n].status = "absent" /\ nodes[n].fresh = FALSE
      /\ \A n \in Node, d \in Dim : nodes[n].avail[d] = 0 /\ nodes[n].cap[d] = 0
  BY IdleFields, Zenon DEF Init, StoreInit, MembershipInit, EngineInit, NoJobRow, NoNodeRow
<1>2. \A n \in Node, d \in Dim : Used(n, d) = 0
  <2>1. \A n \in Node : Occupants(n) = {}
    BY <1>1, Zenon DEF Occupants, IsActive
  <2> QED
    BY <2>1, Zenon DEF Used, TotalsAdd
<1>3. \A n \in Node, d \in Dim : Free(n)[d] = 0
  BY <1>1, Zenon DEF Free
<1>4. SoldOnce /\ NoneLost
  BY <1>1, <1>2, <1>3 DEF SoldOnce, NoneLost
<1>5. ViewCurrent /\ ViewKnown /\ AbsentEmpty
  BY <1>1, Zenon DEF ViewCurrent, ViewKnown, AbsentEmpty, Listed
<1>6. NoEvictions
  BY <1>1, Zenon DEF NoEvictions
<1> QED
  BY <1>4, <1>5, <1>6, RangeInit, LifeInit, Zenon DEF LedgerInv

(* Every step keeps the invariant.                                         *)
LEMMA LedgerStep ==
    ASSUME FixedCapacity, MaxFaults = 0, ~ EnablePreemption, LedgerInv, [Next]_vars
    PROVE  LedgerInv'
<1>1. RangeInv' /\ LifeInv'
  BY RangeStep, LifeStep, Zenon DEF LedgerInv
<1>2. EngineInv /\ NoEvictions /\ TypeInv
  BY Zenon DEF LedgerInv, LifeInv, TypeInv
<1>3. CASE Engines
  <2>1. NoEvictions'
    BY <1>2, <1>3, EvictionsOff, Zenon DEF Engines
  <2>2. LedgerOK'
    BY <1>3, EngineLedger, Zenon DEF Engines
  <2> QED
    BY <1>1, <2>1, <2>2, Zenon DEF LedgerInv, LedgerOK
<1>4. CASE Users \/ Agents \/ UNCHANGED vars
  <2>1. NoEvictions'
    BY <1>2, <1>4, OthersEffect, Zenon DEF NoEvictions
  <2>2. LedgerOK'
    BY <1>4, OthersLedger, Zenon
  <2> QED
    BY <1>1, <2>1, <2>2, Zenon DEF LedgerInv, LedgerOK
<1> QED
  BY <1>3, <1>4, Zenon DEF Next

(* What is used is within what the machine has.                            *)
LEMMA LedgerFits == LedgerInv => NoOvercommit
<1> SUFFICES ASSUME LedgerInv, NEW n \in Node, NEW d \in Dim
             PROVE  Used(n, d) <= nodes[n].cap[d]
  BY Zenon DEF NoOvercommit
<1> TotalsAdd
  BY Zenon DEF LedgerInv, LifeInv
<1>1. nodes \in [Node -> NodeRow] /\ tick \in TickState
  BY Zenon DEF LedgerInv, LifeInv, TypeInv, EngineInv, StoreTypeOK, EngineTypeOK
<1>2. Free(n)[d] \in Nat /\ nodes[n].cap[d] \in Nat
  BY <1>1 DEF Free, TickState, NodeRow, Vec
<1>3. Free(n)[d] + Used(n, d) <= nodes[n].cap[d]
  BY Zenon DEF LedgerInv, SoldOnce
<1> QED
  BY <1>2, <1>3, UsedType
=============================================================================
