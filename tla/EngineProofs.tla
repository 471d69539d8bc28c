---------------------------- MODULE EngineProofs ----------------------------
(***************************************************************************)
(* What a tick owes the jobs: retries within their budget, no job left on  *)
(* a node that is down, a record of every placement, evictions that make   *)
(* the room they were planned for, and a turn that comes with age.  With it *)
(* what those proofs take from the theory of finite sets and of numbers.   *)
(***************************************************************************)
EXTENDS ControlPlaneProofs, FiniteSetTheorems, WellFoundedInduction

-----------------------------------------------------------------------------
(* The retry budget *)

RetryInv == LifeInv /\ NoEvictions /\ RetryBudgetKept

(* Every step keeps to the retry budget.                                   *)
LEMMA RetryStep ==
    ASSUME ~ EnablePreemption, RetryInv, [Next]_vars
    PROVE  RetryInv'
<1>0. /\ LifeInv /\ TypeInv /\ EngineInv /\ jobs \in [Job -> JobRow] /\ tick \in TickState
      /\ QueueWaits /\ LostFresh /\ NoEvictions /\ RetryBudgetKept
  BY Zenon DEF RetryInv, LifeInv, TypeInv, EngineInv, StoreTypeOK, EngineTypeOK
<1>1. LifeInv'
  BY <1>0, LifeStep, Zenon
<1>2. \A j \in Job : MaxRetries[j] \in Nat /\ jobs[j].retry \in Nat
  BY <1>0, JobAssumption, Zenon DEF JobRow
<1>3. CASE Engines
  <2>0. EngineNext
    BY <1>3, Zenon DEF Engines
  <2>1. NoEvictions'
    BY <1>0, <2>0, EvictionsOff, Zenon
  <2>2. CASE jobs' = jobs
    BY <1>0, <1>1, <2>1, <2>2, Zenon DEF RetryInv, RetryBudgetKept
  <2>3. ASSUME RequeueLost, jobs' # jobs PROVE RetryBudgetKept'
    <3>1. PICK row \in tick.lost :
            /\ row.job \in Job
            /\ jobs' = IF Exhausted(row) THEN UpdateStatus(row.job, "failed")
                                         ELSE Requeue(row.job, "queued")
      BY <1>0, <2>3, RequeueEffect, Zenon
    <3>2. IsActive(jobs[row.job].status) /\ jobs[row.job].retry = row.retry
      BY <1>0, Zenon DEF LostFresh
    <3>3. "failed" \in JobStatus /\ "queued" \in JobStatus
      BY Zenon DEF JobStatus
    <3>4. \A k \in Job \ {row.job} : jobs'[k] = jobs[k]
      BY <1>0, <3>1, <3>3, UpdateEffect, RequeueRow
    <3>5. /\ jobs'[row.job].retry <= MaxRetries[row.job]
          /\ jobs'[row.job].status = "failed" => jobs'[row.job].retry = MaxRetries[row.job]
      <4>1. CASE Exhausted(row)
        <5>1. jobs'[row.job].retry = jobs[row.job].retry
          BY <1>0, <3>1, <3>3, <4>1, UpdateEffect, Zenon
        <5> QED
          BY <1>0, <1>2, <3>1, <3>2, <4>1, <5>1 DEF RetryBudgetKept, Exhausted
      <4>2. CASE ~ Exhausted(row)
        <5>1. jobs'[row.job].retry = jobs[row.job].retry + 1 /\ jobs'[row.job].status = "queued"
          BY <1>0, <3>1, <3>3, <4>2, RequeueRow, Zenon
        <5> QED
          BY <1>0, <1>2, <3>1, <3>2, <4>2, <5>1 DEF Exhausted
      <4> QED
        BY <4>1, <4>2, Zenon
    <3> QED
      BY <1>0, <3>4, <3>5, Zenon DEF RetryBudgetKept
  <2>4. ASSUME NEW j \in Job, NEW n \in Node, CommitPlacement(j, n) PROVE RetryBudgetKept'
    <3>1. jobs' \in {jobs, Schedule(j, n)}
      BY <1>0, <2>4, CommitEffect, Zenon
    <3>2. \A k \in Job : /\ jobs'[k].retry = jobs[k].retry
                         /\ jobs'[k].status = "failed" => jobs[k].status = "failed"
      BY <1>0, <3>1, ScheduleEffect
    <3> QED
      BY <1>0, <3>2, Zenon DEF RetryBudgetKept
  <2>5. ASSUME NEW v \in Job, EvictVictim(v) \/ ReturnVictim(v) PROVE FALSE
    BY <1>0, <2>5, EvictEffect, ReturnEffect, Zenon DEF NoEvictions
  <2> QED
    BY <1>1, <2>0, <2>1, <2>2, <2>3, <2>4, <2>5, JobWriters, Zenon DEF RetryInv
<1>4. CASE Users \/ Agents \/ UNCHANGED vars
  <2>1. NoEvictions'
    BY <1>0, <1>4, OthersEffect, Zenon DEF NoEvictions
  <2>2. \A j \in Job :
           \/ jobs'[j] = jobs[j]
           \/ jobs[j].status = "absent" /\ jobs'[j].status = "queued" /\ jobs'[j].retry = 0
    BY <1>0, <1>4, OthersRows, Zenon
  <2>3. RetryBudgetKept'
    BY <1>0, <1>2, <2>2 DEF RetryBudgetKept
  <2> QED
    BY <1>1, <2>1, <2>3, Zenon DEF RetryInv
<1> QED
  BY <1>3, <1>4, Zenon DEF Next

-----------------------------------------------------------------------------
(* Reconciliation *)

(* No active job is on a node that is down, unless reconciliation is about *)
(* to find or to requeue it; and the view knows of every such node.        *)
VacatedInv ==
    /\ LifeInv
    /\ DownNodesVacated
    /\ tick.phase = "lost" =>
          \A n \in Node : nodes[n].status = "down" /\ Occupants(n) # {} => n \in tick.dead
    /\ tick.phase = "requeue" =>
          \A n \in Node : nodes[n].status = "down" =>
              \A j \in Occupants(n) : \E row \in tick.lost : row.job = j
    /\ Listed => \A n \in Node : nodes[n].status = "down" => tick.view[n].status = "down"

(* Every step of the engine keeps the invariant.                           *)
LEMMA EngineVacates ==
    ASSUME MaxFaults = 0, VacatedInv, LifeInv', EngineNext
    PROVE  VacatedInv'
<1>0. /\ EngineInv /\ jobs \in [Job -> JobRow] /\ nodes \in [Node -> NodeRow]
      /\ tick \in TickState /\ DownNodesVacated /\ LostFresh /\ VictimsApart /\ QueueWaits
      /\ tick.lost \subseteq [job : Job, retry : Nat]
  BY Zenon DEF VacatedInv, LifeInv, TypeInv, EngineInv, StoreTypeOK, EngineTypeOK, TickState
<1>01. ~ faults < MaxFaults /\ ~ Stop
  BY <1>0, NoFaults, Zenon
<1> DEFINE Down(n) == nodes[n].status = "down"
           Good == /\ DownNodesVacated'
                   /\ tick'.phase = "lost" =>
                         \A n \in Node : Down(n)' /\ Occupants(n)' # {} => n \in tick'.dead
                   /\ tick'.phase = "requeue" =>
                         \A n \in Node : Down(n)' =>
                             \A j \in Occupants(n)' : \E row \in tick'.lost : row.job = j
                   /\ Listed' => \A n \in Node : Down(n)' => tick'.view[n].status = "down"
<1>02. SUFFICES Good
  BY Zenon DEF VacatedInv
<1>1. CASE StartTick
  <2>1. /\ tick.phase = "idle" /\ jobs' = jobs /\ nodes' = MarkStaleDown
        /\ \/ tick'.phase = "lost" /\ tick'.dead = StaleNodes
           \/ tick'.phase = "nodes" /\ StaleNodes = {}
    BY <1>0, <1>01, <1>1, StartEffect, Zenon
  <2>2. \A n \in Node : Occupants(n)' = Occupants(n)
    BY <2>1, Zenon DEF Occupants
  <2>3. \A n \in Node : Down(n) => Occupants(n) = {}
    BY <1>0, <2>1, Zenon DEF DownNodesVacated
  <2>4. \A n \in Node : Down(n)' => Down(n) \/ n \in StaleNodes
    BY <1>0, <2>1, Zenon DEF MarkStaleDown
  <2> QED
    BY <2>1, <2>2, <2>3, <2>4, Zenon DEF DownNodesVacated, Listed
<1>2. ASSUME ~ StartTick PROVE \A n \in Node : nodes'[n].status = nodes[n].status
  BY <1>0, <1>2, StatusWriters, Zenon
<1>3. CASE ListLost
  <2>1. /\ tick.phase = "lost" /\ jobs' = jobs /\ nodes' = nodes
        /\ \/ tick'.phase = "requeue" /\ tick'.lost = LostActive
           \/ tick'.phase = "nodes" /\ LostActive = {}
    BY <1>0, <1>01, <1>3, ListLostEffect, Zenon
  <2>2. \A n \in Node : Occupants(n)' = Occupants(n) /\ (Down(n)' <=> Down(n))
    BY <2>1, Zenon DEF Occupants
  <2>3. \A n \in Node : Down(n) => \A j \in Occupants(n) : \E row \in LostActive : row.job = j
    <3>1. SUFFICES ASSUME NEW n \in Node, Down(n), NEW j \in Occupants(n)
          PROVE  \E row \in LostActive : row.job = j
      BY Zenon
    <3>2. n \in tick.dead
      BY <2>1, <3>1, Zenon DEF VacatedInv
    <3>3. j \in Job /\ jobs[j].node = n /\ jobs[j].status \in {"scheduled", "running"}
      BY Zenon DEF Occupants, IsActive
    <3>4. [job |-> j, retry |-> jobs[j].retry] \in LostActive
      BY <3>2, <3>3, Zenon DEF LostActive, LostRows, ListByStatuses
    <3> QED
      BY <3>4, Zenon
  <2>4. CASE tick'.phase = "requeue" /\ tick'.lost = LostActive
    BY <2>2, <2>3, <2>4, Zenon DEF DownNodesVacated, Listed
  <2>5. CASE tick'.phase = "nodes" /\ LostActive = {}
    BY <2>2, <2>3, <2>5, Zenon DEF DownNodesVacated, Listed
  <2> QED
    BY <2>1, <2>4, <2>5, Zenon
<1>4. CASE RequeueLost
  <2>1. PICK row \in tick.lost :
          /\ row.job \in Job
          /\ tick'.lost = tick.lost \ {row}
          /\ tick'.phase = IF tick.lost = {row} THEN "nodes" ELSE "requeue"
          /\ jobs' = IF Exhausted(row) THEN UpdateStatus(row.job, "failed")
                                       ELSE Requeue(row.job, "queued")
    BY <1>0, <1>01, <1>4, RequeueEffect, Zenon
  <2>2. tick.phase = "requeue" /\ nodes' = nodes
    BY <1>0, <1>4, RequeueEffect, Zenon
  <2>3. "failed" \in JobStatus /\ "queued" \in JobStatus
    BY Zenon DEF JobStatus
  <2>4. /\ \A k \in Job \ {row.job} : jobs'[k] = jobs[k]
        /\ jobs'[row.job].status \in {"failed", "queued"}
    BY <1>0, <2>1, <2>3, UpdateEffect, RequeueRow
  <2>5. \A n \in Node : Occupants(n)' = Occupants(n) \ {row.job}
    BY <2>1, <2>4 DEF Occupants, IsActive
  <2>6. \A n \in Node : Down(n)' =>
            \A j \in Occupants(n)' : \E r \in tick'.lost : r.job = j
    BY <2>1, <2>2, <2>5 DEF VacatedInv
  <2>7. CASE tick.lost = {row}
    <3>1. \A n \in Node : Down(n)' => Occupants(n)' = {}
      BY <2>1, <2>6, <2>7, Zenon
    <3> QED
      BY <2>1, <2>7, <3>1, Zenon DEF DownNodesVacated, Listed
  <2>8. CASE tick.lost # {row}
    BY <2>1, <2>6, <2>8, Zenon DEF DownNodesVacated, Listed
  <2> QED
    BY <2>7, <2>8, Zenon
<1>5. ASSUME /\ tick.phase \notin {"idle", "lost", "requeue"}
             /\ tick'.phase \notin {"lost", "requeue"}
             /\ \A n \in Node : Down(n)' <=> Down(n)
             /\ \A n \in Node : Down(n) => Occupants(n)' \subseteq Occupants(n)
             /\ \/ tick'.phase = "idle"
                \/ tick'.view = nodes
                \/ Listed /\ \A n \in Node : tick'.view[n].status = tick.view[n].status
      PROVE  Good
  <2>1. \A n \in Node : Down(n)' => Occupants(n)' = {}
    BY <1>0, <1>5, Zenon DEF DownNodesVacated
  <2>2. Listed' => \A n \in Node : Down(n)' => tick'.view[n].status = "down"
    BY <1>5, Zenon DEF VacatedInv, Listed
  <2> QED
    BY <1>5, <2>1, <2>2, Zenon DEF DownNodesVacated
<1>6. CASE ListNodes \/ ListQueued \/ ListActive \/ OrderQueue
  <2>1. jobs' = jobs /\ nodes' = nodes
    BY <1>0, <1>6, ListingEffect, Zenon
  <2>2. \A n \in Node : Occupants(n)' = Occupants(n)
    BY <2>1, Zenon DEF Occupants
  <2>3. tick.phase \in {"nodes", "queued", "active", "order"}
    BY <1>6, Zenon DEF ListNodes, ListQueued, ListActive, OrderQueue
  <2>4. tick'.phase \in {"idle", "queued", "active", "order", "place"}
    BY <1>0, <1>6, ListingEffect, IdleFields, Zenon
  <2>5. tick'.phase = "idle" \/ tick'.view = nodes \/ (tick'.view = tick.view /\ Listed)
    BY <1>0, <1>6, ListingEffect, IdleFields, Zenon DEF KeepsView, Listed
  <2> QED
    BY <1>5, <2>1, <2>2, <2>3, <2>4, <2>5, Zenon
<1>7. ASSUME NEW j \in Job, NEW n \in Node, CommitPlacement(j, n) PROVE Good
  <2>1. /\ tick.phase \in {"place", "replace"} /\ Fits(tick.view[n], Request[j])
        /\ jobs' = Schedule(j, n) /\ nodes' = nodes /\ tick'.phase = "persist"
        /\ tick'.view[n] = Reserve(tick.view[n], Request[j])
        /\ \A m \in Node \ {n} : tick'.view[m] = tick.view[m] \/ tick' = Idle
    BY <1>0, <1>01, <1>7, CommitEffect, Zenon
  <2>2. tick' # Idle
    BY <2>1, IdleFields, Zenon
  <2>3. tick.view[n].status = "ready" /\ Listed
    BY <2>1, Zenon DEF Fits, Schedulable, Listed
  <2>4. ~ Down(n)
    BY <2>3, Zenon DEF VacatedInv
  <2>5. /\ \A k \in Job \ {j} : jobs'[k] = jobs[k]
        /\ jobs'[j].node = n
    <3>1. jobs \in [Job -> JobRow] /\ jobs' = Schedule(j, n)
      BY <1>0, <2>1, Zenon
    <3> QED
      BY <3>1, ScheduleEffect, Zenon
  <2>6. \A m \in Node \ {n} : Occupants(m)' \subseteq Occupants(m)
    BY <2>5, Zenon DEF Occupants
  <2>7. tick.view[n] \in NodeRow /\ Request[j] \in Vec
    BY <1>0, JobAssumption, Zenon DEF TickState
  <2>8. \A m \in Node : tick'.view[m].status = tick.view[m].status
    BY <2>1, <2>2, <2>7, ReserveType
  <2> QED
    BY <1>5, <2>1, <2>3, <2>4, <2>6, <2>8, Zenon
<1>8. ASSUME jobs' = jobs, \A n \in Node : nodes'[n].status = nodes[n].status,
             tick.phase \notin {"idle", "lost", "requeue", "nodes"},
             tick'.phase \notin {"lost", "requeue"},
             tick'.phase = "idle" \/ tick'.view = tick.view
      PROVE  Good
  <2>1. \A n \in Node : Occupants(n)' = Occupants(n)
    BY <1>8, Zenon DEF Occupants
  <2> QED
    BY <1>5, <1>8, <2>1, Zenon DEF Listed
<1>9. CASE PersistPlacement \/ PersistEviction
  <2>1. /\ jobs' = jobs /\ tick'.view = tick.view
        /\ tick.phase \in {"persist", "evicted"} /\ tick'.phase \in {"record", "replace"}
    BY <1>0, <1>9, PersistEffect, Zenon DEF KeepsView
  <2>2. ~ StartTick
    BY <2>1, Zenon DEF StartTick
  <2> QED
    BY <1>2, <1>8, <2>1, <2>2, Zenon
<1>10. ASSUME NEW j \in Job, RecordPlacement(j) \/ GiveUp(j) PROVE Good
  <2>1. /\ jobs' = jobs /\ nodes' = nodes /\ tick.phase \in {"record", "place", "replace"}
        /\ tick'.phase \in {"idle", "place"}
        /\ tick'.phase = "idle" \/ tick'.view = tick.view
    BY <1>0, <1>10, RecordEffect, IdleFields, Zenon DEF Advanced, KeepsView
  <2> QED
    BY <1>8, <2>1, Zenon
<1>11. ASSUME NEW j \in Job, PlanPreemption(j) PROVE Good
  <2>1. /\ jobs' = jobs /\ nodes' = nodes /\ tick.phase = "place" /\ tick'.phase = "evict"
        /\ tick'.view = tick.view
    BY <1>0, <1>11, PlanEffect, Zenon DEF KeepsView, store
  <2> QED
    BY <1>8, <2>1, Zenon
<1>12. ASSUME NEW v \in Job, EvictVictim(v) \/ ReturnVictim(v) PROVE Good
  <2>1. /\ tick.phase \in {"evict", "return"} /\ nodes' = nodes
        /\ tick'.phase \in {"evict", "return", "evicted"}
        /\ jobs' \in {jobs, Requeue(v, "preempted"), UpdateStatus(v, "queued")}
    BY <1>0, <1>12, EvictEffect, ReturnEffect, Zenon DEF PastVictim
  <2>2. "preempted" \in JobStatus /\ "queued" \in JobStatus
    BY Zenon DEF JobStatus
  <2>3. \A n \in Node : Occupants(n)' \subseteq Occupants(n)
    <3>1. /\ \A k \in Job \ {v} : jobs'[k] = jobs[k]
          /\ jobs'[v] = jobs[v] \/ jobs'[v].status \in {"preempted", "queued"}
      BY <1>0, <2>1, <2>2, UpdateEffect, RequeueRow
    <3> QED
      BY <3>1, Zenon DEF Occupants, IsActive
  <2>4. \A m \in Node : tick'.view[m].status = tick.view[m].status
    <3>1. CASE EvictVictim(v)
      <4>1. /\ tick.target \in Node
            /\ tick'.view[tick.target] = Release(tick.view[tick.target], Request[v])
            /\ \A m \in Node \ {tick.target} : tick'.view[m] = tick.view[m]
        BY <1>0, <3>1, EvictEffect, Zenon
      <4>2. tick.view[tick.target] \in NodeRow /\ Request[v] \in Vec
        BY <1>0, <4>1, JobAssumption, Zenon DEF TickState
      <4> QED
        BY <4>1, <4>2, ReleaseType
    <3>2. CASE ReturnVictim(v)
      BY <1>0, <3>2, ReturnEffect, Zenon DEF KeepsView
    <3> QED
      BY <1>12, <3>1, <3>2, Zenon
  <2> QED
    BY <1>5, <2>1, <2>3, <2>4, Zenon DEF Listed
<1> QED
  BY <1>01, <1>1, <1>3, <1>4, <1>6, <1>7, <1>9, <1>10, <1>11, <1>12, Zenon DEF EngineNext, TickStep

(* So do the steps of users and agents: only a tick marks nodes down, and  *)
(* a submitted job is on none.                                             *)
LEMMA OthersVacate ==
    ASSUME VacatedInv, LifeInv', Users \/ Agents \/ UNCHANGED vars
    PROVE  VacatedInv'
<1>0. TypeInv
  BY Zenon DEF VacatedInv, LifeInv
<1>1. /\ tick' = tick
      /\ \A n \in Node : nodes'[n].status = "down" => nodes[n].status = "down"
  BY <1>0, OthersEffect, Zenon
<1>2. \A n \in Node : Occupants(n)' = Occupants(n)
  <2>1. \A j \in Job : \/ jobs'[j] = jobs[j]
                       \/ jobs[j].status = "absent" /\ jobs'[j].status = "queued"
    BY <1>0, OthersRows, Zenon
  <2> QED
    BY <2>1, Zenon DEF Occupants, IsActive
<1> QED
  BY <1>1, <1>2, Zenon DEF VacatedInv, DownNodesVacated, Listed

-----------------------------------------------------------------------------
(* The audit trail *)

Audited(j) == events[j] = [success |-> TRUE, node |-> jobs[j].node]

Recording == tick.phase \in {"persist", "record"}

(* Every placed job is audited, except the one the tick is at.             *)
AuditInv ==
    /\ LifeInv
    /\ \A j \in Job : jobs[j].status = "scheduled" => Audited(j) \/ (Recording /\ Current(j))
    /\ Recording =>
          \A j \in Job : Current(j) => jobs[j].status = "scheduled" /\ jobs[j].node = tick.target

(* Every step of the engine keeps the invariant.                           *)
LEMMA EngineAudits ==
    ASSUME MaxFaults = 0, AuditInv, LifeInv', EngineNext
    PROVE  AuditInv'
<1>0. /\ TotalsAdd /\ EngineInv /\ jobs \in [Job -> JobRow] /\ tick \in TickState
      /\ events \in [Job -> Event]
      /\ QueueWaits /\ VictimsApart /\ LostFresh /\ EngineInv'
      /\ tick.pending \subseteq Job
  BY Zenon DEF AuditInv, LifeInv, TypeInv, EngineInv, StoreTypeOK, EngineTypeOK, TickState
<1>01. ~ faults < MaxFaults /\ ~ Stop
  BY <1>0, NoFaults, Zenon
<1> DEFINE Good ==
       /\ \A j \in Job : jobs'[j].status = "scheduled" =>
              Audited(j)' \/ (Recording' /\ Current(j)')
       /\ Recording' => \A j \in Job : Current(j)' =>
              jobs'[j].status = "scheduled" /\ jobs'[j].node = tick'.target
<1>02. SUFFICES Good
  BY Zenon DEF AuditInv
<1>1. ASSUME ~ Recording, ~ Recording', events' = events,
             \A j \in Job : jobs'[j].status = "scheduled" => jobs'[j] = jobs[j]
      PROVE  Good
  BY <1>1, Zenon DEF AuditInv, Audited
<1>2. CASE StartTick
  <2>1. tick.phase = "idle" /\ jobs' = jobs /\ events' = events /\ tick'.phase \in {"lost", "nodes"}
    BY <1>0, <1>2, StartEffect, Zenon
  <2> QED
    BY <1>1, <2>1, Zenon DEF Recording
<1>3. CASE ListLost
  <2>1. tick.phase = "lost" /\ jobs' = jobs /\ events' = events /\ tick'.phase \in {"requeue", "nodes"}
    BY <1>0, <1>3, ListLostEffect, Zenon
  <2> QED
    BY <1>1, <2>1, Zenon DEF Recording
<1>4. CASE RequeueLost
  <2>1. PICK row \in tick.lost :
          /\ row.job \in Job
          /\ jobs' = IF Exhausted(row) THEN UpdateStatus(row.job, "failed")
                                       ELSE Requeue(row.job, "queued")
    BY <1>0, <1>01, <1>4, RequeueEffect, Zenon
  <2>2. tick.phase = "requeue" /\ events' = events /\ tick'.phase \in {"nodes", "requeue"}
    BY <1>0, <1>4, RequeueEffect, Zenon
  <2>3. "failed" \in JobStatus /\ "queued" \in JobStatus
    BY Zenon DEF JobStatus
  <2>4. /\ \A k \in Job \ {row.job} : jobs'[k] = jobs[k]
        /\ jobs'[row.job].status \in {"failed", "queued"}
    BY <1>0, <2>1, <2>3, UpdateEffect, RequeueRow
  <2> QED
    BY <1>1, <2>2, <2>4, Zenon DEF Recording
<1>5. CASE ListNodes \/ ListQueued \/ ListActive \/ OrderQueue
  <2>1. /\ jobs' = jobs /\ events' = events
        /\ tick'.phase \in {"idle", "queued", "active", "order", "place"}
    BY <1>0, <1>5, ListingEffect, IdleFields, Zenon
  <2>2. tick.phase \in {"nodes", "queued", "active", "order"}
    BY <1>5, Zenon DEF ListNodes, ListQueued, ListActive, OrderQueue
  <2> QED
    BY <1>1, <2>1, <2>2, Zenon DEF Recording
<1>6. ASSUME NEW j \in Job, NEW n \in Node, CommitPlacement(j, n) PROVE Good
  <2>1. /\ tick.phase \in {"place", "replace"} /\ Current(j) /\ j \in tick.pending
        /\ Fits(tick.view[n], Request[j]) /\ events' = events
        /\ jobs' = Schedule(j, n) /\ tick'.phase = "persist" /\ tick'.target = n
        /\ tick'.view[n] = Reserve(tick.view[n], Request[j]) /\ KeepsQueue
        /\ \A m \in Node \ {n} : tick'.view[m] = tick.view[m] \/ tick' = Idle
    BY <1>0, <1>01, <1>6, CommitEffect, Zenon
  <2>2. tick' # Idle
    BY <2>1, IdleFields, Zenon
  <2>3. /\ \A k \in Job \ {j} : jobs'[k] = jobs[k]
        /\ jobs'[j].node = n /\ jobs'[j].status = "scheduled"
        /\ jobs'[j].created = jobs[j].created
    <3>1. jobs \in [Job -> JobRow] /\ jobs' = Schedule(j, n)
      BY <1>0, <2>1, Zenon
    <3> QED
      BY <3>1, ScheduleEffect, Zenon
  <2>4. tick.view[n] \in NodeRow /\ Request[j] \in Vec
    BY <1>0, JobAssumption, Zenon DEF TickState
  <2>5. SameOrder
    <3>1. tick'.view[n].cap = tick.view[n].cap
      BY <2>1, <2>4, ReserveType
    <3>2. \A m \in Node \ {n} : tick'.view[m] = tick.view[m]
      BY <2>1, <2>2, Zenon
    <3>3. \A k \in tick.pending : k \in Job
      BY <1>0, Zenon DEF TickState
    <3> QED
      BY <2>1, <2>3, <3>1, <3>2, <3>3, Zenon DEF SameOrder
  <2>6. \A k \in Job : Current(k)' <=> k = j
    BY <1>0, <2>1, <2>5, CurrentKept, CurrentUnique, Zenon
  <2> QED
    BY <2>1, <2>3, <2>6 DEF AuditInv, Recording, Audited
<1>7. CASE PersistPlacement \/ PersistEviction
  <2>1. /\ \/ tick.phase = "persist" /\ tick'.phase = "record"
           \/ tick.phase = "evicted" /\ tick'.phase = "replace"
        /\ jobs' = jobs /\ events' = events /\ KeepsQueue /\ KeepsView /\ KeepsPlan
    BY <1>0, <1>7, PersistEffect, Zenon
  <2>2. \A j \in Job : Current(j)' <=> Current(j)
    BY <1>0, <2>1, CurrentKept, Zenon DEF SameOrder, KeepsView
  <2> QED
    BY <2>1, <2>2, Zenon DEF AuditInv, Recording, Audited, KeepsPlan
<1>8. ASSUME NEW j \in Job, RecordPlacement(j) \/ GiveUp(j) PROVE Good
  <2>1. /\ Current(j) /\ j \in tick.pending /\ jobs' = jobs
        /\ tick'.phase \in {"idle", "place"}
    BY <1>0, <1>8, RecordEffect, IdleFields, Zenon DEF Advanced
  <2>2. CASE tick.phase = "record" /\ events' = Record(j, TRUE, tick.target)
    <3>1. /\ \A k \in Job \ {j} : events'[k] = events[k]
          /\ events'[j] = [success |-> TRUE, node |-> tick.target]
      BY <1>0, <2>2, Zenon DEF Record
    <3>2. jobs[j].node = tick.target
      BY <2>1, <2>2, Zenon DEF AuditInv, Recording
    <3>3. \A k \in Job \ {j} : ~ Current(k)
      BY <1>0, <2>1, CurrentUnique, Zenon
    <3>4. \A k \in Job : jobs[k].status = "scheduled" => Audited(k)'
      BY <2>1, <3>1, <3>2, <3>3, Zenon DEF AuditInv, Audited
    <3> QED
      BY <2>1, <3>4, Zenon DEF Recording
  <2>3. CASE tick.phase \in {"place", "replace"} /\ events' \in {events, Record(j, FALSE, NoNode)}
    <3>1. \A k \in Job \ {j} : events'[k] = events[k]
      BY <1>0, <2>3, Zenon DEF Record
    <3>2. jobs[j].status = "queued"
      BY <1>0, <2>1, <2>3, Zenon DEF QueueWaits
    <3>3. \A k \in Job : jobs[k].status = "scheduled" => Audited(k)'
      BY <2>1, <2>3, <3>1, <3>2, Zenon DEF AuditInv, Audited, Recording
    <3> QED
      BY <2>1, <3>3, Zenon DEF Recording
  <2> QED
    BY <1>0, <1>01, <1>8, <2>2, <2>3, RecordEffect, Zenon
<1>9. ASSUME NEW j \in Job, PlanPreemption(j) PROVE Good
  <2>1. tick.phase = "place" /\ tick'.phase = "evict" /\ jobs' = jobs /\ events' = events
    BY <1>0, <1>9, PlanEffect, Zenon DEF store
  <2> QED
    BY <1>1, <2>1, Zenon DEF Recording
<1>10. ASSUME NEW v \in Job, EvictVictim(v) \/ ReturnVictim(v) PROVE Good
  <2>1. /\ tick.phase \in {"evict", "return"} /\ events' = events
        /\ tick'.phase \in {"evict", "return", "evicted"}
        /\ jobs' \in {jobs, Requeue(v, "preempted"), UpdateStatus(v, "queued")}
    BY <1>0, <1>10, EvictEffect, ReturnEffect, Zenon DEF PastVictim
  <2>2. "preempted" \in JobStatus /\ "queued" \in JobStatus
    BY Zenon DEF JobStatus
  <2>3. \A k \in Job : jobs'[k] = jobs[k] \/ jobs'[k].status \in {"preempted", "queued"}
    BY <1>0, <2>1, <2>2, UpdateEffect, RequeueRow
  <2> QED
    BY <1>1, <2>1, <2>3, Zenon DEF Recording
<1> QED
  BY <1>01, <1>2, <1>3, <1>4, <1>5, <1>6, <1>7, <1>8, <1>9, <1>10, Zenon DEF EngineNext, TickStep

-----------------------------------------------------------------------------
(* Preemption *)

Evicting == tick.phase \in {"evict", "return", "evicted", "replace"}

(* The victims that the view has not been credited with yet.               *)
ToGo == {v \in tick.victims : ~ (tick.phase = "return" /\ NextVictim(v))}

(* With the victims still to go, the target has room for the job they make *)
(* way for in every resource, unless it is entirely free of it.            *)
WillFit(j) ==
    \A d \in Dim :
        \/ tick.view[tick.target].avail[d] + Total(d, ToGo) >= Request[j][d]
        \/ tick.view[tick.target].avail[d] = tick.view[tick.target].cap[d]

PayInv ==
    /\ LifeInv
    /\ Evicting => /\ Schedulable(tick.view[tick.target].status)
                   /\ \A j \in Job : Current(j) => WillFit(j)
    /\ tick.phase \in {"evicted", "replace"} => tick.victims = {}

(* The loop over the victims is at one of them at a time.                  *)
LEMMA VictimUnique ==
    ASSUME EngineInv, NEW v \in Job, NEW w \in Job, NextVictim(v), NextVictim(w)
    PROVE  v = w
<1>1. SUFFICES ASSUME v # w PROVE FALSE
  BY Zenon
<1>2. Cheaper(v, w, Created) /\ Cheaper(w, v, Created)
  BY <1>1, Zenon DEF NextVictim
<1>3. Priority[v] \in Int /\ Priority[w] \in Int
  BY JobAssumption
<1>4. Created[v] \in Int /\ Created[w] \in Int
  BY DEF EngineInv, StoreTypeOK, JobRow, Created
<1> QED
  BY <1>2, <1>3, <1>4 DEF Cheaper

(* It stays at its victim while the victims and their submission times     *)
(* stay the same.                                                          *)
LEMMA VictimKept ==
    ASSUME EngineInv, tick'.victims = tick.victims, NEW v \in Job,
           \A w \in tick.victims : jobs'[w].created = jobs[w].created
    PROVE  NextVictim(v)' <=> NextVictim(v)
<1>1. tick.victims \subseteq Job
  BY Zenon DEF EngineInv, EngineTypeOK, TickState
<1>2. \A w \in tick.victims : Created'[w] = Created[w]
  BY <1>1, Zenon DEF Created
<1>3. \A w, u \in tick.victims : Cheaper(w, u, Created)' <=> Cheaper(w, u, Created)
  BY <1>2, Zenon DEF Cheaper
<1> QED
  BY <1>3, Zenon DEF NextVictim

(* What the release of one victim adds makes up for what leaves ToGo.      *)
LEMMA ReleaseCounts ==
    ASSUME TotalsAdd, NEW row \in NodeRow, NEW d \in Dim,
           NEW S \in SUBSET Job, NEW T \in SUBSET Job, NEW v \in S, S \ {v} \subseteq T,
           NEW need \in Nat, row.avail[d] + Total(d, S) >= need \/ row.avail[d] = row.cap[d]
    PROVE  \/ Release(row, Request[v]).avail[d] + Total(d, T) >= need
           \/ Release(row, Request[v]).avail[d] = Release(row, Request[v]).cap[d]
<1>1. Request[v] \in Vec /\ row.avail[d] \in Nat /\ row.cap[d] \in Nat /\ Request[v][d] \in Nat
  BY JobAssumption DEF NodeRow, Vec
<1>2. Release(row, Request[v]).cap = row.cap
  BY <1>1, ReleaseType, Zenon
<1>3. Release(row, Request[v]).avail[d] =
         IF row.avail[d] + Request[v][d] > row.cap[d] THEN row.cap[d]
                                                      ELSE row.avail[d] + Request[v][d]
  BY Zenon DEF Release, NodeRow
<1>4. Total(d, S \ {v}) = Total(d, S) - Request[v][d] /\ Total(d, S \ {v}) \in Nat
  BY TotalRemove, Zenon
<1>5. Total(d, S \ {v}) <= Total(d, T)
  BY TotalMonotone, Zenon
<1>6. Total(d, S) \in Nat /\ Total(d, T) \in Nat
  BY TotalType, Zenon
<1> DEFINE a == row.avail[d]
           c == row.cap[d]
           r == Request[v][d]
           s == Total(d, S)
           t == Total(d, T)
<1>7. /\ a \in Nat /\ c \in Nat /\ r \in Nat /\ s \in Nat /\ t \in Nat /\ s - r <= t
      /\ a + s >= need \/ a = c
  BY <1>1, <1>4, <1>5, <1>6, Zenon
<1>8. /\ Release(row, Request[v]).avail[d] = IF a + r > c THEN c ELSE a + r
      /\ Release(row, Request[v]).cap[d] = c
  BY <1>2, <1>3, Zenon
<1> HIDE DEF a, c, r, s, t
<1>9. (IF a + r > c THEN c ELSE a + r) + t >= need \/ (IF a + r > c THEN c ELSE a + r) = c
  BY <1>7
<1> QED
  BY <1>8, <1>9, Zenon DEF t

(* The engine's steps keep the invariant: the plan frees enough, and each  *)
(* release brings the target closer to it, whether or not the victim could *)
(* be requeued.                                                            *)
LEMMA EnginePays ==
    ASSUME PayInv, LifeInv', EngineNext
    PROVE  PayInv'
<1>0. /\ TotalsAdd /\ EngineInv /\ EngineInv' /\ jobs \in [Job -> JobRow] /\ tick \in TickState
      /\ VictimsApart /\ tick.victims \subseteq Job /\ tick.pending \subseteq Job
      /\ jobs' \in [Job -> JobRow]
  BY Zenon DEF PayInv, LifeInv, TypeInv, EngineInv, StoreTypeOK, EngineTypeOK, TickState
<1> DEFINE Good == /\ Evicting' => /\ Schedulable(tick'.view[tick'.target].status)
                                   /\ \A j \in Job : Current(j)' => WillFit(j)'
                   /\ tick'.phase \in {"evicted", "replace"} => tick'.victims = {}
<1>01. SUFFICES Good
  BY Zenon DEF PayInv
<1>1. ASSUME ~ Evicting' PROVE Good
  BY <1>1, Zenon DEF Evicting
<1>2. CASE StartTick \/ ListLost \/ RequeueLost
  <2>1. tick'.phase \in {"lost", "nodes", "requeue"}
    BY <1>0, <1>2, StartEffect, ListLostEffect, RequeueEffect, Zenon
  <2> QED
    BY <1>1, <2>1, Zenon DEF Evicting
<1>3. CASE ListNodes \/ ListQueued \/ ListActive \/ OrderQueue
  <2>1. tick'.phase \in {"idle", "queued", "active", "order", "place"}
    BY <1>0, <1>3, ListingEffect, IdleFields, Zenon
  <2> QED
    BY <1>1, <2>1, Zenon DEF Evicting
<1>4. ASSUME NEW j \in Job, NEW n \in Node, CommitPlacement(j, n) PROVE Good
  <2>1. tick'.phase \in {"idle", "place", "persist"}
    BY <1>0, <1>4, CommitEffect, IdleFields, Zenon DEF Advanced
  <2> QED
    BY <1>1, <2>1, Zenon DEF Evicting
<1>5. CASE PersistPlacement \/ PersistEviction
  <2>1. /\ \/ tick'.phase = "record"
           \/ tick.phase = "evicted" /\ tick'.phase = "replace"
        /\ jobs' = jobs /\ KeepsQueue /\ KeepsView /\ KeepsPlan
    BY <1>0, <1>5, PersistEffect, Zenon
  <2>2. CASE tick.phase = "evicted" /\ tick'.phase = "replace"
    <3>1. tick.victims = {} /\ tick'.victims = {}
      BY <2>1, <2>2, Zenon DEF PayInv, KeepsPlan
    <3>2. ToGo = {} /\ ToGo' = {}
      BY <3>1, Zenon DEF ToGo
    <3>3. \A j \in Job : Current(j)' <=> Current(j)
      BY <1>0, <2>1, CurrentKept, Zenon DEF SameOrder, KeepsView
    <3>4. tick'.view = tick.view /\ tick'.target = tick.target
      BY <2>1, Zenon DEF KeepsView, KeepsPlan
    <3>5. \A d : Total(d, ToGo)' = Total(d, ToGo)
      BY <3>2, Zenon DEF Total, Units
    <3>6. \A j \in Job : WillFit(j) => WillFit(j)'
      BY <3>4, <3>5, Zenon DEF WillFit
    <3>7. Evicting
      BY <2>2, Zenon DEF Evicting
    <3> QED
      BY <3>1, <3>3, <3>4, <3>6, <3>7, Zenon DEF PayInv
  <2> QED
    BY <1>1, <2>1, <2>2, Zenon DEF Evicting
<1>6. ASSUME NEW j \in Job, RecordPlacement(j) \/ GiveUp(j) PROVE Good
  <2>1. tick'.phase \in {"idle", "place"}
    BY <1>0, <1>6, RecordEffect, IdleFields, Zenon DEF Advanced
  <2> QED
    BY <1>1, <2>1, Zenon DEF Evicting
<1>7. ASSUME NEW j \in Job, PlanPreemption(j) PROVE Good
  <2>1. /\ tick'.phase = "evict" /\ Current(j) /\ jobs' = jobs /\ KeepsQueue /\ KeepsView
    BY <1>0, <1>7, PlanEffect, Zenon DEF store
  <2>2. PICK p \in Plans(j, tick.view, tick.running, Created) :
            tick'.victims = p.victims /\ tick'.target = p.node
    BY <1>0, <1>7, PlanEffect, Zenon
  <2>3. /\ Schedulable(tick.view[p.node].status)
        /\ Enough(Freed(tick.view[p.node], p.victims), Request[j])
    BY Zenon DEF Plans, Chosen
  <2>4. \A k \in Job : Current(k)' => k = j
    BY <1>0, <2>1, CurrentKept, CurrentUnique, Zenon DEF SameOrder, KeepsView
  <2>5. ToGo' = p.victims
    BY <2>1, <2>2, Zenon DEF ToGo
  <2>6. \A d \in Dim : tick.view[p.node].avail[d] + Total(d, p.victims) >= Request[j][d]
    BY <2>3, Zenon DEF Enough, Freed
  <2>7. \A d : Total(d, ToGo)' = Total(d, p.victims)
    BY <2>5, Zenon DEF Total, Units
  <2>8. WillFit(j)'
    BY <2>1, <2>2, <2>6, <2>7, Zenon DEF WillFit, KeepsView
  <2>9. Schedulable(tick'.view[tick'.target].status)
    BY <2>1, <2>2, <2>3, Zenon DEF KeepsView
  <2> QED
    BY <2>1, <2>4, <2>8, <2>9, Zenon
<1>8. ASSUME NEW v \in Job, EvictVictim(v) \/ ReturnVictim(v)
      PROVE  /\ Evicting /\ NextVictim(v) /\ v \in tick.victims /\ tick.target \in Node
             /\ KeepsQueue /\ tick'.target = tick.target
             /\ tick'.phase = "evicted" => tick'.victims = {}
             /\ tick'.phase \in {"evict", "return", "evicted"}
             /\ \A k \in Job : jobs'[k].created = jobs[k].created
             /\ \A m \in Node : /\ tick'.view[m].cap = tick.view[m].cap
                                /\ tick'.view[m].status = tick.view[m].status
             /\ \A k \in Job : Current(k)' <=> Current(k)
  <2>1. /\ tick.phase \in {"evict", "return"} /\ NextVictim(v)
        /\ KeepsQueue /\ tick'.target = tick.target
        /\ \/ tick'.phase = "return"
           \/ PastVictim(v)
        /\ jobs' \in {jobs, Requeue(v, "preempted"), UpdateStatus(v, "queued")}
    BY <1>0, <1>8, EvictEffect, ReturnEffect, Zenon
  <2>2. v \in tick.victims /\ tick.target \in Node
    BY <1>0, <2>1, Zenon DEF NextVictim, EngineInv, TargetOK
  <2>3. /\ tick'.phase = "evicted" => tick'.victims = {}
        /\ tick'.phase \in {"evict", "return", "evicted"}
    BY <2>1, Zenon DEF PastVictim
  <2>4. \A k \in Job : jobs'[k].created = jobs[k].created
    <3>1. "preempted" \in JobStatus /\ "queued" \in JobStatus
      BY Zenon DEF JobStatus
    <3> QED
      BY <1>0, <2>1, <3>1, UpdateEffect, RequeueRow
  <2>5. \A m \in Node : /\ tick'.view[m].cap = tick.view[m].cap
                        /\ tick'.view[m].status = tick.view[m].status
    <3>1. CASE EvictVictim(v)
      <4>1. /\ tick'.view[tick.target] = Release(tick.view[tick.target], Request[v])
            /\ \A m \in Node \ {tick.target} : tick'.view[m] = tick.view[m]
        BY <1>0, <3>1, EvictEffect, Zenon
      <4>2. tick.view[tick.target] \in NodeRow /\ Request[v] \in Vec
        BY <1>0, <2>2, JobAssumption, Zenon DEF TickState
      <4> QED
        BY <4>1, <4>2, ReleaseType
    <3>2. CASE ReturnVictim(v)
      BY <1>0, <3>2, ReturnEffect, Zenon DEF KeepsView
    <3> QED
      BY <1>8, <3>1, <3>2, Zenon
  <2>6. SameOrder
    BY <1>0, <2>1, <2>4, <2>5, Zenon DEF SameOrder
  <2>7. \A k \in Job : Current(k)' <=> Current(k)
    BY <1>0, <2>6, CurrentKept, Zenon
  <2> QED
    BY <2>1, <2>2, <2>3, <2>4, <2>5, <2>7, Zenon DEF Evicting
<1>9. ASSUME NEW v \in Job, EvictVictim(v) PROVE Good
  <2>0. /\ Evicting /\ NextVictim(v) /\ v \in tick.victims /\ tick.target \in Node
        /\ tick'.target = tick.target
        /\ tick'.phase = "evicted" => tick'.victims = {}
        /\ tick'.phase \in {"evict", "return", "evicted"}
        /\ \A k \in Job : jobs'[k].created = jobs[k].created
        /\ \A m \in Node : tick'.view[m].status = tick.view[m].status
        /\ \A k \in Job : Current(k)' <=> Current(k)
    BY <1>8, <1>9, Zenon
  <2>1. /\ tick.phase = "evict"
        /\ tick'.view[tick.target] = Release(tick.view[tick.target], Request[v])
        /\ \/ tick'.phase = "return" /\ tick'.victims = tick.victims
           \/ PastVictim(v)
    BY <1>0, <1>9, EvictEffect, Zenon
  <2>2. ToGo = tick.victims
    BY <2>1, Zenon DEF ToGo
  <2>3. tick.victims \ {v} \subseteq ToGo' /\ ToGo' \subseteq Job
    <3>1. CASE tick'.phase = "return" /\ tick'.victims = tick.victims
      <4>1. \A w \in Job : NextVictim(w)' <=> NextVictim(w)
        BY <1>0, <2>0, <3>1, VictimKept, Zenon
      <4>2. \A w \in tick.victims \ {v} : ~ NextVictim(w)
        BY <1>0, <2>0, VictimUnique, Zenon
      <4> QED
        BY <1>0, <3>1, <4>1, <4>2, Zenon DEF ToGo
    <3>2. CASE PastVictim(v)
      BY <1>0, <3>2, Zenon DEF ToGo, PastVictim
    <3> QED
      BY <2>1, <3>1, <3>2, Zenon
  <2>4. ASSUME NEW j \in Job, Current(j)' PROVE WillFit(j)'
    <3>1. WillFit(j)
      BY <2>0, <2>4, Zenon DEF PayInv
    <3> DEFINE row == tick.view[tick.target]
               T == ToGo'
    <3>2. row \in NodeRow
      BY <1>0, <2>0, Zenon DEF TickState
    <3>3. T \in SUBSET Job /\ tick.victims \ {v} \subseteq T
      BY <2>3, Zenon
    <3>4. \A d : Total(d, ToGo)' = Total(d, T)
      BY Zenon DEF Total, Units
    <3>5. ASSUME NEW d \in Dim
          PROVE  \/ Release(row, Request[v]).avail[d] + Total(d, T) >= Request[j][d]
                 \/ Release(row, Request[v]).avail[d] = Release(row, Request[v]).cap[d]
      <4>1. Request[j][d] \in Nat
        BY JobAssumption, Zenon DEF Vec
      <4>2. row.avail[d] + Total(d, tick.victims) >= Request[j][d] \/ row.avail[d] = row.cap[d]
        BY <2>2, <3>1, Zenon DEF WillFit
      <4>3. TotalsAdd /\ tick.victims \in SUBSET Job /\ v \in tick.victims
        BY <1>0, <2>0, Zenon
      <4> HIDE DEF row, T
      <4> QED
        BY <3>2, <3>3, <4>1, <4>2, <4>3, ReleaseCounts, Zenon
    <3> QED
      BY <2>0, <2>1, <3>4, <3>5, Zenon DEF WillFit
  <2>5. Schedulable(tick'.view[tick'.target].status)
    BY <2>0, Zenon DEF PayInv
  <2> QED
    BY <2>0, <2>4, <2>5, Zenon
<1>10. ASSUME NEW v \in Job, ReturnVictim(v) PROVE Good
  <2>0. /\ Evicting /\ NextVictim(v) /\ v \in tick.victims /\ tick.target \in Node
        /\ tick'.target = tick.target
        /\ tick'.phase = "evicted" => tick'.victims = {}
        /\ tick'.phase \in {"evict", "return", "evicted"}
        /\ \A k \in Job : Current(k)' <=> Current(k)
    BY <1>8, <1>10, Zenon
  <2>1. tick.phase = "return" /\ PastVictim(v) /\ tick'.view = tick.view
    BY <1>0, <1>10, ReturnEffect, Zenon DEF KeepsView
  <2>2. ToGo \subseteq ToGo' /\ ToGo' \subseteq Job /\ ToGo \subseteq Job
    BY <1>0, <2>0, <2>1, Zenon DEF ToGo, PastVictim
  <2>3. ASSUME NEW j \in Job, Current(j)' PROVE WillFit(j)'
    <3>1. WillFit(j)
      BY <2>0, <2>3, Zenon DEF PayInv
    <3> DEFINE row == tick.view[tick.target]
               S == ToGo
               T == ToGo'
    <3>2. row \in NodeRow
      BY <1>0, <2>0, Zenon DEF TickState
    <3>3. TotalsAdd /\ T \in SUBSET Job /\ S \subseteq T /\ S \in SUBSET Job
      BY <1>0, <2>2, Zenon
    <3>4. \A d : Total(d, ToGo)' = Total(d, T)
      BY Zenon DEF Total, Units
    <3>5. ASSUME NEW d \in Dim
          PROVE  row.avail[d] + Total(d, T) >= Request[j][d] \/ row.avail[d] = row.cap[d]
      <4>1. Request[j][d] \in Nat /\ row.avail[d] \in Nat
        BY <3>2, JobAssumption, Zenon DEF Vec, NodeRow
      <4>2. row.avail[d] + Total(d, S) >= Request[j][d] \/ row.avail[d] = row.cap[d]
        BY <3>1, Zenon DEF WillFit
      <4> HIDE DEF row, S, T
      <4>3. Total(d, S) <= Total(d, T) /\ Total(d, S) \in Nat /\ Total(d, T) \in Nat
        BY <3>3, TotalMonotone, TotalType, Zenon
      <4> QED
        BY <4>1, <4>2, <4>3
    <3> QED
      BY <2>0, <2>1, <3>4, <3>5, Zenon DEF WillFit
  <2>4. Schedulable(tick'.view[tick'.target].status)
    BY <2>0, <2>1, Zenon DEF PayInv
  <2> QED
    BY <2>0, <2>3, <2>4, Zenon
<1>11. CASE Stop
  BY <1>1, <1>11, IdleFields, Zenon DEF Stop, Evicting
<1> QED
  BY <1>2, <1>3, <1>4, <1>5, <1>6, <1>7, <1>9, <1>10, <1>11, Zenon DEF EngineNext, TickStep

(* What others do leaves the plan as it is.                                *)
LEMMA OthersPay ==
    ASSUME PayInv, LifeInv', Users \/ Agents \/ UNCHANGED vars
    PROVE  PayInv'
<1>0. LifeInv /\ TypeInv /\ EngineInv /\ VictimsApart /\ tick.victims \subseteq Job
  BY Zenon DEF PayInv, LifeInv, TypeInv, EngineInv, EngineTypeOK, TickState
<1>1. tick' = tick
  BY <1>0, OthersEffect, Zenon
<1>2. \A j \in Job : Current(j)' <=> Current(j)
  BY <1>0, OthersOrder, Zenon
<1>3. \A v \in tick.victims : jobs'[v] = jobs[v]
  BY <1>0, OthersRows, Zenon DEF VictimsApart, Alive
<1>4. \A v \in Job : NextVictim(v)' <=> NextVictim(v)
  BY <1>0, <1>1, <1>3, VictimKept, Zenon
<1>5. ToGo' = ToGo
  BY <1>0, <1>1, <1>4, Zenon DEF ToGo
<1>6. \A d : Total(d, ToGo)' = Total(d, ToGo)
  BY <1>5, Zenon DEF Total, Units
<1>7. \A j \in Job : WillFit(j)' <=> WillFit(j)
  BY <1>1, <1>6, Zenon DEF WillFit
<1> QED
  BY <1>1, <1>2, <1>7, Zenon DEF PayInv, Evicting

-----------------------------------------------------------------------------
(* What sets of jobs ask for together *)

(* The units one job asks for are as many as its request says.             *)
LEMMA UnitsOfOne ==
    ASSUME NEW d \in Dim, NEW j \in Job
    PROVE  /\ IsFiniteSet({j} \X (1..Request[j][d]))
           /\ Cardinality({j} \X (1..Request[j][d])) = Request[j][d]
           /\ Request[j][d] \in Nat
<1>1. Request[j][d] \in Nat
  BY JobAssumption, Zenon DEF Vec
<1> DEFINE r == Request[j][d]
           f == [i \in 1..r |-> <<j, i>>]
<1> HIDE DEF r
<1>2. IsFiniteSet(1..r) /\ Cardinality(1..r) = r
  <2>1. r \in Int /\ 1 \in Int /\ (1 > r => r = 0)
    BY <1>1 DEF r
  <2> QED
    BY <2>1, FS_Interval
<1>3. f \in Bijection(1..r, {j} \X (1..r))
  <2>1. f \in [1..r -> {j} \X (1..r)]
    BY Zenon
  <2>2. \A x, y \in 1..r : f[x] = f[y] => x = y
    BY Zenon
  <2>3. \A t \in {j} \X (1..r) : \E i \in 1..r : f[i] = t
    OBVIOUS
  <2> QED
    BY <2>1, <2>2, <2>3, Zenon DEF Bijection, Injection, Surjection, IsInjective
<1>4. ExistsBijection(1..r, {j} \X (1..r))
  BY <1>3, Zenon DEF ExistsBijection
<1> QED
  BY <1>1, <1>2, <1>4, FS_Bijection, Zenon DEF r

(* Finitely many jobs ask for finitely many units.                         *)
LEMMA UnitsFinite ==
    ASSUME NEW d \in Dim, NEW S \in SUBSET Job
    PROVE  IsFiniteSet(Units(d, S))
<1> DEFINE B == {{j} \X (1..Request[j][d]) : j \in S}
           f == [j \in S |-> {j} \X (1..Request[j][d])]
<1>1. IsFiniteSet(S)
  BY JobAssumption, FS_Subset, Zenon
<1>2. f \in Surjection(S, B)
  BY Zenon DEF Surjection
<1>3. IsFiniteSet(B)
  BY <1>1, <1>2, FS_Surjection, Zenon
<1>4. \A b \in B : IsFiniteSet(b)
  BY UnitsOfOne, Zenon
<1> QED
  BY <1>3, <1>4, FS_UNION, Zenon DEF Units

(* What sets of jobs ask for adds up, because the units they ask for are   *)
(* finitely many and no unit is asked for by two jobs.                     *)
LEMMA TotalsAddUp == TotalsAdd
<1>1. ASSUME NEW d \in Dim PROVE Total(d, {}) = 0
  <2>1. Units(d, {}) = {}
    BY Zenon DEF Units
  <2> QED
    BY <2>1, FS_EmptySet, Zenon DEF Total
<1>2. ASSUME NEW d \in Dim, NEW S \in SUBSET Job PROVE Total(d, S) \in Nat
  BY <1>2, UnitsFinite, FS_CardinalityType, Zenon DEF Total
<1>3. ASSUME NEW d \in Dim, NEW S \in SUBSET Job, NEW T \in SUBSET S
      PROVE  Total(d, T) <= Total(d, S)
  <2>1. Units(d, T) \subseteq Units(d, S)
    BY Zenon DEF Units
  <2> QED
    BY <2>1, UnitsFinite, FS_Subset, Zenon DEF Total
<1>4. ASSUME NEW d \in Dim, NEW S \in SUBSET Job, NEW j \in Job \ S
      PROVE  Total(d, S \cup {j}) = Total(d, S) + Request[j][d]
  <2> DEFINE U == {j} \X (1..Request[j][d])
  <2>1. Units(d, S \cup {j}) = Units(d, S) \cup U
    BY Zenon DEF Units
  <2>2. Units(d, S) \cap U = {}
    BY DEF Units
  <2>3. IsFiniteSet(U) /\ Cardinality(U) = Request[j][d] /\ Request[j][d] \in Nat
    BY UnitsOfOne, Zenon
  <2>4. IsFiniteSet(Units(d, S)) /\ Total(d, S) \in Nat
    BY <1>2, UnitsFinite, Zenon
  <2> HIDE DEF U
  <2>5. Cardinality(Units(d, S) \cup U) = Cardinality(Units(d, S)) + Cardinality(U) - Cardinality({})
    BY <2>2, <2>3, <2>4, FS_Union, Zenon
  <2>6. Cardinality({}) = 0
    BY FS_EmptySet, Zenon
  <2>7. /\ Total(d, S \cup {j}) = Cardinality(Units(d, S) \cup U)
        /\ Total(d, S) = Cardinality(Units(d, S))
    BY <2>1, Zenon DEF Total
  <2> QED
    BY <2>3, <2>4, <2>5, <2>6, <2>7
<1> QED
  BY <1>1, <1>2, <1>3, <1>4, Zenon DEF TotalsAdd

(* Every set of numbers has a smallest.                                    *)
LEMMA SmallestNumber ==
    ASSUME NEW T \in SUBSET Nat, T # {}
    PROVE  \E m \in T : \A k \in T : m <= k
<1> DEFINE R == OpToRel(<, Nat)
<1>1. IsWellFoundedOn(R, Nat)
  BY NatLessThanWellFounded, Zenon
<1>2. \A a, b \in Nat : a < b => <<a, b>> \in R
  BY Zenon DEF OpToRel
<1> HIDE DEF R
<1>3. PICK m \in T : \A k \in T : ~ (<<k, m>> \in R)
  BY <1>1, WFMin, Zenon
<1>4. ASSUME NEW k \in T PROVE m <= k
  <2>1. ~ (k < m)
    BY <1>2, <1>3, Zenon
  <2> QED
    BY <2>1
<1> QED
  BY <1>4, Zenon

(* Something has the smallest measure.                                     *)
LEMMA SmallestMeasure ==
    ASSUME NEW S, S # {}, NEW f \in [S -> Nat]
    PROVE  \E n \in S : \A m \in S : f[n] <= f[m]
<1> DEFINE T == {f[n] : n \in S}
<1>1. T \in SUBSET Nat /\ T # {}
  BY Zenon
<1>2. PICK t \in T : \A k \in T : t <= k
  BY <1>1, SmallestNumber, Zenon
<1> QED
  BY <1>2, Zenon

(* If the job fits anywhere, every strategy finds it a node: the first in  *)
(* hostname order, or the tightest, hostname order deciding ties.          *)
LEMMA PlaceFinds ==
    ASSUME NEW r \in Vec, NEW view \in [Node -> NodeRow], NEW alg,
           NEW k \in Node, Fits(view[k], r)
    PROVE  \E n \in Node : Place(alg, n, r, view)
<1> DEFINE F == Fitting(r, view)
<1>1. F # {} /\ F \subseteq Node /\ F \subseteq Nat
  BY NodeAssumption, Zenon DEF Fitting
<1>2. CASE alg = "first-fit"
  <2>1. PICK n \in F : \A m \in F : n <= m
    BY <1>1, SmallestNumber, Zenon
  <2> QED
    BY <1>1, <1>2, <2>1, Zenon DEF Place, FirstFitNode
<1>3. CASE alg # "first-fit"
  <2> DEFINE h(n) == Headroom(view[n], r)
             f(i) == [n \in F |-> h(n)[i]]
  <2>1. \A n \in F : h(n)[1] \in Nat /\ h(n)[2] \in Nat /\ h(n)[3] \in Nat
    <3>1. SUFFICES ASSUME NEW n \in F
                   PROVE  h(n)[1] \in Nat /\ h(n)[2] \in Nat /\ h(n)[3] \in Nat
      BY Zenon
    <3>2. \A d \in Dim : view[n].avail[d] \in Nat /\ r[d] \in Nat /\ view[n].avail[d] >= r[d]
      BY Zenon DEF NodeRow, Vec, Fitting, Fits, Enough
    <3> QED
      BY <3>2 DEF Headroom, Dim
  <2>2. PICK a \in F : \A m \in F : h(a)[1] <= h(m)[1]
    <3>1. f(1) \in [F -> Nat]
      BY <2>1, Zenon
    <3>2. \E n \in F : \A m \in F : f(1)[n] <= f(1)[m]
      <4> HIDE DEF F, f
      <4> QED
        BY <1>1, <3>1, SmallestMeasure, Zenon
    <3> QED
      BY <3>2, Zenon
  <2> DEFINE G == {m \in F : h(m)[1] = h(a)[1]}
  <2>3. PICK b \in G : \A m \in G : h(b)[2] <= h(m)[2]
    <3> DEFINE g == [n \in G |-> h(n)[2]]
    <3>1. g \in [G -> Nat] /\ G # {}
      BY <2>1, Zenon
    <3>2. \E n \in G : \A m \in G : g[n] <= g[m]
      <4> HIDE DEF G, g
      <4> QED
        BY <3>1, SmallestMeasure, Zenon
    <3> QED
      BY <3>2, Zenon
  <2> DEFINE H == {m \in G : h(m)[2] = h(b)[2]}
  <2>4. PICK c \in H : \A m \in H : h(c)[3] <= h(m)[3]
    <3> DEFINE g == [n \in H |-> h(n)[3]]
    <3>1. g \in [H -> Nat] /\ H # {}
      BY <2>1, Zenon
    <3>2. \E n \in H : \A m \in H : g[n] <= g[m]
      <4> HIDE DEF H, g
      <4> QED
        BY <3>1, SmallestMeasure, Zenon
    <3> QED
      BY <3>2, Zenon
  <2> DEFINE J == {m \in H : h(m)[3] = h(c)[3]}
  <2>5. PICK n \in J : \A m \in J : n <= m
    <3>1. J \in SUBSET Nat /\ J # {}
      BY <1>1, Zenon
    <3> HIDE DEF J
    <3> QED
      BY <3>1, SmallestNumber, Zenon
  <2>6. ASSUME NEW m \in F, m # n
        PROVE  Less(h(n), h(m)) \/ (h(n) = h(m) /\ n < m)
    <3>1. /\ h(n)[1] \in Nat /\ h(n)[2] \in Nat /\ h(n)[3] \in Nat
          /\ h(m)[1] \in Nat /\ h(m)[2] \in Nat /\ h(m)[3] \in Nat
      BY <2>1, Zenon
    <3>2. h(n)[1] <= h(m)[1]
      BY <2>2, Zenon
    <3>3. h(m)[1] = h(n)[1] => h(n)[2] <= h(m)[2]
      BY <2>3, Zenon
    <3>4. h(m)[1] = h(n)[1] /\ h(m)[2] = h(n)[2] => h(n)[3] <= h(m)[3]
      BY <2>4, Zenon
    <3>5. h(m)[1] = h(n)[1] /\ h(m)[2] = h(n)[2] /\ h(m)[3] = h(n)[3] => n < m
      <4>1. h(m)[1] = h(n)[1] /\ h(m)[2] = h(n)[2] /\ h(m)[3] = h(n)[3] => m \in J
        BY <2>5, Zenon
      <4> QED
        BY <1>1, <2>5, <2>6, <4>1
    <3>6. h(m)[1] = h(n)[1] /\ h(m)[2] = h(n)[2] /\ h(m)[3] = h(n)[3] => h(n) = h(m)
      BY Zenon DEF Headroom
    <3> HIDE DEF h
    <3> QED
      BY <3>1, <3>2, <3>3, <3>4, <3>5, <3>6 DEF Less
  <2> QED
    BY <1>1, <1>3, <2>6, Zenon DEF Place, BestFitNode
<1> QED
  BY <1>2, <1>3, Zenon

-----------------------------------------------------------------------------
(* The order of the queue *)

(* Division rounds down.                                                   *)
LEMMA RoundsDown ==
    ASSUME NEW x \in Nat, NEW b \in Nat \ {0}
    PROVE  x \div b \in Nat /\ (x \div b) * b <= x /\ x < (x \div b) * b + b
OBVIOUS

(* Rounding down each of two numbers yields at most what rounding down     *)
(* their sum does.                                                         *)
LEMMA RoundingAdds ==
    ASSUME NEW x \in Nat, NEW y \in Nat, NEW b \in Nat \ {0}
    PROVE  (x \div b) + (y \div b) <= (x + y) \div b
<1> DEFINE p == x \div b
           q == y \div b
           r == (x + y) \div b
<1>1. p \in Nat /\ p * b <= x
  BY RoundsDown, Zenon
<1>2. q \in Nat /\ q * b <= y
  BY RoundsDown, Zenon
<1>3. r \in Nat /\ x + y < r * b + b
  BY RoundsDown
<1> HIDE DEF p, q, r
<1>4. (p + q) * b < (r + 1) * b
  <2>1. (p + q) * b = p * b + q * b /\ (r + 1) * b = r * b + b
    BY <1>1, <1>2, <1>3
  <2>2. p * b \in Nat /\ q * b \in Nat /\ r * b \in Nat
    BY <1>1, <1>2, <1>3
  <2> QED
    BY <1>1, <1>2, <1>3, <2>1, <2>2
<1>5. ~ (p + q >= r + 1)
  <2> SUFFICES ASSUME p + q >= r + 1 PROVE FALSE
    BY Zenon
  <2>1. PICK e \in Nat : p + q = (r + 1) + e
    BY <1>1, <1>2, <1>3
  <2>2. (p + q) * b = (r + 1) * b + e * b /\ e * b \in Nat /\ (r + 1) * b \in Nat
    BY <1>3, <2>1
  <2> QED
    BY <1>4, <2>2
<1> QED
  BY <1>1, <1>2, <1>3, <1>5 DEF p, q, r

(* strategies.go, aging guarantees "that even the lowest priority job      *)
(* eventually outranks fresh arrivals": a job that had waited long enough  *)
(* to make up for the difference in priority when another was submitted    *)
(* is ordered before it at all times, rounding notwithstanding.            *)
THEOREM AgedOutranks ==
    ASSUME NEW j \in Job, NEW k \in Job, NEW created \in [Job -> Nat], NEW now \in Nat,
           NEW aging \in Nat \X (Nat \ {0}), NEW share,
           created[j] < created[k], created[k] <= now,
           ((created[k] - created[j]) * aging[1]) \div aging[2] >= Priority[k] - Priority[j]
    PROVE  Less(OrderKey("priority", j, created, now, aging, share),
                OrderKey("priority", k, created, now, aging, share))
<1> DEFINE a == aging[1]
           b == aging[2]
           x == (created[k] - created[j]) * a
           y == (now - created[k]) * a
<1>1. a \in Nat /\ b \in Nat \ {0} /\ created[j] \in Nat /\ created[k] \in Nat
  BY Zenon
<1>2. created[k] - created[j] \in Nat /\ now - created[k] \in Nat
  BY <1>1
<1>3. x \in Nat /\ y \in Nat /\ (now - created[j]) * a = x + y
  BY <1>1, <1>2
<1>4. (x \div b) + (y \div b) <= (x + y) \div b
  BY <1>1, <1>3, RoundingAdds, Zenon
<1>5. Priority[j] \in Int /\ Priority[k] \in Int
  BY JobAssumption
<1>6. x \div b \in Nat /\ y \div b \in Nat /\ (x + y) \div b \in Nat
  BY <1>1, <1>3, RoundsDown
<1> DEFINE u == EffectivePriority(j, created, now, aging)
           v == EffectivePriority(k, created, now, aging)
<1>7. u = Priority[j] + ((x + y) \div b) /\ v = Priority[k] + (y \div b)
  <2>1. ~ (now < created[j]) /\ ~ (now < created[k])
    BY <1>1
  <2> QED
    BY <1>3, <2>1, Zenon DEF EffectivePriority
<1>8. x \div b >= Priority[k] - Priority[j]
  BY Zenon
<1> DEFINE m == x \div b
           n == y \div b
           l == (x + y) \div b
<1> HIDE DEF m, n, l, u, v
<1>9. u \in Int /\ v \in Int /\ u >= v
  BY <1>4, <1>5, <1>6, <1>7, <1>8 DEF m, n, l
<1>10. /\ OrderKey("priority", j, created, now, aging, share) = <<0, 0 - u, created[j]>>
       /\ OrderKey("priority", k, created, now, aging, share) = <<0, 0 - v, created[k]>>
  BY Zenon DEF OrderKey, u, v
<1> QED
  BY <1>1, <1>9, <1>10 DEF Less

-----------------------------------------------------------------------------
(* The theorems *)

(* Where preemption is off, node losses requeue a job at most max_retries  *)
(* times and reconciliation fails a job only when that budget is spent,    *)
(* although it judges by rows read earlier in the tick, and whichever      *)
(* statements fail or take effect although reported as failed.             *)
THEOREM RetryCorrect ==
    ASSUME ~ EnablePreemption
    PROVE  Spec => []RetryBudgetKept
<1>1. Init => RetryInv
  <2> SUFFICES ASSUME Init PROVE RetryInv
    BY Zenon
  <2>1. NoEvictions
    BY IdleFields, Zenon DEF Init, EngineInit, NoEvictions
  <2>2. \A j \in Job : jobs[j].retry = 0 /\ jobs[j].status = "absent" /\ MaxRetries[j] \in Nat
    BY JobAssumption, Zenon DEF Init, StoreInit, NoJobRow
  <2> QED
    BY <2>1, <2>2, LifeInit, TotalsAddUp DEF RetryInv, RetryBudgetKept
<1>2. RetryInv /\ [Next]_vars => RetryInv'
  BY RetryStep, Zenon
<1>3. RetryInv => RetryBudgetKept
  BY Zenon DEF RetryInv
<1> QED
  BY <1>1, <1>2, <1>3, PTL DEF Spec

(* As long as no statement fails and no tick is cut short, reconciliation  *)
(* leaves no active job on a node that is down, although it lists the lost *)
(* jobs after it marked the nodes, and although heartbeats and operators   *)
(* bring nodes back while the tick places jobs from the view it read.      *)
THEOREM ReconciliationCorrect ==
    ASSUME MaxFaults = 0
    PROVE  Spec => []DownNodesVacated
<1>1. Init => VacatedInv
  <2> SUFFICES ASSUME Init PROVE VacatedInv
    BY Zenon
  <2>1. tick.phase = "idle" /\ \A n \in Node : nodes[n].status = "absent"
    BY IdleFields, Zenon DEF Init, EngineInit, StoreInit, NoNodeRow
  <2> QED
    BY <2>1, LifeInit, TotalsAddUp, Zenon DEF VacatedInv, DownNodesVacated, Listed
<1>2. VacatedInv /\ [Next]_vars => VacatedInv'
  <2> SUFFICES ASSUME VacatedInv, [Next]_vars PROVE VacatedInv'
    BY Zenon
  <2>1. LifeInv'
    BY LifeStep, Zenon DEF VacatedInv
  <2> QED
    BY <2>1, EngineVacates, OthersVacate, Zenon DEF Next, Engines
<1>3. VacatedInv => DownNodesVacated
  BY Zenon DEF VacatedInv
<1> QED
  BY <1>1, <1>2, <1>3, PTL DEF Spec

(* As long as no statement fails and no tick is cut short, between ticks   *)
(* every placed job's latest audit record is of its placement, and names   *)
(* the node its row names.                                                 *)
THEOREM AuditCorrect ==
    ASSUME MaxFaults = 0
    PROVE  Spec => []PlacementsAudited
<1>1. Init => AuditInv
  <2> SUFFICES ASSUME Init PROVE AuditInv
    BY Zenon
  <2>1. tick.phase = "idle" /\ \A j \in Job : jobs[j].status = "absent"
    BY IdleFields, Zenon DEF Init, EngineInit, StoreInit, NoJobRow
  <2> QED
    BY <2>1, LifeInit, TotalsAddUp, Zenon DEF AuditInv, Recording
<1>2. AuditInv /\ [Next]_vars => AuditInv'
  <2> SUFFICES ASSUME AuditInv, [Next]_vars PROVE AuditInv'
    BY Zenon
  <2>1. LifeInv /\ LifeInv' /\ TypeInv
    BY LifeStep, Zenon DEF AuditInv, LifeInv
  <2>2. CASE Users \/ Agents \/ UNCHANGED vars
    <3>1. tick' = tick /\ events' = events
      BY <2>1, <2>2, OthersEffect, Zenon
    <3>2. \A j \in Job : \/ jobs'[j] = jobs[j]
                         \/ jobs[j].status = "absent" /\ jobs'[j].status = "queued"
      BY <2>1, <2>2, OthersRows, Zenon
    <3>3. \A j \in Job : Current(j)' <=> Current(j)
      BY <2>1, <2>2, OthersOrder, Zenon
    <3> QED
      BY <2>1, <3>1, <3>2, <3>3, Zenon DEF AuditInv, Audited, Recording
  <2> QED
    BY <2>1, <2>2, EngineAudits, Zenon DEF Next, Engines
<1>3. AuditInv => PlacementsAudited
  BY Zenon DEF AuditInv, PlacementsAudited, Audited, Recording
<1> QED
  BY <1>1, <1>2, <1>3, PTL DEF Spec

(* Evictions are never in vain: when the victims of a plan are out of the  *)
(* way, the job they made way for is placed, provided it fits the machine  *)
(* at all; whichever strategy places it, and even if some victims could    *)
(* not be requeued.                                                        *)
THEOREM EvictionsCorrect == Spec => []EvictionsPayOff
<1>1. Init => PayInv
  <2> SUFFICES ASSUME Init PROVE PayInv
    BY Zenon
  <2>1. tick.phase = "idle"
    BY IdleFields, Zenon DEF Init, EngineInit
  <2> QED
    BY <2>1, LifeInit, TotalsAddUp, Zenon DEF PayInv, Evicting
<1>2. PayInv /\ [Next]_vars => PayInv'
  <2> SUFFICES ASSUME PayInv, [Next]_vars PROVE PayInv'
    BY Zenon
  <2>1. LifeInv'
    BY LifeStep, Zenon DEF PayInv
  <2> QED
    BY <2>1, EnginePays, OthersPay, Zenon DEF Next, Engines
<1>3. PayInv => EvictionsPayOff
  <2> SUFFICES ASSUME PayInv, tick.phase = "replace", NEW j \in Job, Current(j),
                      Enough(tick.view[tick.target].cap, Request[j])
               PROVE  CanPlace(j)
    BY Zenon DEF EvictionsPayOff
  <2> DEFINE row == tick.view[tick.target]
  <2>1. tick \in TickState /\ tick.target \in Node /\ Request[j] \in Vec
    BY JobAssumption, Zenon DEF PayInv, LifeInv, TypeInv, EngineInv, EngineTypeOK, TargetOK
  <2>2. row \in NodeRow /\ tick.view \in [Node -> NodeRow]
    BY <2>1, Zenon DEF TickState
  <2>3. WillFit(j) /\ Schedulable(row.status) /\ tick.victims = {}
    BY Zenon DEF PayInv, Evicting
  <2>4. \A d \in Dim : Total(d, ToGo) = 0
    <3>1. ToGo = {}
      BY <2>3, Zenon DEF ToGo
    <3> QED
      BY <3>1, TotalsAddUp, Zenon DEF TotalsAdd
  <2>5. Enough(row.avail, Request[j])
    <3> SUFFICES ASSUME NEW d \in Dim PROVE row.avail[d] >= Request[j][d]
      BY Zenon DEF Enough
    <3>1. row.avail[d] \in Nat /\ Request[j][d] \in Nat
      BY <2>1, <2>2, Zenon DEF NodeRow, Vec
    <3>2. row.avail[d] + Total(d, ToGo) >= Request[j][d] \/ row.avail[d] = row.cap[d]
      BY <2>3, Zenon DEF WillFit
    <3>3. row.cap[d] >= Request[j][d] /\ Total(d, ToGo) = 0
      BY <2>4, Zenon DEF Enough
    <3> HIDE DEF row
    <3> QED
      BY <3>1, <3>2, <3>3
  <2>6. Fits(row, Request[j])
    BY <2>3, <2>5, Zenon DEF Fits
  <2> HIDE DEF row
  <2> QED
    BY <2>1, <2>2, <2>6, PlaceFinds, Zenon DEF CanPlace, row
<1> QED
  BY <1>1, <1>2, <1>3, PTL DEF Spec
=============================================================================
