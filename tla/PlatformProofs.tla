--------------------------- MODULE PlatformProofs ---------------------------
(***************************************************************************)
(* The control plane and the executors: the refinement of JobLife, and what *)
(* holds when ticks, polls and handlers take turns.  What their steps      *)
(* preserve is proved in ControlPlaneProofs, IsolatedProofs and            *)
(* ClusterProofs; here is the induction over behaviours.                   *)
(***************************************************************************)
EXTENDS EngineProofs, IsolatedProofs, ClusterProofs, Promises

-----------------------------------------------------------------------------
(* One activity at a time *)

(* Of four numbers that sum to at most one, three are zero.                *)
LEMMA SmallSum ==
    ASSUME NEW x \in Nat, NEW a \in Nat, NEW b \in Nat, NEW c \in Nat, x + a + b + c <= 1
    PROVE  /\ x = 1 => a = 0 /\ b = 0 /\ c = 0
           /\ a # 0 => b = 0
           /\ b = 0 \/ c = 0
           /\ b - 1 \in Nat => b - 1 = 0
OBVIOUS

(* Of four activities that are at most one in number, one excludes the     *)
(* others, and there is one of its kind.                                   *)
LEMMA AtMostOne ==
    ASSUME NEW x \in Nat, NEW A, IsFiniteSet(A), NEW B, IsFiniteSet(B), NEW C, IsFiniteSet(C),
           x + Cardinality(A) + Cardinality(B) + Cardinality(C) <= 1
    PROVE  /\ x = 1 => A = {} /\ B = {} /\ C = {}
           /\ A # {} => B = {}
           /\ B = {} \/ C = {}
           /\ \A p, q \in B : p = q
<1>1. Cardinality(A) \in Nat /\ Cardinality(B) \in Nat /\ Cardinality(C) \in Nat
  BY FS_CardinalityType, Zenon
<1>2. /\ x = 1 => Cardinality(A) = 0 /\ Cardinality(B) = 0 /\ Cardinality(C) = 0
      /\ Cardinality(A) # 0 => Cardinality(B) = 0
      /\ Cardinality(B) = 0 \/ Cardinality(C) = 0
      /\ Cardinality(B) - 1 \in Nat => Cardinality(B) - 1 = 0
  BY <1>1, SmallSum, Zenon
<1>3. ASSUME NEW p \in B, NEW q \in B, p # q PROVE FALSE
  <2>1. IsFiniteSet(B \ {p}) /\ Cardinality(B \ {p}) = Cardinality(B) - 1
    BY FS_RemoveElement, Zenon
  <2>2. Cardinality(B \ {p}) \in Nat
    BY <2>1, FS_CardinalityType, Zenon
  <2>3. B \ {p} = {}
    BY <1>2, <2>1, <2>2, FS_EmptySet, Zenon
  <2>4. q \in B \ {p}
    BY <1>3, Zenon
  <2> QED
    BY <2>3, <2>4, Zenon
<1>4. /\ Cardinality(A) = 0 <=> A = {}
      /\ Cardinality(B) = 0 <=> B = {}
      /\ Cardinality(C) = 0 <=> C = {}
  BY FS_EmptySet, Zenon
<1> QED
  BY <1>2, <1>3, <1>4, Zenon

(* What the guard of Isolated leaves possible.                             *)
LEMMA TakingTurns ==
    ASSUME InProgress' <= 1
    PROVE  Solo' /\ Alone'
<1> DEFINE x == IF tick.phase = "idle" THEN 0 ELSE 1
           A == {n \in Node : inbox[n] # {}}
           B == {p \in Node \X Job : Working(exec[p[1]][p[2]])}
           C == {p \in Client \X Job : cancel[p[1]][p[2]].phase # "none"}
<1>1. IsFiniteSet(A') /\ IsFiniteSet(B') /\ IsFiniteSet(C')
  <2>1. IsFiniteSet(Node) /\ IsFiniteSet(Node \X Job) /\ IsFiniteSet(Client \X Job)
    BY NodeAssumption, JobAssumption, CancellationAssumption, FS_Product, Zenon
  <2> QED
    BY <2>1, FS_Subset, Zenon
<1>2. x' \in Nat
  OBVIOUS
<1>3. x' + Cardinality(A') + Cardinality(B') + Cardinality(C') <= 1
  BY Zenon DEF InProgress
<1> HIDE DEF x, A, B, C
<1>4. /\ x' = 1 => A' = {} /\ B' = {} /\ C' = {}
      /\ A' # {} => B' = {}
      /\ B' = {} \/ C' = {}
      /\ \A p, q \in B' : p = q
  BY <1>1, <1>2, <1>3, AtMostOne, Zenon
<1>5. \A n \in Node, j \in Job : Working(exec[n][j])' <=> <<n, j>> \in B'
  BY Zenon DEF B
<1>6. \A c \in Client, j \in Job : cancel'[c][j].phase # "none" <=> <<c, j>> \in C'
  BY Zenon DEF C
<1>7. (tick'.phase # "idle" => x' = 1) /\ \A n \in Node : inbox'[n] # {} => n \in A'
  BY Zenon DEF x, A
<1>8. (B' = {} => Resting') /\ (C' = {} => Calm')
  BY <1>5, <1>6, Zenon DEF Resting, Calm
<1>9. tick'.phase # "idle" =>
          \A n \in Node : inbox'[n] = {} /\ \A j \in Job : ~ Working(exec[n][j])'
  BY <1>4, <1>5, <1>7, Zenon
<1>10. (\E n \in Node : inbox'[n] # {}) => \A n \in Node, j \in Job : ~ Working(exec[n][j])'
  BY <1>4, <1>5, <1>7, Zenon
<1>11. ASSUME NEW m \in Node, NEW n \in Node, NEW j \in Job, NEW k \in Job,
              Working(exec[m][j])', Working(exec[n][k])'
       PROVE  m = n /\ j = k
  <2>1. <<m, j>> = <<n, k>>
    BY <1>4, <1>5, <1>11, Zenon
  <2> QED
    BY <2>1, Zenon
<1>12. Alone'
  BY <1>4, <1>7, <1>8, Zenon DEF Alone
<1> QED
  BY <1>9, <1>10, <1>11, <1>12, Zenon DEF Solo

-----------------------------------------------------------------------------
(* The refinement of JobLife *)

(* The stage of the life that each status stands for.                      *)
LEMMA StageValues ==
    /\ Stage("absent") = "none"
    /\ Stage("queued") = "waiting" /\ Stage("preempted") = "waiting"
    /\ Stage("scheduled") = "placed" /\ Stage("running") = "placed"
    /\ Stage("failed") = "done"
BY Zenon DEF Stage, IsActive, IsTerminal

(* A step that changes one job's row, and no capacity, changes that job's  *)
(* life as its new status says.                                            *)
LEMMA LifeChanges ==
    ASSUME jobs \in [Job -> JobRow], jobs' \in [Job -> JobRow], NEW j \in Job,
           \A k \in Job \ {j} : jobs'[k] = jobs[k],
           \A n \in Node : nodes'[n].cap = nodes[n].cap,
           NEW l, NEW m, l = Stage(jobs'[j].status),
           m = IF IsActive(jobs'[j].status) THEN jobs'[j].node ELSE NoNode
    PROVE  Promise!Changes(j, l, m)
BY Zenon DEF Promise!Changes

(* A step that leaves the jobs' stages, places and the capacities alone    *)
(* is a stutter.                                                           *)
LEMMA LifeStutters ==
    ASSUME \A k \in Job : jobs'[k] = jobs[k] \/ (/\ Stage(jobs'[k].status) = Stage(jobs[k].status)
                                                 /\ ~ IsActive(jobs[k].status)
                                                 /\ ~ IsActive(jobs'[k].status)),
           \A n \in Node : nodes'[n].cap = nodes[n].cap
    PROVE  UNCHANGED Promise!promise
BY Zenon DEF Promise!promise

(* What the engine does to a job's row is a step of the job's life.        *)
LEMMA EngineLives ==
    ASSUME LifeInv, LifeInv', EngineNext
    PROVE  Promise!LifeNext \/ UNCHANGED Promise!promise
<1>0. /\ EngineInv /\ jobs \in [Job -> JobRow] /\ jobs' \in [Job -> JobRow]
      /\ tick \in TickState
      /\ QueueWaits /\ VictimsApart /\ LostFresh
  BY Zenon DEF LifeInv, TypeInv, EngineInv, StoreTypeOK, EngineTypeOK
<1>1. \A n \in Node : nodes'[n].cap = nodes[n].cap
  BY <1>0, EngineWrites, Zenon
<1>2. \A s \in {"failed", "queued", "preempted"} : s \in JobStatus
  BY Zenon DEF JobStatus
<1>3. CASE jobs' = jobs
  BY <1>1, <1>3, LifeStutters, Zenon
<1>4. ASSUME RequeueLost, jobs' # jobs PROVE Promise!LifeNext
  <2>1. PICK row \in tick.lost :
          /\ row.job \in Job
          /\ jobs' = IF Exhausted(row) THEN UpdateStatus(row.job, "failed")
                                       ELSE Requeue(row.job, "queued")
    BY <1>0, <1>4, RequeueEffect, Zenon
  <2> DEFINE j == row.job
  <2>2. IsActive(jobs[j].status)
    BY <1>0, Zenon DEF LostFresh
  <2>3. \A k \in Job \ {j} : jobs'[k] = jobs[k]
    BY <1>0, <1>2, <2>1, UpdateEffect, RequeueRow
  <2>4. CASE Exhausted(row)
    <3>1. jobs'[j].status = "failed"
      BY <1>0, <1>2, <2>1, <2>4, UpdateEffect, Zenon
    <3>2. Promise!Changes(j, "done", NoNode)
      BY <1>0, <1>1, <2>1, <2>3, <3>1, LifeChanges, StageValues, Zenon DEF IsActive
    <3>3. Promise!End(j)
      BY <2>1, <2>2, <3>2, StageValues, Zenon DEF Promise!End, IsActive
    <3> QED
      BY <2>1, <3>3, Zenon DEF Promise!LifeNext
  <2>5. CASE ~ Exhausted(row)
    <3>1. jobs'[j].status = "queued"
      BY <1>0, <1>2, <2>1, <2>5, RequeueRow, Zenon
    <3>2. Promise!Changes(j, "waiting", NoNode)
      BY <1>0, <1>1, <2>1, <2>3, <3>1, LifeChanges, StageValues, Zenon DEF IsActive
    <3>3. Promise!Withdraw(j)
      BY <2>1, <2>2, <3>2, StageValues, Zenon DEF Promise!Withdraw, IsActive
    <3> QED
      BY <2>1, <3>3, Zenon DEF Promise!LifeNext
  <2> QED
    BY <2>4, <2>5, Zenon
<1>5. ASSUME NEW j \in Job, NEW n \in Node, CommitPlacement(j, n), jobs' # jobs
      PROVE  Promise!LifeNext
  <2>1. jobs' = Schedule(j, n) /\ tick.phase \in {"place", "replace"} /\ j \in tick.pending
    BY <1>0, <1>5, CommitEffect, Zenon
  <2>2. jobs[j].status = "queued"
    BY <1>0, <2>1, Zenon DEF QueueWaits
  <2>3. /\ \A k \in Job \ {j} : jobs'[k] = jobs[k]
        /\ jobs'[j].status = "scheduled" /\ jobs'[j].node = n
    BY <1>0, <2>1, ScheduleEffect, Zenon
  <2>4. Promise!Changes(j, "placed", n)
    BY <1>0, <1>1, <2>3, LifeChanges, StageValues, Zenon DEF IsActive
  <2>5. Promise!Assign(j, n)
    BY <2>2, <2>4, StageValues, Zenon DEF Promise!Assign
  <2> QED
    BY <2>5, Zenon DEF Promise!LifeNext
<1>6. ASSUME NEW v \in Job, EvictVictim(v) \/ ReturnVictim(v), jobs' # jobs
      PROVE  Promise!LifeNext \/ UNCHANGED Promise!promise
  <2>1. v \in tick.victims /\ jobs' \in {Requeue(v, "preempted"), UpdateStatus(v, "queued")}
    BY <1>0, <1>6, EvictEffect, ReturnEffect, Zenon DEF NextVictim
  <2>2. /\ \A k \in Job \ {v} : jobs'[k] = jobs[k]
        /\ jobs'[v].status \in {"queued", "preempted"}
    BY <1>0, <1>2, <2>1, UpdateEffect, RequeueRow
  <2>3. Alive(v)
    BY <1>0, <2>1, Zenon DEF VictimsApart
  <2>4. CASE IsActive(jobs[v].status)
    <3>1. Promise!Changes(v, "waiting", NoNode)
      BY <1>0, <1>1, <2>2, LifeChanges, StageValues, Zenon DEF IsActive
    <3>2. Promise!Withdraw(v)
      BY <2>4, <3>1, StageValues, Zenon DEF Promise!Withdraw, IsActive
    <3> QED
      BY <3>2, Zenon DEF Promise!LifeNext
  <2>5. CASE ~ IsActive(jobs[v].status)
    BY <1>1, <2>2, <2>3, <2>5, LifeStutters, StageValues, Zenon DEF IsActive, Alive
  <2> QED
    BY <2>4, <2>5, Zenon
<1> QED
  BY <1>3, <1>4, <1>5, <1>6, JobWriters, Zenon

(* What users and agents do is a submission, a change of a machine's size, *)
(* or nothing.                                                             *)
LEMMA OthersLives ==
    ASSUME LifeInv, LifeInv', Users \/ Agents \/ UNCHANGED vars
    PROVE  Promise!LifeNext \/ UNCHANGED Promise!promise
<1>0. /\ TypeInv /\ StoreTypeOK /\ jobs \in [Job -> JobRow] /\ jobs' \in [Job -> JobRow]
      /\ nodes \in [Node -> NodeRow] /\ nodes' \in [Node -> NodeRow]
  BY Zenon DEF LifeInv, TypeInv, EngineInv, StoreTypeOK
<1>1. CASE Users
  <2>1. \A n \in Node : nodes'[n].cap = nodes[n].cap
    BY <1>0, <1>1, UserStep, Zenon DEF Users
  <2>2. CASE jobs' = jobs
    BY <2>1, <2>2, LifeStutters, Zenon
  <2>3. CASE jobs' # jobs
    <3>1. PICK j \in Job : jobs[j].status = "absent" /\ jobs' = Create(j)
      BY <1>0, <1>1, <2>3, OthersEffect, Zenon
    <3>2. /\ \A k \in Job \ {j} : jobs'[k] = jobs[k]
          /\ jobs'[j].status = "queued"
      BY <1>0, <3>1, CreateEffect, Zenon
    <3>3. Promise!Changes(j, "waiting", NoNode)
      BY <1>0, <2>1, <3>2, LifeChanges, StageValues, Zenon DEF IsActive
    <3>4. Promise!Enter(j)
      BY <3>1, <3>3, StageValues, Zenon DEF Promise!Enter
    <3> QED
      BY <3>4, Zenon DEF Promise!LifeNext
  <2> QED
    BY <2>2, <2>3, Zenon
<1>2. CASE Agents
  <2>1. PICK n \in Node : Register(n) \/ SendHeartbeat(n) \/ HeartbeatLapse(n) \/ AgentExit(n)
    BY <1>2, Zenon DEF Agents
  <2>2. jobs' = jobs
    BY <2>1, Zenon DEF Register, SendHeartbeat, HeartbeatLapse, AgentExit, store
  <2>3. \A m \in Node \ {n} : nodes'[m].cap = nodes[m].cap
    <3>1. CASE Register(n)
      BY <1>0, <3>1, Zenon DEF Register, Upsert
    <3>2. CASE SendHeartbeat(n)
      BY <1>0, <3>2, HeartbeatType, Zenon DEF SendHeartbeat
    <3>3. CASE HeartbeatLapse(n)
      BY <1>0, <3>3, Zenon DEF HeartbeatLapse
    <3>4. CASE AgentExit(n)
      BY <3>4, Zenon DEF AgentExit, store
    <3> QED
      BY <2>1, <3>1, <3>2, <3>3, <3>4, Zenon
  <2>4. nodes'[n].cap \in Vec
    BY <1>0, Zenon DEF NodeRow
  <2>5. Promise!Resize(n)
    BY <2>2, <2>3, <2>4, Zenon DEF Promise!Resize, Promise!Vec, Promise!Dim, Vec, Dim
  <2> QED
    BY <2>5, Zenon DEF Promise!LifeNext
<1>3. CASE UNCHANGED vars
  BY <1>3, LifeStutters, Zenon DEF vars, store
<1> QED
  BY <1>1, <1>2, <1>3, Zenon

(* Initially no job is known and no machine has a size.                    *)
LEMMA LifeStarts == Init => Promise!LifeInit
BY StageValues
   DEF Init, StoreInit, NoJobRow, NoNodeRow, IsActive, Dim, Promise!LifeInit, Promise!Dim

(* Every step is a step of the jobs' lives, or a stutter.                  *)
LEMMA LifeLives ==
    ASSUME LifeInv, LifeInv', [Next]_vars
    PROVE  Promise!LifeNext \/ UNCHANGED Promise!promise
<1>1. CASE Engines
  BY <1>1, EngineLives, Zenon DEF Engines
<1>2. CASE Users \/ Agents \/ UNCHANGED vars
  BY <1>2, OthersLives, Zenon
<1> QED
  BY <1>1, <1>2, Zenon DEF Next

-----------------------------------------------------------------------------
(* The refinement of AllocationSpec *)

(* A job's life says whether it is on a node.                              *)
LEMMA StageActive ==
    ASSUME NEW s \in JobStatus, Stage(s) = "waiting"
    PROVE  ~ IsActive(s)
<1>1. ASSUME IsActive(s) PROVE Stage(s) = "placed"
  BY <1>1, StageValues, Zenon DEF IsActive
<1> QED
  BY <1>1, Zenon

(* JobLife counts as the tables do.                                        *)
LEMMA SameCount == ASSUME NEW S PROVE Promise!Cardinality(S) = Cardinality(S)
BY Zenon DEF Cardinality, Promise!Cardinality

(* Whoever is placed without overcommitting the node had room there.       *)
LEMMA RoomBefore ==
    ASSUME TypeInv, TotalsAdd, NoOvercommit',
           NEW j \in Job, NEW n \in Node, Promise!Assign(j, n)
    PROVE  Promise!HasRoom(n, j)
<1> DEFINE at(k) == IF IsActive(jobs[k].status) THEN jobs[k].node ELSE NoNode
<1>0. jobs \in [Job -> JobRow] /\ nodes \in [Node -> NodeRow]
  BY Zenon DEF TypeInv, EngineInv, StoreTypeOK
<1>1. /\ Stage(jobs[j].status) = "waiting"
      /\ at(j)' = n /\ \A k \in Job \ {j} : at(k)' = at(k)
      /\ nodes'[n].cap = nodes[n].cap
  BY Zenon DEF Promise!Assign, Promise!Changes
<1>2. ~ IsActive(jobs[j].status)
  <2>1. jobs[j].status \in JobStatus
    BY <1>0, Zenon DEF JobRow
  <2> QED
    BY <1>1, <2>1, StageActive, Zenon
<1>3. NoNode # n
  BY NodeAssumption, Zenon
<1>4. /\ Occupants(n) = {k \in Job : at(k) = n}
      /\ Occupants(n)' = {k \in Job : at(k)' = n}
  BY <1>3, Zenon DEF Occupants
<1>5. Occupants(n)' = Occupants(n) \cup {j} /\ j \notin Occupants(n)
  BY <1>1, <1>2, <1>4, Zenon DEF Occupants
<1>6. Promise!Residents(n) = Occupants(n)
  BY <1>4, Zenon DEF Promise!Residents
<1>7. ASSUME NEW d \in Dim
      PROVE  Promise!Total(d, Occupants(n)) + Request[j][d] <= nodes[n].cap[d]
  <2>1. Used(n, d)' = Total(d, Occupants(n)')
    BY Zenon DEF Used, Total, Units
  <2>2. Total(d, Occupants(n) \cup {j}) = Total(d, Occupants(n)) + Request[j][d]
    BY <1>5, UsedType, TotalAdd, Zenon
  <2>3. Used(n, d)' <= nodes'[n].cap[d]
    BY Zenon DEF NoOvercommit
  <2>4. Promise!Total(d, Occupants(n)) = Total(d, Occupants(n))
    BY SameCount, Zenon DEF Total, Units, Promise!Total, Promise!Units
  <2> QED
    BY <1>1, <1>5, <2>1, <2>2, <2>3, <2>4, Zenon
<1> QED
  BY <1>6, <1>7, Zenon DEF Promise!HasRoom, Promise!Dim, Dim

(* A turn of the whole loop is a step of the jobs' promised lives, and     *)
(* places a job only where it has room.                                    *)
LEMMA TurnsAllocate ==
    ASSUME Undisturbed, TurnsInv, TurnsInv', ClusterNext
    PROVE  Promise!AllocationNext \/ UNCHANGED Promise!promise
<1>0. /\ LifeInv /\ LifeInv' /\ TypeInv /\ TotalsAdd /\ NoOvercommit' /\ Solo'
      /\ jobs \in [Job -> JobRow] /\ jobs' \in [Job -> JobRow]
  BY Zenon DEF TurnsInv, TablesOK, LifeInv, TypeInv, EngineInv, StoreTypeOK
<1>1. CASE Engines \/ Users \/ Agents
  <2>1. Promise!LifeNext \/ UNCHANGED Promise!promise
    BY <1>0, <1>1, LifeLives, Zenon DEF Next
  <2>2. ASSUME NEW j \in Job, NEW n \in Node, Promise!Assign(j, n)
        PROVE  Promise!HasRoom(n, j)
    BY <1>0, <2>2, RoomBefore, Zenon
  <2> QED
    BY <2>1, <2>2, Zenon DEF Promise!LifeNext, Promise!AllocationNext
<1>2. ASSUME jobs' = jobs, \A n \in Node : nodes'[n].cap = nodes[n].cap
      PROVE  UNCHANGED Promise!promise
  BY <1>2, LifeStutters, Zenon
<1>3. ASSUME NEW n \in Node, up[n], UNCHANGED <<membership, tick>>, NEW j \in Job, ReportStep(n, j)
      PROVE  Promise!AllocationNext \/ UNCHANGED Promise!promise
  <2>1. /\ \A m \in Node : nodes'[m].cap = nodes[m].cap
        /\ \/ jobs' = jobs
           \/ jobs[j].status = "scheduled" /\ jobs' = UpdateStatus(j, "running")
           \/ \E s \in Result : jobs[j].status = "running" /\ jobs' = UpdateStatus(j, s)
    BY <1>0, <1>3, ReportTurn, Zenon
  <2>2. "running" \in JobStatus /\ Result \subseteq JobStatus
    BY Zenon DEF JobStatus, Result
  <2>3. CASE jobs[j].status = "scheduled" /\ jobs' = UpdateStatus(j, "running")
    <3>1. /\ \A k \in Job \ {j} : jobs'[k] = jobs[k]
          /\ jobs'[j].status = "running" /\ jobs'[j].node = jobs[j].node
      BY <1>0, <2>2, <2>3, UpdateEffect, Zenon
    <3>2. \A k \in Job : /\ Stage(jobs'[k].status) = Stage(jobs[k].status)
                         /\ IsActive(jobs'[k].status) <=> IsActive(jobs[k].status)
                         /\ jobs'[k].node = jobs[k].node
      BY <2>3, <3>1, StageValues, Zenon DEF IsActive
    <3> QED
      BY <2>1, <3>2, Zenon DEF Promise!promise
  <2>4. ASSUME NEW s \in Result, jobs[j].status = "running", jobs' = UpdateStatus(j, s)
        PROVE  Promise!End(j)
    <3>1. /\ \A k \in Job \ {j} : jobs'[k] = jobs[k]
          /\ jobs'[j].status = s
      BY <1>0, <2>2, <2>4, UpdateEffect, Zenon
    <3>2. Stage(s) = "done" /\ ~ IsActive(s)
      BY Zenon DEF Stage, IsActive, IsTerminal, Result
    <3>3. Promise!Changes(j, "done", NoNode)
      BY <1>0, <2>1, <3>1, <3>2, LifeChanges, Zenon
    <3>4. Stage(jobs[j].status) = "placed"
      BY <2>4, StageValues, Zenon
    <3> QED
      BY <3>3, <3>4, Zenon DEF Promise!End
  <2> QED
    BY <1>2, <2>1, <2>3, <2>4, Zenon DEF Promise!AllocationNext
<1>4. ASSUME NEW n \in Node, up[n], UNCHANGED <<membership, tick>>,
             Poll(n) \/ \E j \in Job : Claim(n, j) \/ \E r \in Result : Finish(n, j, r)
      PROVE  UNCHANGED Promise!promise
  BY <1>0, <1>2, <1>4, HandlingTurn, Zenon
<1> QED
  BY <1>1, <1>3, <1>4, Turns, Zenon

-----------------------------------------------------------------------------
(* The control plane *)

(* The platform keeps its promise about a job's life: whatever statements  *)
(* fail or are applied although reported as failed, wherever a tick stops, *)
(* and whoever is preempted, no job is placed twice, moved without waiting *)
(* in between, or taken back from a terminal status.                       *)
THEOREM JobLifeImplemented == Spec => ImplementsJobLife
<1>0. Init => LifeInv
  BY LifeInit, TotalsAddUp, Zenon
<1>1. LifeInv /\ LifeInv' /\ [Next]_vars => [Promise!LifeNext]_(Promise!promise)
  BY LifeLives, Zenon
<1> QED
  BY <1>0, <1>1, LifeStarts, LifeStep, PTL DEF Spec, ImplementsJobLife, Promise!LifeSpec

(* As long as machines keep their size, no statement fails and preemption  *)
(* is off: what a node row advertises between ticks is never held by an    *)
(* active job, and until the first node is lost it is all that is free.    *)
THEOREM NothingSoldTwiceCorrect ==
    ASSUME FixedCapacity, MaxFaults = 0, ~ EnablePreemption
    PROVE  Spec => []NothingSoldTwice
<1>1. LedgerInv => NothingSoldTwice
  <2> SUFFICES ASSUME LedgerInv, tick.phase = "idle", NEW n \in Node, NEW d \in Dim
               PROVE  /\ nodes[n].avail[d] + Used(n, d) <= nodes[n].cap[d]
                      /\ outages = 0 => nodes[n].avail[d] + Used(n, d) = nodes[n].cap[d]
    BY Zenon DEF NothingSoldTwice
  <2>1. Free(n) = nodes[n].avail
    BY Zenon DEF Free
  <2> QED
    BY <2>1, Zenon DEF LedgerInv, SoldOnce, NoneLost
<1>2. LedgerInv /\ [Next]_vars => LedgerInv'
  BY LedgerStep, Zenon
<1>3. Init => LedgerInv
  BY LedgerInit, TotalsAddUp, Zenon
<1> QED
  BY <1>1, <1>2, <1>3, PTL DEF Spec

(* Under the same conditions the jobs on a node never need more than it    *)
(* has, also in the middle of a tick that places them from its own view,   *)
(* and however nodes are lost, return and register again.                  *)
THEOREM NoOvercommitCorrect ==
    ASSUME FixedCapacity, MaxFaults = 0, ~ EnablePreemption
    PROVE  Spec => []NoOvercommit
<1>1. LedgerInv => NoOvercommit
  BY LedgerFits, Zenon
<1>2. LedgerInv /\ [Next]_vars => LedgerInv'
  BY LedgerStep, Zenon
<1>3. Init => LedgerInv
  BY LedgerInit, TotalsAddUp, Zenon
<1> QED
  BY <1>1, <1>2, <1>3, PTL DEF Spec

(* Under the same conditions the platform places a job only where it fits  *)
(* beside the jobs already there, although the engine decides on a view    *)
(* that it read at the start of the tick.                                  *)
THEOREM AllocationImplemented ==
    ASSUME FixedCapacity, MaxFaults = 0, ~ EnablePreemption
    PROVE  Spec => ImplementsAllocation
<1>1. LedgerInv /\ [Next]_vars => LedgerInv'
  BY LedgerStep, Zenon
<1>2. LedgerInv => NoOvercommit
  BY LedgerFits, Zenon
<1>3. Init => Promise!LifeInit
  BY LifeStarts, Zenon
<1>4. /\ LedgerInv /\ LedgerInv' /\ NoOvercommit' /\ [Next]_vars
      => [Promise!AllocationNext]_(Promise!promise)
  <2> SUFFICES ASSUME LedgerInv, LedgerInv', NoOvercommit', [Next]_vars
               PROVE  Promise!AllocationNext \/ UNCHANGED Promise!promise
    BY Zenon
  <2>1. LifeInv /\ LifeInv' /\ TypeInv /\ TotalsAdd
    BY Zenon DEF LedgerInv, LifeInv
  <2>2. Promise!LifeNext \/ UNCHANGED Promise!promise
    BY <2>1, LifeLives, Zenon
  <2>3. ASSUME NEW j \in Job, NEW n \in Node, Promise!Assign(j, n)
        PROVE  Promise!HasRoom(n, j)
    BY <2>1, <2>3, RoomBefore, Zenon
  <2> QED
    BY <2>2, <2>3, Zenon DEF Promise!LifeNext, Promise!AllocationNext
<1>5. Init => LedgerInv
  BY LedgerInit, TotalsAddUp, Zenon
<1> QED
  BY <1>1, <1>2, <1>3, <1>4, <1>5, PTL
     DEF Spec, ImplementsAllocation, Promise!AllocationSpec

-----------------------------------------------------------------------------
(* The whole loop, taking turns *)

(* Every turn keeps the invariant.                                         *)
LEMMA TurnsTaken ==
    ASSUME Undisturbed, TurnsInv, ClusterNext, InProgress' <= 1
    PROVE  TurnsInv'
<1>1. Solo'
  BY TakingTurns, Zenon
<1> QED
  BY <1>1, TurnsStep, Zenon

(* nodes.go, "so the persisted view matches reservations": if ticks, polls *)
(* and handlers take turns, and as long as machines keep their size, no    *)
(* statement fails, no machine is lost, preemption is off and nobody       *)
(* cancels, then whenever nothing is in progress the availability of every *)
(* node is its capacity less what its scheduled and running jobs hold.     *)
THEOREM IsolatedLedgerMatches ==
    ASSUME Undisturbed
    PROVE  IsolatedSpec => []LedgerMatches
<1>1. ClusterInit => TurnsInv
  BY TurnsInit, TotalsAddUp, Zenon
<1>2. TurnsInv /\ [ClusterNext /\ InProgress' <= 1]_cluster => TurnsInv'
  BY TurnsTaken, TurnsStutter, Zenon
<1>3. TurnsInv => LedgerMatches
  <2> SUFFICES ASSUME TurnsInv, Quiet, NEW n \in Node, NEW d \in Dim
               PROVE  nodes[n].avail[d] + Used(n, d) = nodes[n].cap[d]
    BY Zenon DEF LedgerMatches
  <2>1. tick.phase = "idle" /\ \A m \in Node, j \in Job : ~ Working(exec[m][j])
    BY Zenon DEF Quiet
  <2>2. Free(n) = nodes[n].avail /\ Held(n) = Occupants(n)
    BY <2>1, TickLedger, Zenon DEF Free
  <2> QED
    BY <2>2, Zenon DEF TurnsInv, Balanced, Used
<1> QED
  BY <1>1, <1>2, <1>3, PTL DEF IsolatedSpec

(* Under the same conditions the whole loop, executors and their reports   *)
(* included, keeps the stronger promise: no job is placed where it does    *)
(* not fit beside the jobs there, moved without waiting in between, or     *)
(* ended twice.                                                            *)
THEOREM IsolatedAllocationImplemented ==
    ASSUME Undisturbed
    PROVE  IsolatedSpec => ImplementsAllocation
<1>1. ClusterInit => TurnsInv
  BY TurnsInit, TotalsAddUp, Zenon
<1>2. TurnsInv /\ [ClusterNext /\ InProgress' <= 1]_cluster => TurnsInv'
  BY TurnsTaken, TurnsStutter, Zenon
<1>3. ClusterInit => Promise!LifeInit
  BY LifeStarts, Zenon DEF ClusterInit
<1>4. /\ TurnsInv /\ TurnsInv' /\ [ClusterNext /\ InProgress' <= 1]_cluster
      => [Promise!AllocationNext]_(Promise!promise)
  <2> SUFFICES ASSUME TurnsInv, TurnsInv', [ClusterNext /\ InProgress' <= 1]_cluster
               PROVE  Promise!AllocationNext \/ UNCHANGED Promise!promise
    BY Zenon
  <2>1. CASE UNCHANGED cluster
    <3>1. jobs' = jobs /\ nodes' = nodes
      BY <2>1, Zenon DEF cluster, vars, store
    <3> QED
      BY <3>1, LifeStutters, Zenon
  <2> QED
    BY <2>1, TurnsAllocate, Zenon
<1> QED
  BY <1>1, <1>2, <1>3, <1>4, PTL DEF IsolatedSpec, ImplementsAllocation, Promise!AllocationSpec

(* job.go, a terminal status "is a final state that will not change", of   *)
(* verdicts: if ticks, polls, reports and cancellations take turns, no     *)
(* machine is lost and preemption is off, a job that is completed or       *)
(* failed stays so, whichever statements fail or take effect although they *)
(* are reported as failed, whoever cancels, cordons or registers again     *)
(* with another size.  Interleaved, a client that read the row before the  *)
(* job ended overwrites its verdict.                                       *)
THEOREM IsolatedVerdictsFinal ==
    ASSUME ~ EnablePreemption, MaxOutages = 0
    PROVE  IsolatedSpec => VerdictsFinal
<1>1. ClusterInit => FinalInv
  BY FinalInit, TotalsAddUp, Zenon
<1>2. /\ FinalInv /\ [ClusterNext /\ InProgress' <= 1]_cluster
      => FinalInv' /\ VerdictsStay
  <2>1. ASSUME FinalInv, ClusterNext, InProgress' <= 1
        PROVE  FinalInv' /\ VerdictsStay
    <3>1. Alone'
      BY <2>1, TakingTurns, Zenon
    <3> QED
      BY <2>1, <3>1, FinalStep, Zenon
  <2> QED
    BY <2>1, FinalStutter, Zenon
<1>3. VerdictsStay =>
         [\A j \in Job : jobs[j].status \in Result => jobs'[j].status = jobs[j].status]_cluster
  BY Zenon DEF VerdictsStay
<1> QED
  BY <1>1, <1>2, <1>3, PTL DEF IsolatedSpec, VerdictsFinal
=============================================================================
