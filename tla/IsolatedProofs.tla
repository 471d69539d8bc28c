--------------------------- MODULE IsolatedProofs ---------------------------
(***************************************************************************)
(* The executors' part when ticks, polls and handlers take turns: what is  *)
(* held and what is free, and what a report gives back.                    *)
(***************************************************************************)
EXTENDS ControlPlaneProofs, Isolated

-----------------------------------------------------------------------------
(* The whole loop, taking turns *)

(* Isolated, where nothing fails, no machine is lost and nobody cancels:   *)
(* what is left is submission, placement and execution.                    *)
Undisturbed ==
    /\ FixedCapacity /\ ~ EnablePreemption
    /\ MaxFaults = 0 /\ MaxOutages = 0 /\ Client = {}

(* The jobs whose report has given their resources back already, and those *)
(* that still hold them.                                                   *)
Returned(n) == {j \in Job : exec[n][j].phase = "final"}

Held(n) == Occupants(n) \ Returned(n)

Balanced == \A n \in Node, d \in Dim : Free(n)[d] + Total(d, Held(n)) = nodes[n].cap[d]

(* An executor works on a job that is its own, and its copy of the node's  *)
(* availability is current.                                                *)
Assigned(n, j, s) == jobs[j].status = s /\ jobs[j].node = n /\ up[n]

CallOK(n, j) ==
    /\ exec[n][j].phase \in {"start", "mark"} => Assigned(n, j, "scheduled")
    /\ exec[n][j].phase \in {"work", "fetch", "load", "free", "final"} => Assigned(n, j, "running")
    /\ exec[n][j].phase \in {"fetch", "load", "free", "final"} => exec[n][j].result \in Result
    /\ exec[n][j].phase \in {"load", "free"} => exec[n][j].on = n
    /\ exec[n][j].phase = "free" => exec[n][j].avail = Release(nodes[n], Request[j]).avail

CallsOK == \A n \in Node, j \in Job : CallOK(n, j)

InboxesOK == \A n \in Node : \A j \in inbox[n] : Assigned(n, j, "scheduled")

(* At most one tick, poll or call is under way.                            *)
Solo ==
    /\ tick.phase # "idle" =>
          \A n \in Node : inbox[n] = {} /\ \A j \in Job : ~ Working(exec[n][j])
    /\ (\E n \in Node : inbox[n] # {}) => \A n \in Node, j \in Job : ~ Working(exec[n][j])
    /\ \A m, n \in Node, j, k \in Job :
          Working(exec[m][j]) /\ Working(exec[n][k]) => m = n /\ j = k

TablesOK ==
    /\ RangeInv /\ LifeInv /\ NoEvictions
    /\ ViewCurrent /\ ViewKnown /\ AbsentEmpty /\ AllUp /\ NoOvercommit

TurnsInv == TablesOK /\ ExecutionTypeOK /\ CallsOK /\ InboxesOK /\ Balanced /\ Solo

(* A step that writes no table keeps what holds of the tables.             *)
LEMMA TablesKept ==
    ASSUME FixedCapacity, TablesOK, UNCHANGED vars
    PROVE  TablesOK'
<1>1. RangeInv' /\ LifeInv'
  BY RangeStep, LifeStep, Zenon DEF TablesOK
<1>2. jobs' = jobs /\ nodes' = nodes /\ up' = up /\ outages' = outages /\ tick' = tick
  BY Zenon DEF vars, store, membership
<1>3. \A n \in Node : Free(n)' = Free(n) /\ Occupants(n)' = Occupants(n)
  BY <1>2, Zenon DEF Free, Occupants
<1>4. NoEvictions' /\ AbsentEmpty' /\ AllUp'
  BY <1>2, Zenon DEF TablesOK, NoEvictions, AbsentEmpty, AllUp
<1>5. ViewCurrent' /\ ViewKnown'
  BY <1>2, <1>3, Zenon DEF TablesOK, ViewCurrent, ViewKnown, Listed
<1>6. NoOvercommit'
  BY <1>2, <1>3, UsedKept, Zenon DEF TablesOK, NoOvercommit
<1> QED
  BY <1>1, <1>4, <1>5, <1>6, Zenon DEF TablesOK

(* Nor does one between ticks that adds no active job and leaves no        *)
(* availability above the capacity.                                        *)
LEMMA IdleTables ==
    ASSUME TablesOK, StoreTypeOK', tick.phase = "idle", UNCHANGED <<tick, membership>>,
           \A n \in Node : /\ nodes'[n].cap = nodes[n].cap /\ nodes'[n].status = nodes[n].status
                           /\ nodes'[n].fresh = nodes[n].fresh
                           /\ \A d \in Dim : nodes'[n].avail[d] <= nodes[n].cap[d]
                           /\ nodes[n].status = "absent" => nodes'[n].avail = nodes[n].avail
                           /\ Occupants(n)' \subseteq Occupants(n)
    PROVE  TablesOK'
<1> TotalsAdd
  BY Zenon DEF TablesOK, LifeInv
<1>0. /\ TypeInv /\ Bounded /\ CapacityKnown /\ tick = Idle
      /\ NoOvercommit /\ AbsentEmpty /\ AllUp
      /\ nodes \in [Node -> NodeRow] /\ jobs \in [Job -> JobRow]
  BY Zenon DEF TablesOK, RangeInv, LifeInv, Filled, TypeInv, EngineInv, StoreTypeOK
<1>1. tick' = tick /\ up' = up /\ outages' = outages /\ tick' = Idle /\ tick'.phase = "idle"
  BY <1>0, Zenon DEF membership
<1>2. TypeInv'
  BY <1>0, <1>1, Zenon DEF TypeInv, EngineInv, EngineTypeOK, TargetOK, MembershipTypeOK
<1>3. RangeInv'
  BY <1>0, <1>1, <1>2, Zenon DEF RangeInv, Bounded, CapacityKnown
<1>4. LifeInv'
  <2>1. Filled' /\ TotalsAdd'
    BY <1>1, IdleFields, TotalsConstant, Zenon DEF Filled
  <2>2. QueueWaits' /\ RunningApart' /\ VictimsApart' /\ LostFresh'
    BY <1>1, IdleFields, Zenon DEF QueueWaits, RunningApart, VictimsApart, LostFresh
  <2> QED
    BY <1>2, <2>1, <2>2, Zenon DEF LifeInv
<1>5. NoEvictions' /\ ViewCurrent' /\ ViewKnown'
  BY <1>1, Zenon DEF NoEvictions, ViewCurrent, ViewKnown, Listed
<1>6. AbsentEmpty' /\ AllUp'
  BY <1>0, <1>1 DEF AbsentEmpty, AllUp
<1>7. NoOvercommit'
  <2> SUFFICES ASSUME NEW n \in Node, NEW d \in Dim PROVE Used(n, d)' <= nodes'[n].cap[d]
    BY Zenon DEF NoOvercommit
  <2>1. Occupants(n) \in SUBSET Job /\ Occupants(n)' \in SUBSET Occupants(n)
    BY Zenon DEF Occupants
  <2>2. Total(d, Occupants(n)') <= Total(d, Occupants(n))
    BY <2>1, TotalMonotone, Zenon
  <2>3. Total(d, Occupants(n)') \in Nat /\ Total(d, Occupants(n)) \in Nat
    BY <2>1, TotalType, Zenon
  <2>4. Used(n, d)' = Total(d, Occupants(n)') /\ Used(n, d) = Total(d, Occupants(n))
    BY Zenon DEF Used, Total, Units
  <2>5. Used(n, d) <= nodes[n].cap[d] /\ nodes'[n].cap[d] = nodes[n].cap[d]
    BY <1>0, Zenon DEF NoOvercommit
  <2>6. nodes[n].cap[d] \in Nat
    BY <1>0, Zenon DEF NodeRow, Vec
  <2> QED
    BY <2>2, <2>3, <2>4, <2>5, <2>6
<1> QED
  BY <1>3, <1>4, <1>5, <1>6, <1>7, Zenon DEF TablesOK

(* The same holders hold the same.                                         *)
LEMMA BalanceKept ==
    ASSUME Balanced, \A n \in Node : /\ Free(n)' = Free(n) /\ Held(n)' = Held(n)
                                     /\ nodes'[n].cap = nodes[n].cap
    PROVE  Balanced'
<1>1. \A n \in Node, d \in Dim : Total(d, Held(n))' = Total(d, Held(n))
  BY Zenon DEF Total, Units
<1> QED
  BY <1>1, Zenon DEF Balanced

-----------------------------------------------------------------------------
(* The executors *)

(* With no faults to spend every statement succeeds.                       *)
LEMMA StatementSucceeds ==
    ASSUME MaxFaults = 0, faults \in 0..MaxFaults, NEW ok \in BOOLEAN, Statement(ok)
    PROVE  ok = TRUE /\ faults' = faults
BY DEF Statement

(* One statement of an UpdateJobStatus call, made for job j by an executor *)
(* in state o: what it leaves in the tables and the executor's next state. *)
Reported(j, o, e) ==
    \/ o.phase = "start" /\ e.phase = "mark" /\ UNCHANGED <<jobs, nodes>>
    \/ o.phase = "mark" /\ e.phase = "work" /\ jobs' = UpdateStatus(j, "running") /\ nodes' = nodes
    \/ /\ o.phase = "fetch" /\ e.result = o.result /\ e.on = jobs[j].node
       /\ e.phase = IF jobs[j].node = NoNode THEN "final" ELSE "load"
       /\ UNCHANGED <<jobs, nodes>>
    \/ /\ o.phase = "load" /\ e.phase = "free" /\ e.result = o.result /\ e.on = o.on
       /\ e.avail = Release(nodes[o.on], Request[j]).avail
       /\ UNCHANGED <<jobs, nodes>>
    \/ /\ o.phase = "free" /\ e.phase = "final" /\ e.result = o.result
       /\ jobs' = jobs /\ nodes' = UpdateAvailability(o.on, o.avail)
    \/ o.phase = "final" /\ e = NoExecutor /\ jobs' = UpdateStatus(j, o.result) /\ nodes' = nodes

(* Only the executor concerned goes on.                                    *)
Moves(n, j, e) ==
    /\ e \in Executor /\ exec' \in [Node -> [Job -> Executor]]
    /\ exec'[n][j] = e
    /\ \A m \in Node, k \in Job : (m # n \/ k # j) => exec'[m][k] = exec[m][k]

(* Which is what Continue does.                                            *)
LEMMA ContinueEffect ==
    ASSUME exec \in [Node -> [Job -> Executor]], NEW n \in Node, NEW j \in Job, NEW e \in Executor,
           Continue(n, j, e)
    PROVE  Moves(n, j, e)
BY Zenon DEF Continue, Moves

(* The state before an executor is started is well typed.                  *)
LEMMA NoExecutorType ==
    NoExecutor \in Executor /\ NoExecutor.phase = "none"
BY Zenon DEF NoExecutor, Executor, Vec

(* Without faults every step of a report is one of these statements.       *)
LEMMA ReportEffect ==
    ASSUME MaxFaults = 0, StoreTypeOK, exec \in [Node -> [Job -> Executor]],
           NEW n \in Node, NEW j \in Job, ReportStep(n, j),
           exec[n][j].phase = "load" => exec[n][j].on \in Node
    PROVE  /\ UNCHANGED <<events, clock, faults, inbox, ended>>
           /\ \E e \in Executor : Moves(n, j, e) /\ Reported(j, exec[n][j], e)
<1> DEFINE o == exec[n][j]
           Goal == /\ UNCHANGED <<events, clock, faults, inbox, ended>>
                   /\ \E e \in Executor : Moves(n, j, e) /\ Reported(j, o, e)
<1>0. /\ o \in Executor /\ faults \in 0..MaxFaults /\ jobs \in [Job -> JobRow]
      /\ nodes \in [Node -> NodeRow] /\ jobs[j].node \in Node \cup {NoNode}
  BY Zenon DEF StoreTypeOK, JobRow
<1>1. CASE StartReport(n, j)
  <2> DEFINE e == [o EXCEPT !.phase = "mark"]
  <2>1. /\ o.phase = "start" /\ Continue(n, j, e)
        /\ UNCHANGED <<jobs, nodes, events, clock, faults, inbox, ended>>
    BY <1>0, <1>1, StatementSucceeds, Zenon DEF StartReport
  <2>2. e \in Executor /\ e.phase = "mark"
    BY <1>0, Zenon DEF Executor
  <2>3. Moves(n, j, e)
    BY <2>1, <2>2, ContinueEffect, Zenon
  <2> HIDE DEF e
  <2>4. Reported(j, o, e)
    BY <2>1, <2>2, Zenon DEF Reported
  <2> QED
    BY <2>1, <2>2, <2>3, <2>4, Zenon
<1>2. CASE MarkRunning(n, j)
  <2> DEFINE e == [o EXCEPT !.phase = "work"]
  <2>1. /\ o.phase = "mark" /\ Continue(n, j, e) /\ jobs' = UpdateStatus(j, "running")
        /\ UNCHANGED <<nodes, events, clock, faults, inbox, ended>>
    BY <1>0, <1>2, StatementSucceeds, Zenon DEF MarkRunning, After
  <2>2. e \in Executor /\ e.phase = "work"
    BY <1>0, Zenon DEF Executor
  <2>3. Moves(n, j, e)
    BY <2>1, <2>2, ContinueEffect, Zenon
  <2> HIDE DEF e
  <2>4. Reported(j, o, e)
    BY <2>1, <2>2, Zenon DEF Reported
  <2> QED
    BY <2>1, <2>2, <2>3, <2>4, Zenon
<1>3. CASE FetchJob(n, j)
  <2> DEFINE e == [o EXCEPT !.on = jobs[j].node,
                            !.phase = IF jobs[j].node = NoNode THEN "final" ELSE "load"]
  <2>1. /\ o.phase = "fetch" /\ Continue(n, j, e)
        /\ UNCHANGED <<jobs, nodes, events, clock, faults, inbox, ended>>
    BY <1>0, <1>3, StatementSucceeds, Zenon DEF FetchJob
  <2>2. /\ e \in Executor /\ e.on = jobs[j].node /\ e.result = o.result
        /\ e.phase = IF jobs[j].node = NoNode THEN "final" ELSE "load"
    BY <1>0, Zenon DEF Executor
  <2>3. Moves(n, j, e)
    BY <2>1, <2>2, ContinueEffect, Zenon
  <2> HIDE DEF e
  <2>4. Reported(j, o, e)
    BY <2>1, <2>2, Zenon DEF Reported
  <2> QED
    BY <2>1, <2>2, <2>3, <2>4, Zenon
<1>4. CASE LoadNode(n, j)
  <2> DEFINE a == Release(nodes[o.on], Request[j]).avail
             e == [o EXCEPT !.avail = a, !.phase = "free"]
  <2>1. /\ o.phase = "load" /\ Continue(n, j, e)
        /\ UNCHANGED <<jobs, nodes, events, clock, faults, inbox, ended>>
    BY <1>0, <1>4, StatementSucceeds, Zenon DEF LoadNode
  <2>2. a \in Vec
    <3>1. nodes[o.on] \in NodeRow /\ Request[j] \in Vec
      BY <1>0, <2>1, JobAssumption, Zenon
    <3>2. Release(nodes[o.on], Request[j]) \in NodeRow
      BY <3>1, ReleaseType, Zenon
    <3> QED
      BY <3>2, Zenon DEF NodeRow
  <2> HIDE DEF a
  <2>3. /\ e \in Executor /\ e.on = o.on /\ e.result = o.result
        /\ e.phase = "free" /\ e.avail = a
    BY <1>0, <2>2, Zenon DEF Executor
  <2>4. Moves(n, j, e)
    BY <2>1, <2>3, ContinueEffect, Zenon
  <2> HIDE DEF e
  <2>5. Reported(j, o, e)
    BY <2>1, <2>3, Zenon DEF Reported, a
  <2> QED
    BY <2>1, <2>3, <2>4, <2>5, Zenon
<1>5. CASE FreeNode(n, j)
  <2> DEFINE e == [NoExecutor EXCEPT !.phase = "final", !.result = o.result]
  <2>1. /\ o.phase = "free" /\ Continue(n, j, e) /\ nodes' = UpdateAvailability(o.on, o.avail)
        /\ UNCHANGED <<jobs, events, clock, faults, inbox, ended>>
    BY <1>0, <1>5, StatementSucceeds, Zenon DEF FreeNode, After
  <2>2. e \in Executor /\ e.phase = "final" /\ e.result = o.result
    BY <1>0, NoExecutorType, Zenon DEF Executor
  <2>3. Moves(n, j, e)
    BY <2>1, <2>2, ContinueEffect, Zenon
  <2> HIDE DEF e
  <2>4. Reported(j, o, e)
    BY <2>1, <2>2, Zenon DEF Reported
  <2> QED
    BY <2>1, <2>2, <2>3, <2>4, Zenon
<1>6. CASE Finalize(n, j)
  <2>1. /\ o.phase = "final" /\ Continue(n, j, NoExecutor) /\ jobs' = UpdateStatus(j, o.result)
        /\ UNCHANGED <<nodes, events, clock, faults, inbox, ended>>
    BY <1>0, <1>6, StatementSucceeds, Zenon DEF Finalize, After
  <2>2. Moves(n, j, NoExecutor)
    BY <2>1, NoExecutorType, ContinueEffect, Zenon
  <2>3. Reported(j, o, NoExecutor)
    BY <2>1, Zenon DEF Reported
  <2> QED
    BY <2>1, <2>2, <2>3, NoExecutorType, Zenon
<1> QED
  BY <1>1, <1>2, <1>3, <1>4, <1>5, <1>6, Zenon DEF ReportStep

(* The calls of the other executors are not affected: none of them is for  *)
(* the same job, and none has read the node that is written.               *)
LEMMA Bystanders ==
    ASSUME CallsOK, ExecutionTypeOK, Solo, NEW n \in Node, NEW j \in Job, NEW e, Moves(n, j, e),
           exec[n][j].phase # "none", up' = up, \A k \in Job \ {j} : jobs'[k] = jobs[k],
           nodes' = nodes \/ Working(exec[n][j]), CallOK(n, j)'
    PROVE  CallsOK'
<1> SUFFICES ASSUME NEW m \in Node, NEW k \in Job, m # n \/ k # j PROVE CallOK(m, k)'
  BY Zenon DEF CallsOK
<1>1. exec'[m][k] = exec[m][k]
  BY Zenon DEF Moves
<1>2. exec[n][j] \in Executor /\ exec[m][k] \in Executor /\ CallOK(m, k) /\ CallOK(n, j)
  BY Zenon DEF CallsOK, ExecutionTypeOK
<1>3. CASE k = j
  <2>1. jobs[j].node = n
    BY <1>2, Zenon DEF CallOK, Assigned, Executor
  <2>2. exec[m][k].phase = "none"
    BY <1>2, <1>3, <2>1, Zenon DEF CallOK, Assigned, Executor
  <2> QED
    BY <1>1, <2>2, Zenon DEF CallOK
<1>4. CASE k # j
  <2>1. jobs'[k] = jobs[k]
    BY <1>4, Zenon
  <2>2. exec[m][k].phase = "free" => nodes' = nodes
    BY <1>4 DEF Solo, Working
  <2> QED
    BY <1>1, <1>2, <2>1, <2>2, Zenon DEF CallOK, Assigned
<1> QED
  BY <1>3, <1>4, Zenon

(* Polls, claims and the end of a workload write no table.                 *)
LEMMA HandlingTurn ==
    ASSUME Undisturbed, TurnsInv, NEW n \in Node, up[n], UNCHANGED <<membership, tick>>, Solo',
           \/ Poll(n)
           \/ \E j \in Job : Claim(n, j) \/ \E r \in Result : Finish(n, j, r)
    PROVE  TurnsInv' /\ jobs' = jobs /\ nodes' = nodes
<1>0. /\ TablesOK /\ ExecutionTypeOK /\ CallsOK /\ InboxesOK /\ Balanced /\ Solo
      /\ inbox \in [Node -> SUBSET Job] /\ exec \in [Node -> [Job -> Executor]]
      /\ ended \subseteq Job \X Result
  BY Zenon DEF TurnsInv, ExecutionTypeOK
<1>1. UNCHANGED store
  BY Zenon DEF Poll, Claim, Finish
<1>2. UNCHANGED vars /\ jobs' = jobs /\ nodes' = nodes /\ tick' = tick /\ up' = up
  BY <1>1, Zenon DEF vars, store, membership
<1>3. TablesOK'
  BY <1>0, <1>2, TablesKept, Zenon DEF Undisturbed
<1>4. ASSUME ExecutionTypeOK', InboxesOK',
             \A m \in Node, k \in Job :
                \/ exec'[m][k] = exec[m][k]
                \/ /\ exec[m][k].phase # "final" /\ exec'[m][k].phase # "final" /\ CallOK(m, k)'
      PROVE  TurnsInv'
  <2>1. CallsOK'
    <3> SUFFICES ASSUME NEW m \in Node, NEW k \in Job, exec'[m][k] = exec[m][k] PROVE CallOK(m, k)'
      BY <1>4, Zenon DEF CallsOK
    <3> QED
      BY <1>0, <1>2 DEF CallsOK, CallOK, Assigned
  <2>2. \A m \in Node : Returned(m)' = Returned(m) /\ Occupants(m)' = Occupants(m)
    BY <1>2, <1>4, Zenon DEF Returned, Occupants
  <2>3. \A m \in Node : Free(m)' = Free(m) /\ Held(m)' = Held(m)
    BY <1>2, <2>2, Zenon DEF Free, Held
  <2>4. Balanced'
    BY <1>0, <1>2, <2>3, BalanceKept, Zenon
  <2> QED
    BY <1>3, <1>4, <2>1, <2>4, Zenon DEF TurnsInv
<1>5. CASE Poll(n)
  <2>1. /\ inbox' = [inbox EXCEPT ![n] = ListScheduledForNode(n)] /\ exec' = exec /\ ended' = ended
        /\ ListScheduledForNode(n) \in SUBSET Job
    BY <1>5, Zenon DEF Poll, ListScheduledForNode
  <2>2. ExecutionTypeOK'
    BY <1>0, <2>1, Zenon DEF ExecutionTypeOK
  <2>3. InboxesOK'
    BY <1>0, <1>2, <2>1, Zenon DEF InboxesOK, Assigned, ListScheduledForNode
  <2> QED
    BY <1>2, <1>4, <2>1, <2>2, <2>3, Zenon
<1>6. ASSUME NEW j \in Job, Claim(n, j) PROVE TurnsInv'
  <2> DEFINE e == [NoExecutor EXCEPT !.phase = "start"]
  <2>1. /\ j \in inbox[n] /\ inbox' = [inbox EXCEPT ![n] = @ \ {j}] /\ ended' = ended
        /\ \/ exec' = exec
           \/ exec[n][j].phase = "none" /\ Continue(n, j, e)
    BY <1>6, Zenon DEF Claim
  <2>2. e \in Executor /\ e.phase = "start"
    BY NoExecutorType, Zenon DEF Executor
  <2>3. exec' = exec \/ (exec[n][j].phase = "none" /\ Moves(n, j, e))
    BY <1>0, <2>1, <2>2, ContinueEffect, Zenon
  <2> HIDE DEF e
  <2>4. ExecutionTypeOK'
    BY <1>0, <2>1, <2>3, Zenon DEF ExecutionTypeOK, Moves
  <2>5. InboxesOK' /\ Assigned(n, j, "scheduled")'
    BY <1>0, <1>2, <2>1 DEF InboxesOK, Assigned
  <2>6. Moves(n, j, e) => CallOK(n, j)'
    BY <2>2, <2>5, Zenon DEF Moves, CallOK
  <2>7. \A m \in Node, k \in Job :
            \/ exec'[m][k] = exec[m][k]
            \/ exec[m][k].phase # "final" /\ exec'[m][k].phase # "final" /\ CallOK(m, k)'
    BY <2>2, <2>3, <2>6, Zenon DEF Moves
  <2> QED
    BY <1>4, <2>4, <2>5, <2>7, Zenon
<1>7. ASSUME NEW j \in Job, NEW r \in Result, Finish(n, j, r) PROVE TurnsInv'
  <2> DEFINE e == [exec[n][j] EXCEPT !.phase = "fetch", !.result = r]
  <2>1. /\ exec[n][j].phase = "work" /\ Continue(n, j, e) /\ inbox' = inbox
        /\ ended' = ended \cup {<<j, r>>}
    BY <1>7, Zenon DEF Finish
  <2>2. e \in Executor /\ e.phase = "fetch" /\ e.result = r
    <3>1. exec[n][j] \in Executor
      BY <1>0, Zenon
    <3> QED
      BY <3>1, Zenon DEF Executor
  <2>3. Moves(n, j, e)
    BY <1>0, <2>1, <2>2, ContinueEffect, Zenon
  <2> HIDE DEF e
  <2>4. ExecutionTypeOK'
    BY <1>0, <2>1, <2>3 DEF ExecutionTypeOK, Moves
  <2>5. InboxesOK'
    BY <1>0, <1>2, <2>1, Zenon DEF InboxesOK, Assigned
  <2>6. CallOK(n, j)'
    BY <1>0, <1>2, <2>1, <2>2, <2>3 DEF Moves, CallsOK, CallOK, Assigned
  <2>7. \A m \in Node, k \in Job :
            \/ exec'[m][k] = exec[m][k]
            \/ exec[m][k].phase # "final" /\ exec'[m][k].phase # "final" /\ CallOK(m, k)'
    BY <2>1, <2>2, <2>3, <2>6, Zenon DEF Moves
  <2> QED
    BY <1>4, <2>4, <2>5, <2>7, Zenon
<1> QED
  BY <1>2, <1>5, <1>6, <1>7, Zenon

(* A report gives back what the job holds, once, and only then makes its   *)
(* status terminal.                                                        *)
LEMMA ReportTurn ==
    ASSUME Undisturbed, TurnsInv, NEW n \in Node, NEW j \in Job, up[n],
           ReportStep(n, j), UNCHANGED <<membership, tick>>, Solo'
    PROVE  /\ TurnsInv'
           /\ \A m \in Node : nodes'[m].cap = nodes[m].cap
           /\ \/ jobs' = jobs
              \/ jobs[j].status = "scheduled" /\ jobs' = UpdateStatus(j, "running")
              \/ \E s \in Result : jobs[j].status = "running" /\ jobs' = UpdateStatus(j, s)
<1> TotalsAdd
  BY Zenon DEF TurnsInv, TablesOK, LifeInv
<1> DEFINE o == exec[n][j]
<1>0. /\ TablesOK /\ ExecutionTypeOK /\ CallsOK /\ InboxesOK /\ Balanced /\ Solo
      /\ inbox \in [Node -> SUBSET Job] /\ exec \in [Node -> [Job -> Executor]]
      /\ StoreTypeOK /\ jobs \in [Job -> JobRow] /\ nodes \in [Node -> NodeRow]
      /\ o \in Executor /\ CallOK(n, j) /\ FixedCapacity /\ MaxFaults = 0
  BY Zenon DEF TurnsInv, TablesOK, LifeInv, TypeInv, EngineInv, StoreTypeOK, ExecutionTypeOK, CallsOK,
         Undisturbed
<1>1. /\ UNCHANGED <<events, clock, faults, inbox, ended>>
      /\ \E e \in Executor : Moves(n, j, e) /\ Reported(j, o, e)
  <2>1. o.phase = "load" => o.on \in Node
    BY <1>0, Zenon DEF CallOK
  <2> QED
    BY <1>0, <2>1, ReportEffect, Zenon
<1>2. PICK e \in Executor : Moves(n, j, e) /\ Reported(j, o, e)
  BY <1>1, Zenon
<1>3. /\ exec'[n][j] = e /\ ExecutionTypeOK' /\ tick' = tick /\ up' = up /\ outages' = outages
      /\ exec' \in [Node -> [Job -> Executor]]
  BY <1>0, <1>1, <1>2, Zenon DEF Moves, ExecutionTypeOK, membership
<1>4. tick.phase = "idle" /\ (\A m \in Node : inbox[m] = {}) /\ o.phase # "none"
  <2>1. CASE o.phase \in {"start", "fetch"}
    <3>1. Working(exec[n][j])'
      BY <1>2, <1>3, <2>1, Zenon DEF Reported, Working
    <3> QED
      BY <1>1, <1>3, <2>1, <3>1, Zenon DEF Solo
  <2>2. CASE o.phase \notin {"start", "fetch"}
    <3>1. Working(exec[n][j])
      BY <1>2, <2>2, Zenon DEF Reported, Working
    <3> QED
      BY <1>0, <2>2, <3>1, Zenon DEF Solo, Working
  <2> QED
    BY <2>1, <2>2, Zenon
<1>5. /\ InboxesOK' /\ \A m \in Node : Free(m) = nodes[m].avail /\ Free(m)' = nodes'[m].avail
  BY <1>1, <1>3, <1>4, Zenon DEF InboxesOK, Free
<1>6. jobs[j].node = n /\ n # NoNode /\ jobs[j].status \in {"scheduled", "running"}
  BY <1>0, <1>4, NodeAssumption, Zenon DEF CallOK, Assigned, Executor
<1>7. \A m \in Node : Returned(m) \ {j} = Returned(m)' \ {j} /\ (m # n => Returned(m)' = Returned(m))
  BY <1>2, Zenon DEF Returned, Moves
<1>8. CASE o.phase \in {"start", "fetch", "load"}
  <2>1. jobs' = jobs /\ nodes' = nodes /\ o.phase # "final" /\ e.phase # "final"
    BY <1>2, <1>6, <1>8, Zenon DEF Reported
  <2>2. TablesOK'
    <3>1. UNCHANGED vars
      BY <1>1, <2>1, Zenon DEF vars, store
    <3> QED
      BY <1>0, <3>1, TablesKept, Zenon
  <2>3. CallOK(n, j)'
    BY <1>0, <1>2, <1>3, <1>6, <1>8, <2>1, Zenon DEF CallOK, Reported, Assigned
  <2>4. CallsOK'
    BY <1>0, <1>2, <1>3, <1>4, <2>1, <2>3, Bystanders, Zenon
  <2>5. \A m \in Node : Returned(m)' = Returned(m) /\ Occupants(m)' = Occupants(m)
    BY <1>2, <1>3, <2>1 DEF Returned, Occupants, Moves
  <2>6. Balanced'
    BY <1>0, <1>5, <2>1, <2>5, BalanceKept, Zenon DEF Held
  <2> QED
    BY <1>3, <1>5, <2>1, <2>2, <2>4, <2>6, Zenon DEF TurnsInv
<1>9. CASE o.phase = "mark"
  <2>1. /\ jobs' = UpdateStatus(j, "running") /\ nodes' = nodes /\ e.phase = "work"
        /\ jobs[j].status = "scheduled"
    BY <1>0, <1>2, <1>9, Zenon DEF Reported, CallOK, Assigned
  <2>2. /\ \A k \in Job \ {j} : jobs'[k] = jobs[k]
        /\ jobs'[j].status = "running" /\ jobs'[j].node = n /\ jobs' \in [Job -> JobRow]
    <3>1. "running" \in JobStatus
      BY Zenon DEF JobStatus
    <3> QED
      BY <1>0, <1>6, <2>1, <3>1, UpdateEffect, JobStatements
  <2>3. \A m \in Node : Occupants(m)' = Occupants(m)
    BY <1>6, <2>1, <2>2 DEF Occupants, IsActive
  <2>4. \A m \in Node : Returned(m)' = Returned(m)
    BY <1>2, <1>3, <1>9, <2>1, Zenon DEF Returned, Moves
  <2>5. TablesOK'
    <3>1. StoreTypeOK'
      BY <1>0, <1>1, <2>1, <2>2, Zenon DEF StoreTypeOK
    <3>2. \A m \in Node, d \in Dim : nodes'[m].avail[d] <= nodes[m].cap[d]
      BY <1>0, <2>1, Zenon DEF TablesOK, RangeInv, Bounded
    <3> QED
      BY <1>0, <1>3, <1>4, <2>1, <2>3, <3>1, <3>2, IdleTables, Zenon
  <2>6. CallOK(n, j)'
    BY <1>0, <1>3, <2>1, <2>2, Zenon DEF CallOK, Assigned
  <2>7. CallsOK'
    BY <1>0, <1>2, <1>3, <1>4, <2>1, <2>2, <2>6, Bystanders, Zenon
  <2>8. Balanced'
    BY <1>0, <1>5, <2>1, <2>3, <2>4, BalanceKept, Zenon DEF Held
  <2> QED
    BY <1>3, <1>5, <2>1, <2>5, <2>7, <2>8, Zenon DEF TurnsInv
<1>10. CASE o.phase = "final"
  <2>1. /\ jobs' = UpdateStatus(j, o.result) /\ nodes' = nodes /\ e = NoExecutor
        /\ jobs[j].status = "running" /\ o.result \in Result
    BY <1>0, <1>2, <1>10, Zenon DEF Reported, CallOK, Assigned
  <2>2. /\ jobs' \in [Job -> JobRow] /\ jobs'[j].status \in Result
        /\ \A k \in Job \ {j} : jobs'[k] = jobs[k]
    <3>1. o.result \in JobStatus
      BY <2>1, Zenon DEF JobStatus, Result
    <3>2. jobs' \in [Job -> JobRow]
      BY <1>0, <2>1, <3>1, JobStatements, Zenon
    <3> QED
      BY <1>0, <2>1, <3>1, <3>2, UpdateEffect, Zenon
  <2>3. \A m \in Node : Occupants(m)' = Occupants(m) \ {j} /\ (m # n => j \notin Occupants(m))
    BY <1>6, <2>1, <2>2 DEF Occupants, IsActive, Result
  <2>4. j \in Returned(n) /\ j \notin Returned(n)'
    BY <1>3, <1>10, <2>1, NoExecutorType, Zenon DEF Returned
  <2>5. \A m \in Node : Held(m)' = Held(m)
    BY <1>7, <2>3, <2>4, Zenon DEF Held
  <2>6. TablesOK'
    <3>1. StoreTypeOK'
      BY <1>0, <1>1, <2>1, <2>2, Zenon DEF StoreTypeOK
    <3>2. \A m \in Node, d \in Dim : nodes'[m].avail[d] <= nodes[m].cap[d]
      BY <1>0, <2>1, Zenon DEF TablesOK, RangeInv, Bounded
    <3> QED
      BY <1>0, <1>3, <1>4, <2>1, <2>3, <3>1, <3>2, IdleTables, Zenon
  <2>7. CallOK(n, j)'
    BY <1>3, <2>1, NoExecutorType, Zenon DEF CallOK
  <2>8. CallsOK'
    BY <1>0, <1>2, <1>3, <1>4, <2>1, <2>2, <2>7, Bystanders, Zenon
  <2>9. Balanced'
    BY <1>0, <1>5, <2>1, <2>5, BalanceKept, Zenon
  <2> QED
    BY <1>3, <1>5, <2>1, <2>6, <2>8, <2>9, Zenon DEF TurnsInv
<1>11. CASE o.phase = "free"
  <2> DEFINE a == Release(nodes[n], Request[j]).avail
  <2>1. jobs' = jobs /\ nodes' = UpdateAvailability(n, a) /\ e.phase = "final" /\ e.result = o.result
    BY <1>0, <1>2, <1>11, Zenon DEF Reported, CallOK
  <2>2. nodes[n] \in NodeRow /\ Request[j] \in Vec
    BY <1>0, JobAssumption, Zenon
  <2>3. a \in Vec /\ \A d \in Dim : a[d] <= nodes[n].cap[d]
    <3>1. Release(nodes[n], Request[j]) \in NodeRow
      BY <2>2, ReleaseType, Zenon
    <3> QED
      BY <2>2, <3>1, ReleaseType, Zenon DEF NodeRow
  <2>4. \A d \in Dim : a[d] = IF nodes[n].avail[d] + Request[j][d] > nodes[n].cap[d]
                              THEN nodes[n].cap[d] ELSE nodes[n].avail[d] + Request[j][d]
    BY <2>2, Zenon DEF Release, NodeRow
  <2> HIDE DEF a
  <2>5. /\ nodes' \in [Node -> NodeRow] /\ nodes'[n].avail = a
        /\ \A m \in Node \ {n} : nodes'[m] = nodes[m]
        /\ \A m \in Node : /\ nodes'[m].cap = nodes[m].cap /\ nodes'[m].status = nodes[m].status
                           /\ nodes'[m].fresh = nodes[m].fresh
    <3> DEFINE r == [nodes[n] EXCEPT !.avail = a]
    <3>1. nodes' = [nodes EXCEPT ![n] = r]
      BY <2>1, Zenon DEF UpdateAvailability
    <3>2. r \in NodeRow /\ r.avail = a /\ r.cap = nodes[n].cap /\ r.status = nodes[n].status
          /\ r.fresh = nodes[n].fresh
      BY <2>2, <2>3, Zenon DEF NodeRow
    <3> HIDE DEF r
    <3> QED
      BY <1>0, <3>1, <3>2, Zenon
  <2>6. \A m \in Node : Occupants(m)' = Occupants(m)
    BY <2>1, Zenon DEF Occupants
  <2>7. j \in Occupants(n) /\ j \notin Returned(n) /\ j \in Returned(n)'
    BY <1>0, <1>3, <1>11, <2>1, Zenon DEF Occupants, Returned, CallOK, Assigned, IsActive
  <2>8. /\ j \in Held(n) /\ Held(n)' = Held(n) \ {j} /\ Held(n) \in SUBSET Job
        /\ \A m \in Node \ {n} : Held(m)' = Held(m)
    BY <1>7, <2>6, <2>7, Zenon DEF Held, Occupants
  <2>9. Balanced'
    <3> SUFFICES ASSUME NEW m \in Node, NEW d \in Dim
                 PROVE  Free(m)'[d] + Total(d, Held(m))' = nodes'[m].cap[d]
      BY Zenon DEF Balanced
    <3>1. Free(m)[d] + Total(d, Held(m)) = nodes[m].cap[d]
      BY <1>0, Zenon DEF Balanced
    <3>2. Total(d, Held(m))' = Total(d, Held(m)')
      BY Zenon DEF Total, Units
    <3>3. CASE m # n
      BY <1>5, <2>5, <2>8, <3>1, <3>2, <3>3
    <3>4. CASE m = n
      <4>1. Total(d, Held(n) \ {j}) = Total(d, Held(n)) - Request[j][d] /\ Total(d, Held(n) \ {j}) \in Nat
        BY <2>8, TotalRemove, Zenon
      <4>2. Total(d, Held(n)) \in Nat
        BY <2>8, TotalType, Zenon
      <4>3. nodes[n].avail[d] \in Nat /\ nodes[n].cap[d] \in Nat /\ Request[j][d] \in Nat
        BY <2>2, Zenon DEF NodeRow, Vec
      <4>4. nodes[n].avail[d] + Total(d, Held(n)) = nodes[n].cap[d]
        BY <1>5, <3>1, <3>4, Zenon
      <4>5. a[d] = nodes[n].avail[d] + Request[j][d]
        <5>1. a[d] = IF nodes[n].avail[d] + Request[j][d] > nodes[n].cap[d]
                     THEN nodes[n].cap[d] ELSE nodes[n].avail[d] + Request[j][d]
          BY <2>4, Zenon
        <5>2. nodes[n].avail[d] + Request[j][d] <= nodes[n].cap[d]
          BY <4>1, <4>2, <4>3, <4>4
        <5> QED
          BY <4>3, <5>1, <5>2
      <4>6. a[d] + Total(d, Held(n) \ {j}) = nodes[n].cap[d]
        BY <4>1, <4>2, <4>3, <4>4, <4>5
      <4> QED
        BY <1>5, <2>5, <2>8, <3>2, <3>4, <4>6, Zenon
    <3> QED
      BY <3>3, <3>4, Zenon
  <2>10. TablesOK'
    <3>1. StoreTypeOK'
      BY <1>0, <1>1, <2>1, <2>5, Zenon DEF StoreTypeOK
    <3>2. \A m \in Node, d \in Dim : nodes'[m].avail[d] <= nodes[m].cap[d]
      BY <1>0, <2>3, <2>5, Zenon DEF TablesOK, RangeInv, Bounded
    <3>3. nodes[n].status # "absent"
      BY <1>0, <1>11, Zenon DEF TablesOK, AllUp, CallOK, Assigned
    <3>4. \A m \in Node : nodes[m].status = "absent" => nodes'[m].avail = nodes[m].avail
      BY <2>5, <3>3, Zenon
    <3> QED
      BY <1>0, <1>3, <1>4, <2>5, <2>6, <3>1, <3>2, <3>4, IdleTables, Zenon
  <2>11. CallOK(n, j)'
    BY <1>0, <1>3, <1>11, <2>1, Zenon DEF CallOK, Assigned
  <2>12. Working(exec[n][j])
    BY <1>11, Zenon DEF Working
  <2>13. CallsOK'
    BY <1>0, <1>2, <1>3, <1>4, <2>1, <2>11, <2>12, Bystanders, Zenon
  <2> QED
    BY <1>3, <1>5, <2>1, <2>5, <2>9, <2>10, <2>13, Zenon DEF TurnsInv
<1> QED
  BY <1>2, <1>8, <1>9, <1>10, <1>11, Zenon DEF Reported

-----------------------------------------------------------------------------
(* The engine, users and agents in their turns *)

(* What a tick needs to be right: nobody else is at work, so that the      *)
(* ledger is exact.                                                        *)
LEMMA TickLedger ==
    ASSUME TurnsInv, \A n \in Node, j \in Job : ~ Working(exec[n][j])
    PROVE  LedgerInv /\ \A n \in Node : Held(n) = Occupants(n)
<1>0. /\ TablesOK /\ Balanced /\ NoOvercommit /\ nodes \in [Node -> NodeRow] /\ tick \in TickState
  BY Zenon DEF TurnsInv, TablesOK, LifeInv, TypeInv, EngineInv, StoreTypeOK, EngineTypeOK
<1>1. \A n \in Node : Held(n) = Occupants(n)
  BY Zenon DEF Held, Returned, Working
<1>2. \A n \in Node, d \in Dim : Free(n)[d] + Used(n, d) = nodes[n].cap[d]
  BY <1>0, <1>1, Zenon DEF Balanced, Used
<1>3. \A n \in Node, d \in Dim : nodes[n].cap[d] \in Nat
  BY <1>0, Zenon DEF NodeRow, Vec
<1>4. SoldOnce
  BY <1>2, <1>3 DEF SoldOnce
<1>5. NoneLost
  BY <1>0, <1>2, Zenon DEF NoneLost, TablesOK, AllUp
<1> QED
  BY <1>0, <1>1, <1>4, <1>5, Zenon DEF LedgerInv, TablesOK

(* The engine's turn.                                                      *)
LEMMA EngineTurn ==
    ASSUME Undisturbed, TurnsInv, Engines, UNCHANGED execution, Solo'
    PROVE  TurnsInv'
<1> TotalsAdd
  BY Zenon DEF TurnsInv, TablesOK, LifeInv
<1>0. /\ TablesOK /\ ExecutionTypeOK /\ CallsOK /\ InboxesOK /\ Solo /\ AllUp
      /\ inbox' = inbox /\ exec' = exec /\ ended' = ended
      /\ up' = up /\ EngineInv
  BY Zenon DEF TurnsInv, TablesOK, LifeInv, TypeInv, execution, Engines, membership
<1>1. tick.phase # "idle" \/ tick'.phase # "idle"
  <2>1. CASE StartTick
    BY <1>0, <2>1, StartEffect, Zenon
  <2>2. CASE ~ StartTick
    BY <2>2, Zenon DEF Engines, EngineNext, TickStep, ListLost, RequeueLost, ListNodes, ListQueued,
       ListActive, OrderQueue, CommitPlacement, PersistPlacement, RecordPlacement, GiveUp,
       PlanPreemption, EvictVictim, ReturnVictim, PersistEviction, Stop
  <2> QED
    BY <2>1, <2>2, Zenon
<1>2. /\ \A n \in Node, j \in Job : ~ Working(exec[n][j])
      /\ \A n \in Node : inbox[n] = {}
  BY <1>0, <1>1, Zenon DEF Solo
<1>3. LedgerInv
  BY <1>2, TickLedger, Zenon
<1>4. LedgerInv'
  <2>1. [Next]_vars
    BY Zenon DEF Next
  <2> QED
    BY <1>3, <2>1, LedgerStep, Zenon DEF Undisturbed
<1>5. outages' = 0 /\ tick'.phase \notin {"lost", "requeue"}
  BY <1>0, <1>4, Zenon DEF AllUp, LedgerInv, NoneLost, Engines, membership
<1>6. AllUp'
  BY <1>4, <1>5, Zenon DEF AllUp, LedgerInv, NoneLost
<1>7. \A n \in Node, d \in Dim : Free(n)'[d] + Used(n, d)' = nodes'[n].cap[d]
  BY <1>4, <1>5, Zenon DEF LedgerInv, NoneLost
<1>8. \A n \in Node : Held(n)' = Occupants(n)'
  BY <1>0, <1>2, Zenon DEF Held, Returned, Working
<1>9. \A n \in Node, d \in Dim : Used(n, d)' = Total(d, Occupants(n)') /\ Used(n, d)' \in Nat
  <2>1. \A n \in Node : Occupants(n)' \in SUBSET Job
    BY Zenon DEF Occupants
  <2>2. \A n \in Node, d \in Dim : Used(n, d)' = Total(d, Occupants(n)')
    BY Zenon DEF Used, Total, Units
  <2> QED
    BY <2>1, <2>2, TotalType, Zenon
<1>10. Balanced'
  <2>1. \A n \in Node, d \in Dim : Total(d, Held(n))' = Total(d, Held(n)')
    BY Zenon DEF Total, Units
  <2> QED
    BY <1>7, <1>8, <1>9, <2>1, Zenon DEF Balanced
<1>11. NoOvercommit'
  <2> SUFFICES ASSUME NEW n \in Node, NEW d \in Dim PROVE Used(n, d)' <= nodes'[n].cap[d]
    BY Zenon DEF NoOvercommit
  <2>1. nodes' \in [Node -> NodeRow] /\ tick' \in TickState
    BY <1>4, Zenon DEF LedgerInv, LifeInv, TypeInv, EngineInv, StoreTypeOK, EngineTypeOK
  <2>2. Free(n)'[d] \in Nat /\ nodes'[n].cap[d] \in Nat
    BY <2>1 DEF Free, TickState, NodeRow, Vec
  <2> QED
    BY <1>7, <1>9, <2>2
<1>12. CallsOK'
  <2> SUFFICES ASSUME NEW n \in Node, NEW j \in Job PROVE CallOK(n, j)'
    BY Zenon DEF CallsOK
  <2>1. jobs'[j] = jobs[j] \/ jobs[j].status = "queued"
    BY <1>0, RowsPlaced, Zenon DEF TablesOK, Engines
  <2>2. exec[n][j].phase # "free"
    BY <1>2, Zenon DEF Working
  <2> QED
    BY <1>0, <2>1, <2>2 DEF CallsOK, CallOK, Assigned
<1>13. InboxesOK' /\ ExecutionTypeOK'
  BY <1>0, <1>2, Zenon DEF InboxesOK, ExecutionTypeOK
<1>14. TablesOK'
  BY <1>4, <1>6, <1>11, Zenon DEF LedgerInv, TablesOK
<1> QED
  BY <1>10, <1>12, <1>13, <1>14, Zenon DEF TurnsInv

(* Users and agents write of a node's row only what no job depends on, or  *)
(* a machine that was not there.                                           *)
LEMMA OthersNodes ==
    ASSUME MaxOutages = 0, TablesOK, Users \/ Agents
    PROVE  /\ outages' = 0
           /\ \A n \in Node :
                \/ /\ nodes'[n].cap = nodes[n].cap /\ nodes'[n].avail = nodes[n].avail
                   /\ nodes'[n].status = "absent" <=> nodes[n].status = "absent"
                   /\ up'[n] = up[n] /\ (nodes'[n].fresh <=> nodes[n].fresh)
                \/ /\ nodes[n].status = "absent" /\ nodes'[n].status = "ready"
                   /\ nodes'[n].avail = nodes'[n].cap /\ up'[n] /\ nodes'[n].fresh
<1>0. /\ TypeInv /\ StoreTypeOK /\ nodes \in [Node -> NodeRow] /\ AllUp
      /\ up \in [Node -> BOOLEAN] /\ outages \in Nat /\ outages = 0
  BY NodeServiceAssumption, Zenon DEF TablesOK, LifeInv, TypeInv, EngineInv, StoreTypeOK,
     MembershipTypeOK, AllUp
<1>1. CASE Users
  <2>1. \A n \in Node : nodes'[n].cap = nodes[n].cap /\ nodes'[n].avail = nodes[n].avail
    BY <1>0, <1>1, UserStep, Zenon DEF Users
  <2>2. up' = up /\ outages' = outages
    BY <1>1, Zenon DEF Users, membership
  <2>3. \A n \in Node : /\ nodes'[n].fresh = nodes[n].fresh
                        /\ nodes'[n].status = "absent" <=> nodes[n].status = "absent"
    BY <1>0, <1>1, UserPresence, Zenon DEF Users
  <2> QED
    BY <1>0, <2>1, <2>2, <2>3, Zenon
<1>2. CASE Agents
  <2>1. PICK n \in Node : Register(n) \/ SendHeartbeat(n) \/ HeartbeatLapse(n) \/ AgentExit(n)
    BY <1>2, Zenon DEF Agents
  <2>2. CASE Register(n)
    <3>1. nodes[n].status = "absent"
      BY <1>0, <2>2, RegisterEffect, Zenon DEF AllUp
    <3> QED
      BY <1>0, <2>2, <3>1, RegisterEffect, Zenon
  <2>3. CASE SendHeartbeat(n) \/ HeartbeatLapse(n) \/ AgentExit(n)
    <3>1. outages' = 0
      BY <1>0, <2>3 DEF SendHeartbeat, HeartbeatLapse, AgentExit, membership
    <3>2. up[n] <=> nodes[n].fresh
      BY <1>0, Zenon DEF AllUp
    <3> QED
      BY <1>0, <2>3, <3>1, <3>2, PresenceEffect, Zenon
  <2> QED
    BY <2>1, <2>2, <2>3, Zenon
<1> QED
  BY <1>1, <1>2, Zenon

(* The turn of users and agents: a machine that joins brings nothing that  *)
(* is held, and no executor.                                               *)
LEMMA OthersTurn ==
    ASSUME Undisturbed, TurnsInv, Users \/ Agents, UNCHANGED execution, Solo'
    PROVE  TurnsInv'
<1> TotalsAdd
  BY Zenon DEF TurnsInv, TablesOK, LifeInv
<1>0. /\ TablesOK /\ ExecutionTypeOK /\ CallsOK /\ InboxesOK /\ Balanced /\ Solo /\ TypeInv
      /\ NoEvictions /\ ViewCurrent /\ ViewKnown /\ AbsentEmpty /\ AllUp /\ NoOvercommit
      /\ nodes \in [Node -> NodeRow] /\ tick \in TickState
      /\ inbox' = inbox /\ exec' = exec /\ ended' = ended
  BY Zenon DEF TurnsInv, TablesOK, LifeInv, TypeInv, EngineInv, StoreTypeOK, EngineTypeOK, execution
<1>1. RangeInv' /\ LifeInv'
  BY <1>0, RangeStep, LifeStep, Zenon DEF TablesOK, Undisturbed, Next
<1>2. nodes' \in [Node -> NodeRow]
  BY <1>1, Zenon DEF LifeInv, TypeInv, EngineInv, StoreTypeOK
<1>3. tick' = tick
  BY <1>0, OthersEffect, Zenon
<1>4. \A j \in Job : \/ jobs'[j] = jobs[j]
                     \/ jobs[j].status = "absent" /\ jobs'[j].status = "queued"
  BY <1>0, OthersRows, Zenon
<1>5. \A n \in Node : Occupants(n)' = Occupants(n)
  BY <1>4, Zenon DEF Occupants, IsActive
<1>6. \A n \in Node : Held(n)' = Held(n)
  BY <1>0, <1>5, Zenon DEF Held, Returned
<1> DEFINE Same(n) ==
              /\ nodes'[n].cap = nodes[n].cap /\ nodes'[n].avail = nodes[n].avail
              /\ nodes'[n].status = "absent" <=> nodes[n].status = "absent"
              /\ up'[n] = up[n] /\ (nodes'[n].fresh <=> nodes[n].fresh)
           Joins(n) ==
              /\ nodes[n].status = "absent" /\ nodes'[n].status = "ready"
              /\ nodes'[n].avail = nodes'[n].cap /\ up'[n] /\ nodes'[n].fresh
<1>7. outages' = 0 /\ \A n \in Node : Same(n) \/ Joins(n)
  BY <1>0, OthersNodes, Zenon DEF Undisturbed
<1>8. \A n \in Node : nodes[n].status # "absent" => Same(n) /\ Free(n)' = Free(n)
  BY <1>3, <1>7, Zenon DEF Free
<1>9. \A n \in Node : nodes[n].status = "absent" => /\ Free(n) = nodes[n].avail
                                                   /\ Free(n)' = nodes'[n].avail
  BY <1>0, <1>3, Zenon DEF ViewKnown, Free, Listed
<1>10. NoEvictions' /\ ViewCurrent' /\ ViewKnown'
  BY <1>0, <1>3, <1>8, Zenon DEF NoEvictions, ViewCurrent, ViewKnown, Listed
<1>11. AbsentEmpty'
  BY <1>0, <1>7 DEF AbsentEmpty
<1>12. AllUp'
  BY <1>0, <1>3, <1>7, Zenon DEF AllUp
<1>13. ASSUME NEW n \in Node, NEW d \in Dim
       PROVE  /\ Free(n)'[d] + Total(d, Held(n)) = nodes'[n].cap[d]
              /\ Used(n, d) <= nodes'[n].cap[d]
  <2>1. Held(n) \in SUBSET Job
    BY Zenon DEF Held, Occupants
  <2>2. /\ Total(d, Held(n)) \in Nat /\ Used(n, d) \in Nat
        /\ nodes[n].avail[d] \in Nat /\ nodes'[n].avail[d] \in Nat /\ nodes'[n].cap[d] \in Nat
    BY <1>0, <1>2, <2>1, TotalType, UsedType DEF NodeRow, Vec
  <2>3. Free(n)[d] + Total(d, Held(n)) = nodes[n].cap[d] /\ Used(n, d) <= nodes[n].cap[d]
    BY <1>0, Zenon DEF Balanced, NoOvercommit
  <2>4. CASE nodes[n].status # "absent"
    BY <1>8, <2>3, <2>4, Zenon
  <2>5. CASE nodes[n].status = "absent"
    <3>1. nodes[n].avail[d] = 0 /\ nodes[n].cap[d] = 0
      BY <1>0, <2>5, Zenon DEF AbsentEmpty
    <3>2. Total(d, Held(n)) = 0 /\ Used(n, d) = 0
      BY <1>9, <2>2, <2>3, <2>5, <3>1
    <3>3. nodes'[n].avail[d] = nodes'[n].cap[d]
      BY <1>7, <3>1, Zenon
    <3> QED
      BY <1>9, <2>2, <2>5, <3>2, <3>3
  <2> QED
    BY <2>4, <2>5, Zenon
<1>14. Balanced'
  <2>1. \A n \in Node, d \in Dim : Total(d, Held(n))' = Total(d, Held(n))
    BY <1>6, Zenon DEF Total, Units
  <2> QED
    BY <1>13, <2>1, Zenon DEF Balanced
<1>15. NoOvercommit'
  BY <1>5, <1>13, UsedKept DEF NoOvercommit
<1>16. \A n \in Node : up[n] => up'[n] /\ nodes'[n].cap = nodes[n].cap /\ nodes'[n].avail = nodes[n].avail
  BY <1>0, <1>8, Zenon DEF AllUp
<1>17. CallsOK'
  <2> SUFFICES ASSUME NEW n \in Node, NEW j \in Job PROVE CallOK(n, j)'
    BY Zenon DEF CallsOK
  <2>1. \A s \in {"scheduled", "running"} : Assigned(n, j, s) => Assigned(n, j, s)'
    BY <1>4, <1>16, Zenon DEF Assigned
  <2>2. up[n] => Release(nodes[n], Request[j]).avail = Release(nodes'[n], Request[j]).avail
    BY <1>0, <1>2, <1>16, Zenon DEF Release, NodeRow
  <2>3. CallOK(n, j)
    BY <1>0, Zenon DEF CallsOK
  <2> QED
    BY <1>0, <2>1, <2>2, <2>3, Zenon DEF CallOK, Assigned
<1>18. InboxesOK' /\ ExecutionTypeOK'
  BY <1>0, <1>4, <1>16 DEF InboxesOK, Assigned, ExecutionTypeOK
<1> QED
  BY <1>1, <1>10, <1>11, <1>12, <1>14, <1>15, <1>17, <1>18, Zenon DEF TurnsInv, TablesOK

(* The empty tables, and no executor.                                      *)
LEMMA TurnsInit ==
    ASSUME TotalsAdd, ClusterInit
    PROVE  TurnsInv
<1>0. /\ Init /\ tick = Idle /\ tick.phase = "idle" /\ outages = 0
      /\ \A n \in Node : inbox[n] = {} /\ \A j \in Job : exec[n][j] = NoExecutor
  BY IdleFields, Zenon DEF ClusterInit, Init, EngineInit, MembershipInit, ExecutionInit
<1>1. LedgerInv /\ NoOvercommit
  BY <1>0, LedgerInit, LedgerFits, Zenon
<1>2. TablesOK
  BY <1>0, <1>1, Zenon DEF TablesOK, LedgerInv, NoneLost, AllUp
<1>3. ExecutionTypeOK
  BY NoExecutorType, Zenon DEF ClusterInit, ExecutionInit, ExecutionTypeOK
<1>4. CallsOK /\ InboxesOK
  BY <1>0, NoExecutorType, Zenon DEF CallsOK, CallOK, InboxesOK
<1>5. Solo
  BY <1>0, NoExecutorType, Zenon DEF Solo, Working
<1>6. \A n \in Node : Held(n) = Occupants(n)
  BY <1>0, NoExecutorType, Zenon DEF Held, Returned
<1>7. Balanced
  BY <1>0, <1>1, <1>6 DEF Balanced, LedgerInv, NoneLost, Used
<1> QED
  BY <1>2, <1>3, <1>4, <1>5, <1>7, Zenon DEF TurnsInv

(* Whose turn it may be when nothing fails and nobody cancels.             *)
LEMMA Turns ==
    ASSUME Undisturbed, TurnsInv, ClusterNext
    PROVE  \/ Engines /\ UNCHANGED execution
           \/ (Users \/ Agents) /\ UNCHANGED execution
           \/ \E n \in Node :
                /\ up[n] /\ UNCHANGED <<membership, tick>>
                /\ \/ Poll(n) \/ \E j \in Job : Claim(n, j) \/ \E r \in Result : Finish(n, j, r)
                   \/ \E j \in Job : ReportStep(n, j)
<1>1. outages = 0 /\ MaxOutages = 0 /\ MaxFaults = 0 /\ ~ faults < MaxFaults /\ Client = {}
  BY DEF Undisturbed, TurnsInv, TablesOK, AllUp, LifeInv, TypeInv, EngineInv, StoreTypeOK
<1>2. \A n \in Node : ~ AgentExit(n) /\ \A j \in Job : ~ DropReport(n, j)
  BY <1>1 DEF AgentExit, DropReport
<1>3. ~ ClusterCancellation
  BY <1>1, Zenon DEF ClusterCancellation
<1>4. CASE ClusterMembership
  BY <1>2, <1>4, Zenon DEF ClusterMembership, Agents
<1>5. CASE ClusterExecution
  BY <1>2, <1>5, Zenon DEF ClusterExecution
<1>6. CASE ClusterEngine \/ ClusterUsers
  BY <1>6, Zenon DEF ClusterEngine, ClusterUsers, execution
<1> QED
  BY <1>3, <1>4, <1>5, <1>6, Zenon DEF ClusterNext

(* Every turn keeps the invariant.                                         *)
LEMMA TurnsStep ==
    ASSUME Undisturbed, TurnsInv, ClusterNext, Solo'
    PROVE  TurnsInv'
<1>1. CASE Engines /\ UNCHANGED execution
  BY <1>1, EngineTurn, Zenon
<1>2. CASE (Users \/ Agents) /\ UNCHANGED execution
  BY <1>2, OthersTurn, Zenon
<1>3. ASSUME NEW n \in Node, up[n], UNCHANGED <<membership, tick>>,
             Poll(n) \/ \E j \in Job : Claim(n, j) \/ \E r \in Result : Finish(n, j, r)
      PROVE  TurnsInv'
  BY <1>3, HandlingTurn, Zenon
<1>4. ASSUME NEW n \in Node, up[n], UNCHANGED <<membership, tick>>, NEW j \in Job, ReportStep(n, j)
      PROVE  TurnsInv'
  BY <1>4, ReportTurn, Zenon
<1> QED
  BY <1>1, <1>2, <1>3, <1>4, Turns, Zenon

(* So does doing nothing.                                                  *)
LEMMA TurnsStutter ==
    ASSUME Undisturbed, TurnsInv, UNCHANGED cluster
    PROVE  TurnsInv'
<1>0. /\ UNCHANGED vars /\ inbox' = inbox /\ exec' = exec /\ ended' = ended
      /\ jobs' = jobs /\ nodes' = nodes /\ tick' = tick /\ up' = up
  BY Zenon DEF cluster, execution, vars, store, membership
<1>1. TablesOK'
  BY <1>0, TablesKept, Zenon DEF TurnsInv, Undisturbed
<1>2. ExecutionTypeOK' /\ InboxesOK' /\ CallsOK'
  BY <1>0 DEF TurnsInv, ExecutionTypeOK, InboxesOK, CallsOK, CallOK, Assigned
<1>3. Solo'
  BY <1>0 DEF TurnsInv, Solo
<1>4. \A n \in Node : Free(n)' = Free(n) /\ Held(n)' = Held(n)
  BY <1>0, Zenon DEF Free, Held, Returned, Occupants
<1>5. Balanced'
  BY <1>0, <1>4, BalanceKept, Zenon DEF TurnsInv
<1> QED
  BY <1>1, <1>2, <1>3, <1>5, Zenon DEF TurnsInv
=============================================================================
