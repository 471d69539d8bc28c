---------------------------- MODULE ClusterProofs ---------------------------
(***************************************************************************)
(* Types, availability, placements and verdicts of the whole control loop, *)
(* with executors and cancellations writing back what they computed from   *)
(* stale reads; and what a verdict is worth when they take turns.          *)
(***************************************************************************)
EXTENDS Cluster, ControlPlaneProofs

(* A call that is about to read or write a node row knows which, and one   *)
(* that reports a result has it.                                           *)
ExecutorOK(e) ==
    /\ e.phase \in {"load", "free"} => e.on \in Node
    /\ e.phase \in {"fetch", "load", "free", "final"} => e.result \in Result

CancelOK(r) == r.phase \in {"load", "free"} => r.on \in Node

HandlersOK ==
    /\ \A n \in Node, j \in Job : ExecutorOK(exec[n][j])
    /\ \A c \in Client, j \in Job : CancelOK(cancel[c][j])

(* What a handler is about to write is within the row's capacity.          *)
CopyBounded(e) ==
    e.phase = "free" => \A d \in Dim : e.avail[d] <= nodes[e.on].cap[d]

CopiesBounded ==
    /\ \A n \in Node, j \in Job : CopyBounded(exec[n][j])
    /\ \A c \in Client, j \in Job : CopyBounded(cancel[c][j])

(* The typed state of an executor, and of a cancellation, with no call.    *)
LEMMA NoCallTypes ==
    /\ NoExecutor \in Executor /\ NoExecutor.phase = "none"
    /\ NoCancel \in Cancel /\ NoCancel.phase = "none"
BY Zenon DEF NoExecutor, Executor, NoCancel, Cancel, Vec

(* Replacing one executor keeps the others.                                *)
LEMMA ContinueType ==
    ASSUME exec \in [Node -> [Job -> Executor]], NEW n \in Node, NEW j \in Job,
           NEW e \in Executor, Continue(n, j, e)
    PROVE  /\ exec' \in [Node -> [Job -> Executor]]
           /\ \A m \in Node, k \in Job :
                 exec'[m][k] = IF m = n /\ k = j THEN e ELSE exec[m][k]
BY Zenon DEF Continue

(* Replacing one cancellation keeps the others.                            *)
LEMMA AnswerType ==
    ASSUME cancel \in [Client -> [Job -> Cancel]], NEW c \in Client, NEW j \in Job,
           NEW r \in Cancel, Answer(c, j, r)
    PROVE  /\ cancel' \in [Client -> [Job -> Cancel]]
           /\ \A b \in Client, k \in Job :
                 cancel'[b][k] = IF b = c /\ k = j THEN r ELSE cancel[b][k]
BY Zenon DEF Answer

(* One statement of an executor's call: the tables keep their types and    *)
(* capacities; availability comes from the executor's copy; the executor   *)
(* goes on with a copy computed from the row as it is.                     *)
ExecutorStep(n, j, e) ==
    /\ e \in Executor
    /\ ExecutorOK(e)
    /\ Continue(n, j, e)
    /\ e.phase = "free" => \A d \in Dim : e.avail[d] <= nodes[e.on].cap[d]

WritesCopy(e) ==
    \/ nodes' = nodes
    \/ e.phase = "free" /\ nodes' = UpdateAvailability(e.on, e.avail)

(* Every statement of a report is a typed step of its executor.            *)
LEMMA ExecutorSteps ==
    ASSUME StoreTypeOK, ExecutionTypeOK, NEW n \in Node, NEW j \in Job,
           ExecutorOK(exec[n][j]), ReportStep(n, j) \/ DropReport(n, j)
    PROVE  /\ StoreTypeOK'
           /\ WritesCopy(exec[n][j])
           /\ \E e \in Executor : ExecutorStep(n, j, e)
           /\ UNCHANGED <<inbox, ended>>
<1>0. /\ jobs \in [Job -> JobRow] /\ nodes \in [Node -> NodeRow] /\ clock \in Nat
      /\ events \in [Job -> Event] /\ faults \in 0..MaxFaults
      /\ exec[n][j] \in Executor
  BY Zenon DEF StoreTypeOK, ExecutionTypeOK
<1>1. ASSUME NEW ok \in BOOLEAN, Statement(ok)
      PROVE  faults' \in 0..MaxFaults
  BY <1>0, <1>1, StatementType, Zenon
<1>2. CASE StartReport(n, j)
  <2>1. PICK ok \in BOOLEAN :
          /\ Statement(ok)
          /\ Continue(n, j, [exec[n][j] EXCEPT !.phase = IF ok THEN "mark" ELSE "work"])
    BY <1>2, Zenon DEF StartReport
  <2> DEFINE e == [exec[n][j] EXCEPT !.phase = IF ok THEN "mark" ELSE "work"]
  <2>2. e \in Executor /\ e.phase \in {"mark", "work"}
    BY <1>0, Zenon DEF Executor
  <2>3. Continue(n, j, e)
    BY <2>1, Zenon
  <2> HIDE DEF e
  <2> QED
    BY <1>0, <1>1, <1>2, <2>1, <2>2, <2>3, Zenon
       DEF StartReport, StoreTypeOK, WritesCopy, ExecutorStep, ExecutorOK
<1>3. CASE MarkRunning(n, j)
  <2>1. PICK ok \in BOOLEAN :
          Statement(ok) /\ jobs' \in After(ok, jobs, UpdateStatus(j, "running"))
    BY <1>3, Zenon DEF MarkRunning
  <2>2. jobs' \in [Job -> JobRow]
    <3>1. "running" \in JobStatus
      BY Zenon DEF JobStatus
    <3> QED
      BY <1>0, <2>1, <3>1, JobStatements, AfterType, Zenon
  <2> DEFINE e == [exec[n][j] EXCEPT !.phase = "work"]
  <2>3. e \in Executor /\ e.phase = "work"
    BY <1>0, Zenon DEF Executor
  <2>4. Continue(n, j, e)
    BY <1>3, Zenon DEF MarkRunning
  <2> HIDE DEF e
  <2> QED
    BY <1>0, <1>1, <1>3, <2>1, <2>2, <2>3, <2>4, Zenon
       DEF MarkRunning, StoreTypeOK, WritesCopy, ExecutorStep, ExecutorOK
<1>4. CASE FetchJob(n, j)
  <2> DEFINE got == [exec[n][j] EXCEPT
                       !.on = jobs[j].node,
                       !.phase = IF jobs[j].node = NoNode THEN "final" ELSE "load"]
  <2>1. PICK ok \in BOOLEAN : Statement(ok) /\ Continue(n, j, IF ok THEN got ELSE NoExecutor)
    BY <1>4, Zenon DEF FetchJob
  <2>2. jobs[j].node \in Node \cup {NoNode}
    BY <1>0, Zenon DEF JobRow
  <2>3. got \in Executor /\ ExecutorOK(got) /\ got.phase # "free"
    BY <1>0, <1>4, <2>2, Zenon DEF Executor, ExecutorOK, FetchJob
  <2> HIDE DEF got
  <2>4. \E e \in Executor : ExecutorStep(n, j, e)
    BY <2>1, <2>3, NoCallTypes, Zenon DEF ExecutorStep, ExecutorOK
  <2> QED
    BY <1>0, <1>1, <1>4, <2>1, <2>4, Zenon DEF FetchJob, StoreTypeOK, WritesCopy
<1>5. CASE LoadNode(n, j)
  <2> DEFINE row == nodes[exec[n][j].on]
             got == [exec[n][j] EXCEPT !.avail = Release(row, Request[j]).avail, !.phase = "free"]
             err == [exec[n][j] EXCEPT !.phase = "final", !.on = NoNode]
  <2>1. PICK ok \in BOOLEAN : Statement(ok) /\ Continue(n, j, IF ok THEN got ELSE err)
    BY <1>5, Zenon DEF LoadNode
  <2>2. exec[n][j].on \in Node
    BY <1>5, Zenon DEF LoadNode, ExecutorOK
  <2>3. row \in NodeRow /\ Request[j] \in Vec
    BY <1>0, <2>2, JobAssumption, Zenon
  <2> HIDE DEF row
  <2>4. /\ Release(row, Request[j]).avail \in Vec
        /\ \A d \in Dim : Release(row, Request[j]).avail[d] <= row.cap[d]
    <3>1. Release(row, Request[j]) \in NodeRow
      BY <2>3, ReleaseType, Zenon
    <3> QED
      BY <2>3, <3>1, ReleaseType, Zenon DEF NodeRow
  <2>5. /\ got \in Executor /\ got.on = exec[n][j].on /\ ExecutorOK(got)
        /\ got.avail = Release(row, Request[j]).avail
    BY <1>0, <1>5, <2>2, <2>4, Zenon DEF Executor, ExecutorOK, LoadNode
  <2>6. err \in Executor /\ err.phase = "final" /\ ExecutorOK(err)
    BY <1>0, <1>5, Zenon DEF Executor, ExecutorOK, LoadNode
  <2> HIDE DEF got, err
  <2>7. \E e \in Executor : ExecutorStep(n, j, e)
    BY <2>1, <2>4, <2>5, <2>6, Zenon DEF ExecutorStep, row
  <2> QED
    BY <1>0, <1>1, <1>5, <2>1, <2>7, Zenon DEF LoadNode, StoreTypeOK, WritesCopy
<1>6. CASE FreeNode(n, j)
  <2>1. PICK ok \in BOOLEAN :
          /\ Statement(ok)
          /\ nodes' \in After(ok, nodes, UpdateAvailability(exec[n][j].on, exec[n][j].avail))
    BY <1>6, Zenon DEF FreeNode
  <2>2. exec[n][j].phase = "free" /\ exec[n][j].on \in Node /\ exec[n][j].avail \in Vec
    BY <1>0, <1>6, Zenon DEF FreeNode, ExecutorOK, Executor
  <2>3. nodes' \in [Node -> NodeRow]
    <3>1. UpdateAvailability(exec[n][j].on, exec[n][j].avail) \in [Node -> NodeRow]
      BY <1>0, <2>2, UpdateAvailabilityType, Zenon
    <3> QED
      BY <1>0, <2>1, <3>1, Zenon DEF After
  <2>4. WritesCopy(exec[n][j])
    BY <2>1, <2>2, Zenon DEF WritesCopy, After
  <2> DEFINE e == [NoExecutor EXCEPT !.phase = "final", !.result = exec[n][j].result]
  <2>5. e \in Executor /\ e.phase = "final" /\ ExecutorOK(e)
    BY <1>0, <2>2, NoCallTypes, Zenon DEF Executor, ExecutorOK
  <2>6. Continue(n, j, e)
    BY <1>6, Zenon DEF FreeNode
  <2> HIDE DEF e
  <2> QED
    BY <1>0, <1>1, <1>6, <2>1, <2>3, <2>4, <2>5, <2>6, Zenon
       DEF FreeNode, StoreTypeOK, ExecutorStep
<1>7. CASE Finalize(n, j)
  <2>0. exec[n][j].result \in JobStatus
    BY <1>7, Zenon DEF Finalize, ExecutorOK, Result, JobStatus
  <2>1. PICK ok \in BOOLEAN :
          Statement(ok) /\ jobs' \in After(ok, jobs, UpdateStatus(j, exec[n][j].result))
    BY <1>7, Zenon DEF Finalize
  <2>2. jobs' \in [Job -> JobRow]
    <3>1. UpdateStatus(j, exec[n][j].result) \in [Job -> JobRow]
      BY <1>0, <2>0, JobStatements, Zenon
    <3> QED
      BY <1>0, <2>1, <3>1, Zenon DEF After
  <2> QED
    BY <1>0, <1>1, <1>7, <2>1, <2>2, NoCallTypes, Zenon
       DEF Finalize, StoreTypeOK, WritesCopy, ExecutorStep, ExecutorOK
<1>8. CASE DropReport(n, j)
  BY <1>0, <1>8, StoreAssumption, NoCallTypes
     DEF DropReport, StoreTypeOK, WritesCopy, ExecutorStep, ExecutorOK
<1> QED
  BY <1>2, <1>3, <1>4, <1>5, <1>6, <1>7, <1>8, Zenon DEF ReportStep

(* The same for a poll, a claim and the end of a workload.                 *)
LEMMA AgentSteps ==
    ASSUME StoreTypeOK, ExecutionTypeOK, NEW n \in Node,
           \A j \in Job : ExecutorOK(exec[n][j]),
           \/ Poll(n)
           \/ \E j \in Job : Claim(n, j) \/ \E r \in Result : Finish(n, j, r)
    PROVE  /\ UNCHANGED store
           /\ inbox' \in [Node -> SUBSET Job] /\ ended' \subseteq Job \X Result
           /\ \/ exec' = exec
              \/ \E j \in Job, e \in Executor : ExecutorStep(n, j, e)
<1>0. /\ inbox \in [Node -> SUBSET Job] /\ ended \subseteq Job \X Result
      /\ exec \in [Node -> [Job -> Executor]]
  BY Zenon DEF ExecutionTypeOK
<1>1. CASE Poll(n)
  BY <1>0, <1>1, Zenon DEF Poll, ListScheduledForNode, store
<1>2. ASSUME NEW j \in Job, Claim(n, j)
      PROVE  /\ UNCHANGED store
             /\ inbox' \in [Node -> SUBSET Job] /\ ended' \subseteq Job \X Result
             /\ exec' = exec \/ \E e \in Executor : ExecutorStep(n, j, e)
  <2> DEFINE e == [NoExecutor EXCEPT !.phase = "start"]
  <2>1. e \in Executor /\ e.phase = "start"
    BY NoCallTypes, Zenon DEF Executor
  <2>2. exec' = exec \/ Continue(n, j, e)
    BY <1>2, Zenon DEF Claim
  <2> HIDE DEF e
  <2>3. exec' = exec \/ \E x \in Executor : ExecutorStep(n, j, x)
    BY <2>1, <2>2, Zenon DEF ExecutorStep, ExecutorOK
  <2> QED
    BY <1>0, <1>2, <2>3, Zenon DEF Claim
<1>3. ASSUME NEW j \in Job, NEW r \in Result, Finish(n, j, r)
      PROVE  /\ UNCHANGED store
             /\ inbox' \in [Node -> SUBSET Job] /\ ended' \subseteq Job \X Result
             /\ \E e \in Executor : ExecutorStep(n, j, e)
  <2> DEFINE e == [exec[n][j] EXCEPT !.phase = "fetch", !.result = r]
  <2>0. exec[n][j] \in Executor /\ r \in Result \cup {"none"}
    BY <1>0, Zenon
  <2>1. e \in Executor /\ e.phase = "fetch" /\ e.result = r
    BY <2>0, Zenon DEF Executor
  <2>2. Continue(n, j, e)
    BY <1>3, Zenon DEF Finish
  <2> HIDE DEF e
  <2>3. ExecutorStep(n, j, e)
    BY <2>1, <2>2, Zenon DEF ExecutorStep, ExecutorOK
  <2>4. <<j, r>> \in Job \X Result
    BY Zenon
  <2>5. ended' \subseteq Job \X Result
    BY <1>0, <1>3, <2>4, Zenon DEF Finish
  <2> QED
    BY <1>0, <1>3, <2>1, <2>3, <2>5, Zenon DEF Finish
<1> QED
  BY <1>1, <1>2, <1>3, Zenon

(* The same for a cancellation.                                            *)
AnswerStep(c, j, r) ==
    /\ r \in Cancel
    /\ CancelOK(r)
    /\ Answer(c, j, r)
    /\ r.phase = "free" => \A d \in Dim : r.avail[d] <= nodes[r.on].cap[d]

(* Every statement of a cancellation is a typed step of its request.       *)
LEMMA CancelSteps ==
    ASSUME StoreTypeOK, CancellationTypeOK, NEW c \in Client, NEW j \in Job,
           CancelOK(cancel[c][j]), BeginCancel(c, j) \/ CancelStep(c, j) \/ DropCancel(c, j)
    PROVE  /\ StoreTypeOK'
           /\ WritesCopy(cancel[c][j])
           /\ \E r \in Cancel : AnswerStep(c, j, r)
<1>0. /\ jobs \in [Job -> JobRow] /\ nodes \in [Node -> NodeRow] /\ clock \in Nat
      /\ events \in [Job -> Event] /\ faults \in 0..MaxFaults
      /\ cancel[c][j] \in Cancel
  BY Zenon DEF StoreTypeOK, CancellationTypeOK
<1>1. ASSUME NEW ok \in BOOLEAN, Statement(ok)
      PROVE  faults' \in 0..MaxFaults
  BY <1>0, <1>1, StatementType, Zenon
<1> DEFINE last == [NoCancel EXCEPT !.phase = "final"]
<1>2. last \in Cancel /\ last.phase = "final"
  BY NoCallTypes, Zenon DEF Cancel
<1> HIDE DEF last
<1>3. CASE BeginCancel(c, j)
  <2> DEFINE first == [NoCancel EXCEPT !.phase = "load", !.on = jobs[j].node]
  <2>1. \/ Answer(c, j, last)
        \/ jobs[j].node # NoNode /\ Answer(c, j, first)
    BY <1>3, Zenon DEF BeginCancel, last
  <2>2. jobs[j].node # NoNode =>
          first \in Cancel /\ first.phase = "load" /\ first.on \in Node
    BY <1>0, NoCallTypes, Zenon DEF Cancel, JobRow
  <2> HIDE DEF first
  <2>3. \E r \in Cancel : AnswerStep(c, j, r)
    BY <1>2, <2>1, <2>2, Zenon DEF AnswerStep, CancelOK
  <2> QED
    BY <1>0, <1>3, <2>3, Zenon DEF BeginCancel, store, StoreTypeOK, WritesCopy
<1>4. CASE CancelLoad(c, j)
  <2> DEFINE row == nodes[cancel[c][j].on]
             got == [cancel[c][j] EXCEPT !.phase = "free", !.avail = Release(row, Request[j]).avail]
  <2>1. PICK ok \in BOOLEAN : Statement(ok) /\ Answer(c, j, IF ok THEN got ELSE last)
    BY <1>4, Zenon DEF CancelLoad, last
  <2>2. cancel[c][j].on \in Node
    BY <1>4, Zenon DEF CancelLoad, CancelOK
  <2>3. row \in NodeRow /\ Request[j] \in Vec
    BY <1>0, <2>2, JobAssumption, Zenon
  <2> HIDE DEF row
  <2>4. /\ Release(row, Request[j]).avail \in Vec
        /\ \A d \in Dim : Release(row, Request[j]).avail[d] <= row.cap[d]
    <3>1. Release(row, Request[j]) \in NodeRow
      BY <2>3, ReleaseType, Zenon
    <3> QED
      BY <2>3, <3>1, ReleaseType, Zenon DEF NodeRow
  <2>5. /\ got \in Cancel /\ got.on = cancel[c][j].on
        /\ got.avail = Release(row, Request[j]).avail
    BY <1>0, <2>4, Zenon DEF Cancel
  <2> HIDE DEF got
  <2>6. \E r \in Cancel : AnswerStep(c, j, r)
    BY <1>2, <2>1, <2>2, <2>4, <2>5, Zenon DEF AnswerStep, CancelOK, row
  <2> QED
    BY <1>0, <1>1, <1>4, <2>1, <2>6, Zenon DEF CancelLoad, StoreTypeOK, WritesCopy
<1>5. CASE CancelFree(c, j)
  <2>1. PICK ok \in BOOLEAN :
          /\ Statement(ok)
          /\ nodes' \in After(ok, nodes, UpdateAvailability(cancel[c][j].on, cancel[c][j].avail))
    BY <1>5, Zenon DEF CancelFree
  <2>2. cancel[c][j].phase = "free" /\ cancel[c][j].on \in Node /\ cancel[c][j].avail \in Vec
    BY <1>0, <1>5, Zenon DEF CancelFree, CancelOK, Cancel
  <2>3. nodes' \in [Node -> NodeRow]
    <3>1. UpdateAvailability(cancel[c][j].on, cancel[c][j].avail) \in [Node -> NodeRow]
      BY <1>0, <2>2, UpdateAvailabilityType, Zenon
    <3> QED
      BY <1>0, <2>1, <3>1, Zenon DEF After
  <2>4. WritesCopy(cancel[c][j])
    BY <2>1, <2>2, Zenon DEF WritesCopy, After
  <2>5. \E r \in Cancel : AnswerStep(c, j, r)
    BY <1>2, <1>5, Zenon DEF CancelFree, AnswerStep, CancelOK, last
  <2> QED
    BY <1>0, <1>1, <1>5, <2>1, <2>3, <2>4, <2>5, Zenon DEF CancelFree, StoreTypeOK
<1>6. CASE CancelFinal(c, j)
  <2>1. PICK ok \in BOOLEAN :
          Statement(ok) /\ jobs' \in After(ok, jobs, UpdateStatus(j, "cancelled"))
    BY <1>6, Zenon DEF CancelFinal
  <2>2. jobs' \in [Job -> JobRow]
    <3>1. "cancelled" \in JobStatus
      BY Zenon DEF JobStatus
    <3>2. UpdateStatus(j, "cancelled") \in [Job -> JobRow]
      BY <1>0, <3>1, JobStatements, Zenon
    <3> QED
      BY <1>0, <2>1, <3>2, Zenon DEF After
  <2> QED
    BY <1>0, <1>1, <1>6, <2>1, <2>2, NoCallTypes, Zenon
       DEF CancelFinal, StoreTypeOK, WritesCopy, AnswerStep, CancelOK
<1>7. CASE DropCancel(c, j)
  BY <1>0, <1>7, StoreAssumption, NoCallTypes, SMTT(30)
     DEF DropCancel, StoreTypeOK, WritesCopy, AnswerStep, CancelOK
<1> QED
  BY <1>3, <1>4, <1>5, <1>6, <1>7, Zenon DEF CancelStep

-----------------------------------------------------------------------------
(* The inductive invariants of the whole system.                           *)
ClusterTypeInv == TypeInv /\ ExecutionTypeOK /\ CancellationTypeOK /\ HandlersOK

ClusterRangeInv == ClusterTypeInv /\ Bounded /\ CapacityKnown /\ CopiesBounded

(* With no call in flight everything is well typed.                        *)
LEMMA ClusterTypeInit == ClusterInit => ClusterTypeInv
<1> SUFFICES ASSUME ClusterInit PROVE ClusterTypeInv
  BY Zenon
<1>1. ExecutionTypeOK /\ CancellationTypeOK
  BY NoCallTypes, Zenon DEF ClusterInit, ExecutionInit, ExecutionTypeOK, CancellationInit,
                     CancellationTypeOK
<1>2. HandlersOK
  BY NoCallTypes, Zenon DEF ClusterInit, ExecutionInit, CancellationInit, HandlersOK, ExecutorOK,
                     CancelOK
<1> QED
  BY <1>1, <1>2, TypeInit, Zenon DEF ClusterInit, ClusterTypeInv

(* A step of the control plane leaves executors and cancellations alone,   *)
(* except that an agent's exit ends its executors.                         *)
LEMMA ControlPlaneStep ==
    ASSUME ClusterTypeInv, ClusterEngine \/ ClusterUsers \/ ClusterMembership
    PROVE  /\ [Next]_vars
           /\ ExecutionTypeOK'
           /\ \A n \in Node, j \in Job : exec'[n][j] = exec[n][j] \/ exec'[n][j] = NoExecutor
           /\ cancel' = cancel
<1>0. exec \in [Node -> [Job -> Executor]] /\ inbox \in [Node -> SUBSET Job] /\ ExecutionTypeOK
  BY Zenon DEF ClusterTypeInv, ExecutionTypeOK
<1>1. CASE ClusterEngine \/ ClusterUsers
  BY <1>0, <1>1, Zenon DEF ClusterEngine, ClusterUsers, Next, execution, ExecutionTypeOK
<1>2. CASE ClusterMembership
  <2>1. Next /\ cancel' = cancel
    BY <1>2, Zenon DEF ClusterMembership, Next, Agents
  <2>2. PICK n \in Node : UNCHANGED execution \/ AbandonAll(n)
    BY <1>2, Zenon DEF ClusterMembership
  <2>3. CASE UNCHANGED execution
    BY <1>0, <2>1, <2>3, Zenon DEF execution, ExecutionTypeOK
  <2>4. CASE AbandonAll(n)
    <3>1. [j \in Job |-> NoExecutor] \in [Job -> Executor]
      BY NoCallTypes, Zenon
    <3>2. exec' \in [Node -> [Job -> Executor]] /\ inbox' \in [Node -> SUBSET Job]
      BY <1>0, <2>4, <3>1, Zenon DEF AbandonAll
    <3>3. \A m \in Node, j \in Job : exec'[m][j] = exec[m][j] \/ exec'[m][j] = NoExecutor
      BY <1>0, <2>4, Zenon DEF AbandonAll
    <3> QED
      BY <1>0, <2>1, <2>4, <3>2, <3>3, Zenon DEF AbandonAll, ExecutionTypeOK
  <2> QED
    BY <2>2, <2>3, <2>4, Zenon
<1> QED
  BY <1>1, <1>2, Zenon

(* A step of an agent's executors, seen as the replacement of one of them. *)
LEMMA ExecutionStep ==
    ASSUME ClusterTypeInv, ClusterExecution
    PROVE  /\ StoreTypeOK' /\ ExecutionTypeOK'
           /\ UNCHANGED <<membership, tick, cancel>>
           /\ nodes' = nodes \/ \E n \in Node, j \in Job : WritesCopy(exec[n][j])
           /\ \/ exec' = exec
              \/ \E n \in Node, j \in Job, e \in Executor : ExecutorStep(n, j, e)
<1>0. StoreTypeOK /\ ExecutionTypeOK /\ HandlersOK
  BY Zenon DEF ClusterTypeInv, TypeInv, EngineInv
<1>1. UNCHANGED <<membership, tick, cancel>>
  BY Zenon DEF ClusterExecution
<1>2. PICK n \in Node :
         \/ Poll(n)
         \/ \E j \in Job : \/ Claim(n, j)
                           \/ \E r \in Result : Finish(n, j, r)
                           \/ ReportStep(n, j)
                           \/ DropReport(n, j)
  BY Zenon DEF ClusterExecution
<1>3. exec \in [Node -> [Job -> Executor]] /\ inbox \in [Node -> SUBSET Job]
      /\ ended \subseteq Job \X Result
  BY <1>0, Zenon DEF ExecutionTypeOK
<1>4. ASSUME NEW j \in Job, NEW e \in Executor, ExecutorStep(n, j, e)
      PROVE  exec' \in [Node -> [Job -> Executor]]
  BY <1>3, <1>4, ContinueType, Zenon DEF ExecutorStep
<1>5. CASE \E j \in Job : ReportStep(n, j) \/ DropReport(n, j)
  <2>1. PICK j \in Job : ReportStep(n, j) \/ DropReport(n, j)
    BY <1>5, Zenon
  <2>2. ExecutorOK(exec[n][j])
    BY <1>0, Zenon DEF HandlersOK
  <2>3. /\ StoreTypeOK'
        /\ WritesCopy(exec[n][j])
        /\ \E e \in Executor : ExecutorStep(n, j, e)
        /\ UNCHANGED <<inbox, ended>>
    BY <1>0, <2>1, <2>2, ExecutorSteps, Zenon
  <2> QED
    BY <1>1, <1>3, <1>4, <2>3, Zenon DEF ExecutionTypeOK
<1>6. CASE Poll(n) \/ \E j \in Job : Claim(n, j) \/ \E r \in Result : Finish(n, j, r)
  <2>1. /\ UNCHANGED store
        /\ inbox' \in [Node -> SUBSET Job] /\ ended' \subseteq Job \X Result
        /\ \/ exec' = exec
           \/ \E j \in Job, e \in Executor : ExecutorStep(n, j, e)
    BY <1>0, <1>6, AgentSteps, Zenon DEF HandlersOK
  <2> QED
    BY <1>0, <1>1, <1>3, <1>4, <2>1, Zenon DEF ExecutionTypeOK, store, StoreTypeOK
<1> QED
  BY <1>2, <1>5, <1>6, Zenon

(* A step of a cancellation, seen as the replacement of one request.       *)
LEMMA CancellationStep ==
    ASSUME ClusterTypeInv, ClusterCancellation
    PROVE  /\ StoreTypeOK'
           /\ UNCHANGED <<membership, tick, execution>>
           /\ \E c \in Client, j \in Job : WritesCopy(cancel[c][j])
           /\ \E c \in Client, j \in Job, r \in Cancel : AnswerStep(c, j, r)
<1>0. StoreTypeOK /\ CancellationTypeOK /\ HandlersOK
  BY Zenon DEF ClusterTypeInv, TypeInv, EngineInv
<1>1. PICK c \in Client, j \in Job : BeginCancel(c, j) \/ CancelStep(c, j) \/ DropCancel(c, j)
  BY Zenon DEF ClusterCancellation
<1>2. CancelOK(cancel[c][j])
  BY <1>0, Zenon DEF HandlersOK
<1>3. StoreTypeOK' /\ WritesCopy(cancel[c][j]) /\ \E r \in Cancel : AnswerStep(c, j, r)
  BY <1>0, <1>1, <1>2, CancelSteps, Zenon
<1> QED
  BY <1>3, Zenon DEF ClusterCancellation

(* Every step of the composition keeps the types.                          *)
LEMMA ClusterTypeStep == ClusterTypeInv /\ [ClusterNext]_cluster => ClusterTypeInv'
<1> SUFFICES ASSUME ClusterTypeInv, [ClusterNext]_cluster PROVE ClusterTypeInv'
  BY Zenon
<1>0. /\ TypeInv /\ ExecutionTypeOK /\ CancellationTypeOK /\ HandlersOK
      /\ exec \in [Node -> [Job -> Executor]] /\ cancel \in [Client -> [Job -> Cancel]]
  BY Zenon DEF ClusterTypeInv, ExecutionTypeOK, CancellationTypeOK
<1>1. CASE ClusterEngine \/ ClusterUsers \/ ClusterMembership
  <2>1. /\ [Next]_vars
        /\ ExecutionTypeOK'
        /\ \A n \in Node, j \in Job : exec'[n][j] = exec[n][j] \/ exec'[n][j] = NoExecutor
        /\ cancel' = cancel
    BY <1>1, ControlPlaneStep, Zenon
  <2>2. TypeInv'
    BY <1>0, <2>1, TypeStep, Zenon
  <2>3. HandlersOK'
    BY <1>0, <2>1, NoCallTypes, Zenon DEF HandlersOK, ExecutorOK, CancelOK
  <2> QED
    BY <1>0, <2>1, <2>2, <2>3, Zenon DEF ClusterTypeInv, CancellationTypeOK
<1>2. CASE ClusterExecution
  <2>1. /\ StoreTypeOK' /\ ExecutionTypeOK'
        /\ UNCHANGED <<membership, tick, cancel>>
        /\ \/ exec' = exec
           \/ \E n \in Node, j \in Job, e \in Executor : ExecutorStep(n, j, e)
    BY <1>2, ExecutionStep, Zenon
  <2>2. TypeInv'
    BY <1>0, <2>1, Zenon DEF TypeInv, EngineInv, EngineTypeOK, TargetOK, MembershipTypeOK, membership
  <2>3. CASE exec' = exec
    BY <1>0, <2>1, <2>2, <2>3, Zenon DEF ClusterTypeInv, CancellationTypeOK, HandlersOK
  <2>4. ASSUME NEW n \in Node, NEW j \in Job, NEW e \in Executor, ExecutorStep(n, j, e)
        PROVE  ClusterTypeInv'
    <3>1. \A m \in Node, k \in Job :
             exec'[m][k] = IF m = n /\ k = j THEN e ELSE exec[m][k]
      <4>1. Continue(n, j, e)
        BY <2>4, Zenon DEF ExecutorStep
      <4> QED
        BY <1>0, <4>1, ContinueType, SMT
    <3>2. \A m \in Node, k \in Job : ExecutorOK(exec'[m][k])
      BY <1>0, <2>4, <3>1, Zenon DEF ExecutorStep, HandlersOK
    <3> QED
      BY <1>0, <2>1, <2>2, <3>2, Zenon DEF ClusterTypeInv, CancellationTypeOK, HandlersOK, ExecutorOK
  <2> QED
    BY <2>1, <2>3, <2>4, Zenon
<1>3. CASE ClusterCancellation
  <2>1. /\ StoreTypeOK'
        /\ UNCHANGED <<membership, tick, execution>>
        /\ \E c \in Client, j \in Job, r \in Cancel : AnswerStep(c, j, r)
    BY <1>3, CancellationStep, Zenon
  <2>2. TypeInv'
    BY <1>0, <2>1, Zenon DEF TypeInv, EngineInv, EngineTypeOK, TargetOK, MembershipTypeOK, membership
  <2>3. PICK c \in Client, j \in Job, r \in Cancel : AnswerStep(c, j, r)
    BY <2>1, Zenon
  <2>4. /\ cancel' \in [Client -> [Job -> Cancel]]
        /\ \A b \in Client, k \in Job :
              cancel'[b][k] = IF b = c /\ k = j THEN r ELSE cancel[b][k]
    <3>1. Answer(c, j, r)
      BY <2>3, Zenon DEF AnswerStep
    <3> QED
      BY <1>0, <3>1, AnswerType, SMT
  <2>5. \A b \in Client, k \in Job : CancelOK(cancel'[b][k])
    BY <1>0, <2>3, <2>4, Zenon DEF AnswerStep, HandlersOK
  <2> QED
    BY <1>0, <2>1, <2>2, <2>4, <2>5, Zenon
       DEF ClusterTypeInv, ExecutionTypeOK, CancellationTypeOK, HandlersOK, CancelOK, execution
<1>4. CASE UNCHANGED cluster
  <2>1. UNCHANGED vars /\ UNCHANGED execution /\ cancel' = cancel
    BY <1>4, Zenon DEF cluster
  <2>2. TypeInv'
    BY <1>0, <2>1, TypeStep, Zenon
  <2> QED
    BY <1>0, <2>1, <2>2, Zenon
       DEF ClusterTypeInv, ExecutionTypeOK, CancellationTypeOK, HandlersOK, execution
<1> QED
  BY <1>1, <1>2, <1>3, <1>4, Zenon DEF ClusterNext

(* Every table, local and call in flight keeps its type, for any number of *)
(* jobs, nodes, clients and faults: no interleaving makes the engine or a  *)
(* handler compute a negative availability.                                *)
THEOREM ClusterTypeCorrect == ClusterSpec => []ClusterTypeOK
<1>1. ClusterTypeInv => ClusterTypeOK
  BY Zenon DEF ClusterTypeInv, TypeInv, EngineInv, ClusterTypeOK, TypeOK
<1> QED
  BY <1>1, ClusterTypeInit, ClusterTypeStep, PTL DEF ClusterSpec

(* A write-back of a bounded copy leaves capacities and bounds intact.     *)
LEMMA CopyWritten ==
    ASSUME StoreTypeOK, Bounded, NEW e, e.phase = "free" => e.on \in Node,
           CopyBounded(e), WritesCopy(e), tick' = tick
    PROVE  Bounded' /\ \A n \in Node : nodes'[n].cap = nodes[n].cap
<1>0. nodes \in [Node -> NodeRow]
  BY Zenon DEF StoreTypeOK
<1>1. CASE nodes' = nodes
  BY <1>1, Zenon DEF Bounded
<1>2. CASE e.phase = "free" /\ nodes' = UpdateAvailability(e.on, e.avail)
  <2>1. \A n \in Node : /\ nodes'[n].cap = nodes[n].cap
                        /\ nodes'[n].avail = IF n = e.on THEN e.avail ELSE nodes[n].avail
    BY <1>0, <1>2, Zenon DEF UpdateAvailability, NodeRow
  <2>2. \A d \in Dim : e.avail[d] <= nodes[e.on].cap[d]
    BY <1>2, Zenon DEF CopyBounded
  <2> QED
    BY <2>1, <2>2, Zenon DEF Bounded
<1> QED
  BY <1>1, <1>2, Zenon DEF WritesCopy

(* The copy e stays within the capacity of its row after the step.         *)
CopyStillBounded(e) ==
    e.phase = "free" => \A d \in Dim : e.avail[d] <= nodes'[e.on].cap[d]

(* A copy stays bounded while capacities do not shrink.                    *)
LEMMA CopyStays ==
    ASSUME NEW e, e.phase = "free" => e.on \in Node, e.avail \in Vec, CopyBounded(e),
           \A n \in Node, d \in Dim :
              /\ nodes[n].cap[d] \in Nat /\ nodes'[n].cap[d] \in Nat
              /\ nodes[n].cap[d] <= nodes'[n].cap[d]
    PROVE  CopyStillBounded(e)
BY DEF CopyBounded, CopyStillBounded, Vec

(* Initially no copy of an availability is in flight.                      *)
LEMMA ClusterRangeInit == ClusterInit => ClusterRangeInv
<1> SUFFICES ASSUME ClusterInit PROVE ClusterRangeInv
  BY Zenon
<1>1. CopiesBounded
  BY NoCallTypes, Zenon DEF ClusterInit, ExecutionInit, CancellationInit, CopiesBounded, CopyBounded
<1> QED
  BY <1>1, RangeInit, ClusterTypeInit, Zenon DEF ClusterInit, ClusterRangeInv, RangeInv

(* No step of the control plane shrinks a capacity.                        *)
LEMMA CapacitiesGrow ==
    ASSUME FixedCapacity, RangeInv, [Next]_vars
    PROVE  \A n \in Node, d \in Dim : nodes[n].cap[d] <= nodes'[n].cap[d]
<1>1. EngineInv /\ StoreTypeOK /\ CapacityKnown
  BY Zenon DEF RangeInv, TypeInv, EngineInv
<1>2. \A n \in Node, d \in Dim : nodes[n].cap[d] \in Nat
  BY <1>1, Zenon DEF StoreTypeOK, NodeRow, Vec
<1>3. CASE Agents
  BY <1>1, <1>3, MembershipBounds, Zenon DEF Agents
<1>4. ASSUME Engines \/ Users \/ UNCHANGED vars
      PROVE  \A n \in Node : nodes'[n].cap = nodes[n].cap
  BY <1>1, <1>4, EngineWrites, UserStep, Zenon DEF Engines, Users, vars, store
<1> QED
  BY <1>2, <1>3, <1>4 DEF Next

(* With fixed capacities every step keeps rows and copies in range.        *)
LEMMA ClusterRangeStep ==
    ASSUME FixedCapacity, ClusterRangeInv, [ClusterNext]_cluster
    PROVE  ClusterRangeInv'
<1>0. ClusterTypeInv /\ TypeInv /\ StoreTypeOK /\ HandlersOK /\ ClusterTypeInv'
  BY ClusterTypeStep, Zenon DEF ClusterRangeInv, ClusterTypeInv, TypeInv, EngineInv
<1>1. Bounded /\ CapacityKnown /\ CopiesBounded
  BY Zenon DEF ClusterRangeInv
<1>2. /\ nodes \in [Node -> NodeRow] /\ nodes' \in [Node -> NodeRow]
      /\ exec \in [Node -> [Job -> Executor]] /\ cancel \in [Client -> [Job -> Cancel]]
  BY <1>0, Zenon DEF ClusterTypeInv, TypeInv, EngineInv, StoreTypeOK, ExecutionTypeOK,
              CancellationTypeOK
<1>3. \A n \in Node, d \in Dim : nodes[n].cap[d] \in Nat /\ nodes'[n].cap[d] \in Nat
  BY <1>2 DEF NodeRow, Vec
<1>4. /\ \A n \in Node, j \in Job :
            /\ exec[n][j].phase = "free" => exec[n][j].on \in Node
            /\ exec[n][j].avail \in Vec
            /\ CopyBounded(exec[n][j])
      /\ \A c \in Client, j \in Job :
            /\ cancel[c][j].phase = "free" => cancel[c][j].on \in Node
            /\ cancel[c][j].avail \in Vec
            /\ CopyBounded(cancel[c][j])
  BY <1>0, <1>1, <1>2, Zenon DEF HandlersOK, ExecutorOK, CancelOK, CopiesBounded, Executor, Cancel
<1>5. ASSUME \A n \in Node, d \in Dim : nodes[n].cap[d] <= nodes'[n].cap[d]
      PROVE  /\ \A n \in Node, j \in Job : CopyStillBounded(exec[n][j])
             /\ \A c \in Client, j \in Job : CopyStillBounded(cancel[c][j])
  BY <1>3, <1>4, <1>5, CopyStays, Zenon
<1>6. ASSUME [Next]_vars,
             \A n \in Node, j \in Job : exec'[n][j] = exec[n][j] \/ exec'[n][j] = NoExecutor,
             cancel' = cancel
      PROVE  ClusterRangeInv'
  <2>1. RangeInv
    BY <1>0, <1>1, Zenon DEF RangeInv
  <2>2. RangeInv'
    BY <1>6, <2>1, RangeStep, Zenon
  <2>3. /\ \A n \in Node, j \in Job : CopyStillBounded(exec[n][j])
        /\ \A c \in Client, j \in Job : CopyStillBounded(cancel[c][j])
    BY <1>5, <1>6, <2>1, CapacitiesGrow, Zenon
  <2>4. CopiesBounded'
    BY <1>6, <2>3, NoCallTypes, Zenon DEF CopiesBounded, CopyBounded, CopyStillBounded
  <2> QED
    BY <1>0, <2>2, <2>4, Zenon DEF ClusterRangeInv, RangeInv
<1>7. CASE ClusterEngine \/ ClusterUsers \/ ClusterMembership
  BY <1>0, <1>6, <1>7, ControlPlaneStep, Zenon
<1>8. CASE UNCHANGED cluster
  BY <1>6, <1>8, Zenon DEF cluster, execution
<1>9. CASE ClusterExecution
  <2>1. /\ UNCHANGED <<membership, tick, cancel>>
        /\ nodes' = nodes \/ \E n \in Node, j \in Job : WritesCopy(exec[n][j])
        /\ \/ exec' = exec
           \/ \E n \in Node, j \in Job, e \in Executor : ExecutorStep(n, j, e)
    BY <1>0, <1>9, ExecutionStep, Zenon
  <2>2. Bounded' /\ \A n \in Node : nodes'[n].cap = nodes[n].cap
    <3>1. CASE nodes' = nodes
      BY <1>1, <2>1, <3>1, Zenon DEF Bounded
    <3>2. ASSUME NEW n \in Node, NEW j \in Job, WritesCopy(exec[n][j])
          PROVE  Bounded' /\ \A m \in Node : nodes'[m].cap = nodes[m].cap
      BY <1>0, <1>1, <1>4, <2>1, <3>2, CopyWritten, Zenon
    <3> QED
      BY <2>1, <3>1, <3>2, Zenon
  <2>3. /\ \A n \in Node, j \in Job : CopyStillBounded(exec[n][j])
        /\ \A c \in Client, j \in Job : CopyStillBounded(cancel[c][j])
    <3>1. \A n \in Node, d \in Dim : nodes[n].cap[d] <= nodes'[n].cap[d]
      BY <1>3, <2>2
    <3> QED
      BY <1>5, <3>1, Zenon
  <2>4. CapacityKnown'
    BY <1>1, <2>2, Zenon DEF CapacityKnown
  <2>5. \A n \in Node, j \in Job :
           exec'[n][j].phase = "free" =>
              \A d \in Dim : exec'[n][j].avail[d] <= nodes'[exec'[n][j].on].cap[d]
    <3>1. CASE exec' = exec
      BY <2>3, <3>1, Zenon DEF CopyStillBounded
    <3>2. ASSUME NEW n \in Node, NEW j \in Job, NEW e \in Executor, ExecutorStep(n, j, e)
          PROVE  \A m \in Node, k \in Job :
                    exec'[m][k].phase = "free" =>
                       \A d \in Dim : exec'[m][k].avail[d] <= nodes'[exec'[m][k].on].cap[d]
      <4>1. \A m \in Node, k \in Job :
               exec'[m][k] = IF m = n /\ k = j THEN e ELSE exec[m][k]
        <5>1. Continue(n, j, e)
          BY <3>2, Zenon DEF ExecutorStep
        <5> QED
          BY <1>2, <5>1, ContinueType, SMT
      <4>2. CopyStillBounded(e)
        BY <2>2, <3>2, Zenon DEF ExecutorStep, ExecutorOK, CopyStillBounded
      <4>3. ASSUME NEW m \in Node, NEW k \in Job
            PROVE  CopyStillBounded(exec'[m][k])
        <5>1. CASE m = n /\ k = j
          BY <4>1, <4>2, <5>1, Zenon
        <5>2. CASE ~ (m = n /\ k = j)
          BY <2>3, <4>1, <5>2, Zenon
        <5> QED
          BY <5>1, <5>2, Zenon
      <4> QED
        BY <4>3, Zenon DEF CopyStillBounded
    <3> QED
      BY <2>1, <3>1, <3>2, Zenon
  <2>6. CopiesBounded'
    BY <2>1, <2>3, <2>5, Zenon DEF CopiesBounded, CopyBounded, CopyStillBounded
  <2> QED
    BY <1>0, <2>2, <2>4, <2>6, Zenon DEF ClusterRangeInv
<1>10. CASE ClusterCancellation
  <2>1. /\ UNCHANGED <<membership, tick, execution>>
        /\ \E c \in Client, j \in Job : WritesCopy(cancel[c][j])
        /\ \E c \in Client, j \in Job, r \in Cancel : AnswerStep(c, j, r)
    BY <1>0, <1>10, CancellationStep, Zenon
  <2>2. Bounded' /\ \A n \in Node : nodes'[n].cap = nodes[n].cap
    <3>1. PICK c \in Client, j \in Job : WritesCopy(cancel[c][j])
      BY <2>1, Zenon
    <3> QED
      BY <1>0, <1>1, <1>4, <2>1, <3>1, CopyWritten, Zenon
  <2>3. /\ \A n \in Node, j \in Job : CopyStillBounded(exec[n][j])
        /\ \A c \in Client, j \in Job : CopyStillBounded(cancel[c][j])
    <3>1. \A n \in Node, d \in Dim : nodes[n].cap[d] <= nodes'[n].cap[d]
      BY <1>3, <2>2
    <3> QED
      BY <1>5, <3>1, Zenon
  <2>4. CapacityKnown'
    BY <1>1, <2>2, Zenon DEF CapacityKnown
  <2>5. PICK c \in Client, j \in Job, r \in Cancel : AnswerStep(c, j, r)
    BY <2>1, Zenon
  <2>6. \A b \in Client, k \in Job :
           cancel'[b][k] = IF b = c /\ k = j THEN r ELSE cancel[b][k]
    <3>1. Answer(c, j, r)
      BY <2>5, Zenon DEF AnswerStep
    <3> QED
      BY <1>2, <3>1, AnswerType, SMT
  <2>7. CopyStillBounded(r)
    BY <2>2, <2>5, Zenon DEF AnswerStep, CancelOK, CopyStillBounded
  <2>8. CopiesBounded'
    <3>1. \A n \in Node, k \in Job :
             exec'[n][k].phase = "free" =>
                \A d \in Dim : exec'[n][k].avail[d] <= nodes'[exec'[n][k].on].cap[d]
      <4>1. exec' = exec
        BY <2>1, Zenon DEF execution
      <4> QED
        BY <2>3, <4>1, Zenon DEF CopyStillBounded
    <3>2. ASSUME NEW b \in Client, NEW k \in Job
          PROVE  cancel'[b][k].phase = "free" =>
                    \A d \in Dim : cancel'[b][k].avail[d] <= nodes'[cancel'[b][k].on].cap[d]
      <4>1. CASE b = c /\ k = j
        <5>1. cancel'[b][k] = r
          BY <2>6, <4>1, Zenon
        <5> QED
          BY <2>7, <5>1, Zenon DEF CopyStillBounded
      <4>2. CASE ~ (b = c /\ k = j)
        <5>1. cancel'[b][k] = cancel[b][k]
          BY <2>6, <4>2, Zenon
        <5> QED
          BY <2>3, <5>1, Zenon DEF CopyStillBounded
      <4> QED
        BY <4>1, <4>2, Zenon
    <3> QED
      BY <3>1, <3>2, Zenon DEF CopiesBounded, CopyBounded
  <2> QED
    BY <1>0, <2>2, <2>4, <2>8, Zenon DEF ClusterRangeInv
<1> QED
  BY <1>7, <1>8, <1>9, <1>10, Zenon DEF ClusterNext

(* Where machines keep their size, no node ever advertises more than it    *)
(* has, although engine, reports and cancellations all write back values   *)
(* computed from stale reads.  (They may well advertise less, or what is   *)
(* already taken: see LedgerMatches.)                                      *)
THEOREM ClusterAvailabilityCorrect ==
    ASSUME FixedCapacity
    PROVE  ClusterSpec => []ClusterAvailabilityInRange
<1>1. ClusterRangeInv => ClusterAvailabilityInRange
  BY Zenon DEF ClusterRangeInv, Bounded, CopiesBounded, CopyBounded, ClusterAvailabilityInRange,
         AvailabilityInRange
<1>2. ClusterRangeInv /\ [ClusterNext]_cluster => ClusterRangeInv'
  BY ClusterRangeStep, Zenon
<1> QED
  BY <1>1, <1>2, ClusterRangeInit, PTL DEF ClusterSpec

-----------------------------------------------------------------------------
(* What the engine may do to the row of a job.                             *)
RowStep(j) ==
    \/ jobs'[j] = jobs[j]
    \/ /\ jobs'[j].status \in {"queued", "preempted"}
       /\ jobs'[j].retry \in {jobs[j].retry, jobs[j].retry + 1}
    \/ /\ jobs'[j].status = "scheduled" /\ jobs'[j].retry = jobs[j].retry
       /\ jobs'[j].node \in Node /\ tick.view[jobs'[j].node].status = "ready"
    \/ /\ jobs'[j].status = "failed" /\ jobs'[j].retry = jobs[j].retry
       /\ \E lost \in tick.lost : lost.job = j /\ lost.retry \in Nat /\ lost.retry >= MaxRetries[j]

(* It places jobs on nodes it takes to be ready and fails those it has     *)
(* listed as out of retries.                                               *)
LEMMA EngineRows ==
    ASSUME EngineInv, EngineNext, NEW j \in Job
    PROVE  RowStep(j)
<1>0. jobs \in [Job -> JobRow] /\ tick \in TickState /\ jobs[j].retry \in Nat
  BY Zenon DEF EngineInv, StoreTypeOK, EngineTypeOK, JobRow
<1>00. "queued" \in JobStatus /\ "preempted" \in JobStatus /\ "failed" \in JobStatus
  BY Zenon DEF JobStatus
<1>1. ASSUME NEW k \in Job, NEW s \in {"queued", "preempted"},
             jobs' = Requeue(k, s) \/ jobs' = UpdateStatus(k, s)
      PROVE  RowStep(j)
  <2>1. CASE k # j
    BY <1>0, <1>00, <1>1, <2>1, UpdateEffect, RequeueRow DEF RowStep
  <2>2. CASE k = j
    BY <1>0, <1>00, <1>1, <2>2, UpdateEffect, RequeueRow DEF RowStep
  <2> QED
    BY <2>1, <2>2, Zenon
<1>2. ASSUME jobs' = jobs PROVE RowStep(j)
  BY <1>2, Zenon DEF RowStep
<1>3. CASE RequeueLost
  <2>1. PICK lost \in tick.lost :
          /\ lost.job \in Job /\ lost.retry \in Nat
          /\ \/ jobs' = IF Exhausted(lost) THEN UpdateStatus(lost.job, "failed")
                                           ELSE Requeue(lost.job, "queued")
             \/ jobs' = jobs
    BY <1>3, RequeueEffect, Zenon
  <2>2. CASE Exhausted(lost) /\ jobs' = UpdateStatus(lost.job, "failed")
    <3>1. CASE lost.job # j
      BY <1>0, <1>00, <2>1, <2>2, <3>1, UpdateEffect DEF RowStep
    <3>2. CASE lost.job = j
      <4>1. jobs'[j].status = "failed" /\ jobs'[j].retry = jobs[j].retry
        BY <1>0, <1>00, <2>2, <3>2, UpdateEffect
      <4>2. lost.retry >= MaxRetries[j]
        BY <2>2, <3>2, Zenon DEF Exhausted
      <4> QED
        BY <2>1, <3>2, <4>1, <4>2, Zenon DEF RowStep
    <3> QED
      BY <3>1, <3>2, Zenon
  <2>3. CASE jobs' = Requeue(lost.job, "queued")
    BY <1>1, <2>1, <2>3, Zenon
  <2> QED
    BY <1>2, <2>1, <2>2, <2>3, Zenon
<1>4. ASSUME NEW k \in Job, NEW n \in Node, CommitPlacement(k, n) PROVE RowStep(j)
  <2>1. Fits(tick.view[n], Request[k]) /\ jobs' \in {jobs, Schedule(k, n)}
    BY <1>4, CommitEffect, Zenon
  <2>2. tick.view[n].status = "ready"
    BY <2>1, Zenon DEF Fits, Schedulable
  <2>3. CASE k # j /\ jobs' = Schedule(k, n)
    BY <1>0, <2>3, ScheduleEffect DEF RowStep
  <2>4. CASE k = j /\ jobs' = Schedule(k, n)
    <3>1. jobs'[j].status = "scheduled" /\ jobs'[j].retry = jobs[j].retry /\ jobs'[j].node = n
      BY <1>0, <2>4, ScheduleEffect, Zenon
    <3> QED
      BY <2>2, <3>1, Zenon DEF RowStep
  <2> QED
    BY <1>2, <2>1, <2>3, <2>4, Zenon
<1>5. ASSUME NEW v \in Job, EvictVictim(v) \/ ReturnVictim(v) PROVE RowStep(j)
  <2>1. jobs' \in {jobs, Requeue(v, "preempted"), UpdateStatus(v, "queued")}
    BY <1>5, EvictEffect, ReturnEffect, Zenon
  <2> QED
    BY <1>1, <1>2, <2>1, Zenon
<1>6. ASSUME NEW k \in Job, RecordPlacement(k) \/ GiveUp(k) \/ PlanPreemption(k) PROVE RowStep(j)
  BY <1>2, <1>6, RecordEffect, PlanEffect, Zenon DEF store
<1>7. CASE StartTick \/ ListLost
  BY <1>2, <1>7, StartEffect, ListLostEffect, Zenon
<1>8. CASE ListNodes \/ ListQueued \/ ListActive \/ OrderQueue
  BY <1>2, <1>8, ListingEffect, Zenon
<1>9. CASE PersistPlacement \/ PersistEviction
  BY <1>2, <1>9, PersistEffect, Zenon
<1>10. CASE Stop
  BY <1>2, <1>10, Zenon DEF Stop, store
<1> QED
  BY <1>3, <1>4, <1>5, <1>6, <1>7, <1>8, <1>9, <1>10, Zenon DEF EngineNext, TickStep

(* What it knows of nodes and lost jobs it has from the tables.            *)
LEMMA EngineCopies ==
    ASSUME EngineInv, EngineNext
    PROVE  /\ \A n \in Node :
                 \/ tick'.view[n].status = tick.view[n].status
                 \/ tick'.view[n].status = nodes[n].status
                 \/ tick'.view[n].status = "absent"
           /\ \/ tick'.lost \subseteq tick.lost
              \/ tick'.lost = LostActive /\ jobs' = jobs
           /\ \A n \in Node : nodes'[n].status = "absent" <=> nodes[n].status = "absent"
<1>0. tick \in TickState /\ nodes \in [Node -> NodeRow] /\ tick.view \in [Node -> NodeRow]
  BY Zenon DEF EngineInv, StoreTypeOK, EngineTypeOK, TickState
<1> DEFINE Views == \A n \in Node : \/ tick'.view[n].status = tick.view[n].status
                                    \/ tick'.view[n].status = nodes[n].status
                                    \/ tick'.view[n].status = "absent"
           Losts == tick'.lost \subseteq tick.lost \/ (tick'.lost = LostActive /\ jobs' = jobs)
<1>1. ASSUME tick' = Idle PROVE Views /\ Losts
  BY <1>1, IdleFields DEF NoNodeRow
<1>2. \A n \in Node : nodes'[n].status = "absent" <=> nodes[n].status = "absent"
  <2>1. CASE StartTick
    <3>1. nodes' \in {nodes, MarkStaleDown}
      BY <2>1, StartEffect, Zenon
    <3> QED
      BY <1>0, <3>1, Zenon DEF MarkStaleDown, StaleNodes, NodeRow
  <2> QED
    BY <2>1, StatusWriters, Zenon
<1> SUFFICES Views /\ Losts
  BY <1>2, Zenon
<1>3. CASE StartTick \/ ListLost \/ RequeueLost
  <2>1. tick'.view = tick.view
    BY <1>3, StartEffect, ListLostEffect, RequeueEffect, Zenon DEF KeepsView
  <2>2. ASSUME StartTick PROVE Losts
    BY <2>2, StartEffect, Zenon
  <2>3. ASSUME ListLost PROVE Losts
    BY <2>3, ListLostEffect, Zenon
  <2>4. ASSUME RequeueLost PROVE Losts
    <3>1. PICK lost \in tick.lost : tick'.lost = tick.lost \ {lost}
      BY <2>4, RequeueEffect, Zenon
    <3> QED
      BY <3>1, Zenon
  <2>5. Losts
    BY <1>3, <2>2, <2>3, <2>4, Zenon
  <2> QED
    BY <2>1, <2>5, Zenon
<1>4. CASE ListNodes \/ ListQueued \/ ListActive \/ OrderQueue
  BY <1>1, <1>4, ListingEffect, Zenon DEF KeepsView, KeepsLost
<1>5. ASSUME NEW j \in Job, NEW n \in Node, CommitPlacement(j, n) PROVE Views /\ Losts
  <2>1. /\ Fits(tick.view[n], Request[j]) /\ tick.view[n] \in NodeRow /\ Request[j] \in Vec
    BY <1>0, <1>5, CommitEffect, JobAssumption, Zenon
  <2>2. /\ Reserve(tick.view[n], Request[j]) \in NodeRow
        /\ Reserve(tick.view[n], Request[j]).status = tick.view[n].status
        /\ Release(Reserve(tick.view[n], Request[j]), Request[j]).status = tick.view[n].status
    BY <2>1, ReserveType, ReleaseType
  <2>3. /\ \A m \in Node \ {n} : tick'.view[m] = tick.view[m] \/ tick' = Idle
        /\ \/ tick' = Idle
           \/ /\ KeepsLost
              /\ \/ tick'.view[n] = Reserve(tick.view[n], Request[j])
                 \/ tick'.view[n] = Release(Reserve(tick.view[n], Request[j]), Request[j])
    BY <1>5, CommitEffect, Zenon DEF Advanced
  <2> QED
    BY <1>1, <2>2, <2>3, Zenon DEF KeepsLost
<1>6. CASE PersistPlacement \/ PersistEviction
  <2>1. tick'.view = tick.view /\ tick'.lost = tick.lost
    BY <1>6, PersistEffect, Zenon DEF KeepsView, KeepsLost
  <2> QED
    BY <2>1, Zenon
<1>7. ASSUME NEW j \in Job, RecordPlacement(j) \/ GiveUp(j) PROVE Views /\ Losts
  BY <1>1, <1>7, RecordEffect, Zenon DEF Advanced, KeepsView, KeepsLost
<1>8. ASSUME NEW j \in Job, PlanPreemption(j) PROVE Views /\ Losts
  BY <1>8, PlanEffect, Zenon DEF KeepsView, KeepsLost
<1>9. ASSUME NEW v \in Job, EvictVictim(v) PROVE Views /\ Losts
  <2>1. /\ tick.target \in Node /\ KeepsLost
        /\ tick'.view[tick.target] = Release(tick.view[tick.target], Request[v])
        /\ \A m \in Node \ {tick.target} : tick'.view[m] = tick.view[m]
    BY <1>9, EvictEffect, Zenon
  <2>2. tick.view[tick.target] \in NodeRow /\ Request[v] \in Vec
    BY <1>0, <2>1, JobAssumption, Zenon
  <2>3. tick'.view[tick.target].status = tick.view[tick.target].status
    BY <2>1, <2>2, ReleaseType
  <2> QED
    BY <2>1, <2>3, Zenon DEF KeepsLost
<1>10. ASSUME NEW v \in Job, ReturnVictim(v) PROVE Views /\ Losts
  BY <1>10, ReturnEffect, Zenon DEF KeepsView, KeepsLost
<1>11. CASE Stop
  BY <1>1, <1>11, Zenon DEF Stop
<1> QED
  BY <1>3, <1>4, <1>5, <1>6, <1>7, <1>8, <1>9, <1>10, <1>11, Zenon DEF EngineNext, TickStep

-----------------------------------------------------------------------------
(* The engine's view lists only registered nodes.                          *)
ViewRegistered == \A n \in Node : tick.view[n].status # "absent" => nodes[n].status # "absent"

(* A job it has listed as lost was submitted, and has used at least as     *)
(* many retries as were read.                                              *)
LostKnown ==
    \A lost \in tick.lost :
        /\ lost.job \in Job /\ lost.retry \in Nat
        /\ jobs[lost.job].status # "absent" /\ lost.retry <= jobs[lost.job].retry

(* A result being reported is one the workload ended with.                 *)
Reporting(e) == e.phase \in {"fetch", "load", "free", "final"}

ResultsEarned ==
    \A n \in Node, j \in Job : Reporting(exec[n][j]) => <<j, exec[n][j].result>> \in ended

VerdictInv ==
    ClusterTypeInv /\ ScheduledHasNode /\ VerdictsEarned /\ ViewRegistered /\ LostKnown /\ ResultsEarned

(* What anything but the engine may do to the row of a job.                *)
OtherRow(j) ==
    \/ jobs'[j] = jobs[j]
    \/ jobs[j].status = "absent" /\ jobs'[j].status = "queued"
    \/ /\ jobs'[j].status \in {"running", "cancelled"} \cup Result
       /\ jobs'[j].retry = jobs[j].retry
       /\ jobs'[j].status \in Result => <<j, jobs'[j].status>> \in ended

(* Rows are safe if they change as the engine or anything else may change  *)
(* them.                                                                   *)
LEMMA VerdictsKept ==
    ASSUME VerdictInv, ClusterTypeInv', \A j \in Job : RowStep(j) \/ OtherRow(j),
           ended \subseteq ended',
           \A n \in Node : nodes[n].status # "absent" => nodes'[n].status # "absent"
    PROVE  /\ ScheduledHasNode' /\ VerdictsEarned'
           /\ \A j \in Job : jobs[j].status # "absent" =>
                 jobs'[j].status # "absent" /\ jobs[j].retry <= jobs'[j].retry
<1>0. ScheduledHasNode /\ VerdictsEarned /\ ViewRegistered /\ LostKnown
  BY Zenon DEF VerdictInv
<1> DEFINE Grown(j) == jobs[j].status # "absent" =>
                 jobs'[j].status # "absent" /\ jobs[j].retry <= jobs'[j].retry
           Good(j) ==
             /\ jobs'[j].status = "scheduled" =>
                   jobs'[j].node \in Node /\ nodes'[jobs'[j].node].status # "absent"
             /\ jobs'[j].status = "completed" => <<j, "completed">> \in ended'
             /\ jobs'[j].status = "failed" =>
                   <<j, "failed">> \in ended' \/ jobs'[j].retry >= MaxRetries[j]
             /\ Grown(j)
<1> SUFFICES ASSUME NEW j \in Job PROVE Good(j)
  BY Zenon DEF ScheduledHasNode, VerdictsEarned
<1>1. jobs[j].retry \in Nat /\ jobs'[j].retry \in Nat /\ MaxRetries[j] \in Nat
  BY JobAssumption, Zenon DEF VerdictInv, ClusterTypeInv, TypeInv, EngineInv, StoreTypeOK, JobRow
<1>2. jobs'[j].retry \in {jobs[j].retry, jobs[j].retry + 1} => jobs[j].retry <= jobs'[j].retry
  BY <1>1
<1>3. CASE jobs'[j] = jobs[j]
  <2>1. Grown(j)
    BY <1>2, <1>3, Zenon
  <2>2. /\ jobs[j].status = "scheduled" => jobs[j].node \in Node /\ nodes[jobs[j].node].status # "absent"
        /\ jobs[j].status = "completed" => <<j, "completed">> \in ended
        /\ jobs[j].status = "failed" => <<j, "failed">> \in ended \/ jobs[j].retry >= MaxRetries[j]
    BY <1>0, Zenon DEF ScheduledHasNode, VerdictsEarned
  <2> HIDE DEF Grown
  <2> QED
    BY <1>3, <2>1, <2>2, Zenon
<1>4. CASE /\ jobs'[j].status \in {"queued", "preempted"}
           /\ jobs'[j].retry \in {jobs[j].retry, jobs[j].retry + 1}
  BY <1>2, <1>4, Zenon
<1>5. CASE /\ jobs'[j].status = "scheduled" /\ jobs'[j].retry = jobs[j].retry
           /\ jobs'[j].node \in Node /\ tick.view[jobs'[j].node].status = "ready"
  <2>1. nodes'[jobs'[j].node].status # "absent"
    BY <1>0, <1>5, Zenon DEF ViewRegistered
  <2> QED
    BY <1>2, <1>5, <2>1, Zenon
<1>6. ASSUME jobs'[j].status = "failed", jobs'[j].retry = jobs[j].retry,
             NEW lost \in tick.lost, lost.job = j, lost.retry >= MaxRetries[j]
      PROVE  Good(j)
  <2>1. lost.retry \in Nat /\ lost.retry <= jobs[j].retry
    BY <1>0, <1>6, Zenon DEF LostKnown
  <2>2. jobs'[j].retry >= MaxRetries[j]
    BY <1>1, <1>6, <2>1
  <2> QED
    BY <1>2, <1>6, <2>2, Zenon
<1>7. CASE OtherRow(j)
  <2>1. CASE jobs[j].status = "absent" /\ jobs'[j].status = "queued"
    BY <2>1, Zenon
  <2>2. CASE /\ jobs'[j].status \in {"running", "cancelled"} \cup Result
             /\ jobs'[j].retry = jobs[j].retry
             /\ jobs'[j].status \in Result => <<j, jobs'[j].status>> \in ended
    <3>1. jobs'[j].status \in {"running", "cancelled", "completed", "failed"}
      BY <2>2, Zenon DEF Result
    <3>2. jobs'[j].status \in {"completed", "failed"} => <<j, jobs'[j].status>> \in ended'
      BY <2>2, Zenon DEF Result
    <3> QED
      BY <1>2, <2>2, <3>1, <3>2, Zenon
  <2> QED
    BY <1>3, <1>7, <2>1, <2>2, Zenon DEF OtherRow
<1> HIDE DEF Good, Grown
<1> QED
  BY <1>3, <1>4, <1>5, <1>6, <1>7, Zenon DEF RowStep

(* Nothing unregisters a node.                                             *)
LEMMA NodesStay ==
    ASSUME ClusterTypeInv, [ClusterNext]_cluster, NEW n \in Node, nodes[n].status # "absent"
    PROVE  nodes'[n].status # "absent"
<1>0. StoreTypeOK /\ HandlersOK /\ EngineInv /\ nodes \in [Node -> NodeRow]
  BY Zenon DEF ClusterTypeInv, TypeInv, EngineInv, StoreTypeOK
<1>1. CASE ClusterEngine
  BY <1>0, <1>1, EngineCopies, Zenon DEF ClusterEngine, Engines
<1>2. CASE ClusterUsers
  <2>1. CASE \E m \in Node, s \in Commands : SetNodeStatus(m, s)
    BY <1>0, <2>1, GatewayAssumption, Zenon DEF SetNodeStatus, SetStatus, NodeRow
  <2>2. CASE (\E j \in Job : SubmitJob(j)) \/ TickClock
    BY <2>2, Zenon DEF SubmitJob, TickClock
  <2> QED
    BY <1>2, <2>1, <2>2, Zenon DEF ClusterUsers, Users, GatewayNext
<1>3. CASE ClusterMembership
  <2>1. PICK m \in Node : Register(m) \/ SendHeartbeat(m) \/ HeartbeatLapse(m) \/ AgentExit(m)
    BY <1>3, Zenon DEF ClusterMembership
  <2>2. CASE Register(m)
    BY <1>0, <2>2, Zenon DEF Register, Upsert, NodeRow
  <2>3. CASE SendHeartbeat(m)
    BY <1>0, <2>3, Zenon DEF SendHeartbeat, Heartbeat, NodeRow
  <2>4. CASE HeartbeatLapse(m)
    BY <1>0, <2>4, Zenon DEF HeartbeatLapse, NodeRow
  <2>5. CASE AgentExit(m)
    BY <2>5, Zenon DEF AgentExit, store
  <2> QED
    BY <2>1, <2>2, <2>3, <2>4, <2>5, Zenon
<1>4. ASSUME NEW e, e.phase = "free" => e.on \in Node, WritesCopy(e)
      PROVE  nodes'[n].status # "absent"
  BY <1>0, <1>4 DEF WritesCopy, UpdateAvailability, NodeRow
<1>5. CASE ClusterExecution
  <2>1. nodes' = nodes \/ \E m \in Node, j \in Job : WritesCopy(exec[m][j])
    BY <1>5, ExecutionStep, Zenon
  <2>2. \A m \in Node, j \in Job : exec[m][j].phase = "free" => exec[m][j].on \in Node
    BY <1>0, Zenon DEF HandlersOK, ExecutorOK
  <2> QED
    BY <1>4, <2>1, <2>2, Zenon
<1>6. CASE ClusterCancellation
  <2>1. \E c \in Client, j \in Job : WritesCopy(cancel[c][j])
    BY <1>6, CancellationStep, Zenon
  <2>2. \A c \in Client, j \in Job : cancel[c][j].phase = "free" => cancel[c][j].on \in Node
    BY <1>0, Zenon DEF HandlersOK, CancelOK
  <2> QED
    BY <1>4, <2>1, <2>2, Zenon
<1>7. CASE UNCHANGED cluster
  BY <1>7, Zenon DEF cluster, vars, store
<1> QED
  BY <1>1, <1>2, <1>3, <1>5, <1>6, <1>7, Zenon DEF ClusterNext

(* A status written by a handler.                                          *)
LEMMA HandlerRow ==
    ASSUME jobs \in [Job -> JobRow], NEW j \in Job, NEW s \in {"running", "cancelled"} \cup Result,
           jobs' = jobs \/ jobs' = UpdateStatus(j, s), s \in Result => <<j, s>> \in ended
    PROVE  \A k \in Job : OtherRow(k)
<1>1. s \in JobStatus
  BY Zenon DEF Result, JobStatus
<1>2. CASE jobs' = UpdateStatus(j, s)
  <2>1. /\ \A k \in Job \ {j} : jobs'[k] = jobs[k]
        /\ jobs'[j].status = s /\ jobs'[j].retry = jobs[j].retry
    BY <1>1, <1>2, UpdateEffect, Zenon
  <2> QED
    BY <2>1, Zenon DEF OtherRow
<1> QED
  BY <1>2, Zenon DEF OtherRow

(* Executors write running, and results the workload ended with; and they  *)
(* report a result only once the workload has ended with it.               *)
LEMMA ExecutionVerdicts ==
    ASSUME VerdictInv, ClusterExecution
    PROVE  /\ \A j \in Job : OtherRow(j)
           /\ ended \subseteq ended' /\ ResultsEarned'
<1>0. /\ jobs \in [Job -> JobRow] /\ exec \in [Node -> [Job -> Executor]]
      /\ HandlersOK /\ ResultsEarned /\ ended \subseteq Job \X Result
  BY Zenon DEF VerdictInv, ClusterTypeInv, TypeInv, EngineInv, StoreTypeOK, ExecutionTypeOK
<1>1. PICK n \in Node :
         \/ Poll(n)
         \/ \E j \in Job : \/ Claim(n, j)
                           \/ \E r \in Result : Finish(n, j, r)
                           \/ ReportStep(n, j)
                           \/ DropReport(n, j)
  BY Zenon DEF ClusterExecution
<1>2. ASSUME ended \subseteq ended', NEW j \in Job, NEW e, Continue(n, j, e),
             Reporting(e) => <<j, e.result>> \in ended'
      PROVE  ResultsEarned'
  <2>1. \A m \in Node, k \in Job : exec'[m][k] = IF m = n /\ k = j THEN e ELSE exec[m][k]
    BY <1>0, <1>2, Zenon DEF Continue
  <2> QED
    BY <1>0, <1>2, <2>1, Zenon DEF ResultsEarned
<1>3. ASSUME jobs' = jobs PROVE \A k \in Job : OtherRow(k)
  BY <1>3, Zenon DEF OtherRow
<1>4. CASE Poll(n)
  BY <1>0, <1>3, <1>4, Zenon DEF Poll, store, ResultsEarned
<1>5. ASSUME NEW j \in Job, Claim(n, j)
      PROVE  (\A k \in Job : OtherRow(k)) /\ ended \subseteq ended' /\ ResultsEarned'
  <2> DEFINE e == [NoExecutor EXCEPT !.phase = "start"]
  <2>1. e.phase = "start"
    BY Zenon DEF NoExecutor
  <2>2. jobs' = jobs /\ ended' = ended /\ (Continue(n, j, e) \/ exec' = exec)
    BY <1>5, Zenon DEF Claim, store
  <2> HIDE DEF e
  <2>3. CASE Continue(n, j, e)
    BY <1>2, <1>3, <2>1, <2>2, <2>3, Zenon DEF Reporting
  <2>4. CASE exec' = exec
    BY <1>0, <1>3, <2>2, <2>4, Zenon DEF ResultsEarned
  <2> QED
    BY <2>2, <2>3, <2>4, Zenon
<1>6. ASSUME NEW j \in Job, NEW r \in Result, Finish(n, j, r)
      PROVE  (\A k \in Job : OtherRow(k)) /\ ended \subseteq ended' /\ ResultsEarned'
  <2> DEFINE e == [exec[n][j] EXCEPT !.phase = "fetch", !.result = r]
  <2>1. e.result = r
    <3>1. exec[n][j] \in Executor
      BY <1>0, Zenon
    <3> QED
      BY <3>1, Zenon DEF Executor
  <2>2. jobs' = jobs /\ ended' = ended \cup {<<j, r>>} /\ Continue(n, j, e)
    BY <1>6, Zenon DEF Finish, store
  <2> HIDE DEF e
  <2> QED
    BY <1>2, <1>3, <2>1, <2>2, Zenon
<1>7. ASSUME NEW j \in Job, ReportStep(n, j) \/ DropReport(n, j)
      PROVE  (\A k \in Job : OtherRow(k)) /\ ended \subseteq ended' /\ ResultsEarned'
  <2>0. exec[n][j] \in Executor /\ ExecutorOK(exec[n][j])
    BY <1>0, Zenon DEF HandlersOK
  <2>1. Reporting(exec[n][j]) => <<j, exec[n][j].result>> \in ended
    BY <1>0, Zenon DEF ResultsEarned
  <2>2. ended' = ended
    BY <1>7, Zenon DEF ReportStep, DropReport, StartReport, MarkRunning, FetchJob, LoadNode, FreeNode,
                Finalize
  <2>3. ~ Reporting(NoExecutor)
    BY Zenon DEF Reporting, NoExecutor
  <2>4. \E e : /\ Continue(n, j, e)
               /\ Reporting(e) => Reporting(exec[n][j]) /\ e.result = exec[n][j].result
    <3>1. CASE StartReport(n, j)
      <4>1. PICK ok \in BOOLEAN :
              Continue(n, j, [exec[n][j] EXCEPT !.phase = IF ok THEN "mark" ELSE "work"])
        BY <3>1, Zenon DEF StartReport
      <4>2. ~ Reporting([exec[n][j] EXCEPT !.phase = IF ok THEN "mark" ELSE "work"])
        BY <2>0, Zenon DEF Executor, Reporting
      <4> QED
        BY <4>1, <4>2, Zenon
    <3>2. CASE MarkRunning(n, j)
      <4>1. ~ Reporting([exec[n][j] EXCEPT !.phase = "work"])
        BY <2>0, Zenon DEF Executor, Reporting
      <4> QED
        BY <3>2, <4>1, Zenon DEF MarkRunning
    <3>3. CASE FetchJob(n, j)
      <4> DEFINE got == [exec[n][j] EXCEPT
                       !.on = jobs[j].node,
                       !.phase = IF jobs[j].node = NoNode THEN "final" ELSE "load"]
      <4>1. PICK ok \in BOOLEAN : Continue(n, j, IF ok THEN got ELSE NoExecutor)
        BY <3>3, Zenon DEF FetchJob
      <4>2. Reporting(exec[n][j]) /\ got.result = exec[n][j].result
        BY <2>0, <3>3, Zenon DEF Executor, Reporting, FetchJob
      <4> HIDE DEF got
      <4> QED
        BY <2>3, <4>1, <4>2, Zenon
    <3>4. CASE LoadNode(n, j)
      <4> DEFINE got == [exec[n][j] EXCEPT
                       !.avail = Release(nodes[exec[n][j].on], Request[j]).avail, !.phase = "free"]
                 err == [exec[n][j] EXCEPT !.phase = "final", !.on = NoNode]
      <4>1. PICK ok \in BOOLEAN : Continue(n, j, IF ok THEN got ELSE err)
        BY <3>4, Zenon DEF LoadNode
      <4>2. /\ Reporting(exec[n][j]) /\ got.result = exec[n][j].result
            /\ err.result = exec[n][j].result
        BY <2>0, <3>4, Zenon DEF Executor, Reporting, LoadNode
      <4> HIDE DEF got, err
      <4> QED
        BY <4>1, <4>2, Zenon
    <3>5. CASE FreeNode(n, j)
      <4>1. [NoExecutor EXCEPT !.phase = "final", !.result = exec[n][j].result].result
              = exec[n][j].result
        BY Zenon DEF NoExecutor
      <4>2. Reporting(exec[n][j])
        BY <3>5, Zenon DEF FreeNode, Reporting
      <4> QED
        BY <3>5, <4>1, <4>2, Zenon DEF FreeNode
    <3>6. CASE Finalize(n, j) \/ DropReport(n, j)
      BY <2>3, <3>6, Zenon DEF Finalize, DropReport
    <3> QED
      BY <1>7, <3>1, <3>2, <3>3, <3>4, <3>5, <3>6, Zenon DEF ReportStep
  <2>5. \A k \in Job : OtherRow(k)
    <3>1. CASE MarkRunning(n, j)
      <4>1. jobs' = jobs \/ jobs' = UpdateStatus(j, "running")
        BY <3>1, Zenon DEF MarkRunning, After
      <4>2. "running" \notin Result
        BY Zenon DEF Result
      <4> QED
        BY <1>0, <4>1, <4>2, HandlerRow, Zenon
    <3>2. CASE Finalize(n, j)
      <4>1. jobs' = jobs \/ jobs' = UpdateStatus(j, exec[n][j].result)
        BY <3>2, Zenon DEF Finalize, After
      <4>2. exec[n][j].result \in Result /\ <<j, exec[n][j].result>> \in ended
        BY <2>0, <2>1, <3>2, Zenon DEF Finalize, Reporting, ExecutorOK
      <4> QED
        BY <1>0, <4>1, <4>2, HandlerRow, Zenon
    <3>3. CASE ~ MarkRunning(n, j) /\ ~ Finalize(n, j)
      <4>1. jobs' = jobs
        BY <1>7, <3>3, Zenon DEF ReportStep, DropReport, StartReport, FetchJob, LoadNode, FreeNode
      <4> QED
        BY <1>3, <4>1, Zenon
    <3> QED
      BY <3>1, <3>2, <3>3, Zenon
  <2>6. PICK e : /\ Continue(n, j, e)
                 /\ Reporting(e) => Reporting(exec[n][j]) /\ e.result = exec[n][j].result
    BY <2>4, Zenon
  <2>7. ResultsEarned'
    BY <1>2, <2>1, <2>2, <2>6, Zenon
  <2> QED
    BY <2>2, <2>5, <2>7, Zenon
<1> QED
  BY <1>1, <1>4, <1>5, <1>6, <1>7, Zenon

(* Every step keeps verdicts earned and scheduled jobs on known nodes.     *)
LEMMA VerdictStep == VerdictInv /\ [ClusterNext]_cluster => VerdictInv'
<1> SUFFICES ASSUME VerdictInv, [ClusterNext]_cluster PROVE VerdictInv'
  BY Zenon
<1>0. /\ ClusterTypeInv /\ ClusterTypeInv' /\ EngineInv
      /\ ViewRegistered /\ LostKnown /\ ResultsEarned
  BY ClusterTypeStep, Zenon DEF VerdictInv, ClusterTypeInv, TypeInv
<1>1. \A n \in Node : nodes[n].status # "absent" => nodes'[n].status # "absent"
  BY <1>0, NodesStay, Zenon
<1>2. \A j \in Job : jobs[j].retry \in Nat /\ jobs'[j].retry \in Nat
  BY <1>0, Zenon DEF ClusterTypeInv, TypeInv, EngineInv, StoreTypeOK, JobRow
<1>3. ASSUME \A j \in Job : OtherRow(j), tick' = tick, ended \subseteq ended', ResultsEarned'
      PROVE  VerdictInv'
  <2>1. /\ ScheduledHasNode' /\ VerdictsEarned'
        /\ \A j \in Job : jobs[j].status # "absent" =>
              jobs'[j].status # "absent" /\ jobs[j].retry <= jobs'[j].retry
    BY <1>0, <1>1, <1>3, VerdictsKept, Zenon
  <2>2. ViewRegistered'
    BY <1>0, <1>1, <1>3, Zenon DEF ViewRegistered
  <2>3. LostKnown'
    <3> SUFFICES ASSUME NEW lost \in tick.lost
                 PROVE  /\ lost.job \in Job /\ lost.retry \in Nat
                        /\ jobs'[lost.job].status # "absent" /\ lost.retry <= jobs'[lost.job].retry
      BY <1>3, Zenon DEF LostKnown
    <3>1. /\ lost.job \in Job /\ lost.retry \in Nat
          /\ jobs[lost.job].status # "absent" /\ lost.retry <= jobs[lost.job].retry
      BY <1>0, Zenon DEF LostKnown
    <3>2. jobs'[lost.job].status # "absent" /\ jobs[lost.job].retry <= jobs'[lost.job].retry
      BY <2>1, <3>1, Zenon
    <3>3. jobs[lost.job].retry \in Nat /\ jobs'[lost.job].retry \in Nat
      BY <1>2, <3>1, Zenon
    <3> QED
      BY <3>1, <3>2, <3>3
  <2> QED
    BY <1>0, <1>3, <2>1, <2>2, <2>3, Zenon DEF VerdictInv
<1>4. ASSUME jobs' = jobs PROVE \A j \in Job : OtherRow(j)
  BY <1>4, Zenon DEF OtherRow
<1>5. ASSUME UNCHANGED execution PROVE ended \subseteq ended' /\ ResultsEarned'
  BY <1>0, <1>5, Zenon DEF execution, ResultsEarned
<1>6. CASE ClusterEngine
  <2>1. EngineNext /\ UNCHANGED execution
    BY <1>6, Zenon DEF ClusterEngine, Engines
  <2>2. \A j \in Job : RowStep(j)
    BY <1>0, <2>1, EngineRows, Zenon
  <2>3. /\ ScheduledHasNode' /\ VerdictsEarned'
        /\ \A j \in Job : jobs[j].status # "absent" =>
              jobs'[j].status # "absent" /\ jobs[j].retry <= jobs'[j].retry
    BY <1>0, <1>1, <1>5, <2>1, <2>2, VerdictsKept, Zenon
  <2>4. /\ \A n \in Node :
              \/ tick'.view[n].status = tick.view[n].status
              \/ tick'.view[n].status = nodes[n].status
              \/ tick'.view[n].status = "absent"
        /\ \/ tick'.lost \subseteq tick.lost
           \/ tick'.lost = LostActive /\ jobs' = jobs
    BY <1>0, <2>1, EngineCopies, Zenon
  <2>5. ViewRegistered'
    BY <1>0, <1>1, <2>4, Zenon DEF ViewRegistered
  <2>6. ASSUME tick'.lost \subseteq tick.lost PROVE LostKnown'
    BY <1>0, <1>2, <2>3, <2>6 DEF LostKnown
  <2>7. ASSUME tick'.lost = LostActive, jobs' = jobs PROVE LostKnown'
    <3>1. \A lost \in LostActive :
             /\ lost.job \in Job /\ lost.retry = jobs[lost.job].retry
             /\ jobs[lost.job].status # "absent"
      BY DEF LostActive, LostRows, ListByStatuses
    <3> QED
      BY <1>2, <2>7, <3>1 DEF LostKnown
  <2>8. LostKnown'
    BY <2>4, <2>6, <2>7, Zenon
  <2> QED
    BY <1>0, <1>5, <2>1, <2>3, <2>5, <2>8, Zenon DEF VerdictInv
<1>7. CASE ClusterUsers
  <2>1. tick' = tick /\ UNCHANGED execution
    BY <1>7, Zenon DEF ClusterUsers, Users
  <2>2. ASSUME NEW j \in Job, SubmitJob(j) PROVE \A k \in Job : OtherRow(k)
    <3>1. jobs[j].status = "absent" /\ jobs' = Create(j) /\ jobs \in [Job -> JobRow]
      BY <1>0, <2>2, Zenon DEF SubmitJob, EngineInv, StoreTypeOK
    <3>2. jobs'[j].status = "queued" /\ \A k \in Job \ {j} : jobs'[k] = jobs[k]
      BY <3>1, CreateEffect, Zenon
    <3> QED
      BY <3>1, <3>2, Zenon DEF OtherRow
  <2>3. CASE TickClock \/ \E n \in Node, s \in Commands : SetNodeStatus(n, s)
    BY <1>3, <1>4, <1>5, <2>1, <2>3, Zenon DEF TickClock, SetNodeStatus
  <2> QED
    BY <1>3, <1>5, <1>7, <2>1, <2>2, <2>3, Zenon DEF ClusterUsers, Users, GatewayNext
<1>8. CASE ClusterMembership
  <2>1. jobs' = jobs /\ tick' = tick
    BY <1>8, Zenon DEF ClusterMembership, Register, SendHeartbeat, HeartbeatLapse, AgentExit, store
  <2>2. \A n \in Node, j \in Job : exec'[n][j] = exec[n][j] \/ exec'[n][j] = NoExecutor
    BY <1>0, <1>8, ControlPlaneStep, Zenon
  <2>3. ended' = ended
    BY <1>8, Zenon DEF ClusterMembership, execution, AbandonAll
  <2>4. ResultsEarned'
    BY <1>0, <2>2, <2>3, NoCallTypes, Zenon DEF ResultsEarned, Reporting
  <2> QED
    BY <1>3, <1>4, <2>1, <2>3, <2>4, Zenon
<1>9. CASE ClusterExecution
  <2>1. tick' = tick
    BY <1>9, Zenon DEF ClusterExecution
  <2> QED
    BY <1>3, <1>9, <2>1, ExecutionVerdicts, Zenon
<1>10. CASE ClusterCancellation
  <2>1. tick' = tick /\ UNCHANGED execution
    BY <1>10, Zenon DEF ClusterCancellation
  <2>2. PICK c \in Client, j \in Job : BeginCancel(c, j) \/ CancelStep(c, j) \/ DropCancel(c, j)
    BY <1>10, Zenon DEF ClusterCancellation
  <2>3. jobs' = jobs \/ jobs' = UpdateStatus(j, "cancelled")
    BY <2>2, Zenon DEF BeginCancel, CancelStep, DropCancel, CancelLoad, CancelFree, CancelFinal, After, store
  <2>4. "cancelled" \notin Result /\ jobs \in [Job -> JobRow]
    BY <1>0, Zenon DEF Result, EngineInv, StoreTypeOK
  <2>5. \A k \in Job : OtherRow(k)
    BY <2>3, <2>4, HandlerRow, Zenon
  <2> QED
    BY <1>3, <1>5, <2>1, <2>5, Zenon
<1>11. CASE UNCHANGED cluster
  BY <1>3, <1>4, <1>5, <1>11, Zenon DEF cluster, vars, store
<1> QED
  BY <1>6, <1>7, <1>8, <1>9, <1>10, <1>11, Zenon DEF ClusterNext

(* At the start there are no jobs and no calls.                            *)
LEMMA VerdictInit == ClusterInit => VerdictInv
<1> SUFFICES ASSUME ClusterInit PROVE VerdictInv
  BY Zenon
<1>1. /\ \A j \in Job : jobs[j].status = "absent"
      /\ tick = Idle
      /\ \A n \in Node, j \in Job : exec[n][j] = NoExecutor
  BY Zenon DEF ClusterInit, Init, StoreInit, EngineInit, ExecutionInit, NoJobRow
<1>2. ScheduledHasNode /\ VerdictsEarned
  BY <1>1, Zenon DEF ScheduledHasNode, VerdictsEarned
<1>3. ViewRegistered /\ LostKnown
  BY <1>1, Zenon DEF ViewRegistered, LostKnown, Idle, NoNodeRow
<1>4. ResultsEarned
  BY <1>1, NoCallTypes, Zenon DEF ResultsEarned, Reporting
<1> QED
  BY <1>2, <1>3, <1>4, ClusterTypeInit, Zenon DEF VerdictInv

(* A scheduled job always has a registered node whose agent is handed it   *)
(* by GetAssignments, whatever the engine, reports, cancellations, deaths  *)
(* and failed statements do meanwhile: CommitPlacement only chooses nodes  *)
(* the tick has read, and nothing deletes a node row.                      *)
THEOREM ScheduledCorrect == ClusterSpec => []ScheduledHasNode
<1>1. VerdictInv => ScheduledHasNode
  BY Zenon DEF VerdictInv
<1> QED
  BY <1>1, VerdictInit, VerdictStep, PTL DEF ClusterSpec

(* A job completes only if some run of it ended well, and fails only if    *)
(* some run of it ended badly or its retries are used up, although reports *)
(* carry results across several statements and reconciliation decides on a *)
(* retry count it read earlier.                                            *)
THEOREM VerdictsCorrect == ClusterSpec => []VerdictsEarned
<1>1. VerdictInv => VerdictsEarned
  BY Zenon DEF VerdictInv
<1> QED
  BY <1>1, VerdictInit, VerdictStep, PTL DEF ClusterSpec

-----------------------------------------------------------------------------
(* Verdicts, taking turns *)

(* j was handed to the agent of n, or its executor is there.               *)
Employed(n, j) == j \in inbox[n] \/ exec[n][j].phase # "none"

Calm == \A c \in Client, j \in Job : cancel[c][j].phase = "none"

Resting == \A n \in Node, j \in Job : ~ Working(exec[n][j])

(* At most one tick, poll, report or cancellation is in progress.          *)
Alone ==
    /\ tick.phase # "idle" => Resting /\ Calm
    /\ (\E n \in Node : inbox[n] # {}) => Resting
    /\ Resting \/ Calm

(* An agent has only jobs that are assigned to it and not yet ended, and   *)
(* nobody is cancelling a job that ended.                                  *)
EmployedOK ==
    \A n \in Node, j \in Job : Employed(n, j) =>
        jobs[j].node = n /\ jobs[j].status \in {"scheduled", "running", "cancelled"}

CancelsOpen ==
    \A c \in Client, j \in Job : cancel[c][j].phase # "none" => jobs[j].status \notin Result

FinalInv ==
    /\ ClusterTypeInv /\ LifeInv /\ NoEvictions /\ AllUp /\ Alone
    /\ EmployedOK /\ CancelsOpen

VerdictsStay == \A j \in Job : jobs[j].status \in Result => jobs'[j].status = jobs[j].status

(* The engine neither adds nor loses a machine while all are up.           *)
LEMMA EngineAllUp ==
    ASSUME EngineInv, AllUp, EngineNext, UNCHANGED membership
    PROVE  AllUp'
<1>0. nodes \in [Node -> NodeRow] /\ up' = up /\ outages' = outages
  BY Zenon DEF EngineInv, StoreTypeOK, membership
<1>1. CASE StartTick
  <2>1. StaleNodes = {}
    BY Zenon DEF StaleNodes, AllUp
  <2>2. MarkStaleDown = nodes
    BY <1>0, <2>1, Zenon DEF MarkStaleDown
  <2>3. nodes' = nodes /\ tick'.phase = "nodes"
    BY <1>1, <2>1, <2>2, StartEffect, Zenon
  <2> QED
    BY <1>0, <2>3, Zenon DEF AllUp
<1>2. CASE ~ StartTick
  <2>1. \A n \in Node : nodes'[n].status = nodes[n].status
    BY <1>2, StatusWriters, Zenon
  <2>2. \A n \in Node : nodes'[n].fresh = nodes[n].fresh
    <3>1. CASE PersistPlacement \/ PersistEviction
      <4>1. /\ tick.target \in Node
            /\ \/ nodes' = nodes
               \/ nodes' = UpdateAvailability(tick.target, tick.view[tick.target].avail)
        BY <3>1, PersistEffect, Zenon
      <4>2. ASSUME nodes' = UpdateAvailability(tick.target, tick.view[tick.target].avail)
            PROVE  \A n \in Node : nodes'[n].fresh = nodes[n].fresh
        BY <1>0, <4>1, <4>2, Zenon DEF UpdateAvailability, NodeRow
      <4> QED
        BY <4>1, <4>2, Zenon
    <3>2. CASE ~ (PersistPlacement \/ PersistEviction)
      <4>1. nodes' = nodes
        BY <1>2, <3>2, Zenon DEF EngineNext, TickStep, ListLost, RequeueLost, ListNodes, ListQueued,
           ListActive, OrderQueue, Read, CommitPlacement, RecordPlacement, GiveUp, EvictVictim,
           ReturnVictim, PlanPreemption, Stop, store
      <4> QED
        BY <4>1, Zenon
    <3> QED
      BY <3>1, <3>2, Zenon
  <2>3. tick'.phase \notin {"lost", "requeue"}
    <3>0. tick.phase \notin {"lost", "requeue"}
      BY Zenon DEF AllUp
    <3>1. ASSUME tick' = Idle PROVE tick'.phase \notin {"lost", "requeue"}
      BY <3>1, IdleFields, Zenon
    <3>2. ASSUME ListLost \/ RequeueLost PROVE FALSE
      BY <3>0, <3>2, ListLostEffect, RequeueEffect, Zenon
    <3>3. ASSUME ListNodes \/ ListQueued \/ ListActive \/ OrderQueue
          PROVE  tick'.phase \notin {"lost", "requeue"}
      BY <3>1, <3>3, ListingEffect, Zenon
    <3>4. ASSUME NEW j \in Job, NEW n \in Node, CommitPlacement(j, n)
          PROVE  tick'.phase \notin {"lost", "requeue"}
      BY <3>1, <3>4, CommitEffect, Zenon DEF Advanced
    <3>5. ASSUME PersistPlacement \/ PersistEviction PROVE tick'.phase \notin {"lost", "requeue"}
      BY <3>5, PersistEffect, Zenon
    <3>6. ASSUME NEW j \in Job, RecordPlacement(j) \/ GiveUp(j)
          PROVE  tick'.phase \notin {"lost", "requeue"}
      BY <3>1, <3>6, RecordEffect, Zenon DEF Advanced
    <3>7. ASSUME NEW j \in Job, PlanPreemption(j) PROVE tick'.phase \notin {"lost", "requeue"}
      BY <3>7, PlanEffect, Zenon
    <3>8. ASSUME NEW v \in Job, EvictVictim(v) \/ ReturnVictim(v)
          PROVE  tick'.phase \notin {"lost", "requeue"}
      BY <3>8, EvictEffect, ReturnEffect, Zenon DEF PastVictim
    <3>9. ASSUME Stop PROVE tick'.phase \notin {"lost", "requeue"}
      BY <3>1, <3>9, Zenon DEF Stop
    <3> QED
      BY <1>2, <3>2, <3>3, <3>4, <3>5, <3>6, <3>7, <3>8, <3>9, Zenon DEF EngineNext, TickStep
  <2> QED
    BY <1>0, <2>1, <2>2, <2>3, Zenon DEF AllUp
<1> QED
  BY <1>1, <1>2, Zenon

(* Without outages a machine that registers is up, and stays up.           *)
LEMMA OthersAllUp ==
    ASSUME MaxOutages = 0, TypeInv, AllUp, Users \/ Agents
    PROVE  AllUp'
<1>0. /\ nodes \in [Node -> NodeRow] /\ up \in [Node -> BOOLEAN] /\ outages \in Nat /\ outages = 0
      /\ tick' = tick
  BY NodeServiceAssumption, Zenon DEF TypeInv, EngineInv, StoreTypeOK, MembershipTypeOK, AllUp,
     Users, Agents
<1>1. CASE Users
  <2>1. up' = up /\ outages' = outages
    BY <1>1, Zenon DEF Users, membership
  <2>2. \A n \in Node : /\ nodes'[n].fresh = nodes[n].fresh
                        /\ nodes'[n].status = "absent" <=> nodes[n].status = "absent"
    BY <1>0, <1>1, UserPresence, Zenon DEF Users
  <2> QED
    BY <1>0, <2>1, <2>2, Zenon DEF AllUp
<1>2. CASE Agents
  <2>1. PICK n \in Node : Register(n) \/ SendHeartbeat(n) \/ HeartbeatLapse(n) \/ AgentExit(n)
    BY <1>2, Zenon DEF Agents
  <2>2. CASE Register(n)
    <3>1. nodes[n].status = "absent"
      BY <1>0, <2>2, RegisterEffect, Zenon DEF AllUp
    <3>2. /\ up'[n] /\ nodes'[n].fresh /\ nodes'[n].status = "ready" /\ outages' = outages
          /\ \A m \in Node \ {n} : up'[m] = up[m] /\ nodes'[m] = nodes[m]
      BY <1>0, <2>2, <3>1, RegisterEffect, Zenon
    <3> QED
      BY <1>0, <3>2, Zenon DEF AllUp
  <2>3. CASE SendHeartbeat(n) \/ HeartbeatLapse(n) \/ AgentExit(n)
    <3>1. outages' = 0
      BY <1>0, <2>3 DEF SendHeartbeat, HeartbeatLapse, AgentExit, membership
    <3>2. up[n] <=> nodes[n].fresh
      BY Zenon DEF AllUp
    <3>3. /\ \A m \in Node : nodes'[m].status = "absent" <=> nodes[m].status = "absent"
          /\ up' = up /\ up[n] /\ nodes'[n].fresh
          /\ \A m \in Node \ {n} : nodes'[m].fresh = nodes[m].fresh
      BY <1>0, <2>3, <3>1, <3>2, PresenceEffect, Zenon
    <3> QED
      BY <1>0, <3>1, <3>2, <3>3, Zenon DEF AllUp
  <2> QED
    BY <2>1, <2>2, <2>3, Zenon
<1> QED
  BY <1>1, <1>2, Zenon

(* A step that writes neither jobs nor the tick keeps their agreement.     *)
LEMMA LifeKept ==
    ASSUME LifeInv, TypeInv', jobs' = jobs, tick' = tick
    PROVE  LifeInv'
<1>0. /\ TypeInv /\ TotalsAdd /\ EngineInv /\ tick \in TickState
      /\ Filled /\ QueueWaits /\ RunningApart /\ VictimsApart /\ LostFresh
  BY Zenon DEF LifeInv, TypeInv, EngineInv, EngineTypeOK
<1>1. \A j \in Job : Current(j)' <=> Current(j)
  BY <1>0, CurrentKept, Zenon DEF SameOrder, KeepsQueue
<1>2. /\ tick.pending \subseteq Job
      /\ \A n \in Node : tick.running[n] \subseteq Job
  BY <1>0, Zenon DEF TickState
<1>3. Filled' /\ QueueWaits'
  BY <1>0, <1>1, <1>2, Zenon DEF Filled, QueueWaits
<1>4. RunningApart' /\ VictimsApart' /\ LostFresh'
  BY <1>0, <1>1, <1>2, Zenon DEF RunningApart, VictimsApart, LostFresh, Alive
<1> QED
  BY <1>0, <1>3, <1>4, TotalsConstant, Zenon DEF LifeInv

(* Between ticks there is nothing for the jobs to agree with.              *)
LEMMA LifeBetween ==
    ASSUME LifeInv, TypeInv', tick.phase = "idle", tick' = tick
    PROVE  LifeInv'
<1>1. tick' = Idle /\ TotalsAdd
  BY Zenon DEF LifeInv, Filled
<1> QED
  BY <1>1, IdleFields, TotalsConstant, Zenon
     DEF LifeInv, Filled, QueueWaits, RunningApart, VictimsApart, LostFresh

(* The engine, users and agents' membership: rows of employed jobs and of  *)
(* ended ones are none of their business.                                  *)
LEMMA FinalControlPlane ==
    ASSUME ~ EnablePreemption, MaxOutages = 0, FinalInv, Alone', ClusterTypeInv',
           ClusterEngine \/ ClusterUsers \/ ClusterMembership
    PROVE  FinalInv' /\ VerdictsStay
<1>0. /\ ClusterTypeInv /\ LifeInv /\ NoEvictions /\ AllUp /\ EmployedOK /\ CancelsOpen
      /\ TypeInv /\ EngineInv /\ inbox \in [Node -> SUBSET Job] /\ exec \in [Node -> [Job -> Executor]]
  BY Zenon DEF FinalInv, ClusterTypeInv, TypeInv, ExecutionTypeOK
<1>1. /\ [Next]_vars
      /\ \A n \in Node, j \in Job : exec'[n][j] = exec[n][j] \/ exec'[n][j] = NoExecutor
      /\ cancel' = cancel
  BY <1>0, ControlPlaneStep, Zenon
<1>2. LifeInv'
  BY <1>0, <1>1, LifeStep, Zenon
<1>3. \A n \in Node : inbox'[n] = inbox[n] \/ inbox'[n] = {}
  BY <1>0, Zenon DEF ClusterEngine, ClusterUsers, ClusterMembership, execution, AbandonAll
<1>4. \A n \in Node, j \in Job : Employed(n, j)' => Employed(n, j)
  BY <1>1, <1>3, NoCallTypes, Zenon DEF Employed
<1>5. /\ NoEvictions' /\ AllUp'
      /\ \A j \in Job : \/ jobs'[j] = jobs[j]
                        \/ /\ jobs[j].status \in {"absent", "queued"}
                           /\ jobs'[j].status \in {"queued", "scheduled"}
  <2>1. CASE ClusterEngine
    <3>1. EngineNext /\ UNCHANGED membership
      BY <2>1, Zenon DEF ClusterEngine, Engines
    <3> QED
      BY <1>0, <3>1, EvictionsOff, EngineAllUp, RowsPlaced, Zenon
  <2>2. CASE ClusterUsers \/ ClusterMembership
    <3>1. Users \/ Agents
      BY <2>2, Zenon DEF ClusterUsers, ClusterMembership, Agents
    <3>2. tick' = tick
      BY <3>1, Zenon DEF Users, Agents
    <3>3. AllUp'
      BY <1>0, <3>1, OthersAllUp, Zenon
    <3> QED
      BY <1>0, <3>1, <3>2, <3>3, OthersRows, Zenon DEF NoEvictions
  <2> QED
    BY <2>1, <2>2, Zenon
<1>6. EmployedOK'
  <2> SUFFICES ASSUME NEW n \in Node, NEW j \in Job, Employed(n, j)'
               PROVE  /\ jobs'[j].node = n
                      /\ jobs'[j].status \in {"scheduled", "running", "cancelled"}
    BY Zenon DEF EmployedOK
  <2>1. jobs[j].node = n /\ jobs[j].status \in {"scheduled", "running", "cancelled"}
    BY <1>0, <1>4, Zenon DEF EmployedOK
  <2>2. jobs'[j] = jobs[j]
    BY <1>5, <2>1, Zenon
  <2> QED
    BY <2>1, <2>2, Zenon
<1>7. CancelsOpen' /\ VerdictsStay
  <2>1. \A j \in Job : \/ jobs'[j] = jobs[j]
                       \/ jobs[j].status \notin Result /\ jobs'[j].status \notin Result
    <3> TAKE j \in Job
    <3>1. CASE jobs'[j] = jobs[j]
      BY <3>1, Zenon
    <3>2. CASE /\ jobs[j].status \in {"absent", "queued"}
               /\ jobs'[j].status \in {"queued", "scheduled"}
      BY <3>2, Zenon DEF Result
    <3> QED
      BY <1>5, <3>1, <3>2, Zenon
  <2> QED
    BY <1>0, <1>1, <2>1, Zenon DEF CancelsOpen, VerdictsStay
<1> QED
  BY <1>2, <1>5, <1>6, <1>7, Zenon DEF FinalInv

(* A poll, a claim and the end of a workload write no job's row; what an   *)
(* agent takes on is assigned to it.                                       *)
LEMMA FinalAgent ==
    ASSUME FinalInv, Alone', ClusterTypeInv', UNCHANGED <<membership, tick, cancel>>, NEW n \in Node,
           \/ Poll(n)
           \/ \E j \in Job : Claim(n, j) \/ \E r \in Result : Finish(n, j, r)
    PROVE  FinalInv' /\ VerdictsStay
<1>0. /\ ClusterTypeInv /\ LifeInv /\ NoEvictions /\ AllUp /\ EmployedOK /\ CancelsOpen /\ TypeInv'
      /\ inbox \in [Node -> SUBSET Job] /\ exec \in [Node -> [Job -> Executor]]
  BY Zenon DEF FinalInv, ClusterTypeInv, ExecutionTypeOK
<1>1. jobs' = jobs /\ nodes' = nodes /\ tick' = tick
  <2>1. StoreTypeOK /\ ExecutionTypeOK /\ \A j \in Job : ExecutorOK(exec[n][j])
    BY <1>0, Zenon DEF ClusterTypeInv, TypeInv, EngineInv, HandlersOK
  <2>2. UNCHANGED store
    BY <2>1, AgentSteps, Zenon
  <2> QED
    BY <2>2, Zenon DEF store
<1>2. LifeInv' /\ NoEvictions' /\ AllUp' /\ CancelsOpen' /\ VerdictsStay
  BY <1>0, <1>1, LifeKept, Zenon DEF NoEvictions, AllUp, CancelsOpen, VerdictsStay, membership
<1>3. \A m \in Node, j \in Job : Employed(m, j)' =>
         \/ Employed(m, j)
         \/ jobs[j].node = m /\ jobs[j].status = "scheduled"
  <2>1. CASE Poll(n)
    <3>1. /\ exec' = exec
          /\ \A m \in Node : inbox'[m] = IF m = n THEN ListScheduledForNode(n) ELSE inbox[m]
      BY <1>0, <2>1, Zenon DEF Poll
    <3>2. \A j \in ListScheduledForNode(n) : jobs[j].node = n /\ jobs[j].status = "scheduled"
      BY Zenon DEF ListScheduledForNode
    <3> QED
      BY <3>1, <3>2, Zenon DEF Employed
  <2>2. ASSUME NEW k \in Job, Claim(n, k)
        PROVE  \A m \in Node, j \in Job : Employed(m, j)' => Employed(m, j)
    <3>1. k \in inbox[n] /\ \A m \in Node : inbox'[m] \subseteq inbox[m]
      BY <1>0, <2>2, Zenon DEF Claim
    <3>2. \A m \in Node, j \in Job : exec'[m][j] = exec[m][j] \/ (m = n /\ j = k)
      <4>1. exec' = exec \/ \E e : Continue(n, k, e)
        BY <2>2, Zenon DEF Claim
      <4>2. ASSUME NEW e, Continue(n, k, e)
            PROVE  \A m \in Node, j \in Job : exec'[m][j] = exec[m][j] \/ (m = n /\ j = k)
        BY <1>0, <4>2, Zenon DEF Continue
      <4> QED
        BY <4>1, <4>2, Zenon
    <3> QED
      BY <3>1, <3>2, Zenon DEF Employed
  <2>3. ASSUME NEW k \in Job, NEW r \in Result, Finish(n, k, r)
        PROVE  \A m \in Node, j \in Job : Employed(m, j)' => Employed(m, j)
    <3>1. exec[n][k].phase = "work" /\ inbox' = inbox
      BY <2>3, Zenon DEF Finish
    <3>2. \A m \in Node, j \in Job : exec'[m][j] = exec[m][j] \/ (m = n /\ j = k)
      BY <1>0, <2>3, Zenon DEF Finish, Continue
    <3> QED
      BY <3>1, <3>2, Zenon DEF Employed
  <2> QED
    BY <2>1, <2>2, <2>3, Zenon
<1>4. EmployedOK'
  BY <1>0, <1>1, <1>3, Zenon DEF EmployedOK
<1> QED
  BY <1>2, <1>4, Zenon DEF FinalInv

(* A statement of a report: reports of ended jobs are over, nobody is      *)
(* cancelling and no tick is under way when a row is written.              *)
LEMMA FinalReport ==
    ASSUME FinalInv, Alone', ClusterTypeInv', UNCHANGED <<membership, tick, cancel>>,
           NEW n \in Node, NEW j \in Job, ReportStep(n, j) \/ DropReport(n, j)
    PROVE  FinalInv' /\ VerdictsStay
<1>0. /\ ClusterTypeInv /\ LifeInv /\ NoEvictions /\ AllUp /\ Alone /\ EmployedOK /\ CancelsOpen
      /\ TypeInv' /\ StoreTypeOK /\ ExecutionTypeOK /\ ExecutorOK(exec[n][j])
  BY Zenon DEF FinalInv, ClusterTypeInv, TypeInv, EngineInv, HandlersOK
<1>1. /\ inbox \in [Node -> SUBSET Job] /\ exec \in [Node -> [Job -> Executor]]
      /\ jobs \in [Job -> JobRow] /\ nodes \in [Node -> NodeRow]
      /\ tick' = tick /\ cancel' = cancel /\ up' = up /\ outages' = outages
  BY <1>0, Zenon DEF StoreTypeOK, ExecutionTypeOK, membership
<1>2. WritesCopy(exec[n][j]) /\ inbox' = inbox /\ \E e \in Executor : ExecutorStep(n, j, e)
  BY <1>0, ExecutorSteps, Zenon
<1>3. \A m \in Node, k \in Job : exec'[m][k] = exec[m][k] \/ (m = n /\ k = j)
  <2>1. \E e \in Executor : Continue(n, j, e)
    BY <1>2, Zenon DEF ExecutorStep
  <2>2. ASSUME NEW e \in Executor, Continue(n, j, e)
        PROVE  \A m \in Node, k \in Job : exec'[m][k] = exec[m][k] \/ (m = n /\ k = j)
    BY <1>1, <2>2, Zenon DEF Continue
  <2> QED
    BY <2>1, <2>2, Zenon
<1>4. exec[n][j].phase # "none"
  BY Zenon DEF ReportStep, DropReport, StartReport, MarkRunning, FetchJob, LoadNode, FreeNode, Finalize
<1>5. jobs[j].node = n /\ jobs[j].status \in {"scheduled", "running", "cancelled"}
  BY <1>0, <1>4, Zenon DEF EmployedOK, Employed
<1>6. jobs[j].status \notin Result
  BY <1>5, Zenon DEF Result
<1>7. AllUp' /\ NoEvictions'
  <2>1. \A m \in Node : nodes'[m].status = nodes[m].status /\ nodes'[m].fresh = nodes[m].fresh
    <3>1. CASE nodes' = nodes
      BY <3>1, Zenon
    <3>2. CASE /\ exec[n][j].phase = "free"
               /\ nodes' = UpdateAvailability(exec[n][j].on, exec[n][j].avail)
      <4>1. exec[n][j].on \in Node
        BY <1>0, <3>2, Zenon DEF ExecutorOK
      <4> QED
        BY <1>1, <3>2, <4>1, Zenon DEF UpdateAvailability, NodeRow
    <3> QED
      BY <1>2, <3>1, <3>2, Zenon DEF WritesCopy
  <2> QED
    BY <1>0, <1>1, <2>1, Zenon DEF AllUp, NoEvictions
<1>8. CASE jobs' = jobs
  <2>1. LifeInv' /\ CancelsOpen' /\ VerdictsStay
    BY <1>0, <1>1, <1>8, LifeKept, Zenon DEF CancelsOpen, VerdictsStay
  <2>2. EmployedOK'
    <3> SUFFICES ASSUME NEW m \in Node, NEW k \in Job, Employed(m, k)'
                 PROVE  /\ jobs[k].node = m
                        /\ jobs[k].status \in {"scheduled", "running", "cancelled"}
      BY <1>8, Zenon DEF EmployedOK
    <3>1. Employed(m, k)
      BY <1>2, <1>3, <1>4, Zenon DEF Employed
    <3> QED
      BY <1>0, <3>1, Zenon DEF EmployedOK
  <2> QED
    BY <1>7, <2>1, <2>2, Zenon DEF FinalInv
<1>9. ASSUME NEW s \in JobStatus, jobs' = UpdateStatus(j, s), Working(exec[n][j]),
             s = "running" \/ exec'[n][j] = NoExecutor
      PROVE  FinalInv' /\ VerdictsStay
  <2>1. /\ \A k \in Job \ {j} : jobs'[k] = jobs[k]
        /\ jobs'[j].status = s /\ jobs'[j].node = jobs[j].node
    BY <1>1, <1>9, UpdateEffect, Zenon
  <2>2. tick.phase = "idle" /\ Calm /\ \A m \in Node : inbox[m] = {}
    BY <1>0, <1>9, Zenon DEF Alone, Resting
  <2>3. LifeInv'
    BY <1>0, <1>1, <2>2, LifeBetween, Zenon
  <2>4. CancelsOpen' /\ VerdictsStay
    <3>1. CancelsOpen'
      BY <1>1, <2>2, Zenon DEF CancelsOpen, Calm
    <3>2. VerdictsStay
      BY <1>6, <2>1, Zenon DEF VerdictsStay
    <3> QED
      BY <3>1, <3>2, Zenon
  <2>5. EmployedOK'
    <3> SUFFICES ASSUME NEW m \in Node, NEW k \in Job, Employed(m, k)'
                 PROVE  /\ jobs'[k].node = m
                        /\ jobs'[k].status \in {"scheduled", "running", "cancelled"}
      BY Zenon DEF EmployedOK
    <3>1. exec'[m][k].phase # "none"
      BY <1>2, <2>2, Zenon DEF Employed
    <3>2. CASE k = j /\ m = n
      <4>1. s = "running"
        BY <1>9, <3>1, <3>2, NoCallTypes, Zenon
      <4> QED
        BY <1>5, <2>1, <3>2, <4>1, Zenon
    <3>3. CASE ~ (k = j /\ m = n)
      <4>1. /\ jobs[k].node = m
            /\ jobs[k].status \in {"scheduled", "running", "cancelled"}
        <5>1. exec'[m][k] = exec[m][k]
          BY <1>3, <3>3, Zenon
        <5>2. Employed(m, k)
          BY <3>1, <5>1, Zenon DEF Employed
        <5> QED
          BY <1>0, <5>2, Zenon DEF EmployedOK
      <4>2. k # j
        BY <1>5, <3>3, <4>1, Zenon
      <4> QED
        BY <2>1, <4>1, <4>2, Zenon
    <3> QED
      BY <3>2, <3>3, Zenon
  <2> QED
    BY <1>7, <2>3, <2>4, <2>5, Zenon DEF FinalInv
<1>10. CASE MarkRunning(n, j)
  <2>1. jobs' = jobs \/ jobs' = UpdateStatus(j, "running")
    BY <1>10, Zenon DEF MarkRunning, After
  <2>2. Working(exec[n][j]) /\ "running" \in JobStatus
    BY <1>10, Zenon DEF MarkRunning, Working, JobStatus
  <2> QED
    BY <1>8, <1>9, <2>1, <2>2, Zenon
<1>11. CASE Finalize(n, j)
  <2>1. jobs' = jobs \/ jobs' = UpdateStatus(j, exec[n][j].result)
    BY <1>11, Zenon DEF Finalize, After
  <2>2. Working(exec[n][j]) /\ exec[n][j].result \in JobStatus
    BY <1>0, <1>11, Zenon DEF Finalize, Working, ExecutorOK, Result, JobStatus
  <2>3. exec'[n][j] = NoExecutor
    BY <1>1, <1>11, Zenon DEF Finalize, Continue
  <2> QED
    BY <1>8, <1>9, <2>1, <2>2, <2>3, Zenon
<1>12. CASE ~ MarkRunning(n, j) /\ ~ Finalize(n, j)
  <2>1. jobs' = jobs
    BY <1>12, Zenon DEF ReportStep, DropReport, StartReport, FetchJob, LoadNode, FreeNode
  <2> QED
    BY <1>8, <2>1, Zenon
<1> QED
  BY <1>10, <1>11, <1>12, Zenon

(* A statement of a cancellation: what is being cancelled has not ended.   *)
LEMMA FinalCancel ==
    ASSUME FinalInv, Alone', ClusterTypeInv', UNCHANGED <<membership, tick, execution>>,
           NEW c \in Client, NEW j \in Job,
           BeginCancel(c, j) \/ CancelStep(c, j) \/ DropCancel(c, j)
    PROVE  FinalInv' /\ VerdictsStay
<1>0. /\ ClusterTypeInv /\ LifeInv /\ NoEvictions /\ AllUp /\ Alone /\ EmployedOK /\ CancelsOpen
      /\ TypeInv' /\ StoreTypeOK /\ CancellationTypeOK /\ CancelOK(cancel[c][j])
  BY Zenon DEF FinalInv, ClusterTypeInv, TypeInv, EngineInv, HandlersOK
<1>1. /\ cancel \in [Client -> [Job -> Cancel]]
      /\ jobs \in [Job -> JobRow] /\ nodes \in [Node -> NodeRow]
      /\ tick' = tick /\ inbox' = inbox /\ exec' = exec /\ up' = up /\ outages' = outages
  BY <1>0, Zenon DEF StoreTypeOK, CancellationTypeOK, membership, execution
<1>2. WritesCopy(cancel[c][j]) /\ \E r \in Cancel : AnswerStep(c, j, r)
  BY <1>0, CancelSteps, Zenon
<1>3. \A b \in Client, k \in Job : cancel'[b][k] = cancel[b][k] \/ (b = c /\ k = j)
  <2>1. \E r \in Cancel : Answer(c, j, r)
    BY <1>2, Zenon DEF AnswerStep
  <2>2. ASSUME NEW r \in Cancel, Answer(c, j, r)
        PROVE  \A b \in Client, k \in Job : cancel'[b][k] = cancel[b][k] \/ (b = c /\ k = j)
    BY <1>1, <2>2, Zenon DEF Answer
  <2> QED
    BY <2>1, <2>2, Zenon
<1>4. jobs[j].status \notin Result
  <2>1. CASE BeginCancel(c, j)
    BY <2>1, Zenon DEF BeginCancel, IsTerminal, Result
  <2>2. CASE CancelStep(c, j) \/ DropCancel(c, j)
    <3>1. cancel[c][j].phase # "none"
      BY <2>2, Zenon DEF CancelStep, DropCancel, CancelLoad, CancelFree, CancelFinal
    <3> QED
      BY <1>0, <3>1, Zenon DEF CancelsOpen
  <2> QED
    BY <2>1, <2>2, Zenon
<1>5. AllUp' /\ NoEvictions'
  <2>1. \A m \in Node : nodes'[m].status = nodes[m].status /\ nodes'[m].fresh = nodes[m].fresh
    <3>1. CASE nodes' = nodes
      BY <3>1, Zenon
    <3>2. CASE /\ cancel[c][j].phase = "free"
               /\ nodes' = UpdateAvailability(cancel[c][j].on, cancel[c][j].avail)
      <4>1. cancel[c][j].on \in Node
        BY <1>0, <3>2, Zenon DEF CancelOK
      <4> QED
        BY <1>1, <3>2, <4>1, Zenon DEF UpdateAvailability, NodeRow
    <3> QED
      BY <1>2, <3>1, <3>2, Zenon DEF WritesCopy
  <2> QED
    BY <1>0, <1>1, <2>1, Zenon DEF AllUp, NoEvictions
<1>6. ASSUME \A k \in Job : jobs'[k].node = jobs[k].node,
             \A k \in Job \ {j} : jobs'[k].status = jobs[k].status,
             jobs'[j].status = jobs[j].status \/ jobs'[j].status = "cancelled"
      PROVE  EmployedOK' /\ CancelsOpen' /\ VerdictsStay
  <2>1. \A k \in Job : jobs'[k].status = jobs[k].status \/ jobs'[k].status = "cancelled"
    BY <1>6, Zenon
  <2>2. EmployedOK'
    <3> SUFFICES ASSUME NEW m \in Node, NEW k \in Job, Employed(m, k)'
                 PROVE  /\ jobs'[k].node = m
                        /\ jobs'[k].status \in {"scheduled", "running", "cancelled"}
      BY Zenon DEF EmployedOK
    <3>1. Employed(m, k)
      BY <1>1, Zenon DEF Employed
    <3>2. jobs[k].node = m /\ jobs[k].status \in {"scheduled", "running", "cancelled"}
      BY <1>0, <3>1, Zenon DEF EmployedOK
    <3> QED
      BY <1>6, <2>1, <3>2, Zenon
  <2>3. CancelsOpen'
    <3> SUFFICES ASSUME NEW b \in Client, NEW k \in Job, cancel'[b][k].phase # "none"
                 PROVE  jobs'[k].status \notin Result
      BY Zenon DEF CancelsOpen
    <3>1. jobs[k].status \notin Result
      BY <1>0, <1>3, <1>4, Zenon DEF CancelsOpen
    <3>2. "cancelled" \notin Result
      BY Zenon DEF Result
    <3> QED
      BY <2>1, <3>1, <3>2, Zenon
  <2>4. VerdictsStay
    BY <1>4, <1>6, Zenon DEF VerdictsStay
  <2> QED
    BY <2>2, <2>3, <2>4, Zenon
<1>7. CASE CancelFinal(c, j)
  <2>1. jobs' = jobs \/ jobs' = UpdateStatus(j, "cancelled")
    BY <1>7, Zenon DEF CancelFinal, After
  <2>2. tick.phase = "idle"
    BY <1>0, <1>7, Zenon DEF Alone, Calm, CancelFinal
  <2>3. LifeInv'
    BY <1>0, <1>1, <2>2, LifeBetween, Zenon
  <2>4. /\ \A k \in Job \ {j} : UpdateStatus(j, "cancelled")[k] = jobs[k]
        /\ UpdateStatus(j, "cancelled")[j].status = "cancelled"
        /\ UpdateStatus(j, "cancelled")[j].node = jobs[j].node
    <3>1. "cancelled" \in JobStatus
      BY Zenon DEF JobStatus
    <3> QED
      BY <1>1, <3>1, UpdateEffect, Zenon
  <2>5. CASE jobs' = jobs
    BY <1>0, <1>5, <1>6, <2>3, <2>5, Zenon DEF FinalInv
  <2>6. CASE jobs' = UpdateStatus(j, "cancelled")
    <3>1. \A k \in Job : jobs'[k].node = jobs[k].node
      BY <2>4, <2>6, Zenon
    <3>2. /\ \A k \in Job \ {j} : jobs'[k].status = jobs[k].status
          /\ jobs'[j].status = "cancelled"
      BY <2>4, <2>6, Zenon
    <3> QED
      BY <1>5, <1>6, <2>3, <3>1, <3>2, Zenon DEF FinalInv
  <2> QED
    BY <2>1, <2>5, <2>6, Zenon
<1>8. CASE ~ CancelFinal(c, j)
  <2>1. jobs' = jobs
    BY <1>8, Zenon DEF BeginCancel, CancelStep, DropCancel, CancelLoad, CancelFree, store
  <2>2. LifeInv'
    BY <1>0, <1>1, <2>1, LifeKept, Zenon
  <2> QED
    BY <1>5, <1>6, <2>1, <2>2, Zenon DEF FinalInv
<1> QED
  BY <1>7, <1>8, Zenon

(* Every step that leaves at most one of them in progress.                 *)
LEMMA FinalStep ==
    ASSUME ~ EnablePreemption, MaxOutages = 0, FinalInv, ClusterNext, Alone'
    PROVE  FinalInv' /\ VerdictsStay
<1>0. ClusterTypeInv'
  BY ClusterTypeStep, Zenon DEF FinalInv
<1>1. CASE ClusterEngine \/ ClusterUsers \/ ClusterMembership
  BY <1>0, <1>1, FinalControlPlane, Zenon
<1>2. CASE ClusterExecution
  <2>1. UNCHANGED <<membership, tick, cancel>>
    BY <1>2, Zenon DEF ClusterExecution
  <2>2. PICK n \in Node :
           \/ Poll(n)
           \/ \E j \in Job : \/ Claim(n, j)
                             \/ \E r \in Result : Finish(n, j, r)
                             \/ ReportStep(n, j)
                             \/ DropReport(n, j)
    BY <1>2, Zenon DEF ClusterExecution
  <2>3. CASE Poll(n) \/ \E j \in Job : Claim(n, j) \/ \E r \in Result : Finish(n, j, r)
    BY <1>0, <2>1, <2>3, FinalAgent, Zenon
  <2>4. CASE \E j \in Job : ReportStep(n, j) \/ DropReport(n, j)
    BY <1>0, <2>1, <2>4, FinalReport, Zenon
  <2> QED
    BY <2>2, <2>3, <2>4, Zenon
<1>3. CASE ClusterCancellation
  BY <1>0, <1>3, FinalCancel, Zenon DEF ClusterCancellation
<1> QED
  BY <1>1, <1>2, <1>3, Zenon DEF ClusterNext

(* A step of others leaves all of it alone.                                *)
LEMMA FinalStutter ==
    ASSUME FinalInv, UNCHANGED cluster
    PROVE  FinalInv' /\ VerdictsStay
<1>0. /\ ClusterTypeInv /\ LifeInv /\ NoEvictions /\ AllUp /\ Alone /\ EmployedOK /\ CancelsOpen
  BY Zenon DEF FinalInv
<1>1. /\ UNCHANGED vars /\ jobs' = jobs /\ nodes' = nodes /\ tick' = tick /\ up' = up
      /\ outages' = outages /\ inbox' = inbox /\ exec' = exec /\ cancel' = cancel
  BY Zenon DEF cluster, vars, store, membership, execution
<1>2. ClusterTypeInv'
  BY <1>0, ClusterTypeStep, Zenon
<1>3. LifeInv'
  BY <1>0, <1>1, LifeStep, Zenon
<1>4. NoEvictions' /\ AllUp' /\ Alone'
  BY <1>0, <1>1, Zenon DEF NoEvictions, AllUp, Alone, Resting, Calm
<1>5. EmployedOK' /\ CancelsOpen' /\ VerdictsStay
  BY <1>0, <1>1, Zenon DEF EmployedOK, Employed, CancelsOpen, VerdictsStay
<1> QED
  BY <1>2, <1>3, <1>4, <1>5, Zenon DEF FinalInv

(* At the start nothing is in progress and nobody is employed.             *)
LEMMA FinalInit ==
    ASSUME TotalsAdd, ClusterInit
    PROVE  FinalInv
<1>1. ClusterTypeInv /\ LifeInv
  BY ClusterTypeInit, LifeInit, Zenon DEF ClusterInit
<1>2. /\ tick = Idle /\ outages = 0
      /\ \A n \in Node : inbox[n] = {} /\ ~ up[n] /\ nodes[n] = NoNodeRow
      /\ \A n \in Node, j \in Job : exec[n][j] = NoExecutor
      /\ \A c \in Client, j \in Job : cancel[c][j] = NoCancel
  BY Zenon DEF ClusterInit, Init, StoreInit, EngineInit, MembershipInit, ExecutionInit,
     CancellationInit
<1>3. NoEvictions /\ AllUp
  <2>1. NoNodeRow.status = "absent" /\ ~ NoNodeRow.fresh
    BY Zenon DEF NoNodeRow
  <2>2. \A n \in Node : nodes[n].status = "absent" /\ ~ nodes[n].fresh
    BY <1>2, <2>1, Zenon
  <2> QED
    BY <1>2, <2>2, IdleFields, Zenon DEF NoEvictions, AllUp
<1>4. Resting /\ Calm
  BY <1>2, NoCallTypes, Zenon DEF Resting, Calm, Working
<1>5. EmployedOK /\ CancelsOpen
  BY <1>2, NoCallTypes, Zenon DEF EmployedOK, Employed, CancelsOpen
<1> QED
  BY <1>1, <1>3, <1>4, <1>5, Zenon DEF FinalInv, Alone
=============================================================================
