------------------------ MODULE LeaderElectionProofs ------------------------
(***************************************************************************)
(* Safety of the leader election for any set of replicas, any lease of at  *)
(* least two renewal periods, and any number of failed calls, crashes and  *)
(* periods of lateness; and what it means for the engines of two replicas. *)
(***************************************************************************)
EXTENDS Replicas, TLAPS

(* leaderCtx, keepAlive's ticker and lateness are of the present term.     *)
TermLocal ==
    \A r \in Replica : role[r] # "leading" => ~ cancelled[r] /\ ~ due[r] /\ late[r] = 0

(* A key that exists has time left.                                        *)
LeaseLives == lock # NoOne => ttl >= 1

(* A leader with nothing to do has a full lease, and every period by which *)
(* it is late costs it one.                                                *)
LeaseCovers ==
    \A r \in Replica : role[r] = "leading" =>
        IF due[r] \/ cancelled[r]
        THEN late[r] + 2 <= Periods => lock = r /\ ttl + late[r] + 1 >= Periods
        ELSE lock = r /\ ttl = Periods /\ late[r] = 0

(* Without failed calls and crashes, the key is owned by a replica that    *)
(* leads or is about to release it.                                        *)
OwnerCares ==
    redisFaults = 0 /\ crashes = 0 =>
        \A r \in Replica : lock = r => role[r] \in {"leading", "releasing"}

ElectionInv == ElectionTypeOK /\ TermLocal /\ LeaseLives /\ LeaseCovers /\ OwnerCares

-----------------------------------------------------------------------------
(* What the three owner-checked Redis calls may do to the key, applied or  *)
(* not: SET NX takes a free key, renewScript extends r's own lease and     *)
(* releaseScript deletes r's own.                                          *)
LEMMA SetNXEffect ==
    ASSUME NEW r, NEW ok \in BOOLEAN, Apply(ok, SetNX(r))
    PROVE  \/ lock = NoOne /\ lock' = r /\ ttl' = Periods
           \/ lock' = lock /\ ttl' = ttl /\ (ok => lock # NoOne)
  BY DEF Apply, SetNX, Becomes, lease

LEMMA RenewEffect ==
    ASSUME NEW r, NEW ok \in BOOLEAN, Apply(ok, RenewScript(r))
    PROVE  \/ lock = r /\ lock' = r /\ ttl' = Periods
           \/ lock' = lock /\ ttl' = ttl /\ (ok => lock # r)
  BY DEF Apply, RenewScript, Becomes, lease

LEMMA ReleaseEffect ==
    ASSUME NEW r, NEW ok \in BOOLEAN, Apply(ok, ReleaseScript(r))
    PROVE  \/ lock = r /\ lock' = NoOne /\ ttl' = 0
           \/ lock' = lock /\ ttl' = ttl /\ (ok => lock # r)
  BY DEF Apply, ReleaseScript, Becomes, lease

(* A period takes one from the lease's time or ends it.                    *)
LEMMA PeriodEffect ==
    ASSUME PeriodEnds
    PROVE  \/ ttl <= 1 /\ lock' = NoOne /\ ttl' = 0
           \/ ~ (ttl <= 1) /\ lock' = lock /\ ttl' = ttl - 1
  BY DEF PeriodEnds, Becomes

(* A failed call is counted.                                               *)
LEMMA FaultsCounted ==
    ASSUME redisFaults \in 0..MaxRedisFaults, NEW ok \in BOOLEAN, RedisCall(ok)
    PROVE  /\ redisFaults' \in 0..MaxRedisFaults
           /\ redisFaults' = 0 => ok /\ redisFaults = 0
  BY ElectionAssumption DEF RedisCall

-----------------------------------------------------------------------------
(* The election starts with every replica down and no key.                 *)
LEMMA ElectionInvInit == ElectionInit => ElectionInv
  BY ElectionAssumption DEF ElectionInit, ElectionInv, ElectionTypeOK, TermLocal,
     LeaseLives, LeaseCovers, OwnerCares, Role

(* Every step of a replica, of its surroundings and of time preserves the  *)
(* invariant.                                                              *)
LEMMA ElectionInvStep == ElectionInv /\ [ElectionNext]_election => ElectionInv'
  <1> SUFFICES ASSUME ElectionInv, [ElectionNext]_election PROVE ElectionInv'
    OBVIOUS
  <1> USE ElectionAssumption
  <1> USE DEF ElectionInv, ElectionTypeOK, TermLocal, LeaseLives, LeaseCovers, OwnerCares, Role
  <1>1. CASE PeriodEnds
    <2>1. ElectionTypeOK'
      BY <1>1, PeriodEffect DEF PeriodEnds, Obliged, budgets
    <2>2. TermLocal' /\ LeaseLives' /\ OwnerCares'
      BY <1>1, PeriodEffect DEF PeriodEnds, Obliged, budgets
    <2>3. ASSUME NEW q \in Replica, role'[q] = "leading"
          PROVE  /\ due'[q] \/ cancelled'[q]
                 /\ late'[q] + 2 <= Periods => lock' = q /\ ttl' + late'[q] + 1 >= Periods
      <3>1. role[q] = "leading" /\ cancelled'[q] = cancelled[q]
        BY <1>1, <2>3 DEF PeriodEnds
      <3>2. due'[q] = (due[q] \/ ~ cancelled[q])
        BY <1>1, <3>1 DEF PeriodEnds
      <3>3. late'[q] = IF due[q] \/ cancelled[q] THEN late[q] + 1 ELSE late[q]
        BY <1>1, <3>1 DEF PeriodEnds, Obliged
      <3>4. late[q] \in Nat /\ ttl \in Nat
        OBVIOUS
      <3>5. due'[q] \/ cancelled'[q]
        BY <3>1, <3>2, Zenon
      <3>6. CASE due[q] \/ cancelled[q]
        BY <3>1, <3>3, <3>4, <3>5, <3>6, <1>1, PeriodEffect
      <3>7. CASE ~ (due[q] \/ cancelled[q])
        BY <3>1, <3>3, <3>4, <3>5, <3>7, <1>1, PeriodEffect
      <3> QED
        BY <3>6, <3>7
    <2>4. LeaseCovers'
      BY <2>3
    <2> QED
      BY <2>1, <2>2, <2>4
  <1>2. ASSUME NEW r \in Replica, TryAcquire(r) PROVE ElectionInv'
    <2>1. PICK ok \in BOOLEAN :
            /\ RedisCall(ok)
            /\ Apply(ok, SetNX(r))
            /\ role' = [role EXCEPT ![r] = IF ok /\ lock = NoOne THEN "leading" ELSE @]
      BY <1>2, Zenon DEF TryAcquire
    <2> QED
      BY <1>2, <2>1, SetNXEffect, FaultsCounted DEF TryAcquire
  <1>3. ASSUME NEW r \in Replica, Renew(r) PROVE ElectionInv'
    <2>1. PICK ok \in BOOLEAN :
            /\ RedisCall(ok)
            /\ Apply(ok, RenewScript(r))
            /\ IF ok /\ lock = r
               THEN late' = [late EXCEPT ![r] = 0] /\ UNCHANGED cancelled
               ELSE cancelled' = [cancelled EXCEPT ![r] = TRUE] /\ UNCHANGED late
      BY <1>3 DEF Renew
    <2>2. ElectionTypeOK'
      <3>1. cancelled' \in [Replica -> BOOLEAN] /\ due' \in [Replica -> BOOLEAN]
        BY <1>3, <2>1, Zenon DEF Renew
      <3>2. late' \in [Replica -> 0..MaxLate]
        BY <2>1
      <3>3. lock' \in Replica \cup {NoOne} /\ ttl' \in 0..Periods
        BY <2>1, RenewEffect
      <3> QED
        BY <1>3, <2>1, <3>1, <3>2, <3>3, FaultsCounted DEF Renew
    <2>3. TermLocal' /\ LeaseLives' /\ OwnerCares'
      BY <1>3, <2>1, RenewEffect, FaultsCounted DEF Renew
    <2>4. LeaseCovers'
      <3>1. CASE ok /\ lock = r
        BY <1>3, <2>1, <3>1, RenewEffect DEF Renew
      <3>2. CASE ~ (ok /\ lock = r)
        BY <1>3, <2>1, <3>2, RenewEffect DEF Renew
      <3> QED
        BY <3>1, <3>2
    <2> QED
      BY <2>2, <2>3, <2>4
  <1>4. ASSUME NEW r \in Replica, LeadReturns(r) PROVE ElectionInv'
    BY <1>4 DEF LeadReturns, EndTerm, lease, budgets
  <1>5. ASSUME NEW r \in Replica, ReleaseLease(r) PROVE ElectionInv'
    <2>1. PICK ok \in BOOLEAN : RedisCall(ok) /\ Apply(ok, ReleaseScript(r))
      BY <1>5 DEF ReleaseLease
    <2> QED
      BY <1>5, <2>1, ReleaseEffect, FaultsCounted DEF ReleaseLease
  <1>6. ASSUME NEW r \in Replica, StandDown(r) PROVE ElectionInv'
    BY <1>6 DEF StandDown, lease, budgets
  <1>7. ASSUME NEW r \in Replica, Campaign(r) PROVE ElectionInv'
    BY <1>7 DEF Campaign, lease, budgets
  <1>8. ASSUME NEW r \in Replica, CancelRun(r) PROVE ElectionInv'
    <2>1. ElectionTypeOK'
      <3>1. cancelled' \in [Replica -> BOOLEAN] /\ stopped' \in [Replica -> BOOLEAN]
        BY <1>8, Zenon DEF CancelRun
      <3>2. straggler' \in [Replica -> BOOLEAN]
        <4>1. CASE UNCHANGED straggler
          BY <4>1
        <4>2. CASE \E sent \in {FALSE, due[r]} : straggler' = [straggler EXCEPT ![r] = sent]
          <5>1. PICK sent \in {FALSE, due[r]} : straggler' = [straggler EXCEPT ![r] = sent]
            BY <4>2, Zenon
          <5>2. sent \in BOOLEAN
            BY <5>1, Zenon
          <5> QED
            BY <5>1, <5>2
        <4> QED
          BY <1>8, <4>1, <4>2 DEF CancelRun
      <3> QED
        BY <1>8, <3>1, <3>2 DEF CancelRun, lease, budgets
    <2>2. TermLocal' /\ LeaseLives' /\ OwnerCares'
      BY <1>8 DEF CancelRun, lease, budgets
    <2>3. LeaseCovers'
      <3>1. CASE role[r] = "leading" /\ ~ cancelled[r]
        BY <1>8, <3>1 DEF CancelRun, lease
      <3>2. CASE ~ (role[r] = "leading" /\ ~ cancelled[r])
        BY <1>8, <3>2 DEF CancelRun, lease
      <3> QED
        BY <3>1, <3>2
    <2> QED
      BY <2>1, <2>2, <2>3
  <1>9. ASSUME NEW r \in Replica, Crash(r) PROVE ElectionInv'
    BY <1>9 DEF Crash, EndTerm, lease
  <1>10. ASSUME NEW r \in Replica, StragglerRenews(r) PROVE ElectionInv'
    BY <1>10 DEF StragglerRenews, Becomes, RenewScript, lease, budgets
  <1>11. CASE UNCHANGED election
    BY <1>11 DEF election, lease, progress, budgets
  <1> QED
    BY <1>1, <1>2, <1>3, <1>4, <1>5, <1>6, <1>7, <1>8, <1>9, <1>10, <1>11, Zenon
       DEF ElectionNext, ReplicaStep, Environment

LEMMA ElectionInvAlways == ElectionSpec => []ElectionInv
  BY ElectionInvInit, ElectionInvStep, PTL DEF ElectionSpec

-----------------------------------------------------------------------------
(* The election's state keeps its type; above all the key never outlives   *)
(* the LockTTL that SET NX and renewScript give it.                        *)
THEOREM ElectionTypesAlways == ElectionSpec => []ElectionTypeOK
  <1>1. ElectionInv => ElectionTypeOK
    BY DEF ElectionInv
  <1> QED
    BY <1>1, ElectionInvAlways, PTL

(* leader.go, "simple, correct single-leader election": a replica that     *)
(* leads owns the lease unless it is late by all but one of the periods    *)
(* the lease lasts, whatever calls fail and processes die.                 *)
THEOREM LeadersOwnTheLeaseAlways == ElectionSpec => []LeadersOwnTheLease
  <1>1. ElectionInv => LeadersOwnTheLease
    BY ElectionAssumption DEF ElectionInv, ElectionTypeOK, LeaseCovers, LeadersOwnTheLease
  <1> QED
    BY <1>1, ElectionInvAlways, PTL

(* A replica that was told to stop leaves no lease behind (no failed call, *)
(* no crash).                                                              *)
THEOREM StoppingHandsOverAlways == ElectionSpec => []StoppingHandsOver
  <1>1. ElectionInv => StoppingHandsOver
    BY DEF ElectionInv, OwnerCares, StoppingHandsOver
  <1> QED
    BY <1>1, ElectionInvAlways, PTL

(* leader.go, "a slow instance whose lease already expired cannot delete a *)
(* new leader's lock": only time and the owner's release end a lease.      *)
THEOREM LeasesEndDulyAlways == ElectionSpec => LeasesEndDuly
  <1> DEFINE Duly == lock # NoOne /\ lock' # lock
                        => lock' = NoOne /\ (ttl = 1 \/ role[lock] = "releasing")
  <1>1. ElectionInv /\ [ElectionNext]_election => [Duly]_election
    <2> SUFFICES ASSUME ElectionInv, ElectionNext, lock # NoOne, lock' # lock
                 PROVE  lock' = NoOne /\ (ttl = 1 \/ role[lock] = "releasing")
      OBVIOUS
    <2> USE ElectionAssumption DEF ElectionInv, ElectionTypeOK, LeaseLives
    <2>1. CASE PeriodEnds
      BY <2>1, PeriodEffect
    <2>2. ASSUME NEW r \in Replica, ReplicaStep(r) PROVE lock' = NoOne /\ role[lock] = "releasing"
      BY <2>2, SetNXEffect, RenewEffect, ReleaseEffect
         DEF ReplicaStep, TryAcquire, Renew, LeadReturns, ReleaseLease, StandDown, lease
    <2>3. ASSUME NEW r \in Replica, Environment(r) PROVE FALSE
      BY <2>3 DEF Environment, Campaign, CancelRun, Crash, StragglerRenews, Becomes,
         RenewScript, lease
    <2> QED
      BY <2>1, <2>2, <2>3 DEF ElectionNext
  <1> QED
    BY <1>1, ElectionInvAlways, PTL DEF ElectionSpec, LeasesEndDuly

-----------------------------------------------------------------------------
(* The engines of two replicas *)

(* The columns of a row and the locals of a tick that a placement is read  *)
(* off.                                                                    *)
Rows == DOMAIN jobs = Job /\ \A j \in Job : "status" \in DOMAIN jobs[j]

Locals(t) == {"phase", "pending"} \subseteq DOMAIN t

(* What a step of the first engine does to rows and locals: it places a job only   *)
(* with a change of its own locals.                                        *)
LEMMA Engine1Places ==
    ASSUME Rows, Locals(tick1), E1!TickStep
    PROVE  /\ Rows' /\ Locals(tick1')
           /\ \A j \in Job : Placed(j) => tick1' # tick1
<1> DEFINE Good == Rows' /\ Locals(tick1') /\ \A j \in Job : Placed(j) => tick1' # tick1
<1> SUFFICES Good
  OBVIOUS
<1>0. Locals(E1!Idle) /\ E1!Idle.phase = "idle"
  BY DEF E1!Idle, Locals
<1>1. ASSUME jobs' = jobs, Locals(tick1') PROVE Good
  BY <1>1 DEF Rows, Placed
<1>2. ASSUME NEW t, NEW u, Locals(t), Locals(u), E1!Read(t, u) PROVE Good
  BY <1>1, <1>2 DEF E1!Read
<1>3. ASSUME NEW k \in Job, NEW s, s # "scheduled", Locals(tick1'),
             jobs' \in {jobs, E1!UpdateStatus(k, s), E1!Requeue(k, s)}
      PROVE  Good
  <2>1. Rows'
    BY <1>3, Zenon DEF Rows, E1!UpdateStatus, E1!Requeue
  <2>2. \A j \in Job : jobs'[j].status \in {jobs[j].status, s}
    BY <1>3, Zenon DEF Rows, E1!UpdateStatus, E1!Requeue
  <2> QED
    BY <1>3, <2>1, <2>2 DEF Placed
<1>4. CASE E1!StartTick
  <2>1. jobs' = jobs /\ Locals(tick1')
    BY <1>4 DEF E1!StartTick, Locals
  <2> QED
    BY <1>1, <2>1
<1>5. CASE E1!ListLost
  <2> DEFINE u == [tick1 EXCEPT !.dead = {}]
             v == [u EXCEPT !.phase = IF E1!LostActive = {} THEN "nodes" ELSE "requeue",
                            !.lost = E1!LostActive]
             w == [u EXCEPT !.phase = "nodes"]
  <2>1. E1!Read(v, w)
    BY <1>5 DEF E1!ListLost
  <2>2. Locals(v) /\ Locals(w)
    BY DEF Locals
  <2> QED
    BY <1>2, <2>1, <2>2
<1>6. CASE E1!RequeueLost
  <2>1. PICK row \in tick1.lost, ok \in BOOLEAN :
           /\ jobs' \in E1!After(ok, jobs, IF E1!Exhausted(row)
                                            THEN E1!UpdateStatus(row.job, "failed")
                                            ELSE E1!Requeue(row.job, "queued"))
           /\ tick1' = [tick1 EXCEPT !.lost = @ \ {row},
                                   !.phase = IF tick1.lost = {row} THEN "nodes" ELSE @]
    BY <1>6, Zenon DEF E1!RequeueLost
  <2>2. Locals(tick1')
    BY <2>1 DEF Locals
  <2>3. jobs' = jobs \/ jobs' = E1!UpdateStatus(row.job, "failed") \/ jobs' = E1!Requeue(row.job, "queued")
    BY <2>1 DEF E1!After
  <2>4. CASE row.job \in Job
    BY <1>3, <2>2, <2>3, <2>4
  <2>5. CASE row.job \notin Job
    <3>1. DOMAIN jobs' = Job /\ \A j \in Job : jobs'[j] = jobs[j]
      BY <2>3, <2>5 DEF Rows, E1!UpdateStatus, E1!Requeue
    <3> QED
      BY <2>2, <3>1 DEF Rows, Placed
  <2> QED
    BY <2>4, <2>5
<1>7. CASE E1!ListNodes
  BY <1>0, <1>2, <1>7, Zenon DEF E1!ListNodes, Locals
<1>8. CASE E1!ListQueued
  BY <1>0, <1>2, <1>8, Zenon DEF E1!ListQueued, Locals
<1>9. CASE E1!ListActive
  <2> DEFINE r == [n \in Node |-> {j \in E1!ListByStatuses({"scheduled", "running"}) : jobs[j].node = n}]
             u == IF tick1.pending = {} THEN E1!Idle ELSE [tick1 EXCEPT !.phase = "order", !.running = r]
  <2>1. E1!Read(u, E1!Idle)
    BY <1>9 DEF E1!ListActive
  <2> HIDE DEF r
  <2>2. Locals(u)
    BY <1>0 DEF Locals
  <2> QED
    BY <1>0, <1>2, <2>1, <2>2
<1>10. CASE E1!OrderQueue
  <2> DEFINE o == [tick1 EXCEPT !.phase = "place", !.now = clock]
             S == IF Algorithm = "fair-share" THEN E1!ListByStatuses({"scheduled", "running"}) ELSE {}
  <2>1. E1!Read([o EXCEPT !.usage = S], o)
    BY <1>10 DEF E1!OrderQueue
  <2>2. Locals([o EXCEPT !.usage = S]) /\ Locals(o)
    BY DEF Locals
  <2> QED
    BY <1>2, <2>1, <2>2
<1>11. ASSUME NEW t, Locals(t), NEW j \in Job
       PROVE  Locals(E1!Advance(t, j)) /\ E1!Advance(t, j).phase \in {"idle", "place"}
  BY <1>0, <1>11 DEF E1!Advance, Locals
<1>12. ASSUME NEW j \in Job, NEW n \in Node, E1!CommitPlacement(j, n) PROVE Good
  <2> DEFINE reserved == E1!Reserve(tick1.view[n], Request[j])
             t == [tick1 EXCEPT !.view[n] = reserved, !.running[n] = @ \cup {j}, !.target = n]
             u == [t EXCEPT !.view[n] = E1!Release(reserved, Request[j])]
  <2>1. PICK ok \in BOOLEAN :
           /\ jobs' \in E1!After(ok, jobs, E1!Schedule(j, n))
           /\ tick1' = IF ok THEN [t EXCEPT !.phase = "persist"] ELSE E1!Advance(u, j)
    BY <1>12 DEF E1!CommitPlacement
  <2>2. tick1.phase \in {"place", "replace"} /\ j \in tick1.pending
    BY <1>12 DEF E1!CommitPlacement, E1!Current
  <2>3. Rows'
    BY <2>1 DEF Rows, E1!After, E1!Schedule
  <2>4. Locals(t) /\ Locals(u) /\ u.pending = tick1.pending
    BY DEF Locals
  <2> HIDE DEF t, u
  <2>5. Locals(tick1') /\ tick1' # tick1
    <3>1. CASE ok
      BY <2>1, <2>2, <2>4, <3>1 DEF Locals
    <3>2. CASE ~ ok
      <4>1. tick1' = E1!Advance(u, j)
        BY <2>1, <3>2
      <4>2. CASE u.pending = {j}
        BY <1>0, <2>2, <4>1, <4>2 DEF E1!Advance
      <4>3. CASE u.pending # {j}
        <5>1. tick1'.pending = tick1.pending \ {j}
          BY <2>4, <4>1, <4>3 DEF E1!Advance, Locals
        <5>2. Locals(tick1')
          BY <1>11, <2>4, <4>1
        <5> QED
          BY <2>2, <5>1, <5>2
      <4> QED
        BY <4>2, <4>3
    <3> QED
      BY <3>1, <3>2
  <2> QED
    BY <2>3, <2>5
<1>13. CASE E1!PersistPlacement
  BY <1>1, <1>13 DEF E1!PersistPlacement, Locals
<1>14. ASSUME NEW j \in Job, E1!RecordPlacement(j) \/ E1!GiveUp(j) PROVE Good
  <2>1. jobs' = jobs /\ tick1' = E1!Advance(tick1, j)
    BY <1>14, Zenon DEF E1!RecordPlacement, E1!GiveUp
  <2> QED
    BY <1>1, <1>11, <2>1
<1>15. ASSUME NEW j \in Job, E1!PlanPreemption(j) PROVE Good
  <2>1. jobs' = jobs /\ Locals(tick1')
    BY <1>15 DEF E1!PlanPreemption, Locals, E1!store
  <2> QED
    BY <1>1, <2>1
<1>16. ASSUME NEW t, NEW v, Locals(t) PROVE Locals(E1!AfterVictim(t, v))
  BY <1>16 DEF E1!AfterVictim, Locals
<1>17. ASSUME NEW v \in Job, E1!EvictVictim(v) PROVE Good
  <2> DEFINE t == [tick1 EXCEPT !.view[tick1.target] = E1!Release(@, Request[v])]
  <2>1. PICK ok \in BOOLEAN :
           /\ jobs' \in E1!After(ok, jobs, E1!Requeue(v, "preempted"))
           /\ tick1' = IF ok THEN [t EXCEPT !.phase = "return"] ELSE E1!AfterVictim(t, v)
    BY <1>17 DEF E1!EvictVictim
  <2>2. Locals(t)
    BY DEF Locals
  <2> HIDE DEF t
  <2>3. Locals([t EXCEPT !.phase = "return"]) /\ Locals(E1!AfterVictim(t, v))
    BY <1>16, <2>2 DEF Locals
  <2>4. Locals(tick1')
    BY <2>1, <2>3
  <2>5. jobs' \in {jobs, E1!Requeue(v, "preempted")}
    BY <2>1 DEF E1!After
  <2> QED
    BY <1>3, <2>4, <2>5
<1>18. ASSUME NEW v \in Job, E1!ReturnVictim(v) PROVE Good
  <2>1. jobs' \in {jobs, E1!UpdateStatus(v, "queued")} /\ tick1' = E1!AfterVictim(tick1, v)
    BY <1>18 DEF E1!ReturnVictim, E1!After
  <2> QED
    BY <1>3, <1>16, <2>1
<1>19. CASE E1!PersistEviction
  BY <1>1, <1>19 DEF E1!PersistEviction, Locals
<1> QED
  BY <1>4, <1>5, <1>6, <1>7, <1>8, <1>9, <1>10, <1>12, <1>13, <1>14, <1>15, <1>17, <1>18, <1>19
     DEF E1!TickStep

(* What a step of the second engine does to rows and locals: it places a job only   *)
(* with a change of its own locals.                                        *)
LEMMA Engine2Places ==
    ASSUME Rows, Locals(tick2), E2!TickStep
    PROVE  /\ Rows' /\ Locals(tick2')
           /\ \A j \in Job : Placed(j) => tick2' # tick2
<1> DEFINE Good == Rows' /\ Locals(tick2') /\ \A j \in Job : Placed(j) => tick2' # tick2
<1> SUFFICES Good
  OBVIOUS
<1>0. Locals(E2!Idle) /\ E2!Idle.phase = "idle"
  BY DEF E2!Idle, Locals
<1>1. ASSUME jobs' = jobs, Locals(tick2') PROVE Good
  BY <1>1 DEF Rows, Placed
<1>2. ASSUME NEW t, NEW u, Locals(t), Locals(u), E2!Read(t, u) PROVE Good
  BY <1>1, <1>2 DEF E2!Read
<1>3. ASSUME NEW k \in Job, NEW s, s # "scheduled", Locals(tick2'),
             jobs' \in {jobs, E2!UpdateStatus(k, s), E2!Requeue(k, s)}
      PROVE  Good
  <2>1. Rows'
    BY <1>3, Zenon DEF Rows, E2!UpdateStatus, E2!Requeue
  <2>2. \A j \in Job : jobs'[j].status \in {jobs[j].status, s}
    BY <1>3, Zenon DEF Rows, E2!UpdateStatus, E2!Requeue
  <2> QED
    BY <1>3, <2>1, <2>2 DEF Placed
<1>4. CASE E2!StartTick
  <2>1. jobs' = jobs /\ Locals(tick2')
    BY <1>4 DEF E2!StartTick, Locals
  <2> QED
    BY <1>1, <2>1
<1>5. CASE E2!ListLost
  <2> DEFINE u == [tick2 EXCEPT !.dead = {}]
             v == [u EXCEPT !.phase = IF E2!LostActive = {} THEN "nodes" ELSE "requeue",
                            !.lost = E2!LostActive]
             w == [u EXCEPT !.phase = "nodes"]
  <2>1. E2!Read(v, w)
    BY <1>5 DEF E2!ListLost
  <2>2. Locals(v) /\ Locals(w)
    BY DEF Locals
  <2> QED
    BY <1>2, <2>1, <2>2
<1>6. CASE E2!RequeueLost
  <2>1. PICK row \in tick2.lost, ok \in BOOLEAN :
           /\ jobs' \in E2!After(ok, jobs, IF E2!Exhausted(row)
                                            THEN E2!UpdateStatus(row.job, "failed")
                                            ELSE E2!Requeue(row.job, "queued"))
           /\ tick2' = [tick2 EXCEPT !.lost = @ \ {row},
                                   !.phase = IF tick2.lost = {row} THEN "nodes" ELSE @]
    BY <1>6, Zenon DEF E2!RequeueLost
  <2>2. Locals(tick2')
    BY <2>1 DEF Locals
  <2>3. jobs' = jobs \/ jobs' = E2!UpdateStatus(row.job, "failed") \/ jobs' = E2!Requeue(row.job, "queued")
    BY <2>1 DEF E2!After
  <2>4. CASE row.job \in Job
    BY <1>3, <2>2, <2>3, <2>4
  <2>5. CASE row.job \notin Job
    <3>1. DOMAIN jobs' = Job /\ \A j \in Job : jobs'[j] = jobs[j]
      BY <2>3, <2>5 DEF Rows, E2!UpdateStatus, E2!Requeue
    <3> QED
      BY <2>2, <3>1 DEF Rows, Placed
  <2> QED
    BY <2>4, <2>5
<1>7. CASE E2!ListNodes
  BY <1>0, <1>2, <1>7, Zenon DEF E2!ListNodes, Locals
<1>8. CASE E2!ListQueued
  BY <1>0, <1>2, <1>8, Zenon DEF E2!ListQueued, Locals
<1>9. CASE E2!ListActive
  <2> DEFINE r == [n \in Node |-> {j \in E2!ListByStatuses({"scheduled", "running"}) : jobs[j].node = n}]
             u == IF tick2.pending = {} THEN E2!Idle ELSE [tick2 EXCEPT !.phase = "order", !.running = r]
  <2>1. E2!Read(u, E2!Idle)
    BY <1>9 DEF E2!ListActive
  <2> HIDE DEF r
  <2>2. Locals(u)
    BY <1>0 DEF Locals
  <2> QED
    BY <1>0, <1>2, <2>1, <2>2
<1>10. CASE E2!OrderQueue
  <2> DEFINE o == [tick2 EXCEPT !.phase = "place", !.now = clock]
             S == IF Algorithm = "fair-share" THEN E2!ListByStatuses({"scheduled", "running"}) ELSE {}
  <2>1. E2!Read([o EXCEPT !.usage = S], o)
    BY <1>10 DEF E2!OrderQueue
  <2>2. Locals([o EXCEPT !.usage = S]) /\ Locals(o)
    BY DEF Locals
  <2> QED
    BY <1>2, <2>1, <2>2
<1>11. ASSUME NEW t, Locals(t), NEW j \in Job
       PROVE  Locals(E2!Advance(t, j)) /\ E2!Advance(t, j).phase \in {"idle", "place"}
  BY <1>0, <1>11 DEF E2!Advance, Locals
<1>12. ASSUME NEW j \in Job, NEW n \in Node, E2!CommitPlacement(j, n) PROVE Good
  <2> DEFINE reserved == E2!Reserve(tick2.view[n], Request[j])
             t == [tick2 EXCEPT !.view[n] = reserved, !.running[n] = @ \cup {j}, !.target = n]
             u == [t EXCEPT !.view[n] = E2!Release(reserved, Request[j])]
  <2>1. PICK ok \in BOOLEAN :
           /\ jobs' \in E2!After(ok, jobs, E2!Schedule(j, n))
           /\ tick2' = IF ok THEN [t EXCEPT !.phase = "persist"] ELSE E2!Advance(u, j)
    BY <1>12 DEF E2!CommitPlacement
  <2>2. tick2.phase \in {"place", "replace"} /\ j \in tick2.pending
    BY <1>12 DEF E2!CommitPlacement, E2!Current
  <2>3. Rows'
    BY <2>1 DEF Rows, E2!After, E2!Schedule
  <2>4. Locals(t) /\ Locals(u) /\ u.pending = tick2.pending
    BY DEF Locals
  <2> HIDE DEF t, u
  <2>5. Locals(tick2') /\ tick2' # tick2
    <3>1. CASE ok
      BY <2>1, <2>2, <2>4, <3>1 DEF Locals
    <3>2. CASE ~ ok
      <4>1. tick2' = E2!Advance(u, j)
        BY <2>1, <3>2
      <4>2. CASE u.pending = {j}
        BY <1>0, <2>2, <4>1, <4>2 DEF E2!Advance
      <4>3. CASE u.pending # {j}
        <5>1. tick2'.pending = tick2.pending \ {j}
          BY <2>4, <4>1, <4>3 DEF E2!Advance, Locals
        <5>2. Locals(tick2')
          BY <1>11, <2>4, <4>1
        <5> QED
          BY <2>2, <5>1, <5>2
      <4> QED
        BY <4>2, <4>3
    <3> QED
      BY <3>1, <3>2
  <2> QED
    BY <2>3, <2>5
<1>13. CASE E2!PersistPlacement
  BY <1>1, <1>13 DEF E2!PersistPlacement, Locals
<1>14. ASSUME NEW j \in Job, E2!RecordPlacement(j) \/ E2!GiveUp(j) PROVE Good
  <2>1. jobs' = jobs /\ tick2' = E2!Advance(tick2, j)
    BY <1>14, Zenon DEF E2!RecordPlacement, E2!GiveUp
  <2> QED
    BY <1>1, <1>11, <2>1
<1>15. ASSUME NEW j \in Job, E2!PlanPreemption(j) PROVE Good
  <2>1. jobs' = jobs /\ Locals(tick2')
    BY <1>15 DEF E2!PlanPreemption, Locals, E2!store
  <2> QED
    BY <1>1, <2>1
<1>16. ASSUME NEW t, NEW v, Locals(t) PROVE Locals(E2!AfterVictim(t, v))
  BY <1>16 DEF E2!AfterVictim, Locals
<1>17. ASSUME NEW v \in Job, E2!EvictVictim(v) PROVE Good
  <2> DEFINE t == [tick2 EXCEPT !.view[tick2.target] = E2!Release(@, Request[v])]
  <2>1. PICK ok \in BOOLEAN :
           /\ jobs' \in E2!After(ok, jobs, E2!Requeue(v, "preempted"))
           /\ tick2' = IF ok THEN [t EXCEPT !.phase = "return"] ELSE E2!AfterVictim(t, v)
    BY <1>17 DEF E2!EvictVictim
  <2>2. Locals(t)
    BY DEF Locals
  <2> HIDE DEF t
  <2>3. Locals([t EXCEPT !.phase = "return"]) /\ Locals(E2!AfterVictim(t, v))
    BY <1>16, <2>2 DEF Locals
  <2>4. Locals(tick2')
    BY <2>1, <2>3
  <2>5. jobs' \in {jobs, E2!Requeue(v, "preempted")}
    BY <2>1 DEF E2!After
  <2> QED
    BY <1>3, <2>4, <2>5
<1>18. ASSUME NEW v \in Job, E2!ReturnVictim(v) PROVE Good
  <2>1. jobs' \in {jobs, E2!UpdateStatus(v, "queued")} /\ tick2' = E2!AfterVictim(tick2, v)
    BY <1>18 DEF E2!ReturnVictim, E2!After
  <2> QED
    BY <1>3, <1>16, <2>1
<1>19. CASE E2!PersistEviction
  BY <1>1, <1>19 DEF E2!PersistEviction, Locals
<1> QED
  BY <1>4, <1>5, <1>6, <1>7, <1>8, <1>9, <1>10, <1>12, <1>13, <1>14, <1>15, <1>17, <1>18, <1>19
     DEF E2!TickStep

ReplicasInv == Rows /\ Locals(tick1) /\ Locals(tick2) /\ ElectionInv

(* A job is placed by the engine of a replica that leads.                  *)
LEMMA ReplicasStep ==
    ASSUME ReplicasInv, [ReplicasNext]_replicas
    PROVE  /\ ReplicasInv'
           /\ \A j \in Job : Placed(j) =>
                 \/ Leads(First) /\ tick1' # tick1
                 \/ Leads(Second) /\ tick1' = tick1
<1> DEFINE By(j) == \/ Leads(First) /\ tick1' # tick1
                    \/ Leads(Second) /\ tick1' = tick1
           Good == Rows' /\ Locals(tick1') /\ Locals(tick2') /\ \A j \in Job : Placed(j) => By(j)
<1>0. Rows /\ Locals(tick1) /\ Locals(tick2) /\ ElectionInv
  BY DEF ReplicasInv
<1>1. ElectionInv'
  <2>1. [ElectionNext]_election
    BY DEF ReplicasNext, replicas, Engine1, Engine2, Elections, Outside, Halt, ElectionNext, ReplicaStep,
       Environment
  <2> QED
    BY <1>0, <2>1, ElectionInvStep
<1>2. ASSUME jobs' = jobs, Locals(tick1'), Locals(tick2') PROVE Good
  BY <1>0, <1>2 DEF Rows, Placed
<1>3. Good
  <2>1. CASE Engine1
    <3>1. Leads(First) /\ E1!TickStep /\ tick2' = tick2
      BY <2>1 DEF Engine1
    <3>2. Rows' /\ Locals(tick1') /\ \A j \in Job : Placed(j) => tick1' # tick1
      BY <1>0, <3>1, Engine1Places
    <3> QED
      BY <1>0, <3>1, <3>2
  <2>2. CASE Engine2
    <3>1. Leads(Second) /\ E2!TickStep /\ tick1' = tick1
      BY <2>2 DEF Engine2
    <3>2. Rows' /\ Locals(tick2')
      BY <1>0, <3>1, Engine2Places
    <3> QED
      BY <1>0, <3>1, <3>2
  <2>3. CASE Elections
    BY <1>0, <1>2, <2>3 DEF Elections, store
  <2>4. CASE Outside
    <3>0. tick1' = tick1 /\ tick2' = tick2
      BY <2>4 DEF Outside
    <3>1. ASSUME NEW j \in Job, SubmitJob(j) PROVE Good
      <4>1. Rows'
        BY <1>0, <3>1 DEF SubmitJob, Create, Rows
      <4>2. \A k \in Job : jobs'[k].status \in {jobs[k].status, "queued"}
        BY <1>0, <3>1 DEF SubmitJob, Create, Rows
      <4> QED
        BY <1>0, <3>0, <4>1, <4>2 DEF Placed
    <3>2. CASE ~ \E j \in Job : SubmitJob(j)
      <4>1. jobs' = jobs
        BY <2>4, <3>2 DEF Outside, GatewayNext, SetNodeStatus, TickClock, Register, SendHeartbeat,
           HeartbeatLapse, AgentExit, store
      <4> QED
        BY <1>0, <1>2, <3>0, <4>1
    <3> QED
      BY <3>1, <3>2
  <2>5. ASSUME NEW r \in Replica, Halt(r) PROVE Good
    <3>1. jobs' = jobs
      BY <2>5 DEF Halt, store
    <3>2. Locals(E1!Idle) /\ Locals(E2!Idle)
      BY DEF E1!Idle, E2!Idle, Locals
    <3>3. tick1' \in {E1!Idle, tick1} /\ tick2' \in {E2!Idle, tick2}
      BY <2>5 DEF Halt
    <3> QED
      BY <1>0, <1>2, <3>1, <3>2, <3>3
  <2>6. CASE UNCHANGED replicas
    BY <1>0, <1>2, <2>6 DEF replicas, store
  <2> QED
    BY <2>1, <2>2, <2>3, <2>4, <2>5, <2>6 DEF ReplicasNext
<1> QED
  BY <1>1, <1>3 DEF ReplicasInv

(* README, "only the leader schedules": if no replica is ever late by all  *)
(* but one of the periods a lease lasts, an engine never places a job      *)
(* while the lease belongs to the other replica.                           *)
THEOREM OnlyLeaderSchedulesPunctually ==
    ASSUME First \in Replica, Second \in Replica, First # Second, MaxLate + 2 <= Periods
    PROVE  ReplicasSpec => OnlyLeaderSchedules
<1> DEFINE Duly == \A j \in Job : Placed(j) => lock # IF tick1' # tick1 THEN Second ELSE First
<1>1. ReplicasInit => ReplicasInv
  <2> SUFFICES ASSUME ReplicasInit PROVE ReplicasInv
    OBVIOUS
  <2>1. ElectionInv
    BY ElectionInvInit DEF ReplicasInit
  <2>2. Rows
    BY DEF ReplicasInit, StoreInit, NoJobRow, Rows
  <2>3. Locals(tick1) /\ Locals(tick2)
    BY DEF ReplicasInit, E1!EngineInit, E2!EngineInit, E1!Idle, E2!Idle, Locals
  <2> QED
    BY <2>1, <2>2, <2>3 DEF ReplicasInv
<1>2. ReplicasInv /\ [ReplicasNext]_replicas => ReplicasInv'
  BY ReplicasStep
<1>3. ReplicasInv /\ [ReplicasNext]_replicas => [Duly]_replicas
  <2> SUFFICES ASSUME ReplicasInv, [ReplicasNext]_replicas, NEW j \in Job, Placed(j)
               PROVE  lock # IF tick1' # tick1 THEN Second ELSE First
    OBVIOUS
  <2>1. \/ Leads(First) /\ tick1' # tick1
        \/ Leads(Second) /\ tick1' = tick1
    BY ReplicasStep
  <2>2. ASSUME NEW r \in Replica, Leads(r) PROVE lock = r
    <3>1. late[r] + 2 <= Periods
      BY ElectionAssumption DEF ReplicasInv, ElectionInv, ElectionTypeOK
    <3> QED
      BY <2>2, <3>1 DEF ReplicasInv, ElectionInv, LeaseCovers, Leads
  <2> QED
    BY <2>1, <2>2
<1> QED
  BY <1>1, <1>2, <1>3, PTL DEF ReplicasSpec, OnlyLeaderSchedules
=============================================================================
