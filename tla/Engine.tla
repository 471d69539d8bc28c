------------------------------- MODULE Engine -------------------------------
(***************************************************************************)
(* The scheduling engine (internal/scheduler/engine.go).  One Tick is a    *)
(* long sequence of SQL statements with local computation in between; each *)
(* action below is one statement together with the computation up to the   *)
(* next, so other components interleave exactly where they can in the code.*)
(*                                                                         *)
(* "tick" holds the local variables of the tick in progress:               *)
(*   phase    the statement about to be executed                           *)
(*   dead     the nodes just marked down                                   *)
(*   lost     the rows of the active jobs found on them                    *)
(*   view     the node list read at the start, updated by Reserve/Release  *)
(*   pending  the queued jobs still to be placed                           *)
(*   usage    the active jobs TeamGPUUsage summed when ordering the queue  *)
(*   running  node -> jobs, for preemption planning                        *)
(*   now      the time the placement loop started                          *)
(*   victims  jobs the current plan has still to evict                     *)
(*   target   the node of the current plan or placement                    *)
(*                                                                         *)
(* Any statement may fail, whether or not the server applied it, and the   *)
(* engine may stop between two statements (crash, or the leader context    *)
(* is cancelled).                                                          *)
(***************************************************************************)
EXTENDS Placement, Store

CONSTANTS
    Algorithm,            \* "first-fit", "best-fit", "priority" or "fair-share"
    EnablePreemption,
    StarvationThreshold,  \* minutes
    AgingFactor           \* points per minute

ASSUME EngineAssumption ==
    /\ Algorithm \in {"first-fit", "best-fit", "priority", "fair-share"}
    /\ EnablePreemption \in BOOLEAN
    /\ StarvationThreshold \in Nat
    /\ AgingFactor \in Nat

VARIABLES
    tick    \* local state of the tick in progress

Created == [j \in Job |-> jobs[j].created]

Idle ==
    [phase   |-> "idle",
     dead    |-> {},
     lost    |-> {},
     view    |-> [n \in Node |-> NoNodeRow],
     pending |-> {},
     usage   |-> {},
     running |-> [n \in Node |-> {}],
     now     |-> 0,
     victims |-> {},
     target  |-> NoNode]

EngineInit == tick = Idle

Phase == {"idle", "lost", "requeue", "nodes", "queued", "active", "order", "place",
          "persist", "record", "evict", "return", "evicted", "replace"}

TickState ==
    [phase   : Phase,
     dead    : SUBSET Node,
     lost    : SUBSET [job : Job, retry : Nat],
     view    : [Node -> NodeRow],
     pending : SUBSET Job,
     usage   : SUBSET Job,
     running : [Node -> SUBSET Job],
     now     : Nat,
     victims : SUBSET Job,
     target  : Node \cup {NoNode}]

EngineTypeOK == tick \in TickState

(* A read that may fail: the tick continues as "then" or as "otherwise".   *)
Read(then, otherwise) ==
    /\ \E ok \in BOOLEAN : Statement(ok) /\ tick' = IF ok THEN then ELSE otherwise
    /\ UNCHANGED <<jobs, nodes, events, clock>>

-----------------------------------------------------------------------------
(* reconcileDeadNodes *)

StartTick ==
    /\ tick.phase = "idle"
    /\ \E ok \in BOOLEAN :
          /\ Statement(ok)
          /\ nodes' \in After(ok, nodes, MarkStaleDown)
          /\ tick' = IF ok /\ StaleNodes # {}
                     THEN [tick EXCEPT !.phase = "lost", !.dead = StaleNodes]
                     ELSE [tick EXCEPT !.phase = "nodes"]
    /\ UNCHANGED <<jobs, events, clock>>

LostRows(statuses) ==
    {[job |-> j, retry |-> jobs[j].retry] :
        j \in {k \in ListByStatuses(statuses) : jobs[k].node \in tick.dead}}

\* mutant: jobs not picked up yet are overlooked
LostRunning == LostRows({"running"})

LostActive == LostRows({"scheduled", "running"})

ListLost ==
    /\ tick.phase = "lost"
    /\ LET t == [tick EXCEPT !.dead = {}]
       IN  Read([t EXCEPT !.phase = IF LostActive = {} THEN "nodes" ELSE "requeue",
                          !.lost = LostActive],
                [t EXCEPT !.phase = "nodes"])

\* mutant: one retry too many
ExhaustedLate(row) == row.retry > MaxRetries[row.job]

\* mutant: one retry too few
ExhaustedEarly(row) == row.retry + 1 >= MaxRetries[row.job]

Exhausted(row) == row.retry >= MaxRetries[row.job]

(* One iteration of the loop over lost jobs.  The retry budget is judged   *)
(* on the row read by ListLost.  The order of the rows has no effect.      *)
RequeueLost ==
    /\ tick.phase = "requeue"
    /\ \E row \in tick.lost, ok \in BOOLEAN :
          /\ Statement(ok)
          /\ jobs' \in After(ok, jobs, IF Exhausted(row)
                                       THEN UpdateStatus(row.job, "failed")
                                       ELSE Requeue(row.job, "queued"))
          /\ tick' = [tick EXCEPT !.lost = @ \ {row},
                                  !.phase = IF tick.lost = {row} THEN "nodes" ELSE @]
    /\ UNCHANGED <<nodes, events, clock>>

-----------------------------------------------------------------------------
(* Tick: the three listings, the team shares and the ordering *)

ListNodes ==
    /\ tick.phase = "nodes"
    /\ Read([tick EXCEPT !.phase = "queued", !.view = nodes], Idle)

ListQueued ==
    /\ tick.phase = "queued"
    /\ Read([tick EXCEPT !.phase = "active", !.pending = ListByStatuses({"queued"})], Idle)

ListActive ==
    /\ tick.phase = "active"
    /\ LET active == ListByStatuses({"scheduled", "running"})
       IN  Read(IF tick.pending = {} THEN Idle
                ELSE [tick EXCEPT !.phase = "order",
                                  !.running = [n \in Node |-> {j \in active : jobs[j].node = n}]],
                Idle)

(* teamShares and Order.  The sort keys depend on what TeamGPUUsage summed  *)
(* over (nothing, if it failed), which matters only to fair-share, and on  *)
(* the time.                                                               *)
OrderQueue ==
    /\ tick.phase = "order"
    /\ LET active  == IF Algorithm = "fair-share" THEN ListByStatuses({"scheduled", "running"})
                                                  ELSE {}
           ordered == [tick EXCEPT !.phase = "place", !.now = clock]
       IN  Read([ordered EXCEPT !.usage = active], ordered)

(* A team's GPUs in use.  The code divides by the cluster's total, which   *)
(* is the same for every team and does not change the order, unless it is  *)
(* zero.                                                                   *)
NoGPUs == \A n \in Node : tick.view[n].cap["gpu"] = 0

TeamGPUUsage(t, active) == Total("gpu", {j \in active : Team[j] = t})

TeamShares ==
    [t \in {Team[j] : j \in Job} |->
        IF NoGPUs THEN 0 ELSE TeamGPUUsage(t, tick.usage)]

-----------------------------------------------------------------------------
(* placeOne *)

Key(j) == OrderKey(Algorithm, j, Created, tick.now, <<AgingFactor, 1>>, TeamShares)

(* j is the job the loop over the ordered queue is at.                     *)
Current(j) ==
    /\ j \in tick.pending
    /\ \A k \in tick.pending \ {j} : Less(Key(j), Key(k))

(* The loop moves past j; after the last job the tick is over.             *)
Advance(t, j) ==
    IF t.pending = {j} THEN Idle
    ELSE [t EXCEPT !.phase = "place", !.pending = @ \ {j}, !.target = NoNode]

CanPlace(j) == \E n \in Node : Place(Algorithm, n, Request[j], tick.view)

ShouldPreempt(j) ==
    \/ tick.now - jobs[j].created >= StarvationThreshold
    \/ Priority[j] >= 8

Preempts(j, p) ==
    /\ EnablePreemption
    /\ ShouldPreempt(j)
    /\ FindPreemption(p, j, tick.view, tick.running, Created)

(* commitPlacement up to the Schedule statement.  When that fails the      *)
(* reservation is rolled back but the job stays in the running map.        *)
CommitPlacement(j, n) ==
    /\ tick.phase \in {"place", "replace"}
    /\ Current(j)
    /\ Place(Algorithm, n, Request[j], tick.view)
    /\ LET reserved == Reserve(tick.view[n], Request[j])
           t == [tick EXCEPT !.view[n] = reserved, !.running[n] = @ \cup {j}, !.target = n]
       IN  \E ok \in BOOLEAN :
              /\ Statement(ok)
              /\ jobs' \in After(ok, jobs, Schedule(j, n))
              /\ tick' = IF ok THEN [t EXCEPT !.phase = "persist"]
                         ELSE Advance([t EXCEPT !.view[n] = Release(reserved, Request[j])], j)
    /\ UNCHANGED <<nodes, events, clock>>

PersistPlacement ==
    /\ tick.phase = "persist"
    /\ \E ok \in BOOLEAN :
          /\ Statement(ok)
          /\ nodes' \in After(ok, nodes,
                              UpdateAvailability(tick.target, tick.view[tick.target].avail))
    /\ tick' = [tick EXCEPT !.phase = "record"]
    /\ UNCHANGED <<jobs, events, clock>>

(* recordEvent: the error is only logged.                                  *)
RecordEvent(j, success, n) ==
    \E ok \in BOOLEAN :
        /\ Statement(ok)
        /\ events' \in After(ok, events, Record(j, success, n))

RecordPlacement(j) ==
    /\ tick.phase = "record"
    /\ Current(j)
    /\ RecordEvent(j, TRUE, tick.target)
    /\ tick' = Advance(tick, j)
    /\ UNCHANGED <<jobs, nodes, clock>>

(* No node fits and no preemption helps: j stays queued until next tick.   *)
GiveUp(j) ==
    /\ Current(j)
    /\ ~ CanPlace(j)
    /\ \/ tick.phase = "replace"
       \/ tick.phase = "place" /\ ~ \E p \in Plans(j, tick.view, tick.running, Created) :
                                       Preempts(j, p)
    /\ RecordEvent(j, FALSE, NoNode)
    /\ tick' = Advance(tick, j)
    /\ UNCHANGED <<jobs, nodes, clock>>

-----------------------------------------------------------------------------
(* applyPreemption *)

PlanPreemption(j) ==
    /\ tick.phase = "place"
    /\ Current(j)
    /\ ~ CanPlace(j)
    /\ \E p \in Plans(j, tick.view, tick.running, Created) :
          /\ Preempts(j, p)
          /\ tick' = [tick EXCEPT !.phase = "evict", !.victims = p.victims, !.target = p.node]
    /\ UNCHANGED store

(* v is the next victim; the eviction order is the planning order.         *)
NextVictim(v) ==
    /\ v \in tick.victims
    /\ \A w \in tick.victims \ {v} : Cheaper(v, w, Created)

(* The loop over the victims moves past v.                                 *)
AfterVictim(t, v) ==
    [t EXCEPT !.victims = @ \ {v},
              !.phase = IF t.victims = {v} THEN "evicted" ELSE "evict"]

(* Release in the view comes first and is kept even if Requeue fails.  The *)
(* running map keeps the victim.                                           *)
EvictVictim(v) ==
    /\ tick.phase = "evict"
    /\ NextVictim(v)
    /\ LET t == [tick EXCEPT !.view[tick.target] = Release(@, Request[v])]
       IN  \E ok \in BOOLEAN :
              /\ Statement(ok)
              /\ jobs' \in After(ok, jobs, Requeue(v, "preempted"))
              /\ tick' = IF ok THEN [t EXCEPT !.phase = "return"] ELSE AfterVictim(t, v)
    /\ UNCHANGED <<nodes, events, clock>>

\* mutant: the victim is left preempted
ReturnVictimNever(v) ==
    /\ tick.phase = "return"
    /\ NextVictim(v)
    /\ tick' = AfterVictim(tick, v)
    /\ UNCHANGED store

ReturnVictim(v) ==
    /\ tick.phase = "return"
    /\ NextVictim(v)
    /\ \E ok \in BOOLEAN :
          /\ Statement(ok)
          /\ jobs' \in After(ok, jobs, UpdateStatus(v, "queued"))
    /\ tick' = AfterVictim(tick, v)
    /\ UNCHANGED <<nodes, events, clock>>

PersistEviction ==
    /\ tick.phase = "evicted"
    /\ \E ok \in BOOLEAN :
          /\ Statement(ok)
          /\ nodes' \in After(ok, nodes,
                              UpdateAvailability(tick.target, tick.view[tick.target].avail))
    /\ tick' = [tick EXCEPT !.phase = "replace"]
    /\ UNCHANGED <<jobs, events, clock>>

-----------------------------------------------------------------------------
(* The process dies or loses leadership; what it wrote stays.              *)
Stop ==
    /\ tick.phase # "idle"
    /\ faults < MaxFaults
    /\ faults' = faults + 1
    /\ tick' = Idle
    /\ UNCHANGED <<jobs, nodes, events, clock>>

TickStep ==
    \/ StartTick \/ ListLost \/ RequeueLost
    \/ ListNodes \/ ListQueued \/ ListActive \/ OrderQueue
    \/ \E j \in Job, n \in Node : CommitPlacement(j, n)
    \/ PersistPlacement
    \/ \E j \in Job : RecordPlacement(j) \/ GiveUp(j) \/ PlanPreemption(j)
    \/ \E v \in Job : EvictVictim(v) \/ ReturnVictim(v)
    \/ PersistEviction

EngineNext == TickStep \/ Stop
=============================================================================
