--------------------------- MODULE PlacementLoops ---------------------------
(***************************************************************************)
(* The loops of placement.go, preemption.go, strategies.go and             *)
(* fragmentation.go, and those of the engine's and the gateway's reports,  *)
(* run on every input of a small universe and compared with what Placement *)
(* says they establish, with each other, and with their comments.          *)
(*                                                                         *)
(* A behaviour picks an input (a view of the nodes and who runs where, or  *)
(* a queue of jobs of different ages), then evaluates every function on it *)
(* once.                                                                   *)
(***************************************************************************)
EXTENDS Placement, SequencesExt

CONSTANTS
    Pending,     \* the job to be placed; the others may be running
    Free,        \* the availability vectors a node may show
    Statuses,    \* the statuses a node may show
    Moments,     \* the submission times a queue may show
    Aging        \* <<points, units of time>>

ASSUME LoopAssumption ==
    /\ Pending \in Job /\ Free \subseteq Vec /\ Statuses \subseteq NodeStatus
    /\ Moments \subseteq Nat /\ Aging \in Nat \X (Nat \ {0})

VARIABLES
    view,      \* [Node -> NodeRow]
    running,   \* [Node -> SUBSET Job]
    Created,   \* [Job -> Nat]: submission times
    now,
    out        \* the results, once evaluated

vars == <<view, running, Created, now, out>>

Nodes == SetToSortSeq(Node, <)

-----------------------------------------------------------------------------
FirstFitLoop(r) ==
    FoldLeft(LAMBDA found, n : IF found = NoNode /\ Fits(view[n], r) THEN n ELSE found,
             NoNode, Nodes)

BestFitLoop(r) ==
    FoldLeft(LAMBDA best, n :
                IF /\ Fits(view[n], r)
                   /\ best = NoNode \/ Less(Headroom(view[n], r), Headroom(view[best], r))
                THEN n ELSE best,
             NoNode, Nodes)

\* mutant: no break once the request fits
VictimLoopAll(j, n) ==
    FoldLeft(LAMBDA acc, v : [chosen |-> acc.chosen \cup {v},
                              free   |-> [d \in Dim |-> acc.free[d] + Request[v][d]]],
             [chosen |-> {}, free |-> view[n].avail],
             SetToSeq(Candidates(j, n, running)))

(* The greedy choice of victims on one node.                               *)
VictimLoop(j, n) ==
    FoldLeft(LAMBDA acc, v :
                IF Enough(acc.free, Request[j]) THEN acc
                ELSE [chosen |-> acc.chosen \cup {v},
                      free   |-> [d \in Dim |-> acc.free[d] + Request[v][d]]],
             [chosen |-> {}, free |-> view[n].avail],
             SetToSortSeq(Candidates(j, n, running), LAMBDA v, w : Cheaper(v, w, Created)))

NoPlan == [node |-> NoNode, victims |-> {}]

PreemptionLoop(j) ==
    FoldLeft(LAMBDA best, n :
                LET found == VictimLoop(j, n)
                IN  IF /\ Schedulable(view[n].status)
                       /\ Enough(found.free, Request[j])
                       /\ best = NoPlan \/ BetterPlan(found.chosen, best.victims)
                    THEN [node |-> n, victims |-> found.chosen] ELSE best,
             NoPlan, Nodes)

\* mutant: nodes out of service are counted
FragmentationOfAll ==
    LET free  == {view[n].avail["gpu"] : n \in Node}
        total == MapThenSumSet(LAMBDA n : view[n].avail["gpu"], Node)
    IN  IF total = 0 THEN <<0, 1>> ELSE <<total - Max(free), total>>

(* Numerator and denominator of the fragmentation index.                   *)
FragmentationLoop ==
    LET sum == FoldLeft(LAMBDA acc, n :
                   LET free == view[n].avail["gpu"]
                   IN  IF ~ Schedulable(view[n].status) THEN acc
                       ELSE [total |-> acc.total + free,
                             max   |-> IF free > acc.max THEN free ELSE acc.max],
                   [total |-> 0, max |-> 0], Nodes)
    IN  IF sum.total = 0 THEN <<0, 1>> ELSE <<sum.total - sum.max, sum.total>>

(* Numerator and denominator of a utilization.                             *)
Ratio(used, total) == IF total = 0 THEN <<0, 1>> ELSE <<used, total>>

\* mutant: nodes out of service are skipped
SnapshotOfReady ==
    LET ready == SelectSeq(Nodes, LAMBDA n : view[n].status = "ready")
        add(u, n) == [ready |-> u.ready + 1,
                      total |-> [d \in Dim |-> u.total[d] + view[n].cap[d]],
                      used  |-> [d \in Dim |-> u.used[d] + view[n].cap[d] - view[n].avail[d]]]
        none == [d \in Dim |-> 0]
    IN  FoldLeft(add, [ready |-> 0, total |-> none, used |-> none], ready)

(* ClusterSnapshot, with the utilizations still to be divided.             *)
SnapshotLoop ==
    LET add(u, n) == [ready |-> u.ready + (IF view[n].status = "ready" THEN 1 ELSE 0),
                      total |-> [d \in Dim |-> u.total[d] + view[n].cap[d]],
                      used  |-> [d \in Dim |-> u.used[d] + view[n].cap[d] - view[n].avail[d]]]
        none == [d \in Dim |-> 0]
    IN  FoldLeft(add, [ready |-> 0, total |-> none, used |-> none], Nodes)

(* Node.GPUUtilization, CPUUtilization and MemoryUtilization.              *)
NodeUtilization(n, d) == Ratio(view[n].cap[d] - view[n].avail[d], view[n].cap[d])

(* The jobs that are not on a node.                                        *)
Queued == Job \ UNION {running[n] : n \in Node}

(* publishGauges: the queued jobs counted by priority band, and the nodes. *)
GaugesLoop ==
    LET band(j) == CASE Priority[j] >= 8 -> "high"
                     [] Priority[j] \in 4 .. 7 -> "normal"
                     [] OTHER -> "low"
        count(depth, j) == [depth EXCEPT ![band(j)] = @ + 1]
        ready(k, n) == IF view[n].status = "ready" THEN k + 1 ELSE k
    IN  [depth |-> FoldLeft(count, [x \in {"low", "normal", "high"} |-> 0], SetToSeq(Queued)),
         ready |-> FoldLeft(ready, 0, Nodes),
         util  |-> [n \in Node |-> [d \in Dim |-> NodeUtilization(n, d)]]]

(* Order of Priority and of FirstFit and BestFit: a stable sort.           *)
OrderLoop(alg) ==
    SetToSortSeq(Queued, LAMBDA j, k : Less(OrderKey(alg, j, Created, now, Aging, [t \in {} |-> 0]),
                                            OrderKey(alg, k, Created, now, Aging, [t \in {} |-> 0])))

-----------------------------------------------------------------------------
(* A node's capacity is what is free plus what its jobs hold.              *)
Row(s, free, js) ==
    [status |-> s, fresh |-> TRUE, avail |-> free,
     cap |-> [d \in Dim |-> free[d] + Total(d, js)]]

(* Any placement of the other jobs; they were submitted in turn.           *)
PlacementInput ==
    \E at \in [Job \ {Pending} -> Node \cup {NoNode}], free \in [Node -> Free],
       s \in [Node -> Statuses] :
        /\ running = [n \in Node |-> {j \in Job \ {Pending} : at[j] = n}]
        /\ view = [n \in Node |-> Row(s[n], free[n], {j \in Job \ {Pending} : at[j] = n})]
        /\ Created = [j \in Job |-> j]
        /\ now = 0

(* Any ages of the jobs, all of them queued.                               *)
QueueInput ==
    /\ running = [n \in Node |-> {}]
    /\ view = [n \in Node |-> Row("ready", [d \in Dim |-> 0], {})]
    /\ Created \in {c \in [Job -> Moments] : IsInjective(c)}
    /\ now \in Moments

Init == (PlacementInput \/ QueueInput) /\ out = {}

Evaluate ==
    /\ out = {}
    /\ out' = {[first |-> FirstFitLoop(Request[Pending]),
                best  |-> BestFitLoop(Request[Pending]),
                plan  |-> PreemptionLoop(Pending),
                frag  |-> FragmentationLoop,
                snap  |-> SnapshotLoop,
                gauge |-> GaugesLoop,
                fifo  |-> OrderLoop("first-fit"),
                prio  |-> OrderLoop("priority")]}
    /\ UNCHANGED <<view, running, Created, now>>

Spec == Init /\ [][Evaluate]_vars

-----------------------------------------------------------------------------
(* firstFitNode, bestFitNode and FindPreemption return what the engine's   *)
(* specification says they do, and fail exactly when no node fits, or no   *)
(* plan helps.                                                             *)
LoopsAgree ==
    \A o \in out :
        /\ IF o.first = NoNode THEN Fitting(Request[Pending], view) = {}
                               ELSE FirstFitNode(o.first, Request[Pending], view)
        /\ IF o.best = NoNode THEN Fitting(Request[Pending], view) = {}
                              ELSE BestFitNode(o.best, Request[Pending], view)
        /\ IF o.plan = NoPlan THEN Plans(Pending, view, running, Created) = {}
                              ELSE FindPreemption(o.plan, Pending, view, running, Created)

(* Evicting a plan's victims makes room: after Release, clamped to the     *)
(* node's capacity, the job fits, and without any one of the victims that  *)
(* the loop added last it would not.                                       *)
PlansSuffice ==
    \A o \in out : o.plan # NoPlan =>
        LET after(vs) == FoldSet(LAMBDA v, row : Release(row, Request[v]), view[o.plan.node], vs)
        IN  /\ Fits(after(o.plan.victims), Request[Pending])
            /\ \A v \in o.plan.victims :
                  (\A w \in o.plan.victims \ {v} : Cheaper(w, v, Created))
                      => ~ Fits(after(o.plan.victims \ {v}), Request[Pending])

(* fragmentation.go, "index in [0,1]": it never reaches the 1 of free      *)
(* capacity "spread thinly everywhere"; and it is the 0 of consolidated    *)
(* capacity exactly when no GPU is free on nodes in service, or one node   *)
(* in service has every free GPU, so that a job could take them all.       *)
FragmentationMeaning ==
    \A o \in out :
        LET ready == {n \in Node : Schedulable(view[n].status)}
            total == MapThenSumSet(LAMBDA n : view[n].avail["gpu"], ready)
            all   == [d \in Dim |-> IF d = "gpu" THEN total ELSE 0]
        IN  /\ o.frag[1] >= 0 /\ o.frag[1] < o.frag[2]
            /\ o.frag[1] = 0 <=> total = 0 \/ Fitting(all, view) # {}

(* The snapshot the gateway and the metrics service report says what the   *)
(* jobs on the nodes hold, on nodes out of service too, and agrees with    *)
(* what the engine's gauges say of each node: no utilization exceeds 1,    *)
(* and the cluster's is 1 only if every node's is.                         *)
ReportsAgree ==
    \A o \in out : \A d \in Dim :
        LET util(n) == o.gauge.util[n][d]
            whole   == Ratio(o.snap.used[d], o.snap.total[d])
        IN  /\ o.snap.used[d] = Total(d, UNION {running[n] : n \in Node})
            /\ o.snap.ready = o.gauge.ready
            /\ o.gauge.depth["high"] + o.gauge.depth["normal"] + o.gauge.depth["low"]
                  = Cardinality(Queued)
            /\ whole[1] <= whole[2] /\ \A n \in Node : util(n)[1] <= util(n)[2]
            /\ whole[1] = whole[2] =>
                  \A n \in Node : view[n].cap[d] = 0 \/ util(n)[1] = util(n)[2]

(* strategies.go, aging guarantees "that even the lowest priority job      *)
(* eventually outranks fresh arrivals": a job that had waited long enough  *)
(* to make up for the difference in priority when another was submitted    *)
(* stays ahead of it at all times, rounding notwithstanding; and two jobs  *)
(* of equal priority are never overtaken by the younger one.               *)
AgingPreventsStarvation ==
    \A o \in out :
        LET before(seq, j, k) == \E x, y \in DOMAIN seq : x < y /\ seq[x] = j /\ seq[y] = k
        IN  \A j, k \in Queued :
               Created[j] < Created[k] /\ Created[k] <= now =>
                   /\ before(o.fifo, j, k)
                   /\ ((Created[k] - Created[j]) * Aging[1]) \div Aging[2] >= Priority[k] - Priority[j]
                         => before(o.prio, j, k)
=============================================================================
