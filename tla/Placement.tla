----------------------------- MODULE Placement ------------------------------
(***************************************************************************)
(* The pure decisions of internal/scheduler: which node a job goes to,     *)
(* which job is considered first, and which jobs a preemption evicts.      *)
(* Each is stated as the predicate its loop establishes on its result;     *)
(* PlacementLoops has the loops themselves and checks the two against each *)
(* other.                                                                  *)
(*                                                                         *)
(* A "view" is a function from nodes to node rows.  "running" maps a node  *)
(* to the set of jobs the tick believes occupy it, "created" a job to its  *)
(* submission time; submission times are distinct.                         *)
(***************************************************************************)
EXTENDS Models, FiniteSetsExt

(* scoreVec.less, also the shape of every ordering comparator: the first   *)
(* component in which the triples differ decides.                          *)
Less(a, b) ==
    \/ a[1] < b[1]
    \/ a[1] = b[1] /\ a[2] < b[2]
    \/ a[1] = b[1] /\ a[2] = b[2] /\ a[3] < b[3]

Headroom(node, r) ==
    <<node.avail["gpu"] - r["gpu"], node.avail["cpu"] - r["cpu"],
      node.avail["mem"] - r["mem"]>>

Fitting(r, view) == {n \in Node : Fits(view[n], r)}

FirstFitNode(n, r, view) ==
    /\ n \in Fitting(r, view)
    /\ \A m \in Fitting(r, view) : n <= m

BestFitNode(n, r, view) ==
    /\ n \in Fitting(r, view)
    /\ \A m \in Fitting(r, view) \ {n} :
          \/ Less(Headroom(view[n], r), Headroom(view[m], r))
          \/ Headroom(view[n], r) = Headroom(view[m], r) /\ n < m

(* Algorithm.Place of each strategy: only first-fit differs.               *)
Place(alg, n, r, view) ==
    IF alg = "first-fit" THEN FirstFitNode(n, r, view) ELSE BestFitNode(n, r, view)

-----------------------------------------------------------------------------
\* mutant: waiting is counted from the wrong end
AgingInverted(j, created, now, aging) == Priority[j] + (created[j] * aging[1]) \div aging[2]

(* aging[1] points for every aging[2] units of time waited, fractions cut  *)
(* off; a created_at in the future (clock skew between hosts) counts as no *)
(* wait.                                                                   *)
EffectivePriority(j, created, now, aging) ==
    Priority[j] + (IF now < created[j] THEN 0 ELSE ((now - created[j]) * aging[1]) \div aging[2])

(* First-fit and best-fit take jobs in the order of submission.            *)
ByCreatedAt(j, created) == <<0, 0, created[j]>>

(* The sort key of Algorithm.Order; smaller keys are placed first.         *)
OrderKey(alg, j, created, now, aging, share) ==
    LET eff == EffectivePriority(j, created, now, aging)
    IN  CASE alg = "priority"   -> <<0, 0 - eff, created[j]>>
          [] alg = "fair-share" -> <<share[Team[j]], 0 - eff, created[j]>>
          [] OTHER              -> ByCreatedAt(j, created)

-----------------------------------------------------------------------------
(* Candidate victims.  validateSubmit refuses jobs without a user, so the  *)
(* UserID test of the code never excludes one.                             *)
Candidates(j, n, running) == {v \in running[n] : Priority[v] < Priority[j]}

Cheaper(v, w, created) ==
    \/ Priority[v] < Priority[w]
    \/ Priority[v] = Priority[w] /\ created[v] > created[w]

Freed(node, vs) == [d \in Dim |-> node.avail[d] + Total(d, vs)]

(* vs is what the greedy loop collects on n: the cheapest candidates, in   *)
(* order, up to the first point at which the request fits.                 *)
Chosen(vs, j, n, view, running, created) ==
    /\ vs \subseteq Candidates(j, n, running)
    /\ \A v \in vs, w \in Candidates(j, n, running) :
          Cheaper(w, v, created) => w \in vs
    /\ \A v \in vs :
          ~ Enough(Freed(view[n], {w \in vs : Cheaper(w, v, created)}), Request[j])
    /\ Enough(Freed(view[n], vs), Request[j])

VictimPriority(vs) == MapThenSumSet(LAMBDA v : Priority[v], vs)

BetterPlan(vs, ws) ==
    \/ Cardinality(vs) < Cardinality(ws)
    \/ Cardinality(vs) = Cardinality(ws) /\ VictimPriority(vs) < VictimPriority(ws)

(* The viable plans, one per schedulable node on which the loop succeeds.  *)
Plans(j, view, running, created) ==
    {p \in [node : Node, victims : SUBSET UNION {running[n] : n \in Node}] :
        /\ Schedulable(view[p.node].status)
        /\ Chosen(p.victims, j, p.node, view, running, created)}

FindPreemption(p, j, view, running, created) ==
    /\ p \in Plans(j, view, running, created)
    /\ \A q \in Plans(j, view, running, created) \ {p} :
          \/ BetterPlan(p.victims, q.victims)
          \/ ~ BetterPlan(q.victims, p.victims) /\ p.node < q.node
=============================================================================
