------------------------------ MODULE Isolated ------------------------------
(***************************************************************************)
(* The same code with its ticks, handlers and polls taking turns, as they  *)
(* would if each ran in a serializable transaction: a step is taken only   *)
(* if it leaves at most one of them unfinished.  What holds here, and not  *)
(* in Cluster under the same constants, is lost to interleaving alone.     *)
(***************************************************************************)
EXTENDS Cluster

InProgress ==
    (IF tick.phase = "idle" THEN 0 ELSE 1)
    + Cardinality({n \in Node : inbox[n] # {}})
    + Cardinality({p \in Node \X Job : Working(exec[p[1]][p[2]])})
    + Cardinality({p \in Client \X Job : cancel[p[1]][p[2]].phase # "none"})

IsolatedSpec == ClusterInit /\ [][ClusterNext /\ InProgress' <= 1]_cluster

(* job.go, a terminal status "is a final state that will not change", of   *)
(* verdicts: a completed or failed job stays what it is.  A cancelled one  *)
(* does not, even with turns taken: its executor still reports a result.   *)
VerdictsFinal ==
    [][\A j \in Job : jobs[j].status \in Result => jobs'[j].status = jobs[j].status]_cluster
=============================================================================
