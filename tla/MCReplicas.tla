----------------------------- MODULE MCReplicas -----------------------------
(* An instance of Replicas for TLC. *)
EXTENDS Replicas

CONSTANTS a

V(g, p, m) == [d \in Dim |-> CASE d = "gpu" -> g [] d = "cpu" -> p [] d = "mem" -> m]

OneTeam == [j \in Job |-> "t1"]
UnitRequests == [j \in Job |-> V(1, 1, 0)]
EqualPriorities == [j \in Job |-> 5]
OneRetry == [j \in Job |-> 1]
OneSlot == [n \in Node |-> {V(1, 1, 1)}]
=============================================================================
