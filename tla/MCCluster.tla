----------------------------- MODULE MCCluster ------------------------------
(* Instances of Cluster for TLC. *)
EXTENDS Isolated, Promises, TLC

CONSTANTS a, b, c, c1, c2

V(g, p, m) == [d \in Dim |-> CASE d = "gpu" -> g [] d = "cpu" -> p [] d = "mem" -> m]

OneTeam == [j \in Job |-> "t1"]
UnitRequests == [j \in Job |-> V(1, 1, 0)]
MixedRequests == [j \in Job |-> IF j = b THEN V(2, 1, 0) ELSE V(1, 1, 0)]
EqualPriorities == [j \in Job |-> 5]
OneUrgent == [j \in Job |-> IF j = b THEN 9 ELSE 1]
OneRetry == [j \in Job |-> 1]
OneSlot == [n \in Node |-> {V(1, 1, 1)}]
TwoSlots == [n \in Node |-> {V(2, 2, 1)}]
ClientSymmetry == Permutations(Client)
=============================================================================
