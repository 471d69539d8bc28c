--------------------------- MODULE MCControlPlane ---------------------------
(* Instances of ControlPlane for TLC. *)
EXTENDS Promises

CONSTANTS a, b, c

V(g, p, m) == [d \in Dim |-> CASE d = "gpu" -> g [] d = "cpu" -> p [] d = "mem" -> m]

OneTeam == [j \in Job |-> "t1"]
TwoTeams == [j \in Job |-> IF j = c THEN "t2" ELSE "t1"]
UnitRequests == [j \in Job |-> V(1, 1, 0)]
EqualPriorities == [j \in Job |-> 5]
OneRetry == [j \in Job |-> 1]
TwoSlots == [n \in Node |-> {V(2, 2, 1)}]
OneSlot == [n \in Node |-> {V(1, 1, 1)}]

(* a is cheap and small, b and c may preempt. *)
MixedRequests == [j \in Job |-> IF j = b THEN V(2, 0, 0) ELSE V(1, 1, 0)]
RisingPriorities == [j \in Job |-> CASE j = a -> 1 [] j = b -> 9 [] OTHER -> 4]
TwoUrgent == [j \in Job |-> IF j = a THEN 1 ELSE 9]
=============================================================================
