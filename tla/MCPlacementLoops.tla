-------------------------- MODULE MCPlacementLoops --------------------------
(* An instance of PlacementLoops for TLC. *)
EXTENDS PlacementLoops

V(g, p, m) == [d \in Dim |-> CASE d = "gpu" -> g [] d = "cpu" -> p [] d = "mem" -> m]

Requests == <<V(1, 1, 1), V(2, 1, 0), V(1, 2, 0), V(1, 0, 1), V(2, 2, 1)>>
Priorities == <<1, 3, 1, 6, 5>>
NoRetries == [j \in Job |-> 0]
OneTeam == [j \in Job |-> "t1"]
OneInTwo == <<1, 2>>
FreeVectors == {V(g, p, m) : g \in 0..2, p \in {0, 2}, m \in 0..1}
=============================================================================
