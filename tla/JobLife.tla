------------------------------- MODULE JobLife ------------------------------
(***************************************************************************)
(* What the platform promises its users about their jobs, without saying   *)
(* how: a submitted job waits, is placed on one machine, may be withdrawn  *)
(* and wait again, and ends once and for all.  It never moves between      *)
(* machines without waiting in between.  AllocationSpec promises more: a   *)
(* job is placed only where it fits beside the jobs already there.         *)
(***************************************************************************)
EXTENDS Models

VARIABLES
    life,   \* [Job -> {"none", "waiting", "placed", "done"}]
    at,     \* [Job -> Node \cup {NoNode}]: the machine a placed job is on
    size    \* [Node -> Vec]: how large each machine is

promise == <<life, at, size>>

LifeInit ==
    /\ life = [j \in Job |-> "none"]
    /\ at = [j \in Job |-> NoNode]
    /\ size = [n \in Node |-> [d \in Dim |-> 0]]

Changes(j, l, n) ==
    /\ life' = [life EXCEPT ![j] = l]
    /\ at' = [at EXCEPT ![j] = n]
    /\ UNCHANGED size

Enter(j) == life[j] = "none" /\ Changes(j, "waiting", NoNode)

Assign(j, n) == life[j] = "waiting" /\ Changes(j, "placed", n)

Withdraw(j) == life[j] = "placed" /\ Changes(j, "waiting", NoNode)

End(j) == life[j] \in {"waiting", "placed"} /\ Changes(j, "done", NoNode)

Resize(n) ==
    /\ size'[n] \in Vec
    /\ size' = [size EXCEPT ![n] = size'[n]]
    /\ UNCHANGED <<life, at>>

Residents(n) == {j \in Job : at[j] = n}

HasRoom(n, j) ==
    \A d \in Dim : Total(d, Residents(n)) + Request[j][d] <= size[n][d]

LifeNext ==
    \/ \E j \in Job : Enter(j) \/ Withdraw(j) \/ End(j)
    \/ \E j \in Job, n \in Node : Assign(j, n)
    \/ \E n \in Node : Resize(n)

LifeSpec == LifeInit /\ [][LifeNext]_promise

AllocationNext ==
    \/ \E j \in Job : Enter(j) \/ Withdraw(j) \/ End(j)
    \/ \E j \in Job, n \in Node : HasRoom(n, j) /\ Assign(j, n)
    \/ \E n \in Node : Resize(n)

AllocationSpec == LifeInit /\ [][AllocationNext]_promise
=============================================================================
