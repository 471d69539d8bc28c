----------------------------- MODULE MCServices -----------------------------
(* An instance of Services for TLC. *)
EXTENDS Services

CONSTANTS q1, q2, q3

OneAddress == [q \in Req |-> "here"]
Kinds == [q \in Req |-> CASE q = q1 -> "api" [] q = q2 -> "probe" [] q = q3 -> "preflight"]
=============================================================================
