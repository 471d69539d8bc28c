-------------------------- MODULE MCLeaderElection --------------------------
(* An instance of LeaderElection for TLC. *)
EXTENDS LeaderElection
=============================================================================
