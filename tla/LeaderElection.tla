--------------------------- MODULE LeaderElection ---------------------------
(***************************************************************************)
(* Leader election over a Redis lease (internal/redisx/leader.go): the     *)
(* campaign loop of Run, the keepAlive goroutine beside the callback, and  *)
(* the two owner-checked scripts.  Every Redis call is one action; it may  *)
(* fail, whether or not Redis applied it.                                  *)
(*                                                                         *)
(* Time is counted in renewal periods, a third of the lease's TTL.  When a *)
(* period ends a leader's renewal falls due.  The renewal, and after       *)
(* cancellation the return of the callback, are expected within the        *)
(* period; late[r] counts the periods by which r missed that (a pause, a   *)
(* slow statement, a Redis call waiting for its timeout).                  *)
(*                                                                         *)
(* An identity is a fresh UUID, so a restarted process is another replica. *)
(***************************************************************************)
EXTENDS Integers

CONSTANTS
    Replica,          \* scheduler processes, each with its own identity
    NoOne,            \* the key does not exist
    Periods,          \* TTL in renewal periods; the code renews at ttl / 3
    MaxLate,          \* bound on the periods a replica is late
    MaxRedisFaults,   \* bound on failed Redis calls
    MaxCrashes        \* bound on killed processes

ASSUME ElectionAssumption ==
    /\ NoOne \notin Replica
    /\ Periods \in Nat /\ Periods >= 2
    /\ MaxLate \in Nat /\ MaxRedisFaults \in Nat /\ MaxCrashes \in Nat

VARIABLES
    lock,         \* the value of the key: the identity of its owner, or NoOne
    ttl,          \* periods until the key expires
    role,         \* [Replica -> Role]: where Run is
    cancelled,    \* [Replica -> BOOLEAN]: leaderCtx of the current term
    due,          \* [Replica -> BOOLEAN]: keepAlive's ticker has fired
    late,         \* [Replica -> 0..MaxLate]
    stopped,      \* [Replica -> BOOLEAN]: the context given to Run is cancelled
    straggler,    \* [Replica -> BOOLEAN]: a renewal of the ended term is in flight
    redisFaults,
    crashes

lease == <<lock, ttl>>
progress == <<role, cancelled, due, late, stopped, straggler>>
budgets == <<redisFaults, crashes>>
election == <<lease, progress, budgets>>

(* "new": not started; "gone": Run has returned or the process is dead.    *)
Role == {"new", "standby", "leading", "releasing", "gone"}

ElectionInit ==
    /\ lock = NoOne
    /\ ttl = 0
    /\ role = [r \in Replica |-> "new"]
    /\ cancelled = [r \in Replica |-> FALSE]
    /\ due = [r \in Replica |-> FALSE]
    /\ late = [r \in Replica |-> 0]
    /\ stopped = [r \in Replica |-> FALSE]
    /\ straggler = [r \in Replica |-> FALSE]
    /\ redisFaults = 0
    /\ crashes = 0

ElectionTypeOK ==
    /\ lock \in Replica \cup {NoOne}
    /\ ttl \in 0..Periods
    /\ role \in [Replica -> Role]
    /\ cancelled \in [Replica -> BOOLEAN]
    /\ due \in [Replica -> BOOLEAN]
    /\ late \in [Replica -> 0..MaxLate]
    /\ stopped \in [Replica -> BOOLEAN]
    /\ straggler \in [Replica -> BOOLEAN]
    /\ redisFaults \in 0..MaxRedisFaults
    /\ crashes \in 0..MaxCrashes

-----------------------------------------------------------------------------
(* The verdict the caller gets on one Redis call.                          *)
RedisCall(ok) ==
    \/ ok /\ redisFaults' = redisFaults
    \/ ~ ok /\ redisFaults < MaxRedisFaults /\ redisFaults' = redisFaults + 1

(* The key's owner and remaining time after SET NX PX, renewScript and     *)
(* releaseScript on behalf of r.                                           *)
\* mutant: SET without NX
SetAnyway(r) == <<r, Periods>>

SetNX(r) == IF lock = NoOne THEN <<r, Periods>> ELSE lease

\* mutant: the renewal adds to the lease
RenewLonger(r) == IF lock = r THEN <<lock, ttl + Periods>> ELSE lease

RenewScript(r) == IF lock = r THEN <<lock, Periods>> ELSE lease

\* mutant: DEL without looking at the owner
ReleaseAnyone(r) == <<NoOne, 0>>

ReleaseScript(r) == IF lock = r THEN <<NoOne, 0>> ELSE lease

(* A call that turns the lease into "new" may have been applied or not     *)
(* when it is reported as failed.                                          *)
Becomes(l) == lock' = l[1] /\ ttl' = l[2]

Apply(ok, new) == Becomes(new) \/ (~ ok /\ UNCHANGED lease)

(* leaderCtx and keepAlive's ticker belong to the term.                    *)
EndTerm(r) ==
    /\ cancelled' = [cancelled EXCEPT ![r] = FALSE]
    /\ due' = [due EXCEPT ![r] = FALSE]
    /\ late' = [late EXCEPT ![r] = 0]

-----------------------------------------------------------------------------
Campaign(r) ==
    /\ role[r] = "new"
    /\ role' = [role EXCEPT ![r] = "standby"]
    /\ UNCHANGED <<lease, cancelled, due, late, stopped, straggler, budgets>>

(* tryAcquire.  A lease taken by a call that was reported as failed is     *)
(* nobody's until it expires: SET NX refuses its own owner too.            *)
TryAcquire(r) ==
    /\ role[r] = "standby"
    /\ ~ stopped[r]
    /\ \E ok \in BOOLEAN :
          /\ RedisCall(ok)
          /\ Apply(ok, SetNX(r))
          /\ role' = [role EXCEPT ![r] = IF ok /\ lock = NoOne THEN "leading" ELSE @]
    /\ UNCHANGED <<cancelled, due, late, stopped, straggler, crashes>>

\* mutant: 0 is not taken for a lost lease
RenewBlindly(r) ==
    /\ role[r] = "leading"
    /\ due[r]
    /\ ~ cancelled[r]
    /\ \E ok \in BOOLEAN :
          /\ RedisCall(ok)
          /\ Apply(ok, RenewScript(r))
          /\ IF ok
             THEN late' = [late EXCEPT ![r] = 0] /\ UNCHANGED cancelled
             ELSE cancelled' = [cancelled EXCEPT ![r] = TRUE] /\ UNCHANGED late
    /\ due' = [due EXCEPT ![r] = FALSE]
    /\ UNCHANGED <<role, stopped, straggler, crashes>>

(* keepAlive: an error, or 0 because the key has another owner or none,    *)
(* cancels the leader's context and ends keepAlive.                        *)
Renew(r) ==
    /\ role[r] = "leading"
    /\ due[r]
    /\ ~ cancelled[r]
    /\ \E ok \in BOOLEAN :
          /\ RedisCall(ok)
          /\ Apply(ok, RenewScript(r))
          /\ IF ok /\ lock = r
             THEN late' = [late EXCEPT ![r] = 0] /\ UNCHANGED cancelled
             ELSE cancelled' = [cancelled EXCEPT ![r] = TRUE] /\ UNCHANGED late
    /\ due' = [due EXCEPT ![r] = FALSE]
    /\ UNCHANGED <<role, stopped, straggler, crashes>>

(* The context given to Run is cancelled, and leaderCtx with it.  keepAlive *)
(* returns, but a renewal it has sent already is still on its way.         *)
CancelRun(r) ==
    /\ ~ stopped[r]
    /\ role[r] # "new"
    /\ stopped' = [stopped EXCEPT ![r] = TRUE]
    /\ IF role[r] = "leading" /\ ~ cancelled[r]
       THEN /\ cancelled' = [cancelled EXCEPT ![r] = TRUE]
            /\ \E sent \in {FALSE, due[r]} : straggler' = [straggler EXCEPT ![r] = sent]
       ELSE UNCHANGED <<cancelled, straggler>>
    /\ UNCHANGED <<lease, role, due, late, budgets>>

StragglerRenews(r) ==
    /\ straggler[r]
    /\ straggler' = [straggler EXCEPT ![r] = FALSE]
    /\ Becomes(RenewScript(r))
    /\ UNCHANGED <<role, cancelled, due, late, stopped, budgets>>

\* mutant: Run returns without releasing when it was told to stop
LeadReturnsHolding(r) ==
    /\ role[r] = "leading"
    /\ cancelled[r]
    /\ role' = [role EXCEPT ![r] = IF stopped[r] THEN "gone" ELSE "releasing"]
    /\ EndTerm(r)
    /\ UNCHANGED <<lease, stopped, straggler, budgets>>

(* The callback returns, which it does only when leaderCtx is cancelled.   *)
LeadReturns(r) ==
    /\ role[r] = "leading"
    /\ cancelled[r]
    /\ role' = [role EXCEPT ![r] = "releasing"]
    /\ EndTerm(r)
    /\ UNCHANGED <<lease, stopped, straggler, budgets>>

(* release, under a context of its own; Run then returns or campaigns on.  *)
ReleaseLease(r) ==
    /\ role[r] = "releasing"
    /\ \E ok \in BOOLEAN : RedisCall(ok) /\ Apply(ok, ReleaseScript(r))
    /\ role' = [role EXCEPT ![r] = IF stopped[r] THEN "gone" ELSE "standby"]
    /\ UNCHANGED <<cancelled, due, late, stopped, straggler, crashes>>

StandDown(r) ==
    /\ role[r] = "standby"
    /\ stopped[r]
    /\ role' = [role EXCEPT ![r] = "gone"]
    /\ UNCHANGED <<lease, cancelled, due, late, stopped, straggler, budgets>>

(* The process is killed: nothing is released.                             *)
Crash(r) ==
    /\ role[r] \notin {"new", "gone"}
    /\ crashes < MaxCrashes
    /\ crashes' = crashes + 1
    /\ role' = [role EXCEPT ![r] = "gone"]
    /\ EndTerm(r)
    /\ straggler' = [straggler EXCEPT ![r] = FALSE]
    /\ UNCHANGED <<lease, stopped, redisFaults>>

(* r has something to do before the period ends.                           *)
Obliged(r) == role[r] = "leading" /\ (due[r] \/ cancelled[r])

\* mutant: the key was set without an expiry
PeriodEndsForever ==
    /\ lock # NoOne \/ \E r \in Replica : role[r] = "leading"
    /\ \A r \in Replica : Obliged(r) => late[r] < MaxLate
    /\ late' = [r \in Replica |-> IF Obliged(r) THEN late[r] + 1 ELSE late[r]]
    /\ due' = [r \in Replica |-> due[r] \/ (role[r] = "leading" /\ ~ cancelled[r])]
    /\ UNCHANGED <<lease, role, cancelled, stopped, straggler, budgets>>

(* A renewal period ends.                                                  *)
PeriodEnds ==
    /\ lock # NoOne \/ \E r \in Replica : role[r] = "leading"
    /\ \A r \in Replica : Obliged(r) => late[r] < MaxLate
    /\ late' = [r \in Replica |-> IF Obliged(r) THEN late[r] + 1 ELSE late[r]]
    /\ due' = [r \in Replica |-> due[r] \/ (role[r] = "leading" /\ ~ cancelled[r])]
    /\ Becomes(IF ttl <= 1 THEN <<NoOne, 0>> ELSE <<lock, ttl - 1>>)
    /\ UNCHANGED <<role, cancelled, stopped, straggler, budgets>>

(* What a running replica does by itself.                                  *)
ReplicaStep(r) == TryAcquire(r) \/ Renew(r) \/ LeadReturns(r) \/ ReleaseLease(r) \/ StandDown(r)

Environment(r) == Campaign(r) \/ CancelRun(r) \/ Crash(r) \/ StragglerRenews(r)

ElectionNext == PeriodEnds \/ \E r \in Replica : ReplicaStep(r) \/ Environment(r)

(* Time passes, and the goroutines of a running replica keep running.      *)
ElectionSpec ==
    /\ ElectionInit /\ [][ElectionNext]_election
    /\ WF_election(PeriodEnds)
    /\ \A r \in Replica : WF_election(ReplicaStep(r))

-----------------------------------------------------------------------------
(* leader.go, "simple, correct single-leader election": whoever leads owns *)
(* the lease, through failed calls, crashes and stragglers, unless it is   *)
(* late with its renewal, or with stopping, by all but one of the periods  *)
(* the lease lasts.                                                        *)
LeadersOwnTheLease ==
    \A r \in Replica : role[r] = "leading" /\ late[r] + 2 <= Periods => lock = r

(* leader.go, "a slow instance whose lease already expired cannot delete a *)
(* new leader's lock": a lease ends only when its time is up or when its   *)
(* owner releases it after its callback has returned.                      *)
LeasesEndDuly ==
    [][lock # NoOne /\ lock' # lock
          => lock' = NoOne /\ (ttl = 1 \/ role[lock] = "releasing")]_election

(* A replica whose Run was told to stop leaves no lease behind when it     *)
(* returns, although a renewal may be in flight while it releases: the     *)
(* others need not wait for an expiry (if no Redis call failed and the     *)
(* process was not killed).                                                *)
StoppingHandsOver ==
    \A r \in Replica : role[r] = "gone" /\ redisFaults = 0 /\ crashes = 0 => lock # r

(* leader.go, "failover is automatic when the leader dies": as long as one *)
(* replica stays in the race there is a leader again and again.            *)
FailoverHappens ==
    (\E r \in Replica : <>[](role[r] \in {"standby", "leading", "releasing"}))
        => []<>(\E r \in Replica : role[r] = "leading")

(* A leader that lost its lease steps down, however late it was.           *)
DeposedStepDown ==
    \A r \in Replica : (role[r] = "leading" /\ lock # r) ~> (role[r] # "leading")
=============================================================================
