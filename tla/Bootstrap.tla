------------------------------ MODULE Bootstrap -----------------------------
(***************************************************************************)
(* What main does before RunGroup (cmd/*/main.go): one step after the      *)
(* other, any of which may end the process with status 1, while peers that *)
(* start at the same time migrate the same database.                       *)
(*                                                                         *)
(* A migration file is one Exec, which PostgreSQL runs as a transaction;   *)
(* two of them at once may make one fail in spite of IF NOT EXISTS.        *)
(***************************************************************************)
EXTENDS RunGroup

VARIABLES
    pc,      \* the step main is at
    tables   \* migration files the database has seen: 0, 1 (schema), 2 (seed)

bootstrap == <<pc, tables>>

GatewaySteps == <<"config", "tracer", "postgres", "schema", "seed", "redis">>

SchedulerSteps == <<"tracer", "postgres", "schema", "seed", "redis", "algorithm">>

MetricsSteps == <<"postgres">>

AgentSteps == <<"agent">>

Steps ==
    CASE service = "api-gateway" -> GatewaySteps
      [] service = "scheduler"   -> SchedulerSteps
      [] service = "metrics"     -> MetricsSteps
      [] service = "node-agent"  -> AgentSteps

(* Earlier processes may have migrated, or begun to.  The other services   *)
(* do not migrate, and nothing they do depends on it.                      *)
BootstrapInit ==
    /\ pc = 1
    /\ tables \in IF service \in {"api-gateway", "scheduler"} THEN 0..2 ELSE {2}

BootstrapTypeOK == pc \in 1..7 /\ tables \in 0..2

-----------------------------------------------------------------------------
At(step) == exit = "unborn" /\ Steps[pc] = step

(* RunGroup follows the last step.                                         *)
Passes ==
    /\ pc' = pc + 1
    /\ exit' = IF pc = Len(Steps) THEN "running" ELSE "unborn"

GivesUp == pc' = pc /\ exit' = "error"

(* Calls that are given the context fail without further cause once it is  *)
(* cancelled.                                                              *)
Trouble == IF signalled THEN breaks' = breaks ELSE Break

Smoothly == ~ signalled /\ breaks' = breaks

(* config.Validate, scheduler.New and agent.New: no context.               *)
Configure ==
    /\ \E step \in {"config", "algorithm", "agent"} : At(step)
    /\ (Passes /\ breaks' = breaks) \/ (GivesUp /\ Break)
    /\ UNCHANGED <<service, fn, firstErr, signalled, errors, tables>>

(* The exporter connects in the background, also after a signal.           *)
InitTracer ==
    /\ At("tracer")
    /\ (Passes /\ breaks' = breaks) \/ (GivesUp /\ Trouble)
    /\ UNCHANGED <<service, fn, firstErr, signalled, errors, tables>>

NewStore ==
    /\ At("postgres")
    /\ (Passes /\ Smoothly) \/ (GivesUp /\ Trouble)
    /\ UNCHANGED <<service, fn, firstErr, signalled, errors, tables>>

(* The file's statements are guarded, so running it again changes nothing; *)
(* the seed needs the schema.                                              *)
Applied(file) == IF file = "schema" /\ tables = 2 THEN 2 ELSE IF file = "schema" THEN 1 ELSE 2

\* mutant: an error is logged and start-up goes on
MigrateLeniently(file) ==
    /\ At(file)
    /\ \/ Passes /\ Smoothly /\ tables' = Applied(file)
       \/ Passes /\ Trouble /\ tables' \in {tables, Applied(file)}
    /\ UNCHANGED <<service, fn, firstErr, signalled, errors>>

(* One round of Migrate's loop.  A file reported as failed may have been   *)
(* committed.                                                              *)
Migrate(file) ==
    /\ At(file)
    /\ \/ Passes /\ Smoothly /\ tables' = Applied(file)
       \/ GivesUp /\ Trouble /\ tables' \in {tables, Applied(file)}
    /\ UNCHANGED <<service, fn, firstErr, signalled, errors>>

(* The gateway does without Redis, the scheduler does not.                 *)
NewRedis ==
    /\ At("redis")
    /\ \/ Passes /\ Smoothly
       \/ Trouble /\ IF service = "api-gateway" THEN Passes ELSE GivesUp
    /\ UNCHANGED <<service, fn, firstErr, signalled, errors, tables>>

StartUp == Configure \/ InitTracer \/ NewStore \/ Migrate("schema") \/ Migrate("seed") \/ NewRedis

(* A peer's migration commits.                                             *)
PeerMigrates ==
    /\ exit = "unborn"
    /\ service \in {"api-gateway", "scheduler"}
    /\ tables < 2
    /\ tables' = tables + 1
    /\ UNCHANGED <<group, pc>>
=============================================================================
