# A TLA+ model of the GPU cluster scheduler

The scheduler places GPU jobs on nodes, executes them through agents, preempts,
and recovers from lost nodes. The cluster's state is in three PostgreSQL tables
(`jobs`, `nodes`, `scheduling_events`) that several processes read and write,
one SQL statement at a time and without transactions; a lease and the log lines
are in Redis. What is hard to test here is what happens *between* statements and
calls, so the SQL statement or Redis command is the unit of interleaving.

## The system

| Part | Code | State | Operations |
|---|---|---|---|
| Domain models | `internal/models` | – | statuses, `Fits`, `Reserve`, `Release` |
| Repositories | `internal/store` | the tables | one SQL statement each |
| Placement algorithms, preemption planner | `internal/scheduler/{strategies,placement,preemption}.go` | – (pure) | order the queue, choose a node, choose victims |
| Engine | `internal/scheduler/engine.go` | locals of a tick: node list, queue, running map | mark stale nodes down, requeue their jobs, place, preempt |
| Node service | `internal/grpc` | log lists in Redis | register, heartbeat, hand out assignments, apply reports, cache log lines |
| Agent | `internal/agent` | in-memory set of claimed jobs, one goroutine per job | heartbeat, poll, claim, execute, report |
| REST gateway | `internal/api` | token buckets | submit, cancel, cordon/drain/uncordon, behind a chain of middleware |
| Leader election | `internal/redisx/leader.go` | a Redis lease | acquire, renew, release; gates the engine |
| Collector | `internal/metricsvc` | gauges | count jobs, take a snapshot of the cluster |
| Process lifecycle | `cmd`, `internal/runtimex`, `store/postgres.go` | the functions of a process | start-up, migration, run group, shutdown |
| Config, logging, dashboard | `config`, `logging`, `web` | – | – |

How they interact: the gateway creates rows in status *queued*; the leader's
engine periodically lists the tables, decides from that copy, and writes
placements and availabilities back; an agent polls for *scheduled* rows of its
node, executes them, and its reports make the node service release the node's
resources and write the final status; cancellation does the same from the
gateway; heartbeats keep a node from being marked down. The behaviours that
make this hard are the overlap of these read-compute-write sequences, a
statement that fails or is applied although reported as failed, a tick or call
cut off in the middle, agents dying and restarting, heartbeats lapsing while
the agent still executes, and stale poll answers.

## Modules

Dependency order; each definition keeps the name of the function it models.

| Module | Models |
|---|---|
| `Models` | job and node rows, `Fits`/`Enough`, `Reserve`, `Release` (clamped at capacity) |
| `Store` | the tables, every statement as a function of a table; `Statement`/`After`: the verdict on and the effect of a statement that may fail |
| `Placement` | what node selection, queue order and `FindPreemption` return, declaratively |
| `PlacementLoops` | the same functions as the loops of the code, compared with `Placement`; the fragmentation index, `ClusterSnapshot`, the engine's gauges and the order of the queue |
| `JobLife` | abstract: what the platform promises about a job (`LifeSpec`), and that it is placed only where it fits (`AllocationSpec`) |
| `Engine` | `Run`/`Tick`; `tick` holds the locals, `tick.phase` the statement to be executed next |
| `Gateway` | submission, cordon / drain / uncordon |
| `NodeService` | registration, heartbeats and their lapse, agent exit |
| `ControlPlane` | engine + gateway + membership, and the properties of the engine |
| `Promises` | the tables seen as the state of `JobLife`: the refinement mapping `Promise` |
| `Execution` | the agent's poll loop and executors with the calls they make, statement by statement |
| `Cancellation` | `handleCancelJob`, statement by statement |
| `Cluster` | everything together, and the properties of the whole |
| `Isolated` | `Cluster` with ticks, calls and polls taking turns |
| `LeaderElection` | `LeaderElector`: `Run`, `keepAlive`, the two scripts, one action per Redis call |
| `Replicas` | two replicas: the election and an `Engine` each, on one `Store` |
| `RunGroup` | `RunGroup` and the functions a service gives it; all servers share one shape |
| `Bootstrap` | `main` before `RunGroup`: tracer, PostgreSQL, migrations, Redis |
| `RateLimiter` | the token buckets and the map that holds them |
| `LogCache` | `StreamLogs` and `FetchLogs`: one list in Redis, a pipeline of three commands per line |
| `Collector` | the counts of a sample, while jobs move on |
| `Services` | a process of any of the four services from start-up to exit, with the requests, streams or samples it works on |
| `MC*` | instances for TLC |
| `ControlPlaneProofs` | what one step of the engine does and preserves, whatever it runs next to; types and ranges of `ControlPlane`; the order of the queue; what a tick knows of the jobs; what is free and what is used |
| `EngineProofs` | the inductive invariants of the engine: retry budget, reconciliation, audit trail, evictions, and the theorems they give; what requests add up to, and when a node is found |
| `IsolatedProofs` | the sums of resources with executors, when ticks, polls and calls take turns |
| `PlatformProofs` | that turns leave one thing at a time under way; the refinements of `JobLife`; the theorems about resources and jobs of `ControlPlane` and `Isolated` |
| `ClusterProofs` | types, ranges, placements and verdicts of the whole, and what becomes of verdicts when turns are taken |
| `LeaderElectionProofs` | the lease, and the engines of two replicas |
| `ServicePartsProofs` | the rate limiter and the collector by themselves |
| `ServicesProofs` | the process: start-up, shutdown, log cache, and the two parts within it |

Abstractions, and why they lose nothing the properties see:

* A job's request, priority, team and `max_retries` never change after
  submission; they are constants indexed by the job. Nodes are numbers in
  hostname order, the order in which the engine's list has them.
* Lists are sets with a declarative order (`Current`, `NextVictim`), because the
  order is total: submissions get distinct `created_at` stamps. The running map
  is set-valued too; a tick visits a job once, so nothing is appended twice
  except a job that another component scheduled between two of the listings.
* Time is in whole minutes, the unit of aging; `HeartbeatTTL` is abstracted to
  the `fresh` bit, which `HeartbeatLapse` may clear at any time for a live agent
  (a slow network) and for a dead one.
* Losing leadership cancels the context of the statement in flight: that, and a
  crash, is `Stop`. Statement failures, stops and cut-off calls share the budget
  `MaxFaults`. A statement reported as failed may have been applied.
* Team shares are compared before the division by the cluster total, which is
  the same for every team.
* An executor that dies with its agent takes the call it is in with it (the
  server's context is cancelled with the connection); a handler that still
  completes is the behaviour in which the agent exits just after. A handler
  that outlives its agent *and* overlaps with the agent's restart is not
  represented.
* `scheduling_events` keeps only the latest record of each job.
* `LeaderElection` counts time in renewal periods, a third of the TTL. What a
  leader must do within a period may take longer: `late` counts the periods. An
  identity is a fresh UUID, so a restarted scheduler is another replica.
* `RateLimiter` counts tokens in grains, so that the fractions a refill adds are
  integers. `EffectivePriority` cuts off fractions of points as `int()` does;
  utilizations are kept as numerator and denominator.
* `LogCache` follows the list of one job; lists of different jobs share nothing.
  `Collector` sees the other services through what they do to a job's status.
* The services share neither variables nor actions, so `Services` lets the
  process be any one of them (`service`) instead of running four side by side.
* In `Replicas` no statement is executed after the cancellation of `leaderCtx`:
  one that was in flight took effect before, or not at all.

## What is checked

| Run | Instance | Shows |
|---|---|---|
| `recovery` | 2 jobs, 2 one-slot nodes, best-fit, 2 outages, drain/uncordon | `NothingSoldTwice`, `NoOvercommit`: the engine never promises a resource twice; `DownNodesVacated`: after reconciliation no job is left on a down node; `RetryBudgetKept`; `PlacementsAudited` |
| `preemption` | 3 jobs of 2 teams, 1 two-slot node, fair-share, starvation after a minute, 1 outage, 2 failures anywhere | `AvailabilityInRange`; `EvictionsPayOff`: after the evictions of a plan the job they were made for has a node, even if requeueing victims failed; `ImplementsJobLife`: every step on a job's row is one `JobLife` allows |
| `liveness` | 2 jobs of different priority, 2 one-slot nodes, 1 outage, draining, priority with preemption | `DeadNodesEmptied`, `DrainTakesEffect`, `PreemptedReturns`, `NoJobPassedOver` |
| `cluster` | 1 job, 1 node, 2 overlapping cancellations, 1 outage, 1 failure | of the whole system, whatever interleaves or fails: `ClusterAvailabilityInRange`, `ScheduledHasNode`, `VerdictsEarned` |
| `execution` | 1 job, 1 node, the agent dies or misses its heartbeats twice and may return, 1 failure | `ActiveJobsEnd`: a placed job ends or returns to the queue, unless it is `Abandoned` in one of the three ways listed below |
| `isolated` | 3 jobs, 2 nodes, calls and ticks taking turns | `LedgerMatches` and `ImplementsAllocation` (every placement has room) hold when nothing overlaps and, as in `lost_update`, nobody cancels |
| `placement` | 4 jobs on 2 nodes in every small combination of occupation, free resources and status; 5 queued jobs in every order of 6 moments of submission, at 6 moments | `LoopsAgree`: the loops return what `Placement` says; `PlansSuffice`: a plan suffices after clamping and its last victim is needed; `FragmentationMeaning`: the index is 0 exactly when one job could use all free GPUs; `ReportsAgree`: snapshot and gauges say what jobs hold; `AgingPreventsStarvation`: a job that has aged by the difference in priority stays ahead, rounding notwithstanding |
| `election` | 3 replicas, a TTL of 3 periods, leaders up to 2 periods late, 1 failed Redis call, 1 crash, shutdowns | `LeadersOwnTheLease`: unless it is late by all but one of the periods, whoever leads owns the lease; `LeasesEndDuly`; `StoppingHandsOver`: a clean stop leaves no lease behind although a renewal may be in flight; `FailoverHappens`; `DeposedStepDown` |
| `services` | each service; 3 requests of one address, 2 streams of 2 lines, 1 job counted while its status changes 3 times, to any other; 1 failing step or server, 1 broken pipeline, 1 failed count, a signal, a kill | `ExitTellsTruth`: the first error is the one returned, and status 0 means that nothing was cut off; `ShutdownCompletes`; `SchemaInPlace`: what serves has the whole schema; `LimiterExact`: a request passes exactly if no interval exceeds burst and rate; `LatestLinesServed`, `LogsBounded`; `CountsReliable`: only a job moved against the order of the gauges during a sample is counted twice or missed |

Between them the runs also check a type invariant for each composition.

Three runs are expected to be violated: each states what a comment or the
project's README says, and TLC shows the behaviour that contradicts it.

| Run | Statement | Behaviour |
|---|---|---|
| `lost_update` | `LedgerMatches` (`nodes.go:80`) | a completion while a tick is under way is overwritten by the tick's stale availability |
| `resurrection` | `TerminalIsFinal` (`job.go:18`) | a status written from a stale read, or reported by an executor nobody told, replaces a cancelled one. Taking turns does not help a cancelled job; what it does guarantee is `IsolatedVerdictsFinal` below |
| `split_brain` | `OnlyLeaderSchedules` (`README.md:67`, `leader.go:56`) | a leader two periods late with its renewal places a job while the lease is another's: nothing it writes is fenced. With at most one period it cannot (`OnlyLeaderSchedulesPunctually` below) |

Other limits of the code that came up while modelling:

* A lost node's jobs are requeued but their resources are not released: when it
  returns, they are still taken. `NothingSoldTwice` therefore says that a node
  advertises all that is free only until the first loss (drop `outages = 0` to
  see it).
* `DeadNodesEmptied` needs that no statement fails: only the tick that marks a
  node down looks for its jobs (`MaxFaults = 1` in `liveness.cfg`).
* The project's README promises recovery when an agent is killed, and
  `ActiveJobsEnd` has to except three kinds of jobs, which stay *scheduled* or
  *running* for ever (`Abandoned`): those an agent was running when it was
  restarted within the heartbeat TTL, or whose report failed, since an agent
  polls for scheduled jobs only; those on a node that was already marked down
  when its agent died, or whose requeueing failed, since only the tick that marks
  a node down looks for its jobs; and those a late report set running after they
  had lost their node. Drop a disjunct of `Abandoned` to see each.
* Nothing evicts idle buckets from the rate limiter's map, although its comment
  says so.
* `RunGroup` does not stop the other functions when one fails: a scheduler whose
  gRPC listener failed keeps leading until it is told to stop.
* A count that fails is published as 0; a pipeline that breaks can leave a log
  list longer than its limit or without expiry (`LogsBounded` says by how much).
* Executors of one agent share an unsynchronised random source. The outcomes
  (any duration, any result, a panic) are among those `Finish` and `AgentExit`
  allow.
* `PreemptedReturns` needs that no statement fails: a victim whose second status
  write fails stays *preempted*, a status no listing selects
  (`MaxFaults = 1` in `liveness.cfg`).
* `LedgerMatches` needs, besides isolation, that nobody cancels: the agent is not
  told, and its next *running* report revives the cancelled job after its
  resources were released (`Client = {c1}` in `isolated.cfg`).
* `NothingSoldTwice` and `NoOvercommit` need that the engine is not stopped
  between `Schedule` and `UpdateAvailability`, `PlacementsAudited` that it is not
  before `Record`, and `DownNodesVacated` that a lost node's jobs are listed and
  requeued without a failure (`MaxFaults = 1` in `recovery.cfg`, for each).
* `TerminalIsFinal` fails without any cancellation too (`Client = {}` in
  `resurrection.cfg`): a job that ends between a poll's query and the handling of
  its answer is claimed and run again.
* `VerdictsFinal` needs that no machine is lost (`MaxOutages = 1`, in `isolated.cfg`
  with that property): the executor of a job that was requeued still reports, over
  the verdict of its second execution. Preemption leaves such executors too.
* A job that is set back while it is counted can be counted twice, and one moved
  from *preempted* to *cancelled* or from *cancelled* to *running* between two
  counts is missed: no status write looks at the status it replaces.
* `AvailabilityInRange` needs that an agent always registers the same capacity:
  `Upsert` overwrites capacity and keeps availability.
* The running map keeps victims, so two preempting jobs in one tick may both plan
  on the same victim; it is then released twice, and the node is overcommitted
  (`NoOvercommit` in `preemption.cfg` with `OneSlot`, `UnitRequests`, `TwoUrgent`,
  `"priority"` and `MaxClock = 5`, even without outages and failures).
* Evictions count as retries and are not limited by them (`RetryBudgetKept` in
  `preemption.cfg`, with `MaxFaults = 0`).
* Marking a node down forgets that it was cordoned, and the heartbeat that
  revives it makes it ready.
* Victims are taken cheapest first and none is given back, so a plan may evict
  more jobs than the fewest possible.
* A workload's own failure is final: the retry budget is spent only on node
  losses and preemptions.

### Bounds

Two or three jobs and one or two nodes are enough (for `execution` one of each:
it follows a job through two losses of its agent and a failure, and with
preemption and a second job it is out of TLC's reach) for the conflicts the
properties are about: two jobs competing for a slot, a victim and its evictor
plus a bystander, a job leaving one node for another. `MaxOutages` ≥ 1 lets a
node be lost and return, and 2 exhausts a retry budget of one. `MaxFaults` = 1 or 2 places
a failure at each statement in turn. `MaxClock` only has to allow a distinct
stamp per job and one minute of aging (starvation in `preemption`). Only
the two clients of `cluster` are symmetric: job order and node order matter.

Three replicas let a third one acquire while two are on their way out, and two
periods of lateness are what a TTL of three periods cannot absorb. Two streams
and lists of two lines overflow in every order; two requests that reach the
limiter with a burst of one and half a token per moment are refused, refilled
and cut off at the burst. Three moves take a job across any two of the counts.

### Fairness

`TickStep` is weakly fair: the leader's loop runs for ever, driven by a ticker.
`Stop`, failures, outages, user and operator actions are not. A live agent's
heartbeat is weakly fair (its own ticker), and so are its poll, its claims, its
executors and the end of its workloads, which last a bounded time; a dead
agent's heartbeat eventually is older than the TTL because time passes, in
`Cluster` too, where `ActiveJobsEnd` rests on it.
Handlers run to completion. No agent is assumed to come back, no user to act.

In the election time passes and a running replica's own steps are weakly fair
(its tickers); crashes, failed calls and shutdowns are not. In a service the
steps of `main`, of the functions and of the collector are weakly fair, and so
are the streams, which executors end after a bounded workload: `GracefulStop`
has no deadline, so `ShutdownCompletes` rests on that. Nothing is assumed of the
handlers of requests.

Deadlock is not checked in `placement`, which evaluates functions once, in
`election` and `split_brain`, where every replica may have stopped, and in
`services`, where the process may have exited.

## What is proved

For arbitrary finite sets of jobs and nodes, any clients, requests, priorities,
capacities, algorithm, aging, and bounds on time, outages and failures; for any
replicas, any lease of at least two renewal periods and any bounds on lateness,
failed Redis calls and crashes; for any requests, addresses, burst, rate,
streams, lines and tracked jobs. Where a theorem assumes more, it says so, and
"Other limits" above has the behaviour that makes it false otherwise.

| Theorem | States | Assumes |
|---|---|---|
| `TypeCorrect` | `TypeOK`; no availability goes negative | |
| `AvailabilityCorrect` | `AvailabilityInRange` | `FixedCapacity` |
| `NothingSoldTwiceCorrect` | `NothingSoldTwice` | `FixedCapacity`, `MaxFaults = 0`, no preemption |
| `NoOvercommitCorrect` | `NoOvercommit` | the same |
| `AllocationImplemented` | `ImplementsAllocation`, a refinement | the same |
| `JobLifeImplemented` | `ImplementsJobLife`, a refinement | |
| `RetryCorrect` | `RetryBudgetKept` | no preemption |
| `ReconciliationCorrect` | `DownNodesVacated` | `MaxFaults = 0` |
| `AuditCorrect` | `PlacementsAudited` | `MaxFaults = 0` |
| `EvictionsCorrect` | `EvictionsPayOff` | |
| `AgedOutranks` | the queue order behind `AgingPreventsStarvation`, for any times and rates | |
| `IsolatedLedgerMatches` | `LedgerMatches`, which `lost_update` violates | steps take turns; `FixedCapacity`, `MaxFaults = 0`, `MaxOutages = 0`, no preemption, no cancellation (`Undisturbed`) |
| `IsolatedAllocationImplemented` | `ImplementsAllocation`, by the whole loop | the same |
| `IsolatedVerdictsFinal` | `VerdictsFinal`: what is completed or failed stays so | steps take turns; `MaxOutages = 0`, no preemption; any cancellations, failures and capacities |
| `ClusterTypeCorrect` | `ClusterTypeOK` | |
| `ClusterAvailabilityCorrect` | `ClusterAvailabilityInRange` | `FixedCapacity` |
| `ScheduledCorrect` | `ScheduledHasNode` | |
| `VerdictsCorrect` | `VerdictsEarned` | |
| `ElectionTypesAlways` | `ElectionTypeOK` | |
| `LeadersOwnTheLeaseAlways` | `LeadersOwnTheLease` | |
| `LeasesEndDulyAlways` | `LeasesEndDuly` | |
| `StoppingHandsOverAlways` | `StoppingHandsOver` | |
| `OnlyLeaderSchedulesPunctually` | `OnlyLeaderSchedules`, which `split_brain` violates | two replicas, `MaxLate + 2 <= Periods` |
| `ServicesTypeCorrect` | `ServicesTypeOK` | |
| `SchemaCorrect` | `SchemaInPlace` | |
| `ExitCorrect` | `ExitTellsTruth` | |
| `LatestLinesCorrect` | `LatestLinesServed` | |
| `LogsBoundedCorrect` | `LogsBounded` | |
| `LimiterCorrect` | `LimiterExact` | |
| `CountsCorrect` | `CountsReliable` | |

### How

Step lemmas have one step per action. Effect lemmas (`EngineWrites`,
`EngineViews`, `UpdateEffect`, `ScheduleEffect`, `EngineRows`, `FnEffect` and so
on) say once what an action does to one table, one view or one row, and the
invariants are proved from those.

*Types and ranges.* Types are not inductive alone: writing availability back
needs that the phases that write have a real target node (`TargetOK`), and a
report's phases that use a node and a result have one (`ExecutorOK`,
`CancelOK`). That reservations do not go below zero rests on `PlaceFits`:
whichever algorithm is configured, the node it chooses fits the job in the same
view that is then reserved. The range needs more: the engine's view and the
copies that handlers carry are written back later, so they have to be bounded by
the capacity *now* in the table. `RangeInv` therefore says that a view row is at
most the table's (`Bounded`), that every row's capacity is at most what its
agent may register (`CapacityKnown`), and `ClusterRangeInv` adds the bound on
copies in flight (`CopiesBounded`). `FixedCapacity` makes capacities monotone
(`CapacitiesGrow`), so a bounded copy stays bounded.

*The ledger.* What a set of jobs asks for is the number of its units (`Units`,
`Total`), so the library's facts about cardinality replace an induction over the
set. `LedgerInv` is about what is free on a node *as far as the engine knows*
(`Free`): between `Schedule` and `UpdateAvailability` that is what the tick's
view says, as the row lags by one request, and otherwise what the row says. It
and what the node's jobs hold add up to at most the capacity (`SoldOnce`), to
all of it until the first outage (`NoneLost`), and the view of a node in service
agrees with it (`ViewCurrent`).

Where the sums are only used, they are used through `TotalsAdd` (nothing asks for
nothing, more jobs ask for no less, disjoint sets add up), which `LifeInv`
carries; it is about constants only and `TotalsAddUp` proves it once.

*Taking turns.* `Isolated` restricts a step by the number of things it leaves
unfinished; `AtMostOne` turns that number into `Solo`: while a tick is under way
no list of a poll and no call is, and at most one call is at a time. `TurnsInv`
is the ledger with executors in it. A report gives resources back (`free`)
before it writes the status (`final`), so between the two a job is active and
holds nothing: what is free and what is held by the others (`Held`) add up to the
capacity (`Balanced`). That the giving back is right rests on the copy a report
carries: the row it has read is still the row it writes over (`CallOK`), because
nobody else has a turn. Each assumption of `Undisturbed`
is needed: `LedgerMatches` fails in `isolated.cfg` with `MaxFaults = 1`, with
`MaxOutages = 1`, with `Client = {c1}`, and with preemption (`OneUrgent`,
`UnitRequests`, `OneSlot`, `"priority"`, `StarvationThreshold = 1` and
`MaxClock = 4`), where a job leaves its executor or its resources behind; and
`Upsert` keeps what is available when a capacity changes.

*Verdicts, taking turns.* `FinalInv` says that an agent has, in its hands or in
execution, only jobs that are assigned to it and scheduled, running or cancelled
(`EmployedOK`), so that only one agent can end a job, and once; and that a
cancellation under way is of a job without a verdict (`CancelsOpen`), as no report
has a turn meanwhile (`Alone`). Without preemption and losses the engine moves
queued jobs only (`RowsPlaced`).

*A job's life.* The refinement needs that a tick's copies are not overtaken:
`LifeInv` says what the rows of the jobs in `tick.lost`, `tick.pending`,
`tick.running` and `tick.victims` can still be when the tick reaches them, and
that no job is in two of them other than the one just placed.

*Recovery.* All four rest on `LifeInv`. For `RetryInv` its part `LostFresh` is
what matters: the retry count a tick has read is still the row's. `VacatedInv`
adds that whatever is active on a down node is on the list of the tick that
marked it down; `AuditInv` that only the job the tick is at may lack its record;
`PayInv` that the view of the target node plus what the victims still to go
hold suffices for the job they make way for, unless the node is entirely free
(releases are cut off at the capacity).

*Verdicts.* `VerdictInv` follows where a terminal status can come from: a report
carries only a result its workload ended with (`ResultsEarned`), and a tick
fails only jobs it has read with their retries used up, which nobody lowers
(`LostKnown`; `RowStep` and `OtherRow` list what the engine and anything else
may do to a row).

*The election.* `LeaseCovers` is the heart of `ElectionInv`: a leader that
neither has a renewal due nor is cancelled has a full lease, and afterwards each
period by which it is late costs the lease one, so the key is still its own
while `late + 2 <= Periods`. Taking up a term needs that nothing of the last one
is left (`TermLocal`), the end of a lease that a key that exists has time left
(`LeaseLives`), and the handover that, while nothing failed, the owner leads or
is releasing (`OwnerCares`). For the engines of two replicas it remains that a
job is placed only in a step of an engine whose replica leads.

*Services.* A bucket is *exact* (`Exact`): what it holds is the least that any
interval up to its last refill leaves of burst and rate. A refill adds to every
interval what it adds to the bucket, or makes the interval that begins now the
tightest; a charge lowers all of them by one token. `LimiterInv` also says that
a request holds the one bucket of its address. The list of a log is a suffix of
what was pushed, and the whole of it while it is short (`SuffixOf`). In a sample
the jobs counted so far, other than those set back, are past the statuses still
to be counted (`SnapshotInv`), and every job that was there, other than those, is
counted or still to be counted (`GaugeInv`). `SchemaInv` and `ExitInv` say at which step of `main` the schema
is complete, and that a server that returned without an error has no work left.

The constants' assumptions are the named `ASSUME`s of the modules that declare
them.

### Only model-checked

* Liveness: fairness and `ENABLED` are out of the prover's reach.
* That the loops of `PlacementLoops` return what `Placement` says, and the
  reports computed by loops (`FragmentationMeaning`, `ReportsAgree`): folds over
  sequences need induction over data. `AgedOutranks` and `EvictionsCorrect`
  prove the parts of `AgingPreventsStarvation` and `PlansSuffice` that are about
  the declarative definitions.

## Not modelled

* Configuration parsing, logging, request tracing, the registration of metrics
  and the average runtime the collector computes: no state another part reads.
* The read-only handlers that list jobs, nodes and events.
* Generated protobuf code and the dashboard. The agent's simulated workload is a
  free choice of result.
* Whether a bearer token is valid is a free choice in `Services`.
* Team quotas: they exist in the schema and in `models`, but no code enforces
  them.
* Unbounded streams of submissions: the set of jobs is fixed, so starvation of a
  large job that never fits beside ever new small ones is not expressed.
* `Replicas` is checked for one property only; the interleavings of two engines'
  writes to one ledger are as bad as those of `lost_update`.
