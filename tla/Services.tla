------------------------------ MODULE Services ------------------------------
(***************************************************************************)
(* A process of one of the four services, with the work its functions do   *)
(* for others: requests in the API gateway, log streams in the scheduler,  *)
(* samples in the metrics service.  (What the agent and the elector do has *)
(* modules of its own.)  The question is how that work, and its limits,    *)
(* interact with the process's failures and its shutdown.                  *)
(***************************************************************************)
EXTENDS Bootstrap, RateLimiter, LogCache, Collector

CONSTANTS
    Kind,          \* Kind[q]: "preflight", "probe" or "api"
    AuthEnabled

ASSUME ServicesAssumption ==
    /\ Kind \in [Req -> {"preflight", "probe", "api"}]
    /\ AuthEnabled \in BOOLEAN

VARIABLES
    req    \* [Req -> ReqState]

services == <<group, bootstrap, limiter, logs, collection, req>>

(* Where in the chain of middleware a request is.                          *)
ReqState == {"new", "limit", "allow", "auth", "handler", "answered", "refused", "cut"}

ServicesInit ==
    /\ GroupInit /\ BootstrapInit /\ LimiterInit /\ LogInit /\ CollectorInit
    /\ req = [q \in Req |-> "new"]

Goes(q, s) == req' = [req EXCEPT ![q] = s]

InFlight(q) == req[q] \in {"limit", "allow", "auth", "handler"}

-----------------------------------------------------------------------------
(* The gateway's router: cors answers preflights, before the limiter; the  *)
(* limiter is asked before the token is looked at, and for probes too.     *)
Accept(q) ==
    /\ Running("api") /\ fn["api"] = "serving"
    /\ req[q] = "new"
    /\ Goes(q, IF Kind[q] = "preflight" THEN "answered" ELSE "limit")
    /\ UNCHANGED limiter

RateLimitLookUp(q) == req[q] = "limit" /\ LookUp(q) /\ Goes(q, "allow")

RateLimit(q) ==
    /\ req[q] = "allow"
    /\ \E ok \in BOOLEAN :
          /\ Allow(q, ok)
          /\ Goes(q, CASE ~ ok -> "refused" [] Kind[q] = "probe" -> "handler" [] OTHER -> "auth")

Auth(q) ==
    /\ req[q] = "auth"
    /\ \E valid \in BOOLEAN : Goes(q, IF valid \/ ~ AuthEnabled THEN "handler" ELSE "refused")
    /\ UNCHANGED limiter

Respond(q) == req[q] = "handler" /\ Goes(q, "answered") /\ UNCHANGED limiter

Requests ==
    /\ service = "api-gateway" /\ exit = "running"
    /\ \/ \E q \in Req : Accept(q) \/ RateLimitLookUp(q) \/ RateLimit(q) \/ Auth(q) \/ Respond(q)
       \/ TimePasses /\ UNCHANGED req
    /\ UNCHANGED <<group, bootstrap, logs, collection>>

-----------------------------------------------------------------------------
(* The scheduler's log streams: new ones are refused while draining.       *)
StreamStep(s) == PushLine(s) \/ TrimList(s) \/ SetExpiry(s) \/ BreakPipeline(s)

Streams ==
    /\ service = "scheduler" /\ Running("grpc")
    /\ \/ \E s \in Stream : \/ fn["grpc"] = "serving" /\ OpenStream(s)
                            \/ StreamStep(s) \/ CloseStream(s)
       \/ LogsExpire
    /\ UNCHANGED <<group, bootstrap, limiter, collection, req>>

Samples ==
    /\ service = "metrics" /\ Running("collector")
    /\ \/ fn["collector"] = "serving" /\ CollectorStep(signalled)
       \/ \E j \in Tracked : JobMoves(j)
    /\ UNCHANGED <<group, bootstrap, limiter, logs, req>>

-----------------------------------------------------------------------------
(* A server is busy with the requests and streams it has accepted; whether *)
(* a scrape is in progress in the metrics server is left open.             *)
Busy(f) ==
    CASE f = "api"     -> {\E q \in Req : InFlight(q)}
      [] f = "grpc"    -> {\E s \in Stream : stream[s] \notin {"none", "closed"}}
      [] f = "metrics" -> BOOLEAN
      [] OTHER         -> {FALSE}

(* What main, the functions and RunGroup do by themselves.                 *)
GroupStep ==
    /\ \/ StartUp
       \/ /\ \/ \E f \in DOMAIN fn : \/ ServerFails(f) \/ BeginShutdown(f)
                                     \/ \E busy \in Busy(f) : EndShutdown(f, busy)
                                     \/ LoopReturns(f) /\ (f = "collector" => sample.step = 0)
             \/ Exits
          /\ UNCHANGED bootstrap
    /\ UNCHANGED <<limiter, logs, collection, req>>

Upset ==
    /\ \/ PeerMigrates
       \/ (Signal \/ \E f \in DOMAIN fn : ServerBreaks(f)) /\ UNCHANGED bootstrap
    /\ UNCHANGED <<limiter, logs, collection, req>>

(* The process is killed and takes its requests and streams along.         *)
Kill ==
    /\ Killed /\ CutStreams
    /\ req' = [q \in Req |-> IF InFlight(q) THEN "cut" ELSE req[q]]
    /\ UNCHANGED <<bootstrap, limiter, collection>>

ServicesNext == Requests \/ Streams \/ Samples \/ GroupStep \/ Upset \/ Kill

(* The process's goroutines keep running, and executors end their streams. *)
(* Nothing is assumed of the handlers of requests.                         *)
ServicesSpec ==
    /\ ServicesInit /\ [][ServicesNext]_services
    /\ WF_services(GroupStep)
    /\ WF_services(/\ Running("collector") /\ CollectorStep(signalled)
                   /\ UNCHANGED <<group, bootstrap, limiter, logs, req>>)
    /\ \A s \in Stream :
          WF_services((StreamStep(s) \/ CloseStream(s)) /\ Running("grpc")
                         /\ UNCHANGED <<group, bootstrap, limiter, collection, req>>)

-----------------------------------------------------------------------------
(* Everything keeps its type; a bucket never holds more than the burst.    *)
ServicesTypeOK ==
    /\ GroupTypeOK /\ BootstrapTypeOK /\ LimiterTypeOK /\ LogTypeOK /\ CollectorTypeOK
    /\ req \in [Req -> ReqState]

(* runtimex.go, "returns the first non-nil error", and README, "Graceful   *)
(* shutdown": what RunGroup returns is the earliest of its functions'      *)
(* errors, and a process that exits with status 0 has had none and has     *)
(* finished every request and every log stream it accepted.                *)
ExitTellsTruth ==
    /\ firstErr = IF errors = <<>> THEN {} ELSE {errors[1]}
    /\ exit = "ok" => /\ errors = <<>>
                      /\ \A q \in Req : ~ InFlight(q)
                      /\ \A s \in Stream : stream[s] \in {"none", "closed"}

(* A signalled process ends, whether the signal comes while it starts or   *)
(* later, even if a server had failed before, requests hang or a pipeline  *)
(* broke (the executors' streams must end).                                *)
ShutdownCompletes == signalled ~> exit \notin {"unborn", "running"}

(* postgres.go, migrations are "safe to run repeatedly": a gateway or      *)
(* scheduler that serves has the whole schema beneath it, whatever its     *)
(* peers migrate meanwhile and wherever an attempt, its own or an earlier  *)
(* one, broke off.                                                         *)
SchemaInPlace ==
    exit = "running" /\ service \in {"api-gateway", "scheduler"} => tables = 2

(* The limiter is exact, however requests of one address interleave: the   *)
(* i-th request is let through if and only if that keeps every interval up *)
(* to it within the burst plus what the rate yields over the interval.     *)
LimiterExact ==
    \A k \in Addresses : \A i \in DOMAIN verdicts[k] :
        LET v == verdicts[k][i]
            since(t) == Cardinality({h \in 1..(i - 1) : verdicts[k][h].ok /\ verdicts[k][h].at >= t})
        IN  v.ok <=> \A t \in 0..v.at :
                        (since(t) + 1) * Grain <= Burst * Grain + (v.at - t) * Rate

(* server.go, "keep the last 500 lines": whatever pipelines are in flight  *)
(* or broke, a request for at most that many lines is served exactly the   *)
(* latest ones.                                                            *)
LatestLinesServed ==
    \A limit \in 1..Keep :
        FetchLogs(limit) = SubSeq(pushed, IF Len(pushed) > limit THEN Len(pushed) - limit + 1 ELSE 1,
                                  Len(pushed))

(* server.go, LTRIM and EXPIRE: the list outgrows its limit by at most one *)
(* line per pipeline still to trim it, per pipeline that broke and per     *)
(* stream a kill cut off; and as long as none has broken and nothing was   *)
(* killed the list expires whenever no pipeline is under way.              *)
LogsBounded ==
    /\ Len(list) <= Keep + Cardinality({s \in Stream : stream[s] = "trim"}) + logFaults
                         + (IF exit = "killed" THEN Cardinality(Stream) ELSE 0)
    /\ list # <<>> /\ logFaults = 0 /\ exit # "killed" =>
          expires \/ \E s \in Stream : InPipeline(s)

(* Although jobs move between the counts, in whatever direction: the       *)
(* snapshot counts a job twice only if it was set back during the sample,  *)
(* and never more than three times; and the gauges of a sample miss only   *)
(* jobs set back, of those there when it began, unless a count failed or   *)
(* the process was told to stop.                                           *)
CountsReliable ==
    /\ JobsRunning + JobsQueued <=
          Cardinality({j \in Tracked : row[j] # "absent"}) + 2 * Cardinality(backed)
    /\ sample.step = 0 /\ countFaults = 0 /\ ~ signalled =>
          GaugeTotal >= Cardinality(began \ backed)
=============================================================================
