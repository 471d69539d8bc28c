--------------------------- MODULE ServicesProofs ---------------------------
(***************************************************************************)
(* Safety of a service process: its start, its shutdown, and the limits of *)
(* the work its functions do, for any requests, streams, jobs and bounds.  *)
(***************************************************************************)
EXTENDS Services, ServicePartsProofs

-----------------------------------------------------------------------------
(* The process *)

(* main is at one of its steps until RunGroup runs.                        *)
StepOK == exit = "unborn" => pc <= Len(Steps)

GroupInv == GroupTypeOK /\ BootstrapTypeOK /\ StepOK

(* The functions a process runs and the steps it starts with.              *)
LEMMA ProcessShape ==
    ASSUME GroupTypeOK
    PROVE  /\ Len(Steps) \in 1..6
           /\ DOMAIN fn = Fn(service)
           /\ "api" \in DOMAIN fn <=> service = "api-gateway"
           /\ "grpc" \in DOMAIN fn <=> service = "scheduler"
  BY GroupAssumption DEF GroupTypeOK, Steps, Fn, GatewaySteps, SchedulerSteps, MetricsSteps,
     AgentSteps

(* A process starts in main, with every function still to be called.       *)
LEMMA GroupStart == ServicesInit => GroupInv
<1> SUFFICES ASSUME ServicesInit PROVE GroupInv
  OBVIOUS
<1>1. GroupTypeOK
  <2>1. fn \in [Fn(service) -> FnState] /\ exit \in Exit /\ errors \in Seq(Fn(service))
    BY DEF ServicesInit, GroupInit, FnState, Exit
  <2>2. breaks \in 0..MaxBreaks /\ firstErr \subseteq Fn(service)
    BY GroupAssumption DEF ServicesInit, GroupInit
  <2>3. service \in Service /\ signalled \in BOOLEAN
    BY Zenon DEF ServicesInit, GroupInit
  <2> QED
    BY <2>1, <2>2, <2>3 DEF GroupTypeOK
<1>2. BootstrapTypeOK /\ pc = 1
  BY DEF ServicesInit, BootstrapInit, BootstrapTypeOK
<1> QED
  BY <1>1, <1>2, ProcessShape DEF GroupInv, StepOK

(* A step of start-up passes to the next one, the last one to RunGroup, or *)
(* ends the process; only migrations touch the schema.                     *)
LEMMA StartUpEffect ==
    ASSUME GroupInv, StartUp
    PROVE  /\ exit = "unborn" /\ UNCHANGED <<service, fn, firstErr, signalled, errors>>
           /\ breaks' \in {breaks, breaks + 1} /\ breaks' <= MaxBreaks
           /\ \/ pc' = pc + 1 /\ exit' = (IF pc = Len(Steps) THEN "running" ELSE "unborn")
              \/ pc' = pc /\ exit' = "error"
           /\ \/ tables' = tables
              \/ tables' = Applied("schema") \/ tables' = Applied("seed")
           /\ Steps[pc] = "seed" /\ pc' # pc => tables' = 2
<1> USE DEF GroupInv, GroupTypeOK, Passes, GivesUp, Break, Trouble, Smoothly, At
<1>0. breaks \in Nat /\ MaxBreaks \in Nat /\ breaks <= MaxBreaks /\ pc \in Nat
  BY GroupAssumption DEF BootstrapTypeOK
<1>1. CASE Configure
  BY <1>0, <1>1 DEF Configure
<1>2. CASE InitTracer
  BY <1>0, <1>2 DEF InitTracer
<1>3. CASE NewStore
  BY <1>0, <1>3 DEF NewStore
<1>4. CASE Migrate("schema")
  BY <1>0, <1>4 DEF Migrate
<1>5. CASE Migrate("seed")
  <2>1. Applied("seed") = 2
    BY DEF Applied
  <2> QED
    BY <1>0, <1>5, <2>1 DEF Migrate
<1>6. CASE NewRedis
  BY <1>0, <1>6 DEF NewRedis
<1> QED
  BY <1>1, <1>2, <1>3, <1>4, <1>5, <1>6 DEF StartUp

(* RunGroup keeps the first error.                                         *)
FirstKept == firstErr = IF errors = <<>> THEN {} ELSE {errors[1]}

(* A function that returns: RunGroup keeps the first error.                *)
LEMMA ReturnsEffect ==
    ASSUME GroupTypeOK, NEW f \in DOMAIN fn, NEW err \in BOOLEAN, Returns(f, err),
           FirstKept
    PROVE  /\ fn' \in [Fn(service) -> FnState] /\ fn'[f] = "returned"
           /\ \A g \in DOMAIN fn \ {f} : fn'[g] = fn[g]
           /\ errors' \in Seq(Fn(service)) /\ (err => errors' # <<>>) /\ (~ err => errors' = errors)
           /\ firstErr' \subseteq Fn(service)
           /\ errors # <<>> => errors' # <<>>
           /\ FirstKept'
<1> USE DEF FirstKept
<1>1. fn \in [Fn(service) -> FnState] /\ errors \in Seq(Fn(service)) /\ f \in Fn(service)
      /\ firstErr \subseteq Fn(service)
  BY DEF GroupTypeOK
<1>2. /\ fn' \in [Fn(service) -> FnState] /\ fn'[f] = "returned"
      /\ \A g \in DOMAIN fn \ {f} : fn'[g] = fn[g]
  BY <1>1 DEF Returns, FnState
<1>3. CASE ~ err
  BY <1>1, <1>2, <1>3 DEF Returns
<1>4. CASE err
  <2>1. errors' = Append(errors, f)
    BY <1>4 DEF Returns
  <2>2. /\ errors' \in Seq(Fn(service)) /\ errors' # <<>>
        /\ errors'[1] = IF errors = <<>> THEN f ELSE errors[1]
    BY <1>1, <2>1
  <2> QED
    BY <1>1, <1>2, <1>4, <2>2, Zenon DEF Returns
<1> QED
  BY <1>3, <1>4

(* What a function of RunGroup does by itself.                             *)
FnStep(f) ==
    \/ ServerFails(f) \/ BeginShutdown(f)
    \/ \E busy \in Busy(f) : EndShutdown(f, busy)
    \/ LoopReturns(f)

(* It begins to drain; or it returns, with an error or with its work done. *)
LEMMA FnEffect ==
    ASSUME GroupTypeOK, FirstKept, NEW f \in DOMAIN fn, FnStep(f)
    PROVE  /\ exit = "running" /\ UNCHANGED <<service, exit, signalled, breaks>>
           /\ fn' \in [Fn(service) -> FnState]
           /\ errors' \in Seq(Fn(service)) /\ firstErr' \subseteq Fn(service) /\ FirstKept'
           /\ errors # <<>> => errors' # <<>>
           /\ \A g \in DOMAIN fn \ {f} : fn'[g] = fn[g]
           /\ \/ fn'[f] = "draining"
              \/ fn'[f] = "returned" /\ (errors' # <<>> \/ f \in Loop \/ FALSE \in Busy(f))
<1>1. CASE ServerFails(f)
  BY <1>1, ReturnsEffect, Zenon DEF ServerFails, Running
<1>2. CASE BeginShutdown(f)
  BY <1>2 DEF BeginShutdown, Running, GroupTypeOK, FnState, FirstKept
<1>3. ASSUME NEW busy \in Busy(f), EndShutdown(f, busy)
      PROVE  /\ exit = "running" /\ UNCHANGED <<service, exit, signalled, breaks>>
             /\ \/ ~ busy /\ Returns(f, FALSE)
                \/ busy /\ Returns(f, TRUE)
  BY <1>3, Zenon DEF EndShutdown, Running
<1>4. ASSUME NEW busy \in Busy(f), EndShutdown(f, busy), Returns(f, TRUE)
      PROVE  fn'[f] = "returned" /\ errors' # <<>>
  BY <1>4, ReturnsEffect, Zenon
<1>5. CASE \E busy \in Busy(f) : EndShutdown(f, busy)
  <2>1. PICK busy \in Busy(f) : EndShutdown(f, busy)
    BY <1>5
  <2>2. exit = "running" /\ UNCHANGED <<service, exit, signalled, breaks>>
    BY <1>3, <2>1, Zenon
  <2>3. busy \in BOOLEAN
    BY Zenon DEF Busy
  <2>4. CASE ~ busy /\ Returns(f, FALSE)
    <3>1. FALSE \in Busy(f)
      BY <2>3, <2>4, Zenon
    <3> QED
      BY <2>2, <2>4, <3>1, ReturnsEffect, Zenon
  <2>5. CASE Returns(f, TRUE)
    BY <2>2, <2>5, ReturnsEffect, Zenon
  <2> QED
    BY <1>3, <2>1, <2>4, <2>5, Zenon
<1>6. CASE LoopReturns(f)
  BY <1>6, ReturnsEffect, Zenon DEF LoopReturns, Running
<1> QED
  BY <1>1, <1>2, <1>5, <1>6, Zenon DEF FnStep

(* The process's own steps and what upsets it.                             *)
ProcessStep ==
    \/ StartUp \/ Exits \/ PeerMigrates \/ Signal \/ Killed
    \/ \E f \in DOMAIN fn : FnStep(f) \/ ServerBreaks(f)

(* Each of them keeps the process consistent.                              *)
LEMMA ProcessKept ==
    ASSUME GroupInv, FirstKept, ProcessStep \/ UNCHANGED group,
           StartUp \/ PeerMigrates \/ UNCHANGED bootstrap
    PROVE  GroupInv' /\ FirstKept'
<1>0. GroupTypeOK /\ BootstrapTypeOK /\ StepOK /\ breaks \in Nat /\ MaxBreaks \in Nat
  BY GroupAssumption DEF GroupInv, GroupTypeOK
<1>1. CASE StartUp
  <2>0. /\ exit = "unborn" /\ UNCHANGED <<service, fn, firstErr, signalled, errors>>
        /\ breaks' \in {breaks, breaks + 1} /\ breaks' <= MaxBreaks
        /\ \/ pc' = pc + 1 /\ exit' = (IF pc = Len(Steps) THEN "running" ELSE "unborn")
           \/ pc' = pc /\ exit' = "error"
        /\ \/ tables' = tables
           \/ tables' = Applied("schema") \/ tables' = Applied("seed")
    BY <1>1, StartUpEffect
  <2>1. GroupTypeOK' /\ FirstKept'
    BY <1>0, <2>0 DEF GroupTypeOK, Exit, FirstKept
  <2>2. Steps' = Steps
    BY <2>0 DEF Steps
  <2>3. BootstrapTypeOK' /\ StepOK'
    <3>1. pc \in 1..7 /\ pc <= Len(Steps) /\ Len(Steps) \in 1..6
      BY <1>0, <2>0, ProcessShape DEF BootstrapTypeOK, StepOK
    <3>2. tables' \in 0..2
      BY <1>0, <2>0 DEF BootstrapTypeOK, Applied
    <3>3. \/ pc' = pc + 1 /\ (exit' = "unborn" => pc # Len(Steps))
          \/ pc' = pc /\ exit' # "unborn"
      BY <2>0
    <3> DEFINE n == Len(Steps)
    <3> HIDE DEF n
    <3>4. /\ n \in 1..6 /\ pc \in 1..7 /\ pc <= n
          /\ \/ pc' = pc + 1 /\ (exit' = "unborn" => pc # n)
             \/ pc' = pc /\ exit' # "unborn"
      BY <3>1, <3>3 DEF n
    <3>5. pc' \in 1..7 /\ (exit' = "unborn" => pc' <= n)
      BY <3>4
    <3> QED
      BY <2>2, <3>2, <3>5 DEF BootstrapTypeOK, StepOK, n
  <2> QED
    BY <2>1, <2>3 DEF GroupInv
<1>2. ASSUME exit' = exit \/ exit' # "unborn", service' = service, UNCHANGED bootstrap
      PROVE  BootstrapTypeOK' /\ StepOK'
  <2>1. Steps' = Steps
    BY <1>2 DEF Steps
  <2> QED
    BY <1>0, <1>2, <2>1 DEF BootstrapTypeOK, StepOK, bootstrap
<1>3. CASE PeerMigrates
  <2>1. tables' \in 0..2 /\ pc' = pc /\ UNCHANGED group
    BY <1>0, <1>3 DEF PeerMigrates, BootstrapTypeOK
  <2>2. Steps' = Steps
    BY <2>1 DEF Steps, group
  <2> QED
    BY <1>0, <2>1, <2>2 DEF GroupInv, GroupTypeOK, BootstrapTypeOK, StepOK, FirstKept, group
<1>4. CASE UNCHANGED bootstrap /\ (Exits \/ Signal \/ Killed \/ UNCHANGED group)
  <2>1. /\ service' = service /\ fn' = fn /\ firstErr' = firstErr /\ breaks' = breaks
        /\ errors' = errors /\ exit' \in Exit /\ (exit' = exit \/ exit' # "unborn")
        /\ signalled' \in BOOLEAN
    BY <1>0, <1>4, Zenon DEF Exits, Signal, Killed, group, GroupTypeOK, Exit
  <2>2. GroupTypeOK' /\ FirstKept'
    BY <1>0, <2>1 DEF GroupTypeOK, FirstKept
  <2> QED
    BY <1>2, <1>4, <2>1, <2>2 DEF GroupInv
<1>5. ASSUME NEW f \in DOMAIN fn, UNCHANGED bootstrap, FnStep(f) PROVE GroupInv' /\ FirstKept'
  <2>1. /\ UNCHANGED <<service, exit, signalled, breaks>>
        /\ fn' \in [Fn(service) -> FnState]
        /\ errors' \in Seq(Fn(service)) /\ firstErr' \subseteq Fn(service) /\ FirstKept'
    BY <1>0, <1>5, FnEffect, Zenon
  <2>2. GroupTypeOK'
    BY <1>0, <2>1 DEF GroupTypeOK
  <2> QED
    BY <1>2, <1>5, <2>1, <2>2 DEF GroupInv
<1>6. ASSUME NEW f \in DOMAIN fn, UNCHANGED bootstrap, ServerBreaks(f)
      PROVE  GroupInv' /\ FirstKept'
  <2>1. /\ UNCHANGED <<service, exit, signalled, errors, firstErr>>
        /\ breaks' \in 0..MaxBreaks
        /\ fn' \in [Fn(service) -> FnState]
    BY <1>0, <1>6 DEF ServerBreaks, Break, GroupTypeOK, FnState
  <2>2. GroupTypeOK' /\ FirstKept'
    BY <1>0, <2>1 DEF GroupTypeOK, FirstKept
  <2> QED
    BY <1>2, <1>6, <2>1, <2>2 DEF GroupInv
<1>7. ASSUME ~ StartUp, ~ PeerMigrates PROVE UNCHANGED bootstrap
  BY <1>7
<1> QED
  BY <1>1, <1>3, <1>4, <1>5, <1>6, <1>7 DEF ProcessStep

(* How a step of the whole divides among the process and its work.         *)
LEMMA StepParts ==
    ASSUME [ServicesNext]_services
    PROVE  /\ ProcessStep \/ UNCHANGED group
           /\ StartUp \/ PeerMigrates \/ UNCHANGED bootstrap
           /\ Requests \/ UNCHANGED limiter
           /\ Requests \/ Kill \/ UNCHANGED req
           /\ Streams \/ Kill \/ UNCHANGED logs
           /\ Samples \/ UNCHANGED collection
<1>1. CASE UNCHANGED services
  BY <1>1 DEF services
<1>2. CASE Requests \/ Streams \/ Samples
  BY <1>2 DEF Requests, Streams, Samples
<1>3. CASE GroupStep
  BY <1>3 DEF GroupStep, ProcessStep, FnStep
<1>4. CASE Upset
  BY <1>4 DEF Upset, ProcessStep, PeerMigrates
<1>5. CASE Kill
  BY <1>5 DEF Kill, ProcessStep
<1> QED
  BY <1>1, <1>2, <1>3, <1>4, <1>5 DEF ServicesNext

(* So does every step of the whole.                                        *)
LEMMA GroupKept == GroupInv /\ FirstKept /\ [ServicesNext]_services => GroupInv' /\ FirstKept'
  BY StepParts, ProcessKept

-----------------------------------------------------------------------------
(* The schema *)

(* Past the seed, the database has both files.                             *)
SchemaInv ==
    /\ GroupInv /\ FirstKept
    /\ service = "api-gateway" /\ ((exit = "unborn" /\ pc > 5) \/ exit = "running") => tables = 2
    /\ service = "scheduler" /\ ((exit = "unborn" /\ pc > 4) \/ exit = "running") => tables = 2

(* Only the migration of the seed passes on to the steps after it.         *)
LEMMA SchemaStep == SchemaInv /\ [ServicesNext]_services => SchemaInv'
<1> SUFFICES ASSUME SchemaInv, [ServicesNext]_services PROVE SchemaInv'
  OBVIOUS
<1>0. GroupInv /\ FirstKept /\ GroupInv' /\ FirstKept' /\ GroupTypeOK /\ pc \in 1..7 /\ tables \in 0..2
  BY GroupKept DEF SchemaInv, GroupInv, BootstrapTypeOK
<1>1. CASE StartUp
  <2>0. /\ exit = "unborn" /\ service' = service /\ pc <= Len(Steps)
        /\ \/ pc' = pc + 1 /\ exit' = (IF pc = Len(Steps) THEN "running" ELSE "unborn")
           \/ pc' = pc /\ exit' = "error"
        /\ \/ tables' = tables
           \/ tables' = Applied("schema") \/ tables' = Applied("seed")
        /\ Steps[pc] = "seed" /\ pc' # pc => tables' = 2
    BY <1>0, <1>1, StartUpEffect DEF GroupInv, StepOK
  <2>1. tables = 2 => tables' = 2
    BY <2>0 DEF Applied
  <2>2. CASE exit' = "error"
    BY <1>0, <2>0, <2>2 DEF SchemaInv
  <2>3. ASSUME pc' = pc + 1, service = "api-gateway", pc' > 5 PROVE tables' = 2
    <3>1. pc = 5 => Steps[pc] = "seed" /\ pc' # pc
      BY <2>3 DEF Steps, GatewaySteps
    <3>2. pc > 5 => tables = 2
      BY <2>0, <2>3 DEF SchemaInv
    <3> QED
      BY <1>0, <2>0, <2>1, <2>3, <3>1, <3>2
  <2>4. ASSUME pc' = pc + 1, service = "scheduler", pc' > 4 PROVE tables' = 2
    <3>1. pc = 4 => Steps[pc] = "seed" /\ pc' # pc
      BY <2>4 DEF Steps, SchedulerSteps
    <3>2. pc > 4 => tables = 2
      BY <2>0, <2>4 DEF SchemaInv
    <3> QED
      BY <1>0, <2>0, <2>1, <2>4, <3>1, <3>2
  <2>5. service = "api-gateway" \/ service = "scheduler" => Len(Steps) = 6
    BY DEF Steps, GatewaySteps, SchedulerSteps
  <2>6. exit' = "running" /\ (service = "api-gateway" \/ service = "scheduler") => pc' > 5
    BY <1>0, <2>0, <2>5
  <2> QED
    BY <1>0, <2>0, <2>2, <2>3, <2>4, <2>6 DEF SchemaInv
<1>2. CASE PeerMigrates
  BY <1>0, <1>2 DEF PeerMigrates, SchemaInv, group
<1>3. CASE UNCHANGED bootstrap /\ ProcessStep /\ ~ StartUp
  <2>1. service' = service /\ (exit' = exit \/ exit' \notin {"unborn", "running"})
    <3>1. CASE Exits \/ Signal \/ Killed \/ PeerMigrates
      BY <3>1 DEF Exits, Signal, Killed, PeerMigrates, group
    <3>2. ASSUME NEW f \in DOMAIN fn, FnStep(f) \/ ServerBreaks(f)
          PROVE  service' = service /\ exit' = exit
      BY <1>0, <3>2, FnEffect, Zenon DEF ServerBreaks
    <3> QED
      BY <1>3, <3>1, <3>2 DEF ProcessStep
  <2> QED
    BY <1>0, <1>3, <2>1 DEF SchemaInv, bootstrap
<1>4. CASE UNCHANGED bootstrap /\ UNCHANGED group
  BY <1>0, <1>4 DEF SchemaInv, bootstrap, group
<1> QED
  BY <1>1, <1>2, <1>3, <1>4, StepParts

(* A gateway or scheduler that serves has the whole schema beneath it,     *)
(* whatever its peers migrate meanwhile and wherever an attempt broke off. *)
THEOREM SchemaCorrect == ServicesSpec => []SchemaInPlace
<1>1. ServicesInit => SchemaInv
  <2> SUFFICES ASSUME ServicesInit PROVE SchemaInv
    OBVIOUS
  <2>1. FirstKept /\ exit = "unborn" /\ pc = 1
    BY DEF ServicesInit, GroupInit, BootstrapInit, FirstKept
  <2> QED
    BY <2>1, GroupStart DEF SchemaInv
<1>2. SchemaInv => SchemaInPlace
  BY DEF SchemaInv, SchemaInPlace
<1> QED
  BY <1>1, <1>2, SchemaStep, PTL DEF ServicesSpec

-----------------------------------------------------------------------------
(* Types *)

ServicesInv == ServicesTypeOK /\ StepOK /\ FirstKept /\ Past

(* The steps of requests and samples are steps of the limiter and of the   *)
(* collection.                                                             *)
LEMMA PartSteps == (Requests => LimiterStep) /\ (Samples => CountingStep)
BY DEF Requests, Samples, LimiterStep, CountingStep, Accept, RateLimitLookUp, RateLimit, Auth, Respond

(* Requests come in while the server serves.                               *)
LEMMA RequestsEffect ==
    ASSUME Requests, req \in [Req -> ReqState]
    PROVE  /\ service = "api-gateway" /\ exit = "running" /\ UNCHANGED <<group, logs>>
           /\ req' \in [Req -> ReqState]
           /\ \A q \in Req : InFlight(q)' => InFlight(q) \/ fn["api"] = "serving"
<1>0. service = "api-gateway" /\ exit = "running" /\ UNCHANGED <<group, logs>>
  BY DEF Requests
<1>1. ASSUME NEW q \in Req, Accept(q) \/ RateLimitLookUp(q) \/ RateLimit(q) \/ Auth(q) \/ Respond(q)
      PROVE  \E s \in ReqState : Goes(q, s) /\ (InFlight(q) \/ fn["api"] = "serving")
  BY <1>1 DEF Accept, RateLimitLookUp, RateLimit, Auth, Respond, ReqState, InFlight
<1>2. ASSUME NEW q \in Req, NEW s \in ReqState, Goes(q, s), InFlight(q) \/ fn["api"] = "serving"
      PROVE  /\ req' \in [Req -> ReqState]
             /\ \A p \in Req : InFlight(p)' => InFlight(p) \/ fn["api"] = "serving"
  BY <1>2 DEF Goes, InFlight
<1>3. CASE UNCHANGED req
  BY <1>0, <1>3 DEF InFlight
<1> QED
  BY <1>0, <1>1, <1>2, <1>3 DEF Requests

(* A trimmed list is the end of the list.                                  *)
LEMMA LastType ==
    ASSUME NEW S, NEW l \in Seq(S), NEW n \in Nat
    PROVE  /\ Last(l, n) \in Seq(S)
           /\ Len(Last(l, n)) = IF Len(l) > n THEN n ELSE Len(l)
           /\ \A i \in 1..Len(Last(l, n)) : Last(l, n)[i] = l[Len(l) - Len(Last(l, n)) + i]
<1> DEFINE m == (IF Len(l) > n THEN Len(l) - n ELSE 0) + 1
<1>1. Len(l) \in Nat /\ m \in 1..(Len(l) + 1) /\ Last(l, n) = SubSeq(l, m, Len(l))
  BY DEF Last
<1>2. Len(l) - m + 1 = IF Len(l) > n THEN n ELSE Len(l)
  BY <1>1
<1> HIDE DEF m
<1>3. /\ SubSeq(l, m, Len(l)) \in Seq(S)
      /\ Len(SubSeq(l, m, Len(l))) = Len(l) - m + 1
      /\ \A i \in 1..(Len(l) - m + 1) : SubSeq(l, m, Len(l))[i] = l[m + i - 1]
  BY <1>1
<1>4. \A i \in 1..(Len(l) - m + 1) : m + i - 1 = Len(l) - (Len(l) - m + 1) + i
  BY <1>1
<1> QED
  BY <1>1, <1>2, <1>3, <1>4

(* Every command on the list keeps the types of the log cache.             *)
LEMMA LogsKept ==
    ASSUME LogTypeOK, Streams \/ Kill
    PROVE  LogTypeOK'
<1> DEFINE State == {"none", "recv", "trim", "expire", "closed"}
<1>0. /\ stream \in [Stream -> State] /\ sent \in [Stream -> 0..MaxLines] /\ list \in Seq(Line)
      /\ expires \in BOOLEAN /\ logFaults \in 0..MaxLogFaults /\ pushed \in Seq(Line)
      /\ MaxLines \in Nat /\ MaxLogFaults \in Nat /\ Keep \in Nat
  BY LogAssumption DEF LogTypeOK
<1>1. ASSUME NEW s \in Stream, NEW v \in State, stream' = [stream EXCEPT ![s] = v]
      PROVE  stream' \in [Stream -> State]
  BY <1>0, <1>1
<1>2. ASSUME NEW s \in Stream, OpenStream(s) \/ CloseStream(s) PROVE LogTypeOK'
  BY <1>0, <1>2 DEF OpenStream, CloseStream, LogTypeOK
<1>3. ASSUME NEW s \in Stream, PushLine(s) PROVE LogTypeOK'
  <2>1. stream' \in [Stream -> State]
    BY <1>1, <1>3, Zenon DEF PushLine
  <2>2. sent[s] + 1 \in 1..MaxLines /\ sent' \in [Stream -> 0..MaxLines]
    BY <1>0, <1>3 DEF PushLine
  <2>3. <<s, sent[s] + 1>> \in Line
    BY <2>2 DEF Line
  <2>4. list' \in Seq(Line) /\ pushed' \in Seq(Line)
    BY <1>0, <1>3, <2>3 DEF PushLine
  <2> QED
    BY <1>0, <1>3, <2>1, <2>2, <2>4 DEF PushLine, LogTypeOK
<1>4. ASSUME NEW s \in Stream, TrimList(s) PROVE LogTypeOK'
  <2>1. stream' \in [Stream -> State]
    BY <1>1, <1>4, Zenon DEF TrimList
  <2>2. list' \in Seq(Line)
    BY <1>0, <1>4, LastType DEF TrimList
  <2> QED
    BY <1>0, <1>4, <2>1, <2>2 DEF TrimList, LogTypeOK
<1>5. ASSUME NEW s \in Stream, SetExpiry(s) PROVE LogTypeOK'
  <2>1. stream' \in [Stream -> State]
    BY <1>1, <1>5, Zenon DEF SetExpiry
  <2>2. expires' \in BOOLEAN
    BY <1>5 DEF SetExpiry
  <2> QED
    BY <1>0, <1>5, <2>1, <2>2 DEF SetExpiry, LogTypeOK
<1>6. ASSUME NEW s \in Stream, BreakPipeline(s) PROVE LogTypeOK'
  <2>1. stream' \in [Stream -> State]
    BY <1>1, <1>6, Zenon DEF BreakPipeline
  <2>2. sent' \in [Stream -> 0..MaxLines] /\ logFaults' \in 0..MaxLogFaults
    <3>1. logFaults' \in 0..MaxLogFaults
      BY <1>0, <1>6 DEF BreakPipeline
    <3>2. CASE sent' = sent
      BY <1>0, <3>1, <3>2
    <3>3. CASE sent[s] < MaxLines /\ sent' = [sent EXCEPT ![s] = @ + 1]
      BY <1>0, <3>1, <3>3
    <3> QED
      BY <1>6, <3>2, <3>3 DEF BreakPipeline
  <2> QED
    BY <1>0, <1>6, <2>1, <2>2 DEF BreakPipeline, LogTypeOK
<1>7. CASE LogsExpire
  <2>1. list' \in Seq(Line) /\ pushed' \in Seq(Line) /\ expires' \in BOOLEAN
    <3>1. <<>> \in Seq(Line)
      OBVIOUS
    <3> QED
      BY <1>7, <3>1, Zenon DEF LogsExpire
  <2> QED
    BY <1>0, <1>7, <2>1 DEF LogsExpire, LogTypeOK
<1>8. CASE Kill
  BY <1>0, <1>8 DEF Kill, CutStreams, LogTypeOK
<1> QED
  BY <1>2, <1>3, <1>4, <1>5, <1>6, <1>7, <1>8 DEF Streams, StreamStep

(* The types hold at the start.                                            *)
LEMMA ServicesStart == ServicesInit => ServicesInv
<1> SUFFICES ASSUME ServicesInit PROVE ServicesInv
  OBVIOUS
<1>1. GroupTypeOK /\ BootstrapTypeOK /\ StepOK
  BY GroupStart DEF GroupInv
<1>2. FirstKept
  BY DEF ServicesInit, GroupInit, FirstKept
<1>3. LimiterTypeOK /\ Past
  <2>1. Burst * Grain \in Nat /\ MaxNow \in Nat
    BY LimiterAssumption
  <2> DEFINE Full == Burst * Grain
             V == [at : 0..MaxNow, ok : BOOLEAN]
  <2> HIDE DEF Full, V
  <2>2. bucket \in [Req -> [tokens : 0..Full, last : 0..MaxNow]] /\ now \in 0..MaxNow
    BY <2>1 DEF ServicesInit, LimiterInit, Full
  <2>3. Past
    BY DEF ServicesInit, LimiterInit, Past
  <2>4. verdicts \in [Addresses -> Seq(V)]
    BY DEF ServicesInit, LimiterInit
  <2>5. buckets \in [Addresses -> Req \cup {NoBucket}] /\ held \in [Req -> Req \cup {NoBucket}]
    BY DEF ServicesInit, LimiterInit
  <2> QED
    BY <2>2, <2>3, <2>4, <2>5, Zenon DEF LimiterTypeOK, Full, V
<1>4. LogTypeOK
  <2>1. <<>> \in Seq(Line) /\ 0 \in 0..MaxLines /\ 0 \in 0..MaxLogFaults
    BY LogAssumption
  <2>2. expires \in BOOLEAN
    BY Zenon DEF ServicesInit, LogInit
  <2> QED
    BY <2>1, <2>2 DEF ServicesInit, LogInit, LogTypeOK
<1>5. CollectorTypeOK
  <2>1. 0 \in 0..Cardinality(Tracked) /\ 0 \in 0..MaxMoves /\ 0 \in 0..MaxCountFaults
    BY CollectorAssumption, FS_CardinalityType
  <2>2. sample \in [step : 0..10,
                    counts : [{"running", "scheduled", "queued"} -> 0..Cardinality(Tracked)]]
    BY <2>1 DEF ServicesInit, CollectorInit, Done, NoCounts
  <2> QED
    BY <2>1, <2>2 DEF ServicesInit, CollectorInit, CollectorTypeOK
<1>6. req \in [Req -> ReqState]
  BY DEF ServicesInit, ReqState
<1> QED
  BY <1>1, <1>2, <1>3, <1>4, <1>5, <1>6 DEF ServicesInv, ServicesTypeOK

(* Every step keeps the types.                                             *)
LEMMA ServicesStep == ServicesInv /\ [ServicesNext]_services => ServicesInv'
<1> SUFFICES ASSUME ServicesInv, [ServicesNext]_services PROVE ServicesInv'
  OBVIOUS
<1>0. /\ GroupInv /\ FirstKept /\ LimiterTypeOK /\ Past /\ LogTypeOK /\ CollectorTypeOK
      /\ req \in [Req -> ReqState]
  BY DEF ServicesInv, ServicesTypeOK, GroupInv
<1>1. GroupInv' /\ FirstKept'
  BY <1>0, GroupKept
<1>2. LimiterTypeOK' /\ Past'
  <2>1. CASE UNCHANGED limiter
    BY <1>0, <2>1, Zenon DEF limiter, LimiterTypeOK, Past
  <2> QED
    BY <1>0, <2>1, StepParts, PartSteps, LimiterKept
<1>3. LogTypeOK'
  <2>1. CASE UNCHANGED logs
    BY <1>0, <2>1 DEF logs, LogTypeOK
  <2> QED
    BY <1>0, <2>1, StepParts, LogsKept
<1>4. CollectorTypeOK'
  <2>1. CASE UNCHANGED collection
    BY <1>0, <2>1 DEF collection, CollectorTypeOK
  <2> QED
    BY <1>0, <2>1, StepParts, PartSteps, CollectorKept
<1>5. req' \in [Req -> ReqState]
  <2>1. CASE Kill
    BY <1>0, <2>1 DEF Kill, ReqState
  <2>2. CASE UNCHANGED req
    BY <1>0, <2>2
  <2> QED
    BY <1>0, <2>1, <2>2, StepParts, RequestsEffect
<1> QED
  BY <1>1, <1>2, <1>3, <1>4, <1>5 DEF ServicesInv, ServicesTypeOK, GroupInv

(* Everything keeps its type; above all no bucket of the limiter ever      *)
(* holds more than the burst or less than nothing.                         *)
THEOREM ServicesTypeCorrect == ServicesSpec => []ServicesTypeOK
<1>1. ServicesInv => ServicesTypeOK
  BY DEF ServicesInv
<1> QED
  BY <1>1, ServicesStart, ServicesStep, PTL DEF ServicesSpec

-----------------------------------------------------------------------------
(* Shutdown *)

Finished(s) == stream[s] \in {"none", "closed"}

(* Only the gateway has requests and only the scheduler streams; once the  *)
(* function that serves them has returned without an error there are none. *)
ExitInv ==
    /\ GroupInv /\ FirstKept
    /\ service # "api-gateway" => \A q \in Req : ~ InFlight(q)
    /\ service # "scheduler" => \A s \in Stream : Finished(s)
    /\ errors = <<>> =>
          /\ "api" \in DOMAIN fn /\ fn["api"] = "returned" => \A q \in Req : ~ InFlight(q)
          /\ "grpc" \in DOMAIN fn /\ fn["grpc"] = "returned" => \A s \in Stream : Finished(s)
    /\ exit = "ok" => /\ errors = <<>>
                      /\ \A q \in Req : ~ InFlight(q)
                      /\ \A s \in Stream : Finished(s)

(* Streams come in while the server serves.                                *)
LEMMA StreamsEffect ==
    ASSUME Streams, LogTypeOK
    PROVE  /\ service = "scheduler" /\ exit = "running" /\ UNCHANGED <<group, req>>
           /\ \A s \in Stream : Finished(s)' \/ ~ Finished(s) \/ fn["grpc"] = "serving"
<1>0. service = "scheduler" /\ exit = "running" /\ UNCHANGED <<group, req>>
  BY DEF Streams, Running
<1>1. ASSUME NEW s \in Stream, OpenStream(s), fn["grpc"] = "serving" PROVE fn["grpc"] = "serving"
  BY <1>1
<1>2. ASSUME NEW s \in Stream, StreamStep(s) \/ CloseStream(s)
      PROVE  \A t \in Stream : Finished(t)' \/ ~ Finished(t)
  <2>1. /\ stream \in [Stream -> {"none", "recv", "trim", "expire", "closed"}]
        /\ ~ Finished(s) /\ \E v : stream' = [stream EXCEPT ![s] = v]
    BY <1>2 DEF LogTypeOK, StreamStep, CloseStream, PushLine, TrimList, SetExpiry, BreakPipeline,
       InPipeline, Finished
  <2> QED
    BY <2>1 DEF Finished
<1>3. CASE LogsExpire
  BY <1>0, <1>3 DEF LogsExpire, Finished
<1> QED
  BY <1>0, <1>1, <1>2, <1>3 DEF Streams

(* A server drains before it returns without an error: no step leaves a    *)
(* request or a stream behind.                                             *)
LEMMA ExitStep == ServicesInv /\ ExitInv /\ [ServicesNext]_services => ExitInv'
<1> SUFFICES ASSUME ServicesInv, ExitInv, [ServicesNext]_services PROVE ExitInv'
  OBVIOUS
<1>0. /\ GroupInv /\ FirstKept /\ GroupInv' /\ FirstKept' /\ GroupTypeOK
      /\ LogTypeOK /\ req \in [Req -> ReqState]
      /\ "api" \in DOMAIN fn <=> service = "api-gateway"
      /\ "grpc" \in DOMAIN fn <=> service = "scheduler"
  BY GroupKept, ProcessShape DEF ExitInv, ServicesInv, ServicesTypeOK, GroupInv
<1>1. CASE Requests
  <2>1. /\ service = "api-gateway" /\ exit = "running"
        /\ UNCHANGED <<service, fn, errors, exit>> /\ UNCHANGED stream
        /\ \A q \in Req : InFlight(q)' => InFlight(q) \/ fn["api"] = "serving"
    BY <1>0, <1>1, RequestsEffect DEF group, logs
  <2>2. \A s \in Stream : Finished(s)' <=> Finished(s)
    BY <2>1 DEF Finished
  <2> QED
    BY <1>0, <2>1, <2>2 DEF ExitInv
<1>2. CASE Streams
  <2>1. /\ service = "scheduler" /\ exit = "running"
        /\ UNCHANGED <<service, fn, errors, exit>> /\ UNCHANGED req
        /\ \A s \in Stream : Finished(s)' \/ ~ Finished(s) \/ fn["grpc"] = "serving"
    BY <1>0, <1>2, StreamsEffect DEF group
  <2>2. \A q \in Req : InFlight(q)' <=> InFlight(q)
    BY <2>1 DEF InFlight
  <2> QED
    BY <1>0, <2>1, <2>2 DEF ExitInv
<1>3. CASE Kill
  <2>1. UNCHANGED <<service, fn, errors>> /\ exit' = "killed"
    BY <1>3 DEF Kill, Killed
  <2>2. \A q \in Req : ~ InFlight(q)'
    BY <1>0, <1>3 DEF Kill, InFlight
  <2>3. \A s \in Stream : Finished(s)'
    BY <1>3 DEF Kill, CutStreams, Finished
  <2> QED
    BY <1>0, <2>1, <2>2, <2>3 DEF ExitInv
<1>4. CASE UNCHANGED req /\ UNCHANGED logs
  <2>0. /\ \A q \in Req : InFlight(q)' <=> InFlight(q)
        /\ \A s \in Stream : Finished(s)' <=> Finished(s)
    BY <1>4 DEF InFlight, Finished, logs
  <2>1. CASE UNCHANGED <<service, fn, errors>> /\ (exit' = exit \/ exit' # "ok")
    BY <1>0, <2>0, <2>1 DEF ExitInv
  <2>2. CASE StartUp \/ PeerMigrates \/ Signal \/ Killed \/ UNCHANGED group
    <3>1. StartUp => UNCHANGED <<service, fn, errors>> /\ exit' # "ok"
      BY <1>0, StartUpEffect
    <3> QED
      BY <2>1, <2>2, <3>1 DEF PeerMigrates, Signal, Killed, group
  <2>3. CASE Exits
    <3>1. /\ UNCHANGED <<service, fn, errors>>
          /\ \A f \in DOMAIN fn : fn[f] = "returned"
          /\ exit' = "ok" => errors = <<>>
      BY <1>0, <2>3 DEF Exits, FirstKept
    <3> QED
      BY <1>0, <2>0, <3>1 DEF ExitInv
  <2>4. ASSUME NEW f \in DOMAIN fn, ServerBreaks(f) PROVE ExitInv'
    <3>1. /\ UNCHANGED <<service, errors, exit>> /\ DOMAIN fn' = DOMAIN fn
          /\ \A g \in DOMAIN fn : fn'[g] = "returned" => fn[g] = "returned"
      BY <1>0, <2>4 DEF ServerBreaks, GroupTypeOK
    <3> QED
      BY <1>0, <2>0, <3>1 DEF ExitInv
  <2>5. ASSUME NEW f \in DOMAIN fn, FnStep(f) PROVE ExitInv'
    <3>1. /\ exit = "running" /\ UNCHANGED <<service, exit>> /\ DOMAIN fn' = DOMAIN fn
          /\ errors # <<>> => errors' # <<>>
          /\ \A g \in DOMAIN fn \ {f} : fn'[g] = fn[g]
          /\ \/ fn'[f] = "draining"
             \/ fn'[f] = "returned" /\ (errors' # <<>> \/ f \in Loop \/ FALSE \in Busy(f))
      BY <1>0, <2>5, FnEffect, Zenon DEF GroupTypeOK
    <3>2. f = "api" /\ FALSE \in Busy(f) => \A q \in Req : ~ InFlight(q)
      BY DEF Busy
    <3>3. f = "grpc" /\ FALSE \in Busy(f) => \A s \in Stream : Finished(s)
      BY DEF Busy, Finished
    <3>4. f \in Loop => f # "api" /\ f # "grpc"
      BY DEF Loop
    <3> QED
      BY <1>0, <2>0, <3>1, <3>2, <3>3, <3>4, Zenon DEF ExitInv
  <2> QED
    BY <2>2, <2>3, <2>4, <2>5, StepParts DEF ProcessStep
<1> QED
  BY <1>1, <1>2, <1>3, <1>4, StepParts

(* A process that exits with status 0 has had no error and has finished    *)
(* every request and every log stream it accepted, and what RunGroup       *)
(* returns is the earliest of its functions' errors.                       *)
THEOREM ExitCorrect == ServicesSpec => []ExitTellsTruth
<1>1. ServicesInit => ExitInv
  <2> SUFFICES ASSUME ServicesInit PROVE ExitInv
    OBVIOUS
  <2>1. GroupInv /\ FirstKept
    BY ServicesStart DEF ServicesInv, ServicesTypeOK, GroupInv
  <2>2. \A q \in Req : ~ InFlight(q)
    BY DEF ServicesInit, InFlight
  <2>3. \A s \in Stream : Finished(s)
    BY DEF ServicesInit, LogInit, Finished
  <2>4. exit # "ok"
    BY DEF ServicesInit, GroupInit
  <2> QED
    BY <2>1, <2>2, <2>3, <2>4 DEF ExitInv
<1>2. ExitInv => ExitTellsTruth
  BY DEF ExitInv, ExitTellsTruth, FirstKept, Finished
<1> QED
  BY <1>1, <1>2, ServicesStart, ServicesStep, ExitStep, PTL DEF ServicesSpec

-----------------------------------------------------------------------------
(* The log cache *)

(* The list is the end of what was pushed, and all of it unless it holds   *)
(* as many lines as are kept.                                              *)
SuffixOf ==
    /\ Len(list) <= Len(pushed)
    /\ \A i \in 1..Len(list) : list[i] = pushed[Len(pushed) - Len(list) + i]
    /\ Len(list) >= Keep \/ Len(list) = Len(pushed)

(* Appending to both sequences and trimming keep the list a suffix.        *)
LEMMA SuffixKept ==
    ASSUME LogTypeOK, SuffixOf, Streams \/ Kill \/ UNCHANGED logs
    PROVE  SuffixOf'
<1>0. /\ list \in Seq(Line) /\ pushed \in Seq(Line) /\ Keep \in Nat
      /\ Len(list) \in Nat /\ Len(pushed) \in Nat
  BY LogAssumption DEF LogTypeOK
<1>1. CASE UNCHANGED <<list, pushed>>
  BY <1>1 DEF SuffixOf
<1>2. ASSUME NEW s \in Stream, PushLine(s) PROVE SuffixOf'
  <2> DEFINE x == <<s, sent[s] + 1>>
  <2>1. list' = Append(list, x) /\ pushed' = Append(pushed, x)
    BY <1>2 DEF PushLine
  <2> HIDE DEF x
  <2>2. /\ Len(list') = Len(list) + 1 /\ Len(pushed') = Len(pushed) + 1
        /\ list'[Len(list) + 1] = x /\ pushed'[Len(pushed) + 1] = x
        /\ \A i \in 1..Len(list) : list'[i] = list[i]
        /\ \A i \in 1..Len(pushed) : pushed'[i] = pushed[i]
    BY <1>0, <2>1
  <2>3. ASSUME NEW i \in 1..Len(list') PROVE list'[i] = pushed'[Len(pushed') - Len(list') + i]
    <3>1. CASE i = Len(list) + 1
      <4>1. Len(pushed') - Len(list') + i = Len(pushed) + 1
        BY <1>0, <2>2, <3>1
      <4> QED
        BY <2>2, <3>1, <4>1
    <3>2. CASE i \in 1..Len(list)
      <4>1. /\ Len(pushed') - Len(list') + i = Len(pushed) - Len(list) + i
            /\ Len(pushed) - Len(list) + i \in 1..Len(pushed)
        BY <1>0, <2>2, <3>2 DEF SuffixOf
      <4>2. list[i] = pushed[Len(pushed) - Len(list) + i]
        BY <3>2 DEF SuffixOf
      <4> QED
        BY <2>2, <3>2, <4>1, <4>2
    <3> QED
      BY <1>0, <2>2, <3>1, <3>2
  <2>4. /\ Len(list') <= Len(pushed')
        /\ Len(list') >= Keep \/ Len(list') = Len(pushed')
    BY <1>0, <2>2 DEF SuffixOf
  <2> QED
    BY <2>3, <2>4 DEF SuffixOf
<1>3. ASSUME NEW s \in Stream, TrimList(s) PROVE SuffixOf'
  <2>1. list' = Last(list, Keep) /\ pushed' = pushed
    BY <1>3 DEF TrimList
  <2>2. /\ Len(list') = IF Len(list) > Keep THEN Keep ELSE Len(list)
        /\ \A i \in 1..Len(list') : list'[i] = list[Len(list) - Len(list') + i]
    BY <1>0, <2>1, LastType, Zenon
  <2>3. ASSUME NEW i \in 1..Len(list') PROVE list'[i] = pushed'[Len(pushed') - Len(list') + i]
    <3>1. Len(list') \in Nat /\ Len(list) - Len(list') + i \in 1..Len(list)
      BY <1>0, <2>2
    <3> DEFINE k == Len(list) - Len(list') + i
    <3>2. Len(pushed) - Len(list) + k = Len(pushed) - Len(list') + i
      BY <1>0, <3>1
    <3>3. list'[i] = list[k]
      BY <2>2
    <3> HIDE DEF k
    <3>4. list[k] = pushed[Len(pushed) - Len(list) + k]
      BY <3>1 DEF SuffixOf, k
    <3> QED
      BY <2>1, <3>2, <3>3, <3>4
  <2>4. /\ Len(list') <= Len(pushed')
        /\ Len(list') >= Keep \/ Len(list') = Len(pushed')
    BY <1>0, <2>1, <2>2 DEF SuffixOf
  <2> QED
    BY <2>3, <2>4 DEF SuffixOf
<1>4. CASE LogsExpire
  <2>1. list' = <<>> /\ pushed' = <<>>
    BY <1>4 DEF LogsExpire
  <2> QED
    BY <2>1 DEF SuffixOf
<1>5. ASSUME NEW s \in Stream, OpenStream(s) \/ CloseStream(s) \/ SetExpiry(s) \/ BreakPipeline(s)
      PROVE  SuffixOf'
  BY <1>1, <1>5 DEF OpenStream, CloseStream, SetExpiry, BreakPipeline
<1>6. CASE Kill \/ UNCHANGED logs
  BY <1>1, <1>6 DEF Kill, CutStreams, logs
<1> QED
  BY <1>2, <1>3, <1>4, <1>5, <1>6 DEF Streams, StreamStep

(* The end of a long enough suffix is the end of the whole.                *)
LEMMA SuffixServed ==
    ASSUME LogTypeOK, SuffixOf
    PROVE  LatestLinesServed
<1>0. /\ list \in Seq(Line) /\ pushed \in Seq(Line) /\ Keep \in Nat
      /\ Len(list) \in Nat /\ Len(pushed) \in Nat
  BY LogAssumption DEF LogTypeOK
<1> SUFFICES ASSUME NEW limit \in 1..Keep PROVE Last(list, limit) = Last(pushed, limit)
  <2>1. ASSUME NEW limit \in 1..Keep
        PROVE /\ FetchLogs(limit) = Last(list, limit)
              /\ Last(pushed, limit) =
                   SubSeq(pushed, IF Len(pushed) > limit THEN Len(pushed) - limit + 1 ELSE 1,
                          Len(pushed))
    <3>1. ~ (limit <= 0)
      BY <1>0
    <3>2. (IF Len(pushed) > limit THEN Len(pushed) - limit ELSE 0) + 1
            = IF Len(pushed) > limit THEN Len(pushed) - limit + 1 ELSE 1
      BY <1>0
    <3> QED
      BY <3>1, <3>2 DEF FetchLogs, Last
  <2> QED
    BY <2>1, Zenon DEF LatestLinesServed
<1>1. limit \in Nat
  BY <1>0
<1> DEFINE a == Last(list, limit)
           b == Last(pushed, limit)
<1>2. /\ a \in Seq(Line) /\ Len(a) = IF Len(list) > limit THEN limit ELSE Len(list)
      /\ \A i \in 1..Len(a) : a[i] = list[Len(list) - Len(a) + i]
  BY <1>0, <1>1, LastType
<1>3. /\ b \in Seq(Line) /\ Len(b) = IF Len(pushed) > limit THEN limit ELSE Len(pushed)
      /\ \A i \in 1..Len(b) : b[i] = pushed[Len(pushed) - Len(b) + i]
  BY <1>0, <1>1, LastType
<1> HIDE DEF a, b
<1>4. Len(a) = Len(b) /\ Len(a) \in Nat /\ Len(a) <= Len(list)
  BY <1>0, <1>1, <1>2, <1>3 DEF SuffixOf
<1>5. ASSUME NEW i \in 1..Len(a) PROVE a[i] = b[i]
  <2> DEFINE k == Len(list) - Len(a) + i
  <2>1. k \in 1..Len(list) /\ Len(pushed) - Len(list) + k = Len(pushed) - Len(b) + i
    BY <1>0, <1>4
  <2>2. a[i] = list[k] /\ b[i] = pushed[Len(pushed) - Len(b) + i]
    BY <1>2, <1>3, <1>4, Zenon
  <2> HIDE DEF k
  <2>3. list[k] = pushed[Len(pushed) - Len(list) + k]
    BY <2>1 DEF SuffixOf
  <2> QED
    BY <2>1, <2>2, <2>3
<1> QED
  BY <1>2, <1>3, <1>4, <1>5, SeqEqual DEF a, b

(* A request for at most as many lines as are kept is served exactly the   *)
(* latest ones, whatever pipelines are in flight or broke.                 *)
THEOREM LatestLinesCorrect == ServicesSpec => []LatestLinesServed
<1>1. ServicesInit => SuffixOf
  <2> SUFFICES ASSUME ServicesInit PROVE SuffixOf
    OBVIOUS
  <2>1. list = <<>> /\ pushed = <<>>
    BY DEF ServicesInit, LogInit
  <2> QED
    BY <2>1 DEF SuffixOf
<1>2. ServicesInv /\ SuffixOf /\ [ServicesNext]_services => SuffixOf'
  BY SuffixKept, StepParts DEF ServicesInv, ServicesTypeOK
<1>3. ServicesInv /\ SuffixOf => LatestLinesServed
  BY SuffixServed DEF ServicesInv, ServicesTypeOK
<1> QED
  BY <1>1, <1>2, <1>3, ServicesStart, ServicesStep, PTL DEF ServicesSpec

(* The streams whose line is on a list they have not trimmed yet.          *)
Trimming == {s \in Stream : stream[s] = "trim"}

(* What a step of one stream does to the number of lines still to trim.    *)
LEMMA TrimmingCount ==
    ASSUME LogTypeOK, NEW s \in Stream, NEW v, stream' = [stream EXCEPT ![s] = v]
    PROVE  /\ Cardinality(Trimming) \in Nat /\ Cardinality(Trimming') \in Nat
           /\ Cardinality(Trimming') =
                Cardinality(Trimming) + (IF v = "trim" THEN 1 ELSE 0)
                                      - (IF stream[s] = "trim" THEN 1 ELSE 0)
<1>0. stream \in [Stream -> {"none", "recv", "trim", "expire", "closed"}]
  BY DEF LogTypeOK
<1> DEFINE R == Trimming \ {s}
<1>1. IsFiniteSet(Trimming)
  BY LogAssumption, FS_Subset DEF Trimming
<1>2. /\ IsFiniteSet(R) /\ Cardinality(Trimming) \in Nat /\ Cardinality(R) \in Nat
      /\ Cardinality(R) = IF stream[s] = "trim" THEN Cardinality(Trimming) - 1
                                                ELSE Cardinality(Trimming)
  <2>1. s \in Trimming <=> stream[s] = "trim"
    BY DEF Trimming
  <2> QED
    BY <1>1, <2>1, FS_RemoveElement, FS_CardinalityType
<1>3. Trimming' = IF v = "trim" THEN R \cup {s} ELSE R
  BY <1>0 DEF Trimming
<1>4. Cardinality(R \cup {s}) = Cardinality(R) + 1
  BY <1>2, FS_AddElement
<1> HIDE DEF R
<1> QED
  BY <1>2, <1>3, <1>4

(* A killed process takes no further step.                                 *)
LEMMA KillIsFinal ==
    ASSUME ServicesInv, [ServicesNext]_services, exit = "killed"
    PROVE  UNCHANGED logs /\ exit' = "killed"
<1>0. GroupInv /\ GroupTypeOK /\ FirstKept
  BY DEF ServicesInv, ServicesTypeOK, GroupInv
<1>1. ~ Streams /\ ~ Kill
  BY DEF Streams, Running, Kill, Killed
<1>2. exit' = exit
  <2>1. CASE UNCHANGED group
    BY <2>1 DEF group
  <2>2. ~ StartUp
    BY <1>0, StartUpEffect
  <2>3. ~ Exits /\ ~ Killed
    BY DEF Exits, Killed, Running
  <2>4. CASE PeerMigrates \/ Signal
    BY <2>4 DEF PeerMigrates, Signal, group
  <2>5. ASSUME NEW f \in DOMAIN fn, FnStep(f) \/ ServerBreaks(f) PROVE exit' = exit
    BY <1>0, <2>5, FnEffect DEF ServerBreaks
  <2> QED
    BY <2>1, <2>2, <2>3, <2>4, <2>5, StepParts DEF ProcessStep
<1> QED
  BY <1>1, <1>2, StepParts

(* The two halves of LogsBounded.                                          *)
Lengthy ==
    Len(list) <= Keep + Cardinality(Trimming) + logFaults
                      + (IF exit = "killed" THEN Cardinality(Stream) ELSE 0)

Expiring ==
    list # <<>> /\ logFaults = 0 /\ exit # "killed" => expires \/ \E s \in Stream : InPipeline(s)

(* A command on the list keeps both: a line too many is one that its       *)
(* pipeline is still to trim, or a broken one was.                         *)
LEMMA StreamsBounded ==
    ASSUME LogTypeOK, Lengthy, Expiring, Streams
    PROVE  Lengthy' /\ Expiring'
<1>0. /\ list \in Seq(Line) /\ Keep \in Nat /\ Len(list) \in Nat /\ logFaults \in Nat
      /\ stream \in [Stream -> {"none", "recv", "trim", "expire", "closed"}]
      /\ exit = "running" /\ exit' = exit /\ list' \in Seq(Line)
  BY LogAssumption, LogsKept DEF LogTypeOK, Streams, Running, group
<1> DEFINE T == Cardinality(Trimming)
           U == Cardinality(Trimming')
<1>1. Len(list) <= Keep + T + logFaults /\ T \in Nat
  <2>1. IsFiniteSet(Trimming)
    BY LogAssumption, FS_Subset DEF Trimming
  <2>2. T \in Nat
    BY <2>1, FS_CardinalityType
  <2> HIDE DEF T
  <2>3. Len(list) <= Keep + T + logFaults + 0
    BY <1>0 DEF Lengthy, T
  <2> QED
    BY <1>0, <2>2, <2>3
<1>2. ASSUME U \in Nat, logFaults' \in Nat, Len(list') <= Keep + U + logFaults' PROVE Lengthy'
  <2> HIDE DEF U
  <2>1. Len(list') <= Keep + U + logFaults' + 0
    BY <1>0, <1>2
  <2> QED
    BY <1>0, <2>1 DEF Lengthy, U
<1>3. ASSUME NEW s \in Stream, NEW v, stream' = [stream EXCEPT ![s] = v]
      PROVE  /\ U \in Nat /\ (v = "trim" /\ stream[s] # "trim" => U = T + 1)
             /\ v # "trim" /\ stream[s] # "trim" => U = T
             /\ v # "trim" => U + 1 >= T
             /\ stream'[s] = v /\ \A t \in Stream \ {s} : stream'[t] = stream[t]
  <2>1. stream'[s] = v /\ \A t \in Stream \ {s} : stream'[t] = stream[t]
    BY <1>0, <1>3
  <2>2. U \in Nat /\ U = T + (IF v = "trim" THEN 1 ELSE 0) - (IF stream[s] = "trim" THEN 1 ELSE 0)
    BY <1>3, TrimmingCount, Zenon
  <2> HIDE DEF T, U
  <2> QED
    BY <1>1, <2>1, <2>2
<1> HIDE DEF T, U
<1>4. ASSUME NEW s \in Stream, OpenStream(s) \/ CloseStream(s) PROVE Lengthy' /\ Expiring'
  <2>1. PICK v \in {"recv", "closed"} : stream' = [stream EXCEPT ![s] = v]
    BY <1>4 DEF OpenStream, CloseStream
  <2>2. UNCHANGED <<list, expires, logFaults>> /\ stream[s] \in {"none", "recv"}
    BY <1>4 DEF OpenStream, CloseStream
  <2>3. U = T
    BY <1>1, <1>3, <2>1, <2>2, Zenon
  <2>4. \A t \in Stream : InPipeline(t) => InPipeline(t)'
    BY <1>3, <2>1, <2>2 DEF InPipeline
  <2>5. Lengthy'
    BY <1>0, <1>1, <1>2, <2>2, <2>3
  <2> QED
    BY <1>0, <2>2, <2>4, <2>5 DEF Expiring
<1>5. ASSUME NEW s \in Stream, PushLine(s) PROVE Lengthy' /\ Expiring'
  <2>1. stream' = [stream EXCEPT ![s] = "trim"] /\ stream[s] = "recv" /\ logFaults' = logFaults
    BY <1>5 DEF PushLine
  <2>2. Len(list') = Len(list) + 1
    BY <1>0, <1>5 DEF PushLine
  <2>3. U = T + 1 /\ stream'[s] = "trim"
    BY <1>1, <1>3, <2>1, Zenon
  <2>4. Lengthy'
    BY <1>0, <1>1, <1>2, <2>1, <2>2, <2>3
  <2>5. InPipeline(s)'
    BY <2>3 DEF InPipeline
  <2> QED
    BY <2>4, <2>5 DEF Expiring
<1>6. ASSUME NEW s \in Stream, TrimList(s) PROVE Lengthy' /\ Expiring'
  <2>1. stream' = [stream EXCEPT ![s] = "expire"] /\ logFaults' = logFaults /\ list' = Last(list, Keep)
    BY <1>6 DEF TrimList
  <2>2. Len(list') <= Keep /\ Len(list') \in Nat
    BY <1>0, <2>1, LastType
  <2>3. U \in Nat /\ stream'[s] = "expire"
    BY <1>3, <2>1, Zenon
  <2>4. Lengthy'
    BY <1>0, <1>2, <2>1, <2>2, <2>3
  <2>5. InPipeline(s)'
    BY <2>3 DEF InPipeline
  <2> QED
    BY <2>4, <2>5 DEF Expiring
<1>7. ASSUME NEW s \in Stream, SetExpiry(s) PROVE Lengthy' /\ Expiring'
  <2>1. stream' = [stream EXCEPT ![s] = "recv"] /\ stream[s] = "expire" /\ UNCHANGED <<list, logFaults>>
    BY <1>7 DEF SetExpiry
  <2>2. U = T
    BY <1>1, <1>3, <2>1, Zenon
  <2>3. Lengthy'
    BY <1>0, <1>1, <1>2, <2>1, <2>2
  <2>4. Expiring'
    BY <1>7, <2>1, Zenon DEF SetExpiry, Expiring
  <2> QED
    BY <2>3, <2>4
<1>8. ASSUME NEW s \in Stream, BreakPipeline(s) PROVE Lengthy' /\ Expiring'
  <2>1. /\ stream' = [stream EXCEPT ![s] = "recv"] /\ list' = list /\ logFaults' = logFaults + 1
    BY <1>8 DEF BreakPipeline
  <2>2. U \in Nat /\ U + 1 >= T
    BY <1>1, <1>3, <2>1, Zenon
  <2>3. Lengthy'
    BY <1>0, <1>1, <1>2, <2>1, <2>2
  <2>4. logFaults' # 0
    BY <1>0, <2>1
  <2> QED
    BY <2>3, <2>4 DEF Expiring
<1>9. CASE LogsExpire
  <2>1. list' = <<>> /\ UNCHANGED <<stream, logFaults>> /\ U = T
    BY <1>9 DEF LogsExpire, U, T, Trimming
  <2>2. Len(list') = 0
    BY <2>1
  <2>3. Lengthy'
    BY <1>0, <1>1, <1>2, <2>1, <2>2
  <2> QED
    BY <2>1, <2>3 DEF Expiring
<1> QED
  BY <1>4, <1>5, <1>6, <1>7, <1>8, <1>9 DEF Streams, StreamStep

(* Every step keeps the list bounded.                                      *)
LEMMA BoundedStep ==
    ASSUME ServicesInv, Lengthy, Expiring, [ServicesNext]_services
    PROVE  Lengthy' /\ Expiring'
<1>0. /\ LogTypeOK /\ Keep \in Nat /\ Len(list) \in Nat /\ logFaults \in Nat
      /\ IsFiniteSet(Trimming) /\ Trimming \subseteq Stream
  BY LogAssumption, FS_Subset DEF ServicesInv, ServicesTypeOK, LogTypeOK, Trimming
<1>1. /\ Cardinality(Stream) \in Nat /\ Cardinality(Trimming) \in Nat
      /\ Cardinality(Trimming) <= Cardinality(Stream)
  BY <1>0, LogAssumption, FS_Subset, FS_CardinalityType
<1>2. CASE exit = "killed"
  <2>1. UNCHANGED logs /\ exit' = exit
    BY <1>2, KillIsFinal
  <2> QED
    BY <2>1 DEF logs, Lengthy, Expiring, Trimming, InPipeline
<1>3. CASE Streams
  BY <1>0, <1>3, StreamsBounded
<1>4. CASE Kill /\ exit # "killed"
  <2>1. exit' = "killed" /\ list' = list /\ logFaults' = logFaults
    BY <1>4 DEF Kill, Killed, CutStreams
  <2>2. Trimming' = {}
    BY <1>4 DEF Kill, CutStreams, Trimming
  <2>3. Cardinality(Trimming') = 0
    BY <2>2, FS_EmptySet
  <2>4. Len(list) <= Keep + Cardinality(Trimming) + logFaults + 0
    BY <1>4 DEF Lengthy
  <2>5. Len(list) <= Keep + 0 + logFaults + Cardinality(Stream)
    BY <1>0, <1>1, <2>4
  <2> QED
    BY <2>1, <2>3, <2>5 DEF Lengthy, Expiring
<1>5. CASE UNCHANGED logs /\ exit # "killed"
  <2>1. UNCHANGED <<stream, list, expires, logFaults>> /\ Trimming' = Trimming
    BY <1>5 DEF logs, Trimming
  <2>2. Len(list) <= Keep + Cardinality(Trimming) + logFaults + 0
    BY <1>5 DEF Lengthy
  <2>3. Len(list) <= Keep + Cardinality(Trimming) + logFaults + Cardinality(Stream)
    BY <1>0, <1>1, <2>2
  <2>4. Lengthy'
    BY <2>1, <2>2, <2>3 DEF Lengthy
  <2>5. Expiring'
    BY <1>5, <2>1 DEF Expiring, InPipeline
  <2> QED
    BY <2>4, <2>5
<1> QED
  BY <1>2, <1>3, <1>4, <1>5, StepParts

(* The list never outgrows its limit by more than a line per pipeline that *)
(* is still to trim it or broke, and expires once they are done.           *)
THEOREM LogsBoundedCorrect == ServicesSpec => []LogsBounded
<1>1. ServicesInit => Lengthy /\ Expiring
  <2> SUFFICES ASSUME ServicesInit PROVE Lengthy /\ Expiring
    OBVIOUS
  <2>1. list = <<>> /\ logFaults = 0 /\ exit # "killed" /\ Trimming = {}
    BY DEF ServicesInit, LogInit, GroupInit, Trimming
  <2>2. Cardinality(Trimming) = 0 /\ Keep \in Nat
    BY <2>1, FS_EmptySet, LogAssumption
  <2>3. Len(list) <= Keep + 0 + 0 + 0
    BY <2>1, <2>2
  <2> QED
    BY <2>1, <2>2, <2>3 DEF Lengthy, Expiring
<1>2. ServicesInv /\ Lengthy /\ Expiring /\ [ServicesNext]_services => Lengthy' /\ Expiring'
  BY BoundedStep
<1>3. Lengthy /\ Expiring => LogsBounded
  BY DEF Lengthy, Expiring, Trimming, LogsBounded
<1> QED
  BY <1>1, <1>2, <1>3, ServicesStart, ServicesStep, PTL DEF ServicesSpec

-----------------------------------------------------------------------------
(* The limiter and the collector *)

(* The limiter is exact, however requests of one address interleave: one   *)
(* is let through if and only if that keeps every interval up to it within *)
(* the burst plus what the rate yields over the interval.                  *)
THEOREM LimiterCorrect == ServicesSpec => []LimiterExact
<1> DEFINE Inv == ServicesInv /\ LimiterInv
<1>1. ServicesInit => Inv
  <2> SUFFICES ASSUME ServicesInit PROVE LimiterInv
    BY ServicesStart
  <2>1. /\ buckets = [k \in Addresses |-> NoBucket] /\ held = [q \in Req |-> NoBucket]
        /\ verdicts = [k \in Addresses |-> <<>>]
    BY DEF ServicesInit, LimiterInit
  <2>2. DOMAIN <<>> = {}
    OBVIOUS
  <2> QED
    BY <2>1, <2>2, Zenon DEF LimiterInv, Account
<1>2. Inv /\ [ServicesNext]_services => Inv'
  <2> SUFFICES ASSUME Inv, [ServicesNext]_services PROVE Inv'
    OBVIOUS
  <2>1. ServicesInv' /\ LimiterTypeOK /\ Past
    BY ServicesStep DEF ServicesInv, ServicesTypeOK
  <2>2. LimiterStep
    BY StepParts, PartSteps DEF LimiterStep
  <2>3. CASE UNCHANGED limiter \/ TimePasses
    <3>1. UNCHANGED <<buckets, bucket, held, verdicts>>
      BY <2>3 DEF TimePasses, limiter
    <3> QED
      BY <2>1, <3>1 DEF LimiterInv
  <2>4. ASSUME NEW q \in Req, LookUp(q) PROVE LimiterInv'
    BY <2>1, <2>4, LookUpExact
  <2>5. ASSUME NEW q \in Req, NEW ok \in BOOLEAN, Allow(q, ok) PROVE LimiterInv'
    BY <2>1, <2>5, AllowExact
  <2> QED
    BY <2>1, <2>2, <2>3, <2>4, <2>5 DEF LimiterStep
<1>3. Inv => LimiterExact
  BY Zenon DEF LimiterInv, Account, Rightly, LimiterExact
<1> QED
  BY <1>1, <1>2, <1>3, PTL DEF ServicesSpec

(* A signal is never taken back.                                           *)
LEMMA SignalStays ==
    ASSUME GroupInv, ServicesNext \/ UNCHANGED services, ~ signalled'
    PROVE  ~ signalled
<1> SUFFICES ASSUME signalled PROVE signalled'
  OBVIOUS
<1>1. CASE UNCHANGED group
  BY <1>1 DEF group
<1>2. CASE GroupStep
  <2>1. CASE StartUp
    BY <2>1, StartUpEffect
  <2>2. CASE ~ StartUp
    BY <1>2, <2>2, Zenon DEF GroupStep, ServerFails, BeginShutdown, EndShutdown, LoopReturns, Exits
  <2> QED
    BY <2>1, <2>2
<1>3. CASE Upset
  BY <1>3, Zenon DEF Upset, PeerMigrates, Signal, ServerBreaks, group
<1>4. CASE Kill
  BY <1>4 DEF Kill, Killed
<1> QED
  BY <1>1, <1>2, <1>3, <1>4, Zenon DEF ServicesNext, Requests, Streams, Samples, services

(* Before the first sample nothing is counted and nothing is missed.       *)
LEMMA CountsInit == ServicesInit => SnapshotInv /\ GaugeInv
<1> SUFFICES ASSUME ServicesInit PROVE SnapshotInv /\ GaugeInv
  OBVIOUS
<1>0. CollectorTypeOK
  BY ServicesStart DEF ServicesInv, ServicesTypeOK
<1>1. /\ sample = Done(0, NoCounts) /\ began = {} /\ backed = {}
  BY DEF ServicesInit, CollectorInit
<1>2. SnapshotInv
  <2>1. \A s \in {"running", "scheduled", "queued"} : sample.counts[s] = 0
    BY <1>1 DEF Done, NoCounts
  <2>2. Cardinality(Ahead(1)) \in Nat /\ Cardinality(backed) \in Nat
    BY <1>0, SizesType
  <2>3. JobsRunning + JobsQueued = 0
    BY <2>1 DEF JobsRunning, JobsQueued
  <2>4. sample.step = 0
    BY <1>1 DEF Done
  <2>5. 0 <= Cardinality(Ahead(1)) + 2 * Cardinality(backed)
    BY <2>2
  <2> QED
    BY <1>1, <2>3, <2>4, <2>5 DEF SnapshotInv
<1>3. GaugeInv
  <2> PICK i \in 0..7 : i = Taken
    BY <1>0, GaugeTypes
  <2>1. Passed(i) = {}
    BY <1>1 DEF Passed
  <2>2. Partial(i) \in Nat /\ Cardinality({}) = 0
    BY <1>0, GaugeTypes, FS_EmptySet
  <2>3. Cardinality(Passed(Taken)) <= Partial(Taken)
    BY <2>1, <2>2
  <2> QED
    BY <1>1, <2>3 DEF GaugeInv
<1> QED
  BY <1>2, <1>3

(* What the counts so far maintain is what CountsReliable asks of a sample *)
(* that is complete.                                                       *)
LEMMA CountsFollow == CollectorTypeOK /\ SnapshotInv /\ GaugeInv => CountsReliable
<1> SUFFICES ASSUME CollectorTypeOK, SnapshotInv, GaugeInv PROVE CountsReliable
  OBVIOUS
<1> DEFINE Here == {j \in Tracked : row[j] # "absent"}
<1>0. \A s \in Statuses \cup {"absent"} : Rank[s] \in Int /\ Rank[s] <= 7 /\ (Rank[s] >= 1 <=> s # "absent")
  BY DEF Rank, Statuses
<1>01. /\ \A j \in Tracked : row[j] \in Statuses \cup {"absent"}
       /\ began \subseteq Tracked /\ backed \subseteq Tracked
  BY DEF CollectorTypeOK
<1>1. JobsRunning + JobsQueued <= Cardinality(Here) + 2 * Cardinality(backed)
  <2>1. Here = Ahead(1)
    BY <1>0, <1>01 DEF Ahead, SnapshotInv
  <2>2. /\ Ahead(3) \subseteq Ahead(1) /\ Ahead(2) \subseteq Ahead(1)
    <3>1. \A j \in Tracked : Rank[row[j]] \in Int
      BY <1>0, <1>01
    <3> QED
      BY <3>1 DEF Ahead
  <2>3. /\ Cardinality(Ahead(3)) <= Cardinality(Ahead(1))
        /\ Cardinality(Ahead(2)) <= Cardinality(Ahead(1))
    <3>1. IsFiniteSet(Ahead(1))
      BY SizesType, InFinite
    <3> QED
      BY <2>2, <3>1, FS_Subset
  <2>4. /\ Cardinality(Ahead(3)) \in Nat /\ Cardinality(Ahead(2)) \in Nat
        /\ Cardinality(Ahead(1)) \in Nat /\ Cardinality(backed) \in Nat
    BY SizesType
  <2>5. /\ sample.counts["running"] \in Nat /\ sample.counts["scheduled"] \in Nat
        /\ sample.counts["queued"] \in Nat /\ sample.step \in 0..10
    BY DEF CollectorTypeOK
  <2>6. sample.step = 1 => JobsRunning + JobsQueued = 0
    BY DEF SnapshotInv, NoCounts, JobsRunning, JobsQueued
  <2>7. sample.step = 2 => JobsRunning + JobsQueued <= Cardinality(Ahead(3))
    BY <2>4, <2>5 DEF SnapshotInv, JobsRunning, JobsQueued
  <2>8. sample.step = 3 => JobsRunning + JobsQueued <= Cardinality(Ahead(2)) + Cardinality(backed)
    BY <2>4, <2>5 DEF SnapshotInv, JobsRunning, JobsQueued
  <2>9. sample.step \notin 1..3 =>
           JobsRunning + JobsQueued <= Cardinality(Ahead(1)) + 2 * Cardinality(backed)
    BY DEF SnapshotInv
  <2>10. JobsRunning + JobsQueued \in Nat
    BY <2>5 DEF JobsRunning, JobsQueued
  <2> HIDE DEF Here
  <2> QED
    BY <2>1, <2>3, <2>4, <2>5, <2>6, <2>7, <2>8, <2>9, <2>10
<1>2. ASSUME sample.step = 0, countFaults = 0, ~ signalled
      PROVE  GaugeTotal >= Cardinality(began \ backed)
  <2>1. Taken = 7
    BY <1>2 DEF Taken
  <2>2. Passed(7) = began \ backed
    BY <1>0, <1>01 DEF Passed
  <2>3. Partial(7) = GaugeTotal
    BY DEF Partial, Part, GaugeTotal, GaugeOrder
  <2>4. Cardinality(Passed(7)) <= Partial(7)
    BY <1>2, <2>1 DEF GaugeInv
  <2>5. Partial(7) \in Nat /\ Cardinality(Passed(7)) \in Nat
    BY GaugeTypes
  <2> QED
    BY <2>2, <2>3, <2>4, <2>5
<1> QED
  BY <1>1, <1>2 DEF CountsReliable

(* However jobs move between the counts, the snapshot counts twice, and    *)
(* the gauges miss, only jobs that were set back during the sample, unless *)
(* a count failed or the process was told to stop.                         *)
THEOREM CountsCorrect == ServicesSpec => []CountsReliable
<1> DEFINE Inv == ServicesInv /\ SnapshotInv /\ GaugeInv
<1>1. ServicesInit => Inv
  BY CountsInit, ServicesStart
<1>2. Inv /\ [ServicesNext]_services => Inv'
  <2> SUFFICES ASSUME Inv, [ServicesNext]_services PROVE Inv'
    OBVIOUS
  <2>1. ServicesInv'
    BY ServicesStep
  <2>2. GroupInv /\ CollectorTypeOK /\ CollectorTypeOK'
    BY <2>1 DEF ServicesInv, ServicesTypeOK, GroupInv
  <2>3. CountingStep \/ UNCHANGED collection
    BY StepParts, PartSteps
  <2>4. ~ signalled' => ~ signalled
    BY <2>2, SignalStays
  <2>5. SnapshotInv'
    BY <2>2, <2>3, SnapshotStep
  <2>6. GaugeInv'
    BY <2>2, <2>3, <2>4, GaugeStep
  <2> QED
    BY <2>1, <2>5, <2>6
<1>3. Inv => CountsReliable
  BY CountsFollow DEF ServicesInv, ServicesTypeOK
<1> QED
  BY <1>1, <1>2, <1>3, PTL DEF ServicesSpec
=============================================================================
