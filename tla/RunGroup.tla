------------------------------ MODULE RunGroup ------------------------------
(***************************************************************************)
(* The life of a service process once it has started: the functions that   *)
(* RunGroup runs side by side (internal/runtimex), and the servers among   *)
(* them (grpc.Serve, telemetry.ServeMetrics, api.Server.Run and the        *)
(* metrics service's serveMetrics), which share one shape: a goroutine     *)
(* serves and posts its error, the function waits for that error or for    *)
(* the context.                                                            *)
(***************************************************************************)
EXTENDS Sequences, Integers

CONSTANTS
    Service,    \* the services a process may be
    MaxBreaks   \* bound on failures to start and on servers failing

ASSUME GroupAssumption ==
    /\ Service \subseteq {"api-gateway", "scheduler", "metrics", "node-agent"}
    /\ MaxBreaks \in Nat

VARIABLES
    service,    \* which service this process is
    fn,         \* [Fn(service) -> FnState]
    firstErr,   \* at most one element: the function whose error RunGroup keeps
    exit,       \* Exit
    signalled,  \* SIGINT or SIGTERM arrived
    breaks,
    errors      \* history: the functions that returned an error, in order

group == <<service, fn, firstErr, exit, signalled, breaks, errors>>

(* Servers, and loops that return when the context is cancelled.           *)
Http == {"api", "metrics"}
Loop == {"elector", "collector", "agent"}

Fn(s) ==
    CASE s = "api-gateway" -> {"api", "metrics"}
      [] s = "scheduler"   -> {"grpc", "metrics", "elector"}
      [] s = "metrics"     -> {"collector", "metrics"}
      [] s = "node-agent"  -> {"agent", "metrics"}

(* "broken": the error is in errCh; "draining": Shutdown or GracefulStop.  *)
FnState == {"serving", "broken", "draining", "returned"}

(* "unborn": before RunGroup.  "ok" is exit status 0, "error" 1; a killed  *)
(* process ran no more code.                                               *)
Exit == {"unborn", "running", "ok", "error", "killed"}

GroupInit ==
    /\ service \in Service
    /\ fn = [f \in Fn(service) |-> "serving"]
    /\ firstErr = {}
    /\ exit = "unborn"
    /\ signalled = FALSE
    /\ breaks = 0
    /\ errors = <<>>

GroupTypeOK ==
    /\ service \in Service
    /\ fn \in [Fn(service) -> FnState]
    /\ firstErr \subseteq Fn(service)
    /\ exit \in Exit
    /\ signalled \in BOOLEAN
    /\ breaks \in 0..MaxBreaks
    /\ errors \in Seq(Fn(service))

Break == breaks < MaxBreaks /\ breaks' = breaks + 1

Running(f) == exit = "running" /\ f \in DOMAIN fn

-----------------------------------------------------------------------------
Signal ==
    /\ exit \in {"unborn", "running"}
    /\ ~ signalled
    /\ signalled' = TRUE
    /\ UNCHANGED <<service, fn, firstErr, exit, breaks, errors>>

\* mutant: every error replaces the one before
ReturnsLast(f, err) ==
    /\ fn' = [fn EXCEPT ![f] = "returned"]
    /\ firstErr' = IF err THEN {f} ELSE firstErr
    /\ errors' = IF err THEN Append(errors, f) ELSE errors

(* One goroutine of RunGroup: f returns, once.Do keeps the first error.    *)
Returns(f, err) ==
    /\ fn' = [fn EXCEPT ![f] = "returned"]
    /\ firstErr' = IF err /\ firstErr = {} THEN {f} ELSE firstErr
    /\ errors' = IF err THEN Append(errors, f) ELSE errors

-----------------------------------------------------------------------------
(* The listener cannot be opened, or serving ends with an error.           *)
ServerBreaks(f) ==
    /\ Running(f) /\ f \notin Loop
    /\ fn[f] = "serving"
    /\ Break
    /\ fn' = [fn EXCEPT ![f] = "broken"]
    /\ UNCHANGED <<service, firstErr, exit, signalled, errors>>

ServerFails(f) ==
    /\ Running(f)
    /\ fn[f] = "broken"
    /\ Returns(f, TRUE)
    /\ UNCHANGED <<service, exit, signalled, breaks>>

(* The select may prefer the context to an error that is ready as well.    *)
BeginShutdown(f) ==
    /\ Running(f) /\ f \notin Loop
    /\ signalled
    /\ fn[f] \in {"serving", "broken"}
    /\ fn' = [fn EXCEPT ![f] = "draining"]
    /\ UNCHANGED <<service, firstErr, exit, signalled, breaks, errors>>

\* mutant: Shutdown has no deadline
EndShutdownPatiently(f, busy) ==
    /\ Running(f)
    /\ fn[f] = "draining"
    /\ ~ busy /\ Returns(f, FALSE)
    /\ UNCHANGED <<service, exit, signalled, breaks>>

(* GracefulStop waits for the calls in progress, however long; Shutdown    *)
(* gives up on them at its deadline and returns an error.                  *)
EndShutdown(f, busy) ==
    /\ Running(f)
    /\ fn[f] = "draining"
    /\ \/ ~ busy /\ Returns(f, FALSE)
       \/ busy /\ f \in Http /\ Returns(f, TRUE)
    /\ UNCHANGED <<service, exit, signalled, breaks>>

LoopReturns(f) ==
    /\ Running(f) /\ f \in Loop
    /\ fn[f] = "serving"
    /\ signalled
    /\ Returns(f, FALSE)
    /\ UNCHANGED <<service, exit, signalled, breaks>>

(* wg.Wait returns and main ends.                                          *)
Exits ==
    /\ exit = "running"
    /\ \A f \in DOMAIN fn : fn[f] = "returned"
    /\ exit' = IF firstErr = {} THEN "ok" ELSE "error"
    /\ UNCHANGED <<service, fn, firstErr, signalled, breaks, errors>>

Killed ==
    /\ exit \in {"unborn", "running"}
    /\ exit' = "killed"
    /\ UNCHANGED <<service, fn, firstErr, signalled, breaks, errors>>
=============================================================================
