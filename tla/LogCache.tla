------------------------------ MODULE LogCache ------------------------------
(***************************************************************************)
(* The recent log lines of one job: StreamLogs handlers append to a list   *)
(* in Redis, one pipeline of three commands per line, and FetchLogs reads  *)
(* the end of it (internal/grpc/server.go).  A pipeline is no transaction: *)
(* commands of other handlers run in between (a job requeued from a node   *)
(* that is cut off has two executors), and it may break off anywhere.      *)
(***************************************************************************)
EXTENDS Integers, Sequences, FiniteSets

CONSTANTS
    Stream,      \* the streams of the job's executors
    Keep,        \* lines LTRIM keeps; 500 in the code
    Fallback,    \* lines served when no positive limit is given; 200
    MaxLines,    \* bound on the lines of a stream
    MaxLogFaults \* bound on pipelines and streams that break

ASSUME LogAssumption ==
    /\ IsFiniteSet(Stream)
    /\ Keep \in Nat \ {0} /\ Fallback \in 1..Keep
    /\ MaxLines \in Nat /\ MaxLogFaults \in Nat

VARIABLES
    stream,     \* [Stream -> {"none", "recv", "trim", "expire", "closed"}]
    sent,       \* [Stream -> 0..MaxLines]: lines received from the stream
    list,       \* the Redis list
    expires,    \* the list has a time to live
    logFaults,
    pushed      \* history: all lines appended since the list last expired

logs == <<stream, sent, list, expires, logFaults, pushed>>

LogInit ==
    /\ stream = [s \in Stream |-> "none"]
    /\ sent = [s \in Stream |-> 0]
    /\ list = <<>>
    /\ expires = FALSE
    /\ logFaults = 0
    /\ pushed = <<>>

Line == Stream \X (1..MaxLines)

LogTypeOK ==
    /\ stream \in [Stream -> {"none", "recv", "trim", "expire", "closed"}]
    /\ sent \in [Stream -> 0..MaxLines]
    /\ list \in Seq(Line)
    /\ expires \in BOOLEAN
    /\ logFaults \in 0..MaxLogFaults
    /\ pushed \in Seq(Line)

(* LRANGE and LTRIM with -n .. -1: the last n elements.                    *)
Last(l, n) == SubSeq(l, (IF Len(l) > n THEN Len(l) - n ELSE 0) + 1, Len(l))

InPipeline(s) == stream[s] \in {"trim", "expire"}

-----------------------------------------------------------------------------
OpenStream(s) ==
    /\ stream[s] = "none"
    /\ stream' = [stream EXCEPT ![s] = "recv"]
    /\ UNCHANGED <<sent, list, expires, logFaults, pushed>>

(* Recv returns a line, RPUSH appends it.                                  *)
PushLine(s) ==
    /\ stream[s] = "recv"
    /\ sent[s] < MaxLines
    /\ sent' = [sent EXCEPT ![s] = @ + 1]
    /\ list' = Append(list, <<s, sent[s] + 1>>)
    /\ pushed' = Append(pushed, <<s, sent[s] + 1>>)
    /\ stream' = [stream EXCEPT ![s] = "trim"]
    /\ UNCHANGED <<expires, logFaults>>

\* mutant: LTRIM 0 Keep-1
TrimToOldest(s) ==
    /\ stream[s] = "trim"
    /\ list' = SubSeq(list, 1, IF Len(list) > Keep THEN Keep ELSE Len(list))
    /\ stream' = [stream EXCEPT ![s] = "expire"]
    /\ UNCHANGED <<sent, expires, logFaults, pushed>>

\* mutant: the list is not trimmed
TrimNothing(s) ==
    /\ stream[s] = "trim"
    /\ stream' = [stream EXCEPT ![s] = "expire"]
    /\ UNCHANGED <<sent, list, expires, logFaults, pushed>>

TrimList(s) ==
    /\ stream[s] = "trim"
    /\ list' = Last(list, Keep)
    /\ stream' = [stream EXCEPT ![s] = "expire"]
    /\ UNCHANGED <<sent, expires, logFaults, pushed>>

(* EXPIRE of a key that is gone does nothing.                              *)
SetExpiry(s) ==
    /\ stream[s] = "expire"
    /\ expires' = (list # <<>>)
    /\ stream' = [stream EXCEPT ![s] = "recv"]
    /\ UNCHANGED <<sent, list, logFaults, pushed>>

(* The rest of the pipeline, or all of it, is not executed; the error is   *)
(* only logged and the next line is received.                              *)
BreakPipeline(s) ==
    /\ logFaults < MaxLogFaults
    /\ logFaults' = logFaults + 1
    /\ \/ InPipeline(s) /\ sent' = sent
       \/ stream[s] = "recv" /\ sent[s] < MaxLines /\ sent' = [sent EXCEPT ![s] = @ + 1]
    /\ stream' = [stream EXCEPT ![s] = "recv"]
    /\ UNCHANGED <<list, expires, pushed>>

(* The executor closes the stream, or the connection is lost.              *)
CloseStream(s) ==
    /\ stream[s] = "recv"
    /\ stream' = [stream EXCEPT ![s] = "closed"]
    /\ UNCHANGED <<sent, list, expires, logFaults, pushed>>

(* A day passes without a line.                                            *)
LogsExpire ==
    /\ expires
    /\ list' = <<>>
    /\ pushed' = <<>>
    /\ expires' = FALSE
    /\ UNCHANGED <<stream, sent, logFaults>>

(* The process of the handlers is killed.                                  *)
CutStreams ==
    /\ stream' = [s \in Stream |-> IF stream[s] = "none" THEN "none" ELSE "closed"]
    /\ UNCHANGED <<sent, list, expires, logFaults, pushed>>

-----------------------------------------------------------------------------
FetchLogs(limit) == Last(list, IF limit <= 0 THEN Fallback ELSE limit)
=============================================================================
