----------------------------- MODULE RateLimiter ----------------------------
(***************************************************************************)
(* The gateway's token buckets (internal/api/ratelimit.go), one per client *)
(* address.  Tokens are counted in grains, Grain of them to a token, so    *)
(* that the fractions a refill adds are integers; a moment adds Rate of    *)
(* them.  A bucket is named after the request that created it.             *)
(***************************************************************************)
EXTENDS Integers, Sequences, FiniteSets

CONSTANTS
    Req,        \* the requests
    Address,    \* Address[q]: the client address q comes from
    NoBucket,
    Burst,      \* RateLimitBurst, in tokens
    Rate,       \* RateLimitRPS, in grains per moment
    Grain,
    MaxNow      \* bound on time

ASSUME LimiterAssumption ==
    /\ DOMAIN Address = Req /\ NoBucket \notin Req
    /\ Burst \in Nat /\ Rate \in Nat /\ Grain \in Nat \ {0} /\ MaxNow \in Nat

Addresses == {Address[q] : q \in Req}

VARIABLES
    now,
    buckets,    \* [Addresses -> Req \cup {NoBucket}]: the map
    bucket,     \* [Req -> [tokens, last]]: the buckets themselves
    held,       \* [Req -> Req \cup {NoBucket}]: the bucket q looked up
    verdicts    \* history: [Addresses -> Seq([at, ok])], in the order decided

limiter == <<now, buckets, bucket, held, verdicts>>

LimiterInit ==
    /\ now = 0
    /\ buckets = [k \in Addresses |-> NoBucket]
    /\ bucket = [q \in Req |-> [tokens |-> 0, last |-> 0]]
    /\ held = [q \in Req |-> NoBucket]
    /\ verdicts = [k \in Addresses |-> <<>>]

LimiterTypeOK ==
    /\ now \in 0..MaxNow
    /\ buckets \in [Addresses -> Req \cup {NoBucket}]
    /\ bucket \in [Req -> [tokens : 0..Burst * Grain, last : 0..MaxNow]]
    /\ held \in [Req -> Req \cup {NoBucket}]
    /\ verdicts \in [Addresses -> Seq([at : 0..MaxNow, ok : BOOLEAN])]

TimePasses ==
    /\ now < MaxNow
    /\ now' = now + 1
    /\ UNCHANGED <<buckets, bucket, held, verdicts>>

NewBucket == [tokens |-> Burst * Grain, last |-> now]

Insert(q) ==
    /\ buckets' = [buckets EXCEPT ![Address[q]] = q]
    /\ bucket' = [bucket EXCEPT ![q] = NewBucket]
    /\ held' = [held EXCEPT ![q] = q]

Found(q) ==
    /\ held' = [held EXCEPT ![q] = buckets[Address[q]]]
    /\ UNCHANGED <<buckets, bucket>>

\* mutant: without the mutex, a lookup may miss a bucket just inserted
LookUpUnlocked(q) ==
    /\ \/ Insert(q)
       \/ buckets[Address[q]] # NoBucket /\ Found(q)
    /\ UNCHANGED <<now, verdicts>>

(* rateLimiter.allow up to the unlock: find or insert.                     *)
LookUp(q) ==
    /\ IF buckets[Address[q]] = NoBucket THEN Insert(q) ELSE Found(q)
    /\ UNCHANGED <<now, verdicts>>

Refill(b) ==
    LET tokens == b.tokens + (now - b.last) * Rate
    IN  IF tokens > Burst * Grain THEN Burst * Grain ELSE tokens

\* mutant: any part of a token will do
AllowFraction(q, ok) ==
    /\ held[q] # NoBucket
    /\ LET tokens == Refill(bucket[held[q]])
       IN  /\ ok = (tokens > 0)
           /\ bucket' = [bucket EXCEPT ![held[q]] =
                            [tokens |-> IF ok THEN tokens - Grain ELSE tokens, last |-> now]]
    /\ held' = [held EXCEPT ![q] = NoBucket]
    /\ verdicts' = [verdicts EXCEPT ![Address[q]] = Append(@, [at |-> now, ok |-> ok])]
    /\ UNCHANGED <<now, buckets>>

(* tokenBucket.allow, under the bucket's mutex.                            *)
Allow(q, ok) ==
    /\ held[q] # NoBucket
    /\ LET tokens == Refill(bucket[held[q]])
       IN  /\ ok = (tokens >= Grain)
           /\ bucket' = [bucket EXCEPT ![held[q]] =
                            [tokens |-> IF ok THEN tokens - Grain ELSE tokens, last |-> now]]
    /\ held' = [held EXCEPT ![q] = NoBucket]
    /\ verdicts' = [verdicts EXCEPT ![Address[q]] = Append(@, [at |-> now, ok |-> ok])]
    /\ UNCHANGED <<now, buckets>>
=============================================================================
