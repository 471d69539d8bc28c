-------------------------- MODULE ServicePartsProofs ------------------------
(***************************************************************************)
(* The token buckets and the counts of a sample by themselves: the steps   *)
(* of the limiter keep its buckets exact, and those of the collector, and  *)
(* of the jobs it counts, keep track of every job.                         *)
(***************************************************************************)
EXTENDS RateLimiter, Collector, RunGroup, FiniteSetTheorems, SequenceTheorems, TLAPS

-----------------------------------------------------------------------------
(* The limiter *)

(* No bucket was refilled in the future.                                   *)
Past == \A q \in Req : bucket[q].last <= now

(* What the history records of a request.                                  *)
Verdict == [at : 0..MaxNow, ok : BOOLEAN]

LimiterStep ==
    \/ UNCHANGED limiter
    \/ TimePasses
    \/ \E q \in Req : LookUp(q) \/ \E ok \in BOOLEAN : Allow(q, ok)

(* Every step of the limiter keeps its types; a bucket is refilled up to   *)
(* the burst and charged only what it holds.                               *)
LEMMA LimiterKept ==
    ASSUME LimiterTypeOK, Past, LimiterStep
    PROVE  LimiterTypeOK' /\ Past'
<1> DEFINE Full == Burst * Grain
<1>01. Full \in Nat
  BY LimiterAssumption
<1>02. \A q \in Req : Address[q] \in Addresses
  BY DEF Addresses
<1>0. /\ now \in 0..MaxNow /\ MaxNow \in Nat /\ Full \in Nat /\ Rate \in Nat /\ Grain \in Nat \ {0}
      /\ bucket \in [Req -> [tokens : 0..Full, last : 0..MaxNow]]
      /\ held \in [Req -> Req \cup {NoBucket}] /\ buckets \in [Addresses -> Req \cup {NoBucket}]
      /\ verdicts \in [Addresses -> Seq(Verdict)]
      /\ \A q \in Req : Address[q] \in Addresses
  BY <1>01, <1>02, LimiterAssumption, Zenon DEF LimiterTypeOK, Verdict
<1>03. \A q \in Req : bucket[q].last \in Int
  BY <1>0
<1>04. ASSUME now' = now, \A q \in Req : bucket'[q].last \in {bucket[q].last, now} PROVE Past'
  <2> SUFFICES ASSUME NEW q \in Req PROVE bucket'[q].last <= now
    BY <1>04 DEF Past
  <2>1. bucket[q].last <= now /\ now \in Int
    BY <1>0 DEF Past
  <2>2. CASE bucket'[q].last = bucket[q].last
    BY <2>1, <2>2
  <2>3. CASE bucket'[q].last = now
    BY <2>1, <2>3
  <2> QED
    BY <1>04, <2>2, <2>3
<1> HIDE DEF Full
<1>1. CASE UNCHANGED limiter
  BY <1>1, Zenon DEF limiter, LimiterTypeOK, Past
<1>2. CASE TimePasses
  <2>1. now' \in 0..MaxNow /\ now' = now + 1
    BY <1>0, <1>2 DEF TimePasses
  <2>3. \A q \in Req : bucket'[q].last <= now'
    BY <1>0, <1>03, <1>2, <2>1 DEF TimePasses, Past
  <2> QED
    BY <1>2, <2>1, <2>3, Zenon DEF TimePasses, LimiterTypeOK, Past
<1>3. ASSUME NEW q \in Req, LookUp(q) PROVE LimiterTypeOK' /\ Past'
  <2>1. CASE Insert(q)
    <3>1. NewBucket \in [tokens : 0..Full, last : 0..MaxNow] /\ NewBucket.last = now
      BY <1>0 DEF NewBucket, Full
    <3>2. /\ bucket' \in [Req -> [tokens : 0..Full, last : 0..MaxNow]]
          /\ \A p \in Req : bucket'[p].last \in {bucket[p].last, now}
      BY <1>0, <2>1, <3>1 DEF Insert
    <3>3. held' \in [Req -> Req \cup {NoBucket}] /\ buckets' \in [Addresses -> Req \cup {NoBucket}]
      BY <1>0, <2>1 DEF Insert
    <3>4. now' = now /\ verdicts' = verdicts
      BY <1>3 DEF LookUp
    <3>5. Past'
      BY <1>04, <3>2, <3>4
    <3> QED
      BY <1>0, <3>2, <3>3, <3>4, <3>5, Zenon DEF LimiterTypeOK, Full, Verdict
  <2>2. CASE Found(q)
    <3>1. held' \in [Req -> Req \cup {NoBucket}]
      BY <1>0, <2>2 DEF Found
    <3> QED
      BY <1>0, <1>3, <2>2, <3>1, Zenon DEF Found, LookUp, LimiterTypeOK, Past
  <2> QED
    BY <1>3, <2>1, <2>2 DEF LookUp
<1>4. ASSUME NEW q \in Req, NEW ok \in BOOLEAN, Allow(q, ok) PROVE LimiterTypeOK' /\ Past'
  <2> DEFINE b == bucket[held[q]]
             n == IF ok THEN Refill(b) - Grain ELSE Refill(b)
  <2>1. held[q] \in Req
    BY <1>0, <1>4 DEF Allow
  <2>2. b.tokens \in 0..Full /\ b.last \in 0..MaxNow /\ b.last <= now
    BY <1>0, <2>1 DEF Past
  <2>3. /\ (now - b.last) * Rate \in Nat
        /\ Refill(b) = IF b.tokens + (now - b.last) * Rate > Full
                       THEN Full ELSE b.tokens + (now - b.last) * Rate
    <3>1. now - b.last \in Nat
      BY <1>0, <2>2
    <3> QED
      BY <1>0, <3>1 DEF Refill, Full
  <2>4. Refill(b) \in 0..Full
    <3> DEFINE x == (now - b.last) * Rate
    <3> HIDE DEF x
    <3>1. x \in Nat /\ Refill(b) = IF b.tokens + x > Full THEN Full ELSE b.tokens + x
      BY <2>3 DEF x
    <3> QED
      BY <1>0, <2>2, <3>1
  <2>5. ok = (Refill(b) >= Grain)
    BY <1>4 DEF Allow
  <2>6. n \in 0..Full
    <3> DEFINE r == Refill(b)
    <3>1. r \in 0..Full /\ (ok => r >= Grain) /\ n = IF ok THEN r - Grain ELSE r
      BY <2>4, <2>5, Zenon
    <3> HIDE DEF r, n, b
    <3> QED
      BY <1>0, <3>1
  <2>7. bucket' = [bucket EXCEPT ![held[q]] = [tokens |-> n, last |-> now]]
    BY <1>4 DEF Allow
  <2> HIDE DEF n, b
  <2>8. /\ bucket' \in [Req -> [tokens : 0..Full, last : 0..MaxNow]]
        /\ \A p \in Req : bucket'[p].last \in {bucket[p].last, now}
    BY <1>0, <2>1, <2>6, <2>7
  <2>9. held' \in [Req -> Req \cup {NoBucket}]
    BY <1>0, <1>4 DEF Allow
  <2>10. verdicts' \in [Addresses -> Seq(Verdict)]
    <3> DEFINE v == [at |-> now, ok |-> ok]
    <3>1. v \in Verdict
      BY <1>0 DEF Verdict
    <3>2. verdicts' = [verdicts EXCEPT ![Address[q]] = Append(verdicts[Address[q]], v)]
      BY <1>4 DEF Allow
    <3> HIDE DEF v
    <3>3. verdicts[Address[q]] \in Seq(Verdict)
      BY <1>0
    <3>4. Append(verdicts[Address[q]], v) \in Seq(Verdict)
      BY <3>1, <3>3
    <3> QED
      BY <1>0, <3>2, <3>4
  <2>11. now' = now /\ buckets' = buckets
    BY <1>4 DEF Allow
  <2>12. Past'
    BY <1>04, <2>8, <2>11
  <2> QED
    BY <1>0, <2>8, <2>9, <2>10, <2>11, <2>12, Zenon DEF LimiterTypeOK, Full, Verdict
<1> QED
  BY <1>1, <1>2, <1>3, <1>4 DEF LimiterStep

(* The requests of an address let through since t.                         *)
Since(vs, t) == Cardinality({h \in DOMAIN vs : vs[h].ok /\ vs[h].at >= t})

(* What the interval from t to T leaves of the burst and the rate.         *)
Ceiling(T, vs, t) == (Burst * Grain + (T - t) * Rate) - Since(vs, t) * Grain

(* A bucket that holds n at T holds what the tightest interval leaves.     *)
Exact(n, T, vs) ==
    /\ \A t \in 0..T : n <= Ceiling(T, vs, t)
    /\ \E t \in 0..T : n = Ceiling(T, vs, t)

(* The condition LimiterExact puts on the i-th verdict.                    *)
Rightly(vs, i) ==
    LET v == vs[i]
        since(t) == Cardinality({h \in 1..(i - 1) : vs[h].ok /\ vs[h].at >= t})
    IN  v.ok <=> \A t \in 0..v.at : (since(t) + 1) * Grain <= Burst * Grain + (v.at - t) * Rate

(* Finitely many requests were let through.                                *)
LEMMA SinceType ==
    ASSUME NEW vs \in Seq(Verdict), NEW t
    PROVE  /\ Since(vs, t) \in Nat
           /\ IsFiniteSet({h \in DOMAIN vs : vs[h].ok /\ vs[h].at >= t})
<1> DEFINE S == {h \in DOMAIN vs : vs[h].ok /\ vs[h].at >= t}
<1>1. S \subseteq 1..Len(vs) /\ Len(vs) \in Nat /\ 1 \in Int /\ Len(vs) \in Int
  BY LenProperties
<1>2. IsFiniteSet(1..Len(vs))
  BY <1>1, FS_Interval
<1>3. IsFiniteSet(S)
  BY <1>1, <1>2, FS_Subset
<1> QED
  BY <1>3, FS_CardinalityType DEF Since

(* What an interval leaves is a whole number of grains.                    *)
LEMMA CeilingType ==
    ASSUME NEW vs \in Seq(Verdict), NEW t \in Nat, NEW T \in Nat
    PROVE  Ceiling(T, vs, t) \in Int /\ (T - t) * Rate \in Int /\ Since(vs, t) * Grain \in Nat
<1>1. Since(vs, t) \in Nat /\ Burst \in Nat /\ Grain \in Nat /\ Rate \in Nat
  BY SinceType, LimiterAssumption, Zenon
<1> DEFINE s == Since(vs, t)
<1> HIDE DEF s
<1>2. s * Grain \in Nat /\ Burst * Grain \in Nat /\ (T - t) * Rate \in Int
  BY <1>1 DEF s
<1> QED
  BY <1>2 DEF Ceiling, s

(* After the last verdict there is only the burst and the rate.            *)
LEMMA SinceNone ==
    ASSUME NEW vs \in Seq(Verdict), NEW L \in Nat, NEW t \in Nat, t > L,
           \A h \in DOMAIN vs : vs[h].at <= L
    PROVE  Since(vs, t) = 0
<1>1. \A h \in DOMAIN vs : vs[h].at \in Nat
  <2>1. \A h \in DOMAIN vs : vs[h] \in Verdict
    BY ElementOfSeq
  <2> QED
    BY <2>1, LimiterAssumption DEF Verdict
<1>2. {h \in DOMAIN vs : vs[h].ok /\ vs[h].at >= t} = {}
  BY <1>1
<1> QED
  BY <1>2, FS_EmptySet, Zenon DEF Since

(* A refill keeps a bucket exact: what time adds to it, it adds to every   *)
(* interval, and at the cap the interval that has just begun is tightest.  *)
LEMMA RefillExact ==
    ASSUME NEW vs \in Seq(Verdict), NEW n \in Nat, NEW L \in Nat, NEW T \in Nat, L <= T,
           n <= Burst * Grain, Exact(n, L, vs), \A h \in DOMAIN vs : vs[h].at <= L,
           NEW x, x = IF n + (T - L) * Rate > Burst * Grain THEN Burst * Grain ELSE n + (T - L) * Rate
    PROVE  x \in Nat /\ Exact(x, T, vs)
<1>0. Burst * Grain \in Nat /\ Rate \in Nat /\ Grain \in Nat
  BY LimiterAssumption
<1> DEFINE Full == Burst * Grain
           y == (T - L) * Rate
<1>1. y \in Nat
  <2>1. T - L \in Nat
    OBVIOUS
  <2> QED
    BY <1>0, <2>1
<1>2. ASSUME NEW t \in 0..L PROVE Ceiling(T, vs, t) = Ceiling(L, vs, t) + y
  <2> DEFINE c == Since(vs, t) * Grain
  <2>1. c \in Nat
    BY CeilingType
  <2>2. (T - t) * Rate = (L - t) * Rate + y
    BY <1>0
  <2> DEFINE u == (T - t) * Rate
             w == (L - t) * Rate
  <2>3. u \in Int /\ w \in Int /\ u = w + y
    BY <2>2, CeilingType
  <2> HIDE DEF u, w, y, c
  <2>4. (Burst * Grain + u) - c = ((Burst * Grain + w) - c) + y
    BY <1>0, <1>1, <2>1, <2>3
  <2>5. Ceiling(T, vs, t) = (Burst * Grain + u) - c
    BY Zenon DEF Ceiling, u, c
  <2>6. Ceiling(L, vs, t) = (Burst * Grain + w) - c
    BY Zenon DEF Ceiling, w, c
  <2> QED
    BY Zenon, <2>4, <2>5, <2>6
<1>3. ASSUME NEW t \in (L + 1)..T PROVE Ceiling(T, vs, t) >= Full /\ (t = T => Ceiling(T, vs, t) = Full)
  <2>0. t \in Nat /\ t > L
    OBVIOUS
  <2>1. Since(vs, t) = 0
    BY <2>0, SinceNone
  <2>2. T - t \in Nat
    OBVIOUS
  <2>3. (T - t) * Rate \in Nat /\ (t = T => (T - t) * Rate = 0)
    BY <1>0, <2>2
  <2>4. 0 * Grain = 0
    BY <1>0
  <2> DEFINE u == (T - t) * Rate
  <2> HIDE DEF u
  <2>5. u \in Nat /\ (t = T => u = 0)
    BY <2>3 DEF u
  <2>6. Ceiling(T, vs, t) = (Full + u) - 0
    BY <2>1, <2>4 DEF Ceiling, u
  <2> QED
    BY <1>0, <2>5, <2>6
<1>4. \A t \in 0..L : Ceiling(L, vs, t) \in Int
  BY CeilingType
<1> HIDE DEF y, Full
<1>5. x = (IF n + y > Full THEN Full ELSE n + y) /\ Full \in Nat /\ n <= Full
  BY <1>0 DEF y, Full
<1>6. x \in Nat /\ x <= Full /\ x <= n + y
  BY <1>1, <1>5
<1>7. ASSUME NEW t \in 0..T PROVE x <= Ceiling(T, vs, t)
  <2>1. CASE t \in 0..L
    <3>1. n <= Ceiling(L, vs, t)
      BY <2>1 DEF Exact
    <3> QED
      BY <1>1, <1>2, <1>4, <1>6, <2>1, <3>1
  <2>2. CASE t \in (L + 1)..T
    <3>1. Ceiling(T, vs, t) \in Int
      BY CeilingType
    <3> QED
      BY <1>3, <1>5, <1>6, <2>2, <3>1
  <2> QED
    BY <2>1, <2>2
<1>8. \E t \in 0..T : x = Ceiling(T, vs, t)
  <2>1. CASE n + y > Full
    <3>1. T # L
      <4> SUFFICES ASSUME T = L PROVE FALSE
        OBVIOUS
      <4>1. y = 0
        BY <1>0 DEF y
      <4> QED
        BY <1>5, <2>1, <4>1
    <3>2. T \in (L + 1)..T
      BY <3>1
    <3> QED
      BY <1>3, <1>5, <2>1, <3>2
  <2>2. CASE ~ (n + y > Full)
    <3>1. PICK t \in 0..L : n = Ceiling(L, vs, t)
      BY DEF Exact
    <3>2. t \in 0..T /\ x = Ceiling(T, vs, t)
      BY <1>2, <1>5, <2>2, <3>1
    <3> QED
      BY <3>2
  <2> QED
    BY <2>1, <2>2
<1> QED
  BY <1>6, <1>7, <1>8 DEF Exact

(* One more request let through counts in every interval up to now.        *)
LEMMA SinceAppend ==
    ASSUME NEW vs \in Seq(Verdict), NEW T \in 0..MaxNow, NEW ok \in BOOLEAN, NEW t \in 0..T
    PROVE  Since(Append(vs, [at |-> T, ok |-> ok]), t) = IF ok THEN Since(vs, t) + 1 ELSE Since(vs, t)
<1> DEFINE v == [at |-> T, ok |-> ok]
           w == Append(vs, v)
           l == Len(vs)
           S == {h \in DOMAIN vs : vs[h].ok /\ vs[h].at >= t}
           R == {h \in DOMAIN w : w[h].ok /\ w[h].at >= t}
<1>0. v \in Verdict /\ v.at = T /\ v.ok = ok
  BY DEF Verdict
<1> HIDE DEF v
<1>1. /\ l \in Nat /\ DOMAIN vs = 1..l /\ DOMAIN w = 1..(l + 1)
      /\ \A h \in 1..l : w[h] = vs[h]
      /\ w[l + 1] = v
  BY <1>0, AppendProperties, LenProperties
<1> HIDE DEF w, l
<1>2. T >= t
  BY LimiterAssumption
<1>3. l + 1 \notin S /\ IsFiniteSet(S)
  <2>1. l + 1 \notin 1..l
    BY <1>1
  <2>2. S \subseteq 1..l
    BY <1>1
  <2>3. IsFiniteSet(S)
    BY SinceType, Zenon
  <2> QED
    BY <2>1, <2>2, <2>3
<1>4. CASE ok
  <2>1. R = S \cup {l + 1}
    <3>1. \A h \in 1..(l + 1) : h \in 1..l \/ h = l + 1
      BY <1>1
    <3>2. 1..l \subseteq 1..(l + 1) /\ l + 1 \in 1..(l + 1)
      BY <1>1
    <3> QED
      BY <1>0, <1>1, <1>2, <1>4, <3>1, <3>2, Zenon
  <2>2. Cardinality(R) = Cardinality(S) + 1
    BY <1>3, <2>1, FS_AddElement, Zenon
  <2> QED
    BY <1>4, <2>2, Zenon DEF Since, w, v
<1>5. CASE ~ ok
  <2>1. R = S
    <3>1. \A h \in 1..(l + 1) : h \in 1..l \/ h = l + 1
      BY <1>1
    <3>2. 1..l \subseteq 1..(l + 1)
      BY <1>1
    <3> QED
      BY <1>0, <1>1, <1>5, <3>1, <3>2
  <2> QED
    BY <1>5, <2>1, Zenon DEF Since, w, v
<1> QED
  BY <1>4, <1>5

(* A charge keeps a bucket exact: it lowers every interval by a token.     *)
LEMMA ChargeExact ==
    ASSUME NEW vs \in Seq(Verdict), NEW T \in 0..MaxNow, NEW ok \in BOOLEAN, NEW x \in Nat,
           Exact(x, T, vs)
    PROVE  Exact(IF ok THEN x - Grain ELSE x, T, Append(vs, [at |-> T, ok |-> ok]))
<1> DEFINE w == Append(vs, [at |-> T, ok |-> ok])
           n == IF ok THEN x - Grain ELSE x
<1>0. T \in Nat /\ Grain \in Nat /\ Burst * Grain \in Nat
  BY LimiterAssumption
<1>1. ASSUME NEW t \in 0..T
      PROVE  Ceiling(T, w, t) = IF ok THEN Ceiling(T, vs, t) - Grain ELSE Ceiling(T, vs, t)
  <2>1. Since(w, t) = IF ok THEN Since(vs, t) + 1 ELSE Since(vs, t)
    BY SinceAppend
  <2> DEFINE a == Burst * Grain + (T - t) * Rate
             s == Since(vs, t)
  <2>2. s \in Nat /\ a \in Int
    <3>1. t \in Nat /\ (T - t) * Rate \in Int
      BY <1>0, CeilingType
    <3> DEFINE u == (T - t) * Rate
    <3> HIDE DEF u
    <3>2. Burst * Grain + u \in Int
      BY <1>0, <3>1 DEF u
    <3> QED
      BY <3>2, SinceType, Zenon DEF u
  <2>3. (s + 1) * Grain = s * Grain + Grain /\ s * Grain \in Nat
    BY <1>0, <2>2
  <2>4. Ceiling(T, w, t) = a - Since(w, t) * Grain /\ Ceiling(T, vs, t) = a - s * Grain
    BY Zenon DEF Ceiling
  <2> HIDE DEF a, s, w
  <2>5. CASE ok
    <3>1. Ceiling(T, w, t) = a - (s * Grain + Grain)
      BY <2>1, <2>3, <2>4, <2>5 DEF s
    <3> DEFINE c == s * Grain
    <3> HIDE DEF c
    <3>2. c \in Nat /\ a - (c + Grain) = (a - c) - Grain
      BY <1>0, <2>2, <2>3 DEF c
    <3> QED
      BY <2>4, <2>5, <3>1, <3>2 DEF c
  <2>6. CASE ~ ok
    BY <2>1, <2>4, <2>6 DEF s
  <2> QED
    BY <2>5, <2>6
<1>2. \A t \in 0..T : Ceiling(T, vs, t) \in Int
  BY <1>0, CeilingType
<1> HIDE DEF w
<1>3. \A t \in 0..T : n <= Ceiling(T, w, t)
  BY <1>0, <1>1, <1>2 DEF Exact
<1>4. \E t \in 0..T : n = Ceiling(T, w, t)
  BY <1>0, <1>1, <1>2 DEF Exact
<1> QED
  BY <1>3, <1>4 DEF Exact, w

(* An exact bucket holds a token if and only if every interval has room    *)
(* for one more request.                                                   *)
LEMMA VerdictExact ==
    ASSUME NEW vs \in Seq(Verdict), NEW T \in 0..MaxNow, NEW x \in Nat, Exact(x, T, vs)
    PROVE  x >= Grain <=>
              \A t \in 0..T : (Since(vs, t) + 1) * Grain <= Burst * Grain + (T - t) * Rate
<1>0. T \in Nat /\ Grain \in Nat /\ Burst * Grain \in Nat
  BY LimiterAssumption
<1>1. ASSUME NEW t \in 0..T
      PROVE  (Since(vs, t) + 1) * Grain <= Burst * Grain + (T - t) * Rate <=> Grain <= Ceiling(T, vs, t)
  <2> DEFINE b == Burst * Grain
             u == (T - t) * Rate
             s == Since(vs, t)
             c == s * Grain
  <2>1. t \in Nat
    OBVIOUS
  <2>2. b \in Nat /\ u \in Int /\ s \in Nat /\ c \in Nat
    BY <1>0, <2>1, CeilingType, SinceType, Zenon
  <2> HIDE DEF s
  <2>3. (s + 1) * Grain = c + Grain
    BY <1>0, <2>2
  <2>4. Ceiling(T, vs, t) = (b + u) - c
    BY Zenon DEF Ceiling, s
  <2> HIDE DEF b, u, c
  <2>5. c + Grain <= b + u <=> Grain <= (b + u) - c
    BY <1>0, <2>2
  <2> QED
    BY <2>3, <2>4, <2>5 DEF s, b, u
<1>2. \A t \in 0..T : Ceiling(T, vs, t) \in Int
  BY <1>0, CeilingType
<1>3. x >= Grain => \A t \in 0..T : Grain <= Ceiling(T, vs, t)
  BY <1>0, <1>2 DEF Exact
<1>4. (\A t \in 0..T : Grain <= Ceiling(T, vs, t)) => x >= Grain
  BY <1>0, <1>2 DEF Exact
<1> QED
  BY <1>1, <1>3, <1>4

(* The verdicts of an address and the bucket they left behind: every one   *)
(* is right, none is later than the bucket's last refill, and the bucket   *)
(* is exact.                                                               *)
Account(k, p, b, vs) ==
    /\ \A i \in DOMAIN vs : Rightly(vs, i)
    /\ p = NoBucket => vs = <<>>
    /\ p # NoBucket => /\ Address[p] = k
                       /\ Exact(b[p].tokens, b[p].last, vs)
                       /\ \A h \in DOMAIN vs : vs[h].at <= b[p].last

(* Every address has its account, and a request that holds a bucket holds  *)
(* the one of its address.                                                 *)
LimiterInv ==
    /\ \A k \in Addresses : Account(k, buckets[k], bucket, verdicts[k])
    /\ \A q \in Req : held[q] # NoBucket => held[q] = buckets[Address[q]]

(* Later verdicts do not touch earlier ones, and the last one is right     *)
(* when it agrees with the intervals that end in it.                       *)
LEMMA RightlyAppend ==
    ASSUME NEW vs \in Seq(Verdict), NEW T \in 0..MaxNow, NEW ok \in BOOLEAN,
           \A i \in DOMAIN vs : Rightly(vs, i),
           ok <=> \A t \in 0..T : (Since(vs, t) + 1) * Grain <= Burst * Grain + (T - t) * Rate
    PROVE  \A i \in DOMAIN Append(vs, [at |-> T, ok |-> ok]) : Rightly(Append(vs, [at |-> T, ok |-> ok]), i)
<1> DEFINE v == [at |-> T, ok |-> ok]
           w == Append(vs, v)
           l == Len(vs)
<1>0. v \in Verdict /\ v.at = T /\ v.ok = ok
  BY DEF Verdict
<1> HIDE DEF v
<1>1. /\ l \in Nat /\ DOMAIN vs = 1..l /\ DOMAIN w = 1..(l + 1)
      /\ \A h \in 1..l : w[h] = vs[h]
      /\ w[l + 1] = v
  BY <1>0, AppendProperties, LenProperties
<1> HIDE DEF w, l
<1>2. ASSUME NEW i \in 1..(l + 1), NEW t
      PROVE  {h \in 1..(i - 1) : w[h].ok /\ w[h].at >= t} = {h \in 1..(i - 1) : vs[h].ok /\ vs[h].at >= t}
  <2>1. \A h \in 1..(i - 1) : w[h] = vs[h]
    BY <1>1
  <2> QED
    BY <2>1
<1>3. ASSUME NEW i \in 1..l PROVE Rightly(w, i)
  <2>1. Rightly(vs, i) /\ w[i] = vs[i] /\ i \in 1..(l + 1)
    BY <1>1
  <2> QED
    BY <1>2, <2>1, Zenon DEF Rightly
<1>4. Rightly(w, l + 1)
  <2>1. l + 1 \in 1..(l + 1) /\ (l + 1) - 1 = l
    BY <1>1
  <2>2. \A t : Cardinality({h \in 1..((l + 1) - 1) : w[h].ok /\ w[h].at >= t}) = Since(vs, t)
    BY <1>1, <1>2, <2>1, Zenon DEF Since
  <2>3. w[l + 1].at = T /\ w[l + 1].ok = ok
    BY <1>0, <1>1
  <2> QED
    BY <2>2, <2>3, Zenon DEF Rightly
<1>5. \A i \in 1..(l + 1) : i \in 1..l \/ i = l + 1
  BY <1>1
<1> QED
  BY <1>1, <1>3, <1>4, <1>5 DEF w, v

(* tokenBucket.allow keeps the account of the address.                     *)
LEMMA AllowExact ==
    ASSUME LimiterTypeOK, Past, LimiterInv, NEW q \in Req, NEW ok \in BOOLEAN, Allow(q, ok)
    PROVE  LimiterInv'
<1> DEFINE k == Address[q]
           p == held[q]
           b == bucket[p]
           x == Refill(b)
           vs == verdicts[k]
           v == [at |-> now, ok |-> ok]
           n == IF ok THEN x - Grain ELSE x
<1>1. k \in Addresses /\ p \in Req /\ p = buckets[k] /\ p # NoBucket
  BY Zenon DEF Addresses, Allow, LimiterTypeOK, LimiterInv
<1>2. vs \in Seq(Verdict) /\ now \in 0..MaxNow
  BY <1>1, Zenon DEF LimiterTypeOK, Verdict
<1>3. /\ b.tokens \in 0..Burst * Grain /\ b.last \in 0..MaxNow /\ b.last <= now
  BY <1>1 DEF LimiterTypeOK, Past
<1>4. Account(k, p, bucket, vs)
  BY <1>1 DEF LimiterInv
<1>5. x \in Nat /\ Exact(x, now, vs)
  <2>1. b.tokens \in Nat /\ b.tokens <= Burst * Grain /\ b.last \in Nat /\ now \in Nat
    <3>1. Burst * Grain \in Nat /\ MaxNow \in Nat
      BY LimiterAssumption
    <3> DEFINE F == Burst * Grain
    <3> HIDE DEF F
    <3>2. F \in Nat /\ b.tokens \in 0..F
      BY <1>3, <3>1 DEF F
    <3>3. b.tokens \in Nat /\ b.tokens <= F
      BY <3>2
    <3> QED
      BY <1>2, <1>3, <3>1, <3>3 DEF F
  <2>2. x = IF b.tokens + (now - b.last) * Rate > Burst * Grain
            THEN Burst * Grain ELSE b.tokens + (now - b.last) * Rate
    BY DEF Refill
  <2>3. Exact(b.tokens, b.last, vs) /\ \A h \in DOMAIN vs : vs[h].at <= b.last
    BY <1>1, <1>4 DEF Account
  <2> HIDE DEF b, vs, x
  <2> QED
    BY <1>2, <1>3, <2>1, <2>2, <2>3, RefillExact, Zenon
<1>6. ok = (x >= Grain)
  BY DEF Allow
<1>7. /\ bucket' = [bucket EXCEPT ![p] = [tokens |-> n, last |-> now]]
      /\ held' = [held EXCEPT ![q] = NoBucket]
      /\ verdicts' = [verdicts EXCEPT ![k] = Append(vs, v)]
      /\ buckets' = buckets
  BY <1>1 DEF Allow, LimiterTypeOK
<1>8. \A r \in Req : held'[r] # NoBucket => held'[r] = buckets'[Address[r]]
  BY <1>7 DEF LimiterTypeOK, LimiterInv
<1>9. Account(k, p, bucket', Append(vs, v))
  <2> HIDE DEF k, p, b, x, vs, n
  <2>0. bucket'[p] = [tokens |-> n, last |-> now]
    BY <1>1, <1>7 DEF LimiterTypeOK
  <2>1. \A i \in DOMAIN Append(vs, v) : Rightly(Append(vs, v), i)
    <3>1. ok <=> \A t \in 0..now : (Since(vs, t) + 1) * Grain <= Burst * Grain + (now - t) * Rate
      BY <1>2, <1>5, <1>6, VerdictExact, Zenon
    <3>2. \A i \in DOMAIN vs : Rightly(vs, i)
      BY <1>4 DEF Account
    <3> QED
      BY <1>2, <3>1, <3>2, RightlyAppend
  <2>2. Exact(n, now, Append(vs, v))
    BY <1>2, <1>5, ChargeExact DEF n
  <2>3. \A h \in DOMAIN Append(vs, v) : Append(vs, v)[h].at <= now
    <3> DEFINE l == Len(vs)
    <3>1. v \in Verdict /\ v.at = now
      BY <1>2 DEF Verdict
    <3>2. /\ l \in Nat /\ DOMAIN vs = 1..l /\ DOMAIN Append(vs, v) = 1..(l + 1)
          /\ \A h \in 1..l : Append(vs, v)[h] = vs[h]
          /\ Append(vs, v)[l + 1] = v
      BY <1>2, <3>1, AppendProperties, LenProperties
    <3>3. ASSUME NEW h \in 1..l PROVE vs[h].at <= now
      <4>1. vs[h] \in Verdict
        BY <1>2, <3>2, ElementOfSeq
      <4>2. vs[h].at \in Nat /\ b.last \in Nat /\ now \in Nat
        BY <1>2, <1>3, <4>1, LimiterAssumption DEF Verdict
      <4>3. vs[h].at <= b.last
        BY <1>1, <1>4, <3>2 DEF Account, b
      <4> QED
        BY <1>3, <4>2, <4>3
    <3>4. now <= now /\ \A h \in 1..(l + 1) : h \in 1..l \/ h = l + 1
      BY <1>2, <3>2
    <3> HIDE DEF l, v
    <3> QED
      BY <3>1, <3>2, <3>3, <3>4
  <2>4. Address[p] = k
    BY <1>1, <1>4 DEF Account
  <2> HIDE DEF v
  <2> QED
    BY <1>1, <2>0, <2>1, <2>2, <2>3, <2>4 DEF Account
<1>10. ASSUME NEW a \in Addresses PROVE Account(a, buckets'[a], bucket', verdicts'[a])
  <2>1. CASE a = k
    <3>1. verdicts'[k] = Append(vs, v)
      BY <1>1, <1>7 DEF LimiterTypeOK
    <3> QED
      BY <1>1, <1>7, <1>9, <2>1, <3>1
  <2>2. CASE a # k
    <3>1. Account(a, buckets[a], bucket, verdicts[a]) /\ verdicts'[a] = verdicts[a] /\ Address[p] = k
      BY <1>1, <1>4, <1>7, <2>2, Zenon DEF LimiterInv, LimiterTypeOK, Account
    <3>2. buckets[a] # NoBucket => buckets[a] # p /\ buckets[a] \in Req
      BY <2>2, <3>1 DEF Account, LimiterTypeOK
    <3>3. buckets[a] # NoBucket => bucket'[buckets[a]] = bucket[buckets[a]]
      BY <1>7, <3>2, Zenon DEF LimiterTypeOK
    <3> QED
      BY <1>7, <3>1, <3>3, Zenon DEF Account
  <2> QED
    BY <2>1, <2>2
<1> QED
  BY <1>8, <1>10 DEF LimiterInv

(* Finding or inserting the bucket keeps the accounts: an address never    *)
(* gets a second bucket, and a new one is full, as no request of that      *)
(* address has been decided.                                               *)
LEMMA LookUpExact ==
    ASSUME LimiterTypeOK, LimiterInv, NEW q \in Req, LookUp(q)
    PROVE  LimiterInv'
<1> DEFINE k == Address[q]
<1>0. k \in Addresses /\ verdicts' = verdicts
  BY DEF Addresses, LookUp
<1>1. CASE buckets[k] = NoBucket
  <2>1. /\ buckets' = [buckets EXCEPT ![k] = q] /\ bucket' = [bucket EXCEPT ![q] = NewBucket]
        /\ held' = [held EXCEPT ![q] = q]
    BY <1>1 DEF LookUp, Insert
  <2>2. verdicts[k] = <<>> /\ \A i \in DOMAIN verdicts[k] : Rightly(verdicts[k], i)
    BY <1>0, <1>1 DEF LimiterInv, Account
  <2>3. \A r \in Req : held'[r] # NoBucket => held'[r] = buckets'[Address[r]]
    <3> SUFFICES ASSUME NEW r \in Req, held'[r] # NoBucket PROVE held'[r] = buckets'[Address[r]]
      OBVIOUS
    <3>1. Address[r] \in Addresses
      BY DEF Addresses
    <3>2. CASE r = q
      BY <1>0, <2>1, <3>2 DEF LimiterTypeOK
    <3>3. CASE r # q
      <4>1. held'[r] = held[r] /\ held[r] = buckets[Address[r]]
        BY <2>1, <3>3 DEF LimiterTypeOK, LimiterInv
      <4>2. Address[r] # k
        BY <1>1, <4>1
      <4> QED
        BY <2>1, <3>1, <4>1, <4>2 DEF LimiterTypeOK
    <3> QED
      BY <3>2, <3>3
  <2>4. Exact(Burst * Grain, now, <<>>)
    <3>1. now \in Nat /\ <<>> \in Seq(Verdict)
      BY LimiterAssumption DEF LimiterTypeOK
    <3>2. Burst * Grain \in Nat /\ Grain \in Nat /\ Rate \in Nat
      BY LimiterAssumption
    <3>3. ASSUME NEW t \in 0..now
          PROVE  Burst * Grain <= Ceiling(now, <<>>, t) /\ (t = now => Burst * Grain = Ceiling(now, <<>>, t))
      <4>1. Since(<<>>, t) = 0
        BY FS_EmptySet DEF Since
      <4>2. now - t \in Nat
        BY <3>1
      <4>3. (now - t) * Rate \in Nat /\ (t = now => (now - t) * Rate = 0) /\ 0 * Grain = 0
        BY <3>1, <3>2, <4>2
      <4> DEFINE u == (now - t) * Rate
      <4> HIDE DEF u
      <4>4. Ceiling(now, <<>>, t) = (Burst * Grain + u) - 0
        BY <4>1, <4>3 DEF Ceiling, u
      <4>5. u \in Nat /\ (t = now => u = 0)
        BY <4>3 DEF u
      <4> QED
        BY <3>2, <4>4, <4>5
    <3>4. now \in 0..now
      BY <3>1
    <3> QED
      BY <3>3, <3>4 DEF Exact
  <2>5. Account(k, q, bucket', verdicts'[k])
    <3>1. bucket'[q].tokens = Burst * Grain /\ bucket'[q].last = now
      BY <2>1 DEF LimiterTypeOK, NewBucket
    <3>2. q # NoBucket
      BY LimiterAssumption
    <3> QED
      BY <1>0, <2>2, <2>4, <3>1, <3>2 DEF Account
  <2>6. ASSUME NEW a \in Addresses PROVE Account(a, buckets'[a], bucket', verdicts'[a])
    <3>1. CASE a = k
      BY <1>0, <2>1, <2>5, <3>1 DEF LimiterTypeOK
    <3>2. CASE a # k
      <4>1. Account(a, buckets[a], bucket, verdicts[a]) /\ buckets'[a] = buckets[a]
        BY <1>0, <2>1, <3>2 DEF LimiterInv, LimiterTypeOK
      <4>2. buckets[a] # NoBucket => buckets[a] # q /\ buckets[a] \in Req
        BY <3>2, <4>1 DEF Account, LimiterTypeOK
      <4>3. buckets[a] # NoBucket => bucket'[buckets[a]] = bucket[buckets[a]]
        BY <2>1, <4>2 DEF LimiterTypeOK
      <4> QED
        BY <1>0, <4>1, <4>3, Zenon DEF Account
    <3> QED
      BY <3>1, <3>2
  <2> QED
    BY <2>3, <2>6, Zenon DEF LimiterInv
<1>2. CASE buckets[k] # NoBucket
  <2>1. held' = [held EXCEPT ![q] = buckets[k]] /\ UNCHANGED <<buckets, bucket>>
    BY <1>2 DEF LookUp, Found
  <2>2. \A r \in Req : held'[r] # NoBucket => held'[r] = buckets'[Address[r]]
    BY <2>1 DEF LimiterTypeOK, LimiterInv
  <2> QED
    BY <1>0, <2>1, <2>2 DEF LimiterInv
<1> QED
  BY <1>1, <1>2

-----------------------------------------------------------------------------
(* Counting jobs *)

(* What happens to the collection: its own steps, and the jobs moving.     *)
CountingStep == CollectorStep(signalled) \/ \E j \in Tracked : JobMoves(j)

(* What a move does.                                                       *)
LEMMA MoveEffect ==
    ASSUME CollectorTypeOK, NEW j \in Tracked, JobMoves(j)
    PROVE  /\ UNCHANGED <<sample, gauge, countFaults, began>>
           /\ \A k \in Tracked \ {j} : row'[k] = row[k]
           /\ row'[j] \in Statuses
           /\ backed' \in {backed, backed \cup {j}}
           /\ sample.step # 0 => j \in backed' \/ Rank[row[j]] <= Rank[row'[j]]
<1>1. /\ row \in [Tracked -> Statuses \cup {"absent"}]
      /\ "queued" \in Statuses
  BY DEF CollectorTypeOK, Statuses
<1>2. PICK s \in IF row[j] = "absent" THEN {"queued"} ELSE Statuses :
        /\ row' = [row EXCEPT ![j] = s]
        /\ backed' = IF sample.step # 0 /\ Rank[s] < Rank[row[j]] THEN backed \cup {j} ELSE backed
  BY Zenon DEF JobMoves
<1>3. s \in Statuses
  BY <1>1, <1>2
<1>4. row'[j] = s /\ \A k \in Tracked \ {j} : row'[k] = row[k]
  BY <1>1, <1>2
<1>5. Rank[s] \in Int /\ Rank[row[j]] \in Int
  BY <1>1, <1>3 DEF Rank, Statuses
<1>6. sample.step # 0 => j \in backed' \/ Rank[row[j]] <= Rank[s]
  BY <1>2, <1>5
<1>7. UNCHANGED <<sample, gauge, countFaults, began>>
  BY DEF JobMoves
<1>8. backed' \in {backed, backed \cup {j}}
  BY <1>2
<1> QED
  BY <1>3, <1>4, <1>6, <1>7, <1>8

(* Every count keeps the types of the collector.                           *)
LEMMA CollectorKept ==
    ASSUME CollectorTypeOK, CountingStep
    PROVE  CollectorTypeOK'
<1> DEFINE Counted == {"running", "scheduled", "queued"}
<1>0. /\ row \in [Tracked -> Statuses \cup {"absent"}]
      /\ sample \in [step : 0..10, counts : [Counted -> Counts]]
      /\ sample = Done(sample.step, sample.counts)
      /\ sample.step \in 0..10 /\ sample.counts \in [Counted -> Counts]
      /\ gauge \in [Statuses -> Counts] /\ moves \in 0..MaxMoves
      /\ countFaults \in 0..MaxCountFaults /\ MaxCountFaults \in Nat /\ MaxMoves \in Nat
      /\ began \subseteq Tracked /\ backed \subseteq Tracked
  BY CollectorAssumption DEF CollectorTypeOK, Counts, Done
<1>1. 0 \in Counts
  BY CollectorAssumption, FS_CardinalityType DEF Counts
<1>2. ASSUME NEW s, NEW n, CountByStatus(s, n, signalled) PROVE countFaults' \in 0..MaxCountFaults
  BY <1>0, <1>2 DEF CountByStatus
<1>3. CASE BeginSample(signalled)
  <2>1. sample' \in [step : 0..10, counts : [Counted -> Counts]]
    BY <1>1, <1>3 DEF BeginSample, Done, NoCounts
  <2>2. began' \subseteq Tracked /\ backed' \subseteq Tracked
    BY <1>3, Zenon DEF BeginSample
  <2> QED
    BY <1>0, <1>3, <2>1, <2>2 DEF BeginSample, CollectorTypeOK, Counts
<1>4. CASE CountForSnapshot(signalled)
  <2> DEFINE s == SnapshotOrder[sample.step]
  <2>1. sample.step \in 1..3 /\ s \in Counted
    BY <1>4 DEF CountForSnapshot, SnapshotOrder
  <2>2. PICK n \in Counts : /\ CountByStatus(s, n, signalled)
                            /\ sample' = Done(sample.step + 1, [sample.counts EXCEPT ![s] = n])
    BY <1>4 DEF CountForSnapshot
  <2> HIDE DEF s
  <2>3. [sample.counts EXCEPT ![s] = n] \in [Counted -> Counts]
    BY <1>0, <2>1
  <2>4. sample' \in [step : 0..10, counts : [Counted -> Counts]]
    BY <2>1, <2>2, <2>3 DEF Done
  <2>5. countFaults' \in 0..MaxCountFaults
    BY <1>2, <2>2
  <2> QED
    BY <1>0, <1>4, <2>4, <2>5 DEF CountForSnapshot, CollectorTypeOK, Counts
<1>5. CASE CountForGauge(signalled)
  <2> DEFINE s == GaugeOrder[sample.step - 3]
  <2>1. sample.step \in 4..10 /\ s \in Statuses
    BY <1>5 DEF CountForGauge, GaugeOrder, Statuses
  <2>2. PICK n \in Counts : CountByStatus(s, n, signalled) /\ gauge' = [gauge EXCEPT ![s] = n]
    BY <1>5, Zenon DEF CountForGauge
  <2> HIDE DEF s
  <2>3. gauge' \in [Statuses -> Counts]
    BY <1>0, <2>1, <2>2
  <2>4. sample' \in [step : 0..10, counts : [Counted -> Counts]]
    BY <1>0, <1>5, <2>1 DEF Done, CountForGauge
  <2>5. countFaults' \in 0..MaxCountFaults
    BY <1>2, <2>2
  <2> QED
    BY <1>0, <1>5, <2>3, <2>4, <2>5 DEF CountForGauge, CollectorTypeOK, Counts
<1>6. ASSUME NEW j \in Tracked, JobMoves(j) PROVE CollectorTypeOK'
  <2>0. "queued" \in Statuses
    BY DEF Statuses
  <2>1. PICK s \in Statuses : row' = [row EXCEPT ![j] = s]
    BY <1>6, <2>0, Zenon DEF JobMoves
  <2>2. row' \in [Tracked -> Statuses \cup {"absent"}]
    BY <1>0, <2>1
  <2>3. moves' \in 0..MaxMoves
    BY <1>0, <1>6 DEF JobMoves
  <2>4. UNCHANGED <<sample, gauge, countFaults, began>> /\ backed' \subseteq Tracked
    BY <1>0, <1>6, MoveEffect, Zenon
  <2> QED
    BY <1>0, <2>2, <2>3, <2>4 DEF CollectorTypeOK, Counts
<1> QED
  BY <1>3, <1>4, <1>5, <1>6 DEF CountingStep, CollectorStep

(* The jobs in a status; the jobs that have come as far as the i-th, or    *)
(* have been set back.                                                     *)
In(s) == {j \in Tracked : row[j] = s}

Ahead(i) == {j \in Tracked : Rank[row[j]] >= i} \cup backed

(* What has been counted so far is among the jobs past the statuses still  *)
(* to be counted; only those set back have been counted before.            *)
SnapshotInv ==
    /\ \A j \in backed : row[j] # "absent"
    /\ sample.step = 1 => sample.counts = NoCounts
    /\ sample.step = 2 => /\ sample.counts["running"] <= Cardinality(Ahead(3))
                          /\ sample.counts["scheduled"] = 0 /\ sample.counts["queued"] = 0
    /\ sample.step = 3 => /\ JobsRunning <= Cardinality(Ahead(2)) + Cardinality(backed)
                          /\ sample.counts["queued"] = 0
    /\ sample.step \notin 1..3 =>
          JobsRunning + JobsQueued <= Cardinality(Ahead(1)) + 2 * Cardinality(backed)

(* Sets of tracked jobs are finite.                                        *)
LEMMA InFinite ==
    ASSUME NEW S \in SUBSET Tracked
    PROVE  IsFiniteSet(S) /\ Cardinality(S) \in Nat
BY CollectorAssumption, FS_Subset, FS_CardinalityType

(* Their sizes.                                                            *)
LEMMA SizesType ==
    ASSUME CollectorTypeOK
    PROVE  /\ \A i : Ahead(i) \subseteq Tracked /\ Cardinality(Ahead(i)) \in Nat
           /\ \A s : In(s) \subseteq Tracked /\ Cardinality(In(s)) \in Nat
           /\ Cardinality(backed) \in Nat
<1>1. backed \subseteq Tracked
  BY DEF CollectorTypeOK
<1>2. \A i : Ahead(i) \subseteq Tracked
  BY <1>1, Zenon DEF Ahead
<1>3. \A s : In(s) \subseteq Tracked
  BY Zenon DEF In
<1> QED
  BY <1>1, <1>2, <1>3, InFinite

(* A status counted next: its jobs were not counted before, unless they    *)
(* were set back.                                                          *)
LEMMA AheadCounts ==
    ASSUME CollectorTypeOK, NEW i \in 1..3, NEW s \in {"queued", "scheduled", "running"}, Rank[s] = i
    PROVE  /\ Cardinality(Ahead(i + 1)) + Cardinality(In(s)) <=
                 Cardinality(Ahead(i)) + Cardinality(backed)
           /\ Cardinality(In(s)) <= Cardinality(Ahead(i))
<1> DEFINE A == Ahead(i + 1)
           B == In(s)
<1>0. /\ \A j \in Tracked : Rank[row[j]] \in Int
      /\ backed \subseteq Tracked
  BY DEF CollectorTypeOK, Rank, Statuses
<1>1. A \cup B \subseteq Ahead(i) /\ A \cap B \subseteq backed /\ B \subseteq Ahead(i)
  BY <1>0 DEF Ahead, In
<1>2. /\ Ahead(i) \subseteq Tracked /\ A \subseteq Tracked /\ B \subseteq Tracked
  BY SizesType
<1>3. IsFiniteSet(Ahead(i)) /\ IsFiniteSet(A) /\ IsFiniteSet(B) /\ IsFiniteSet(backed)
  BY <1>0, <1>2, InFinite
<1>4. /\ Cardinality(A) \in Nat /\ Cardinality(B) \in Nat /\ Cardinality(Ahead(i)) \in Nat
      /\ Cardinality(backed) \in Nat
  BY <1>3, FS_CardinalityType
<1> HIDE DEF A, B
<1>5. Cardinality(A \cup B) = Cardinality(A) + Cardinality(B) - Cardinality(A \cap B)
  BY <1>3, FS_Union
<1>6. /\ Cardinality(A \cup B) <= Cardinality(Ahead(i)) /\ Cardinality(B) <= Cardinality(Ahead(i))
      /\ Cardinality(A \cap B) <= Cardinality(backed)
  BY <1>1, <1>3, FS_Subset
<1>7. Cardinality(A \cap B) \in Nat /\ Cardinality(A \cup B) \in Nat
  BY <1>1, <1>3, FS_Subset, FS_CardinalityType
<1>8. Cardinality(A) + Cardinality(B) <= Cardinality(Ahead(i)) + Cardinality(backed)
  BY <1>4, <1>5, <1>6, <1>7
<1> QED
  BY <1>6, <1>8 DEF A, B

(* A move leaves no set of jobs ahead smaller.                             *)
LEMMA AheadGrows ==
    ASSUME CollectorTypeOK, CollectorTypeOK', NEW j \in Tracked, JobMoves(j), NEW i \in 1..3,
           sample.step # 0 \/ i = 1
    PROVE  /\ Cardinality(Ahead(i)) <= Cardinality(Ahead(i)')
           /\ Cardinality(backed) <= Cardinality(backed')
<1>1. /\ \A k \in Tracked : row[k] \in Statuses \cup {"absent"}
      /\ \A k \in Tracked : row'[k] \in Statuses \cup {"absent"}
      /\ backed \subseteq Tracked /\ backed' \subseteq Tracked
  BY DEF CollectorTypeOK
<1>2. /\ \A k \in Tracked \ {j} : row'[k] = row[k]
      /\ row'[j] \in Statuses /\ backed \subseteq backed'
      /\ sample.step # 0 => j \in backed' \/ Rank[row[j]] <= Rank[row'[j]]
  BY MoveEffect
<1>3. \A s \in Statuses \cup {"absent"} : Rank[s] \in Int /\ (s \in Statuses => Rank[s] >= 1)
  BY DEF Rank, Statuses
<1>4. j \in backed' \/ (Rank[row[j]] >= i => Rank[row'[j]] >= i)
  <2>1. Rank[row[j]] \in Int /\ Rank[row'[j]] \in Int /\ Rank[row'[j]] >= 1
    BY <1>1, <1>2, <1>3
  <2> QED
    BY <1>2, <2>1
<1>5. Ahead(i) \subseteq Ahead(i)' /\ Ahead(i)' \subseteq Tracked
  BY <1>1, <1>2, <1>4 DEF Ahead
<1>6. IsFiniteSet(Ahead(i)') /\ IsFiniteSet(backed')
  BY <1>1, <1>5, InFinite
<1> QED
  BY <1>2, <1>5, <1>6, FS_Subset

(* What a count that is kept tells.                                        *)
LEMMA CountEffect ==
    ASSUME CollectorTypeOK, CountForSnapshot(signalled)
    PROVE  /\ sample.step \in 1..3 /\ sample'.step = sample.step + 1
           /\ UNCHANGED <<row, gauge, began, backed>>
           /\ \E n \in Counts :
                 /\ n <= Cardinality(In(SnapshotOrder[sample.step]))
                 /\ sample'.counts = [sample.counts EXCEPT ![SnapshotOrder[sample.step]] = n]
<1>1. sample.step \in 1..3 /\ UNCHANGED <<row, gauge, began, backed>>
  BY DEF CountForSnapshot
<1> DEFINE s == SnapshotOrder[sample.step]
<1>2. PICK n \in Counts : /\ CountByStatus(s, n, signalled)
                          /\ sample' = Done(sample.step + 1, [sample.counts EXCEPT ![s] = n])
  BY DEF CountForSnapshot
<1> HIDE DEF s
<1>4. n <= Cardinality(In(s))
  <2>1. Cardinality(In(s)) \in Nat
    BY SizesType
  <2>2. n = Cardinality(In(s)) \/ n = 0
    BY <1>2 DEF CountByStatus, In
  <2> QED
    BY <2>1, <2>2
<1>5. sample'.step = sample.step + 1 /\ sample'.counts = [sample.counts EXCEPT ![s] = n]
  BY <1>2 DEF Done
<1> QED
  BY <1>1, <1>4, <1>5 DEF s

(* The counts for the snapshot.                                            *)
LEMMA SnapshotCounted ==
    ASSUME CollectorTypeOK, SnapshotInv, CountForSnapshot(signalled)
    PROVE  SnapshotInv'
<1>0. /\ sample.counts \in [{"running", "scheduled", "queued"} -> Counts]
      /\ Counts \subseteq Nat
  BY DEF CollectorTypeOK, Counts
<1> DEFINE r == sample.counts["running"]
           q == sample.counts["queued"]
           s == sample.counts["scheduled"]
           b == Cardinality(backed)
<1>01. r \in Nat /\ s \in Nat /\ q \in Nat
  BY <1>0, Zenon
<1>1. /\ sample.step \in 1..3 /\ sample'.step = sample.step + 1
      /\ row' = row /\ backed' = backed
  BY CountEffect
<1>2. PICK n \in Counts :
        /\ n <= Cardinality(In(SnapshotOrder[sample.step]))
        /\ sample'.counts = [sample.counts EXCEPT ![SnapshotOrder[sample.step]] = n]
  BY CountEffect
<1>3. /\ Ahead(1)' = Ahead(1) /\ Ahead(2)' = Ahead(2) /\ Ahead(3)' = Ahead(3)
      /\ \A j \in backed' : row'[j] # "absent"
  BY <1>1 DEF Ahead, SnapshotInv
<1>4. /\ Cardinality(Ahead(1)) \in Nat /\ Cardinality(Ahead(2)) \in Nat
      /\ Cardinality(Ahead(3)) \in Nat /\ n \in Nat /\ b \in Nat
      /\ \A x : Cardinality(In(x)) \in Nat
  BY <1>0, SizesType, Zenon
<1>5. CASE sample.step = 1
  <2>1. SnapshotOrder[sample.step] = "running" /\ r = 0 /\ s = 0 /\ q = 0
    BY <1>0, <1>5 DEF SnapshotOrder, SnapshotInv, NoCounts
  <2>2. /\ sample'.counts["running"] = n /\ sample'.counts["scheduled"] = 0
        /\ sample'.counts["queued"] = 0 /\ sample'.step = 2
    BY <1>0, <1>1, <1>2, <1>5, <2>1
  <2>3. Cardinality(In("running")) <= Cardinality(Ahead(3))
    BY AheadCounts DEF Rank
  <2>4. n <= Cardinality(Ahead(3))
    BY <1>2, <1>4, <2>1, <2>3
  <2>5. sample'.step # 1 /\ sample'.step # 3 /\ sample'.step \in 1..3
    BY <2>2
  <2> QED
    BY <1>3, <2>2, <2>4, <2>5, Zenon DEF SnapshotInv
<1>6. CASE sample.step = 2
  <2>1. /\ SnapshotOrder[sample.step] = "scheduled" /\ r <= Cardinality(Ahead(3))
        /\ s = 0 /\ q = 0
    BY <1>0, <1>6 DEF SnapshotOrder, SnapshotInv
  <2>2. /\ sample'.counts["running"] = r /\ sample'.counts["scheduled"] = n
        /\ sample'.counts["queued"] = 0 /\ sample'.step = 3
    BY <1>0, <1>1, <1>2, <1>6, <2>1
  <2>3. Cardinality(Ahead(2 + 1)) + Cardinality(In("scheduled")) <= Cardinality(Ahead(2)) + b
    BY AheadCounts DEF Rank
  <2>4. n <= Cardinality(In("scheduled")) /\ Cardinality(In("scheduled")) \in Nat
    BY <1>2, <1>4, <2>1
  <2>5. 2 + 1 = 3
    OBVIOUS
  <2> HIDE DEF r, b
  <2>6. r + n <= Cardinality(Ahead(2)) + b
    BY <1>01, <1>4, <2>1, <2>3, <2>4, <2>5
  <2>7. JobsRunning' <= Cardinality(Ahead(2))' + Cardinality(backed)'
    BY <1>1, <1>3, <2>2, <2>6, Zenon DEF JobsRunning, b
  <2>8. sample'.step # 1 /\ sample'.step # 2 /\ sample'.step \in 1..3
    BY <2>2
  <2> QED
    BY <1>3, <2>2, <2>7, <2>8, Zenon DEF SnapshotInv
<1>7. CASE sample.step = 3
  <2>1. /\ SnapshotOrder[sample.step] = "queued" /\ r + s <= Cardinality(Ahead(2)) + b
        /\ q = 0
    BY <1>0, <1>7 DEF SnapshotOrder, SnapshotInv, JobsRunning
  <2>2. /\ sample'.counts["running"] = r /\ sample'.counts["scheduled"] = s
        /\ sample'.counts["queued"] = n /\ sample'.step = 4
    BY <1>0, <1>1, <1>2, <1>7, <2>1
  <2>3. Cardinality(Ahead(1 + 1)) + Cardinality(In("queued")) <= Cardinality(Ahead(1)) + b
    BY AheadCounts DEF Rank
  <2>4. n <= Cardinality(In("queued")) /\ Cardinality(In("queued")) \in Nat
    BY <1>2, <1>4, <2>1, Zenon
  <2>5. 1 + 1 = 2
    OBVIOUS
  <2> HIDE DEF r, s, b
  <2>6. r + s + n <= Cardinality(Ahead(1)) + 2 * b
    BY <1>01, <1>4, <2>1, <2>3, <2>4, <2>5
  <2>7. JobsRunning' + JobsQueued' = r + s + n
    BY <2>2, Zenon DEF JobsRunning, JobsQueued
  <2>8. JobsRunning' + JobsQueued' <= Cardinality(Ahead(1))' + 2 * Cardinality(backed)'
    BY <1>1, <1>3, <2>6, <2>7, Zenon DEF b
  <2>9. sample'.step # 1 /\ sample'.step # 2 /\ sample'.step # 3
    BY <2>2
  <2> QED
    BY <1>3, <2>8, <2>9, Zenon DEF SnapshotInv
<1>8. sample.step = 1 \/ sample.step = 2 \/ sample.step = 3
  BY <1>1
<1> QED
  BY <1>5, <1>6, <1>7, <1>8, Zenon

(* A bound whose parts grow still holds.                                   *)
LEMMA BoundGrows ==
    ASSUME NEW z \in Nat, NEW a \in Nat, NEW b \in Nat, NEW c \in Nat, NEW d \in Nat,
           a <= c, b <= d
    PROVE  (z <= a + b => z <= c + d) /\ (z <= a + 2 * b => z <= c + 2 * d)
OBVIOUS

(* The snapshot counts no job twice that was not set back: otherwise it    *)
(* only moves away from the statuses still to be counted.                  *)
LEMMA SnapshotStep ==
    ASSUME CollectorTypeOK, CollectorTypeOK', SnapshotInv, CountingStep \/ UNCHANGED collection
    PROVE  SnapshotInv'
<1>1. CASE UNCHANGED collection
  BY <1>1 DEF collection, SnapshotInv, JobsRunning, JobsQueued, Ahead
<1>2. CASE BeginSample(signalled)
  <2>1. sample'.step = 1 /\ sample'.counts = NoCounts /\ backed' = {}
    BY <1>2 DEF BeginSample, Done
  <2> QED
    BY <2>1 DEF SnapshotInv
<1>3. CASE CountForSnapshot(signalled)
  BY <1>3, SnapshotCounted
<1>4. CASE CountForGauge(signalled)
  <2>1. /\ sample'.counts = sample.counts /\ sample'.step \notin 1..3 /\ sample.step \notin 1..3
        /\ row' = row /\ backed' = backed
    BY <1>4 DEF CountForGauge, Done
  <2>2. Ahead(1)' = Ahead(1)
    BY <2>1 DEF Ahead
  <2> QED
    BY <2>1, <2>2 DEF SnapshotInv, JobsRunning, JobsQueued
<1>5. ASSUME NEW j \in Tracked, JobMoves(j) PROVE SnapshotInv'
  <2>1. /\ sample' = sample /\ backed' \subseteq backed \cup {j}
        /\ \A k \in Tracked \ {j} : row'[k] = row[k] /\ row'[j] \in Statuses
    BY <1>5, MoveEffect
  <2>2. \A k \in backed' : row'[k] # "absent"
    <3>1. "absent" \notin Statuses /\ backed \subseteq Tracked
      BY DEF Statuses, CollectorTypeOK
    <3> QED
      BY <1>5, <2>1, <3>1, MoveEffect DEF SnapshotInv
  <2> DEFINE a3 == Cardinality(Ahead(3))
             a2 == Cardinality(Ahead(2))
             a1 == Cardinality(Ahead(1))
             b == Cardinality(backed)
             x == sample.counts["running"]
             y == JobsRunning
             z == JobsRunning + JobsQueued
  <2>3. a3 \in Nat /\ a2 \in Nat /\ a1 \in Nat /\ b \in Nat
    BY SizesType
  <2>4. a3' \in Nat /\ a2' \in Nat /\ a1' \in Nat /\ b' \in Nat
    <3>1. /\ Ahead(1)' \subseteq Tracked /\ Ahead(2)' \subseteq Tracked /\ Ahead(3)' \subseteq Tracked
          /\ backed' \subseteq Tracked
      BY DEF Ahead, CollectorTypeOK
    <3> QED
      BY <3>1, InFinite
  <2>5. /\ a1 <= a1' /\ b <= b'
        /\ sample.step # 0 => a3 <= a3' /\ a2 <= a2'
    BY <1>5, AheadGrows
  <2>6. /\ x \in Nat /\ y \in Nat /\ z \in Nat
    BY DEF CollectorTypeOK, JobsRunning, JobsQueued
  <2>7. JobsRunning' = JobsRunning /\ JobsQueued' = JobsQueued
    BY <2>1 DEF JobsRunning, JobsQueued
  <2> HIDE DEF a1, a2, a3, b, x, y, z
  <2>8. /\ z <= a1 + 2 * b => z <= a1' + 2 * b'
        /\ sample.step # 0 => (x <= a3 => x <= a3') /\ (y <= a2 + b => y <= a2' + b')
    <3>1. ASSUME z <= a1 + 2 * b PROVE z <= a1' + 2 * b'
      BY <2>3, <2>4, <2>5, <2>6, <3>1, BoundGrows, Zenon
    <3>2. ASSUME sample.step # 0, x <= a3 PROVE x <= a3'
      BY <2>3, <2>4, <2>5, <2>6, <3>2
    <3>3. ASSUME sample.step # 0, y <= a2 + b PROVE y <= a2' + b'
      BY <2>3, <2>4, <2>5, <2>6, <3>3, BoundGrows, Zenon
    <3> QED
      BY <3>1, <3>2, <3>3, Zenon
  <2> QED
    BY <2>1, <2>2, <2>7, <2>8 DEF SnapshotInv, a1, a2, a3, b, x, y, z
<1> QED
  BY <1>1, <1>2, <1>3, <1>4, <1>5, Zenon DEF CountingStep, CollectorStep

(* The statuses counted for the gauges so far, and what they add up to.    *)
Taken == IF sample.step = 0 THEN 7 ELSE IF sample.step <= 4 THEN 0 ELSE sample.step - 4

Part(i, k, s) == IF i >= k THEN gauge[s] ELSE 0

Partial(i) ==
    Part(i, 1, "queued") + Part(i, 2, "scheduled") + Part(i, 3, "running") + Part(i, 4, "completed")
        + Part(i, 5, "failed") + Part(i, 6, "cancelled") + Part(i, 7, "preempted")

(* The jobs of the sample that are past counting and were not set back.    *)
Passed(i) == {j \in began \ backed : Rank[row[j]] <= i}

(* Unless something went wrong, each of them was counted.                  *)
GaugeInv ==
    /\ \A j \in began : row[j] # "absent"
    /\ countFaults = 0 /\ ~ signalled => Cardinality(Passed(Taken)) <= Partial(Taken)

(* The sum so far is a number, and the jobs passed are finitely many.      *)
LEMMA GaugeTypes ==
    ASSUME CollectorTypeOK
    PROVE  /\ Taken \in 0..7
           /\ \A i \in 0..7 : Partial(i) \in Nat
           /\ \A i : Passed(i) \subseteq Tracked /\ Cardinality(Passed(i)) \in Nat
<1>1. Taken \in 0..7
  BY DEF CollectorTypeOK, Taken
<1>2. \A s \in Statuses : gauge[s] \in Nat
  BY DEF CollectorTypeOK
<1>3. \A i \in 0..7, k \in 1..7, s \in Statuses : Part(i, k, s) \in Nat
  BY <1>2 DEF Part
<1>4. \A i \in 0..7 : Partial(i) \in Nat
  <2> SUFFICES ASSUME NEW i \in 0..7 PROVE Partial(i) \in Nat
    OBVIOUS
  <2>1. /\ Part(i, 1, "queued") \in Nat /\ Part(i, 2, "scheduled") \in Nat
        /\ Part(i, 3, "running") \in Nat /\ Part(i, 4, "completed") \in Nat
        /\ Part(i, 5, "failed") \in Nat /\ Part(i, 6, "cancelled") \in Nat
        /\ Part(i, 7, "preempted") \in Nat
    BY <1>3 DEF Statuses
  <2> QED
    BY <2>1 DEF Partial
<1>5. \A i : Passed(i) \subseteq Tracked
  BY DEF Passed, CollectorTypeOK
<1> QED
  BY <1>1, <1>4, <1>5, InFinite

(* A count covers the jobs it passes.                                      *)
LEMMA PassedGrows ==
    ASSUME CollectorTypeOK, NEW i \in 0..6
    PROVE  Cardinality(Passed(i + 1)) <= Cardinality(Passed(i)) + Cardinality(In(GaugeOrder[i + 1]))
<1> DEFINE N == In(GaugeOrder[i + 1])
<1>1. ASSUME NEW s \in Statuses \cup {"absent"}
      PROVE  Rank[s] \in Int /\ (Rank[s] = i + 1 => s = GaugeOrder[i + 1])
  BY DEF Rank, Statuses, GaugeOrder
<1>2. Passed(i + 1) \subseteq Passed(i) \cup N
  <2> SUFFICES ASSUME NEW j \in Passed(i + 1) PROVE j \in Passed(i) \cup N
    OBVIOUS
  <2>1. /\ j \in began \ backed /\ j \in Tracked /\ Rank[row[j]] <= i + 1
        /\ row[j] \in Statuses \cup {"absent"}
    BY DEF Passed, CollectorTypeOK
  <2>2. Rank[row[j]] \in Int
    BY <1>1, <2>1
  <2>3. CASE Rank[row[j]] = i + 1
    BY <1>1, <2>1, <2>3 DEF In
  <2>4. CASE Rank[row[j]] # i + 1
    BY <2>1, <2>2, <2>4 DEF Passed
  <2> QED
    BY <2>3, <2>4
<1>3. N \subseteq Tracked /\ Passed(i) \subseteq Tracked
  BY GaugeTypes DEF In
<1>4. /\ IsFiniteSet(N) /\ Cardinality(N) \in Nat
      /\ IsFiniteSet(Passed(i)) /\ Cardinality(Passed(i)) \in Nat
      /\ Cardinality(Passed(i + 1)) \in Nat
  BY <1>3, InFinite, GaugeTypes
<1> HIDE DEF N
<1>5. /\ IsFiniteSet(Passed(i) \cup N)
      /\ Cardinality(Passed(i) \cup N) =
            Cardinality(Passed(i)) + Cardinality(N) - Cardinality(Passed(i) \cap N)
  BY <1>4, FS_Union
<1>6. Cardinality(Passed(i + 1)) <= Cardinality(Passed(i) \cup N)
  BY <1>2, <1>5, FS_Subset
<1>7. Cardinality(Passed(i) \cap N) \in Nat
  <2>1. IsFiniteSet(Passed(i) \cap N)
    BY <1>4, FS_Subset
  <2> QED
    BY <2>1, FS_CardinalityType
<1>8. Cardinality(Passed(i + 1)) <= Cardinality(Passed(i)) + Cardinality(N)
  BY <1>4, <1>5, <1>6, <1>7
<1> QED
  BY <1>8 DEF N

(* Writing the gauge of the next status adds to the sum.                   *)
LEMMA PartialGrows ==
    ASSUME CollectorTypeOK, CollectorTypeOK', NEW i \in 0..6, NEW n \in Nat,
           gauge' = [gauge EXCEPT ![GaugeOrder[i + 1]] = n]
    PROVE  Partial(i + 1)' = Partial(i) + n
<1>1. gauge \in [Statuses -> Nat]
  BY DEF CollectorTypeOK
<1>2. /\ gauge["queued"] \in Nat /\ gauge["scheduled"] \in Nat /\ gauge["running"] \in Nat
      /\ gauge["completed"] \in Nat /\ gauge["failed"] \in Nat /\ gauge["cancelled"] \in Nat
      /\ gauge["preempted"] \in Nat
  BY <1>1 DEF Statuses
<1>3. GaugeOrder[i + 1] \in Statuses
  BY DEF GaugeOrder, Statuses
<1>4. CASE i = 0
  <2>1. gauge'["queued"] = n
    BY <1>1, <1>3, <1>4 DEF GaugeOrder
  <2> QED
    BY <1>2, <1>4, <2>1 DEF Partial, Part
<1>5. CASE i = 1
  <2>1. gauge'["scheduled"] = n /\ gauge'["queued"] = gauge["queued"]
    BY <1>1, <1>3, <1>5 DEF GaugeOrder, Statuses
  <2> QED
    BY <1>2, <1>5, <2>1 DEF Partial, Part
<1>6. CASE i = 2
  <2>1. gauge'["running"] = n /\ gauge'["queued"] = gauge["queued"]
        /\ gauge'["scheduled"] = gauge["scheduled"]
    BY <1>1, <1>3, <1>6 DEF GaugeOrder, Statuses
  <2> QED
    BY <1>2, <1>6, <2>1 DEF Partial, Part
<1>7. CASE i = 3
  <2>1. gauge'["completed"] = n /\ gauge'["queued"] = gauge["queued"]
        /\ gauge'["scheduled"] = gauge["scheduled"] /\ gauge'["running"] = gauge["running"]
    BY <1>1, <1>3, <1>7 DEF GaugeOrder, Statuses
  <2> QED
    BY <1>2, <1>7, <2>1 DEF Partial, Part
<1>8. CASE i = 4
  <2>1. gauge'["failed"] = n /\ gauge'["queued"] = gauge["queued"]
        /\ gauge'["scheduled"] = gauge["scheduled"] /\ gauge'["running"] = gauge["running"]
        /\ gauge'["completed"] = gauge["completed"]
    BY <1>1, <1>3, <1>8 DEF GaugeOrder, Statuses
  <2> QED
    BY <1>2, <1>8, <2>1 DEF Partial, Part
<1>9. CASE i = 5
  <2>1. gauge'["cancelled"] = n /\ gauge'["queued"] = gauge["queued"]
        /\ gauge'["scheduled"] = gauge["scheduled"] /\ gauge'["running"] = gauge["running"]
        /\ gauge'["completed"] = gauge["completed"] /\ gauge'["failed"] = gauge["failed"]
    BY <1>1, <1>3, <1>9 DEF GaugeOrder, Statuses
  <2> QED
    BY <1>2, <1>9, <2>1 DEF Partial, Part
<1>10. CASE i = 6
  <2>1. gauge'["preempted"] = n /\ gauge'["queued"] = gauge["queued"]
        /\ gauge'["scheduled"] = gauge["scheduled"] /\ gauge'["running"] = gauge["running"]
        /\ gauge'["completed"] = gauge["completed"] /\ gauge'["failed"] = gauge["failed"]
        /\ gauge'["cancelled"] = gauge["cancelled"]
    BY <1>1, <1>3, <1>10 DEF GaugeOrder, Statuses
  <2> QED
    BY <1>2, <1>10, <2>1 DEF Partial, Part
<1> QED
  BY <1>4, <1>5, <1>6, <1>7, <1>8, <1>9, <1>10

(* A job that moves on was not passed before.                              *)
LEMMA PassedKept ==
    ASSUME CollectorTypeOK, NEW j \in Tracked, JobMoves(j), NEW i \in 0..7, sample.step # 0 \/ i = 7
    PROVE  Passed(i)' \subseteq Passed(i)
<1>1. /\ began' = began /\ began \subseteq Tracked /\ backed \subseteq backed'
      /\ \A k \in Tracked \ {j} : row'[k] = row[k]
      /\ row'[j] \in Statuses /\ row[j] \in Statuses \cup {"absent"}
      /\ sample.step # 0 => j \in backed' \/ Rank[row[j]] <= Rank[row'[j]]
  BY MoveEffect DEF CollectorTypeOK
<1>2. \A s \in Statuses \cup {"absent"} : Rank[s] \in Int /\ Rank[s] <= 7
  BY DEF Rank, Statuses
<1>3. j \in backed' \/ (Rank[row'[j]] <= i => Rank[row[j]] <= i)
  <2>1. Rank[row[j]] \in Int /\ Rank[row'[j]] \in Int /\ Rank[row[j]] <= 7
    BY <1>1, <1>2
  <2> QED
    BY <1>1, <2>1
<1> SUFFICES ASSUME NEW k \in Passed(i)' PROVE k \in Passed(i)
  OBVIOUS
<1>4. k \in began /\ k \in Tracked /\ k \notin backed' /\ k \notin backed /\ Rank[row'[k]] <= i
  BY <1>1 DEF Passed
<1>5. Rank[row[k]] <= i
  <2>1. CASE k = j
    BY <1>3, <1>4, <2>1
  <2>2. CASE k # j
    BY <1>1, <1>4, <2>2
  <2> QED
    BY <2>1, <2>2
<1> QED
  BY <1>4, <1>5 DEF Passed

(* What a count for a gauge does.                                          *)
LEMMA GaugeEffect ==
    ASSUME CollectorTypeOK, CountForGauge(signalled), countFaults' = 0, ~ signalled
    PROVE  /\ Taken \in 0..6 /\ Taken' = Taken + 1 /\ countFaults = 0
           /\ UNCHANGED <<row, began, backed>>
           /\ gauge' = [gauge EXCEPT ![GaugeOrder[Taken + 1]] = Cardinality(In(GaugeOrder[Taken + 1]))]
<1>1. /\ sample.step \in 4..10 /\ countFaults \in Nat /\ UNCHANGED <<row, began, backed>>
  BY DEF CountForGauge, CollectorTypeOK
<1> DEFINE s == GaugeOrder[sample.step - 3]
<1>2. PICK n \in Counts : CountByStatus(s, n, signalled) /\ gauge' = [gauge EXCEPT ![s] = n]
  BY Zenon DEF CountForGauge
<1>3. Taken \in 0..6 /\ sample.step - 3 = Taken + 1 /\ Taken = sample.step - 4
  BY <1>1 DEF Taken
<1>4. Taken' = Taken + 1
  <2>1. sample'.step = IF sample.step = 10 THEN 0 ELSE sample.step + 1
    BY DEF CountForGauge, Done
  <2> QED
    BY <1>1, <1>3, <2>1 DEF Taken
<1> HIDE DEF s
<1>5. n = Cardinality(In(s)) /\ countFaults = 0
  BY <1>1, <1>2 DEF CountByStatus, In
<1> QED
  BY <1>1, <1>2, <1>3, <1>4, <1>5, Zenon DEF s

(* No step passes a job of the sample that is not counted.                 *)
LEMMA GaugeStep ==
    ASSUME CollectorTypeOK, CollectorTypeOK', GaugeInv, CountingStep \/ UNCHANGED collection,
           ~ signalled' => ~ signalled
    PROVE  GaugeInv'
<1> DEFINE Fine == countFaults = 0 /\ ~ signalled
           Counted == Cardinality(Passed(Taken)) <= Partial(Taken)
<1>0. /\ \A j \in began : row[j] # "absent"
      /\ Fine => Counted
      /\ row \in [Tracked -> Statuses \cup {"absent"}] /\ began \subseteq Tracked
  BY DEF GaugeInv, CollectorTypeOK
<1>1. CASE UNCHANGED collection
  <2>1. UNCHANGED <<row, sample, gauge, countFaults, began, backed>>
    BY <1>1 DEF collection
  <2>2. Taken' = Taken
    BY <2>1, Zenon DEF Taken
  <2>3. Partial(Taken)' = Partial(Taken)
    BY <2>1, <2>2, Zenon DEF Partial, Part
  <2>4. Passed(Taken)' = Passed(Taken)
    BY <2>1, <2>2, Zenon DEF Passed
  <2>5. Fine' => Fine
    BY <2>1
  <2> HIDE DEF Taken, Partial, Passed, Fine
  <2>6. Fine' => Counted'
    BY <1>0, <2>1, <2>3, <2>4, <2>5, Zenon
  <2> QED
    BY <1>0, <2>1, <2>6, Zenon DEF GaugeInv, Fine
<1>2. CASE BeginSample(signalled)
  <2>1. began' = {j \in Tracked : row[j] # "absent"} /\ row' = row /\ sample'.step = 1
    BY <1>2 DEF BeginSample, Done
  <2>2. Taken' = 0
    BY <2>1 DEF Taken
  <2>3. Passed(0)' = {}
    <3>1. \A s \in Statuses : ~ (Rank[s] <= 0)
      BY DEF Rank, Statuses
    <3>2. \A j \in began' : row'[j] \in Statuses
      BY <1>0, <2>1
    <3> QED
      BY <3>1, <3>2 DEF Passed
  <2>4. Partial(0)' = 0
    BY DEF Partial, Part
  <2>5. Cardinality({}) = 0
    BY FS_EmptySet
  <2>6. Counted'
    BY <2>2, <2>3, <2>4, <2>5
  <2> QED
    BY <2>1, <2>6 DEF GaugeInv
<1>3. CASE CountForSnapshot(signalled)
  <2>1. /\ sample.step \in 1..3 /\ sample'.step = sample.step + 1
        /\ UNCHANGED <<row, gauge, began, backed>>
    BY <1>3, CountEffect
  <2>2. Taken = 0 /\ Taken' = 0
    BY <2>1 DEF Taken
  <2>3. Passed(0)' = Passed(0) /\ Partial(0)' = Partial(0)
    BY <2>1 DEF Passed, Partial, Part
  <2>4. Counted' <=> Counted
    BY <2>1, <2>2, <2>3
  <2>5. countFaults' = 0 => countFaults = 0
    <3>1. countFaults' \in {countFaults, countFaults + 1} /\ countFaults \in Nat
      BY <1>3 DEF CountForSnapshot, CountByStatus, CollectorTypeOK
    <3> QED
      BY <3>1
  <2> QED
    BY <1>0, <2>1, <2>4, <2>5 DEF GaugeInv
<1>4. CASE CountForGauge(signalled)
  <2>0. row' = row /\ began' = began
    BY <1>4 DEF CountForGauge
  <2>1. ASSUME Fine' PROVE Counted'
    <3>0. countFaults' = 0 /\ ~ signalled
      BY <2>1
    <3>a. Taken \in 0..6
      BY <1>4, <3>0, GaugeEffect
    <3> PICK i \in 0..6 : i = Taken
      BY <3>a
    <3>c. PICK n \in Nat : n = Cardinality(In(GaugeOrder[i + 1]))
      BY SizesType
    <3>1. /\ i \in 0..6 /\ Taken' = i + 1 /\ countFaults = 0
          /\ UNCHANGED <<row, began, backed>> /\ gauge' = [gauge EXCEPT ![GaugeOrder[i + 1]] = n]
      BY <1>4, <3>0, <3>c, GaugeEffect
    <3>2. Counted
      BY <1>0, <2>1, <3>0, <3>1
    <3>3. Cardinality(Passed(i)) <= Partial(i)
      BY <3>2
    <3>4. Cardinality(Passed(i + 1)) <= Cardinality(Passed(i)) + n
      BY <3>1, <3>c, PassedGrows, Zenon
    <3>6. /\ Partial(i) \in Nat /\ Cardinality(Passed(i)) \in Nat
          /\ Cardinality(Passed(i + 1)) \in Nat
      <4>1. i \in 0..7
        BY <3>1
      <4> QED
        BY <4>1, GaugeTypes
    <3>7. Partial(i + 1)' = Partial(i) + n
      BY <3>1, PartialGrows, Zenon
    <3>8. Passed(i + 1)' = Passed(i + 1)
      BY <3>1 DEF Passed
    <3>9. Cardinality(Passed(i + 1)) <= Partial(i) + n
      BY <3>3, <3>4, <3>6
    <3> QED
      BY <3>1, <3>7, <3>8, <3>9
  <2> QED
    BY <1>0, <2>0, <2>1 DEF GaugeInv
<1>5. ASSUME NEW j \in Tracked, JobMoves(j) PROVE GaugeInv'
  <2>0. /\ began' = began /\ sample' = sample /\ gauge' = gauge /\ countFaults' = countFaults
        /\ \A k \in Tracked \ {j} : row'[k] = row[k]
        /\ row'[j] \in Statuses /\ "absent" \notin Statuses
    BY <1>5, MoveEffect DEF Statuses
  <2>1. \A k \in began' : row'[k] # "absent"
    BY <1>0, <2>0
  <2>2. ASSUME Fine' PROVE Counted'
    <3>1. Counted
      BY <1>0, <2>0, <2>2
    <3> PICK i \in 0..7 : i = Taken
      BY GaugeTypes
    <3>2. Taken' = i
      BY <2>0 DEF Taken
    <3>3. sample.step # 0 \/ i = 7
      BY DEF Taken
    <3>4. Passed(i)' \subseteq Passed(i)
      BY <1>5, <3>3, PassedKept
    <3>5. Partial(i)' = Partial(i)
      BY <2>0 DEF Partial, Part
    <3>6. /\ IsFiniteSet(Passed(i)) /\ Cardinality(Passed(i)) \in Nat /\ Partial(i) \in Nat
      BY GaugeTypes, InFinite
    <3>7. Cardinality(Passed(i)') <= Cardinality(Passed(i)) /\ Cardinality(Passed(i)') \in Nat
      BY <3>4, <3>6, FS_Subset, FS_CardinalityType
    <3>8. Cardinality(Passed(i)') <= Partial(i)
      BY <3>1, <3>6, <3>7
    <3> QED
      BY <3>2, <3>5, <3>8
  <2> QED
    BY <2>1, <2>2 DEF GaugeInv
<1> QED
  BY <1>1, <1>2, <1>3, <1>4, <1>5 DEF CountingStep, CollectorStep
=============================================================================
