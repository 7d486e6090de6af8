----------------------------- MODULE RateLimiter -----------------------------
(***************************************************************************)
(* The per-IP limiter in front of the credential endpoints: a map of token *)
(* buckets under a mutex, from which a sweep drops idle ones.              *)
(***************************************************************************)
EXTENDS Clock, Integers

CONSTANTS
    IPs,       \* source addresses
    Rate,      \* tokens a bucket gains per tick
    Burst,     \* its capacity
    MaxIdle,   \* how long an unused bucket is kept, and between two sweeps
    NoBucket

ASSUME RateAssumption == Rate \in Nat \ {0} /\ Burst \in Nat \ {0}

\* A bucket is full again by the time it may be dropped (10 minutes, against a
\* burst that main.go sets to one second's worth of the rate).
ASSUME IdleAssumption == MaxIdle \in Nat \ {0} /\ Burst <= Rate * MaxIdle

VARIABLES
    buckets,    \* LoginRateLimiter.buckets
    lastSweep,
    verdict,    \* the answer to the last request
    passed      \* history: the requests let through, by address

limVars == <<buckets, lastSweep, verdict, passed>>

\* tokens and last are the rate.Limiter's.
Bucket == [tokens : 0..Burst, last : Nat, lastSeen : Nat]

ASSUME NoBucketAssumption == NoBucket \notin Bucket

LimTypeOK ==
    /\ now \in Nat
    /\ buckets \in [IPs -> Bucket \cup {NoBucket}]
    /\ lastSweep \in Int
    /\ verdict \in {"none", "pass", "refuse"}
    /\ passed \in [IPs -> Nat]

\* The zero time of lastSweep lies further back than any MaxIdle.
LimInit ==
    /\ buckets = [ip \in IPs |-> NoBucket]
    /\ lastSweep = -MaxIdle
    /\ verdict = "none"
    /\ passed = [ip \in IPs |-> 0]

\* Mutant: a bucket is dropped one tick early.
SweptEarly ==
    IF now - lastSweep < MaxIdle THEN buckets
    ELSE [ip \in IPs |-> IF buckets[ip] # NoBucket
                            /\ now - buckets[ip].lastSeen >= MaxIdle - 1
                         THEN NoBucket ELSE buckets[ip]]

\* sweep: at most once per MaxIdle, buckets unused for that long go.
Swept ==
    IF now - lastSweep < MaxIdle THEN buckets
    ELSE [ip \in IPs |-> IF buckets[ip] # NoBucket
                            /\ now - buckets[ip].lastSeen >= MaxIdle
                         THEN NoBucket ELSE buckets[ip]]

Fresh == [tokens |-> Burst, last |-> now, lastSeen |-> now]

BucketOf(ip) == IF Swept[ip] = NoBucket THEN Fresh ELSE Swept[ip]

\* rate.Limiter.advance.
Tokens(b, t) ==
    LET filled == b.tokens + Rate * (t - b.last) IN
    IF filled > Burst THEN Burst ELSE filled

\* allow: a refused request leaves the rate.Limiter as it was, but the bucket
\* counts as seen.
Allow(ip) ==
    LET b == BucketOf(ip) IN
    /\ lastSweep' = IF now - lastSweep < MaxIdle THEN lastSweep ELSE now
    /\ IF Tokens(b, now) >= 1
       THEN /\ buckets' = [Swept EXCEPT ![ip] =
                 [tokens |-> Tokens(b, now) - 1, last |-> now, lastSeen |-> now]]
            /\ verdict' = "pass"
            /\ passed' = [passed EXCEPT ![ip] = @ + 1]
       ELSE /\ buckets' = [Swept EXCEPT ![ip] = [b EXCEPT !.lastSeen = now]]
            /\ verdict' = "refuse"
            /\ UNCHANGED passed

LimNext ==
    \/ Advance /\ UNCHANGED limVars
    \/ \E ip \in IPs : Allow(ip) /\ UNCHANGED now

LimSpec == now = 0 /\ LimInit /\ [][LimNext]_<<now, limVars>>

-----------------------------------------------------------------------------
(* Properties. *)

\* What a bucket holds at this moment, dropped or not.
Level(ip) ==
    IF buckets[ip] = NoBucket THEN Burst ELSE Tokens(buckets[ip], now)

Lossless == INSTANCE TokenBucket WITH
    level <- [ip \in IPs |-> Level(ip)]

\* "Dropping is lossless" (sweep): with its sweeps the limiter answers every
\* request as one that never forgets a bucket would.
SweepLosesNothing == Lossless!BucketSpec

\* However requests are spread over time and sweeps, an address gets through
\* at most burst plus rate times the elapsed time.
PassRateBounded == \A ip \in IPs : passed[ip] <= Burst + Rate * now

\* The strengthening: what was let through plus what is left never exceeds
\* what has been granted; buckets are never dated in the future.
LimInv ==
    /\ LimTypeOK
    /\ \A ip \in IPs :
         /\ buckets[ip] # NoBucket =>
              buckets[ip].last <= buckets[ip].lastSeen /\ buckets[ip].lastSeen <= now
         /\ passed[ip] + Level(ip) <= Burst + Rate * now
=============================================================================
