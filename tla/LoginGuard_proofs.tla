-------------------------- MODULE LoginGuard_proofs --------------------------
(***************************************************************************)
(* Proofs about the login guard: the rate limiter by itself and as an      *)
(* implementation of TokenBucket, the lockout, and the two together; for   *)
(* any rate, burst, threshold and durations, any number of addresses,      *)
(* accounts and requests.                                                  *)
(***************************************************************************)
EXTENDS LoginGuard, FiniteSetTheorems, TLAPS

-----------------------------------------------------------------------------
(* The rate limiter *)

\* Products with the rate, the only multiplications there are.
LEMMA RateTimes ==
    /\ \A d \in Nat : Rate * d \in Nat /\ Rate * (d + 1) = Rate * d + Rate
    /\ \A d \in Nat : d >= MaxIdle => Rate * d >= Burst
    /\ Rate * 0 = 0
<1>1. Rate \in Nat /\ Burst \in Nat /\ MaxIdle \in Nat
  BY RateAssumption, IdleAssumption
<1>2. \A d \in Nat : Rate * d \in Nat /\ Rate * (d + 1) = Rate * d + Rate
  BY <1>1
<1>3. ASSUME NEW d \in Nat, d >= MaxIdle
      PROVE  Rate * d >= Burst
  <2>1. d - MaxIdle \in Nat /\ d = MaxIdle + (d - MaxIdle)
    BY <1>1, <1>3
  <2>2. Rate * d = Rate * MaxIdle + Rate * (d - MaxIdle)
    BY <1>1, <2>1
  <2>3. Rate * (d - MaxIdle) \in Nat /\ Rate * MaxIdle \in Nat
    BY <1>1, <1>2, <2>1
  <2>. QED
    BY <1>1, <2>2, <2>3, IdleAssumption
<1>4. Rate * 0 = 0
  BY <1>1
<1>. QED
  BY <1>2, <1>3, <1>4

\* What rate.Limiter.advance computes, and how it grows.
LEMMA TokensFacts ==
    ASSUME NEW b \in Bucket, NEW t \in Nat, b.last <= t
    PROVE  /\ Tokens(b, t) \in 0..Burst
           /\ Tokens(b, t + 1) = IF Tokens(b, t) + Rate > Burst THEN Burst
                                 ELSE Tokens(b, t) + Rate
           /\ t - b.last >= MaxIdle => Tokens(b, t) = Burst
           /\ b.last = t => Tokens(b, t) = b.tokens
<1>1. /\ b.tokens \in 0..Burst /\ b.last \in Nat
      /\ Rate \in Nat /\ Burst \in Nat /\ MaxIdle \in Nat
  BY RateAssumption, IdleAssumption DEF Bucket
<1>2. PICK d \in Nat : d = t - b.last /\ (t + 1) - b.last = d + 1
  BY <1>1
<1>3. PICK x \in Nat : /\ x = Rate * d /\ Rate * (d + 1) = x + Rate
                       /\ d >= MaxIdle => x >= Burst
                       /\ d = 0 => x = 0
  BY RateTimes
<1>4. /\ Tokens(b, t) = IF b.tokens + x > Burst THEN Burst ELSE b.tokens + x
      /\ Tokens(b, t + 1) = IF b.tokens + (x + Rate) > Burst THEN Burst
                            ELSE b.tokens + (x + Rate)
  BY <1>2, <1>3 DEF Tokens
<1>5. ASSUME t - b.last >= MaxIdle
      PROVE  Tokens(b, t) = Burst
  <2>1. x >= Burst
    BY <1>2, <1>3, <1>5
  <2>2. b.tokens + x > Burst \/ b.tokens + x = Burst
    BY <1>1, <2>1
  <2>. QED
    BY <1>4, <2>2
<1>6. b.last = t => Tokens(b, t) = b.tokens
  BY <1>1, <1>2, <1>3, <1>4
<1>7. Tokens(b, t) \in 0..Burst
  BY <1>1, <1>3, <1>4
<1>8. Tokens(b, t + 1) = IF Tokens(b, t) + Rate > Burst THEN Burst
                         ELSE Tokens(b, t) + Rate
  <2>. HIDE DEF Tokens
  <2>. QED
    BY <1>1, <1>3, <1>4
<1>. QED
  BY <1>5, <1>6, <1>7, <1>8

LEMMA FreshFacts ==
    ASSUME now \in Nat
    PROVE  /\ Fresh \in Bucket /\ Fresh # NoBucket
           /\ Fresh.last = now /\ Fresh.lastSeen = now /\ Fresh.tokens = Burst
BY RateAssumption, NoBucketAssumption DEF Fresh, Bucket

\* A sweep drops only buckets that are full.
LEMMA SweptLevel ==
    ASSUME LimInv, NEW ip \in IPs
    PROVE  /\ Swept[ip] \in {buckets[ip], NoBucket}
           /\ Swept[ip] = NoBucket => Level(ip) = Burst
           /\ Level(ip) \in 0..Burst
           /\ buckets[ip] # NoBucket => buckets[ip] \in Bucket
<1>1. now \in Nat /\ buckets[ip] \in Bucket \cup {NoBucket} /\ Burst \in Nat
  BY RateAssumption DEF LimInv, LimTypeOK
<1>2. CASE buckets[ip] = NoBucket
  BY <1>1, <1>2 DEF Swept, Level
<1>3. CASE buckets[ip] # NoBucket
  <2>1. /\ buckets[ip] \in Bucket
        /\ buckets[ip].last <= buckets[ip].lastSeen /\ buckets[ip].lastSeen <= now
        /\ buckets[ip].last \in Nat /\ buckets[ip].lastSeen \in Nat
    BY <1>1, <1>3 DEF LimInv, Bucket
  <2>2. buckets[ip].last <= now
    BY <1>1, <2>1
  <2>3. Level(ip) = Tokens(buckets[ip], now) /\ Level(ip) \in 0..Burst
    BY <1>1, <1>3, <2>1, <2>2, TokensFacts DEF Level
  <2>4. now - buckets[ip].lastSeen >= MaxIdle => Level(ip) = Burst
    BY <1>1, <2>1, <2>2, <2>3, TokensFacts, IdleAssumption
  <2>. QED
    BY <1>3, <2>1, <2>3, <2>4 DEF Swept
<1>. QED
  BY <1>2, <1>3

\* The bucket a request finds or makes holds the level of its address.
LEMMA BucketOfFacts ==
    ASSUME LimInv, NEW ip \in IPs
    PROVE  /\ BucketOf(ip) \in Bucket /\ BucketOf(ip) # NoBucket
           /\ BucketOf(ip).last <= now
           /\ Tokens(BucketOf(ip), now) = Level(ip)
<1>1. now \in Nat
  BY DEF LimInv, LimTypeOK
<1>2. CASE Swept[ip] = NoBucket
  BY <1>1, <1>2, FreshFacts, SweptLevel, TokensFacts DEF BucketOf
<1>3. CASE Swept[ip] # NoBucket
  <2>1. BucketOf(ip) = buckets[ip] /\ buckets[ip] \in Bucket /\ buckets[ip] # NoBucket
    BY <1>3, SweptLevel DEF BucketOf
  <2>. QED
    BY <1>1, <2>1 DEF Level, LimInv, Bucket
<1>. QED
  BY <1>2, <1>3

\* One request as the abstract bucket sees it.
LEMMA AllowFacts ==
    ASSUME LimInv, NEW ip \in IPs, Allow(ip), UNCHANGED now
    PROVE  /\ \A j \in IPs \ {ip} : Level(j)' = Level(j)
           /\ \/ /\ Level(ip) >= 1 /\ Level(ip)' = Level(ip) - 1
                 /\ verdict' = "pass"
                 /\ passed' = [passed EXCEPT ![ip] = @ + 1]
              \/ /\ Level(ip) = 0 /\ Level(ip)' = 0
                 /\ verdict' = "refuse"
                 /\ passed' = passed
           /\ buckets' \in [IPs -> Bucket \cup {NoBucket}]
           /\ \A j \in IPs : buckets'[j] # NoBucket =>
                buckets'[j].last <= buckets'[j].lastSeen /\ buckets'[j].lastSeen <= now
<1>. DEFINE b == BucketOf(ip)
<1>1. /\ now \in Nat /\ Burst \in Nat /\ now' = now
      /\ b \in Bucket /\ b # NoBucket /\ b.last <= now
      /\ b.last \in Nat
      /\ Tokens(b, now) = Level(ip) /\ Level(ip) \in 0..Burst
  BY BucketOfFacts, SweptLevel, RateAssumption DEF LimInv, LimTypeOK, Bucket
<1>2. DOMAIN Swept = IPs
  BY DEF Swept, LimInv, LimTypeOK
<1>3. PICK c \in Bucket :
        /\ buckets' = [Swept EXCEPT ![ip] = c]
        /\ c.last <= now /\ c.lastSeen = now
        /\ \/ /\ Level(ip) >= 1 /\ Tokens(c, now) = Level(ip) - 1
              /\ verdict' = "pass"
              /\ passed' = [passed EXCEPT ![ip] = @ + 1]
           \/ /\ Level(ip) = 0 /\ Tokens(c, now) = 0
              /\ verdict' = "refuse"
              /\ passed' = passed
  <2>1. CASE Tokens(b, now) >= 1
    <3>. DEFINE d == [tokens |-> Tokens(b, now) - 1, last |-> now, lastSeen |-> now]
    <3>1. d \in Bucket /\ d.last = now /\ d.lastSeen = now /\ d.tokens = Level(ip) - 1
      BY <1>1, <2>1 DEF Bucket
    <3>2. Tokens(d, now) = Level(ip) - 1
      BY <1>1, <3>1, TokensFacts
    <3>3. /\ buckets' = [Swept EXCEPT ![ip] = d]
          /\ verdict' = "pass" /\ passed' = [passed EXCEPT ![ip] = @ + 1]
      BY <2>1 DEF Allow
    <3>4. Level(ip) >= 1 /\ d.last <= now
      BY <1>1, <2>1, <3>1
    <3>. HIDE DEF d, b
    <3>. d \in Bucket
      BY <3>1
    <3>. WITNESS d \in Bucket
    <3>. QED
      BY <1>1, <3>1, <3>2, <3>3, <3>4
  <2>2. CASE ~(Tokens(b, now) >= 1)
    <3>. DEFINE d == [b EXCEPT !.lastSeen = now]
    <3>1. /\ d \in Bucket /\ d.last = b.last /\ d.lastSeen = now
          /\ d.tokens = b.tokens
      BY <1>1 DEF Bucket
    <3>2. Tokens(d, now) = Tokens(b, now)
      BY <3>1 DEF Tokens
    <3>3. /\ buckets' = [Swept EXCEPT ![ip] = d]
          /\ verdict' = "refuse" /\ passed' = passed
      BY <2>2 DEF Allow
    <3>4. Level(ip) = 0 /\ d.last <= now
      BY <1>1, <2>2, <3>1
    <3>. HIDE DEF d, b
    <3>. d \in Bucket
      BY <3>1
    <3>. WITNESS d \in Bucket
    <3>. QED
      BY <1>1, <3>1, <3>2, <3>3, <3>4
  <2>. QED
    BY <2>1, <2>2
<1>4. /\ buckets'[ip] = c /\ c # NoBucket
      /\ \A j \in IPs \ {ip} : buckets'[j] = Swept[j]
      /\ buckets' \in [IPs -> Bucket \cup {NoBucket}]
  BY <1>2, <1>3, SweptLevel, NoBucketAssumption
<1>5. Level(ip)' = Tokens(c, now)
  BY <1>1, <1>4 DEF Level, Tokens
<1>6. ASSUME NEW j \in IPs \ {ip}
      PROVE  /\ Level(j)' = Level(j)
             /\ buckets'[j] # NoBucket =>
                  buckets'[j].last <= buckets'[j].lastSeen /\ buckets'[j].lastSeen <= now
  <2>1. Level(j)' = IF Swept[j] = NoBucket THEN Burst ELSE Tokens(Swept[j], now)
    BY <1>1, <1>4 DEF Level, Tokens
  <2>. QED
    BY <1>4, <2>1, SweptLevel DEF Level, LimInv
<1>7. c.last <= c.lastSeen /\ c.lastSeen <= now
  BY <1>1, <1>3
<1>. QED
  BY <1>1, <1>3, <1>4, <1>5, <1>6, <1>7

\* Time fills every bucket, or has nothing to fill.
LEMMA AdvanceLevel ==
    ASSUME LimInv, Advance, UNCHANGED limVars, NEW ip \in IPs
    PROVE  Level(ip)' = IF Level(ip) + Rate > Burst THEN Burst ELSE Level(ip) + Rate
<1>1. now \in Nat /\ now' = now + 1 /\ buckets' = buckets
  BY DEF LimInv, LimTypeOK, Advance, limVars
<1>2. CASE buckets[ip] = NoBucket
  BY <1>1, <1>2, RateAssumption DEF Level
<1>3. CASE buckets[ip] # NoBucket
  <2>1. buckets[ip] \in Bucket /\ buckets[ip].last <= now
    BY <1>1, <1>3 DEF LimInv, LimTypeOK, Bucket
  <2>2. Level(ip) = Tokens(buckets[ip], now) /\ Level(ip)' = Tokens(buckets[ip], now + 1)
    BY <1>1, <1>3 DEF Level, Tokens
  <2>. QED
    BY <1>1, <2>1, <2>2, TokensFacts
<1>. QED
  BY <1>2, <1>3

LEMMA LimInitInv == now = 0 /\ LimInit => LimInv
<1>. SUFFICES ASSUME now = 0, LimInit PROVE LimInv
  OBVIOUS
<1>1. Burst \in Nat /\ MaxIdle \in Nat /\ now \in Nat /\ Rate * now = 0
  BY RateAssumption, IdleAssumption, RateTimes
<1>2. \A ip \in IPs : Level(ip) = Burst /\ buckets[ip] = NoBucket /\ passed[ip] = 0
  BY DEF LimInit, Level
<1>3. LimTypeOK
  BY <1>1 DEF LimInit, LimTypeOK
<1>. QED
  BY <1>1, <1>2, <1>3 DEF LimInv

LEMMA LimNextInv == LimInv /\ [LimNext]_<<now, limVars>> => LimInv'
<1>. SUFFICES ASSUME LimInv, [LimNext]_<<now, limVars>> PROVE LimInv'
  OBVIOUS
<1>0. /\ now \in Nat /\ Rate \in Nat /\ Burst \in Nat /\ MaxIdle \in Nat
      /\ Rate * now \in Nat /\ Rate * (now + 1) = Rate * now + Rate
      /\ \A ip \in IPs : passed[ip] \in Nat /\ Level(ip) \in 0..Burst
  BY RateAssumption, IdleAssumption, RateTimes, SweptLevel DEF LimInv, LimTypeOK
<1>1. CASE Advance /\ UNCHANGED limVars
  <2>1. now' = now + 1 /\ now' \in Nat /\ UNCHANGED <<buckets, lastSweep, verdict, passed>>
    BY <1>0, <1>1 DEF Advance, limVars
  <2>2. LimTypeOK'
    BY <2>1 DEF LimInv, LimTypeOK
  <2>3. ASSUME NEW ip \in IPs
        PROVE  passed'[ip] + Level(ip)' <= Burst + Rate * now'
    <3>1. Level(ip)' \in Nat /\ Level(ip)' <= Level(ip) + Rate
      BY <1>0, <1>1, AdvanceLevel
    <3>2. passed[ip] + Level(ip) <= Burst + Rate * now
      BY DEF LimInv
    <3>. QED
      BY <1>0, <2>1, <3>1, <3>2
  <2>4. ASSUME NEW ip \in IPs, buckets'[ip] # NoBucket
        PROVE  buckets'[ip].last <= buckets'[ip].lastSeen /\ buckets'[ip].lastSeen <= now'
    <3>1. /\ buckets[ip].last <= buckets[ip].lastSeen /\ buckets[ip].lastSeen <= now
          /\ buckets[ip].lastSeen \in Nat
      BY <2>1, <2>4 DEF LimInv, LimTypeOK, Bucket
    <3>. QED
      BY <1>0, <2>1, <3>1
  <2>. QED
    BY <2>2, <2>3, <2>4 DEF LimInv
<1>2. ASSUME NEW ip \in IPs, Allow(ip), UNCHANGED now
      PROVE  LimInv'
  <2>1. lastSweep' \in Int
    BY <1>0, <1>2 DEF Allow, LimInv, LimTypeOK
  <2>2. LimTypeOK'
    BY <1>0, <1>2, <2>1, AllowFacts DEF LimInv, LimTypeOK
  <2>3. ASSUME NEW j \in IPs
        PROVE  passed'[j] + Level(j)' <= Burst + Rate * now'
    <3>1. passed[j] + Level(j) <= Burst + Rate * now
      BY DEF LimInv
    <3>2. passed \in [IPs -> Nat]
      BY DEF LimInv, LimTypeOK
    <3>3. CASE j = ip
      <4>1. \/ Level(ip)' = Level(ip) - 1 /\ passed'[ip] = passed[ip] + 1
            \/ Level(ip)' = Level(ip) /\ passed'[ip] = passed[ip]
        BY <1>2, <3>2, AllowFacts
      <4>. QED
        BY <1>0, <1>2, <3>1, <3>3, <4>1
    <3>4. CASE j # ip
      BY <1>2, <3>1, <3>2, <3>4, AllowFacts
    <3>. QED
      BY <3>3, <3>4
  <2>. QED
    BY <1>2, <2>2, <2>3, AllowFacts DEF LimInv
<1>3. CASE UNCHANGED <<now, limVars>>
  BY <1>3 DEF limVars, LimInv, LimTypeOK, Level, Tokens
<1>. QED
  BY <1>1, <1>2, <1>3 DEF LimNext

\* The limiter by itself keeps its accounts: what has passed and what is left
\* never exceed what was granted.
THEOREM LimiterSafe == LimSpec => []LimInv
BY LimInitInv, LimNextInv, PTL DEF LimSpec

\* Every answer of the sweeping limiter is one that buckets which are never
\* dropped give.
LEMMA StepRefines ==
    ASSUME LimInv, [LimNext]_<<now, limVars>>
    PROVE  [Lossless!BucketNext]_<<[ip \in IPs |-> Level(ip)], verdict>>
<1>. DEFINE lev == [ip \in IPs |-> Level(ip)]
<1>1. CASE Advance /\ UNCHANGED limVars
  <2>1. \A ip \in IPs :
           Level(ip)' = IF Level(ip) + Rate > Burst THEN Burst ELSE Level(ip) + Rate
    BY <1>1, AdvanceLevel
  <2>2. Lossless!Refill
    BY <1>1, <2>1 DEF Lossless!Refill, limVars
  <2>. QED
    BY <2>2 DEF Lossless!BucketNext
<1>2. ASSUME NEW ip \in IPs, Allow(ip), UNCHANGED now
      PROVE  Lossless!BucketNext
  <2>1. \A j \in IPs \ {ip} : Level(j)' = Level(j)
    BY <1>2, AllowFacts
  <2>2. CASE /\ Level(ip) >= 1 /\ Level(ip)' = Level(ip) - 1
             /\ verdict' = "pass"
    <3>1. Lossless!Take(ip)
      BY <2>1, <2>2 DEF Lossless!Take
    <3>. QED
      BY <3>1 DEF Lossless!BucketNext
  <2>3. CASE /\ Level(ip) = 0 /\ Level(ip)' = 0
             /\ verdict' = "refuse"
    <3>1. Lossless!Refuse(ip)
      BY <2>1, <2>3 DEF Lossless!Refuse
    <3>. QED
      BY <3>1 DEF Lossless!BucketNext
  <2>. QED
    BY <1>2, <2>2, <2>3, AllowFacts
<1>3. CASE UNCHANGED <<now, limVars>>
  BY <1>3 DEF limVars, Level, Tokens
<1>. QED
  BY <1>1, <1>2, <1>3 DEF LimNext

\* "Dropping is lossless" (sweep): the limiter implements token buckets that are
\* never forgotten.
THEOREM SweepIsLossless == LimSpec => SweepLosesNothing
<1>1. now = 0 /\ LimInit => Lossless!BucketInit
  BY DEF LimInit, Lossless!BucketInit, Level
<1>. QED
  BY <1>1, StepRefines, LimiterSafe, PTL DEF LimSpec, SweepLosesNothing, Lossless!BucketSpec

-----------------------------------------------------------------------------
(* The lockout.  LockInv in parts: what it says of a request and of a key. *)

RequestOK(r) == (reqs[r].step = "idle" <=> reqs[r].key = None) /\ reqs[r].at <= now

RowOK(k) ==
    rows[k] # None =>
        /\ rows[k].firstAt <= now
        /\ rows[k].lockedAt # None => rows[k].lockedAt <= now
        /\ rows[k].lockedAt = None => rows[k].failures < MaxFailures

ExcusedOK(k) ==
    InForce(k) =>
        /\ \A r \in Requests :
             reqs[r].key = k /\ reqs[r].step \in PastCheck => r \in excused[k]
        /\ rows[k].failures + Cardinality(excused[k])
             <= MaxFailures + Cardinality(Requests) - 1 + blind[k]

LEMMA LockInvParts ==
    LockInv <=> /\ LockTypeOK
                /\ \A r \in Requests : RequestOK(r)
                /\ \A k \in Keys : RowOK(k) /\ ExcusedOK(k)
BY DEF LockInv, RequestOK, RowOK, ExcusedOK

LEMMA LockInvPartsPrimed ==
    LockInv' <=> /\ LockTypeOK'
                 /\ \A r \in Requests : RequestOK(r)'
                 /\ \A k \in Keys : RowOK(k)' /\ ExcusedOK(k)'
BY DEF LockInv, RequestOK, RowOK, ExcusedOK

LEMMA RequestsSize ==
    Cardinality(Requests) \in Nat
BY RequestsAssumption, FS_CardinalityType

\* The size of a finite set before and after one element leaves or joins.
LEMMA SizeFacts ==
    ASSUME NEW S, IsFiniteSet(S), NEW x
    PROVE  /\ Cardinality(S) \in Nat
           /\ Cardinality(S \ {x}) \in Nat
           /\ Cardinality(S \ {x}) = IF x \in S THEN Cardinality(S) - 1 ELSE Cardinality(S)
           /\ Cardinality(S \cup {x}) = IF x \in S THEN Cardinality(S) ELSE Cardinality(S) + 1
<1>1. Cardinality(S) \in Nat
  BY FS_CardinalityType
<1>2. IsFiniteSet(S \ {x}) /\ (x \in S => Cardinality(S \ {x}) = Cardinality(S) - 1)
  BY FS_RemoveElement
<1>3. Cardinality(S \ {x}) \in Nat
  BY <1>2, FS_CardinalityType
<1>4. x \notin S => S \ {x} = S
  OBVIOUS
<1>5. x \notin S => Cardinality(S \cup {x}) = Cardinality(S) + 1
  BY FS_AddElement
<1>6. x \in S => S \cup {x} = S
  OBVIOUS
<1>7. Cardinality(S \ {x}) = IF x \in S THEN Cardinality(S) - 1 ELSE Cardinality(S)
  BY <1>2, <1>4, Zenon
<1>8. Cardinality(S \cup {x}) = IF x \in S THEN Cardinality(S) ELSE Cardinality(S) + 1
  BY <1>5, <1>6, Zenon
<1>. QED
  BY <1>1, <1>3, <1>7, <1>8

\* How many requests are excused.
LEMMA ExcusedSize ==
    ASSUME LockTypeOK, NEW k \in Keys, NEW r \in Requests
    PROVE  /\ Cardinality(excused[k]) \in Nat
           /\ Cardinality(excused[k] \ {r}) \in Nat
           /\ Cardinality(excused[k] \ {r}) <= Cardinality(excused[k])
           /\ r \in excused[k] =>
                Cardinality(excused[k] \ {r}) = Cardinality(excused[k]) - 1
           /\ Cardinality(excused[k] \cup {r}) \in Nat
           /\ Cardinality(excused[k] \cup {r}) <= Cardinality(excused[k]) + 1
<1>1. excused[k] \subseteq Requests
  BY DEF LockTypeOK
<1>2. IsFiniteSet(excused[k])
  BY <1>1, RequestsAssumption, FS_Subset
<1>. DEFINE c == Cardinality(excused[k])
            d == Cardinality(excused[k] \ {r})
            u == Cardinality(excused[k] \cup {r})
<1>3. /\ c \in Nat /\ d \in Nat
      /\ d = IF r \in excused[k] THEN c - 1 ELSE c
      /\ u = IF r \in excused[k] THEN c ELSE c + 1
  BY <1>2, SizeFacts
<1>. HIDE DEF c, d, u
<1>4. d <= c /\ (r \in excused[k] => d = c - 1) /\ u \in Nat /\ u <= c + 1
  BY <1>3
<1>. QED
  BY <1>3, <1>4 DEF c, d, u

\* The requests in flight beside r are fewer than all.
LEMMA InFlightSize ==
    ASSUME NEW k, NEW r \in Requests
    PROVE  /\ InFlight(k, r) \subseteq Requests
           /\ Cardinality(InFlight(k, r)) \in Nat
           /\ Cardinality(InFlight(k, r)) <= Cardinality(Requests) - 1
<1>1. InFlight(k, r) \subseteq Requests \ {r}
  BY DEF InFlight
<1>2. IsFiniteSet(Requests \ {r}) /\ Cardinality(Requests \ {r}) = Cardinality(Requests) - 1
  BY RequestsAssumption, FS_RemoveElement
<1>. QED
  BY <1>1, <1>2, FS_Subset, FS_CardinalityType

\* What the parts of a request that is under way are.
LEMMA RequestFacts ==
    ASSUME LockInv, NEW r \in Requests, reqs[r].step # "idle"
    PROVE  /\ reqs[r] \in Request /\ reqs[r].key \in Keys
           /\ reqs[r].at \in Nat /\ reqs[r].at <= now
           /\ rows[reqs[r].key] \in Row \cup {None}
           /\ now \in Nat
BY DEF LockInv, LockTypeOK, Request

LEMMA IdleFacts ==
    /\ Idle \in Request /\ Idle.step = "idle" /\ Idle.key = None /\ Idle.at = 0
    /\ "idle" \notin PastCheck /\ "check" \notin PastCheck
BY DEF Idle, Request, PastCheck

\* Going on after the check.
LEMMA ProceedFacts ==
    ASSUME NEW q \in Request, now \in Nat, q.at <= now
    PROVE  /\ Proceed(q) \in Request
           /\ Proceed(q).key = q.key
           /\ Proceed(q).step \in PastCheck /\ Proceed(q).step # "idle"
           /\ Proceed(q).at \in Nat /\ Proceed(q).at <= now
<1>1. /\ q.step \in {"idle", "check"} \cup PastCheck /\ q.key \in Keys \cup {None}
      /\ q.at \in Nat
      /\ "record" \in PastCheck /\ "validate" \in PastCheck
  BY DEF Request, PastCheck
<1>2. q = [step |-> q.step, key |-> q.key, at |-> q.at]
  BY DEF Request
<1>3. Proceed(q) \in {[step |-> "record", key |-> q.key, at |-> now],
                     [step |-> "validate", key |-> q.key, at |-> q.at]}
  BY <1>2 DEF Proceed
<1>. QED
  BY <1>1, <1>3 DEF Request

\* RecordFailure reads the clock.
LEMMA RecordFailureFacts ==
    ASSUME NEW q \in Request, now \in Nat
    PROVE  LET a == [q EXCEPT !.step = "record", !.at = now] IN
           a \in Request /\ a.key = q.key /\ a.step # "idle" /\ a.at <= now
<1>. DEFINE a == [q EXCEPT !.step = "record", !.at = now]
<1>1. DOMAIN q = {"step", "key", "at"} /\ q.key \in Keys \cup {None}
  BY DEF Request
<1>2. a.step = "record" /\ a.key = q.key /\ a.at = now
  BY <1>1
<1>3. a = [x \in {"step", "key", "at"} |->
             IF x = "at" THEN now ELSE IF x = "step" THEN "record" ELSE q[x]]
  BY <1>1
<1>4. a \in Request
  BY <1>1, <1>3 DEF Request, PastCheck
<1>. QED
  BY <1>2, <1>4

LEMMA BecomeFacts ==
    ASSUME LockTypeOK, NEW r \in Requests, NEW q \in Request, Become(r, q)
    PROVE  /\ reqs' \in [Requests -> Request]
           /\ reqs'[r] = q
           /\ \A s \in Requests \ {r} : reqs'[s] = reqs[s]
BY DEF LockTypeOK, Become

LEMMA FinishFacts ==
    ASSUME LockTypeOK, NEW r \in Requests, Finish(r)
    PROVE  /\ Become(r, Idle) /\ blind' = blind
           /\ excused' \in [Keys -> SUBSET Requests]
           /\ \A k \in Keys : excused'[k] = excused[k] \ {r}
BY DEF Finish, LockTypeOK

\* A step of one request leaves the keys of the others as they were.
LEMMA OtherKeys ==
    ASSUME LockInv, NEW r \in Requests, NEW q \in Request, Become(r, q),
           now' = now,
           NEW k \in Keys, q.key # k \/ q.step \notin PastCheck,
           rows'[k] = rows[k], blind'[k] = blind[k],
           excused'[k] \in {excused[k], excused[k] \ {r}}
    PROVE  RowOK(k)' /\ ExcusedOK(k)'
<1>1. RowOK(k)'
  BY LockInvParts DEF RowOK
<1>2. ASSUME InForce(k)'
      PROVE  /\ \A s \in Requests :
                  reqs'[s].key = k /\ reqs'[s].step \in PastCheck => s \in excused'[k]
             /\ rows'[k].failures + Cardinality(excused'[k])
                  <= MaxFailures + Cardinality(Requests) - 1 + blind'[k]
  <2>1. InForce(k) /\ ExcusedOK(k) /\ LockTypeOK
    BY <1>2, LockInvParts DEF InForce
  <2>2. rows[k] \in Row /\ rows[k].failures \in Nat /\ blind[k] \in Nat
    BY <2>1 DEF InForce, Locked, LockTypeOK, Row
  <2>3. /\ Cardinality(excused[k]) \in Nat
        /\ Cardinality(excused'[k]) \in Nat
        /\ Cardinality(excused'[k]) <= Cardinality(excused[k])
    <3>1. CASE excused'[k] = excused[k]
      <4>1. Cardinality(excused[k]) \in Nat
        BY <2>1, ExcusedSize
      <4>. QED
        BY <3>1, <4>1
    <3>2. CASE excused'[k] = excused[k] \ {r}
      BY <2>1, <3>2, ExcusedSize
    <3>. QED
      BY <3>1, <3>2
  <2>4. /\ reqs'[r] = q
        /\ \A s \in Requests \ {r} : reqs'[s] = reqs[s]
    BY <2>1, BecomeFacts
  <2>5. \A s \in Requests :
           reqs'[s].key = k /\ reqs'[s].step \in PastCheck => s # r /\ s \in excused[k]
    BY <2>1, <2>4 DEF ExcusedOK
  <2>. QED
    BY <2>1, <2>2, <2>3, <2>5, RequestsSize, LockoutAssumption DEF ExcusedOK
<1>. QED
  BY <1>1, <1>2 DEF ExcusedOK

\* A request goes on with its key, and passes no check that a lock would stop;
\* at most it deletes the row.
LEMMA GoesOn ==
    ASSUME LockInv, NEW r \in Requests, NEW q \in Request, Become(r, q),
           reqs[r].step # "idle", q.step # "idle", q.key = reqs[r].key, q.at <= now,
           q.step \in PastCheck => \/ reqs[r].step \in PastCheck
                                   \/ ~InForce(q.key),
           rows' \in {rows, [rows EXCEPT ![q.key] = None]},
           UNCHANGED <<now, excused, blind>>
    PROVE  LockInv'
<1>0. PICK k \in Keys : k = reqs[r].key
  BY RequestFacts
<1>1. LockTypeOK /\ q.key = k /\ now \in Nat
  BY <1>0, RequestFacts DEF LockInv
<1>2. /\ reqs' \in [Requests -> Request] /\ reqs'[r] = q
      /\ \A s \in Requests \ {r} : reqs'[s] = reqs[s]
  BY <1>1, BecomeFacts
<1>3. LockTypeOK'
  BY <1>1, <1>2 DEF LockTypeOK
<1>4. \A s \in Requests : RequestOK(s)'
  BY <1>1, <1>2, LockInvParts, KeysAssumption DEF RequestOK
<1>5. ASSUME NEW j \in Keys, j # k
      PROVE  RowOK(j)' /\ ExcusedOK(j)'
  BY <1>1, <1>5, OtherKeys DEF LockTypeOK
<1>6. RowOK(k)'
  <2>1. rows'[k] \in {rows[k], None}
    BY <1>1 DEF LockTypeOK
  <2>. QED
    BY <2>1, LockInvParts DEF RowOK
<1>7. ExcusedOK(k)'
  <2>1. CASE rows'[k] = None
    BY <2>1 DEF ExcusedOK, InForce, Locked
  <2>2. CASE rows'[k] = rows[k]
    <3>1. ExcusedOK(k)
      BY LockInvParts
    <3>2. InForce(k)' <=> InForce(k)
      BY <2>2 DEF InForce
    <3>3. q.step \in PastCheck => reqs[r].step \in PastCheck \/ ~InForce(k)
      BY <1>1
    <3>. QED
      BY <1>0, <1>1, <1>2, <2>2, <3>1, <3>2, <3>3 DEF ExcusedOK
  <2>. QED
    BY <1>1, <2>1, <2>2 DEF LockTypeOK
<1>. QED
  BY <1>3, <1>4, <1>5, <1>6, <1>7, LockInvPartsPrimed

\* A request ends; the row of its key stays, goes, or is without a lock.
LEMMA Ends ==
    ASSUME LockInv, NEW r \in Requests, reqs[r].step # "idle", Finish(r),
           NEW x \in Row \cup {None}, rows' = [rows EXCEPT ![reqs[r].key] = x],
           \/ x = rows[reqs[r].key]
           \/ x = None
           \/ x.lockedAt = None /\ x.failures < MaxFailures /\ x.firstAt <= now,
           UNCHANGED now
    PROVE  LockInv'
<1>0. PICK k \in Keys : k = reqs[r].key
  BY RequestFacts
<1>1. LockTypeOK /\ now \in Nat
  BY RequestFacts DEF LockInv
<1>2. /\ reqs' \in [Requests -> Request] /\ reqs'[r] = Idle
      /\ \A s \in Requests \ {r} : reqs'[s] = reqs[s]
  BY <1>1, FinishFacts, BecomeFacts, IdleFacts
<1>3. LockTypeOK'
  BY <1>1, <1>2, FinishFacts DEF LockTypeOK
<1>4. \A s \in Requests : RequestOK(s)'
  BY <1>1, <1>2, LockInvParts, IdleFacts DEF RequestOK
<1>5. ASSUME NEW j \in Keys, rows'[j] = rows[j]
      PROVE  RowOK(j)' /\ ExcusedOK(j)'
  BY <1>1, <1>5, OtherKeys, FinishFacts, IdleFacts, KeysAssumption DEF LockTypeOK
<1>6. \A j \in Keys : j # k => rows'[j] = rows[j]
  BY <1>0, <1>1 DEF LockTypeOK
<1>7. rows'[k] = x
  BY <1>0, <1>1 DEF LockTypeOK
<1>8. x = None => RowOK(k)' /\ ExcusedOK(k)'
  BY <1>7 DEF RowOK, ExcusedOK, InForce, Locked
<1>9. x.lockedAt = None /\ x.failures < MaxFailures /\ x.firstAt <= now
        => RowOK(k)' /\ ExcusedOK(k)'
  BY <1>7 DEF RowOK, ExcusedOK, InForce, Locked
<1>. QED
  BY <1>0, <1>3, <1>4, <1>5, <1>6, <1>7, <1>8, <1>9, LockInvPartsPrimed

LEMMA CheckInv ==
    ASSUME LockInv, NEW r \in Requests, Check(r), UNCHANGED now
    PROVE  LockInv'
<1>1. reqs[r].step = "check" /\ reqs[r].step # "idle"
  BY DEF Check
<1>2. PICK k \in Keys : k = reqs[r].key
  BY <1>1, RequestFacts
<1>3. /\ reqs[r] \in Request /\ reqs[r].at <= now /\ now \in Nat
      /\ rows[k] \in Row \cup {None} /\ rows \in [Keys -> Row \cup {None}]
  BY <1>1, <1>2, RequestFacts DEF LockInv, LockTypeOK
<1>4. CASE Locked(rows[k], now)
  <2>1. Finish(r) /\ rows' = [rows EXCEPT ![k] = rows[k]]
    BY <1>2, <1>3, <1>4 DEF Check
  <2>. QED
    BY <1>1, <1>2, <1>3, <2>1, Ends
<1>5. CASE ~Locked(rows[k], now)
  <2>1. PICK q \in Request :
          /\ Become(r, q) /\ q.key = k /\ q.step # "idle" /\ q.at <= now
    <3>. DEFINE c == [reqs[r] EXCEPT !.step = "clear"]
    <3>1. /\ c \in Request /\ c.key = k /\ c.step # "idle" /\ c.at <= now
      BY <1>2, <1>3 DEF Request, PastCheck
    <3>2. Become(r, c) \/ Become(r, Proceed(reqs[r]))
      BY <1>2, <1>5 DEF Check
    <3>. QED
      BY <1>2, <1>3, <3>1, <3>2, ProceedFacts
  <2>2. UNCHANGED <<rows, excused, blind>> /\ ~InForce(k)
    BY <1>2, <1>5 DEF Check, InForce
  <2>. QED
    BY <1>1, <1>2, <2>1, <2>2, GoesOn
<1>. QED
  BY <1>4, <1>5

LEMMA ClearInv ==
    ASSUME LockInv, NEW r \in Requests, Clear(r), UNCHANGED now
    PROVE  LockInv'
<1>1. /\ reqs[r].step = "clear" /\ reqs[r].step # "idle"
      /\ reqs[r].step \in PastCheck
      /\ rows' \in {rows, [rows EXCEPT ![reqs[r].key] = None]}
      /\ Become(r, Proceed(reqs[r])) /\ UNCHANGED <<excused, blind>>
  BY DEF Clear, PastCheck
<1>. QED
  BY <1>1, RequestFacts, ProceedFacts, GoesOn

LEMMA ValidateInv ==
    ASSUME LockInv, NEW r \in Requests, Validate(r), UNCHANGED now
    PROVE  LockInv'
<1>1. /\ reqs[r].step = "validate" /\ reqs[r].step # "idle"
      /\ reqs[r].step \in PastCheck /\ UNCHANGED <<rows, excused, blind>>
  BY DEF Validate, PastCheck
<1>2. reqs[r] \in Request /\ now \in Nat /\ reqs[r].at <= now
  BY <1>1, RequestFacts
<1>3. PICK q \in Request :
        Become(r, q) /\ q.key = reqs[r].key /\ q.step # "idle" /\ q.at <= now
  <2>. DEFINE a == [reqs[r] EXCEPT !.step = "record", !.at = now]
              b == [reqs[r] EXCEPT !.step = "reset"]
  <2>1. a \in Request /\ a.key = reqs[r].key /\ a.step # "idle" /\ a.at <= now
    BY <1>2, RecordFailureFacts
  <2>2. b \in Request /\ b.key = reqs[r].key /\ b.step # "idle" /\ b.at <= now
    BY <1>2 DEF Request, PastCheck
  <2>3. Become(r, a) \/ Become(r, b)
    BY DEF Validate
  <2>. QED
    BY <2>1, <2>2, <2>3
<1>. QED
  BY <1>1, <1>3, GoesOn

\* A check that failed is excused, and so is the failure it may count.
LEMMA CheckFailsInv ==
    ASSUME LockInv, NEW r \in Requests, CheckFails(r), UNCHANGED now
    PROVE  LockInv'
<1>1. /\ reqs[r].step = "check" /\ reqs[r].step # "idle" /\ UNCHANGED <<rows, now>>
      /\ LockTypeOK
  BY DEF CheckFails, LockInv
<1>2. PICK k \in Keys : k = reqs[r].key
  BY <1>1, RequestFacts
<1>3. PICK q \in Request : /\ Become(r, q) /\ q.key = k /\ q.step # "idle" /\ q.at <= now
  <2>1. Become(r, Proceed(reqs[r]))
    BY DEF CheckFails
  <2>. QED
    BY <1>1, <1>2, <2>1, RequestFacts, ProceedFacts
<1>4. /\ excused' = [excused EXCEPT ![k] = @ \cup {r}]
      /\ blind' = [blind EXCEPT ![k] = @ + 1]
  BY <1>2 DEF CheckFails
<1>5. /\ reqs' \in [Requests -> Request] /\ reqs'[r] = q
      /\ \A s \in Requests \ {r} : reqs'[s] = reqs[s]
  BY <1>1, <1>3, BecomeFacts
<1>6. LockTypeOK'
  BY <1>1, <1>4, <1>5 DEF LockTypeOK
<1>7. \A s \in Requests : RequestOK(s)'
  BY <1>1, <1>3, <1>5, LockInvParts, KeysAssumption DEF RequestOK
<1>8. ASSUME NEW j \in Keys, j # k
      PROVE  RowOK(j)' /\ ExcusedOK(j)'
  BY <1>1, <1>3, <1>4, <1>8, OtherKeys DEF LockTypeOK
<1>9. RowOK(k)'
  BY <1>1, LockInvParts DEF RowOK
<1>10. ExcusedOK(k)'
  <2>1. ASSUME InForce(k)
        PROVE  rows[k].failures + Cardinality(excused[k] \cup {r})
                 <= MaxFailures + Cardinality(Requests) - 1 + (blind[k] + 1)
    <3>1. rows[k].failures \in Nat /\ blind[k] \in Nat
      BY <1>1, <2>1 DEF InForce, Locked, LockTypeOK, Row
    <3>2. rows[k].failures + Cardinality(excused[k])
            <= MaxFailures + Cardinality(Requests) - 1 + blind[k]
      BY <2>1, LockInvParts DEF ExcusedOK
    <3>3. /\ Cardinality(excused[k]) \in Nat
          /\ Cardinality(excused[k] \cup {r}) \in Nat
          /\ Cardinality(excused[k] \cup {r}) <= Cardinality(excused[k]) + 1
      BY <1>1, ExcusedSize
    <3>. QED
      BY <3>1, <3>2, <3>3, RequestsSize, LockoutAssumption
  <2>2. /\ excused'[k] = excused[k] \cup {r} /\ blind'[k] = blind[k] + 1
        /\ InForce(k)' <=> InForce(k)
    BY <1>1, <1>4 DEF LockTypeOK, InForce
  <2>3. InForce(k) => \A s \in Requests \ {r} :
          reqs[s].key = k /\ reqs[s].step \in PastCheck => s \in excused[k]
    BY LockInvParts DEF ExcusedOK
  <2>. QED
    BY <1>1, <1>5, <2>1, <2>2, <2>3 DEF ExcusedOK
<1>. QED
  BY <1>6, <1>7, <1>8, <1>9, <1>10, LockInvPartsPrimed

LEMMA InsertInv ==
    ASSUME LockInv, NEW r \in Requests, Insert(r), UNCHANGED now
    PROVE  LockInv'
<1>1. reqs[r].step = "insert" /\ reqs[r].step # "idle" /\ Finish(r)
  BY DEF Insert
<1>2. PICK k \in Keys : k = reqs[r].key
  BY <1>1, RequestFacts
<1>3. /\ reqs[r].at \in Nat /\ reqs[r].at <= now /\ rows[k] \in Row \cup {None}
      /\ rows \in [Keys -> Row \cup {None}]
  BY <1>1, <1>2, RequestFacts DEF LockInv, LockTypeOK
<1>. DEFINE first == [failures |-> 1, firstAt |-> reqs[r].at, lockedAt |-> None]
<1>4. /\ first \in Row /\ first.lockedAt = None /\ first.failures < MaxFailures
      /\ first.firstAt <= now
  BY <1>3, LockoutAssumption DEF Row
<1>. DEFINE x == IF rows[k] = None THEN first ELSE rows[k]
<1>5. x \in Row \cup {None} /\ rows' = [rows EXCEPT ![reqs[r].key] = x]
  BY <1>2, <1>3, <1>4 DEF Insert
<1>6. x = first \/ x = rows[reqs[r].key]
  BY <1>2
<1>. HIDE DEF first, x
<1>. QED
  BY <1>1, <1>4, <1>5, <1>6, Ends

LEMMA ResetInv ==
    ASSUME LockInv, NEW r \in Requests, Reset(r), UNCHANGED now
    PROVE  LockInv'
<1>1. reqs[r].step # "idle" /\ Finish(r)
  BY DEF Reset
<1>2. /\ rows[reqs[r].key] \in Row \cup {None} /\ reqs[r].key \in Keys
      /\ rows \in [Keys -> Row \cup {None}]
  BY <1>1, RequestFacts DEF LockInv, LockTypeOK
<1>3. PICK x \in Row \cup {None} : /\ rows' = [rows EXCEPT ![reqs[r].key] = x]
                                   /\ x = None \/ x = rows[reqs[r].key]
  BY <1>2 DEF Reset
<1>. QED
  BY <1>1, <1>3, Ends

LEMMA AbandonInv ==
    ASSUME LockInv, NEW r \in Requests, Abandon(r), UNCHANGED now
    PROVE  LockInv'
<1>1. reqs[r].step # "idle" /\ Finish(r) /\ rows' = rows
  BY DEF Abandon
<1>2. /\ rows[reqs[r].key] \in Row \cup {None} /\ reqs[r].key \in Keys
      /\ rows' = [rows EXCEPT ![reqs[r].key] = rows[reqs[r].key]]
  BY <1>1, RequestFacts DEF LockInv, LockTypeOK
<1>. QED
  BY <1>1, <1>2, Ends

\* One more failure: a new window, another count, or the lock.
LEMMA CountedFacts ==
    ASSUME NEW row \in Row, NEW t \in Nat, t <= now, now \in Nat,
           row.firstAt <= now, row.lockedAt # None => row.lockedAt <= now,
           row.lockedAt = None => row.failures < MaxFailures
    PROVE  LET c == Counted(row, t) IN
           /\ c \in Row
           /\ c.firstAt <= now
           /\ c.lockedAt # None => c.lockedAt <= now
           /\ c.lockedAt = None => c.failures < MaxFailures
           /\ row.lockedAt # None /\ c.lockedAt # None =>
                c.lockedAt = row.lockedAt /\ c.failures = row.failures + 1
           /\ row.lockedAt = None /\ c.lockedAt # None => c.failures <= MaxFailures
           /\ c.failures \in Nat /\ (c.failures = row.failures + 1 \/ c.failures = 1)
<1>1. /\ row.failures \in Nat /\ row.firstAt \in Nat /\ row.lockedAt \in Nat \cup {None}
      /\ MaxFailures \in Nat /\ MaxFailures >= 2 /\ None \notin Nat
      /\ row = [failures |-> row.failures, firstAt |-> row.firstAt,
                lockedAt |-> row.lockedAt]
  BY LockoutAssumption, SourcesAssumption DEF Row
<1>2. CASE WindowElapsed(row, t)
  BY <1>1, <1>2 DEF Counted, Row
<1>3. CASE ~WindowElapsed(row, t)
  <2>1. PICK l \in Nat \cup {None} :
          /\ l = IF row.failures + 1 >= MaxFailures /\ row.lockedAt = None
                 THEN t ELSE row.lockedAt
          /\ Counted(row, t) = [failures |-> row.failures + 1, firstAt |-> row.firstAt,
                                lockedAt |-> l]
    BY <1>1, <1>3 DEF Counted
  <2>. QED
    BY <1>1, <2>1 DEF Row
<1>. QED
  BY <1>2, <1>3

\* The failure that sets the lock excuses those in flight; one that is counted
\* under it was excused.
LEMMA RecordInv ==
    ASSUME LockInv, NEW r \in Requests, Record(r), UNCHANGED now
    PROVE  LockInv'
<1>1. /\ reqs[r].step = "record" /\ reqs[r].step # "idle"
      /\ reqs[r].step \in PastCheck /\ LockTypeOK
  BY DEF Record, PastCheck, LockInv
<1>2. PICK k \in Keys : k = reqs[r].key
  BY <1>1, RequestFacts
<1>3. /\ reqs[r] \in Request /\ reqs[r].at \in Nat /\ reqs[r].at <= now
      /\ rows[k] \in Row \cup {None} /\ now \in Nat
  BY <1>1, <1>2, RequestFacts
<1>4. CASE rows[k] = None
  <2>. DEFINE q == [reqs[r] EXCEPT !.step = "insert"]
  <2>1. /\ q \in Request /\ q.step # "idle" /\ q.key = reqs[r].key
        /\ q.at <= now /\ Become(r, q) /\ UNCHANGED <<rows, excused, blind>>
    BY <1>2, <1>3, <1>4 DEF Record, Request, PastCheck
  <2>. HIDE DEF q
  <2>. QED
    BY <1>1, <2>1, GoesOn
<1>5. CASE rows[k] # None
  <2>1. PICK c \in Row : c = Counted(rows[k], reqs[r].at)
    BY <1>3, <1>5, CountedFacts, LockInvParts DEF RowOK
  <2>2. /\ rows' = [rows EXCEPT ![k] = c] /\ Become(r, Idle) /\ blind' = blind
        /\ excused' = [j \in Keys |->
             IF j = k /\ rows[k].lockedAt = None /\ c.lockedAt # None
             THEN InFlight(k, r) ELSE excused[j] \ {r}]
    BY <1>2, <1>5, <2>1 DEF Record
  <2>3. /\ c.firstAt <= now
        /\ c.lockedAt # None => c.lockedAt <= now
        /\ c.lockedAt = None => c.failures < MaxFailures
        /\ rows[k].lockedAt # None /\ c.lockedAt # None =>
             c.lockedAt = rows[k].lockedAt /\ c.failures = rows[k].failures + 1
        /\ rows[k].lockedAt = None /\ c.lockedAt # None => c.failures <= MaxFailures
        /\ c.failures \in Nat
    BY <1>3, <1>5, <2>1, CountedFacts, LockInvParts DEF RowOK
  <2>4. /\ reqs' \in [Requests -> Request] /\ reqs'[r] = Idle
        /\ \A s \in Requests \ {r} : reqs'[s] = reqs[s]
    BY <1>1, <2>2, BecomeFacts, IdleFacts
  <2>5. /\ rows' \in [Keys -> Row \cup {None}] /\ rows'[k] = c
        /\ \A j \in Keys \ {k} : rows'[j] = rows[j]
    BY <1>1, <2>2 DEF LockTypeOK
  <2>6. LockTypeOK'
    BY <1>1, <2>2, <2>4, <2>5, InFlightSize DEF LockTypeOK
  <2>7. \A s \in Requests : RequestOK(s)'
    BY <1>3, <2>4, LockInvParts, IdleFacts DEF RequestOK
  <2>8. ASSUME NEW j \in Keys, j # k
        PROVE  RowOK(j)' /\ ExcusedOK(j)'
    <3>1. excused'[j] = excused[j] \ {r} /\ rows'[j] = rows[j] /\ blind'[j] = blind[j]
      BY <2>2, <2>5, <2>8
    <3>. QED
      BY <2>2, <2>8, <3>1, OtherKeys, IdleFacts
  <2>9. RowOK(k)'
    BY <2>3, <2>5 DEF RowOK
  <2>10. ExcusedOK(k)'
    <3>1. SUFFICES ASSUME InForce(k)'
                   PROVE  /\ \A s \in Requests :
                               reqs'[s].key = k /\ reqs'[s].step \in PastCheck
                                 => s \in excused'[k]
                          /\ c.failures + Cardinality(excused'[k])
                               <= MaxFailures + Cardinality(Requests) - 1 + blind[k]
      BY <2>2, <2>5 DEF ExcusedOK
    <3>2. c.lockedAt # None /\ now - c.lockedAt < LockoutDuration
      BY <2>5, <3>1 DEF InForce, Locked
    <3>3. blind[k] \in Nat /\ MaxFailures \in Nat
      BY <1>1, LockoutAssumption DEF LockTypeOK
    <3>4. \A s \in Requests : reqs'[s].key = k => s # r /\ reqs'[s] = reqs[s]
      BY <2>4, IdleFacts, KeysAssumption
    <3>5. CASE rows[k].lockedAt = None
      <4>1. excused'[k] = InFlight(k, r)
        BY <2>2, <3>2, <3>5
      <4>2. \A s \in Requests : reqs'[s].key = k /\ reqs'[s].step \in PastCheck
                                  => s \in InFlight(k, r)
        BY <3>4 DEF InFlight
      <4>. QED
        BY <2>3, <3>2, <3>3, <3>5, <4>1, <4>2, InFlightSize, RequestsSize
    <3>6. CASE rows[k].lockedAt # None
      <4>1. /\ excused'[k] = excused[k] \ {r}
            /\ c.failures = rows[k].failures + 1 /\ InForce(k)
        BY <1>5, <2>2, <2>3, <3>2, <3>6 DEF InForce, Locked
      <4>2. /\ r \in excused[k]
            /\ \A s \in Requests :
                 reqs[s].key = k /\ reqs[s].step \in PastCheck => s \in excused[k]
            /\ rows[k].failures + Cardinality(excused[k])
                 <= MaxFailures + Cardinality(Requests) - 1 + blind[k]
        BY <1>1, <1>2, <4>1, LockInvParts DEF ExcusedOK
      <4>3. rows[k].failures \in Nat
        BY <1>3, <1>5 DEF Row
      <4>4. /\ Cardinality(excused[k]) \in Nat
            /\ Cardinality(excused'[k]) = Cardinality(excused[k]) - 1
        BY <1>1, <4>1, <4>2, ExcusedSize
      <4>5. \A s \in Requests : reqs'[s].key = k /\ reqs'[s].step \in PastCheck
                                  => s \in excused'[k]
        BY <3>4, <4>1, <4>2
      <4>. QED
        BY <3>3, <4>1, <4>2, <4>3, <4>4, <4>5, RequestsSize
    <3>. QED
      BY <3>5, <3>6
  <2>. QED
    BY <2>6, <2>7, <2>8, <2>9, <2>10, LockInvPartsPrimed
<1>. QED
  BY <1>4, <1>5

LEMMA BeginInv ==
    ASSUME LockInv, NEW r \in Requests, NEW k \in Keys, Begin(r, k),
           UNCHANGED <<now, rows, excused, blind>>
    PROVE  LockInv'
<1>. DEFINE q == [step |-> "check", key |-> k, at |-> 0]
<1>1. /\ q \in Request /\ q.step = "check" /\ q.step \notin PastCheck
      /\ q.key = k /\ q.at = 0 /\ Become(r, q) /\ LockTypeOK /\ now \in Nat
  BY DEF Begin, Request, PastCheck, LockInv, LockTypeOK
<1>. HIDE DEF q
<1>2. /\ reqs' \in [Requests -> Request] /\ reqs'[r] = q
      /\ \A s \in Requests \ {r} : reqs'[s] = reqs[s]
  BY <1>1, BecomeFacts
<1>3. LockTypeOK'
  BY <1>1, <1>2 DEF LockTypeOK
<1>4. \A s \in Requests : RequestOK(s)'
  BY <1>1, <1>2, LockInvParts, KeysAssumption DEF RequestOK
<1>5. \A j \in Keys : RowOK(j)' /\ ExcusedOK(j)'
  BY <1>1, OtherKeys
<1>. QED
  BY <1>3, <1>4, <1>5, LockInvPartsPrimed

\* Time only ends locks.
LEMMA AdvanceInv ==
    ASSUME LockInv, Advance, UNCHANGED lockVars
    PROVE  LockInv'
<1>1. /\ now \in Nat /\ now' = now + 1 /\ UNCHANGED <<rows, reqs, excused, blind>>
      /\ LockoutDuration \in Nat
  BY LockoutAssumption DEF LockInv, LockTypeOK, Advance, lockVars
<1>2. LockTypeOK'
  BY <1>1 DEF LockInv, LockTypeOK
<1>3. \A s \in Requests : RequestOK(s)'
  <2>1. \A s \in Requests : reqs[s].at \in Nat
    BY DEF LockInv, LockTypeOK, Request
  <2>. QED
    BY <1>1, <2>1, LockInvParts DEF RequestOK
<1>4. ASSUME NEW k \in Keys
      PROVE  RowOK(k)' /\ ExcusedOK(k)'
  <2>1. rows[k] # None => /\ rows[k].firstAt \in Nat
                          /\ rows[k].lockedAt # None => rows[k].lockedAt \in Nat
    BY DEF LockInv, LockTypeOK, Row
  <2>2. RowOK(k)'
    BY <1>1, <2>1, LockInvParts DEF RowOK
  <2>3. InForce(k)' => InForce(k)
    BY <1>1, <2>1 DEF InForce, Locked
  <2>4. ExcusedOK(k)'
    BY <1>1, <2>3, LockInvParts DEF ExcusedOK
  <2>. QED
    BY <2>2, <2>4
<1>. QED
  BY <1>2, <1>3, <1>4, LockInvPartsPrimed

LEMMA LockInitInv == now = 0 /\ LockInit => LockInv
<1>. SUFFICES ASSUME now = 0, LockInit PROVE LockInv
  OBVIOUS
<1>1. \A k \in Keys : rows[k] = None /\ ~InForce(k)
  BY DEF LockInit, InForce, Locked
<1>2. \A r \in Requests : reqs[r] = Idle
  BY DEF LockInit
<1>3. LockTypeOK
  BY IdleFacts DEF LockInit, LockTypeOK
<1>. QED
  BY <1>1, <1>2, <1>3, IdleFacts DEF LockInv

LEMMA LockNextInv == LockInv /\ [LockNext]_<<now, lockVars>> => LockInv'
<1>. SUFFICES ASSUME LockInv, [LockNext]_<<now, lockVars>> PROVE LockInv'
  OBVIOUS
<1>1. ASSUME NEW r \in Requests, LockStep(r), UNCHANGED now
      PROVE  LockInv'
  BY <1>1, CheckInv, CheckFailsInv, ClearInv, ValidateInv, RecordInv, InsertInv,
     ResetInv, AbandonInv DEF LockStep
<1>2. ASSUME NEW r \in Requests, NEW k \in Keys, Begin(r, k),
             UNCHANGED <<now, rows, excused, blind>>
      PROVE  LockInv'
  BY <1>2, BeginInv
<1>3. CASE UNCHANGED <<now, lockVars>>
  BY <1>3 DEF lockVars, LockInv, LockTypeOK, InForce
<1>. QED
  BY <1>1, <1>2, <1>3, AdvanceInv DEF LockNext

\* LockInv is inductive: a request that is past its check while a lock holds was
\* past it when the lock was set, or its check failed.
THEOREM LockoutSafe == LockSpec => []LockInv
BY LockInitInv, LockNextInv, PTL DEF LockSpec

LEMMA LockInvBounds == LockInv => GuessesUnderLock
<1>. SUFFICES ASSUME LockInv, NEW k \in Keys, InForce(k)
              PROVE  rows[k].failures <= MaxFailures + Cardinality(Requests) - 1 + blind[k]
  BY DEF GuessesUnderLock
<1>1. rows[k].failures \in Nat /\ blind[k] \in Nat /\ MaxFailures \in Nat
  BY LockoutAssumption DEF LockInv, LockTypeOK, InForce, Locked, Row
<1>2. IsFiniteSet(excused[k])
  BY RequestsAssumption, FS_Subset DEF LockInv, LockTypeOK
<1>3. Cardinality(excused[k]) \in Nat
  BY <1>2, FS_CardinalityType
<1>4. rows[k].failures + Cardinality(excused[k])
        <= MaxFailures + Cardinality(Requests) - 1 + blind[k]
  BY DEF LockInv
<1>. QED
  BY <1>1, <1>3, <1>4, RequestsSize

\* Whoever changes or deletes the row of a key in force was excused.
LEMMA LiftStep ==
    ASSUME LockInv, LockInv', [LockNext]_<<now, lockVars>>,
           NEW k \in Keys, InForce(k), ~InForce(k)', now' = now
    PROVE  \E r \in excused[k] : reqs[r]' # reqs[r]
<1>1. now \in Nat /\ rows \in [Keys -> Row \cup {None}] /\ rows'[k] # rows[k]
  BY DEF LockInv, LockTypeOK, InForce
<1>2. PICK r \in Requests : LockStep(r)
  BY <1>1 DEF LockNext, lockVars, Advance
<1>3. /\ reqs[r].key = k /\ reqs[r].step \in PastCheck
      /\ reqs[r]' # reqs[r]
  <2>1. ASSUME NEW q, Become(r, q)
        PROVE  reqs'[r] = q
    BY <2>1 DEF Become, LockInv, LockTypeOK
  <2>2. CASE Check(r) \/ CheckFails(r) \/ Validate(r) \/ Abandon(r)
    BY <1>1, <2>2 DEF Check, CheckFails, Validate, Abandon
  <2>3. CASE Clear(r)
    <3>1. reqs[r].key = k /\ reqs[r].step = "clear" /\ reqs'[r] = Proceed(reqs[r])
      BY <1>1, <2>1, <2>3 DEF Clear
    <3>2. reqs[r] \in Request /\ reqs[r].at <= now
      BY <3>1, RequestFacts
    <3>3. Proceed(reqs[r]).step # "clear"
      BY <3>2 DEF Proceed, Request
    <3>. QED
      BY <3>1, <3>3 DEF PastCheck
  <2>4. CASE Record(r)
    <3>1. reqs[r].key = k /\ reqs[r].step = "record" /\ reqs'[r].step # "record"
      BY <1>1, <2>1, <2>4, IdleFacts DEF Record, LockInv, LockTypeOK, Request
    <3>. QED
      BY <3>1 DEF PastCheck
  <2>5. CASE Insert(r) \/ Reset(r)
    <3>1. /\ reqs[r].key = k /\ reqs[r].step \in {"insert", "reset"}
          /\ reqs'[r].step = "idle"
      BY <1>1, <2>1, <2>5, IdleFacts DEF Insert, Reset, Finish
    <3>. QED
      BY <3>1 DEF PastCheck
  <2>. QED
    BY <1>2, <2>2, <2>3, <2>4, <2>5 DEF LockStep
<1>. QED
  BY <1>3 DEF LockInv

-----------------------------------------------------------------------------
(* The composition *)

\* Whatever the login endpoint and the other routes do is a behaviour of the
\* limiter and one of the lockout.
LEMMA StepProjects ==
    ASSUME [Next]_vars
    PROVE  [LimNext]_<<now, limVars>> /\ [LockNext]_<<now, lockVars>>
<1>1. ASSUME NEW r \in Requests, NEW p \in Principals, NEW ip \in IPs, Arrive(r, p, ip)
      PROVE  /\ Allow(ip) /\ UNCHANGED now
             /\ \/ Begin(r, lockoutKey(p, ip)) /\ UNCHANGED <<now, rows, excused, blind>>
                \/ UNCHANGED <<now, lockVars>>
  BY <1>1 DEF Arrive, lockVars
<1>2. ASSUME NEW r \in Requests, NEW p \in Principals, NEW ip \in IPs,
             ArriveElsewhere(r, p, ip)
      PROVE  /\ Begin(r, lockoutKey(p, ip)) /\ UNCHANGED <<now, rows, excused, blind>>
             /\ UNCHANGED <<now, limVars>>
  BY <1>2 DEF ArriveElsewhere
<1>3. \A p \in Principals, ip \in IPs : lockoutKey(p, ip) \in Keys
  BY AddressAssumption DEF Keys
<1>4. CASE UNCHANGED vars
  BY <1>4 DEF vars
<1>5. CASE Advance /\ UNCHANGED <<limVars, lockVars>>
  BY <1>5 DEF LimNext, LockNext
<1>6. CASE \E r \in Requests : LockStep(r) /\ UNCHANGED <<now, limVars>>
  BY <1>6 DEF LockNext
<1>7. CASE \E r \in Requests, p \in Principals, ip \in IPs : Arrive(r, p, ip)
  BY <1>1, <1>3, <1>7 DEF LimNext, LockNext
<1>8. CASE \E r \in Requests, p \in Principals, ip \in IPs : ArriveElsewhere(r, p, ip)
  BY <1>2, <1>3, <1>8 DEF LockNext
<1>. QED
  BY <1>4, <1>5, <1>6, <1>7, <1>8 DEF Next

\* NewRouter composes the limiter and the lockout without changing either: each
\* step of the login route is a step or a stutter of both.
THEOREM GuardImplementsBoth == Spec => LimSpec /\ LockSpec
<1>1. Init => /\ now = 0 /\ LimInit
              /\ LockInit
  BY DEF Init
<1>. QED
  BY <1>1, StepProjects, PTL DEF Spec, LimSpec, LockSpec

\* An address gets through at most the burst plus the rate times the elapsed
\* time, however its requests fall between the sweeps.
THEOREM PassesAreBounded == Spec => []PassRateBounded
<1>1. LimInv => PassRateBounded
  <2>. SUFFICES ASSUME LimInv, NEW ip \in IPs
                PROVE  passed[ip] <= Burst + Rate * now
    BY DEF PassRateBounded
  <2>1. passed[ip] + Level(ip) <= Burst + Rate * now /\ passed[ip] \in Nat /\ now \in Nat
    BY DEF LimInv, LimTypeOK
  <2>2. Level(ip) \in Nat /\ Burst \in Nat /\ Rate * now \in Nat
    BY <2>1, SweptLevel, RateAssumption, RateTimes
  <2>. QED
    BY <2>1, <2>2
<1>. QED
  BY <1>1, LimiterSafe, GuardImplementsBoth, PTL

\* "Dropping is lossless" for the limiter of the login route.
THEOREM LoginSweepIsLossless == Spec => SweepLosesNothing
BY SweepIsLossless, GuardImplementsBoth, PTL

\* "a locked caller cannot keep guessing": the failures counted under a lock are
\* bounded by the threshold and the requests that were in flight.
THEOREM GuessingStops == Spec => []GuessesUnderLock
BY LockInvBounds, LockoutSafe, GuardImplementsBoth, PTL

\* No newcomer lifts a lock before its time.
THEOREM LocksHold == Spec => LockLiftedByOldRequestsOnly
<1>1. LockInv /\ LockInv' /\ [LockNext]_<<now, lockVars>>
        => [\A k \in Keys :
              InForce(k) /\ ~InForce(k)' /\ now' = now =>
                \E r \in excused[k] : reqs[r]' # reqs[r]]_<<now, lockVars>>
  BY LiftStep
<1>. QED
  BY <1>1, LockoutSafe, GuardImplementsBoth, PTL DEF LockSpec, LockLiftedByOldRequestsOnly

-----------------------------------------------------------------------------
(* Guesses are paid for. *)

Pending(k) == {r \in Requests : reqs[r].key = k}

Failures(k) == IF rows[k] = None THEN 0 ELSE rows[k].failures

PaidOK(ip, k) == k[2] = ip => Failures(k) + Cardinality(Pending(k)) <= passed[ip]

LEMMA GuardInvParts ==
    /\ GuardInv <=> LimInv /\ LockInv /\ \A ip \in IPs : \A k \in Keys : PaidOK(ip, k)
    /\ GuardInv' <=> LimInv' /\ LockInv' /\ \A ip \in IPs : \A k \in Keys : PaidOK(ip, k)'
BY DEF GuardInv, PaidOK, Failures, Pending

LEMMA FailuresType ==
    ASSUME LockInv, NEW k \in Keys
    PROVE  Failures(k) \in Nat
BY DEF LockInv, LockTypeOK, Row, Failures

\* How the requests on a key change with one request.
LEMMA PendingSize ==
    ASSUME LockInv, NEW r \in Requests, NEW q \in Request, Become(r, q), NEW k
    PROVE  /\ Cardinality(Pending(k)) \in Nat /\ Cardinality(Pending(k)') \in Nat
           /\ (q.key = k <=> reqs[r].key = k) =>
                Cardinality(Pending(k)') = Cardinality(Pending(k))
           /\ reqs[r].key = k /\ q.key # k =>
                Cardinality(Pending(k)') = Cardinality(Pending(k)) - 1
           /\ reqs[r].key # k /\ q.key = k =>
                Cardinality(Pending(k)') = Cardinality(Pending(k)) + 1
<1>. DEFINE P == Pending(k)
<1>1. reqs'[r] = q /\ \A s \in Requests \ {r} : reqs'[s] = reqs[s]
  BY BecomeFacts DEF LockInv
<1>2. /\ IsFiniteSet(Pending(k)) /\ IsFiniteSet(Pending(k)')
      /\ (r \in Pending(k) <=> reqs[r].key = k)
  BY RequestsAssumption, FS_Subset DEF Pending
<1>3. Pending(k)' = IF q.key = k THEN Pending(k) \cup {r} ELSE Pending(k) \ {r}
  BY <1>1 DEF Pending
<1>4. /\ Cardinality(Pending(k)) \in Nat /\ Cardinality(Pending(k)') \in Nat
      /\ Cardinality(Pending(k) \ {r}) =
           IF r \in Pending(k) THEN Cardinality(Pending(k)) - 1 ELSE Cardinality(Pending(k))
      /\ Cardinality(Pending(k) \cup {r}) =
           IF r \in Pending(k) THEN Cardinality(Pending(k)) ELSE Cardinality(Pending(k)) + 1
  BY <1>2, SizeFacts, FS_CardinalityType
<1>. QED
  BY <1>2, <1>3, <1>4

\* A step of the handler ends a request when it counts a failure.
LEMMA StepCounts ==
    ASSUME LockInv, NEW r \in Requests, LockStep(r), UNCHANGED now
    PROVE  \E q \in Request :
             /\ Become(r, q)
             /\ reqs[r].key \in Keys
             /\ \A j \in Keys : j # reqs[r].key => rows'[j] = rows[j]
             /\ \A k \in Keys : k = reqs[r].key =>
                  \/ q.key = k /\ (rows'[k] = rows[k] \/ rows'[k] = None)
                  \/ q.key = None /\ Failures(k)' <= Failures(k) + 1
<1>1. reqs[r].step # "idle" /\ LockTypeOK
  BY DEF LockStep, Check, CheckFails, Clear, Validate, Record, Insert, Reset, Abandon,
     LockInv
<1>2. PICK k \in Keys : k = reqs[r].key
  BY <1>1, RequestFacts
<1>3. /\ reqs[r] \in Request /\ reqs[r].at \in Nat /\ reqs[r].at <= now
      /\ rows[k] \in Row \cup {None} /\ now \in Nat /\ rows \in [Keys -> Row \cup {None}]
      /\ Failures(k) \in Nat
  BY <1>1, <1>2, RequestFacts, FailuresType DEF LockTypeOK
<1>4. \A x : rows' = [rows EXCEPT ![k] = x] =>
               rows'[k] = x /\ \A j \in Keys : j # k => rows'[j] = rows[j]
  BY <1>3
<1>5. rows'[k] = rows[k] \/ rows'[k] = None => Failures(k)' <= Failures(k) + 1
  BY <1>3 DEF Failures
<1>6. Proceed(reqs[r]) \in Request /\ Proceed(reqs[r]).key = k
  BY <1>2, <1>3, ProceedFacts
<1>7. \A s \in {"clear", "reset", "insert"} :
         [reqs[r] EXCEPT !.step = s] \in Request /\ [reqs[r] EXCEPT !.step = s].key = k
  BY <1>2, <1>3 DEF Request, PastCheck
<1>8. CASE Check(r) \/ CheckFails(r) \/ Abandon(r)
  <2>1. rows' = rows /\ (Become(r, Idle) \/ Become(r, Proceed(reqs[r]))
                           \/ Become(r, [reqs[r] EXCEPT !.step = "clear"]))
    BY <1>8 DEF Check, CheckFails, Abandon, Finish
  <2>. QED
    BY <1>2, <1>3, <1>5, <1>6, <1>7, <2>1, IdleFacts
<1>9. CASE Clear(r)
  <2>1. /\ Become(r, Proceed(reqs[r]))
        /\ rows' = [rows EXCEPT ![k] = None] \/ rows' = rows
    BY <1>2, <1>9 DEF Clear
  <2>. QED
    BY <1>2, <1>4, <1>6, <2>1
<1>10. CASE Validate(r)
  <2>1. rows' = rows /\ (Become(r, [reqs[r] EXCEPT !.step = "record", !.at = now])
                           \/ Become(r, [reqs[r] EXCEPT !.step = "reset"]))
    BY <1>10 DEF Validate
  <2>. QED
    BY <1>2, <1>3, <1>7, <2>1, RecordFailureFacts
<1>11. CASE Record(r)
  <2>1. CASE rows[k] = None
    BY <1>2, <1>7, <1>11, <2>1 DEF Record
  <2>2. CASE rows[k] # None
    <3>1. PICK c \in Row : /\ c = Counted(rows[k], reqs[r].at)
                           /\ c.failures \in Nat
                           /\ c.failures = rows[k].failures + 1 \/ c.failures = 1
      BY <1>3, <2>2, CountedFacts, LockInvParts DEF RowOK
    <3>2. rows' = [rows EXCEPT ![k] = c] /\ Become(r, Idle)
      BY <1>2, <1>11, <2>2, <3>1 DEF Record
    <3>3. Failures(k)' <= Failures(k) + 1
      BY <1>3, <1>4, <2>2, <3>1, <3>2, RowAssumption DEF Failures, Row
    <3>. QED
      BY <1>2, <1>4, <3>2, <3>3, IdleFacts
  <2>. QED
    BY <2>1, <2>2
<1>12. CASE Insert(r)
  <2>1. /\ Become(r, Idle)
        /\ rows' = [rows EXCEPT ![k] =
             IF rows[k] = None THEN [failures |-> 1, firstAt |-> reqs[r].at, lockedAt |-> None]
             ELSE rows[k]]
    BY <1>2, <1>3, <1>12 DEF Insert, Finish
  <2>2. rows'[k] = rows[k] \/ rows'[k].failures = 1
    BY <1>4, <2>1
  <2>3. Failures(k)' <= Failures(k) + 1
    BY <1>3, <2>2 DEF Failures
  <2>. QED
    BY <1>2, <1>4, <2>1, <2>3, IdleFacts
<1>13. CASE Reset(r)
  <2>1. /\ Become(r, Idle)
        /\ rows' = [rows EXCEPT ![k] = None] \/ rows' = rows
    BY <1>2, <1>13 DEF Reset, Finish
  <2>. QED
    BY <1>2, <1>4, <1>5, <2>1, IdleFacts
<1>. QED
  BY <1>8, <1>9, <1>10, <1>11, <1>12, <1>13 DEF LockStep

LEMMA GuardNextInv == GuardInv /\ [Next]_vars => GuardInv'
<1>. SUFFICES ASSUME GuardInv, [Next]_vars PROVE GuardInv'
  OBVIOUS
<1>1. LimInv /\ LockInv /\ \A ip \in IPs : \A k \in Keys : PaidOK(ip, k)
  BY GuardInvParts
<1>2. LimInv' /\ LockInv'
  BY <1>1, StepProjects, LimNextInv, LockNextInv
<1>3. \A k \in Keys : Failures(k) \in Nat /\ Failures(k)' \in Nat
  BY <1>1, <1>2, FailuresType DEF LockInv, LockTypeOK, Row, Failures
<1>4. passed \in [IPs -> Nat] /\ now \in Nat
  BY <1>1 DEF LimInv, LimTypeOK
<1>5. SUFFICES ASSUME NEW ip \in IPs, NEW k \in Keys, k[2] = ip
               PROVE  Failures(k)' + Cardinality(Pending(k)') <= passed'[ip]
  BY <1>2, GuardInvParts DEF PaidOK
<1>6. Failures(k) + Cardinality(Pending(k)) <= passed[ip]
  BY <1>1, <1>5 DEF PaidOK
<1>7. ASSUME NEW r \in Requests, LockStep(r), UNCHANGED <<now, limVars>>
      PROVE  Failures(k)' + Cardinality(Pending(k)') <= passed'[ip]
  <2>1. PICK q \in Request :
          /\ Become(r, q)
          /\ reqs[r].key \in Keys
          /\ k # reqs[r].key => rows'[k] = rows[k]
          /\ k = reqs[r].key =>
               \/ q.key = k /\ (rows'[k] = rows[k] \/ rows'[k] = None)
               \/ q.key = None /\ Failures(k)' <= Failures(k) + 1
          /\ q.key \in {reqs[r].key, None}
    BY <1>1, <1>7, StepCounts
  <2>2. /\ Cardinality(Pending(k)) \in Nat /\ Cardinality(Pending(k)') \in Nat
        /\ (q.key = k <=> reqs[r].key = k) =>
             Cardinality(Pending(k)') = Cardinality(Pending(k))
        /\ reqs[r].key = k /\ q.key # k =>
             Cardinality(Pending(k)') = Cardinality(Pending(k)) - 1
    BY <1>1, <2>1, PendingSize
  <2>3. rows'[k] = rows[k] \/ rows'[k] = None => Failures(k)' <= Failures(k)
    BY <1>3 DEF Failures
  <2>4. k # None /\ passed' = passed
    BY <1>7, KeysAssumption DEF limVars
  <2>5. CASE k # reqs[r].key
    BY <1>3, <1>4, <1>6, <2>1, <2>2, <2>3, <2>4, <2>5
  <2>6. CASE k = reqs[r].key /\ q.key = k
    BY <1>3, <1>4, <1>6, <2>1, <2>2, <2>3, <2>4, <2>6
  <2>7. CASE k = reqs[r].key /\ q.key = None
    BY <1>3, <1>4, <1>6, <2>1, <2>2, <2>4, <2>7
  <2>. QED
    BY <2>1, <2>5, <2>6, <2>7
<1>8. ASSUME NEW r \in Requests, NEW p \in Principals, NEW j \in IPs,
             Begin(r, lockoutKey(p, j)), UNCHANGED <<now, rows, excused, blind>>
      PROVE  /\ Failures(k)' = Failures(k)
             /\ Cardinality(Pending(k)) \in Nat /\ Cardinality(Pending(k)') \in Nat
             /\ Cardinality(Pending(k)') <= Cardinality(Pending(k)) + 1
             /\ k # lockoutKey(p, j) =>
                  Cardinality(Pending(k)') = Cardinality(Pending(k))
  <2>. DEFINE q == [step |-> "check", key |-> lockoutKey(p, j), at |-> 0]
  <2>1. q \in Request /\ q.key = lockoutKey(p, j) /\ Become(r, q)
    BY <1>8, AddressAssumption DEF Begin, Request, Keys
  <2>2. reqs[r].key # k
    BY <1>1, <1>8, KeysAssumption DEF Begin, LockInv
  <2>. HIDE DEF q
  <2>3. /\ Cardinality(Pending(k)) \in Nat /\ Cardinality(Pending(k)') \in Nat
        /\ q.key # k => Cardinality(Pending(k)') = Cardinality(Pending(k))
        /\ q.key = k => Cardinality(Pending(k)') = Cardinality(Pending(k)) + 1
    BY <1>1, <2>1, <2>2, PendingSize
  <2>. QED
    BY <1>8, <2>1, <2>3 DEF Failures
<1>9. ASSUME NEW r \in Requests, NEW p \in Principals, NEW j \in IPs, Arrive(r, p, j)
      PROVE  Failures(k)' + Cardinality(Pending(k)') <= passed'[ip]
  <2>1. /\ Allow(j) /\ UNCHANGED <<now, rows, excused, blind>>
        /\ lockoutKey(p, j)[2] = j
    BY <1>9 DEF Arrive, lockoutKey
  <2>2. \/ /\ verdict' = "pass" /\ passed' = [passed EXCEPT ![j] = @ + 1]
           /\ Begin(r, lockoutKey(p, j))
        \/ passed' = passed /\ UNCHANGED reqs
    <3>1. \/ verdict' = "pass" /\ passed' = [passed EXCEPT ![j] = @ + 1]
          \/ verdict' = "refuse" /\ passed' = passed
      BY <1>1, <2>1, AllowFacts
    <3>. QED
      BY <1>9, <3>1 DEF Arrive
  <2>3. CASE passed' = passed /\ UNCHANGED reqs
    BY <1>6, <2>1, <2>3 DEF Failures, Pending
  <2>4. CASE passed' = [passed EXCEPT ![j] = @ + 1] /\ Begin(r, lockoutKey(p, j))
    <3>1. /\ Failures(k)' = Failures(k)
          /\ Cardinality(Pending(k)) \in Nat /\ Cardinality(Pending(k)') \in Nat
          /\ Cardinality(Pending(k)') <= Cardinality(Pending(k)) + 1
          /\ k # lockoutKey(p, j) =>
               Cardinality(Pending(k)') = Cardinality(Pending(k))
      BY <1>8, <2>1, <2>4
    <3>2. CASE ip = j
      BY <1>3, <1>4, <1>6, <2>4, <3>1, <3>2
    <3>3. CASE ip # j
      <4>1. k # lockoutKey(p, j) /\ passed'[ip] = passed[ip]
        BY <1>4, <1>5, <2>1, <2>4, <3>3
      <4>. QED
        BY <1>6, <3>1, <4>1
    <3>. QED
      BY <3>2, <3>3
  <2>. QED
    BY <2>2, <2>3, <2>4
<1>10. ASSUME NEW r \in Requests, NEW p \in Principals, NEW j \in IPs,
              ArriveElsewhere(r, p, j)
       PROVE  Failures(k)' + Cardinality(Pending(k)') <= passed'[ip]
  <2>1. /\ Begin(r, lockoutKey(p, j)) /\ UNCHANGED <<now, rows, excused, blind, passed>>
        /\ lockoutKey(p, j)[2] = None
    BY <1>10 DEF ArriveElsewhere, lockoutKey, limVars
  <2>2. k # lockoutKey(p, j)
    BY <1>5, <2>1, SourcesAssumption, AddressAssumption
  <2>. QED
    BY <1>6, <1>8, <2>1, <2>2
<1>11. CASE UNCHANGED <<reqs, rows, passed>>
  BY <1>6, <1>11 DEF Failures, Pending
<1>. QED
  BY <1>7, <1>9, <1>10, <1>11 DEF Next, vars, limVars, lockVars

\* Neither a burst of concurrent requests nor a lock that expires gets a guess
\* past both guards: every guess counted or in flight passed the limiter.
THEOREM GuessesArePaidFor == Spec => []GuessesPaidFor
<1>1. Init => GuardInv
  <2>. SUFFICES ASSUME Init PROVE GuardInv
    OBVIOUS
  <2>1. LimInv /\ LockInv
    BY LimInitInv, LockInitInv DEF Init
  <2>2. \A k \in Keys : Failures(k) = 0 /\ Pending(k) = {}
    BY IdleFacts, KeysAssumption DEF Init, LockInit, Failures, Pending
  <2>3. \A ip \in IPs : passed[ip] = 0
    BY DEF Init, LimInit
  <2>. QED
    BY <2>1, <2>2, <2>3, FS_EmptySet, GuardInvParts DEF PaidOK
<1>2. GuardInv => GuessesPaidFor
  BY DEF GuardInv, GuessesPaidFor
<1>. QED
  BY <1>1, <1>2, GuardNextInv, PTL DEF Spec
=============================================================================
