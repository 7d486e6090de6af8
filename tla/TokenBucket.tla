----------------------------- MODULE TokenBucket -----------------------------
(***************************************************************************)
(* What the rate limiter promises: one bucket per address that is never    *)
(* forgotten.  A request takes a token and passes, or finds the bucket     *)
(* empty and is refused; time refills the bucket up to the burst.          *)
(***************************************************************************)
EXTENDS Naturals

CONSTANTS IPs, Rate, Burst

VARIABLES level, verdict

Take(ip) ==
    /\ level[ip] >= 1
    /\ level' = [level EXCEPT ![ip] = @ - 1]
    /\ verdict' = "pass"

Refuse(ip) ==
    /\ level[ip] = 0
    /\ verdict' = "refuse"
    /\ UNCHANGED level

Refill ==
    /\ level' = [ip \in IPs |-> IF level[ip] + Rate > Burst THEN Burst
                                                           ELSE level[ip] + Rate]
    /\ UNCHANGED verdict

BucketInit == level = [ip \in IPs |-> Burst] /\ verdict = "none"

BucketNext == Refill \/ \E ip \in IPs : Take(ip) \/ Refuse(ip)

BucketSpec == BucketInit /\ [][BucketNext]_<<level, verdict>>
=============================================================================
