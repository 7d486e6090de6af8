------------------------------ MODULE LoginGuard ------------------------------
(***************************************************************************)
(* The login endpoint as the router mounts it: the rate limiter of the     *)
(* route first, then the handler and its lockout check.  The limiter lives *)
(* in one process, the lockout rows in the database, where requests on     *)
(* other routes, behind limiters of their own, use them too.               *)
(***************************************************************************)
EXTENDS RateLimiter, LoginLockout

CONSTANT MaxCounted   \* bound of the model: failures counted by other routes

ASSUME CountedAssumption ==
    MaxCounted \in Nat /\ MaxCounted > MaxFailures + Cardinality(Requests)

ASSUME AddressAssumption == IPs = Sources

vars == <<now, limVars, lockVars>>

Init == now = 0 /\ LimInit /\ LockInit

\* Mutant: the handler runs whatever the limiter says.
ArriveUnlimited(r, p, ip) ==
    /\ p \notin Throttles
    /\ Allow(ip)
    /\ Begin(r, lockoutKey(p, ip))
    /\ UNCHANGED <<now, rows, excused, blind>>

\* Middleware: a refused request is answered 429 and never reaches the handler.
Arrive(r, p, ip) ==
    /\ p \notin Throttles
    /\ Allow(ip)
    /\ IF verdict' = "pass" THEN Begin(r, lockoutKey(p, ip))
                            ELSE reqs[r].step = "idle" /\ UNCHANGED reqs
    /\ UNCHANGED <<now, rows, excused, blind>>

\* A forgotten password: it may pass the limiter of its own route at any time.
ArriveElsewhere(r, p, ip) ==
    /\ p \in Throttles
    /\ LET row == rows[lockoutKey(p, ip)] IN
       row # None => row.failures < MaxCounted
    /\ Begin(r, lockoutKey(p, ip))
    /\ UNCHANGED <<now, limVars, rows, excused, blind>>

Next ==
    \/ Advance /\ UNCHANGED <<limVars, lockVars>>
    \/ \E r \in Requests, p \in Principals, ip \in IPs :
         Arrive(r, p, ip) \/ ArriveElsewhere(r, p, ip)
    \/ \E r \in Requests : LockStep(r) /\ UNCHANGED <<now, limVars>>

Spec == Init /\ [][Next]_vars

\* Guesses counted against the keys of one address never exceed what its
\* bucket has let through: neither a burst of concurrent requests nor an
\* expiring lock gets a guess past both guards.
GuessesPaidFor ==
    \A ip \in IPs :
        \A k \in Keys :
            k[2] = ip /\ rows[k] # None =>
                rows[k].failures
                  + Cardinality({r \in Requests : reqs[r].key = k})
                  <= passed[ip]

\* The strengthening: a request in flight has been paid for, whether or not its
\* key has a row.
GuardInv ==
    /\ LimInv
    /\ LockInv
    /\ \A ip \in IPs : \A k \in Keys :
         k[2] = ip =>
             (IF rows[k] = None THEN 0 ELSE rows[k].failures)
               + Cardinality({r \in Requests : reqs[r].key = k})
               <= passed[ip]
=============================================================================
