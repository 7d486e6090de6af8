----------------------------- MODULE LoginLockout -----------------------------
(***************************************************************************)
(* The lockout tracker and the requests that consult it: logins, password  *)
(* changes on the profile page, and the throttle on forgotten passwords.   *)
(* Every action is the code up to one database statement; the transaction  *)
(* of RecordFailure is one step where the row exists (it holds a row lock) *)
(* and two where it does not (there is nothing to lock).                   *)
(***************************************************************************)
EXTENDS Clock, Integers, FiniteSets

CONSTANTS
    Principals,       \* accounts, as the lockout keys name them
    Throttles,        \* the "pwreset:" keys among them
    Sources,          \* client addresses
    Requests,         \* requests in flight, on any instance
    MaxFailures, LockoutDuration, ResetAfter,
    LookupMayFail,    \* whether statements of the tracker may fail
    MaxBlind,         \* bound of the model: failed lookups per key
    None

ASSUME PrincipalsAssumption == Throttles \subseteq Principals
ASSUME RequestsAssumption == IsFiniteSet(Requests)
ASSUME SourcesAssumption == None \notin Sources \cup Nat
ASSUME LookupAssumption == LookupMayFail \in BOOLEAN /\ MaxBlind \in Nat

\* The defaults are 5 failures and 15 minutes for both durations.
ASSUME LockoutAssumption ==
    /\ MaxFailures \in Nat /\ MaxFailures >= 2
    /\ LockoutDuration \in Nat /\ ResetAfter \in Nat

VARIABLES
    rows,     \* login_attempts
    reqs,     \* the local state of every request
    excused,  \* history: per key, the requests that were past their check when
              \* the lock was set, or whose check failed
    blind     \* history: per key, how many checks have failed

lockVars == <<rows, reqs, excused, blind>>

Row == [failures : Nat, firstAt : Nat, lockedAt : Nat \cup {None}]

ASSUME RowAssumption == None \notin Row

\* username|ip for passwords; the reset throttle is per account.
lockoutKey(p, src) == IF p \in Throttles THEN <<p, None>> ELSE <<p, src>>

Keys == {lockoutKey(p, src) : p \in Principals, src \in Sources}

ASSUME KeysAssumption == None \notin Keys

PastCheck == {"clear", "validate", "record", "insert", "reset"}

Request == [step : {"idle", "check"} \cup PastCheck, key : Keys \cup {None},
            at : Nat]

Idle == [step |-> "idle", key |-> None, at |-> 0]

LockTypeOK ==
    /\ now \in Nat
    /\ rows \in [Keys -> Row \cup {None}]
    /\ reqs \in [Requests -> Request]
    /\ excused \in [Keys -> SUBSET Requests]
    /\ blind \in [Keys -> Nat]

LockInit ==
    /\ rows = [k \in Keys |-> None]
    /\ reqs = [r \in Requests |-> Idle]
    /\ excused = [k \in Keys |-> {}]
    /\ blind = [k \in Keys |-> 0]

\* The lock that IsLockedOut reports.
Locked(row, t) ==
    /\ row # None
    /\ row.lockedAt # None
    /\ t - row.lockedAt < LockoutDuration

WindowElapsed(row, t) == t - row.firstAt > ResetAfter

InForce(k) == Locked(rows[k], now)

Become(r, q) == reqs' = [reqs EXCEPT ![r] = q]

\* The request has answered, or goes on without the tracker.
Finish(r) ==
    /\ Become(r, Idle)
    /\ excused' = [k \in Keys |-> excused[k] \ {r}]
    /\ UNCHANGED blind

-----------------------------------------------------------------------------
(* IsLockedOut *)

\* A password is checked next; on the throttle every request just counts.
Proceed(q) ==
    IF q.key[1] \in Throttles
    THEN [q EXCEPT !.step = "record", !.at = now]
    ELSE [q EXCEPT !.step = "validate"]

Begin(r, k) ==
    /\ reqs[r].step = "idle"
    /\ Become(r, [step |-> "check", key |-> k, at |-> 0])

\* Mutant: the window is looked at before the lock.
CheckWindowFirst(r) ==
    LET q == reqs[r]
        row == rows[q.key] IN
    /\ q.step = "check"
    /\ IF row # None /\ WindowElapsed(row, now)
       THEN Become(r, [q EXCEPT !.step = "clear"]) /\ UNCHANGED <<rows, excused, blind>>
       ELSE IF Locked(row, now)
       THEN Finish(r) /\ UNCHANGED rows
       ELSE Become(r, Proceed(q)) /\ UNCHANGED <<rows, excused, blind>>

\* A locked key ends the request; a stale row is deleted by a statement of its
\* own, whatever has become of it.
Check(r) ==
    LET q == reqs[r]
        row == rows[q.key] IN
    /\ q.step = "check"
    /\ IF Locked(row, now)
       THEN Finish(r) /\ UNCHANGED rows
       ELSE /\ Become(r, IF row # None /\ WindowElapsed(row, now)
                         THEN [q EXCEPT !.step = "clear"] ELSE Proceed(q))
            /\ UNCHANGED <<rows, excused, blind>>

\* The lookup fails: logged, and taken for "not locked".
CheckFails(r) ==
    LET q == reqs[r] IN
    /\ LookupMayFail
    /\ q.step = "check"
    /\ blind[q.key] < MaxBlind
    /\ Become(r, Proceed(q))
    /\ excused' = [excused EXCEPT ![q.key] = @ \cup {r}]
    /\ blind' = [blind EXCEPT ![q.key] = @ + 1]
    /\ UNCHANGED rows

\* Also when the DELETE fails the answer is "not locked".
Clear(r) ==
    LET q == reqs[r] IN
    /\ q.step = "clear"
    /\ \/ rows' = [rows EXCEPT ![q.key] = None]
       \/ LookupMayFail /\ UNCHANGED rows
    /\ Become(r, Proceed(q))
    /\ UNCHANGED <<excused, blind>>

-----------------------------------------------------------------------------
(* The password check, RecordFailure and Reset *)

\* ValidateCredentials; RecordFailure reads the clock before its transaction.
Validate(r) ==
    LET q == reqs[r] IN
    /\ q.step = "validate"
    /\ \/ Become(r, [q EXCEPT !.step = "record", !.at = now])
       \/ Become(r, [q EXCEPT !.step = "reset"])
    /\ UNCHANGED <<rows, excused, blind>>

\* The user store fails, or the request dies.
Abandon(r) ==
    /\ LookupMayFail
    /\ reqs[r].step # "idle"
    /\ Finish(r)
    /\ UNCHANGED rows

\* Mutant: the threshold is passed before the lock is set.
CountedLate(row, t) ==
    IF WindowElapsed(row, t)
    THEN [failures |-> 1, firstAt |-> t, lockedAt |-> None]
    ELSE [row EXCEPT !.failures = @ + 1,
                     !.lockedAt = IF row.failures >= MaxFailures /\ @ = None
                                  THEN t ELSE @]

\* The row after one more failure at t.
Counted(row, t) ==
    IF WindowElapsed(row, t)
    THEN [failures |-> 1, firstAt |-> t, lockedAt |-> None]
    ELSE [row EXCEPT !.failures = @ + 1,
                     !.lockedAt = IF row.failures + 1 >= MaxFailures /\ @ = None
                                  THEN t ELSE @]

\* Requests other than r that are past their check on k.
InFlight(k, r) ==
    {q \in Requests \ {r} : reqs[q].key = k /\ reqs[q].step \in PastCheck}

\* SELECT ... FOR UPDATE, then Save: one step under the row lock.  Without a
\* row the transaction goes on to its INSERT.
Record(r) ==
    LET q == reqs[r]
        row == rows[q.key] IN
    /\ q.step = "record"
    /\ IF row = None
       THEN Become(r, [q EXCEPT !.step = "insert"]) /\ UNCHANGED <<rows, excused, blind>>
       ELSE LET counted == Counted(row, q.at) IN
            /\ rows' = [rows EXCEPT ![q.key] = counted]
            /\ Become(r, Idle)
            /\ excused' = [k \in Keys |->
                 IF k = q.key /\ row.lockedAt = None /\ counted.lockedAt # None
                 THEN InFlight(k, r) ELSE excused[k] \ {r}]
            /\ UNCHANGED blind

\* The second of two first failures meets the primary key of the first: an
\* error, which the handlers log or drop, and its failure is not counted.
Insert(r) ==
    LET q == reqs[r] IN
    /\ q.step = "insert"
    /\ rows' = [rows EXCEPT ![q.key] =
         IF @ = None THEN [failures |-> 1, firstAt |-> q.at, lockedAt |-> None]
         ELSE @]
    /\ Finish(r)

\* Reset after a correct password; its error is only logged.
Reset(r) ==
    LET q == reqs[r] IN
    /\ q.step = "reset"
    /\ \/ rows' = [rows EXCEPT ![q.key] = None]
       \/ LookupMayFail /\ UNCHANGED rows
    /\ Finish(r)

LockStep(r) ==
    \/ Check(r) \/ CheckFails(r) \/ Clear(r) \/ Validate(r) \/ Record(r)
    \/ Insert(r) \/ Reset(r) \/ Abandon(r)

LockNext ==
    \/ Advance /\ UNCHANGED lockVars
    \/ /\ \E r \in Requests :
            \/ LockStep(r)
            \/ \E k \in Keys : Begin(r, k) /\ UNCHANGED <<rows, excused, blind>>
       /\ UNCHANGED now

LockSpec == now = 0 /\ LockInit /\ [][LockNext]_<<now, lockVars>>

-----------------------------------------------------------------------------
(* Properties. *)

\* "a locked caller cannot keep guessing": under a lock, no more failures are
\* counted than the threshold and one for every other request that was in
\* flight when the lock was set or whose lookup failed.
GuessesUnderLock ==
    \A k \in Keys :
        InForce(k) => rows[k].failures <= MaxFailures + Cardinality(Requests) - 1
                                          + blind[k]

\* A lock is lifted before its time only by a request that had passed its own
\* check before the lock was set (a correct password, a stale DELETE, a late
\* failure that opens a new window) or whose check failed: never by a newcomer.
LockLiftedByOldRequestsOnly ==
    [][\A k \in Keys :
         InForce(k) /\ ~InForce(k)' /\ now' = now =>
             \E r \in excused[k] : reqs[r]' # reqs[r]]_<<now, lockVars>>

\* The strengthening: under a lock only excused requests are past their check,
\* each of them has one failure left to count, and nothing is dated in the
\* future.
LockInv ==
    /\ LockTypeOK
    /\ \A r \in Requests :
         /\ reqs[r].step = "idle" <=> reqs[r].key = None
         /\ reqs[r].at <= now
    /\ \A k \in Keys :
         /\ rows[k] # None =>
              /\ rows[k].firstAt <= now
              /\ rows[k].lockedAt # None => rows[k].lockedAt <= now
              /\ rows[k].lockedAt = None => rows[k].failures < MaxFailures
         /\ InForce(k) =>
              /\ \A r \in Requests :
                   reqs[r].key = k /\ reqs[r].step \in PastCheck => r \in excused[k]
              /\ rows[k].failures + Cardinality(excused[k])
                   <= MaxFailures + Cardinality(Requests) - 1 + blind[k]
=============================================================================
