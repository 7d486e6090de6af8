----------------------------- MODULE SigningKeys -----------------------------
(***************************************************************************)
(* The signing keys of the server: KeyManager and the handlers that use    *)
(* it, on any number of instances over one signing_keys table.  Each action*)
(* is one statement; the two writes of Rotate are not one transaction.  The*)
(* rotate-keys command takes no mutex.                                     *)
(***************************************************************************)
EXTENDS Naturals, Processes

CONSTANTS
    Keys,       \* kids that can be generated
    Callers,    \* calls in flight: token requests, boots, rotations
    Bootable,   \* whether the table may be empty at the start
    MayFail     \* whether statements fail and processes die half way

ASSUME KeysAssumption == None \notin Keys
ASSUME CallersAssumption == None \notin Callers
ASSUME SwitchAssumption == Bootable \in BOOLEAN /\ MayFail \in BOOLEAN

VARIABLES
    row,     \* signing_keys: the IsActive flag of every kid
    calls,   \* the local state of every call
    mutex,   \* API.rotateMu of every instance: its holder
    latest,  \* history: the kid stored last
    signed,  \* history: the kids tokens have been signed with
    mixed    \* history: rotations overlapped that share no mutex, a bootstrap
             \* raced, or a rotation was cut short after its first write

vars == <<row, calls, mutex, latest, signed, mixed>>

Status == {"absent", "active", "retired"}

Via == Instances \cup Commands

\* key is the key the call works with: the one to sign with, or the one to
\* retire.
Call == [step : {"idle", "bootstrap", "sign", "generate", "retire"},
         key : Keys \cup {None}, via : Via \cup {None}]

Done == [step |-> "idle", key |-> None, via |-> None]

Stored == {k \in Keys : row[k] # "absent"}
Active == {k \in Keys : row[k] = "active"}

\* Mutant: only the active keys are published.
ActiveOnly == Active

\* PublicJWKSet: GetAll, active and retired.
JWKS == Stored

TypeOK ==
    /\ row \in [Keys -> Status]
    /\ calls \in [Callers -> Call]
    /\ mutex \in [Instances -> Callers \cup {None}]
    /\ latest \in Keys \cup {None}
    /\ signed \subseteq Keys
    /\ mixed \in BOOLEAN

\* Either an empty table, or what `migrate` left: one active key.
Init ==
    /\ \/ Bootable /\ latest = None
       \/ latest \in Keys
    /\ row = [k \in Keys |-> IF k = latest THEN "active" ELSE "absent"]
    /\ calls = [p \in Callers |-> Done]
    /\ mutex = [i \in Instances |-> None]
    /\ signed = {}
    /\ mixed = FALSE

\* Rotation in flight: it has read the key to retire and has not done so.
Rotates(p) == calls[p].step \in {"generate", "retire"}
Rotating == \E p \in Callers : Rotates(p)

\* Store of a fresh key by generateActive.
Insert(k) ==
    /\ row[k] = "absent"
    /\ row' = [row EXCEPT ![k] = "active"]
    /\ latest' = k

-----------------------------------------------------------------------------
(* EnsureActiveKey, called for every token, JWKS document and boot. *)

\* GetActive returns some active row (whichever comes first by primary key).
EnsureRead(p) ==
    /\ calls[p].step = "idle"
    /\ \/ \E k \in Active :
            calls' = [calls EXCEPT ![p] =
              [step |-> "sign", key |-> k, via |-> None]]
       \/ /\ Active = {}
          /\ calls' = [calls EXCEPT ![p] =
               [step |-> "bootstrap", key |-> None, via |-> None]]
    /\ UNCHANGED <<row, mutex, latest, signed, mixed>>

\* None was active: store a fresh one and go on with it.
Bootstrap(p, k) ==
    /\ calls[p].step = "bootstrap"
    /\ Insert(k)
    /\ calls' = [calls EXCEPT ![p].step = "sign", ![p].key = k]
    /\ mixed' = (mixed \/ Active # {} \/ Rotating)
    /\ UNCHANGED <<mutex, signed>>

\* IssueAccessToken and IssueIDToken sign with the key PrivateJWK returned.
Sign(p) ==
    /\ calls[p].step = "sign"
    /\ signed' = signed \cup {calls[p].key}
    /\ calls' = [calls EXCEPT ![p] = Done]
    /\ UNCHANGED <<row, mutex, latest, mixed>>

-----------------------------------------------------------------------------
(* KeyManager.Rotate, by the admin API under its mutex or by the command. *)

Release(p) ==
    mutex' = [i \in Instances |-> IF mutex[i] = p THEN None ELSE mutex[i]]

\* Whether another rotation is in flight that the mutex of via does not hold off.
Overlaps(via) ==
    \E q \in Callers : Rotates(q) /\ (calls[q].via # via \/ via \in Commands)

\* Mutant: the previous key is retired before the next one is stored.
RotateReadRetires(p, via) ==
    /\ calls[p].step = "idle"
    /\ via \in Instances => mutex[via] = None
    /\ \E k \in Active :
         /\ row' = [row EXCEPT ![k] = "retired"]
         /\ calls' = [calls EXCEPT ![p] =
              [step |-> "generate", key |-> None, via |-> via]]
    /\ UNCHANGED <<mutex, latest, signed, mixed>>

\* Mutant: the admin API does not take its mutex.
RotateReadUnlocked(p, via) ==
    /\ calls[p].step = "idle"
    /\ \E k \in Active :
         calls' = [calls EXCEPT ![p] =
           [step |-> "generate", key |-> k, via |-> via]]
    /\ mixed' = (mixed \/ Overlaps(via))
    /\ UNCHANGED <<row, mutex, latest, signed>>

\* The mutex is taken, then the key to retire is read; there may be none.
RotateRead(p, via) ==
    /\ calls[p].step = "idle"
    /\ via \in Instances => mutex[via] = None
    /\ mutex' = [i \in Instances |-> IF i = via THEN p ELSE mutex[i]]
    /\ \E k \in IF Active = {} THEN {None} ELSE Active :
         calls' = [calls EXCEPT ![p] =
           [step |-> "generate", key |-> k, via |-> via]]
    /\ mixed' = (mixed \/ Overlaps(via))
    /\ UNCHANGED <<row, latest, signed>>

\* generateActive; with nothing to retire the rotation is over.
RotateStore(p, k) ==
    /\ calls[p].step = "generate"
    /\ Insert(k)
    /\ IF calls[p].key # None
       THEN /\ calls' = [calls EXCEPT ![p].step = "retire"]
            /\ UNCHANGED mutex
       ELSE /\ calls' = [calls EXCEPT ![p] = Done]
            /\ Release(p)
    /\ UNCHANGED <<signed, mixed>>

\* Store of the copy read before, with IsActive = false.
RotateRetire(p) ==
    /\ calls[p].step = "retire"
    /\ row' = [row EXCEPT ![calls[p].key] = "retired"]
    /\ calls' = [calls EXCEPT ![p] = Done]
    /\ Release(p)
    /\ UNCHANGED <<latest, signed, mixed>>

\* A statement fails or the process dies: the handler returns (its mutex is
\* released by defer) or is gone.
Fail(p) ==
    /\ MayFail
    /\ calls[p].step # "idle"
    /\ calls' = [calls EXCEPT ![p] = Done]
    /\ Release(p)
    /\ mixed' = (mixed \/ calls[p].step = "retire")
    /\ UNCHANGED <<row, latest, signed>>

Next ==
    \E p \in Callers :
        \/ EnsureRead(p)
        \/ \E k \in Keys : Bootstrap(p, k)
        \/ Sign(p)
        \/ \E via \in Via : RotateRead(p, via)
        \/ \E k \in Keys : RotateStore(p, k)
        \/ RotateRetire(p)
        \/ Fail(p)

Spec == Init /\ [][Next]_vars

-----------------------------------------------------------------------------
(* Properties. *)

\* "there is never a moment without an active key" (Rotate): once a key has
\* been stored, some key is active, even when rotations of several instances
\* and the command interleave, fail and die half way.
AlwaysAnActiveKey == Stored # {} => Active # {}

\* "tokens signed with it remain verifiable": whatever has been signed, the key
\* set published now has the key.
TokensStayVerifiable == signed \subseteq JWKS

\* Between rotations one key is active (Rotate "retires the current one"), unless
\* rotations that no common mutex serialises overlapped, two boots raced, or a
\* rotation was cut short: API.rotateMu is what keeps the rotations of one
\* instance apart.
OneActiveBetweenRotations ==
    ~mixed /\ ~Rotating => \A j, k \in Active : j = k

\* The strengthening of the latter: whoever rotates through an instance holds its
\* mutex, and without mixed there is one rotation, which knows the active key.
SerialInv ==
    /\ \A p \in Callers :
         Rotates(p) => /\ calls[p].via \in Via
                       /\ calls[p].via \in Instances => mutex[calls[p].via] = p
    /\ ~mixed =>
         /\ \A p, q \in Callers : Rotates(p) /\ Rotates(q) => p = q
         /\ \A p \in Callers :
              /\ calls[p].step = "generate" => Active \subseteq {calls[p].key}
              /\ calls[p].step = "retire" => Active \subseteq {calls[p].key, latest}
    /\ OneActiveBetweenRotations

\* The strengthening: the key stored last is active and no rotation is about
\* to retire it.
LatestIsActive ==
    /\ latest = None <=> Stored = {}
    /\ latest # None => row[latest] = "active"
    /\ \A p \in Callers :
         calls[p].step = "retire" => calls[p].key \in Stored \ {latest}

KeysInv ==
    /\ TypeOK
    /\ LatestIsActive
    /\ \A p \in Callers :
         /\ calls[p].step = "generate" /\ calls[p].key # None
              => calls[p].key \in Stored
         /\ calls[p].step = "sign" => calls[p].key \in Stored
    /\ TokensStayVerifiable
=============================================================================
