----------------------------- MODULE Keys_proofs -----------------------------
(***************************************************************************)
(* Proofs about SigningKeys, for any number of keys, calls, instances and  *)
(* commands, with and without failures, and about DPKeys, the other kind of*)
(* key that the same instances keep; the two share nothing but these.      *)
(***************************************************************************)
EXTENDS SigningKeys, DPKeys, TLAPS

LEMMA DoneType ==
    /\ Done \in Call
    /\ Done.step = "idle" /\ Done.key = None
BY DEF Done, Call

\* Giving back a mutex keeps the type of all of them.
LEMMA ReleaseType ==
    ASSUME TypeOK, NEW p \in Callers, Release(p)
    PROVE  mutex' \in [Instances -> Callers \cup {None}]
BY DEF TypeOK, Release

\* A call that ends, whatever it leaves in the table, leaves nothing to check
\* about itself.
LEMMA EndedCall ==
    ASSUME TypeOK, NEW p \in Callers, calls' = [calls EXCEPT ![p] = Done]
    PROVE  /\ calls' \in [Callers -> Call]
           /\ calls'[p].step = "idle"
           /\ \A q \in Callers : q # p => calls'[q] = calls[q]
BY DoneType DEF TypeOK

\* mixed is a truth value, whatever a call did.
LEMMA MixedType ==
    ASSUME TypeOK, NEW p \in Callers,
           \/ EnsureRead(p) \/ Sign(p) \/ RotateRetire(p) \/ Fail(p)
           \/ \E k \in Keys : Bootstrap(p, k) \/ RotateStore(p, k)
           \/ \E via \in Via : RotateRead(p, via)
    PROVE  mixed' \in BOOLEAN
BY DEF TypeOK, EnsureRead, Bootstrap, Sign, RotateRead, RotateStore, RotateRetire, Fail

LEMMA InitInv == Init => KeysInv
<1>. SUFFICES ASSUME Init PROVE KeysInv
  OBVIOUS
<1>. USE KeysAssumption
<1>1. \A p \in Callers : calls[p] = Done
  BY DEF Init
<1>2. TypeOK
  BY DoneType DEF Init, TypeOK, Status
<1>3. LatestIsActive
  BY <1>1, DoneType DEF Init, LatestIsActive, Stored
<1>. QED
  BY <1>1, <1>2, <1>3, DoneType DEF Init, KeysInv, TokensStayVerifiable, JWKS

LEMMA EnsureReadInv ==
    ASSUME KeysInv, NEW p \in Callers, EnsureRead(p)
    PROVE  KeysInv'
<1>. USE KeysAssumption
<1>1. PICK k \in Keys \cup {None}, st \in {"sign", "bootstrap"} :
        /\ calls' = [calls EXCEPT ![p] =
             [step |-> st, key |-> k, via |-> None]]
        /\ st = "sign" => k \in Active
  BY DEF EnsureRead, Active
<1>2. UNCHANGED <<row, mutex, latest, signed>>
  BY DEF EnsureRead
<1>3. /\ calls'[p] = [step |-> st, key |-> k, via |-> None]
      /\ \A q \in Callers : q # p => calls'[q] = calls[q]
  BY <1>1 DEF KeysInv, TypeOK
<1>4. TypeOK'
  BY <1>1, <1>2, MixedType DEF KeysInv, TypeOK, Call
<1>5. LatestIsActive'
  BY <1>1, <1>2, <1>3 DEF KeysInv, LatestIsActive, Stored
<1>. QED
  BY <1>1, <1>2, <1>3, <1>4, <1>5 DEF KeysInv, Active,
     Stored, TokensStayVerifiable, JWKS

\* A fresh key takes over as the latest one; no row that was stored changes.
LEMMA InsertFacts ==
    ASSUME KeysInv, NEW k \in Keys, Insert(k)
    PROVE  /\ row' \in [Keys -> Status] /\ latest' = k
           /\ row'[k] = "active" /\ k \notin Stored
           /\ Stored' = Stored \cup {k}
BY DEF KeysInv, TypeOK, Insert, Stored, Status

LEMMA BootstrapInv ==
    ASSUME KeysInv, NEW p \in Callers, NEW k \in Keys, Bootstrap(p, k)
    PROVE  KeysInv'
<1>. USE KeysAssumption
<1>1. calls[p] \in Call /\ calls[p].step = "bootstrap"
  BY DEF KeysInv, TypeOK, Bootstrap
<1>2. /\ calls' \in [Callers -> Call]
      /\ calls'[p].step = "sign" /\ calls'[p].key = k
      /\ \A q \in Callers : q # p => calls'[q] = calls[q]
  BY <1>1 DEF KeysInv, TypeOK, Bootstrap, Call
<1>3. Insert(k) /\ UNCHANGED <<mutex, signed>>
  BY DEF Bootstrap
<1>4. TypeOK'
  BY <1>2, <1>3, InsertFacts, MixedType DEF KeysInv, TypeOK
<1>5. LatestIsActive'
  BY <1>2, <1>3, InsertFacts DEF KeysInv, LatestIsActive
<1>. QED
  BY <1>2, <1>3, <1>4, <1>5, InsertFacts DEF KeysInv, TokensStayVerifiable, JWKS

LEMMA SignInv ==
    ASSUME KeysInv, NEW p \in Callers, Sign(p)
    PROVE  KeysInv'
<1>1. calls[p].key \in Stored
  BY DEF Sign, KeysInv
<1>2. UNCHANGED <<row, mutex, latest>> /\ signed' = signed \cup {calls[p].key}
  BY DEF Sign
<1>3. /\ calls' \in [Callers -> Call]
      /\ calls'[p].step = "idle"
      /\ \A q \in Callers : q # p => calls'[q] = calls[q]
  BY EndedCall DEF Sign, KeysInv
<1>4. TypeOK'
  BY <1>1, <1>2, <1>3, MixedType DEF KeysInv, TypeOK, Stored
<1>5. LatestIsActive'
  BY <1>2, <1>3 DEF KeysInv, LatestIsActive, Stored
<1>. QED
  BY <1>1, <1>2, <1>3, <1>4, <1>5 DEF KeysInv, Stored,
     TokensStayVerifiable, JWKS

LEMMA RotateReadInv ==
    ASSUME KeysInv, NEW p \in Callers, NEW via \in Via, RotateRead(p, via)
    PROVE  KeysInv'
<1>. USE KeysAssumption
<1>1. PICK k \in Keys \cup {None} :
        /\ calls' = [calls EXCEPT ![p] =
             [step |-> "generate", key |-> k, via |-> via]]
        /\ k # None => k \in Active
  BY DEF RotateRead, Active
<1>2. UNCHANGED <<row, latest, signed>>
  BY DEF RotateRead
<1>3. /\ calls'[p] = [step |-> "generate", key |-> k, via |-> via]
      /\ \A q \in Callers : q # p => calls'[q] = calls[q]
  BY <1>1 DEF KeysInv, TypeOK
<1>4. mutex' \in [Instances -> Callers \cup {None}]
  BY DEF RotateRead, KeysInv, TypeOK
<1>5. TypeOK'
  BY <1>1, <1>2, <1>4, MixedType DEF KeysInv, TypeOK, Call
<1>6. LatestIsActive'
  BY <1>1, <1>2, <1>3 DEF KeysInv, LatestIsActive, Stored
<1>. QED
  BY <1>1, <1>2, <1>3, <1>5, <1>6 DEF KeysInv, Active,
     Stored, TokensStayVerifiable, JWKS

\* The key to retire was stored before, so it is not the one stored now.
LEMMA RotateStoreInv ==
    ASSUME KeysInv, NEW p \in Callers, NEW k \in Keys, RotateStore(p, k)
    PROVE  KeysInv'
<1>. USE KeysAssumption
<1>1. /\ calls[p] \in Call /\ calls[p].step = "generate"
      /\ Insert(k) /\ UNCHANGED signed
  BY DEF KeysInv, TypeOK, RotateStore
<1>2. CASE calls[p].key # None
  <2>1. UNCHANGED mutex /\ calls' = [calls EXCEPT ![p].step = "retire"]
    BY <1>2 DEF RotateStore
  <2>2. /\ calls' \in [Callers -> Call]
        /\ calls'[p].step = "retire" /\ calls'[p].key = calls[p].key
        /\ \A q \in Callers : q # p => calls'[q] = calls[q]
    BY <1>1, <2>1 DEF KeysInv, TypeOK, Call
  <2>3. TypeOK'
    BY <1>1, <2>1, <2>2, InsertFacts, MixedType DEF KeysInv, TypeOK
  <2>4. calls[p].key \in Stored
    BY <1>1, <1>2 DEF KeysInv
  <2>5. LatestIsActive'
    BY <1>1, <2>2, <2>4, InsertFacts DEF KeysInv, LatestIsActive
  <2>. QED
    BY <1>1, <2>2, <2>3, <2>5, InsertFacts DEF KeysInv, TokensStayVerifiable, JWKS
<1>3. CASE calls[p].key = None
  <2>1. Release(p) /\ calls' = [calls EXCEPT ![p] = Done]
    BY <1>3 DEF RotateStore
  <2>2. /\ calls' \in [Callers -> Call]
        /\ calls'[p].step = "idle"
        /\ \A q \in Callers : q # p => calls'[q] = calls[q]
    BY <2>1, EndedCall DEF KeysInv
  <2>3. mutex' \in [Instances -> Callers \cup {None}]
    BY <2>1, ReleaseType DEF KeysInv
  <2>4. TypeOK'
    BY <1>1, <2>2, <2>3, InsertFacts, MixedType DEF KeysInv, TypeOK
  <2>5. LatestIsActive'
    BY <1>1, <2>2, InsertFacts DEF KeysInv, LatestIsActive
  <2>. QED
    BY <1>1, <2>2, <2>4, <2>5, InsertFacts DEF KeysInv, TokensStayVerifiable, JWKS
<1>. QED
  BY <1>2, <1>3

LEMMA RotateRetireInv ==
    ASSUME KeysInv, NEW p \in Callers, RotateRetire(p)
    PROVE  KeysInv'
<1>. USE KeysAssumption
<1>1. /\ calls[p].key \in Keys /\ calls[p].key \in Stored \ {latest}
      /\ row' = [row EXCEPT ![calls[p].key] = "retired"]
      /\ calls' = [calls EXCEPT ![p] = Done]
      /\ Release(p) /\ UNCHANGED <<latest, signed>>
  BY DEF RotateRetire, KeysInv, LatestIsActive, Stored
<1>2. Stored' = Stored /\ row' \in [Keys -> Status]
  BY <1>1 DEF KeysInv, TypeOK, Stored, Status
<1>3. TypeOK'
  BY <1>1, <1>2, EndedCall, ReleaseType, MixedType DEF KeysInv, TypeOK
<1>4. latest # None => row'[latest] = "active"
  BY <1>1 DEF KeysInv, LatestIsActive, TypeOK
<1>5. LatestIsActive'
  BY <1>1, <1>2, <1>4, EndedCall DEF KeysInv, LatestIsActive
<1>. QED
  BY <1>1, <1>2, <1>3, <1>5, EndedCall DEF KeysInv, TokensStayVerifiable, JWKS

LEMMA FailInv ==
    ASSUME KeysInv, NEW p \in Callers, Fail(p)
    PROVE  KeysInv'
<1>1. /\ calls' = [calls EXCEPT ![p] = Done]
      /\ Release(p) /\ UNCHANGED <<row, latest, signed>>
  BY DEF Fail
<1>2. TypeOK'
  BY <1>1, EndedCall, ReleaseType, MixedType DEF KeysInv, TypeOK
<1>3. Stored' = Stored
  BY <1>1 DEF Stored
<1>4. LatestIsActive'
  BY <1>1, <1>3, EndedCall DEF KeysInv, LatestIsActive
<1>. QED
  BY <1>1, <1>2, <1>3, <1>4, EndedCall DEF KeysInv, TokensStayVerifiable, JWKS

LEMMA NextInv == KeysInv /\ [Next]_vars => KeysInv'
<1>. SUFFICES ASSUME KeysInv, [Next]_vars PROVE KeysInv'
  OBVIOUS
<1>1. CASE Next
  <2>. PICK p \in Callers :
         \/ EnsureRead(p)
         \/ \E k \in Keys : Bootstrap(p, k)
         \/ Sign(p)
         \/ \E via \in Via : RotateRead(p, via)
         \/ \E k \in Keys : RotateStore(p, k)
         \/ RotateRetire(p)
         \/ Fail(p)
    BY <1>1 DEF Next
  <2>. QED
    BY EnsureReadInv, BootstrapInv, SignInv, RotateReadInv, RotateStoreInv,
       RotateRetireInv, FailInv
<1>2. CASE UNCHANGED vars
  BY <1>2 DEF vars, KeysInv, TypeOK, LatestIsActive, Stored,
     TokensStayVerifiable, JWKS
<1>. QED
  BY <1>1, <1>2

\* KeysInv is an invariant: the key stored last is active, and no rotation in
\* flight, on whichever instance, is about to retire it.
THEOREM KeysSafe == Spec => []KeysInv
BY InitInv, NextInv, PTL DEF Spec

\* Rotate's promise, without serialised rotations: never a moment without an
\* active key.
THEOREM NeverWithoutActiveKey == Spec => []AlwaysAnActiveKey
<1>1. KeysInv => AlwaysAnActiveKey
  BY DEF KeysInv, TypeOK, LatestIsActive, AlwaysAnActiveKey, Stored, Active
<1>. QED
  BY <1>1, KeysSafe, PTL

\* Every token ever signed can be verified against the published key set.
THEOREM SignedTokensVerify == Spec => []TokensStayVerifiable
<1>1. KeysInv => TokensStayVerifiable
  BY DEF KeysInv
<1>. QED
  BY <1>1, KeysSafe, PTL
-----------------------------------------------------------------------------
(* Rotations of one instance are serialised by its mutex. *)

\* A call that ends or goes on with a new record is the only one that changes.
LEMMA OtherCalls ==
    ASSUME TypeOK, NEW p \in Callers, NEW c, calls' = [calls EXCEPT ![p] = c]
    PROVE  calls'[p] = c /\ \A q \in Callers \ {p} : calls'[q] = calls[q]
BY DEF TypeOK

LEMMA InitSerial == Init => SerialInv
<1>. SUFFICES ASSUME Init PROVE SerialInv
  OBVIOUS
<1>1. \A p \in Callers : calls[p].step = "idle"
  BY DoneType DEF Init
<1>2. \A j, k \in Active : j = k
  BY KeysAssumption DEF Init, Active
<1>. QED
  BY <1>1, <1>2 DEF SerialInv, OneActiveBetweenRotations, Rotates, Rotating

\* A call that is no rotation, before and after, and leaves the active keys, the
\* mutexes and the history alone.
LEMMA OutsideSerial ==
    ASSUME KeysInv, SerialInv, NEW p \in Callers, NEW c,
           calls' = [calls EXCEPT ![p] = c],
           c.step \notin {"generate", "retire"}, ~Rotates(p),
           UNCHANGED <<row, mutex, latest, mixed>>
    PROVE  SerialInv'
<1>1. /\ calls'[p] = c
      /\ \A q \in Callers \ {p} : calls'[q] = calls[q]
  BY OtherCalls DEF KeysInv
<1>2. \A q \in Callers : Rotates(q)' <=> Rotates(q)
  BY <1>1 DEF Rotates
<1>3. \A q \in Callers : Rotates(q) => calls'[q] = calls[q]
  BY <1>1
<1>4. Active' = Active
  BY DEF Active
<1>. QED
  BY <1>1, <1>2, <1>3, <1>4 DEF SerialInv, OneActiveBetweenRotations, Rotating, Rotates

\* Without another key or rotation, a bootstrap leaves its key as the only one.
LEMMA BootstrapSerial ==
    ASSUME KeysInv, SerialInv, NEW p \in Callers, NEW k \in Keys, Bootstrap(p, k)
    PROVE  SerialInv'
<1>1. calls[p] \in Call /\ calls[p].step = "bootstrap"
  BY DEF KeysInv, TypeOK, Bootstrap
<1>2. calls'[p].step = "sign" /\ \A q \in Callers \ {p} : calls'[q] = calls[q]
  BY <1>1 DEF KeysInv, TypeOK, Bootstrap, Call
<1>3. \A q \in Callers : Rotates(q)' => Rotates(q) /\ calls'[q] = calls[q]
  BY <1>2 DEF Rotates
<1>4. UNCHANGED mutex
  BY DEF Bootstrap
<1>5. ASSUME ~mixed'
      PROVE  Active' = {k} /\ \A q \in Callers : ~Rotates(q)'
  <2>1. Active = {} /\ ~Rotating
    BY <1>5 DEF Bootstrap
  <2>2. Active' = {k}
    BY <2>1 DEF Bootstrap, Insert, KeysInv, TypeOK, Active
  <2>. QED
    BY <1>3, <2>1, <2>2 DEF Rotating
<1>. QED
  BY <1>3, <1>4, <1>5 DEF SerialInv, OneActiveBetweenRotations, Rotating, Rotates

\* A rotation that finds its instance's mutex free and overlaps no other one is
\* alone, so what it reads is the only active key.
LEMMA RotateReadSerial ==
    ASSUME KeysInv, SerialInv, NEW p \in Callers, NEW via \in Via, RotateRead(p, via)
    PROVE  SerialInv'
<1>. USE CallersAssumption, CommandsAssumption
<1>1. PICK k \in Keys \cup {None} :
        /\ calls' = [calls EXCEPT ![p] =
             [step |-> "generate", key |-> k, via |-> via]]
        /\ IF Active = {} THEN k = None ELSE k \in Active
  BY DEF RotateRead, Active
<1>2. /\ calls'[p] = [step |-> "generate", key |-> k, via |-> via]
      /\ \A q \in Callers \ {p} : calls'[q] = calls[q]
  BY <1>1, OtherCalls DEF KeysInv
<1>3. /\ calls'[p].step = "generate" /\ calls'[p].key = k /\ calls'[p].via = via
      /\ \A q \in Callers : q # p /\ Rotates(q)' => Rotates(q) /\ calls'[q] = calls[q]
  BY <1>2 DEF Rotates
<1>4. /\ ~Rotates(p) /\ (via \in Instances => mutex[via] = None)
      /\ Active' = Active /\ latest' = latest
      /\ \A i \in Instances : mutex'[i] = IF i = via THEN p ELSE mutex[i]
  BY DEF RotateRead, Rotates, Active
<1>5. \A q \in Callers :
         Rotates(q)' => /\ calls'[q].via \in Via
                        /\ calls'[q].via \in Instances => mutex'[calls'[q].via] = q
  BY <1>3, <1>4 DEF SerialInv
<1>6. ASSUME ~mixed'
      PROVE  ~mixed /\ \A q \in Callers : ~Rotates(q)
  <2>1. ~mixed /\ ~Overlaps(via)
    BY <1>6 DEF RotateRead
  <2>2. \A q \in Callers : Rotates(q) => calls[q].via = via /\ via \in Instances
    BY <2>1 DEF Overlaps, Via
  <2>. QED
    BY <1>4, <2>1, <2>2 DEF SerialInv
<1>7. ~mixed' => Active \subseteq {k}
  BY <1>1, <1>6 DEF SerialInv, OneActiveBetweenRotations, Rotating, RotateRead
<1>8. ~mixed' => \A q \in Callers : Rotates(q)' => q = p
  BY <1>3, <1>6
<1>9. Rotating' /\ calls'[p].step # "retire"
  BY <1>3 DEF Rotating, Rotates
<1>. QED
  BY <1>3, <1>4, <1>5, <1>7, <1>8, <1>9 DEF SerialInv, OneActiveBetweenRotations,
     Rotates

\* What a rotation that ends gives back is its own.
LEMMA ReleaseOwn ==
    ASSUME KeysInv, SerialInv, NEW p \in Callers,
           calls' = [calls EXCEPT ![p] = Done], Release(p)
    PROVE  /\ \A q \in Callers : Rotates(q)' => /\ q # p /\ Rotates(q)
                                                /\ calls'[q] = calls[q]
           /\ \A q \in Callers :
                Rotates(q)' => /\ calls'[q].via \in Via
                               /\ calls'[q].via \in Instances => mutex'[calls'[q].via] = q
<1>1. calls'[p].step = "idle" /\ \A q \in Callers \ {p} : calls'[q] = calls[q]
  BY OtherCalls, DoneType DEF KeysInv
<1>2. \A q \in Callers : Rotates(q)' => q # p /\ Rotates(q) /\ calls'[q] = calls[q]
  BY <1>1 DEF Rotates
<1>. QED
  BY <1>2 DEF SerialInv, Release

LEMMA RotateStoreSerial ==
    ASSUME KeysInv, SerialInv, NEW p \in Callers, NEW k \in Keys, RotateStore(p, k)
    PROVE  SerialInv'
<1>. USE KeysAssumption
<1>1. /\ calls[p] \in Call /\ calls[p].step = "generate" /\ Rotates(p)
      /\ Insert(k) /\ latest' = k /\ mixed' = mixed
  BY DEF KeysInv, TypeOK, RotateStore, Rotates, Insert
<1>2. Active' = Active \cup {k}
  BY <1>1 DEF Insert, KeysInv, TypeOK, Active
<1>3. ~mixed => /\ Active \subseteq {calls[p].key}
                /\ \A q \in Callers : Rotates(q) => q = p
  BY <1>1 DEF SerialInv
<1>4. CASE calls[p].key # None
  <2>1. calls' = [calls EXCEPT ![p].step = "retire"] /\ UNCHANGED mutex
    BY <1>4 DEF RotateStore
  <2>2. /\ calls'[p].step = "retire" /\ calls'[p].key = calls[p].key
        /\ calls'[p].via = calls[p].via
        /\ \A q \in Callers \ {p} : calls'[q] = calls[q]
    BY <1>1, <2>1 DEF KeysInv, TypeOK, Call
  <2>3. \A q \in Callers : /\ Rotates(q)' <=> Rotates(q)
                           /\ calls'[q].via = calls[q].via
    BY <1>1, <2>2 DEF Rotates
  <2>4. Rotating'
    BY <1>1, <2>3 DEF Rotating
  <2>. QED
    BY <1>1, <1>2, <1>3, <2>1, <2>2, <2>3, <2>4 DEF SerialInv,
       OneActiveBetweenRotations, Rotates
<1>5. CASE calls[p].key = None
  <2>1. Release(p) /\ calls' = [calls EXCEPT ![p] = Done]
    BY <1>5 DEF RotateStore
  <2>2. ~mixed => Active' \subseteq {k} /\ \A q \in Callers : ~Rotates(q)'
    BY <1>2, <1>3, <1>5, <2>1, ReleaseOwn DEF Active
  <2>. QED
    BY <1>1, <2>1, <2>2, ReleaseOwn DEF SerialInv, OneActiveBetweenRotations, Rotates
<1>. QED
  BY <1>4, <1>5

LEMMA RotateRetireSerial ==
    ASSUME KeysInv, SerialInv, NEW p \in Callers, RotateRetire(p)
    PROVE  SerialInv'
<1>1. /\ Rotates(p) /\ calls[p].step = "retire" /\ calls' = [calls EXCEPT ![p] = Done]
      /\ Release(p) /\ mixed' = mixed
  BY DEF RotateRetire, Rotates
<1>2. Active' = Active \ {calls[p].key}
  BY DEF RotateRetire, KeysInv, TypeOK, Active
<1>3. ~mixed => /\ Active' \subseteq {latest}
                /\ \A q \in Callers : ~Rotates(q)'
  BY <1>1, <1>2, ReleaseOwn DEF SerialInv
<1>. QED
  BY <1>1, <1>3, ReleaseOwn DEF SerialInv, OneActiveBetweenRotations, Rotates

\* A rotation cut short before its first write leaves the table as it was.
LEMMA FailSerial ==
    ASSUME KeysInv, SerialInv, NEW p \in Callers, Fail(p)
    PROVE  SerialInv'
<1>1. /\ calls' = [calls EXCEPT ![p] = Done] /\ Release(p)
      /\ Active' = Active /\ latest' = latest
      /\ ~mixed' => ~mixed /\ calls[p].step # "retire"
  BY DEF Fail, Active
<1>2. CASE calls[p].step = "generate"
  <2>1. ~mixed => /\ \A q \in Callers : ~Rotates(q)'
                  /\ Active \subseteq {calls[p].key}
    BY <1>1, <1>2, ReleaseOwn DEF SerialInv, Rotates
  <2>2. ~mixed' => /\ \A j, k \in Active' : j = k
                   /\ \A q \in Callers : ~Rotates(q)'
    BY <1>1, <2>1
  <2>3. \A q \in Callers : Rotates(q)' <=> calls'[q].step \in {"generate", "retire"}
    BY DEF Rotates
  <2>. QED
    BY <1>1, <2>2, <2>3, ReleaseOwn DEF SerialInv, OneActiveBetweenRotations
<1>3. CASE calls[p].step # "generate"
  <2>1. ~mixed' => \A q \in Callers : Rotates(q) => Rotates(q)' /\ calls'[q] = calls[q]
    BY <1>1, <1>3, OtherCalls DEF Rotates, KeysInv
  <2>2. ~mixed' => /\ ~mixed
                   /\ Rotating => Rotating'
                   /\ \A q \in Callers : Rotates(q)' => Rotates(q) /\ calls'[q] = calls[q]
    BY <1>1, <2>1, ReleaseOwn DEF Rotating
  <2>3. OneActiveBetweenRotations'
    BY <1>1, <2>2 DEF SerialInv, OneActiveBetweenRotations
  <2>4. ~mixed' => \A q, r \in Callers : Rotates(q)' /\ Rotates(r)' => q = r
    BY <2>2 DEF SerialInv
  <2>5. ASSUME ~mixed', NEW q \in Callers
        PROVE  /\ calls'[q].step = "generate" => Active' \subseteq {calls'[q].key}
               /\ calls'[q].step = "retire" => Active' \subseteq {calls'[q].key, latest'}
    <3>1. Rotates(q)' <=> calls'[q].step \in {"generate", "retire"}
      BY DEF Rotates
    <3>. QED
      BY <1>1, <2>2, <2>5, <3>1 DEF SerialInv
  <2>. QED
    BY <1>1, <2>3, <2>4, <2>5, ReleaseOwn DEF SerialInv
<1>. QED
  BY <1>2, <1>3

LEMMA NextSerial == KeysInv /\ SerialInv /\ [Next]_vars => SerialInv'
<1>. SUFFICES ASSUME KeysInv, SerialInv, [Next]_vars PROVE SerialInv'
  OBVIOUS
<1>1. ASSUME NEW p \in Callers, EnsureRead(p)
      PROVE  SerialInv'
  <2>1. PICK k \in Keys \cup {None}, st \in {"sign", "bootstrap"} :
          calls' = [calls EXCEPT ![p] =
            [step |-> st, key |-> k, via |-> None]]
    BY <1>1 DEF EnsureRead, Active
  <2>. QED
    BY <1>1, <2>1, OutsideSerial DEF EnsureRead, Rotates
<1>2. ASSUME NEW p \in Callers, Sign(p)
      PROVE  SerialInv'
  BY <1>2, OutsideSerial, DoneType DEF Sign, Rotates
<1>3. CASE UNCHANGED vars
  <2>1. Active' = Active /\ \A p \in Callers : Rotates(p)' <=> Rotates(p)
    BY <1>3 DEF vars, Active, Rotates
  <2>. QED
    BY <1>3, <2>1 DEF vars, SerialInv, OneActiveBetweenRotations, Rotating
<1>. QED
  BY <1>1, <1>2, <1>3, BootstrapSerial, RotateReadSerial, RotateStoreSerial,
     RotateRetireSerial, FailSerial DEF Next

\* API.rotateMu at work: as long as no rotations overlapped that share no mutex,
\* no two boots raced and no rotation was cut short after its first write, the
\* table has one active key whenever no rotation is in flight.
THEOREM OneActiveKey == Spec => []OneActiveBetweenRotations
<1>1. SerialInv => OneActiveBetweenRotations
  BY DEF SerialInv
<1>. QED
  BY <1>1, InitSerial, NextSerial, KeysSafe, PTL DEF Spec

-----------------------------------------------------------------------------
(* The data-protection ring. *)

LEMMA RingInitInv == RingInit => RingInv
BY DEF RingInit, RingInv, RingTypeOK, BootSteps, RotateState, AtRest,
       SignsWithStoredKey, RingStored

\* A step of an instance: rows are only added, and a key is signed with only
\* once its row is there.
LEMMA RingInstance ==
    ASSUME RingInv, NEW i \in Instances,
           \/ BootRead(i)
           \/ \E k \in RingKeys : BootStore(i, k)
           \/ BootLoad(i)
           \/ Stop(i)
           \/ SetCookie(i)
    PROVE  RingInv'
<1>. USE DEF RingInv, RingTypeOK, BootSteps, SignsWithStoredKey, RingStored
<1>1. CASE BootRead(i)
  BY <1>1 DEF BootRead, RingActive
<1>2. CASE \E k \in RingKeys : BootStore(i, k)
  <2>. PICK k \in RingKeys : BootStore(i, k)
    BY <1>2
  <2>. QED
    BY DEF BootStore
<1>3. CASE BootLoad(i)
  BY <1>3 DEF BootLoad
<1>4. CASE Stop(i)
  BY <1>4 DEF Stop
<1>5. CASE SetCookie(i)
  BY <1>5 DEF SetCookie
<1>. QED
  BY <1>1, <1>2, <1>3, <1>4, <1>5

\* A step of a rotation never takes a row away.
LEMMA RingCommand ==
    ASSUME RingInv, NEW c \in Commands,
           \/ RingRead(c)
           \/ RingRetire(c)
           \/ \E k \in RingKeys : RingStore(c, k)
           \/ RingDies(c)
    PROVE  RingInv'
<1>. USE DEF RingInv, RingTypeOK, RotateState, AtRest, SignsWithStoredKey, RingStored
<1>1. CASE RingRead(c)
  BY <1>1 DEF RingRead, RingActive
<1>2. CASE RingRetire(c)
  BY <1>2 DEF RingRetire
<1>3. CASE \E k \in RingKeys : RingStore(c, k)
  <2>. PICK k \in RingKeys : RingStore(c, k)
    BY <1>3
  <2>. QED
    BY DEF RingStore
<1>4. CASE RingDies(c)
  BY <1>4 DEF RingDies
<1>. QED
  BY <1>1, <1>2, <1>3, <1>4

LEMMA RingNextInv == RingInv /\ [RingNext]_ringVars => RingInv'
<1>. SUFFICES ASSUME RingInv, [RingNext]_ringVars PROVE RingInv'
  OBVIOUS
<1>1. CASE RingNext
  BY <1>1, RingInstance, RingCommand DEF RingNext
<1>2. CASE UNCHANGED ringVars
  BY <1>2 DEF ringVars, RingInv, RingTypeOK, SignsWithStoredKey, RingStored
<1>. QED
  BY <1>1, <1>2

\* Every key that signs, and every key a browser holds a cookie of, has a row.
THEOREM RingSafe == RingSpec => []RingInv
BY RingInitInv, RingNextInv, PTL DEF RingSpec

\* An instance never signs with a key that is not in the table.
THEOREM SigningKeysStored == RingSpec => []SignsWithStoredKey
<1>1. RingInv => SignsWithStoredKey
  BY DEF RingInv
<1>. QED
  BY <1>1, RingSafe, PTL

\* An instance that comes up decodes every cookie handed out so far, through
\* any number of rotations, restarts and crashes.
THEOREM RestartsDecode == RingSpec => RestartDecodesAll
<1>1. RingInv /\ [RingNext]_ringVars =>
        [\A i \in Instances :
           boot[i] # "up" /\ boot'[i] = "up" => cookies \subseteq ring'[i]]_ringVars
  <2>. SUFFICES ASSUME RingInv, RingNext, NEW i \in Instances,
                       boot[i] # "up", boot'[i] = "up"
                PROVE  cookies \subseteq ring'[i]
    OBVIOUS
  <2>1. BootLoad(i)
    <3>1. ~(\E c \in Commands :
              \/ RingRead(c)
              \/ RingRetire(c)
              \/ \E k \in RingKeys : RingStore(c, k)
              \/ RingDies(c))
      BY DEF RingRead, RingRetire, RingStore, RingDies
    <3>2. PICK j \in Instances :
            \/ BootRead(j)
            \/ \E k \in RingKeys : BootStore(j, k)
            \/ BootLoad(j)
            \/ Stop(j)
            \/ SetCookie(j)
      BY <3>1 DEF RingNext
    <3>3. BootLoad(j)
      BY <3>2 DEF BootRead, BootStore, Stop, SetCookie, RingInv, RingTypeOK
    <3>4. j = i
      BY <3>3 DEF BootLoad, RingInv, RingTypeOK
    <3>. QED
      BY <3>3, <3>4
  <2>2. ring'[i] = RingStored \cup {active[i]}
    BY <2>1 DEF BootLoad, RingInv, RingTypeOK
  <2>. QED
    BY <2>2 DEF RingInv
<1>. QED
  BY <1>1, RingSafe, PTL DEF RingSpec, RestartDecodesAll
=============================================================================
