-------------------------- MODULE ClientAuth_proofs --------------------------
(***************************************************************************)
(* Proofs about ClientAuth, for any clients, assertions, registrations and *)
(* instances, any skew, and any number of requests and restarts.           *)
(***************************************************************************)
EXTENDS ClientAuth, FiniteSetTheorems, TLAPS

\* AuthInv in parts: the acceptances of one process, and one request.
Remembered(x) ==
    /\ x.n <= Cardinality(accepted)
    /\ x.boot <= boots[x.inst]
    /\ \/ now > x.exp
       \/ x.boot < boots[x.inst]
       \/ seen[x.inst][<<x.client, x.jti>>] = x.exp

RowsKept == \A c \in Clients : clients[c] # None => clients[c] \in rows[c]

AllEstablished == \A r \in Requests : Established(reqs[r])

AllRemembered == \A x \in accepted : Remembered(x)

LEMMA AuthInvParts ==
    /\ AuthInv <=> /\ TypeOK /\ IsFiniteSet(accepted) /\ AllRemembered
                   /\ NoReplayBeforeExpiry
                   /\ RowsKept /\ AllEstablished /\ EarnedUnderOneRegistration
    /\ AuthInv' <=> /\ TypeOK' /\ IsFiniteSet(accepted)' /\ AllRemembered'
                    /\ NoReplayBeforeExpiry'
                    /\ RowsKept' /\ AllEstablished' /\ EarnedUnderOneRegistration'
BY DEF AuthInv, AllRemembered, Remembered, RowsKept, AllEstablished

LEMMA IdleFacts == Idle \in Request /\ Idle.step = "idle" /\ Established(Idle)
BY DEF Idle, Request, Established

\* What the fields of a request under way are.
LEMMA RequestFacts ==
    ASSUME AuthInv, NEW r \in Requests, reqs[r].step # "idle"
    PROVE  LET q == reqs[r] IN
           /\ q \in Request /\ Established(q)
           /\ q.inst \in Instances /\ q.id \in Clients
           /\ q.client \in rows[q.id] /\ q.client \in Client
           /\ q.step # "grant" \/ q.client.method # "none" =>
                /\ q.assertion \in Assertions /\ q.assertion \in Assertion
                /\ q.client.method = "private_key_jwt"
BY AssertionsAssumption DEF AuthInv, TypeOK, Established

\* A step of one request, the registrations left alone.
LEMMA RequestGoesOn ==
    ASSUME AuthInv, NEW r \in Requests, NEW q \in Request, Established(q), Become(r, q),
           UNCHANGED <<clients, rows>>
    PROVE  reqs' \in [Requests -> Request] /\ RowsKept' /\ AllEstablished'
<1>1. reqs \in [Requests -> Request]
  BY DEF AuthInv, TypeOK
<1>2. /\ reqs' \in [Requests -> Request] /\ reqs'[r] = q
      /\ \A s \in Requests \ {r} : reqs'[s] = reqs[s]
  BY <1>1 DEF Become
<1>3. RowsKept'
  BY DEF AuthInv, RowsKept
<1>4. ASSUME NEW s \in Requests
      PROVE  Established(reqs[s])'
  BY <1>2, AuthInvParts DEF AllEstablished, Established
<1>. QED
  BY <1>2, <1>3, <1>4 DEF AllEstablished

\* Whatever leaves the caches and the history alone leaves them consistent.
LEMMA CachesAlone ==
    ASSUME AuthInv, UNCHANGED <<now, seen, boots, accepted>>
    PROVE  AllRemembered' /\ NoReplayBeforeExpiry' /\ IsFiniteSet(accepted)'
BY DEF AuthInv, AllRemembered, Remembered, NoReplayBeforeExpiry

\* What was earned stays earned, as the registrations a client had are kept.
LEMMA StillEarned ==
    ASSUME AuthInv, UNCHANGED issued, \A c \in Clients : rows[c] \subseteq rows'[c]
    PROVE  EarnedUnderOneRegistration'
BY DEF AuthInv, TypeOK, EarnedUnderOneRegistration

-----------------------------------------------------------------------------
LEMMA InitInv == Init => AuthInv
<1>. SUFFICES ASSUME Init PROVE AuthInv
  OBVIOUS
<1>1. TypeOK
  BY IdleFacts, NoneAssumption DEF Init, TypeOK, EmptyCache
<1>2. AllEstablished
  BY IdleFacts DEF Init, AllEstablished
<1>. QED
  BY <1>1, <1>2, FS_EmptySet, AuthInvParts DEF Init, AllRemembered,
     NoReplayBeforeExpiry, RowsKept, EarnedUnderOneRegistration

LEMMA AdvanceInv ==
    ASSUME AuthInv, Advance, UNCHANGED <<clients, seen, reqs, boots, rows, accepted, issued>>
    PROVE  AuthInv'
<1>1. now \in Nat /\ now' = now + 1
  BY DEF AuthInv, TypeOK, Advance
<1>2. \A x \in accepted : x.exp \in Nat
  BY DEF AuthInv, TypeOK, Acceptance
<1>3. ASSUME NEW x \in accepted
      PROVE  Remembered(x)'
  <2>1. Remembered(x) /\ x.exp \in Nat
    BY <1>2, AuthInvParts DEF AllRemembered
  <2>2. now > x.exp => now' > x.exp
    BY <1>1, <2>1
  <2>. QED
    BY <2>1, <2>2 DEF Remembered
<1>4. TypeOK'
  <2>1. TypeOK /\ now' \in Nat
    BY <1>1 DEF AuthInv
  <2>. QED
    BY <2>1, Zenon DEF TypeOK
<1>5. AllRemembered'
  BY <1>3 DEF AllRemembered
<1>6. RowsKept' /\ AllEstablished'
  BY AuthInvParts DEF RowsKept, AllEstablished, Established
<1>7. NoReplayBeforeExpiry'
  BY AuthInvParts DEF NoReplayBeforeExpiry
<1>. QED
  BY <1>4, <1>5, <1>6, <1>7, StillEarned, AuthInvParts

LEMMA RegisterInv ==
    ASSUME AuthInv, NEW c \in Clients, NEW row \in Registrations, Register(c, row)
    PROVE  AuthInv'
<1>1. /\ row \in Client /\ TypeOK
      /\ clients' = [clients EXCEPT ![c] = row]
      /\ rows' = [rows EXCEPT ![c] = @ \cup {row}]
      /\ UNCHANGED <<now, seen, reqs, boots, accepted, issued>>
  BY RegistrationsAssumption DEF Register, AuthInv
<1>2. \A d \in Clients : rows[d] \subseteq rows'[d]
  BY <1>1 DEF TypeOK
<1>3. TypeOK'
  BY <1>1 DEF TypeOK
<1>4. RowsKept'
  BY <1>1, <1>2 DEF AuthInv, TypeOK, RowsKept
<1>5. AllEstablished'
  BY <1>1, <1>2 DEF AuthInv, AllEstablished, Established
<1>. QED
  BY <1>1, <1>2, <1>3, <1>4, <1>5, CachesAlone, StillEarned, AuthInvParts

LEMMA UnregisterInv ==
    ASSUME AuthInv, NEW c \in Clients, Unregister(c)
    PROVE  AuthInv'
<1>1. /\ clients' = [clients EXCEPT ![c] = None]
      /\ UNCHANGED <<now, seen, reqs, boots, rows, accepted, issued>>
  BY DEF Unregister
<1>2. TypeOK' /\ RowsKept' /\ AllEstablished'
  BY <1>1 DEF AuthInv, TypeOK, RowsKept, AllEstablished, Established
<1>. QED
  BY <1>1, <1>2, CachesAlone, StillEarned, AuthInvParts

\* A process forgets with its cache what it was that it had accepted, and its
\* requests with it.
LEMMA RestartInv ==
    ASSUME AuthInv, NEW i \in Instances, Restart(i)
    PROVE  AuthInv'
<1>1. /\ boots' = [boots EXCEPT ![i] = @ + 1]
      /\ seen' = [seen EXCEPT ![i] = EmptyCache]
      /\ reqs' = [r \in Requests |-> IF reqs[r].inst = i THEN Idle ELSE reqs[r]]
      /\ UNCHANGED <<now, clients, rows, accepted, issued>>
  BY DEF Restart
<1>2. EmptyCache \in [Clients \X Jtis -> Nat \cup {None}]
  BY DEF EmptyCache
<1>3. TypeOK'
  BY <1>1, <1>2, IdleFacts DEF AuthInv, TypeOK
<1>4. ASSUME NEW x \in accepted
      PROVE  Remembered(x)'
  <2>1. /\ Remembered(x) /\ x.inst \in Instances /\ x.boot \in Nat /\ x.exp \in Nat
        /\ boots \in [Instances -> Nat] /\ DOMAIN seen = Instances
    BY AuthInvParts DEF AllRemembered, TypeOK, Acceptance
  <2>2. boots'[x.inst] = IF x.inst = i THEN boots[x.inst] + 1 ELSE boots[x.inst]
    BY <1>1, <2>1
  <2>3. x.inst # i => seen'[x.inst] = seen[x.inst]
    BY <1>1, <2>1
  <2>. QED
    BY <1>1, <2>1, <2>2, <2>3 DEF Remembered
<1>5. AllEstablished'
  BY <1>1, IdleFacts DEF AuthInv, AllEstablished, Established
<1>. QED
  BY <1>1, <1>3, <1>4, <1>5, StillEarned, AuthInvParts DEF AllRemembered,
     NoReplayBeforeExpiry, RowsKept

LEMMA AuthenticateInv ==
    ASSUME AuthInv, NEW r \in Requests, NEW i \in Instances, NEW c \in Clients,
           NEW a \in Assertions, AuthenticateClient(r, i, c, a)
    PROVE  AuthInv'
<1>1. /\ clients[c] \in rows[c] /\ clients[c] \in Client
      /\ UNCHANGED <<now, clients, seen, boots, rows, accepted, issued>>
  BY DEF AuthInv, TypeOK, AuthenticateClient
<1>2. PICK q \in Request : Become(r, q) /\ Established(q)
  <2>. DEFINE p == [step |-> "grant", inst |-> i, id |-> c, client |-> clients[c],
                    assertion |-> None]
              v == [step |-> "verify", inst |-> i, id |-> c, client |-> clients[c],
                    assertion |-> a]
  <2>1. CASE clients[c].method = "none" /\ Become(r, p)
    BY <1>1, <2>1 DEF Request, Established
  <2>2. CASE clients[c].method = "private_key_jwt" /\ Become(r, v)
    BY <1>1, <2>2 DEF Request, Established
  <2>. QED
    BY <2>1, <2>2 DEF AuthenticateClient
<1>. QED
  BY <1>1, <1>2, RequestGoesOn, CachesAlone, StillEarned, AuthInvParts DEF TypeOK

LEMMA VerifyInv ==
    ASSUME AuthInv, NEW r \in Requests, Verify(r)
    PROVE  AuthInv'
<1>1. /\ reqs[r].step = "verify"
      /\ UNCHANGED <<now, clients, seen, boots, rows, accepted, issued>>
  BY DEF Verify
<1>2. PICK q \in Request : Become(r, q) /\ Established(q)
  <2>1. CASE ClaimsHold(reqs[r], now)
    <3>. DEFINE s == [reqs[r] EXCEPT !.step = "store"]
    <3>1. s \in Request /\ Become(r, s)
      BY <1>1, <2>1, RequestFacts DEF Verify, Request
    <3>2. /\ s.step = "store" /\ s.inst = reqs[r].inst /\ s.id = reqs[r].id
          /\ s.client = reqs[r].client /\ s.assertion = reqs[r].assertion
      BY <1>1, RequestFacts DEF Request
    <3>3. Established(s)
      BY <1>1, <2>1, <3>2, RequestFacts DEF ClaimsHold, Established
    <3>. QED
      BY <3>1, <3>3
  <2>2. CASE ~ClaimsHold(reqs[r], now)
    BY <2>2, IdleFacts DEF Verify
  <2>. QED
    BY <2>1, <2>2
<1>. QED
  BY <1>1, <1>2, RequestGoesOn, CachesAlone, StillEarned, AuthInvParts DEF TypeOK

\* The lazy GC forgets only what has expired.
LEMMA KeptFacts ==
    ASSUME NEW cache \in [Clients \X Jtis -> Nat \cup {None}], NEW t \in Nat
    PROVE  /\ Kept(cache, t) \in [Clients \X Jtis -> Nat \cup {None}]
           /\ \A x \in Clients \X Jtis :
                /\ Kept(cache, t)[x] # None => Kept(cache, t)[x] = cache[x]
                /\ Kept(cache, t)[x] = None /\ cache[x] # None => cache[x] < t
BY DEF Kept

\* A jti is burnt: the process accepts it again only when it has expired.
LEMMA CheckAndStoreInv ==
    ASSUME AuthInv, NEW r \in Requests, CheckAndStore(r)
    PROVE  AuthInv'
<1>. DEFINE q == reqs[r]
            x == <<q.id, q.assertion.jti>>
            kept == Kept(seen[q.inst], now)
<1>1. /\ q.step = "store" /\ UNCHANGED <<now, clients, boots, rows, issued>>
      /\ TypeOK /\ now \in Nat /\ AllRemembered /\ IsFiniteSet(accepted)
  BY AuthInvParts DEF CheckAndStore, TypeOK
<1>2. /\ q \in Request /\ Established(q) /\ q.inst \in Instances /\ q.id \in Clients
      /\ q.assertion \in Assertions /\ q.assertion.jti \in Jtis
      /\ q.assertion.exp \in Nat
      /\ q.client.method = "private_key_jwt" /\ q.assertion.key \in q.client.keys
      /\ q.client \in rows[q.id]
  BY <1>1, RequestFacts DEF Established, Assertion
<1>3. /\ x \in Clients \X Jtis
      /\ seen[q.inst] \in [Clients \X Jtis -> Nat \cup {None}]
      /\ seen \in [Instances -> [Clients \X Jtis -> Nat \cup {None}]]
  BY <1>1, <1>2 DEF TypeOK
<1>4. kept \in [Clients \X Jtis -> Nat \cup {None}]
  BY <1>1, <1>3, KeptFacts
\* What is still remembered after the GC, where it is neither expired nor x.
<1>5. ASSUME NEW y \in accepted, NEW m \in [Clients \X Jtis -> Nat \cup {None}],
             seen' = [seen EXCEPT ![q.inst] = m],
             \A z \in Clients \X Jtis : z = x \/ m[z] = kept[z],
             m[x] = kept[x] \/ kept[x] = None
      PROVE  /\ y.boot <= boots[y.inst]
             /\ \/ now > y.exp
                \/ y.boot < boots[y.inst]
                \/ seen'[y.inst][<<y.client, y.jti>>] = y.exp
  <2>1. /\ Remembered(y) /\ y.inst \in Instances /\ y.exp \in Nat
        /\ <<y.client, y.jti>> \in Clients \X Jtis /\ None \notin Nat
    BY <1>1, NoneAssumption DEF AllRemembered, TypeOK, Acceptance
  <2>2. CASE y.inst # q.inst
    BY <1>3, <1>5, <2>1, <2>2 DEF Remembered
  <2>3. CASE y.inst = q.inst /\ seen[y.inst][<<y.client, y.jti>>] = y.exp
    <3>1. kept[<<y.client, y.jti>>] = y.exp \/ now > y.exp
      <4>. DEFINE z == <<y.client, y.jti>>
                  cache == seen[q.inst]
      <4>1. cache \in [Clients \X Jtis -> Nat \cup {None}] /\ cache[z] = y.exp
        BY <1>3, <2>3
      <4>2. /\ kept[z] # None => kept[z] = cache[z]
            /\ kept[z] = None /\ cache[z] # None => cache[z] < now
        BY <1>1, <2>1, <4>1, KeptFacts
      <4>. HIDE DEF z, cache, kept
      <4>3. kept[z] = y.exp \/ now > y.exp
        BY <1>1, <2>1, <4>1, <4>2
      <4>. QED
        BY <4>3 DEF z
    <3>2. seen'[q.inst] = m
      BY <1>2, <1>3, <1>5
    <3>3. kept[<<y.client, y.jti>>] = y.exp => m[<<y.client, y.jti>>] = y.exp
      BY <1>5, <2>1
    <3>. QED
      BY <2>1, <2>3, <3>1, <3>2, <3>3 DEF Remembered
  <2>. QED
    BY <2>1, <2>2, <2>3 DEF Remembered
<1>6. CASE kept[x] # None
  <2>1. /\ seen' = [seen EXCEPT ![q.inst] = kept] /\ Become(r, Idle)
        /\ UNCHANGED accepted
    BY <1>6 DEF CheckAndStore
  <2>2. reqs' \in [Requests -> Request] /\ RowsKept' /\ AllEstablished'
    BY <1>1, <2>1, RequestGoesOn, IdleFacts
  <2>3. TypeOK'
    BY <1>1, <1>2, <1>4, <2>1, <2>2 DEF TypeOK
  <2>4. AllRemembered'
    BY <1>1, <1>4, <1>5, <2>1 DEF AllRemembered, Remembered
  <2>. QED
    BY <1>1, <2>1, <2>2, <2>3, <2>4, StillEarned, AuthInvParts DEF NoReplayBeforeExpiry
<1>7. CASE kept[x] = None
  <2>. DEFINE N == Cardinality(accepted)
              g == [q EXCEPT !.step = "grant"]
              y == [n |-> N + 1, inst |-> q.inst, boot |-> boots[q.inst],
                    client |-> q.id, jti |-> q.assertion.jti,
                    exp |-> q.assertion.exp, at |-> now]
              m == [kept EXCEPT ![x] = q.assertion.exp]
  <2>1. /\ seen' = [seen EXCEPT ![q.inst] = m] /\ Become(r, g)
        /\ accepted' = accepted \cup {y}
    BY <1>7 DEF CheckAndStore
  <2>2. /\ g \in Request /\ g.step = "grant" /\ g.inst = q.inst /\ g.id = q.id
        /\ g.client = q.client /\ g.assertion = q.assertion
    BY <1>2 DEF Request
  <2>3. Established(g)
    BY <1>2, <2>2 DEF Established
  <2>4. reqs' \in [Requests -> Request] /\ RowsKept' /\ AllEstablished'
    BY <1>1, <2>1, <2>2, <2>3, RequestGoesOn
  <2>5. N \in Nat /\ \A z \in accepted : z.n \in Nat /\ z.n <= N
    BY <1>1, FS_CardinalityType DEF AllRemembered, Remembered, TypeOK, Acceptance
  <2>6. y \in Acceptance /\ y.n = N + 1 /\ y.exp = q.assertion.exp
        /\ y.inst = q.inst /\ y.boot = boots[q.inst] /\ y.client = q.id
        /\ y.jti = q.assertion.jti /\ y.at = now
    BY <1>1, <1>2, <2>5 DEF Acceptance, TypeOK
  <2>7. m \in [Clients \X Jtis -> Nat \cup {None}] /\ m[x] = y.exp
        /\ \A z \in Clients \X Jtis : z = x \/ m[z] = kept[z]
    BY <1>2, <1>3, <1>4, <2>6
  <2>8. TypeOK'
    <3>1. seen' \in [Instances -> [Clients \X Jtis -> Nat \cup {None}]]
      BY <1>3, <2>1, <2>7
    <3>. HIDE DEF y, m, g
    <3>2. accepted' \subseteq Acceptance
      BY <1>1, <2>1, <2>6 DEF TypeOK
    <3>. QED
      BY <1>1, <2>4, <3>1, <3>2 DEF TypeOK
  <2>. HIDE DEF y, m, g
  <2>9. y \notin accepted
    BY <2>5, <2>6
  <2>10. IsFiniteSet(accepted') /\ Cardinality(accepted') = N + 1
    BY <1>1, <2>1, <2>9, FS_AddElement
  <2>11. AllRemembered'
    <3>1. ASSUME NEW z \in accepted
          PROVE  Remembered(z)'
      <4>1. z.n <= Cardinality(accepted')
        BY <2>5, <2>10
      <4>. QED
        BY <1>1, <1>5, <1>7, <2>1, <2>7, <4>1 DEF Remembered
    <3>2. ASSUME NEW w \in Acceptance, w = y
          PROVE  Remembered(w)'
      <4>1. seen'[q.inst] = m /\ boots[q.inst] \in Nat
        BY <1>1, <1>2, <1>3, <2>1, <2>7 DEF TypeOK
      <4>2. /\ w.n = N + 1 /\ w.inst = q.inst /\ w.boot = boots[q.inst]
            /\ <<w.client, w.jti>> = x /\ m[x] = w.exp
        BY <2>6, <2>7, <3>2
      <4>3. w.n <= Cardinality(accepted') /\ w.boot <= boots'[w.inst]
        BY <1>1, <2>5, <2>10, <4>1, <4>2
      <4>4. seen'[w.inst][<<w.client, w.jti>>] = w.exp
        BY <4>1, <4>2
      <4>. QED
        BY <4>3, <4>4 DEF Remembered
    <3>3. PICK w \in Acceptance : w = y
      BY <2>6
    <3>. QED
      BY <2>1, <3>1, <3>2, <3>3 DEF AllRemembered
  <2>12. ASSUME NEW z \in accepted, SameCache(z, y), SameJti(z, y)
         PROVE  y.at > z.exp
    <3>1. Remembered(z) /\ z.exp \in Nat /\ z.boot = boots[z.inst] /\ z.inst = q.inst
          /\ <<z.client, z.jti>> = x /\ boots[q.inst] \in Nat
      BY <1>1, <1>2, <2>6, <2>12 DEF AllRemembered, SameCache, SameJti, TypeOK, Acceptance
    <3>2. now > z.exp \/ seen[q.inst][x] = z.exp
      BY <3>1 DEF Remembered
    <3>3. None \notin Nat
      BY NoneAssumption
    <3>4. seen[q.inst][x] = z.exp => z.exp < now
      BY <1>1, <1>3, <1>7, <3>1, <3>3, KeptFacts
    <3>. QED
      BY <1>1, <2>6, <3>1, <3>2, <3>4
  <2>13. NoReplayBeforeExpiry'
    <3>1. ASSUME NEW u \in accepted', NEW v \in accepted', u.n < v.n,
                 SameCache(u, v), SameJti(u, v)
          PROVE  v.at > u.exp
      <4>1. u # y
        BY <2>1, <2>5, <2>6, <3>1
      <4>2. CASE v = y
        BY <2>1, <2>12, <3>1, <4>1, <4>2
      <4>3. CASE v # y
        BY <2>1, <3>1, <4>1, <4>3 DEF AuthInv, NoReplayBeforeExpiry
      <4>. QED
        BY <4>2, <4>3
    <3>. QED
      BY <3>1 DEF NoReplayBeforeExpiry, SameCache, SameJti
  <2>. QED
    BY <1>1, <2>4, <2>8, <2>10, <2>11, <2>13, StillEarned, AuthInvParts
<1>. QED
  BY <1>6, <1>7

\* The grant works with the registration the client was authenticated by.
LEMMA ClientCredentialsInv ==
    ASSUME AuthInv, NEW r \in Requests, NEW requested \in SUBSET Scopes,
           ClientCredentials(r, requested)
    PROVE  AuthInv'
<1>. DEFINE q == reqs[r]
            t == [client |-> q.id, key |-> q.assertion.key, scope |-> requested]
<1>1. /\ q.step = "grant" /\ q.client.method # "none"
      /\ q.client.allowClientCredentials /\ requested \subseteq q.client.allowedScopes
      /\ issued' = issued \cup {t} /\ Become(r, Idle)
      /\ UNCHANGED <<now, clients, seen, boots, rows, accepted>>
  BY DEF ClientCredentials
<1>2. /\ q.id \in Clients /\ q.client \in rows[q.id]
      /\ q.client.method = "private_key_jwt"
      /\ q.assertion.key \in q.client.keys /\ q.assertion.key \in Keys
  BY <1>1, RequestFacts DEF Established, Assertion
<1>3. reqs' \in [Requests -> Request] /\ RowsKept' /\ AllEstablished'
  BY <1>1, RequestGoesOn, IdleFacts
<1>4. TypeOK'
  <2>1. t \in [client : Clients, key : Keys, scope : SUBSET Scopes]
    BY <1>2
  <2>. HIDE DEF t
  <2>. QED
    BY <1>1, <1>3, <2>1 DEF AuthInv, TypeOK
<1>5. EarnedUnderOneRegistration'
  BY <1>1, <1>2 DEF AuthInv, EarnedUnderOneRegistration
<1>. QED
  BY <1>1, <1>3, <1>4, <1>5, CachesAlone, AuthInvParts

LEMMA OtherGrantInv ==
    ASSUME AuthInv, NEW r \in Requests, OtherGrant(r)
    PROVE  AuthInv'
<1>1. Become(r, Idle) /\ UNCHANGED <<now, clients, seen, boots, rows, accepted, issued>>
  BY DEF OtherGrant
<1>. QED
  BY <1>1, IdleFacts, RequestGoesOn, CachesAlone, StillEarned, AuthInvParts DEF TypeOK

LEMMA NextInv == AuthInv /\ [Next]_vars => AuthInv'
<1>. SUFFICES ASSUME AuthInv, [Next]_vars PROVE AuthInv'
  OBVIOUS
<1>1. CASE UNCHANGED vars
  BY <1>1 DEF vars, AuthInv, TypeOK, NoReplayBeforeExpiry, Established,
     EarnedUnderOneRegistration
<1>. QED
  BY <1>1, AdvanceInv, RegisterInv, UnregisterInv, RestartInv, AuthenticateInv, VerifyInv,
     CheckAndStoreInv, ClientCredentialsInv, OtherGrantInv DEF Next

\* AuthInv is inductive: an instance that runs remembers what it accepted until
\* it expires, and every request works with one registration of its client.
THEOREM AuthSafe == Spec => []AuthInv
BY InitInv, NextInv, PTL DEF Spec

\* No replay within the life of a process and of the assertion: the mutex of
\* CheckAndStore and its GC at exp suffice, whatever the skew and the races.
THEOREM NoReplay == Spec => []NoReplayBeforeExpiry
<1>1. AuthInv => NoReplayBeforeExpiry
  BY DEF AuthInv
<1>. QED
  BY <1>1, AuthSafe, PTL

\* A token of the client credentials grant was earned under one registration,
\* however the admin API replaced it meanwhile.
THEOREM EarnedOnce == Spec => []EarnedUnderOneRegistration
<1>1. AuthInv => EarnedUnderOneRegistration
  BY DEF AuthInv
<1>. QED
  BY <1>1, AuthSafe, PTL
=============================================================================
