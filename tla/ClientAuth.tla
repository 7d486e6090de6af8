------------------------------ MODULE ClientAuth ------------------------------
(***************************************************************************)
(* Client authentication at the token and revocation endpoints and the     *)
(* client credentials grant: the client row is read once, the assertion is *)
(* verified against that copy, its jti is burnt in the replay cache of the *)
(* process, and the grant works with the same copy.  The cache is shared   *)
(* by both endpoints of an instance and by nothing else.                   *)
(***************************************************************************)
EXTENDS Clock, FiniteSets

CONSTANTS
    Clients, Keys, Scopes,
    Assertions,   \* the assertions the outside world holds, good and bad
    Jtis,
    Registrations, \* what the admin API may store for a client
    Instances,    \* server processes
    Requests,
    Skew,         \* AUTH_CLIENT_ASSERTION_CLOCK_SKEW
    MaxAccepted,  \* bound of the model: assertions accepted in all
    MaxRows,      \* bound of the model: registrations of one client
    None

ASSUME SkewAssumption == Skew \in Nat /\ MaxAccepted \in Nat /\ MaxRows \in Nat

\* iss, sub and aud are reduced to what is compared with: issuer is the client
\* both name (None if they differ), aud whether one audience is the server's.
Assertion == [issuer : Clients \cup {None}, key : Keys, asymmetric : BOOLEAN,
              aud : BOOLEAN, exp : Nat \cup {None}, jti : Jtis \cup {None}]

ASSUME AssertionsAssumption == Assertions \subseteq Assertion

\* The columns of a client that these endpoints read.
Methods == {"none", "private_key_jwt", "other"}

Client == [method : Methods, keys : SUBSET Keys, allowClientCredentials : BOOLEAN,
           allowedScopes : SUBSET Scopes]

ASSUME RegistrationsAssumption == Registrations \subseteq Client

ASSUME NoneAssumption == None \notin Client \cup Clients \cup Jtis \cup Nat

VARIABLES
    clients,   \* oauth_clients
    seen,      \* MemAssertionCache.seen of every instance: jti -> exp
    reqs,      \* the local state of every request
    boots,     \* history: how often an instance has been started
    rows,      \* history: the registrations each client has had
    accepted,  \* history: the assertions accepted, numbered
    issued     \* history: tokens issued by the client credentials grant

vars == <<now, clients, seen, reqs, boots, rows, accepted, issued>>

Request == [step : {"idle", "verify", "store", "grant"}, inst : Instances \cup {None},
            id : Clients \cup {None}, client : Client \cup {None},
            assertion : Assertions \cup {None}]

Idle == [step |-> "idle", inst |-> None, id |-> None, client |-> None,
         assertion |-> None]

Acceptance == [n : Nat, inst : Instances, boot : Nat, client : Clients,
               jti : Jtis, exp : Nat, at : Nat]

TypeOK ==
    /\ now \in Nat
    /\ clients \in [Clients -> Client \cup {None}]
    /\ seen \in [Instances -> [Clients \X Jtis -> Nat \cup {None}]]
    /\ reqs \in [Requests -> Request]
    /\ boots \in [Instances -> Nat]
    /\ rows \in [Clients -> SUBSET Client]
    /\ accepted \subseteq Acceptance
    /\ issued \subseteq [client : Clients, key : Keys, scope : SUBSET Scopes]

EmptyCache == [x \in Clients \X Jtis |-> None]

Init ==
    /\ now = 0
    /\ clients = [c \in Clients |-> None]
    /\ seen = [i \in Instances |-> EmptyCache]
    /\ reqs = [r \in Requests |-> Idle]
    /\ boots = [i \in Instances |-> 1]
    /\ rows = [c \in Clients |-> {}]
    /\ accepted = {}
    /\ issued = {}

Become(r, q) == reqs' = [reqs EXCEPT ![r] = q]

-----------------------------------------------------------------------------
(* The registration, as the admin API leaves it. *)

Register(c, row) ==
    /\ Cardinality(rows[c] \cup {row}) <= MaxRows
    /\ clients' = [clients EXCEPT ![c] = row]
    /\ rows' = [rows EXCEPT ![c] = @ \cup {row}]
    /\ UNCHANGED <<now, seen, reqs, boots, accepted, issued>>

Unregister(c) ==
    /\ clients[c] # None
    /\ clients' = [clients EXCEPT ![c] = None]
    /\ UNCHANGED <<now, seen, reqs, boots, rows, accepted, issued>>

\* A process is restarted: its requests are gone and its cache is empty.
Restart(i) ==
    /\ boots[i] < 2
    /\ boots' = [boots EXCEPT ![i] = @ + 1]
    /\ seen' = [seen EXCEPT ![i] = EmptyCache]
    /\ reqs' = [r \in Requests |-> IF reqs[r].inst = i THEN Idle ELSE reqs[r]]
    /\ UNCHANGED <<now, clients, rows, accepted, issued>>

-----------------------------------------------------------------------------
(* AuthenticateClient *)

\* FindByClientID; a public client is authenticated by its id alone, and an
\* unknown method is refused.
AuthenticateClient(r, i, c, a) ==
    /\ reqs[r].step = "idle"
    /\ clients[c] # None
    /\ \/ /\ clients[c].method = "none"
          /\ Become(r, [step |-> "grant", inst |-> i, id |-> c,
                        client |-> clients[c], assertion |-> None])
       \/ /\ clients[c].method = "private_key_jwt"
          /\ Become(r, [step |-> "verify", inst |-> i, id |-> c,
                        client |-> clients[c], assertion |-> a])
    /\ UNCHANGED <<now, clients, seen, boots, rows, accepted, issued>>

\* The checks of VerifyClientAssertion but the last: jwx accepts exp until
\* Skew after it.
ClaimsHold(q, t) ==
    LET a == q.assertion IN
    /\ q.client.keys # {}
    /\ a.asymmetric
    /\ a.key \in q.client.keys
    /\ a.issuer = q.id
    /\ a.aud
    /\ a.exp # None /\ t < a.exp + Skew
    /\ a.jti # None

Verify(r) ==
    /\ reqs[r].step = "verify"
    /\ Become(r, IF ClaimsHold(reqs[r], now) THEN [reqs[r] EXCEPT !.step = "store"]
                                             ELSE Idle)
    /\ UNCHANGED <<now, clients, seen, boots, rows, accepted, issued>>

\* Mutant: an entry goes at its exp, not after it.
KeptUntilExp(cache, t) ==
    [x \in DOMAIN cache |-> IF cache[x] # None /\ cache[x] <= t THEN None
                            ELSE cache[x]]

\* The lazy GC of CheckAndStore, with the clock read again.
Kept(cache, t) ==
    [x \in DOMAIN cache |-> IF cache[x] # None /\ cache[x] < t THEN None
                            ELSE cache[x]]

\* CheckAndStore, under the mutex of the cache.
CheckAndStore(r) ==
    LET q == reqs[r]
        x == <<q.id, q.assertion.jti>>
        kept == Kept(seen[q.inst], now) IN
    /\ q.step = "store"
    /\ Cardinality(accepted) < MaxAccepted
    /\ IF kept[x] # None
       THEN /\ seen' = [seen EXCEPT ![q.inst] = kept]
            /\ Become(r, Idle)
            /\ UNCHANGED accepted
       ELSE /\ seen' = [seen EXCEPT ![q.inst] = [kept EXCEPT ![x] = q.assertion.exp]]
            /\ Become(r, [q EXCEPT !.step = "grant"])
            /\ accepted' = accepted \cup
                 {[n |-> Cardinality(accepted) + 1, inst |-> q.inst,
                   boot |-> boots[q.inst], client |-> q.id,
                   jti |-> q.assertion.jti, exp |-> q.assertion.exp, at |-> now]}
    /\ UNCHANGED <<now, clients, boots, rows, issued>>

-----------------------------------------------------------------------------
(* ClientCredentialsGrant.Handle *)

\* Mutant: the grant reads the client again, as storeClientLister would.
ClientCredentialsReread(r, requested) ==
    LET q == reqs[r] IN
    /\ q.step = "grant"
    /\ q.assertion # None /\ clients[q.id] # None
    /\ clients[q.id].method # "none"
    /\ clients[q.id].allowClientCredentials
    /\ requested \subseteq clients[q.id].allowedScopes
    /\ issued' = issued \cup
         {[client |-> q.id, key |-> q.assertion.key, scope |-> requested]}
    /\ Become(r, Idle)
    /\ UNCHANGED <<now, clients, seen, boots, rows, accepted>>

\* sub is the client; no refresh token and no ID token.
ClientCredentials(r, requested) ==
    LET q == reqs[r] IN
    /\ q.step = "grant"
    /\ q.client.method # "none"
    /\ q.client.allowClientCredentials
    /\ requested \subseteq q.client.allowedScopes
    /\ issued' = issued \cup
         {[client |-> q.id, key |-> q.assertion.key, scope |-> requested]}
    /\ Become(r, Idle)
    /\ UNCHANGED <<now, clients, seen, boots, rows, accepted>>

\* The grant is refused, or the request is one of TokenGrants' (another grant,
\* a revocation): authentication is over either way.
OtherGrant(r) ==
    /\ reqs[r].step = "grant"
    /\ Become(r, Idle)
    /\ UNCHANGED <<now, clients, seen, boots, rows, accepted, issued>>

Next ==
    \/ Advance /\ UNCHANGED <<clients, seen, reqs, boots, rows, accepted, issued>>
    \/ \E c \in Clients : Unregister(c) \/ \E row \in Registrations : Register(c, row)
    \/ \E i \in Instances : Restart(i)
    \/ \E r \in Requests :
         \/ \E i \in Instances, c \in Clients, a \in Assertions :
              AuthenticateClient(r, i, c, a)
         \/ Verify(r)
         \/ CheckAndStore(r)
         \/ \E requested \in SUBSET Scopes : ClientCredentials(r, requested)
         \/ OtherGrant(r)

Spec == Init /\ [][Next]_vars

-----------------------------------------------------------------------------
(* Properties. *)

SameCache(x, y) == x.inst = y.inst /\ x.boot = y.boot
SameJti(x, y) == x.client = y.client /\ x.jti = y.jti

\* As long as a process runs and an accepted assertion has not expired, its
\* jti is accepted no second time, at either endpoint, however requests race.
NoReplayBeforeExpiry ==
    \A x, y \in accepted :
        x.n < y.n /\ SameCache(x, y) /\ SameJti(x, y) => y.at > x.exp

\* Every token issued by client credentials was earned under ONE registration
\* of the client: it had the key that signed the assertion, allowed the grant
\* and held the scope, although the admin may replace it at any moment.
EarnedUnderOneRegistration ==
    \A t \in issued :
        \E row \in rows[t.client] :
            /\ row.method = "private_key_jwt"
            /\ t.key \in row.keys
            /\ row.allowClientCredentials
            /\ t.scope \subseteq row.allowedScopes

\* "a replayed assertion is rejected even if every other claim is still valid"
\* (ClientAssertionParams.Cache), taken at its word for one process: no jti is
\* accepted twice.
ReplayRejected ==
    \A x, y \in accepted : SameCache(x, y) /\ SameJti(x, y) => x = y

\* What authentication has established about a request so far.
Established(q) ==
    q.step # "idle" =>
      /\ q.inst \in Instances /\ q.id \in Clients /\ q.client \in rows[q.id]
      /\ q.step # "grant" \/ q.client.method # "none" =>
           q.assertion \in Assertions /\ q.client.method = "private_key_jwt"
      /\ q.step = "store" => q.assertion.exp # None /\ q.assertion.jti # None
      /\ q.step = "store" \/ (q.step = "grant" /\ q.client.method # "none") =>
           q.assertion.key \in q.client.keys

\* The strengthening: an instance remembers what it has accepted until exp, and
\* every request works with a registration its client has had.
AuthInv ==
    /\ TypeOK
    /\ IsFiniteSet(accepted)
    /\ \A x \in accepted :
         /\ x.n <= Cardinality(accepted)
         /\ x.boot <= boots[x.inst]
         /\ \/ now > x.exp
            \/ x.boot < boots[x.inst]
            \/ seen[x.inst][<<x.client, x.jti>>] = x.exp
    /\ NoReplayBeforeExpiry
    /\ \A c \in Clients : clients[c] # None => clients[c] \in rows[c]
    /\ \A r \in Requests : Established(reqs[r])
    /\ EarnedUnderOneRegistration
=============================================================================
