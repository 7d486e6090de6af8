----------------------------- MODULE TokenGrants -----------------------------
(***************************************************************************)
(* The credential chain of the authorization server: a login session, the  *)
(* authorization codes minted on it, and the refresh tokens that grow from *)
(* a code.  Every HTTP request is a process; each of its actions is the    *)
(* code up to and including one statement sent to the database, which is   *)
(* where another request (of this or of another instance) can interleave.  *)
(*                                                                         *)
(* Rows are never deleted and, apart from consumed_at and revoked_at, never*)
(* rewritten.  The two columns are kept as sets of ids; the rest of a row  *)
(* is immutable, so a request's local copy of it is read back from the     *)
(* tables (the code never looks at its stale copy of the flags again).     *)
(***************************************************************************)
EXTENDS Naturals, Sequences, FiniteSets

CONSTANTS
    Sessions,         \* ids of oauth_sessions rows
    Codes,            \* ids of oauth_authorization_codes rows
    Tokens,           \* ids of oauth_refresh_tokens rows
    LegacyTokens,     \* rows written before tokens carried a session id
    Requests,         \* HTTP requests in flight, on any instance
    Clients,          \* client ids
    AllowRefresh,     \* clients with AllowRefreshTokens
    AbsoluteMode,     \* clients with RefreshTokenExpiration = Absolute
    Scopes,           \* the scopes the clients are allowed
    OfflineAccess,    \* the scope "offline_access"
    DetectReuse,      \* RefreshConfig.DetectReuse
    SessionLifetime, AuthCodeLifetime,
    RefreshLifetime, RefreshAbsoluteLifetime,
    MaxDepth,         \* chainRootCreatedAt's bound on the walk (1000)
    MaxTime,          \* bound of the model: the clock stops here
    StoreMayFail,     \* whether statements fail and requests die half way
    LookupMayFail,    \* whether the lookups of the walk to the root fail
    None              \* SQL NULL

ASSUME IdsAssumption ==
    /\ Codes \cap Tokens = {}
    /\ LegacyTokens \subseteq Tokens
    /\ None \notin Sessions \cup Codes \cup Tokens \cup Nat

ASSUME ClientsAssumption ==
    /\ Clients # {}
    /\ AllowRefresh \subseteq Clients
    /\ AbsoluteMode \subseteq Clients

ASSUME ConfigAssumption ==
    /\ DetectReuse \in BOOLEAN
    /\ StoreMayFail \in BOOLEAN /\ LookupMayFail \in BOOLEAN

ASSUME TimeAssumption ==
    /\ SessionLifetime \in Nat /\ AuthCodeLifetime \in Nat
    /\ RefreshLifetime \in Nat /\ RefreshAbsoluteLifetime \in Nat
    /\ MaxDepth \in Nat /\ MaxTime \in Nat

VARIABLES
    now,       \* clock.Clock
    sessions,  \* oauth_sessions
    codes,     \* oauth_authorization_codes
    tokens,    \* oauth_refresh_tokens
    consumed,  \* codes and tokens whose consumed_at is set
    revoked,   \* sessions and tokens whose revoked_at is set
    reqs,      \* the local state of every request
    issued,    \* history: per code or token, the auth_time of every token
               \* response the server has sent for it
    audit,     \* targets of RefreshTokenReuseDetected audit entries
    ended,     \* history: sessions whose revocation ran to its end
    cut        \* history: tokens whose walk to the chain root a failed lookup
               \* has ended

tables == <<sessions, codes, tokens>>
flags == <<consumed, revoked>>
history == <<issued, audit, ended, cut>>
vars == <<now, tables, flags, reqs, history>>

-----------------------------------------------------------------------------
(* State. *)

Credentials == Codes \cup Tokens

SessionRow == [createdAt : Nat, expiresAt : Nat]

CodeRow == [session : Sessions, client : Clients, scope : SUBSET Scopes,
            createdAt : Nat, expiresAt : Nat]

\* origin is a history field: the code (or legacy token) the chain grew from.
TokenRow == [session : Sessions \cup {None}, client : Clients,
             scope : SUBSET Scopes, parent : Tokens \cup {None},
             origin : Credentials, createdAt : Nat, expiresAt : Nat,
             absoluteExpiresAt : Nat]

\* NULL is no row.
ASSUME NoneAssumption == None \notin SessionRow \cup CodeRow \cup TokenRow

\* Where a request is: the next statement it will execute.
Steps == {"idle", "mint", "consumeCode", "issueFromCode", "storeRoot",
          "consumeToken", "issueFromToken", "walk", "rotate", "reuse",
          "respond", "endChain"}

\* src is the row the request works on, at the time it read the clock, cur and
\* depth the position of the walk to the chain root.
Request == [step : Steps, src : Sessions \cup Credentials \cup {None},
            client : Clients, scope : SUBSET Scopes, at : Nat,
            authTime : Nat, cur : Tokens \cup {None}, depth : Nat]

Idle == [step |-> "idle", src |-> None, client |-> CHOOSE c \in Clients : TRUE,
         scope |-> {}, at |-> 0, authTime |-> 0, cur |-> None, depth |-> 0]

TypeOK ==
    /\ now \in Nat
    /\ sessions \in [Sessions -> SessionRow \cup {None}]
    /\ codes \in [Codes -> CodeRow \cup {None}]
    /\ tokens \in [Tokens -> TokenRow \cup {None}]
    /\ consumed \subseteq Credentials
    /\ revoked \subseteq Sessions \cup Tokens
    /\ reqs \in [Requests -> Request]
    /\ issued \in [Credentials -> Seq(Nat)]
    /\ audit \subseteq Tokens
    /\ ended \subseteq Sessions
    /\ cut \subseteq Tokens

Live(t) == tokens[t] # None /\ t \notin consumed /\ t \notin revoked

\* A token written before the session_id column existed.
LegacyRow(t, c) ==
    [session |-> None, client |-> c, scope |-> Scopes, parent |-> None,
     origin |-> t, createdAt |-> 0, expiresAt |-> RefreshLifetime,
     absoluteExpiresAt |-> RefreshAbsoluteLifetime]

Init ==
    /\ now = 0
    /\ sessions = [s \in Sessions |-> None]
    /\ codes = [c \in Codes |-> None]
    /\ \E owner \in [LegacyTokens -> Clients] :
         tokens = [t \in Tokens |-> IF t \in LegacyTokens
                                    THEN LegacyRow(t, owner[t]) ELSE None]
    /\ consumed = {}
    /\ revoked = {}
    /\ reqs = [r \in Requests |-> Idle]
    /\ issued = [x \in Credentials |-> <<>>]
    /\ audit = {}
    /\ ended = {}
    /\ cut = {}

-----------------------------------------------------------------------------
(* Store operations. *)

\* SessionStore.Revoke and RefreshTokenStore.Revoke:
\* UPDATE ... WHERE id = ? AND revoked_at IS NULL.
RevokeOne(x) == revoked' = revoked \cup {x}

\* RefreshTokenStore.RevokeBySessionID: every row of the session, one UPDATE.
TokensOf(s) == {t \in Tokens : tokens[t] # None /\ tokens[t].session = s}

RevokeBySessionID(s) == revoked' = revoked \cup TokensOf(s)

\* What the reuse handler and the revocation endpoint do to a token's chain.
RevokeChainOf(t) ==
    IF tokens[t].session # None
    THEN RevokeBySessionID(tokens[t].session)
    ELSE RevokeOne(t)

-----------------------------------------------------------------------------
(* Time and sessions. *)

Tick ==
    /\ now < MaxTime
    /\ now' = now + 1
    /\ UNCHANGED <<tables, flags, reqs, history>>

\* A successful login stores a fresh session row and sets its cookie.
StartSession(s) ==
    /\ sessions[s] = None
    /\ sessions' = [sessions EXCEPT ![s] =
         [createdAt |-> now, expiresAt |-> now + SessionLifetime]]
    /\ UNCHANGED <<now, codes, tokens, flags, reqs, history>>

-----------------------------------------------------------------------------
(* GET /connect/authorize: resolve the session, then mint a code on it. *)

\* SessionResolver.Resolve: revoked or past its expiry is no session.
SessionUsable(s) ==
    /\ sessions[s] # None
    /\ s \notin revoked
    /\ ~(now > sessions[s].expiresAt)

AuthorizeResolve(r, s, c, scope) ==
    /\ reqs[r].step = "idle"
    /\ SessionUsable(s)
    /\ scope # {}
    /\ reqs' = [reqs EXCEPT ![r] =
         [Idle EXCEPT !.step = "mint", !.src = s, !.client = c, !.scope = scope]]
    /\ UNCHANGED <<now, tables, flags, history>>

\* Mutant: the code row is stored without an expiry.
MintCodeNoExpiry(r, c) ==
    /\ reqs[r].step = "mint"
    /\ codes[c] = None
    /\ codes' = [codes EXCEPT ![c] =
         [session |-> reqs[r].src, client |-> reqs[r].client,
          scope |-> reqs[r].scope, createdAt |-> now,
          expiresAt |-> None]]
    /\ reqs' = [reqs EXCEPT ![r] = Idle]
    /\ UNCHANGED <<now, sessions, tokens, flags, history>>

MintCode(r, c) ==
    /\ reqs[r].step = "mint"
    /\ codes[c] = None
    /\ codes' = [codes EXCEPT ![c] =
         [session |-> reqs[r].src, client |-> reqs[r].client,
          scope |-> reqs[r].scope, createdAt |-> now,
          expiresAt |-> now + AuthCodeLifetime]]
    /\ reqs' = [reqs EXCEPT ![r] = Idle]
    /\ UNCHANGED <<now, sessions, tokens, flags, history>>

-----------------------------------------------------------------------------
(* POST /connect/token, grant_type=authorization_code. *)

\* The checks on the presented code.  A wrong redirect_uri or PKCE verifier
\* returns here as well, before anything is written.
ExchangeRead(r, c, client) ==
    /\ reqs[r].step = "idle"
    /\ codes[c] # None
    /\ ~(now > codes[c].expiresAt)
    /\ codes[c].client = client
    /\ reqs' = [reqs EXCEPT ![r] =
         [Idle EXCEPT !.step = "consumeCode", !.src = c, !.client = client]]
    /\ UNCHANGED <<now, tables, flags, history>>

\* Mutant: RowsAffected is not looked at, every caller believes it won.
ConsumeCodeNoCAS(r) ==
    /\ reqs[r].step = "consumeCode"
    /\ consumed' = consumed \cup {reqs[r].src}
    /\ reqs' = [reqs EXCEPT ![r].step = "issueFromCode"]
    /\ UNCHANGED <<now, tables, revoked, history>>

\* AuthorizationCodeStore.MarkConsumed: UPDATE ... WHERE consumed_at IS NULL.
\* RowsAffected = 0 ends the request with invalid_grant.
ConsumeCode(r) ==
    LET c == reqs[r].src IN
    /\ reqs[r].step = "consumeCode"
    /\ consumed' = consumed \cup {c}
    /\ reqs' = [reqs EXCEPT ![r] =
         IF c \in consumed THEN Idle
         ELSE [reqs[r] EXCEPT !.step = "issueFromCode"]]
    /\ UNCHANGED <<now, tables, revoked, history>>

\* Access and ID token, then a refresh token only for offline_access.
IssueFromCode(r) ==
    LET code == codes[reqs[r].src] IN
    /\ reqs[r].step = "issueFromCode"
    /\ reqs' = [reqs EXCEPT ![r] =
         [reqs[r] EXCEPT
            !.authTime = code.createdAt,
            !.scope = code.scope,
            !.step = IF reqs[r].client \in AllowRefresh
                        /\ OfflineAccess \in code.scope
                     THEN "storeRoot" ELSE "respond"]]
    /\ UNCHANGED <<now, tables, flags, history>>

\* The clock is read again here; the row starts a chain of its own.
StoreRoot(r, t) ==
    LET c == reqs[r].src IN
    /\ reqs[r].step = "storeRoot"
    /\ tokens[t] = None
    /\ tokens' = [tokens EXCEPT ![t] =
         [session |-> codes[c].session, client |-> reqs[r].client,
          scope |-> reqs[r].scope, parent |-> None, origin |-> c,
          createdAt |-> now,
          expiresAt |-> now + (IF reqs[r].client \in AbsoluteMode
                               THEN RefreshAbsoluteLifetime
                               ELSE RefreshLifetime),
          absoluteExpiresAt |-> now + RefreshAbsoluteLifetime]]
    /\ reqs' = [reqs EXCEPT ![r].step = "respond"]
    /\ UNCHANGED <<now, sessions, codes, flags, history>>

-----------------------------------------------------------------------------
(* POST /connect/token, grant_type=refresh_token. *)

\* Mutant: RevokedAt is not checked.
RefreshReadRevoked(r, t, client) ==
    /\ reqs[r].step = "idle"
    /\ tokens[t] # None
    /\ tokens[t].client = client
    /\ ~(now > tokens[t].absoluteExpiresAt)
    /\ ~(tokens[t].expiresAt < now)
    /\ reqs' = [reqs EXCEPT ![r] =
         [Idle EXCEPT !.step = "consumeToken", !.src = t, !.client = client,
                      !.at = now]]
    /\ UNCHANGED <<now, tables, flags, history>>

\* The checks on the presented token.  ConsumedAt is not one of them: the CAS
\* below decides.
RefreshRead(r, t, client) ==
    /\ reqs[r].step = "idle"
    /\ tokens[t] # None
    /\ tokens[t].client = client
    /\ t \notin revoked
    /\ ~(now > tokens[t].absoluteExpiresAt)
    /\ ~(tokens[t].expiresAt < now)
    /\ reqs' = [reqs EXCEPT ![r] =
         [Idle EXCEPT !.step = "consumeToken", !.src = t, !.client = client,
                      !.at = now]]
    /\ UNCHANGED <<now, tables, flags, history>>

\* Mutant: the CAS result is ignored.
ConsumeTokenNoCAS(r) ==
    /\ reqs[r].step = "consumeToken"
    /\ consumed' = consumed \cup {reqs[r].src}
    /\ reqs' = [reqs EXCEPT ![r].step = "issueFromToken"]
    /\ UNCHANGED <<now, tables, revoked, history>>

\* RefreshTokenStore.MarkConsumed; losing the CAS is reuse.
ConsumeToken(r) ==
    LET t == reqs[r].src IN
    /\ reqs[r].step = "consumeToken"
    /\ consumed' = consumed \cup {t}
    /\ reqs' = [reqs EXCEPT ![r] =
         IF t \notin consumed
         THEN [reqs[r] EXCEPT !.step = "issueFromToken"]
         ELSE IF DetectReuse THEN [reqs[r] EXCEPT !.step = "reuse"]
         ELSE Idle]
    /\ UNCHANGED <<now, tables, revoked, history>>

\* Mutant: the requested scope replaces the granted one unchecked.
IssueFromTokenAnyScope(r, requested) ==
    /\ reqs[r].step = "issueFromToken"
    /\ reqs' = [reqs EXCEPT ![r] =
         [reqs[r] EXCEPT
            !.scope = IF requested = {} THEN tokens[reqs[r].src].scope
                                        ELSE requested,
            !.step = "walk", !.cur = reqs[r].src]]
    /\ UNCHANGED <<now, tables, flags, history>>

\* The optional scope parameter: {} keeps the granted scope, a subset narrows
\* it, and anything else is invalid_scope -- with the token already consumed.
IssueFromToken(r, requested) ==
    LET granted == tokens[reqs[r].src].scope IN
    /\ reqs[r].step = "issueFromToken"
    /\ reqs' = [reqs EXCEPT ![r] =
         IF requested \subseteq granted
         THEN [reqs[r] EXCEPT
                 !.scope = IF requested = {} THEN granted ELSE requested,
                 !.step = "walk", !.cur = reqs[r].src]
         ELSE Idle]
    /\ UNCHANGED <<now, tables, flags, history>>

AfterWalk(r) ==
    IF reqs[r].client \in AllowRefresh /\ OfflineAccess \in reqs[r].scope
    THEN "rotate" ELSE "respond"

\* Mutant: auth_time is the consumed token's own CreatedAt.
NoWalk(r) ==
    /\ reqs[r].step = "walk"
    /\ reqs' = [reqs EXCEPT ![r].authTime = tokens[reqs[r].src].createdAt,
                            ![r].step = AfterWalk(r)]
    /\ UNCHANGED <<now, tables, flags, history>>

\* chainRootCreatedAt: one FindByID per ancestor, at most MaxDepth of them,
\* then the access and ID tokens carry the CreatedAt that was reached.  An
\* error of FindByID, whichever it is, also ends the walk where it stands.
WalkToRoot(r) ==
    LET here == tokens[reqs[r].cur]
        more == here.parent # None /\ reqs[r].depth < MaxDepth IN
    /\ reqs[r].step = "walk"
    /\ \/ /\ more
          /\ reqs' = [reqs EXCEPT ![r] =
               [reqs[r] EXCEPT !.cur = here.parent, !.depth = @ + 1]]
          /\ UNCHANGED cut
       \/ /\ more => LookupMayFail
          /\ reqs' = [reqs EXCEPT ![r] =
               [reqs[r] EXCEPT !.authTime = here.createdAt,
                               !.step = AfterWalk(r)]]
          /\ cut' = IF more THEN cut \cup {reqs[r].src} ELSE cut
    /\ UNCHANGED <<now, tables, flags, issued, audit, ended>>

\* Mutant: the sliding expiry is not clamped to the ceiling.
RotatedExpiryUnclamped(old, client, at) ==
    IF client \in AbsoluteMode THEN at + RefreshAbsoluteLifetime
                               ELSE at + RefreshLifetime

\* Sliding expiry stops at the ceiling of the chain; absolute expiry is a
\* fresh lifetime, and only the ceiling check of RefreshRead bounds it.
RotatedExpiry(old, client, at) ==
    IF client \in AbsoluteMode
    THEN at + RefreshAbsoluteLifetime
    ELSE IF at + RefreshLifetime > old.absoluteExpiresAt
         THEN old.absoluteExpiresAt
         ELSE at + RefreshLifetime

\* The row that replaces a consumed token: same session, same ceiling.
RotatedRow(old, r) ==
    [session |-> tokens[old].session, client |-> reqs[r].client,
     scope |-> reqs[r].scope, parent |-> old, origin |-> tokens[old].origin,
     createdAt |-> reqs[r].at,
     expiresAt |-> RotatedExpiry(tokens[old], reqs[r].client, reqs[r].at),
     absoluteExpiresAt |-> tokens[old].absoluteExpiresAt]

Rotate(r, t) ==
    /\ reqs[r].step = "rotate"
    /\ tokens[t] = None
    /\ tokens' = [tokens EXCEPT ![t] = RotatedRow(reqs[r].src, r)]
    /\ reqs' = [reqs EXCEPT ![r].step = "respond"]
    /\ UNCHANGED <<now, sessions, codes, flags, history>>

\* handleReuse: revoke the session's chain, then write the audit entry; the
\* error of either is swallowed and does not stop the other.
HandleReuse(r) ==
    LET t == reqs[r].src IN
    /\ reqs[r].step = "reuse"
    /\ \/ RevokeChainOf(t)
       \/ StoreMayFail /\ UNCHANGED revoked
    /\ \/ audit' = audit \cup {t}
       \/ StoreMayFail /\ UNCHANGED audit
    /\ reqs' = [reqs EXCEPT ![r] = Idle]
    /\ UNCHANGED <<now, tables, consumed, issued, ended, cut>>

\* The JSON response of either grant.
Respond(r) ==
    LET x == reqs[r].src IN
    /\ reqs[r].step = "respond"
    /\ issued' = [issued EXCEPT ![x] = Append(@, reqs[r].authTime)]
    /\ reqs' = [reqs EXCEPT ![r] = Idle]
    /\ UNCHANGED <<now, tables, flags, audit, ended, cut>>

-----------------------------------------------------------------------------
(* Revocation: POST /connect/revoke, POST /connect/logout, the admin API. *)

\* POST /connect/revoke by the client the token was issued to.  The lookup
\* reads immutable columns only, so it is one step with the UPDATE.
Revoke(t, client) ==
    /\ tokens[t] # None
    /\ tokens[t].client = client
    /\ RevokeChainOf(t)
    /\ UNCHANGED <<now, tables, consumed, reqs, history>>

\* DELETE of one refresh token in the admin API.
AdminRevokeToken(t) ==
    /\ tokens[t] # None
    /\ RevokeOne(t)
    /\ UNCHANGED <<now, tables, consumed, reqs, history>>

\* terminateSession: the session row first, its error ignored, then the chain
\* -- also when the session had been revoked before.
Logout(r, s) ==
    /\ reqs[r].step = "idle"
    /\ sessions[s] # None
    /\ \/ RevokeOne(s)
       \/ StoreMayFail /\ UNCHANGED revoked
    /\ reqs' = [reqs EXCEPT ![r] = [Idle EXCEPT !.step = "endChain", !.src = s]]
    /\ UNCHANGED <<now, tables, consumed, history>>

\* revokeSession of the admin API: Sessions.Revoke reports an already revoked
\* row as ErrNotFound, and the handler answers 404 without touching the chain.
AdminRevokeSession(r, s) ==
    /\ reqs[r].step = "idle"
    /\ sessions[s] # None
    /\ s \notin revoked
    /\ RevokeOne(s)
    /\ reqs' = [reqs EXCEPT ![r] = [Idle EXCEPT !.step = "endChain", !.src = s]]
    /\ UNCHANGED <<now, tables, consumed, history>>

EndChain(r) ==
    /\ reqs[r].step = "endChain"
    /\ RevokeBySessionID(reqs[r].src)
    /\ ended' = ended \cup {reqs[r].src}
    /\ reqs' = [reqs EXCEPT ![r] = Idle]
    /\ UNCHANGED <<now, tables, consumed, issued, audit, cut>>

-----------------------------------------------------------------------------
(* Failure: a statement or the user lookup errors and the handler returns, *)
(* the response is lost, or the process dies; what was written stays.      *)

Abort(r) ==
    /\ StoreMayFail
    /\ reqs[r].step # "idle"
    /\ reqs' = [reqs EXCEPT ![r] = Idle]
    /\ UNCHANGED <<now, tables, flags, history>>

GrantStep(r) ==
    \/ \E c \in Codes : MintCode(r, c)
    \/ \E c \in Codes, client \in Clients : ExchangeRead(r, c, client)
    \/ ConsumeCode(r)
    \/ IssueFromCode(r)
    \/ \E t \in Tokens : StoreRoot(r, t)
    \/ \E t \in Tokens, client \in Clients : RefreshRead(r, t, client)
    \/ ConsumeToken(r)
    \/ \E requested \in SUBSET Scopes : IssueFromToken(r, requested)
    \/ WalkToRoot(r)
    \/ \E t \in Tokens : Rotate(r, t)
    \/ HandleReuse(r)
    \/ Respond(r)

Next ==
    \/ Tick
    \/ \E s \in Sessions : StartSession(s)
    \/ \E r \in Requests, s \in Sessions, client \in Clients,
          scope \in SUBSET Scopes : AuthorizeResolve(r, s, client, scope)
    \/ \E r \in Requests : GrantStep(r)
    \/ \E t \in Tokens, client \in Clients : Revoke(t, client)
    \/ \E t \in Tokens : AdminRevokeToken(t)
    \/ \E r \in Requests, s \in Sessions : Logout(r, s)
    \/ \E r \in Requests, s \in Sessions : AdminRevokeSession(r, s)
    \/ \E r \in Requests : EndChain(r)
    \/ \E r \in Requests : Abort(r)

Spec == Init /\ [][Next]_vars

-----------------------------------------------------------------------------
(* Properties. *)

Exists(x) == IF x \in Codes THEN codes[x] # None ELSE tokens[x] # None

\* A code or refresh token buys at most one token response, however many
\* requests present it at once, and no response leaves before the row is
\* marked consumed (the "SECURITY" comment of AuthCodeGrant.Handle).
HonouredOnce ==
    \A x \in Credentials :
        /\ Len(issued[x]) <= 1
        /\ issued[x] # <<>> => Exists(x) /\ x \in consumed

\* At any moment at most one refresh token of a chain can still be exchanged:
\* concurrent exchanges and rotations, lost responses and failed statements
\* included, a code never grows two live branches.
OneLiveTokenPerChain ==
    \A t, u \in Tokens :
        /\ Live(t) /\ Live(u)
        /\ tokens[t].origin = tokens[u].origin
        => t = u

\* Rotation never moves the hard ceiling of the chain, never mints a token
\* past it or past the predecessor's own expiry, and a sliding expiry never
\* overtakes it ("rotation never extends the hard ceiling").
CeilingCarried ==
    \A t \in Tokens :
        tokens[t] # None /\ tokens[t].parent # None =>
            LET old == tokens[tokens[t].parent] IN
            /\ tokens[t].absoluteExpiresAt = old.absoluteExpiresAt
            /\ tokens[t].createdAt <= old.absoluteExpiresAt
            /\ tokens[t].createdAt <= old.expiresAt
            /\ tokens[t].client \notin AbsoluteMode =>
                 tokens[t].expiresAt <= old.absoluteExpiresAt

\* A chain stays with the client and the session of the code it grew from, and
\* no sequence of down-scoped refreshes gives back a scope once dropped.
ChainInherits ==
    \A t \in Tokens :
        tokens[t] # None =>
          /\ tokens[t].parent # None =>
               LET old == tokens[tokens[t].parent] IN
               /\ tokens[t].client = old.client
               /\ tokens[t].session = old.session
               /\ tokens[t].scope \subseteq old.scope
          /\ tokens[t].origin \in Codes =>
               LET code == codes[tokens[t].origin] IN
               /\ tokens[t].client = code.client
               /\ tokens[t].session = code.session
               /\ tokens[t].scope \subseteq code.scope

\* The token and its ancestors: what every set of tokens with t in it holds if
\* it holds the parents of its members.
WithParents(S) ==
    \A u \in S : tokens[u] # None /\ tokens[u].parent # None => tokens[u].parent \in S

Line(t) == {u \in Tokens :
              \A S \in SUBSET Tokens : t \in S /\ WithParents(S) => u \in S}

\* The walk of chainRootCreatedAt is long enough to reach the root.
WithinWalk(t) == IsFiniteSet(Line(t)) /\ Cardinality(Line(t)) <= MaxDepth + 1

RootTime(t, at) ==
    \E u \in Line(t) :
        tokens[u] # None /\ tokens[u].parent = None /\ tokens[u].createdAt = at

\* The walk for t has ended with the time at: the root's, or an ancestor's when a
\* lookup failed or the walk was too short.
Reached(t, at) ==
    /\ RootTime(t, at) \/ t \in cut \/ ~WithinWalk(t)
    /\ \E u \in Line(t) : tokens[u] # None /\ tokens[u].createdAt = at

\* However often a chain is rotated, a refresh response carries the time at which
\* the root of the chain was stored, unless a lookup of the walk failed or the
\* token has more than MaxDepth ancestors; and even then it carries the time of
\* an ancestor, never one after the token presented (chainRootCreatedAt: a
\* rotation must not push auth_time forward).
AuthTimeStable ==
    \A t \in Tokens :
        issued[t] # <<>> =>
          Reached(t, issued[t][1]) /\ issued[t][1] <= tokens[t].createdAt

\* A request that may still add a code or a token to session s.  One whose
\* credential is already consumed will lose the CAS.
InFlightOn(r, s) ==
    LET x == reqs[r].src IN
    \/ reqs[r].step = "mint" /\ x = s
    \/ /\ \/ reqs[r].step = "consumeCode" /\ x \notin consumed
          \/ reqs[r].step \in {"issueFromCode", "storeRoot"}
       /\ codes[x].session = s
    \/ /\ \/ reqs[r].step = "consumeToken" /\ x \notin consumed
          \/ reqs[r].step \in {"issueFromToken", "walk", "rotate"}
       /\ tokens[x].session = s

\* A session with nothing left to honour: revoked, its tokens revoked, its
\* codes spent or lapsed, no request half way through work on it.
SessionDead(s) ==
    /\ sessions[s] # None /\ s \in revoked
    /\ TokensOf(s) \subseteq revoked
    /\ \A c \in Codes :
         codes[c] # None /\ codes[c].session = s =>
             c \in consumed \/ now > codes[c].expiresAt
    /\ \A r \in Requests : ~InFlightOn(r, s)

\* Revocation is final: once a session is dead, no login, authorize, exchange,
\* refresh or failure ever gives it a usable code or token again.
RevocationIsFinal ==
    [][\A s \in Sessions : SessionDead(s) => SessionDead(s)']_vars

\* The refinement of CredentialLedger: what the tables and the history say has
\* happened to a code or token so far.
HasSuccessor(x) ==
    \E t \in Tokens :
        /\ tokens[t] # None
        /\ t # x
        /\ IF x \in Codes THEN tokens[t].parent = None /\ tokens[t].origin = x
                          ELSE tokens[t].parent = x

StatusOf(x) ==
    IF ~Exists(x) THEN "absent"
    ELSE IF x \notin consumed THEN "fresh"
    ELSE IF issued[x] # <<>> THEN "honoured"
    ELSE IF HasSuccessor(x) THEN "extended"
    ELSE "spent"

Ledger == INSTANCE CredentialLedger WITH
    Credentials <- Credentials,
    Successors <- Tokens,
    Preexisting <- LegacyTokens,
    status <- [x \in Credentials |-> StatusOf(x)]

\* The token endpoint implements the ledger of one-time credentials.
ImplementsLedger == Ledger!LSpec

-----------------------------------------------------------------------------
(* The inductive invariant behind the safety properties. *)

CodeSteps == {"consumeCode", "issueFromCode", "storeRoot"}
TokenSteps == {"consumeToken", "issueFromToken", "walk", "rotate", "reuse"}

\* A request works on a row that exists and belongs to its client.
RequestWellFormed(q) ==
    /\ q.step \in {"mint", "endChain"} => q.src \in Sessions
    /\ q.step \in CodeSteps =>
         /\ q.src \in Codes
         /\ codes[q.src] # None
         /\ codes[q.src].client = q.client
    /\ q.step \in TokenSteps =>
         /\ q.src \in Tokens
         /\ tokens[q.src] # None
         /\ tokens[q.src].client = q.client
    /\ q.step = "respond" => q.src \in Credentials /\ Exists(q.src)
    /\ q.step = "walk" => q.cur \in Tokens /\ tokens[q.cur] # None

\* A token's parent and origin are rows that exist and are consumed.
ChainsWellFormed ==
    \A t \in Tokens :
        tokens[t] # None =>
          /\ tokens[t].parent # None =>
               /\ tokens[tokens[t].parent] # None
               /\ tokens[t].parent \in consumed
          /\ tokens[t].origin \in Codes =>
               codes[tokens[t].origin] # None /\ tokens[t].origin \in consumed

\* The steps of a request that has won the CAS on its credential, and the ones
\* in which the successor of that credential is still to come.
WonSteps == {"issueFromCode", "storeRoot", "issueFromToken", "walk", "rotate",
             "respond"}
HoldsCode(r) == reqs[r].step \in {"issueFromCode", "storeRoot"}
HoldsToken(r) == reqs[r].step \in {"issueFromToken", "walk", "rotate"}

\* At most one request is ever past the CAS on a credential, and none once the
\* credential has been answered.
OneWinner ==
    /\ \A r \in Requests :
         reqs[r].step \in WonSteps =>
           reqs[r].src \in consumed /\ issued[reqs[r].src] = <<>>
    /\ \A q, r \in Requests :
         /\ reqs[q].step \in WonSteps /\ reqs[r].step \in WonSteps
         /\ reqs[q].src = reqs[r].src
         => q = r

\* Each chain has one baton: the unconsumed code, the request that consumed
\* its last credential, or its one unconsumed token.
OneBaton ==
    /\ \A t, u \in Tokens :
         /\ tokens[t] # None /\ tokens[u] # None
         /\ t \notin consumed /\ u \notin consumed
         /\ tokens[t].origin = tokens[u].origin
         => t = u
    /\ \A r \in Requests, t \in Tokens :
         tokens[t] # None =>
           /\ HoldsCode(r) => tokens[t].origin # reqs[r].src
           /\ HoldsToken(r) =>
                /\ tokens[t].parent # reqs[r].src
                /\ tokens[t].origin = tokens[reqs[r].src].origin =>
                     t \in consumed
    /\ \A q, r \in Requests :
         /\ HoldsToken(q) /\ HoldsToken(r)
         /\ tokens[reqs[q].src].origin = tokens[reqs[r].src].origin
         => q = r

\* A refresh in flight was started inside both expiries of its token, and
\* never widens its scope.
RequestWithinBounds(q) ==
    /\ q.step \in TokenSteps =>
         /\ q.at <= tokens[q.src].absoluteExpiresAt
         /\ q.at <= tokens[q.src].expiresAt
    /\ q.step \in {"walk", "rotate"} => q.scope \subseteq tokens[q.src].scope
    /\ q.step = "storeRoot" => q.scope \subseteq codes[q.src].scope

GrantsInv ==
    /\ TypeOK
    /\ \A r \in Requests : RequestWellFormed(reqs[r])
    /\ \A r \in Requests : RequestWithinBounds(reqs[r])
    /\ ChainsWellFormed
    /\ OneWinner
    /\ OneBaton
    /\ HonouredOnce
    /\ CeilingCarried
    /\ ChainInherits

-----------------------------------------------------------------------------
(* The inductive invariant behind AuthTimeStable. *)

\* rank orders every chain, the root first.
Ranked(rank) ==
    \A t \in Tokens :
        tokens[t] # None /\ tokens[t].parent # None =>
          rank[tokens[t].parent] < rank[t]

\* The walk is among the ancestors of its token and has left depth of them
\* behind; after it the request carries what the walk has reached.
WalkWithin(q, rank) ==
    /\ q.step \in {"consumeToken", "issueFromToken"} => q.depth = 0
    /\ q.step = "walk" =>
         /\ q.cur \in Line(q.src)
         /\ \E behind \in SUBSET Line(q.src) :
              /\ IsFiniteSet(behind) /\ Cardinality(behind) = q.depth
              /\ \A t \in behind : rank[q.cur] < rank[t]
    /\ q.step \in {"rotate", "respond"} /\ q.src \in Tokens =>
         Reached(q.src, q.authTime)

WalkInv ==
    /\ \A t \in Tokens : issued[t] # <<>> => Reached(t, issued[t][1])
    /\ \E rank \in [Tokens -> Nat] :
         Ranked(rank) /\ \A r \in Requests : WalkWithin(reqs[r], rank)

\* A token is never older than its parent, nor a refresh than its token.
TimesInv ==
    /\ \A t \in Tokens :
         tokens[t] # None =>
           /\ tokens[t].createdAt <= now
           /\ tokens[t].parent # None =>
                tokens[tokens[t].parent].createdAt <= tokens[t].createdAt
    /\ \A r \in Requests :
         reqs[r].step \in TokenSteps =>
           tokens[reqs[r].src].createdAt <= reqs[r].at /\ reqs[r].at <= now

-----------------------------------------------------------------------------
(* What comments in the code claim and these handlers do not deliver. *)

\* "the ID token's auth_time must equal the *root* refresh token's CreatedAt"
\* (TestRefresh_AuthTime_UsesChainRoot), "the *original* authentication time"
\* (RefreshGrant.Handle).
AuthTimeIsRoot ==
    \A t \in Tokens : issued[t] # <<>> => RootTime(t, issued[t][1])

\* "every token in the session's chain is revoked" when reuse is detected
\* (RefreshGrant): the successor of a token whose reuse was handled is revoked.
ReuseRevokesChain ==
    \A t \in audit, u \in Tokens :
        tokens[u] # None /\ tokens[u].parent = t /\ tokens[u].session # None
            => u \in revoked

\* "cannot outlive the session revocation" (revokeSession of the admin API):
\* once the handler is through, the session has no token left to exchange.
EndedSessionHasNoLiveToken ==
    \A s \in ended, t \in Tokens : Live(t) => tokens[t].session # s
=============================================================================
