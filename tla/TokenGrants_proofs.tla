------------------------- MODULE TokenGrants_proofs --------------------------
(***************************************************************************)
(* Proofs about TokenGrants, for every set of ids, clients, scopes, every  *)
(* lifetime, with and without reuse detection and failures.                *)
(***************************************************************************)
EXTENDS TokenGrants, FiniteSetTheorems, TLAPS

\* The idle request is well typed, whichever client the CHOOSE picks.
LEMMA IdleType == Idle \in Request /\ Idle.step = "idle"
<1>1. PICK c \in Clients : c = CHOOSE d \in Clients : TRUE
  BY ClientsAssumption
<1>. QED
  BY <1>1 DEF Idle, Request, Steps


\* A step that changes at most one request, the clock, the sessions, the
\* revocation flags and the logs keeps the invariant if the request's new
\* local state is sound and holds no credential it did not hold before.
LEMMA RequestStep ==
    ASSUME GrantsInv, TypeOK',
           UNCHANGED <<codes, tokens, consumed, issued>>,
           NEW r \in Requests,
           \A q \in Requests : q # r => reqs'[q] = reqs[q],
           RequestWellFormed(reqs[r])',
           RequestWithinBounds(reqs[r])',
           \/ reqs'[r].step \notin WonSteps
           \/ /\ reqs[r].step \in WonSteps
              /\ reqs'[r].src = reqs[r].src
              /\ HoldsCode(r)' => HoldsCode(r)
              /\ HoldsToken(r)' => HoldsToken(r)
    PROVE  GrantsInv'
<1>1. \A q \in Requests : RequestWellFormed(reqs[q])'
  BY DEF GrantsInv, RequestWellFormed, Exists
<1>2. \A q \in Requests : RequestWithinBounds(reqs[q])'
  BY DEF GrantsInv, RequestWithinBounds
<1>3. ChainsWellFormed' /\ HonouredOnce' /\ CeilingCarried' /\ ChainInherits'
  BY DEF GrantsInv, ChainsWellFormed, HonouredOnce, CeilingCarried,
         ChainInherits, Exists
<1>4. OneWinner'
  BY DEF GrantsInv, OneWinner
<1>5. OneBaton'
  BY DEF GrantsInv, OneBaton, HoldsCode, HoldsToken, WonSteps
<1>. QED
  BY <1>1, <1>2, <1>3, <1>4, <1>5 DEF GrantsInv

\* The same for a step that leaves the requests alone.
LEMMA FrameStep ==
    ASSUME GrantsInv, TypeOK',
           UNCHANGED <<codes, tokens, consumed, issued, reqs>>
    PROVE  GrantsInv'
BY DEF GrantsInv, RequestWellFormed, RequestWithinBounds, ChainsWellFormed,
       OneWinner, OneBaton, HoldsCode, HoldsToken, HonouredOnce,
       CeilingCarried, ChainInherits, Exists

LEMMA TickInv == GrantsInv /\ Tick => GrantsInv'
<1>. SUFFICES ASSUME GrantsInv, Tick PROVE GrantsInv'
  OBVIOUS
<1>1. TypeOK'
  BY DEF Tick, GrantsInv, TypeOK, tables, flags, history
<1>. QED
  BY <1>1, FrameStep DEF Tick, tables, flags, history

LEMMA StartSessionInv ==
    ASSUME GrantsInv, NEW s \in Sessions, StartSession(s)
    PROVE  GrantsInv'
<1>1. TypeOK'
  BY TimeAssumption DEF StartSession, GrantsInv, TypeOK, SessionRow, flags,
     history
<1>. QED
  BY <1>1, FrameStep DEF StartSession, flags, history

\* Both forms of RevokeChainOf only add session and token ids to revoked.
LEMMA RevokeChainType ==
    ASSUME TypeOK, NEW t \in Tokens, RevokeChainOf(t)
    PROVE  revoked' \subseteq Sessions \cup Tokens
BY DEF TypeOK, RevokeChainOf, RevokeOne, RevokeBySessionID, TokensOf

LEMMA RevokeInv ==
    ASSUME GrantsInv, NEW t \in Tokens, NEW c \in Clients, Revoke(t, c)
    PROVE  GrantsInv'
<1>1. TypeOK'
  BY RevokeChainType DEF Revoke, GrantsInv, TypeOK, tables, history
<1>. QED
  BY <1>1, FrameStep DEF Revoke, tables, history

LEMMA AdminRevokeTokenInv ==
    ASSUME GrantsInv, NEW t \in Tokens, AdminRevokeToken(t)
    PROVE  GrantsInv'
<1>1. TypeOK'
  BY DEF AdminRevokeToken, RevokeOne, GrantsInv, TypeOK, tables, history
<1>. QED
  BY <1>1, FrameStep DEF AdminRevokeToken, tables, history

\* The fields of a request that has just been started on row x.
LEMMA StartedType ==
    ASSUME NEW st \in Steps, NEW x \in Sessions \cup Credentials
    PROVE  LET q == [Idle EXCEPT !.step = st, !.src = x] IN
           q \in Request /\ q.step = st /\ q.src = x
BY IdleType DEF Request

\* A request that ends leaves nothing to check about it.
LEMMA EndedRequest ==
    ASSUME GrantsInv, NEW r \in Requests, reqs' = [reqs EXCEPT ![r] = Idle]
    PROVE  /\ reqs' \in [Requests -> Request]
           /\ \A q \in Requests : q # r => reqs'[q] = reqs[q]
           /\ RequestWellFormed(reqs[r])'
           /\ RequestWithinBounds(reqs[r])'
           /\ reqs'[r].step \notin WonSteps
<1>1. reqs'[r] = Idle
  BY DEF GrantsInv, TypeOK
<1>. QED
  BY <1>1, IdleType DEF GrantsInv, TypeOK, RequestWellFormed,
     RequestWithinBounds, CodeSteps, TokenSteps, WonSteps

LEMMA AbortInv ==
    ASSUME GrantsInv, NEW r \in Requests, Abort(r)
    PROVE  GrantsInv'
<1>1. TypeOK'
  BY EndedRequest DEF Abort, GrantsInv, TypeOK, tables, flags, history
<1>. QED
  BY <1>1, EndedRequest, RequestStep DEF Abort, tables, flags, history

LEMMA HandleReuseInv ==
    ASSUME GrantsInv, NEW r \in Requests, HandleReuse(r)
    PROVE  GrantsInv'
<1>1. reqs[r].src \in Tokens
  BY DEF HandleReuse, GrantsInv, RequestWellFormed, TokenSteps
<1>2. revoked' \subseteq Sessions \cup Tokens
  BY <1>1, RevokeChainType DEF HandleReuse, GrantsInv, TypeOK
<1>3. TypeOK'
  BY <1>1, <1>2, EndedRequest DEF HandleReuse, GrantsInv, TypeOK, tables
<1>. QED
  BY <1>3, EndedRequest, RequestStep DEF HandleReuse, tables

LEMMA EndChainInv ==
    ASSUME GrantsInv, NEW r \in Requests, EndChain(r)
    PROVE  GrantsInv'
<1>1. reqs[r].src \in Sessions
  BY DEF EndChain, GrantsInv, RequestWellFormed
<1>2. TypeOK'
  BY <1>1, EndedRequest DEF EndChain, RevokeBySessionID, TokensOf, GrantsInv,
     TypeOK, tables
<1>. QED
  BY <1>2, EndedRequest, RequestStep DEF EndChain, tables

\* Logout and the admin API both go on to end the chain of the session.
LEMMA EndSessionInv ==
    ASSUME GrantsInv, NEW r \in Requests, NEW s \in Sessions,
           Logout(r, s) \/ AdminRevokeSession(r, s)
    PROVE  GrantsInv'
<1> DEFINE p == [Idle EXCEPT !.step = "endChain", !.src = s]
<1>1. p \in Request /\ p.step = "endChain" /\ p.src = s
  BY StartedType DEF Steps
<1>2. reqs' = [reqs EXCEPT ![r] = p]
  BY DEF Logout, AdminRevokeSession
<1>. HIDE DEF p
<1>3. TypeOK'
  BY <1>1, <1>2 DEF Logout, AdminRevokeSession, RevokeOne, GrantsInv, TypeOK,
     tables, history
<1>4. reqs'[r] = p /\ \A q \in Requests : q # r => reqs'[q] = reqs[q]
  BY <1>2 DEF GrantsInv, TypeOK
<1>5. RequestWellFormed(reqs[r])' /\ RequestWithinBounds(reqs[r])'
      /\ reqs'[r].step \notin WonSteps
  BY <1>1, <1>4 DEF RequestWellFormed, RequestWithinBounds, CodeSteps,
     TokenSteps, WonSteps
<1>. QED
  BY <1>3, <1>4, <1>5, RequestStep DEF Logout, AdminRevokeSession, tables,
     history

LEMMA AuthorizeResolveInv ==
    ASSUME GrantsInv, NEW r \in Requests, NEW s \in Sessions,
           NEW c \in Clients, NEW scope \in SUBSET Scopes,
           AuthorizeResolve(r, s, c, scope)
    PROVE  GrantsInv'
<1> DEFINE p == [Idle EXCEPT !.step = "mint", !.src = s, !.client = c,
                             !.scope = scope]
<1>1. p \in Request /\ p.step = "mint" /\ p.src = s
  BY IdleType DEF Request, Steps
<1>2. reqs' = [reqs EXCEPT ![r] = p]
  BY DEF AuthorizeResolve
<1>. HIDE DEF p
<1>3. TypeOK'
  BY <1>1, <1>2 DEF AuthorizeResolve, GrantsInv, TypeOK, tables, flags, history
<1>4. reqs'[r] = p /\ \A q \in Requests : q # r => reqs'[q] = reqs[q]
  BY <1>2 DEF GrantsInv, TypeOK
<1>5. RequestWellFormed(reqs[r])' /\ RequestWithinBounds(reqs[r])'
      /\ reqs'[r].step \notin WonSteps
  BY <1>1, <1>4 DEF RequestWellFormed, RequestWithinBounds, CodeSteps,
     TokenSteps, WonSteps
<1>. QED
  BY <1>3, <1>4, <1>5, RequestStep DEF AuthorizeResolve, tables, flags, history

LEMMA ExchangeReadInv ==
    ASSUME GrantsInv, NEW r \in Requests, NEW c \in Codes,
           NEW client \in Clients, ExchangeRead(r, c, client)
    PROVE  GrantsInv'
<1> DEFINE p == [Idle EXCEPT !.step = "consumeCode", !.src = c,
                             !.client = client]
<1>1. /\ p \in Request
      /\ p.step = "consumeCode" /\ p.src = c /\ p.client = client
  BY IdleType DEF Request, Steps, Credentials
<1>2. reqs' = [reqs EXCEPT ![r] = p]
  BY DEF ExchangeRead
<1>. HIDE DEF p
<1>3. TypeOK'
  BY <1>1, <1>2 DEF ExchangeRead, GrantsInv, TypeOK, tables, flags, history
<1>4. reqs'[r] = p /\ \A q \in Requests : q # r => reqs'[q] = reqs[q]
  BY <1>2 DEF GrantsInv, TypeOK
<1>5. RequestWellFormed(reqs[r])' /\ RequestWithinBounds(reqs[r])'
      /\ reqs'[r].step \notin WonSteps
  BY <1>1, <1>4 DEF ExchangeRead, tables, RequestWellFormed,
     RequestWithinBounds, CodeSteps, TokenSteps, WonSteps
<1>. QED
  BY <1>3, <1>4, <1>5, RequestStep DEF ExchangeRead, tables, flags, history

LEMMA RefreshReadInv ==
    ASSUME GrantsInv, NEW r \in Requests, NEW t \in Tokens,
           NEW client \in Clients, RefreshRead(r, t, client)
    PROVE  GrantsInv'
<1> DEFINE p == [Idle EXCEPT !.step = "consumeToken", !.src = t,
                             !.client = client, !.at = now]
<1>1. /\ p \in Request
      /\ p.step = "consumeToken" /\ p.src = t /\ p.client = client
      /\ p.at = now
  BY IdleType DEF GrantsInv, TypeOK, Request, Steps, Credentials
<1>2. reqs' = [reqs EXCEPT ![r] = p]
  BY DEF RefreshRead
<1>. HIDE DEF p
<1>3. TypeOK'
  BY <1>1, <1>2 DEF RefreshRead, GrantsInv, TypeOK, tables, flags, history
<1>4. reqs'[r] = p /\ \A q \in Requests : q # r => reqs'[q] = reqs[q]
  BY <1>2 DEF GrantsInv, TypeOK
<1>5. now \in Nat /\ tokens[t] \in TokenRow
  BY DEF RefreshRead, GrantsInv, TypeOK
<1>6. now <= tokens[t].absoluteExpiresAt /\ now <= tokens[t].expiresAt
  BY <1>5 DEF RefreshRead, TokenRow
<1>7. RequestWellFormed(reqs[r])' /\ RequestWithinBounds(reqs[r])'
      /\ reqs'[r].step \notin WonSteps
  BY <1>1, <1>4, <1>6 DEF RefreshRead, tables, RequestWellFormed,
     RequestWithinBounds, CodeSteps, TokenSteps, WonSteps
<1>. QED
  BY <1>3, <1>4, <1>7, RequestStep DEF RefreshRead, tables, flags, history

LEMMA IssueFromCodeInv ==
    ASSUME GrantsInv, NEW r \in Requests, IssueFromCode(r)
    PROVE  GrantsInv'
<1> DEFINE code == codes[reqs[r].src]
           p == [reqs[r] EXCEPT
                   !.authTime = code.createdAt, !.scope = code.scope,
                   !.step = IF reqs[r].client \in AllowRefresh
                               /\ OfflineAccess \in code.scope
                            THEN "storeRoot" ELSE "respond"]
<1>1. /\ reqs[r] \in Request /\ reqs[r].step = "issueFromCode"
      /\ reqs[r].src \in Codes /\ code # None
      /\ code \in CodeRow /\ code.client = reqs[r].client
  BY DEF IssueFromCode, GrantsInv, TypeOK, RequestWellFormed, CodeSteps
<1>2. /\ p \in Request
      /\ p.step \in {"storeRoot", "respond"}
      /\ p.src = reqs[r].src /\ p.client = reqs[r].client
      /\ p.scope = code.scope
  BY <1>1 DEF Request, Steps, CodeRow
<1>3. reqs' = [reqs EXCEPT ![r] = p]
  BY DEF IssueFromCode
<1>. HIDE DEF p
<1>4. TypeOK'
  BY <1>2, <1>3 DEF IssueFromCode, GrantsInv, TypeOK, tables, flags, history
<1>5. reqs'[r] = p /\ \A q \in Requests : q # r => reqs'[q] = reqs[q]
  BY <1>3 DEF GrantsInv, TypeOK
<1>6. RequestWellFormed(reqs[r])' /\ RequestWithinBounds(reqs[r])'
  BY <1>1, <1>2, <1>5 DEF IssueFromCode, tables, RequestWellFormed,
     RequestWithinBounds, CodeSteps, TokenSteps, Credentials, Exists
<1>7. /\ reqs[r].step \in WonSteps /\ reqs'[r].src = reqs[r].src
      /\ HoldsCode(r) /\ ~HoldsToken(r)'
  BY <1>1, <1>2, <1>5 DEF WonSteps, HoldsCode, HoldsToken
<1>. QED
  BY <1>4, <1>5, <1>6, <1>7, RequestStep DEF IssueFromCode, tables, flags,
     history

LEMMA IssueFromTokenInv ==
    ASSUME GrantsInv, NEW r \in Requests, NEW requested \in SUBSET Scopes,
           IssueFromToken(r, requested)
    PROVE  GrantsInv'
<1> DEFINE granted == tokens[reqs[r].src].scope
           p == [reqs[r] EXCEPT
                   !.scope = IF requested = {} THEN granted ELSE requested,
                   !.step = "walk", !.cur = reqs[r].src]
<1>1. /\ reqs[r] \in Request /\ reqs[r].step = "issueFromToken"
      /\ reqs[r].src \in Tokens /\ tokens[reqs[r].src] # None
      /\ tokens[reqs[r].src] \in TokenRow
      /\ tokens[reqs[r].src].client = reqs[r].client
      /\ RequestWithinBounds(reqs[r])
  BY DEF IssueFromToken, GrantsInv, TypeOK, RequestWellFormed, TokenSteps
<1>2. CASE requested \subseteq granted
  <2>1. /\ p \in Request
        /\ p.step = "walk" /\ p.src = reqs[r].src /\ p.cur = reqs[r].src
        /\ p.client = reqs[r].client /\ p.at = reqs[r].at
        /\ p.scope \subseteq granted
    BY <1>1, <1>2 DEF Request, Steps, TokenRow
  <2>2. reqs' = [reqs EXCEPT ![r] = p]
    BY <1>2 DEF IssueFromToken
  <2>. HIDE DEF p
  <2>3. TypeOK'
    BY <2>1, <2>2 DEF IssueFromToken, GrantsInv, TypeOK, tables, flags, history
  <2>4. reqs'[r] = p /\ \A q \in Requests : q # r => reqs'[q] = reqs[q]
    BY <2>2 DEF GrantsInv, TypeOK
  <2>5. RequestWellFormed(reqs[r])' /\ RequestWithinBounds(reqs[r])'
    BY <1>1, <2>1, <2>4 DEF IssueFromToken, tables, RequestWellFormed,
       RequestWithinBounds, CodeSteps, TokenSteps
  <2>6. /\ reqs[r].step \in WonSteps /\ reqs'[r].src = reqs[r].src
        /\ HoldsToken(r) /\ ~HoldsCode(r)'
    BY <1>1, <2>1, <2>4 DEF WonSteps, HoldsCode, HoldsToken
  <2>. QED
    BY <2>3, <2>4, <2>5, <2>6, RequestStep DEF IssueFromToken, tables, flags,
       history
<1>3. CASE ~(requested \subseteq granted)
  <2>1. reqs' = [reqs EXCEPT ![r] = Idle]
    BY <1>3 DEF IssueFromToken
  <2>2. TypeOK'
    BY <2>1, EndedRequest DEF IssueFromToken, GrantsInv, TypeOK, tables, flags,
       history
  <2>. QED
    BY <2>1, <2>2, EndedRequest, RequestStep DEF IssueFromToken, tables, flags,
       history
<1>. QED
  BY <1>2, <1>3

LEMMA WalkToRootInv ==
    ASSUME GrantsInv, NEW r \in Requests, WalkToRoot(r)
    PROVE  GrantsInv'
<1> DEFINE here == tokens[reqs[r].cur]
           up == [reqs[r] EXCEPT !.cur = here.parent, !.depth = @ + 1]
           done == [reqs[r] EXCEPT !.authTime = here.createdAt,
                                   !.step = AfterWalk(r)]
<1>1. /\ reqs[r] \in Request /\ reqs[r].step = "walk"
      /\ reqs[r].src \in Tokens /\ tokens[reqs[r].src] # None
      /\ tokens[reqs[r].src].client = reqs[r].client
      /\ reqs[r].cur \in Tokens /\ here # None /\ here \in TokenRow
      /\ RequestWithinBounds(reqs[r])
  BY DEF WalkToRoot, GrantsInv, TypeOK, RequestWellFormed, TokenSteps
<1>2. here.parent # None => here.parent \in Tokens /\ tokens[here.parent] # None
  BY <1>1 DEF GrantsInv, ChainsWellFormed, TokenRow
<1>3. /\ up \in Request /\ up.step = "walk" /\ up.cur = here.parent
      /\ up.src = reqs[r].src /\ up.client = reqs[r].client
      /\ up.at = reqs[r].at /\ up.scope = reqs[r].scope
  <2>1. here.parent \in Tokens \cup {None}
    BY <1>1 DEF TokenRow
  <2>2. reqs[r].depth + 1 \in Nat
    BY <1>1 DEF Request
  <2>. HIDE DEF here
  <2>3. up = [reqs[r] EXCEPT !.cur = here.parent, !.depth = reqs[r].depth + 1]
    BY <1>1 DEF Request
  <2>. QED
    BY <1>1, <2>1, <2>2, <2>3 DEF Request
<1>4. AfterWalk(r) \in {"rotate", "respond"}
  BY DEF AfterWalk
<1>5. /\ done \in Request /\ done.step \in {"rotate", "respond"}
      /\ done.src = reqs[r].src /\ done.client = reqs[r].client
      /\ done.at = reqs[r].at /\ done.scope = reqs[r].scope
  BY <1>1, <1>4 DEF Request, TokenRow, Steps
<1>6. PICK p : /\ reqs' = [reqs EXCEPT ![r] = p]
               /\ p = done \/ (p = up /\ here.parent # None)
  BY DEF WalkToRoot
<1>. HIDE DEF up, done
<1>7. /\ p \in Request /\ p.step \in {"walk", "rotate", "respond"}
      /\ p.src = reqs[r].src /\ p.client = reqs[r].client
      /\ p.at = reqs[r].at /\ p.scope = reqs[r].scope
      /\ p.step = "walk" => p.cur \in Tokens /\ tokens[p.cur] # None
  BY <1>2, <1>3, <1>5, <1>6
<1>8. TypeOK'
  <2>1. cut' \subseteq Tokens
    BY <1>1 DEF WalkToRoot, GrantsInv, TypeOK
  <2>2. reqs' \in [Requests -> Request]
    BY <1>6, <1>7 DEF GrantsInv, TypeOK
  <2>3. UNCHANGED <<now, sessions, codes, tokens, consumed, revoked, issued,
                    audit, ended>>
    BY DEF WalkToRoot, tables, flags
  <2>. QED
    BY <2>1, <2>2, <2>3 DEF GrantsInv, TypeOK
<1>9. reqs'[r] = p /\ \A q \in Requests : q # r => reqs'[q] = reqs[q]
  BY <1>6 DEF GrantsInv, TypeOK
<1>10. RequestWellFormed(reqs[r])' /\ RequestWithinBounds(reqs[r])'
  <2>1. p.src \in Credentials /\ Exists(p.src)
    BY <1>1, <1>7, IdsAssumption DEF Credentials, Exists
  <2>. QED
    BY <1>1, <1>7, <1>9, <2>1 DEF WalkToRoot, tables, RequestWellFormed,
       RequestWithinBounds, CodeSteps, TokenSteps, Exists
<1>11. /\ reqs[r].step \in WonSteps /\ reqs'[r].src = reqs[r].src
       /\ HoldsToken(r) /\ ~HoldsCode(r)'
  BY <1>1, <1>7, <1>9 DEF WonSteps, HoldsCode, HoldsToken
<1>. QED
  BY <1>8, <1>9, <1>10, <1>11, RequestStep DEF WalkToRoot, tables, flags,
     history

LEMMA MintCodeInv ==
    ASSUME GrantsInv, NEW r \in Requests, NEW c \in Codes, MintCode(r, c)
    PROVE  GrantsInv'
<1>. USE IdsAssumption
<1> DEFINE row == [session |-> reqs[r].src, client |-> reqs[r].client,
                   scope |-> reqs[r].scope, createdAt |-> now,
                   expiresAt |-> now + AuthCodeLifetime]
<1>1. row \in CodeRow
  BY TimeAssumption DEF MintCode, GrantsInv, TypeOK, RequestWellFormed,
     Request, CodeRow
<1>2. row # None
  BY <1>1, NoneAssumption
<1>3. codes[c] = None /\ codes' = [codes EXCEPT ![c] = row]
  BY DEF MintCode
<1>. HIDE DEF row
<1>4. /\ codes'[c] = row
      /\ \A d \in Codes : d # c => codes'[d] = codes[d]
      /\ UNCHANGED <<tokens, consumed, issued>>
  BY <1>3 DEF MintCode, GrantsInv, TypeOK, flags, history
<1>5. /\ reqs' \in [Requests -> Request]
      /\ \A q \in Requests : q # r => reqs'[q] = reqs[q]
      /\ reqs'[r] = Idle
  BY EndedRequest DEF MintCode, GrantsInv, TypeOK
<1>6. TypeOK'
  BY <1>1, <1>3, <1>5 DEF MintCode, GrantsInv, TypeOK, flags, history
<1>7. \A q \in Requests : RequestWellFormed(reqs[q])'
  <2>. SUFFICES ASSUME NEW q \in Requests, q # r
                PROVE  RequestWellFormed(reqs[q])'
    BY EndedRequest DEF MintCode
  <2>. QED
    BY <1>2, <1>3, <1>4, <1>5 DEF GrantsInv, RequestWellFormed, Exists
<1>8. \A q \in Requests : RequestWithinBounds(reqs[q])'
  <2>. SUFFICES ASSUME NEW q \in Requests, q # r
                PROVE  RequestWithinBounds(reqs[q])'
    BY EndedRequest DEF MintCode
  <2>. QED
    BY <1>3, <1>4, <1>5 DEF GrantsInv, RequestWithinBounds, RequestWellFormed,
       CodeSteps, TokenSteps
<1>9. ChainsWellFormed'
  BY <1>2, <1>3, <1>4 DEF GrantsInv, ChainsWellFormed
<1>10. OneWinner'
  BY <1>4, <1>5, IdleType DEF GrantsInv, OneWinner, WonSteps
<1>11. OneBaton'
  BY <1>4, <1>5, IdleType DEF GrantsInv, OneBaton, HoldsCode, HoldsToken
<1>12. HonouredOnce'
  BY <1>2, <1>4 DEF GrantsInv, HonouredOnce, Exists
<1>13. CeilingCarried'
  BY <1>4 DEF GrantsInv, CeilingCarried
<1>14. ChainInherits'
  BY <1>3, <1>4 DEF GrantsInv, ChainInherits, ChainsWellFormed
<1>. QED
  BY <1>6, <1>7, <1>8, <1>9, <1>10, <1>11, <1>12, <1>13, <1>14 DEF GrantsInv

\* What winning or losing the CAS does to a request's local state.
LEMMA ConsumeRequest ==
    ASSUME GrantsInv, NEW r \in Requests, NEW p,
           reqs' = [reqs EXCEPT ![r] = p],
           \/ p = Idle
           \/ \E st \in Steps : p = [reqs[r] EXCEPT !.step = st]
    PROVE  /\ reqs' \in [Requests -> Request]
           /\ \A q \in Requests : q # r => reqs'[q] = reqs[q]
           /\ reqs'[r] = p
           /\ p.step # "idle" =>
                /\ p.src = reqs[r].src /\ p.client = reqs[r].client
                /\ p.at = reqs[r].at /\ p.scope = reqs[r].scope
<1>1. reqs[r] \in Request
  BY DEF GrantsInv, TypeOK
<1>2. \A st \in Steps :
        LET q == [reqs[r] EXCEPT !.step = st] IN
        /\ q \in Request
        /\ q.src = reqs[r].src /\ q.client = reqs[r].client
        /\ q.at = reqs[r].at /\ q.scope = reqs[r].scope
  BY <1>1 DEF Request
<1>3. p \in Request
  BY <1>2, IdleType
<1>. QED
  BY <1>2, <1>3, IdleType DEF GrantsInv, TypeOK

LEMMA ConsumeCodeInv ==
    ASSUME GrantsInv, NEW r \in Requests, ConsumeCode(r)
    PROVE  GrantsInv'
<1>. USE IdsAssumption
<1> DEFINE c == reqs[r].src
           won == [reqs[r] EXCEPT !.step = "issueFromCode"]
           p == IF c \in consumed THEN Idle ELSE won
<1>1. /\ reqs[r] \in Request /\ reqs[r].step = "consumeCode"
      /\ c \in Codes /\ c \notin Tokens /\ codes[c] # None
      /\ codes[c].client = reqs[r].client
  BY DEF ConsumeCode, GrantsInv, TypeOK, RequestWellFormed, CodeSteps
<1>2. /\ reqs' = [reqs EXCEPT ![r] = p]
      /\ consumed' = consumed \cup {c}
      /\ UNCHANGED <<codes, tokens, issued>>
  BY DEF ConsumeCode, tables, history
<1>3. /\ reqs' \in [Requests -> Request]
      /\ \A q \in Requests : q # r => reqs'[q] = reqs[q]
      /\ reqs'[r] = p
      /\ p.step # "idle" =>
           /\ p.src = c /\ p.client = reqs[r].client
           /\ p.at = reqs[r].at /\ p.scope = reqs[r].scope
  BY <1>2, ConsumeRequest DEF Steps
<1>4. IF c \in consumed THEN p.step = "idle" ELSE p.step = "issueFromCode"
  BY <1>1, IdleType DEF Request
<1>. HIDE DEF p, c
<1>5. TypeOK'
  BY <1>1, <1>2, <1>3 DEF ConsumeCode, GrantsInv, TypeOK, tables, history,
     Credentials
<1>6. \A q \in Requests : RequestWellFormed(reqs[q])'
  BY <1>1, <1>2, <1>3, <1>4 DEF GrantsInv, RequestWellFormed, Exists,
     CodeSteps, TokenSteps
<1>7. \A q \in Requests : RequestWithinBounds(reqs[q])'
  BY <1>1, <1>2, <1>3, <1>4 DEF GrantsInv, RequestWithinBounds, TokenSteps
<1>8. ChainsWellFormed'
  BY <1>2 DEF GrantsInv, ChainsWellFormed
<1>9. c \notin consumed => issued[c] = <<>>
  BY <1>1 DEF GrantsInv, HonouredOnce, Credentials
<1>10. OneWinner'
  BY <1>1, <1>2, <1>3, <1>4, <1>9 DEF GrantsInv, OneWinner, WonSteps
<1>11. c \notin consumed => \A t \in Tokens : tokens[t] # None =>
         tokens[t].origin # c
  BY <1>1 DEF GrantsInv, ChainsWellFormed
<1>12. OneBaton'
  BY <1>1, <1>2, <1>3, <1>4, <1>11 DEF GrantsInv, OneBaton, HoldsCode,
     HoldsToken
<1>13. HonouredOnce' /\ CeilingCarried' /\ ChainInherits'
  BY <1>2 DEF GrantsInv, HonouredOnce, Exists, CeilingCarried, ChainInherits
<1>. QED
  BY <1>5, <1>6, <1>7, <1>8, <1>10, <1>12, <1>13 DEF GrantsInv

LEMMA ConsumeTokenInv ==
    ASSUME GrantsInv, NEW r \in Requests, ConsumeToken(r)
    PROVE  GrantsInv'
<1>. USE IdsAssumption
<1> DEFINE t == reqs[r].src
           won == [reqs[r] EXCEPT !.step = "issueFromToken"]
           lost == [reqs[r] EXCEPT !.step = "reuse"]
           p == IF t \notin consumed THEN won
                ELSE IF DetectReuse THEN lost ELSE Idle
<1>1. /\ reqs[r] \in Request /\ reqs[r].step = "consumeToken"
      /\ t \in Tokens /\ t \notin Codes /\ tokens[t] # None
      /\ tokens[t].client = reqs[r].client
      /\ RequestWithinBounds(reqs[r])
  BY DEF ConsumeToken, GrantsInv, TypeOK, RequestWellFormed, TokenSteps
<1>2. /\ reqs' = [reqs EXCEPT ![r] = p]
      /\ consumed' = consumed \cup {t}
      /\ UNCHANGED <<codes, tokens, issued>>
  BY DEF ConsumeToken, tables, history
<1>3. /\ reqs' \in [Requests -> Request]
      /\ \A q \in Requests : q # r => reqs'[q] = reqs[q]
      /\ reqs'[r] = p
      /\ p.step # "idle" =>
           /\ p.src = t /\ p.client = reqs[r].client
           /\ p.at = reqs[r].at /\ p.scope = reqs[r].scope
  BY <1>2, ConsumeRequest DEF Steps
<1>4. IF t \notin consumed THEN p.step = "issueFromToken"
                           ELSE p.step \in {"reuse", "idle"}
  BY <1>1, IdleType DEF Request
<1>. HIDE DEF p, t
<1>5. TypeOK'
  BY <1>1, <1>2, <1>3 DEF ConsumeToken, GrantsInv, TypeOK, tables, history,
     Credentials
<1>6. \A q \in Requests : RequestWellFormed(reqs[q])'
  BY <1>1, <1>2, <1>3, <1>4 DEF GrantsInv, RequestWellFormed, Exists,
     CodeSteps, TokenSteps
<1>7. \A q \in Requests : RequestWithinBounds(reqs[q])'
  BY <1>1, <1>2, <1>3, <1>4 DEF GrantsInv, RequestWithinBounds, TokenSteps, t
<1>8. ChainsWellFormed'
  BY <1>2 DEF GrantsInv, ChainsWellFormed
<1>9. t \notin consumed => issued[t] = <<>>
  BY <1>1 DEF GrantsInv, HonouredOnce, Credentials
<1>10. OneWinner'
  BY <1>1, <1>2, <1>3, <1>4, <1>9 DEF GrantsInv, OneWinner, WonSteps
<1>11. t \notin consumed => \A u \in Tokens : tokens[u] # None =>
         tokens[u].parent # t
  BY <1>1 DEF GrantsInv, ChainsWellFormed
<1>12. OneBaton'
  BY <1>1, <1>2, <1>3, <1>4, <1>11 DEF GrantsInv, OneBaton, HoldsCode,
     HoldsToken
<1>13. HonouredOnce' /\ CeilingCarried' /\ ChainInherits'
  BY <1>2 DEF GrantsInv, HonouredOnce, Exists, CeilingCarried, ChainInherits
<1>. QED
  BY <1>5, <1>6, <1>7, <1>8, <1>10, <1>12, <1>13 DEF GrantsInv

\* Storing a refresh token keeps the invariant when its row hangs off spent
\* credentials, no other token of its chain is unspent, no other request holds
\* its chain's baton, and it inherits from its parent and its code.
LEMMA StoreTokenInv ==
    ASSUME GrantsInv, NEW r \in Requests, NEW t \in Tokens,
           NEW row \in TokenRow,
           reqs[r].step \in {"storeRoot", "rotate"},
           tokens[t] = None,
           tokens' = [tokens EXCEPT ![t] = row],
           reqs' = [reqs EXCEPT ![r].step = "respond"],
           UNCHANGED <<now, sessions, codes, flags, history>>,
           row.parent # None =>
             tokens[row.parent] # None /\ row.parent \in consumed,
           row.origin \in Codes =>
             codes[row.origin] # None /\ row.origin \in consumed,
           \A u \in Tokens :
             tokens[u] # None /\ tokens[u].origin = row.origin => u \in consumed,
           \A q \in Requests : q # r =>
             /\ HoldsCode(q) => row.origin # reqs[q].src
             /\ HoldsToken(q) =>
                  /\ row.parent # reqs[q].src
                  /\ tokens[reqs[q].src].origin # row.origin,
           row.parent # None =>
             LET old == tokens[row.parent] IN
             /\ row.absoluteExpiresAt = old.absoluteExpiresAt
             /\ row.createdAt <= old.absoluteExpiresAt
             /\ row.createdAt <= old.expiresAt
             /\ row.client \notin AbsoluteMode =>
                  row.expiresAt <= old.absoluteExpiresAt
             /\ row.client = old.client
             /\ row.session = old.session
             /\ row.scope \subseteq old.scope,
           row.origin \in Codes =>
             LET code == codes[row.origin] IN
             /\ row.client = code.client
             /\ row.session = code.session
             /\ row.scope \subseteq code.scope
    PROVE  GrantsInv'
<1>. USE IdsAssumption
<1>1. row # None
  BY NoneAssumption
<1>2. /\ tokens'[t] = row
      /\ \A u \in Tokens : u # t => tokens'[u] = tokens[u]
      /\ UNCHANGED <<codes, consumed, issued>>
  BY DEF GrantsInv, TypeOK, flags, history
<1>3. reqs[r] \in Request
  BY DEF GrantsInv, TypeOK
<1>4. /\ reqs' \in [Requests -> Request]
      /\ \A q \in Requests : q # r => reqs'[q] = reqs[q]
      /\ reqs'[r].step = "respond" /\ reqs'[r].src = reqs[r].src
  BY <1>3 DEF GrantsInv, TypeOK, Request, Steps
<1>5. TypeOK'
  BY <1>4 DEF GrantsInv, TypeOK, flags, history
<1>6. \A u \in Tokens : tokens[u] # None => tokens'[u] = tokens[u]
  BY <1>2
<1>7. reqs[r].src \in Credentials /\ Exists(reqs[r].src)
  BY DEF GrantsInv, RequestWellFormed, CodeSteps, TokenSteps, Credentials,
     Exists
<1>8. \A q \in Requests : RequestWellFormed(reqs[q])'
  <2>. TAKE q \in Requests
  <2>1. CASE q = r
    BY <1>2, <1>4, <1>6, <1>7, <2>1 DEF RequestWellFormed, CodeSteps,
       TokenSteps, Credentials, Exists
  <2>2. CASE q # r
    BY <1>1, <1>2, <1>4, <1>6, <2>2 DEF GrantsInv, RequestWellFormed, Exists,
       Credentials
  <2>. QED
    BY <2>1, <2>2
<1>9. \A q \in Requests : RequestWithinBounds(reqs[q])'
  <2>. TAKE q \in Requests
  <2>1. CASE q = r
    BY <1>4, <2>1 DEF RequestWithinBounds, TokenSteps
  <2>2. CASE q # r
    BY <1>2, <1>4, <1>6, <2>2 DEF GrantsInv, RequestWithinBounds,
       RequestWellFormed, TokenSteps
  <2>. QED
    BY <2>1, <2>2
<1>10. ChainsWellFormed'
  BY <1>1, <1>2 DEF GrantsInv, ChainsWellFormed, TypeOK, TokenRow
<1>11. OneWinner'
  BY <1>2, <1>4 DEF GrantsInv, OneWinner, WonSteps
<1>12. \A q \in Requests : HoldsToken(q) =>
         reqs[q].src \in Tokens /\ tokens[reqs[q].src] # None
  BY DEF GrantsInv, RequestWellFormed, HoldsToken, TokenSteps
<1>13. \A q \in Requests :
         /\ HoldsCode(q)' => q # r /\ HoldsCode(q)
         /\ HoldsToken(q)' => q # r /\ HoldsToken(q)
  BY <1>4 DEF HoldsCode, HoldsToken
<1>14. OneBaton'
  <2>1. (\A v, u \in Tokens :
           /\ tokens[v] # None /\ tokens[u] # None
           /\ v \notin consumed /\ u \notin consumed
           /\ tokens[v].origin = tokens[u].origin
           => v = u)'
    BY <1>1, <1>2 DEF GrantsInv, OneBaton
  <2>2. (\A q \in Requests, u \in Tokens :
           tokens[u] # None =>
             /\ HoldsCode(q) => tokens[u].origin # reqs[q].src
             /\ HoldsToken(q) =>
                  /\ tokens[u].parent # reqs[q].src
                  /\ tokens[u].origin = tokens[reqs[q].src].origin =>
                       u \in consumed)'
    <3>. SUFFICES ASSUME NEW q \in Requests, NEW u \in Tokens, tokens'[u] # None
                  PROVE
             /\ HoldsCode(q)' => tokens'[u].origin # reqs'[q].src
             /\ HoldsToken(q)' =>
                  /\ tokens'[u].parent # reqs'[q].src
                  /\ tokens'[u].origin = tokens'[reqs'[q].src].origin =>
                       u \in consumed'
      OBVIOUS
    <3>1. CASE u = t
      BY <1>2, <1>4, <1>6, <1>12, <1>13, <3>1
    <3>2. CASE u # t
      BY <1>2, <1>4, <1>6, <1>12, <1>13, <3>2 DEF GrantsInv, OneBaton
    <3>. QED
      BY <3>1, <3>2
  <2>3. (\A p, q \in Requests :
           /\ HoldsToken(p) /\ HoldsToken(q)
           /\ tokens[reqs[p].src].origin = tokens[reqs[q].src].origin
           => p = q)'
    BY <1>4, <1>6, <1>12, <1>13 DEF GrantsInv, OneBaton
  <2>. QED
    BY <2>1, <2>2, <2>3 DEF OneBaton
<1>15. HonouredOnce'
  BY <1>1, <1>2 DEF GrantsInv, HonouredOnce, Exists, Credentials
<1>16. \A u \in Tokens : u # t /\ tokens'[u] # None =>
         /\ tokens'[u] = tokens[u] /\ tokens[u] # None
         /\ tokens[u].parent # None =>
              /\ tokens[u].parent \in Tokens
              /\ tokens'[tokens[u].parent] = tokens[tokens[u].parent]
  BY <1>2, <1>6 DEF GrantsInv, TypeOK, TokenRow, ChainsWellFormed
<1>17. row.parent # None =>
         row.parent \in Tokens /\ tokens'[row.parent] = tokens[row.parent]
  BY <1>6 DEF TokenRow
<1>18. CeilingCarried'
  BY <1>2, <1>16, <1>17 DEF GrantsInv, CeilingCarried
<1>19. ChainInherits'
  BY <1>2, <1>16, <1>17 DEF GrantsInv, ChainInherits
<1>. QED
  BY <1>5, <1>8, <1>9, <1>10, <1>11, <1>14, <1>15, <1>18, <1>19 DEF GrantsInv

LEMMA StoreRootInv ==
    ASSUME GrantsInv, NEW r \in Requests, NEW t \in Tokens, StoreRoot(r, t)
    PROVE  GrantsInv'
<1>. USE IdsAssumption
<1> DEFINE c == reqs[r].src
           row == [session |-> codes[c].session, client |-> reqs[r].client,
                   scope |-> reqs[r].scope, parent |-> None, origin |-> c,
                   createdAt |-> now,
                   expiresAt |-> now + (IF reqs[r].client \in AbsoluteMode
                                        THEN RefreshAbsoluteLifetime
                                        ELSE RefreshLifetime),
                   absoluteExpiresAt |-> now + RefreshAbsoluteLifetime]
<1>1. /\ reqs[r] \in Request /\ reqs[r].step = "storeRoot"
      /\ c \in Codes /\ c \notin Tokens /\ codes[c] # None
      /\ codes[c] \in CodeRow /\ codes[c].client = reqs[r].client
      /\ reqs[r].scope \subseteq codes[c].scope
  BY DEF StoreRoot, GrantsInv, TypeOK, RequestWellFormed, RequestWithinBounds,
     CodeSteps
<1>2. now \in Nat
  BY DEF GrantsInv, TypeOK
<1>3. row \in TokenRow
  BY <1>1, <1>2, TimeAssumption DEF Request, CodeRow, TokenRow, Credentials
<1>4. /\ row.parent = None /\ row.origin = c
      /\ row.client = codes[c].client /\ row.session = codes[c].session
      /\ row.scope \subseteq codes[c].scope
  BY <1>1
<1>5. c \in consumed
  BY <1>1 DEF GrantsInv, OneWinner, WonSteps
<1>6. \A u \in Tokens : tokens[u] # None => tokens[u].origin # c
  BY <1>1 DEF GrantsInv, OneBaton, HoldsCode
<1>7. \A q \in Requests : q # r /\ HoldsCode(q) => reqs[q].src # c
  BY <1>1 DEF GrantsInv, OneWinner, WonSteps, HoldsCode
<1>8. \A q \in Requests : HoldsToken(q) =>
        reqs[q].src \in Tokens /\ tokens[reqs[q].src] # None
  BY DEF GrantsInv, RequestWellFormed, HoldsToken, TokenSteps
<1>9. /\ tokens[t] = None
      /\ tokens' = [tokens EXCEPT ![t] = row]
      /\ reqs' = [reqs EXCEPT ![r].step = "respond"]
      /\ UNCHANGED <<now, sessions, codes, flags, history>>
  BY DEF StoreRoot
<1>. HIDE DEF row, c
<1>10. \A q \in Requests : q # r =>
         /\ HoldsCode(q) => row.origin # reqs[q].src
         /\ HoldsToken(q) =>
              /\ row.parent # reqs[q].src
              /\ tokens[reqs[q].src].origin # row.origin
  BY <1>4, <1>6, <1>7, <1>8
<1>11. /\ row.origin \in Codes =>
            codes[row.origin] # None /\ row.origin \in consumed
       /\ row.origin \in Codes =>
            LET code == codes[row.origin] IN
            /\ row.client = code.client
            /\ row.session = code.session
            /\ row.scope \subseteq code.scope
       /\ \A u \in Tokens :
            tokens[u] # None /\ tokens[u].origin = row.origin => u \in consumed
       /\ row.parent = None
       /\ reqs[r].step \in {"storeRoot", "rotate"}
  BY <1>1, <1>4, <1>5, <1>6
<1>. QED
  BY <1>3, <1>9, <1>10, <1>11, StoreTokenInv

\* A rotated row expires at a natural number, and before the ceiling unless
\* its client uses absolute expiry.
LEMMA RotatedExpiryBound ==
    ASSUME NEW old \in TokenRow, NEW client, NEW at \in Nat
    PROVE  /\ RotatedExpiry(old, client, at) \in Nat
           /\ client \notin AbsoluteMode =>
                RotatedExpiry(old, client, at) <= old.absoluteExpiresAt
BY TimeAssumption DEF RotatedExpiry, TokenRow

LEMMA RotateInv ==
    ASSUME GrantsInv, NEW r \in Requests, NEW t \in Tokens, Rotate(r, t)
    PROVE  GrantsInv'
<1>. USE IdsAssumption
<1> DEFINE o == reqs[r].src
           row == RotatedRow(o, r)
<1>1. /\ reqs[r] \in Request /\ reqs[r].step = "rotate"
      /\ o \in Tokens /\ o \notin Codes /\ tokens[o] # None
      /\ tokens[o] \in TokenRow /\ tokens[o].client = reqs[r].client
      /\ reqs[r].at <= tokens[o].absoluteExpiresAt
      /\ reqs[r].at <= tokens[o].expiresAt
      /\ reqs[r].scope \subseteq tokens[o].scope
  BY DEF Rotate, GrantsInv, TypeOK, RequestWellFormed, RequestWithinBounds,
     TokenSteps
<1>2. reqs[r].at \in Nat
  BY <1>1 DEF Request
<1>3. /\ RotatedExpiry(tokens[o], reqs[r].client, reqs[r].at) \in Nat
      /\ reqs[r].client \notin AbsoluteMode =>
           RotatedExpiry(tokens[o], reqs[r].client, reqs[r].at)
             <= tokens[o].absoluteExpiresAt
  BY <1>1, <1>2, RotatedExpiryBound
<1>4. row \in TokenRow
  BY <1>1, <1>3 DEF RotatedRow, Request, TokenRow
<1>5. /\ row.parent = o /\ row.origin = tokens[o].origin
      /\ row.client = tokens[o].client /\ row.session = tokens[o].session
      /\ row.scope \subseteq tokens[o].scope
      /\ row.createdAt <= tokens[o].absoluteExpiresAt
      /\ row.createdAt <= tokens[o].expiresAt
      /\ row.absoluteExpiresAt = tokens[o].absoluteExpiresAt
      /\ row.client \notin AbsoluteMode =>
           row.expiresAt <= tokens[o].absoluteExpiresAt
  BY <1>1, <1>3 DEF RotatedRow
<1>6. o \in consumed
  BY <1>1 DEF GrantsInv, OneWinner, WonSteps
<1>7. HoldsToken(r)
  BY <1>1 DEF HoldsToken
<1>8. \A u \in Tokens :
        tokens[u] # None /\ tokens[u].origin = tokens[o].origin => u \in consumed
  BY <1>1, <1>7 DEF GrantsInv, OneBaton
<1>9. \A q \in Requests : q # r =>
        /\ HoldsCode(q) => tokens[o].origin # reqs[q].src
        /\ HoldsToken(q) =>
             /\ o # reqs[q].src
             /\ tokens[reqs[q].src].origin # tokens[o].origin
  BY <1>1, <1>7 DEF GrantsInv, OneBaton
<1>10. /\ tokens[t] = None
       /\ tokens' = [tokens EXCEPT ![t] = row]
       /\ reqs' = [reqs EXCEPT ![r].step = "respond"]
       /\ UNCHANGED <<now, sessions, codes, flags, history>>
  BY DEF Rotate
<1>11. tokens[o].origin \in Codes =>
         LET code == codes[tokens[o].origin] IN
         /\ code # None /\ tokens[o].origin \in consumed
         /\ tokens[o].client = code.client
         /\ tokens[o].session = code.session
         /\ tokens[o].scope \subseteq code.scope
  BY <1>1 DEF GrantsInv, ChainsWellFormed, ChainInherits
<1>. HIDE DEF row, o
<1>12. /\ row.origin \in Codes =>
            codes[row.origin] # None /\ row.origin \in consumed
       /\ row.origin \in Codes =>
            LET code == codes[row.origin] IN
            /\ row.client = code.client
            /\ row.session = code.session
            /\ row.scope \subseteq code.scope
  BY <1>5, <1>11
<1>13. \A q \in Requests : q # r =>
         /\ HoldsCode(q) => row.origin # reqs[q].src
         /\ HoldsToken(q) =>
              /\ row.parent # reqs[q].src
              /\ tokens[reqs[q].src].origin # row.origin
  BY <1>5, <1>9
<1>. QED
  BY <1>1, <1>4, <1>5, <1>6, <1>8, <1>10, <1>12, <1>13, StoreTokenInv

LEMMA RespondInv ==
    ASSUME GrantsInv, NEW r \in Requests, Respond(r)
    PROVE  GrantsInv'
<1> DEFINE x == reqs[r].src
           answer == Append(issued[x], reqs[r].authTime)
<1>1. /\ reqs[r].step = "respond" /\ reqs[r].authTime \in Nat
      /\ x \in Credentials /\ Exists(x)
  BY DEF Respond, GrantsInv, TypeOK, Request, RequestWellFormed
<1>2. x \in consumed /\ issued[x] = <<>>
  BY <1>1 DEF GrantsInv, OneWinner, WonSteps
<1>3. answer \in Seq(Nat) /\ Len(answer) = 1 /\ answer # <<>>
  BY <1>1, <1>2
<1>4. /\ issued' = [issued EXCEPT ![x] = answer]
      /\ UNCHANGED <<now, sessions, codes, tokens, consumed, revoked, audit,
                     ended, cut>>
  BY DEF Respond, tables, flags
<1>. HIDE DEF answer
<1>5. /\ issued'[x] = answer
      /\ \A y \in Credentials : y # x => issued'[y] = issued[y]
  BY <1>1, <1>4 DEF GrantsInv, TypeOK
<1>6. /\ reqs' \in [Requests -> Request]
      /\ \A q \in Requests : q # r => reqs'[q] = reqs[q]
      /\ reqs'[r] = Idle /\ Idle.step = "idle"
  BY EndedRequest, IdleType DEF Respond, GrantsInv, TypeOK
<1>7. TypeOK'
  BY <1>3, <1>4, <1>6 DEF GrantsInv, TypeOK
<1>8. \A q \in Requests : RequestWellFormed(reqs[q])'
  BY <1>4, <1>6 DEF GrantsInv, RequestWellFormed, Exists, CodeSteps, TokenSteps
<1>9. \A q \in Requests : RequestWithinBounds(reqs[q])'
  BY <1>4, <1>6 DEF GrantsInv, RequestWithinBounds, TokenSteps
<1>10. \A q \in Requests : q # r /\ reqs[q].step \in WonSteps =>
         /\ reqs[q].src # x
         /\ reqs[q].src \in Credentials
  BY <1>1 DEF GrantsInv, OneWinner, WonSteps, RequestWellFormed, CodeSteps,
     TokenSteps, Credentials
<1>11. OneWinner'
  BY <1>4, <1>5, <1>6, <1>10 DEF GrantsInv, OneWinner, WonSteps
<1>12. OneBaton'
  BY <1>4, <1>6 DEF GrantsInv, OneBaton, HoldsCode, HoldsToken
<1>13. HonouredOnce'
  <2>. HIDE DEF x
  <2>1. \A y \in Credentials :
          Exists(y)' <=> Exists(y)
    BY <1>4 DEF Exists
  <2>2. Len(answer) <= 1
    BY <1>3
  <2>. QED
    BY <1>1, <1>2, <1>3, <1>4, <1>5, <2>1, <2>2 DEF GrantsInv, HonouredOnce
<1>14. ChainsWellFormed' /\ CeilingCarried' /\ ChainInherits'
  BY <1>4 DEF GrantsInv, ChainsWellFormed, CeilingCarried, ChainInherits
<1>. QED
  BY <1>7, <1>8, <1>9, <1>11, <1>12, <1>13, <1>14 DEF GrantsInv

LEMMA InitInv == Init => GrantsInv
<1>. SUFFICES ASSUME Init PROVE GrantsInv
  OBVIOUS
<1>. USE IdsAssumption
<1>1. PICK owner \in [LegacyTokens -> Clients] :
        tokens = [t \in Tokens |-> IF t \in LegacyTokens
                                   THEN LegacyRow(t, owner[t]) ELSE None]
  BY DEF Init
<1>2. \A t \in LegacyTokens :
        LET row == LegacyRow(t, owner[t]) IN
        row \in TokenRow /\ row.parent = None /\ row.origin = t
  BY TimeAssumption DEF LegacyRow, TokenRow, Credentials
<1>3. /\ tokens \in [Tokens -> TokenRow \cup {None}]
      /\ \A t \in Tokens : tokens[t] # None =>
           tokens[t].parent = None /\ tokens[t].origin = t
  BY <1>1, <1>2
<1>4. \A r \in Requests : reqs[r] = Idle /\ reqs[r].step = "idle"
  BY IdleType DEF Init
<1>5. \A x \in Credentials : issued[x] = <<>> /\ Len(issued[x]) = 0
  BY DEF Init
<1>6. TypeOK
  <2>1. reqs \in [Requests -> Request]
    BY IdleType DEF Init
  <2>. QED
    BY <1>3, <2>1 DEF Init, TypeOK
<1>7. \A r \in Requests : RequestWellFormed(reqs[r])
                           /\ RequestWithinBounds(reqs[r])
  BY <1>4 DEF RequestWellFormed, RequestWithinBounds, CodeSteps, TokenSteps
<1>8. ChainsWellFormed /\ CeilingCarried /\ ChainInherits
  BY <1>3 DEF ChainsWellFormed, CeilingCarried, ChainInherits
<1>9. OneWinner /\ OneBaton
  BY <1>3, <1>4 DEF OneWinner, OneBaton, WonSteps, HoldsCode, HoldsToken
<1>10. HonouredOnce
  BY <1>5 DEF HonouredOnce
<1>. QED
  BY <1>6, <1>7, <1>8, <1>9, <1>10 DEF GrantsInv

LEMMA NextInv == GrantsInv /\ [Next]_vars => GrantsInv'
<1>. SUFFICES ASSUME GrantsInv, [Next]_vars PROVE GrantsInv'
  OBVIOUS
<1>1. CASE Tick
  BY <1>1, TickInv
<1>2. CASE \E s \in Sessions : StartSession(s)
  BY <1>2, StartSessionInv
<1>3. CASE \E r \in Requests, s \in Sessions, client \in Clients,
              scope \in SUBSET Scopes : AuthorizeResolve(r, s, client, scope)
  BY <1>3, AuthorizeResolveInv
<1>4. CASE \E r \in Requests : GrantStep(r)
  <2>. PICK r \in Requests : GrantStep(r)
    BY <1>4
  <2>1. CASE \E c \in Codes : MintCode(r, c)
    BY <2>1, MintCodeInv
  <2>2. CASE \E c \in Codes, client \in Clients : ExchangeRead(r, c, client)
    BY <2>2, ExchangeReadInv
  <2>3. CASE ConsumeCode(r)
    BY <2>3, ConsumeCodeInv
  <2>4. CASE IssueFromCode(r)
    BY <2>4, IssueFromCodeInv
  <2>5. CASE \E t \in Tokens : StoreRoot(r, t)
    BY <2>5, StoreRootInv
  <2>6. CASE \E t \in Tokens, client \in Clients : RefreshRead(r, t, client)
    BY <2>6, RefreshReadInv
  <2>7. CASE ConsumeToken(r)
    BY <2>7, ConsumeTokenInv
  <2>8. CASE \E requested \in SUBSET Scopes : IssueFromToken(r, requested)
    BY <2>8, IssueFromTokenInv
  <2>9. CASE WalkToRoot(r)
    BY <2>9, WalkToRootInv
  <2>10. CASE \E t \in Tokens : Rotate(r, t)
    BY <2>10, RotateInv
  <2>11. CASE HandleReuse(r)
    BY <2>11, HandleReuseInv
  <2>12. CASE Respond(r)
    BY <2>12, RespondInv
  <2>. QED
    BY <2>1, <2>2, <2>3, <2>4, <2>5, <2>6, <2>7, <2>8, <2>9, <2>10, <2>11,
       <2>12 DEF GrantStep
<1>5. CASE \E t \in Tokens, client \in Clients : Revoke(t, client)
  BY <1>5, RevokeInv
<1>6. CASE \E t \in Tokens : AdminRevokeToken(t)
  BY <1>6, AdminRevokeTokenInv
<1>7. CASE \E r \in Requests, s \in Sessions :
             Logout(r, s) \/ AdminRevokeSession(r, s)
  BY <1>7, EndSessionInv
<1>8. CASE \E r \in Requests : EndChain(r)
  BY <1>8, EndChainInv
<1>9. CASE \E r \in Requests : Abort(r)
  BY <1>9, AbortInv
<1>10. CASE UNCHANGED vars
  <2>1. TypeOK'
    BY <1>10 DEF GrantsInv, TypeOK, vars, tables, flags, history
  <2>. QED
    BY <1>10, <2>1, FrameStep DEF vars, tables, flags, history
<1>. QED
  BY <1>1, <1>2, <1>3, <1>4, <1>5, <1>6, <1>7, <1>8, <1>9, <1>10 DEF Next

\* GrantsInv is an invariant of the token endpoint, for any number of
\* requests, codes and tokens and any lifetimes: each chain has one baton.
THEOREM GrantsSafe == Spec => []GrantsInv
BY InitInv, NextInv, PTL DEF Spec

\* Every variable keeps its type.
THEOREM TypeCorrect == Spec => []TypeOK
<1>1. GrantsInv => TypeOK
  BY DEF GrantsInv
<1>. QED
  BY <1>1, GrantsSafe, PTL

\* A code or refresh token is answered at most once, and only once consumed
\* (AuthCodeGrant.Handle, RefreshGrant.Handle).
THEOREM SingleUse == Spec => []HonouredOnce
<1>1. GrantsInv => HonouredOnce
  BY DEF GrantsInv
<1>. QED
  BY <1>1, GrantsSafe, PTL

\* However exchanges, rotations and failures interleave, a chain has at most
\* one refresh token that is neither consumed nor revoked.
THEOREM NoForkedChain == Spec => []OneLiveTokenPerChain
<1>1. GrantsInv => OneLiveTokenPerChain
  BY DEF GrantsInv, OneBaton, OneLiveTokenPerChain, Live
<1>. QED
  BY <1>1, GrantsSafe, PTL

\* Rotation keeps the ceiling of the chain (the AbsoluteExpiresAt column).
THEOREM CeilingNeverMoves == Spec => []CeilingCarried
<1>1. GrantsInv => CeilingCarried
  BY DEF GrantsInv
<1>. QED
  BY <1>1, GrantsSafe, PTL

\* A chain keeps its client and session and never regains a scope.
THEOREM ChainNeverWidens == Spec => []ChainInherits
<1>1. GrantsInv => ChainInherits
  BY DEF GrantsInv
<1>. QED
  BY <1>1, GrantsSafe, PTL

-----------------------------------------------------------------------------
(* The walk of chainRootCreatedAt. *)

\* A line begins with its token and goes on to every parent.
LEMMA LineClimbs ==
    ASSUME NEW t \in Tokens
    PROVE  /\ t \in Line(t)
           /\ \A u \in Line(t) :
                /\ u \in Tokens
                /\ tokens[u] # None /\ tokens[u].parent # None
                   /\ tokens[u].parent \in Tokens
                     => tokens[u].parent \in Line(t)
<1>1. t \in Line(t) /\ Line(t) \subseteq Tokens
  BY DEF Line
<1>2. ASSUME NEW u \in Line(t), tokens[u] # None, tokens[u].parent # None,
             tokens[u].parent \in Tokens
      PROVE  tokens[u].parent \in Line(t)
  <2>1. ASSUME NEW S \in SUBSET Tokens, t \in S, WithParents(S)
        PROVE  tokens[u].parent \in S
    <3>1. u \in S
      BY <2>1 DEF Line
    <3>. QED
      BY <1>2, <2>1, <3>1 DEF WithParents
  <2>. QED
    BY <1>2, <2>1 DEF Line
<1>. QED
  BY <1>1, <1>2

\* Rows stay as they are, so no token loses an ancestor.
LEMMA LineKept ==
    ASSUME \A u \in Tokens : tokens[u] # None => tokens'[u] = tokens[u],
           NEW t \in Tokens
    PROVE  Line(t) \subseteq Line(t)'
<1>. SUFFICES ASSUME NEW u \in Line(t), NEW S \in SUBSET Tokens, t \in S,
                     WithParents(S)'
              PROVE  u \in S
  BY DEF Line
<1>1. WithParents(S)
  BY DEF WithParents
<1>. QED
  BY <1>1 DEF Line

\* What a walk has reached stays reached.
LEMMA ReachedKept ==
    ASSUME \A u \in Tokens : tokens[u] # None => tokens'[u] = tokens[u],
           cut \subseteq cut', NEW t \in Tokens, NEW at, Reached(t, at)
    PROVE  Reached(t, at)'
<1>1. Line(t) \subseteq Line(t)' /\ Line(t) \subseteq Tokens
  BY LineKept DEF Line
<1>2. RootTime(t, at) => RootTime(t, at)'
  BY <1>1 DEF RootTime
<1>3. WithinWalk(t)' => WithinWalk(t)
  <2>. SUFFICES ASSUME WithinWalk(t)' PROVE WithinWalk(t)
    OBVIOUS
  <2>1. IsFiniteSet(Line(t)') /\ Cardinality(Line(t)') <= MaxDepth + 1
    BY DEF WithinWalk
  <2>2. /\ IsFiniteSet(Line(t)) /\ Cardinality(Line(t)) <= Cardinality(Line(t)')
        /\ Cardinality(Line(t)) \in Nat /\ Cardinality(Line(t)') \in Nat
    BY <1>1, <2>1, FS_Subset, FS_CardinalityType
  <2>. QED
    BY <2>1, <2>2, TimeAssumption DEF WithinWalk
<1>4. \E u \in Line(t)' : tokens'[u] # None /\ tokens'[u].createdAt = at
  BY <1>1 DEF Reached
<1>. QED
  BY <1>2, <1>3, <1>4 DEF Reached

\* Where a request is in its walk depends on the token table only, and on the
\* failures of the walks that have ended.
LEMMA WalkKept ==
    ASSUME tokens' = tokens, cut \subseteq cut', NEW q, NEW rank
    PROVE  /\ WalkWithin(q, rank) => WalkWithin(q, rank)'
           /\ Ranked(rank)' <=> Ranked(rank)
<1>1. q.src \in Tokens /\ Reached(q.src, q.authTime) => Reached(q.src, q.authTime)'
  <2>. SUFFICES ASSUME q.src \in Tokens, Reached(q.src, q.authTime)
                PROVE  Reached(q.src, q.authTime)'
    OBVIOUS
  <2>1. PICK t \in Tokens : t = q.src
    OBVIOUS
  <2>2. PICK at : at = q.authTime
    OBVIOUS
  <2>3. Reached(t, at)
    BY <2>1, <2>2
  <2>4. Reached(t, at)'
    BY <2>3, ReachedKept
  <2>. QED
    BY <2>1, <2>2, <2>4
<1>2. Line(q.src)' = Line(q.src)
  BY DEF Line, WithParents
<1>3. WalkWithin(q, rank) => WalkWithin(q, rank)'
  BY <1>1, <1>2 DEF WalkWithin
<1>. QED
  BY <1>3 DEF Ranked

\* A step that stores no token and answers none keeps the invariant if the one
\* request it changes is still within its walk.
LEMMA WalkRequest ==
    ASSUME WalkInv, tokens' = tokens, cut \subseteq cut',
           \A t \in Tokens : issued'[t] = issued[t],
           NEW r \in Requests, NEW p, reqs'[r] = p,
           \A q \in Requests : q # r => reqs'[q] = reqs[q],
           \A rank \in [Tokens -> Nat] :
             Ranked(rank) /\ WalkWithin(reqs[r], rank) => WalkWithin(p, rank)'
    PROVE  WalkInv'
<1>1. PICK rank \in [Tokens -> Nat] :
        Ranked(rank) /\ \A q \in Requests : WalkWithin(reqs[q], rank)
  BY DEF WalkInv
<1>2. Ranked(rank)'
  BY <1>1, WalkKept
<1>3. \A q \in Requests : WalkWithin(reqs[q], rank)'
  <2>. TAKE q \in Requests
  <2>1. PICK g : g = reqs'[q]
    OBVIOUS
  <2>2. CASE q # r
    <3>1. WalkWithin(g, rank)
      BY <1>1, <2>1, <2>2
    <3>2. WalkWithin(g, rank)'
      BY <3>1, WalkKept
    <3>. QED
      BY <2>1, <3>2 DEF WalkWithin
  <2>3. CASE q = r
    <3>1. WalkWithin(p, rank)'
      BY <1>1
    <3>. QED
      BY <2>1, <2>3, <3>1 DEF WalkWithin
  <2>. QED
    BY <2>2, <2>3
<1>4. \A t \in Tokens : issued'[t] # <<>> => Reached(t, issued[t][1])'
  <2>. SUFFICES ASSUME NEW t \in Tokens, issued[t] # <<>>
                PROVE  Reached(t, issued[t][1])'
    OBVIOUS
  <2>1. PICK at : at = issued[t][1]
    OBVIOUS
  <2>2. Reached(t, at)'
    BY <2>1, ReachedKept DEF WalkInv
  <2>. QED
    BY <2>1, <2>2
<1>. QED
  BY <1>1, <1>2, <1>3, <1>4 DEF WalkInv

\* A request that is neither walking nor past the walk of a token has nothing
\* to keep.
LEMMA NotWalking ==
    ASSUME NEW p, NEW rank,
           p.step \in {"consumeToken", "issueFromToken"} => p.depth = 0,
           p.step # "walk",
           p.step \in {"rotate", "respond"} => p.src \notin Tokens
    PROVE  WalkWithin(p, rank) /\ WalkWithin(p, rank)'
BY DEF WalkWithin

\* The tables are extended by one token, after its parent if it has one.
LEMMA WalkStore ==
    ASSUME GrantsInv, WalkInv, NEW r \in Requests, NEW t \in Tokens,
           NEW row \in TokenRow,
           tokens[t] = None,
           tokens' = [tokens EXCEPT ![t] = row],
           issued' = issued, cut' = cut,
           row.parent # None => tokens[row.parent] # None,
           reqs' = [reqs EXCEPT ![r].step = "respond"],
           reqs[r].src \in Tokens => reqs[r].step = "rotate"
    PROVE  WalkInv'
<1>. USE IdsAssumption
<1>1. PICK rank \in [Tokens -> Nat] :
        Ranked(rank) /\ \A q \in Requests : WalkWithin(reqs[q], rank)
  BY DEF WalkInv
<1>2. /\ tokens'[t] = row
      /\ \A u \in Tokens : u # t => tokens'[u] = tokens[u]
  BY DEF GrantsInv, TypeOK
<1>3. \A u \in Tokens : tokens[u] # None => u # t /\ tokens'[u] = tokens[u]
  BY <1>2
<1>4. \A u \in Tokens : Line(u) \subseteq Line(u)' /\ Line(u) \subseteq Tokens
  BY <1>3, LineKept DEF Line
<1>5. ASSUME NEW u \in Tokens, NEW at, Reached(u, at)
      PROVE  Reached(u, at)'
  BY <1>3, <1>5, ReachedKept
<1>6. \A u \in Tokens : issued'[u] # <<>> => Reached(u, issued[u][1])'
  <2>. SUFFICES ASSUME NEW u \in Tokens, issued[u] # <<>>
                PROVE  Reached(u, issued[u][1])'
    OBVIOUS
  <2>1. PICK at : at = issued[u][1]
    OBVIOUS
  <2>2. Reached(u, at)'
    BY <1>5, <2>1 DEF WalkInv
  <2>. QED
    BY <2>1, <2>2
<1>7. PICK rank2 \in [Tokens -> Nat] :
        /\ \A u \in Tokens : u # t => rank2[u] = rank[u]
        /\ rank2[t] >= rank[t]
        /\ row.parent # None => rank[row.parent] < rank2[t]
  <2>1. CASE row.parent = None
    BY <2>1
  <2>2. CASE row.parent # None
    <3>1. row.parent \in Tokens /\ rank[row.parent] + rank[t] + 1 \in Nat
      BY <2>2 DEF TokenRow
    <3>2. PICK f : f = [rank EXCEPT ![t] = rank[row.parent] + rank[t] + 1]
      OBVIOUS
    <3>3. /\ f \in [Tokens -> Nat] /\ f[t] = rank[row.parent] + rank[t] + 1
          /\ \A u \in Tokens : u # t => f[u] = rank[u]
      BY <3>1, <3>2
    <3>4. /\ rank[row.parent] \in Nat /\ rank[t] \in Nat
          /\ rank[row.parent] < rank[row.parent] + rank[t] + 1
          /\ rank[row.parent] + rank[t] + 1 >= rank[t]
      BY <3>1
    <3>. QED
      BY <3>3, <3>4
  <2>. QED
    BY <2>1, <2>2
<1>8. Ranked(rank2)'
  <2>. SUFFICES ASSUME NEW u \in Tokens, tokens'[u] # None,
                       tokens'[u].parent # None
                PROVE  rank2[tokens'[u].parent] < rank2[u]
    BY DEF Ranked
  <2>1. CASE u = t
    BY <1>2, <1>3, <1>7, <2>1 DEF TokenRow
  <2>2. CASE u # t
    <3>1. /\ tokens'[u] = tokens[u] /\ tokens[u] \in TokenRow
          /\ tokens[u].parent \in Tokens
          /\ tokens[tokens[u].parent] # None
      BY <1>2, <2>2 DEF GrantsInv, TypeOK, ChainsWellFormed, TokenRow
    <3>. QED
      BY <1>1, <1>3, <1>7, <2>2, <3>1 DEF Ranked
  <2>. QED
    BY <2>1, <2>2
<1>9. ASSUME NEW q \in Requests, NEW g, g = reqs[q]
      PROVE  WalkWithin(g, rank2)'
  <2>1. WalkWithin(g, rank)
    BY <1>1, <1>9
  <2>2. g.step = "walk" =>
          g.src \in Tokens /\ g.cur \in Tokens /\ tokens[g.cur] # None
    BY <1>9 DEF GrantsInv, RequestWellFormed, TokenSteps
  <2>3. ASSUME g.step = "walk"
        PROVE  /\ g.cur \in Line(g.src)'
               /\ \E behind \in SUBSET Line(g.src)' :
                    /\ IsFiniteSet(behind) /\ Cardinality(behind) = g.depth
                    /\ \A u \in behind : rank2[g.cur] < rank2[u]
    <3>1. PICK behind \in SUBSET Line(g.src) :
            /\ IsFiniteSet(behind) /\ Cardinality(behind) = g.depth
            /\ \A u \in behind : rank[g.cur] < rank[u]
      BY <2>1, <2>3 DEF WalkWithin
    <3>2. Line(g.src) \subseteq Line(g.src)' /\ Line(g.src) \subseteq Tokens
      <4>1. PICK u \in Tokens : u = g.src
        BY <2>2, <2>3
      <4>2. Line(u) \subseteq Line(u)' /\ Line(u) \subseteq Tokens
        BY <1>4
      <4>. QED
        BY <4>1, <4>2
    <3>3. g.cur \in Line(g.src)
      BY <2>1, <2>3 DEF WalkWithin
    <3>4. \A u \in behind : rank2[g.cur] < rank2[u]
      <4>. SUFFICES ASSUME NEW u \in behind PROVE rank2[g.cur] < rank2[u]
        OBVIOUS
      <4>1. u \in Tokens /\ rank[g.cur] < rank[u] /\ rank[u] <= rank2[u]
        BY <1>7, <3>1, <3>2
      <4>2. rank2[g.cur] = rank[g.cur] /\ rank[g.cur] \in Nat
        BY <1>3, <1>7, <2>2, <2>3
      <4>3. rank[u] \in Nat /\ rank2[u] \in Nat
        BY <4>1
      <4>. QED
        BY <4>1, <4>2, <4>3
    <3>5. behind \in SUBSET Line(g.src)' /\ g.cur \in Line(g.src)'
      BY <3>2, <3>3
    <3>. QED
      BY <3>1, <3>4, <3>5
  <2>4. ASSUME g.step \in {"rotate", "respond"}, g.src \in Tokens
        PROVE  Reached(g.src, g.authTime)'
    <3>1. PICK u \in Tokens : u = g.src
      BY <2>4
    <3>2. PICK at : at = g.authTime
      OBVIOUS
    <3>3. Reached(u, at)
      BY <2>1, <2>4, <3>1, <3>2 DEF WalkWithin
    <3>4. Reached(u, at)'
      BY <1>5, <3>3
    <3>. QED
      BY <3>1, <3>2, <3>4
  <2>. QED
    BY <2>1, <2>3, <2>4 DEF WalkWithin
<1>10. \A q \in Requests : WalkWithin(reqs[q], rank2)'
  <2>. TAKE q \in Requests
  <2>1. PICK g : g = reqs[q]
    OBVIOUS
  <2>2. WalkWithin(g, rank2)'
    BY <1>9, <2>1
  <2>3. CASE q # r
    <3>1. reqs'[q] = g
      BY <2>1, <2>3 DEF GrantsInv, TypeOK
    <3>. QED
      BY <2>2, <3>1 DEF WalkWithin
  <2>4. CASE q = r
    <3>1. g \in Request
      BY <2>1 DEF GrantsInv, TypeOK
    <3>2. PICK h : h = reqs'[q]
      OBVIOUS
    <3>3. h = [g EXCEPT !.step = "respond"]
      BY <2>1, <2>4, <3>2 DEF GrantsInv, TypeOK
    <3>4. h.step = "respond" /\ h.src = g.src /\ h.authTime = g.authTime
      BY <3>1, <3>3 DEF Request
    <3>5. g.src \in Tokens => Reached(g.src, g.authTime)'
      BY <2>1, <2>2, <2>4 DEF WalkWithin
    <3>6. WalkWithin(h, rank2)'
      BY <3>4, <3>5 DEF WalkWithin
    <3>. QED
      BY <3>2, <3>6 DEF WalkWithin
  <2>. QED
    BY <2>3, <2>4
<1>. QED
  BY <1>6, <1>7, <1>8, <1>10 DEF WalkInv

LEMMA WalkUnchanged ==
    ASSUME WalkInv, UNCHANGED <<tokens, issued, reqs, cut>>
    PROVE  WalkInv'
<1>1. PICK rank \in [Tokens -> Nat] :
        Ranked(rank) /\ \A q \in Requests : WalkWithin(reqs[q], rank)
  BY DEF WalkInv
<1>2. Ranked(rank)'
  BY <1>1, WalkKept
<1>3. \A q \in Requests : WalkWithin(reqs[q], rank)'
  <2>. TAKE q \in Requests
  <2>1. PICK g : g = reqs[q]
    OBVIOUS
  <2>2. WalkWithin(g, rank)'
    BY <1>1, <2>1, WalkKept
  <2>. QED
    BY <2>1, <2>2 DEF WalkWithin
<1>4. \A t \in Tokens : issued'[t] # <<>> => Reached(t, issued[t][1])'
  <2>. SUFFICES ASSUME NEW t \in Tokens, issued[t] # <<>>
                PROVE  Reached(t, issued[t][1])'
    OBVIOUS
  <2>1. PICK at : at = issued[t][1]
    OBVIOUS
  <2>2. Reached(t, at)'
    BY <2>1, ReachedKept DEF WalkInv
  <2>. QED
    BY <2>1, <2>2
<1>. QED
  BY <1>1, <1>2, <1>3, <1>4 DEF WalkInv

\* A request outside the walk leaves every walk as it is.
LEMMA WalkAside ==
    ASSUME GrantsInv, WalkInv, NEW r \in Requests, NEW p,
           reqs' = [reqs EXCEPT ![r] = p],
           tokens' = tokens, issued' = issued, cut' = cut,
           p.step \in {"consumeToken", "issueFromToken"} => p.depth = 0,
           p.step # "walk",
           p.step \in {"rotate", "respond"} => p.src \notin Tokens
    PROVE  WalkInv'
<1>1. reqs'[r] = p /\ \A q \in Requests : q # r => reqs'[q] = reqs[q]
  BY DEF GrantsInv, TypeOK
<1>2. \A rank : WalkWithin(p, rank)'
  BY NotWalking
<1>. QED
  BY <1>1, <1>2, WalkRequest

LEMMA WalkIdle ==
    ASSUME GrantsInv, WalkInv, NEW r \in Requests,
           reqs' = [reqs EXCEPT ![r] = Idle],
           tokens' = tokens, cut' = cut, issued' = issued
    PROVE  WalkInv'
<1>1. PICK p : p = Idle /\ p.step = "idle"
  BY IdleType
<1>. QED
  BY <1>1, WalkAside

\* A request that starts has no steps of a walk behind it.
LEMMA WalkStart ==
    ASSUME GrantsInv, WalkInv, NEW r \in Requests,
           \/ \E s \in Sessions, c \in Clients, scope \in SUBSET Scopes :
                AuthorizeResolve(r, s, c, scope)
           \/ \E c \in Codes, client \in Clients : ExchangeRead(r, c, client)
           \/ \E t \in Tokens, client \in Clients : RefreshRead(r, t, client)
           \/ \E s \in Sessions : Logout(r, s) \/ AdminRevokeSession(r, s)
    PROVE  WalkInv'
<1>1. Idle \in Request /\ Idle.depth = 0
  BY IdleType DEF Idle
<1>2. tokens' = tokens /\ issued' = issued /\ cut' = cut
  BY DEF AuthorizeResolve, ExchangeRead, RefreshRead, Logout,
     AdminRevokeSession, tables, history
<1>3. ASSUME NEW s \in Sessions, NEW c \in Clients, NEW scope \in SUBSET Scopes,
             AuthorizeResolve(r, s, c, scope)
      PROVE  WalkInv'
  <2> DEFINE g == [Idle EXCEPT !.step = "mint", !.src = s, !.client = c,
                               !.scope = scope]
  <2>1. g.step = "mint"
    BY <1>1 DEF Request
  <2>2. reqs' = [reqs EXCEPT ![r] = g]
    BY <1>3 DEF AuthorizeResolve
  <2>. HIDE DEF g
  <2>. QED
    BY <1>2, <2>1, <2>2, WalkAside
<1>4. ASSUME NEW c \in Codes, NEW client \in Clients, ExchangeRead(r, c, client)
      PROVE  WalkInv'
  <2> DEFINE g == [Idle EXCEPT !.step = "consumeCode", !.src = c,
                               !.client = client]
  <2>1. g.step = "consumeCode"
    BY <1>1 DEF Request
  <2>2. reqs' = [reqs EXCEPT ![r] = g]
    BY <1>4 DEF ExchangeRead
  <2>. HIDE DEF g
  <2>. QED
    BY <1>2, <2>1, <2>2, WalkAside
<1>5. ASSUME NEW t \in Tokens, NEW client \in Clients, RefreshRead(r, t, client)
      PROVE  WalkInv'
  <2> DEFINE g == [Idle EXCEPT !.step = "consumeToken", !.src = t,
                               !.client = client, !.at = now]
  <2>1. g.step = "consumeToken" /\ g.depth = 0
    BY <1>1 DEF Request
  <2>2. reqs' = [reqs EXCEPT ![r] = g]
    BY <1>5 DEF RefreshRead
  <2>. HIDE DEF g
  <2>. QED
    BY <1>2, <2>1, <2>2, WalkAside
<1>6. ASSUME NEW s \in Sessions, Logout(r, s) \/ AdminRevokeSession(r, s)
      PROVE  WalkInv'
  <2> DEFINE g == [Idle EXCEPT !.step = "endChain", !.src = s]
  <2>1. g.step = "endChain"
    BY <1>1 DEF Request
  <2>2. reqs' = [reqs EXCEPT ![r] = g]
    BY <1>6 DEF Logout, AdminRevokeSession
  <2>. HIDE DEF g
  <2>. QED
    BY <1>2, <2>1, <2>2, WalkAside
<1>. QED
  BY <1>3, <1>4, <1>5, <1>6

\* The last step before the walk, and every step of a code exchange.
LEMMA WalkApproach ==
    ASSUME GrantsInv, WalkInv, NEW r \in Requests,
           ConsumeCode(r) \/ IssueFromCode(r) \/ ConsumeToken(r)
    PROVE  WalkInv'
<1>. USE IdsAssumption
<1> DEFINE q == reqs[r]
<1>1. tokens' = tokens /\ issued' = issued /\ cut' = cut /\ q \in Request
  BY DEF ConsumeCode, IssueFromCode, ConsumeToken, tables, history, GrantsInv,
     TypeOK
<1>2. CASE ConsumeCode(r)
  <2> DEFINE g == [q EXCEPT !.step = "issueFromCode"]
  <2>1. g.step = "issueFromCode"
    BY <1>1 DEF Request
  <2>2. \/ reqs' = [reqs EXCEPT ![r] = g]
        \/ reqs' = [reqs EXCEPT ![r] = Idle]
    BY <1>2 DEF ConsumeCode
  <2>. HIDE DEF g
  <2>. QED
    BY <1>1, <2>1, <2>2, WalkAside, WalkIdle
<1>3. CASE IssueFromCode(r)
  <2> DEFINE st == IF q.client \in AllowRefresh
                      /\ OfflineAccess \in codes[q.src].scope
                   THEN "storeRoot" ELSE "respond"
             g == [q EXCEPT !.authTime = codes[q.src].createdAt,
                            !.scope = codes[q.src].scope, !.step = st]
  <2>1. g.step \in {"storeRoot", "respond"} /\ g.src = q.src
    BY <1>1 DEF Request
  <2>2. q.src \notin Tokens
    BY <1>3 DEF IssueFromCode, GrantsInv, RequestWellFormed, CodeSteps
  <2>3. reqs' = [reqs EXCEPT ![r] = g]
    BY <1>3 DEF IssueFromCode
  <2>. HIDE DEF g
  <2>. QED
    BY <1>1, <2>1, <2>2, <2>3, WalkAside
<1>4. CASE ConsumeToken(r)
  <2> DEFINE g == [q EXCEPT !.step = "issueFromToken"]
             h == [q EXCEPT !.step = "reuse"]
  <2>1. /\ g.step = "issueFromToken" /\ g.depth = q.depth
        /\ h.step = "reuse"
    BY <1>1 DEF Request
  <2>2. q.depth = 0
    BY <1>4 DEF ConsumeToken, WalkInv, WalkWithin
  <2>3. \/ reqs' = [reqs EXCEPT ![r] = g]
        \/ reqs' = [reqs EXCEPT ![r] = h]
        \/ reqs' = [reqs EXCEPT ![r] = Idle]
    BY <1>4 DEF ConsumeToken
  <2>. HIDE DEF g, h
  <2>. QED
    BY <1>1, <2>1, <2>2, <2>3, WalkAside, WalkIdle
<1>. QED
  BY <1>2, <1>3, <1>4

\* A walk begins at the token itself, with nothing behind it.
LEMMA WalkBegins ==
    ASSUME GrantsInv, WalkInv, NEW r \in Requests,
           NEW requested \in SUBSET Scopes, IssueFromToken(r, requested)
    PROVE  WalkInv'
<1>1. /\ tokens' = tokens /\ issued' = issued /\ cut' = cut /\ reqs[r] \in Request
      /\ reqs[r].step = "issueFromToken"
      /\ reqs[r].src \in Tokens /\ tokens[reqs[r].src] # None
  BY DEF IssueFromToken, tables, history, GrantsInv, TypeOK,
     RequestWellFormed, TokenSteps
<1>2. PICK p : reqs' = [reqs EXCEPT ![r] = p]
               /\ \/ p = Idle
                  \/ \E scope : p = [reqs[r] EXCEPT !.scope = scope,
                                       !.step = "walk", !.cur = reqs[r].src]
  BY DEF IssueFromToken
<1>3. reqs'[r] = p /\ \A q \in Requests : q # r => reqs'[q] = reqs[q]
  BY <1>2 DEF GrantsInv, TypeOK
<1>4. reqs[r].depth = 0
  BY <1>1 DEF WalkInv, WalkWithin
<1>5. ASSUME p # Idle, NEW rank PROVE WalkWithin(p, rank)'
  <2>1. /\ p.step = "walk" /\ p.src = reqs[r].src /\ p.cur = p.src
        /\ p.depth = 0
    BY <1>1, <1>2, <1>4, <1>5 DEF Request
  <2>2. p.cur \in Line(p.src)
    BY <1>1, <2>1, LineClimbs
  <2>3. /\ {} \in SUBSET Line(p.src)
        /\ IsFiniteSet({}) /\ Cardinality({}) = p.depth
        /\ \A t \in {} : rank[p.cur] < rank[t]
    BY <2>1, FS_EmptySet
  <2>. QED
    BY <1>1, <2>1, <2>2, <2>3, WalkKept DEF WalkWithin
<1>6. \A rank : WalkWithin(p, rank)'
  BY <1>5, IdleType, NotWalking
<1>. QED
  BY <1>1, <1>3, <1>6, WalkRequest

\* One step up the chain leaves one more token behind; where the walk ends short
\* of the root, a lookup has failed or it has left MaxDepth tokens behind.
LEMMA WalkClimbs ==
    ASSUME GrantsInv, WalkInv, NEW r \in Requests, WalkToRoot(r)
    PROVE  WalkInv'
<1> DEFINE q == reqs[r]
           here == tokens[q.cur]
           more == here.parent # None /\ q.depth < MaxDepth
<1>1. /\ tokens' = tokens /\ issued' = issued /\ q \in Request
      /\ q.step = "walk" /\ q.src \in Tokens /\ tokens[q.src] # None
      /\ q.cur \in Tokens /\ here \in TokenRow /\ here # None
  BY DEF WalkToRoot, tables, GrantsInv, TypeOK, RequestWellFormed,
     TokenSteps
<1>2. PICK p : /\ reqs' = [reqs EXCEPT ![r] = p]
               /\ \/ /\ more /\ cut' = cut
                     /\ p = [q EXCEPT !.cur = here.parent, !.depth = @ + 1]
                  \/ /\ cut' = IF more THEN cut \cup {q.src} ELSE cut
                     /\ p = [q EXCEPT !.authTime = here.createdAt,
                                      !.step = AfterWalk(r)]
  BY DEF WalkToRoot
<1>3. /\ reqs'[r] = p /\ \A s \in Requests : s # r => reqs'[s] = reqs[s]
      /\ cut \subseteq cut'
  BY <1>2 DEF GrantsInv, TypeOK
<1>4. ASSUME NEW rank \in [Tokens -> Nat], Ranked(rank), WalkWithin(q, rank)
      PROVE  WalkWithin(p, rank)'
  <2>1. q.cur \in Line(q.src)
    BY <1>1, <1>4 DEF WalkWithin
  <2>2. PICK behind \in SUBSET Line(q.src) :
          /\ IsFiniteSet(behind) /\ Cardinality(behind) = q.depth
          /\ \A t \in behind : rank[q.cur] < rank[t]
    BY <1>1, <1>4 DEF WalkWithin
  <2>3. behind \in SUBSET Tokens
    BY <2>2 DEF Line
  <2>4. q.cur \notin behind
    BY <1>1, <2>2, <2>3
  <2> DEFINE passed == behind \cup {q.cur}
  <2>5. /\ IsFiniteSet(passed) /\ Cardinality(passed) = q.depth + 1
        /\ passed \in SUBSET Line(q.src)
    BY <2>1, <2>2, <2>4, FS_AddElement
  <2>6. here.parent # None =>
          /\ here.parent \in Tokens /\ here.parent \in Line(q.src)
          /\ rank[here.parent] < rank[q.cur]
    BY <1>1, <1>4, <2>1, LineClimbs DEF Ranked, TokenRow
  <2>7. here.parent # None => \A t \in passed : rank[here.parent] < rank[t]
    BY <1>1, <2>2, <2>3, <2>6
  <2>8. CASE /\ more /\ cut' = cut
             /\ p = [q EXCEPT !.cur = here.parent, !.depth = @ + 1]
    <3>1. /\ p.step = "walk" /\ p.src = q.src /\ p.cur = here.parent
          /\ p.depth = q.depth + 1
      <4>. HIDE DEF here, more
      <4>. QED
        BY <1>1, <2>8 DEF Request
    <3>2. p.cur \in Line(p.src)
      BY <2>6, <2>8, <3>1
    <3>3. \A t \in passed : rank[p.cur] < rank[t]
      BY <2>7, <2>8, <3>1
    <3>4. passed \in SUBSET Line(p.src) /\ Cardinality(passed) = p.depth
      BY <2>5, <3>1
    <3>. HIDE DEF passed
    <3>5. WalkWithin(p, rank)
      BY <2>5, <3>1, <3>2, <3>3, <3>4 DEF WalkWithin
    <3>. QED
      BY <1>1, <1>3, <3>5, WalkKept
  <2>9. CASE /\ cut' = IF more THEN cut \cup {q.src} ELSE cut
             /\ p = [q EXCEPT !.authTime = here.createdAt, !.step = AfterWalk(r)]
    <3>1. /\ p.step \in {"rotate", "respond"} /\ p.src = q.src
          /\ p.authTime = here.createdAt
      <4>1. AfterWalk(r) \in {"rotate", "respond"}
        BY DEF AfterWalk
      <4>2. p = [q EXCEPT !.authTime = here.createdAt, !.step = AfterWalk(r)]
        BY <2>9
      <4>. HIDE DEF here
      <4>. QED
        BY <1>1, <4>1, <4>2 DEF Request
    <3>2. \E u \in Line(q.src) : tokens[u] # None /\ tokens[u].createdAt = here.createdAt
      BY <1>1, <2>1
    <3>3. PICK t \in Tokens, at \in Nat : t = q.src /\ at = here.createdAt
      BY <1>1 DEF TokenRow
    <3>4. RootTime(t, at) \/ t \in cut' \/ ~WithinWalk(t)
      <4>1. CASE here.parent = None
        BY <1>1, <2>1, <3>3, <4>1 DEF RootTime
      <4>2. CASE more
        BY <2>9, <3>3, <4>2
      <4>3. CASE here.parent # None /\ ~(q.depth < MaxDepth)
        <5>1. here.parent \notin passed /\ passed \in SUBSET Tokens
          BY <2>3, <2>6, <2>7, <4>3, <1>1
        <5> DEFINE all == passed \cup {here.parent}
        <5>2. /\ IsFiniteSet(all) /\ Cardinality(all) = q.depth + 1 + 1
              /\ all \in SUBSET Line(t)
          <6>. HIDE DEF passed
          <6>. QED
            BY <2>5, <2>6, <3>3, <4>3, <5>1, FS_AddElement
        <5>3. IsFiniteSet(Line(t)) =>
                /\ Cardinality(all) <= Cardinality(Line(t))
                /\ Cardinality(Line(t)) \in Nat
          BY <5>2, FS_Subset, FS_CardinalityType
        <5>4. q.depth \in Nat /\ MaxDepth \in Nat
          BY <1>1, TimeAssumption DEF Request
        <5>. HIDE DEF all, q
        <5>. QED
          BY <4>3, <5>2, <5>3, <5>4 DEF WithinWalk
      <4>. QED
        BY <4>1, <4>2, <4>3
    <3>5. \E u \in Line(t) : tokens[u] # None /\ tokens[u].createdAt = at
      BY <3>2, <3>3
    <3>6. Line(t)' = Line(t)
      BY <1>1 DEF Line, WithParents
    <3>7. Reached(t, at)'
      BY <1>1, <3>4, <3>5, <3>6 DEF Reached, RootTime, WithinWalk
    <3>. QED
      BY <3>1, <3>3, <3>7 DEF WalkWithin
  <2>. QED
    BY <1>2, <2>8, <2>9
<1>. HIDE DEF here, more
<1>. QED
  BY <1>1, <1>3, <1>4, WalkRequest

\* A response to a refresh token carries the time of the root.
LEMMA WalkAnswers ==
    ASSUME GrantsInv, WalkInv, NEW r \in Requests, Respond(r)
    PROVE  WalkInv'
<1> DEFINE x == reqs[r].src
           answer == Append(issued[x], reqs[r].authTime)
<1>1. /\ reqs[r].step = "respond" /\ reqs[r].authTime \in Nat
      /\ x \in Credentials /\ issued[x] = <<>>
  BY DEF Respond, GrantsInv, TypeOK, Request, RequestWellFormed, OneWinner,
     WonSteps
<1>2. answer # <<>> /\ answer[1] = reqs[r].authTime
  BY <1>1
<1>3. /\ issued' = [issued EXCEPT ![x] = answer] /\ tokens' = tokens
      /\ cut' = cut /\ reqs' = [reqs EXCEPT ![r] = Idle]
  BY DEF Respond, tables
<1>. HIDE DEF answer
<1>4. /\ issued'[x] = answer
      /\ \A y \in Credentials : y # x => issued'[y] = issued[y]
  BY <1>1, <1>3 DEF GrantsInv, TypeOK
<1>5. x \in Tokens => Reached(x, reqs[r].authTime)
  BY <1>1 DEF WalkInv, WalkWithin
<1>6. \A t \in Tokens : issued'[t] # <<>> => Reached(t, issued'[t][1])
  <2>. SUFFICES ASSUME NEW t \in Tokens, issued'[t] # <<>>
                PROVE  Reached(t, issued'[t][1])
    OBVIOUS
  <2>1. CASE t = x
    BY <1>2, <1>4, <1>5, <2>1
  <2>2. CASE t # x
    BY <1>4, <2>2 DEF WalkInv, Credentials
  <2>. QED
    BY <2>1, <2>2
<1>7. \A t \in Tokens : issued'[t] # <<>> => Reached(t, issued[t][1])'
  <2>. SUFFICES ASSUME NEW t \in Tokens, issued'[t] # <<>>
                PROVE  Reached(t, issued[t][1])'
    OBVIOUS
  <2>1. PICK at : at = issued'[t][1]
    OBVIOUS
  <2>2. Reached(t, at)'
    BY <1>3, <1>6, <2>1, ReachedKept
  <2>. QED
    BY <2>1, <2>2
<1>8. PICK rank \in [Tokens -> Nat] :
        Ranked(rank) /\ \A q \in Requests : WalkWithin(reqs[q], rank)
  BY DEF WalkInv
<1>9. Ranked(rank)'
  BY <1>3, <1>8, WalkKept
<1>10. \A q \in Requests : WalkWithin(reqs[q], rank)'
  <2>. TAKE q \in Requests
  <2>1. PICK g : g = reqs'[q]
    OBVIOUS
  <2>2. g = reqs[q] \/ g = Idle
    BY <1>3, <2>1 DEF GrantsInv, TypeOK
  <2>3. WalkWithin(g, rank)
    BY <1>8, <2>2, IdleType, NotWalking
  <2>4. WalkWithin(g, rank)'
    BY <1>3, <2>3, WalkKept
  <2>. QED
    BY <2>1, <2>4 DEF WalkWithin
<1>. QED
  BY <1>7, <1>8, <1>9, <1>10 DEF WalkInv

LEMMA WalkInit == Init => WalkInv
<1>. SUFFICES ASSUME Init PROVE WalkInv
  OBVIOUS
<1>1. PICK owner \in [LegacyTokens -> Clients] :
        tokens = [t \in Tokens |-> IF t \in LegacyTokens
                                   THEN LegacyRow(t, owner[t]) ELSE None]
  BY DEF Init
<1>2. \A t \in Tokens : tokens[t] # None => tokens[t].parent = None
  BY <1>1 DEF LegacyRow
<1>3. \A t \in Tokens : issued[t] = <<>>
  BY DEF Init, Credentials
<1>4. PICK rank \in [Tokens -> Nat] : rank = [t \in Tokens |-> 0]
  OBVIOUS
<1>5. Ranked(rank)
  BY <1>2 DEF Ranked
<1>6. \A r \in Requests : WalkWithin(reqs[r], rank)
  BY IdleType, NotWalking DEF Init
<1>. QED
  BY <1>3, <1>4, <1>5, <1>6 DEF WalkInv

LEMMA WalkNext ==
    ASSUME GrantsInv, WalkInv, [Next]_vars
    PROVE  WalkInv'
<1>. USE IdsAssumption
<1>1. CASE \/ Tick \/ UNCHANGED vars
           \/ \E s \in Sessions : StartSession(s)
           \/ \E t \in Tokens, client \in Clients : Revoke(t, client)
           \/ \E t \in Tokens : AdminRevokeToken(t)
  <2>1. UNCHANGED <<tokens, issued, reqs, cut>>
    BY <1>1 DEF Tick, StartSession, Revoke, AdminRevokeToken, vars, tables,
       history
  <2>. QED
    BY <2>1, WalkUnchanged
<1>2. CASE \E r \in Requests, s \in Sessions, client \in Clients,
              scope \in SUBSET Scopes : AuthorizeResolve(r, s, client, scope)
  BY <1>2, WalkStart
<1>3. CASE \E r \in Requests : GrantStep(r)
  <2>. PICK r \in Requests : GrantStep(r)
    BY <1>3
  <2>1. CASE (\E c \in Codes : MintCode(r, c)) \/ HandleReuse(r)
    <3>1. /\ reqs' = [reqs EXCEPT ![r] = Idle]
          /\ tokens' = tokens /\ issued' = issued /\ cut' = cut
      BY <2>1 DEF MintCode, HandleReuse, tables, history
    <3>. QED
      BY <3>1, WalkIdle
  <2>2. CASE \/ \E c \in Codes, client \in Clients : ExchangeRead(r, c, client)
             \/ \E t \in Tokens, client \in Clients : RefreshRead(r, t, client)
    BY <2>2, WalkStart
  <2>3. CASE ConsumeCode(r) \/ IssueFromCode(r) \/ ConsumeToken(r)
    BY <2>3, WalkApproach
  <2>4. ASSUME NEW t \in Tokens, StoreRoot(r, t)
        PROVE  WalkInv'
    <3> DEFINE c == reqs[r].src
               row == [session |-> codes[c].session, client |-> reqs[r].client,
                       scope |-> reqs[r].scope, parent |-> None, origin |-> c,
                       createdAt |-> now,
                       expiresAt |-> now + (IF reqs[r].client \in AbsoluteMode
                                            THEN RefreshAbsoluteLifetime
                                            ELSE RefreshLifetime),
                       absoluteExpiresAt |-> now + RefreshAbsoluteLifetime]
    <3>1. /\ reqs[r] \in Request /\ reqs[r].step = "storeRoot" /\ now \in Nat
          /\ c \in Codes /\ codes[c] \in CodeRow
      BY <2>4 DEF StoreRoot, GrantsInv, TypeOK, RequestWellFormed, CodeSteps
    <3>2. row \in TokenRow /\ row.parent = None
      BY <3>1, TimeAssumption DEF Request, CodeRow, TokenRow, Credentials
    <3>3. /\ tokens[t] = None /\ tokens' = [tokens EXCEPT ![t] = row]
          /\ reqs' = [reqs EXCEPT ![r].step = "respond"] /\ issued' = issued
          /\ cut' = cut
      BY <2>4 DEF StoreRoot, history
    <3>. HIDE DEF row
    <3>. QED
      BY <3>1, <3>2, <3>3, WalkStore
  <2>5. ASSUME NEW requested \in SUBSET Scopes, IssueFromToken(r, requested)
        PROVE  WalkInv'
    BY <2>5, WalkBegins
  <2>6. CASE WalkToRoot(r)
    BY <2>6, WalkClimbs
  <2>7. ASSUME NEW t \in Tokens, Rotate(r, t)
        PROVE  WalkInv'
    <3> DEFINE o == reqs[r].src
               row == RotatedRow(o, r)
    <3>1. /\ reqs[r] \in Request /\ reqs[r].step = "rotate"
          /\ o \in Tokens /\ tokens[o] # None /\ tokens[o] \in TokenRow
      BY <2>7 DEF Rotate, GrantsInv, TypeOK, RequestWellFormed, TokenSteps
    <3>2. RotatedExpiry(tokens[o], reqs[r].client, reqs[r].at) \in Nat
      BY <3>1, RotatedExpiryBound DEF Request
    <3>3. row \in TokenRow /\ row.parent = o
      BY <3>1, <3>2 DEF RotatedRow, Request, TokenRow
    <3>4. /\ tokens[t] = None /\ tokens' = [tokens EXCEPT ![t] = row]
          /\ reqs' = [reqs EXCEPT ![r].step = "respond"] /\ issued' = issued
          /\ cut' = cut
      BY <2>7 DEF Rotate, history
    <3>. HIDE DEF row
    <3>. QED
      BY <3>1, <3>3, <3>4, WalkStore
  <2>8. CASE Respond(r)
    BY <2>8, WalkAnswers
  <2>. QED
    BY <2>1, <2>2, <2>3, <2>4, <2>5, <2>6, <2>7, <2>8 DEF GrantStep
<1>4. CASE \E r \in Requests, s \in Sessions :
             Logout(r, s) \/ AdminRevokeSession(r, s)
  BY <1>4, WalkStart
<1>5. CASE \E r \in Requests : EndChain(r) \/ Abort(r)
  <2>1. PICK r \in Requests : EndChain(r) \/ Abort(r)
    BY <1>5
  <2>2. /\ reqs' = [reqs EXCEPT ![r] = Idle]
        /\ tokens' = tokens /\ issued' = issued /\ cut' = cut
    BY <2>1 DEF EndChain, Abort, tables, history
  <2>. QED
    BY <2>2, WalkIdle
<1>. QED
  BY <1>1, <1>2, <1>3, <1>4, <1>5 DEF Next

-----------------------------------------------------------------------------
(* Rows stay, and chains go forward in time. *)

\* No statement rewrites a row, clears a flag or turns the clock back.
OnlyGrows ==
    /\ \A s \in Sessions : sessions[s] # None => sessions'[s] = sessions[s]
    /\ \A c \in Codes : codes[c] # None => codes'[c] = codes[c]
    /\ \A t \in Tokens : tokens[t] # None => tokens'[t] = tokens[t]
    /\ consumed \subseteq consumed' /\ revoked \subseteq revoked'
    /\ now' \in Nat /\ now <= now'

LEMMA NextGrows ==
    ASSUME GrantsInv, [Next]_vars
    PROVE  OnlyGrows
<1>0. now \in Nat /\ TypeOK
  BY DEF GrantsInv, TypeOK
<1>1. CASE Tick
  BY <1>0, <1>1 DEF Tick, OnlyGrows, tables, flags
<1>2. CASE \E s \in Sessions : StartSession(s)
  BY <1>0, <1>2 DEF StartSession, OnlyGrows, flags, TypeOK
<1>3. CASE \E r \in Requests, c \in Codes : MintCode(r, c)
  BY <1>0, <1>3 DEF MintCode, OnlyGrows, flags, TypeOK
<1>4. CASE \E r \in Requests, t \in Tokens : StoreRoot(r, t) \/ Rotate(r, t)
  BY <1>0, <1>4 DEF StoreRoot, Rotate, OnlyGrows, flags, TypeOK
<1>5. CASE \E r \in Requests : ConsumeCode(r) \/ ConsumeToken(r)
  BY <1>0, <1>5 DEF ConsumeCode, ConsumeToken, OnlyGrows, tables
<1>6. ASSUME NEW r \in Requests,
             \/ HandleReuse(r) \/ EndChain(r)
             \/ \E s \in Sessions : Logout(r, s) \/ AdminRevokeSession(r, s)
      PROVE  OnlyGrows
  <2>1. UNCHANGED <<now, tables, consumed>>
    BY <1>6 DEF HandleReuse, EndChain, Logout, AdminRevokeSession
  <2>2. revoked \subseteq revoked'
    BY <1>6 DEF HandleReuse, EndChain, Logout, AdminRevokeSession, RevokeOne,
       RevokeBySessionID, RevokeChainOf
  <2>. QED
    BY <1>0, <2>1, <2>2 DEF OnlyGrows, tables
<1>7. CASE \E t \in Tokens : \/ AdminRevokeToken(t)
                             \/ \E client \in Clients : Revoke(t, client)
  BY <1>0, <1>7 DEF AdminRevokeToken, Revoke, RevokeOne, RevokeBySessionID,
     RevokeChainOf, OnlyGrows, tables
<1>8. CASE UNCHANGED <<now, tables, flags>>
  BY <1>0, <1>8 DEF OnlyGrows, tables, flags
<1>9. ASSUME NEW r \in Requests,
             \/ \E c \in Codes, client \in Clients : ExchangeRead(r, c, client)
             \/ \E t \in Tokens, client \in Clients : RefreshRead(r, t, client)
             \/ IssueFromCode(r)
             \/ \E requested \in SUBSET Scopes : IssueFromToken(r, requested)
             \/ WalkToRoot(r) \/ Respond(r) \/ Abort(r)
      PROVE  UNCHANGED <<now, tables, flags>>
  BY <1>9 DEF ExchangeRead, RefreshRead, IssueFromCode, IssueFromToken,
     WalkToRoot, Respond, Abort
<1>10. ASSUME NEW r \in Requests, NEW s \in Sessions, NEW client \in Clients,
              NEW scope \in SUBSET Scopes, AuthorizeResolve(r, s, client, scope)
       PROVE  UNCHANGED <<now, tables, flags>>
  BY <1>10 DEF AuthorizeResolve
<1>11. UNCHANGED vars => UNCHANGED <<now, tables, flags>>
  BY DEF vars
<1>. QED
  BY <1>1, <1>2, <1>3, <1>4, <1>5, <1>6, <1>7, <1>8, <1>9, <1>10, <1>11
     DEF Next, GrantStep

\* A step keeps TimesInv if what it stores is no older than its parent and a
\* request that it brings to a token starts now.
LEMMA TimesStep ==
    ASSUME GrantsInv, TimesInv, OnlyGrows,
           \A t \in Tokens : tokens[t] = None /\ tokens'[t] # None =>
             /\ tokens'[t].createdAt <= now'
             /\ tokens'[t].parent # None =>
                  /\ tokens'[t].parent \in Tokens
                  /\ tokens[tokens'[t].parent] # None
                  /\ tokens[tokens'[t].parent].createdAt <= tokens'[t].createdAt,
           \A r \in Requests : reqs'[r].step \in TokenSteps =>
             \/ /\ reqs[r].step \in TokenSteps
                /\ reqs'[r].src = reqs[r].src /\ reqs'[r].at = reqs[r].at
             \/ /\ reqs'[r].src \in Tokens /\ tokens[reqs'[r].src] # None
                /\ reqs'[r].at = now
    PROVE  TimesInv'
<1>1. now \in Nat /\ now' \in Nat /\ now <= now'
  BY DEF GrantsInv, TypeOK, OnlyGrows
<1>2. \A t \in Tokens : tokens[t] # None =>
        /\ tokens'[t] = tokens[t] /\ tokens[t].createdAt \in Nat
        /\ tokens[t].createdAt <= now
  BY DEF GrantsInv, TypeOK, TokenRow, OnlyGrows, TimesInv
<1>3. ASSUME NEW t \in Tokens, tokens'[t] # None
      PROVE  /\ tokens'[t].createdAt <= now'
             /\ tokens'[t].parent # None =>
                  tokens'[tokens'[t].parent].createdAt <= tokens'[t].createdAt
  <2>1. CASE tokens[t] = None
    BY <1>2, <1>3, <2>1
  <2>2. CASE tokens[t] # None
    <3>1. tokens'[t].createdAt <= now'
      BY <1>1, <1>2, <2>2
    <3>2. tokens[t].parent # None =>
            /\ tokens[t].parent \in Tokens /\ tokens[tokens[t].parent] # None
            /\ tokens[tokens[t].parent].createdAt <= tokens[t].createdAt
      BY <2>2 DEF GrantsInv, TypeOK, TokenRow, ChainsWellFormed, TimesInv
    <3>. QED
      BY <1>2, <2>2, <3>1, <3>2
  <2>. QED
    BY <2>1, <2>2
<1>4. ASSUME NEW r \in Requests, reqs'[r].step \in TokenSteps
      PROVE  tokens'[reqs'[r].src].createdAt <= reqs'[r].at /\ reqs'[r].at <= now'
  <2>1. CASE /\ reqs[r].step \in TokenSteps
             /\ reqs'[r].src = reqs[r].src /\ reqs'[r].at = reqs[r].at
    <3>1. reqs[r].src \in Tokens /\ tokens[reqs[r].src] # None /\ reqs[r].at \in Nat
      BY <2>1 DEF GrantsInv, TypeOK, Request, RequestWellFormed
    <3>2. tokens[reqs[r].src].createdAt <= reqs[r].at /\ reqs[r].at <= now
      BY <2>1 DEF TimesInv
    <3>. QED
      BY <1>1, <1>2, <2>1, <3>1, <3>2
  <2>2. CASE /\ reqs'[r].src \in Tokens /\ tokens[reqs'[r].src] # None
             /\ reqs'[r].at = now
    BY <1>1, <1>2, <2>2
  <2>. QED
    BY <1>4, <2>1, <2>2
<1>. QED
  BY <1>3, <1>4 DEF TimesInv

\* The steps of a request that store no token.
LEMMA TimesRequest ==
    ASSUME GrantsInv, TimesInv, OnlyGrows, tokens' = tokens,
           NEW r \in Requests, NEW p, reqs' = [reqs EXCEPT ![r] = p],
           p.step \in TokenSteps =>
             \/ reqs[r].step \in TokenSteps /\ p.src = reqs[r].src /\ p.at = reqs[r].at
             \/ p.src \in Tokens /\ tokens[p.src] # None /\ p.at = now
    PROVE  TimesInv'
<1>1. reqs'[r] = p /\ \A q \in Requests : q # r => reqs'[q] = reqs[q]
  BY DEF GrantsInv, TypeOK
<1>. QED
  BY <1>1, TimesStep

LEMMA TimesInit == Init => TimesInv
<1>. SUFFICES ASSUME Init PROVE TimesInv
  OBVIOUS
<1>1. PICK owner \in [LegacyTokens -> Clients] :
        tokens = [t \in Tokens |-> IF t \in LegacyTokens
                                   THEN LegacyRow(t, owner[t]) ELSE None]
  BY DEF Init
<1>2. now = 0 /\ \A t \in Tokens : tokens[t] # None =>
        tokens[t].parent = None /\ tokens[t].createdAt = 0
  BY <1>1 DEF Init, LegacyRow
<1>3. \A r \in Requests : reqs[r].step = "idle"
  BY IdleType DEF Init
<1>. QED
  BY <1>2, <1>3 DEF TimesInv, TokenSteps

\* The steps at which a request works on no token that it has not worked on.
LEMMA TimesAside ==
    ASSUME GrantsInv, TimesInv, OnlyGrows, NEW r \in Requests,
           \/ \E s \in Sessions, c \in Clients, scope \in SUBSET Scopes :
                AuthorizeResolve(r, s, c, scope)
           \/ \E c \in Codes : MintCode(r, c)
           \/ \E c \in Codes, client \in Clients : ExchangeRead(r, c, client)
           \/ ConsumeCode(r) \/ IssueFromCode(r)
           \/ HandleReuse(r) \/ Respond(r) \/ EndChain(r) \/ Abort(r)
           \/ \E s \in Sessions : Logout(r, s) \/ AdminRevokeSession(r, s)
    PROVE  TimesInv'
<1>1. /\ reqs[r] \in Request /\ Idle \in Request /\ Idle.step = "idle"
  BY IdleType DEF GrantsInv, TypeOK
<1>2. tokens' = tokens
  BY DEF AuthorizeResolve, MintCode, ExchangeRead, ConsumeCode, IssueFromCode,
     HandleReuse, Respond, EndChain, Abort, Logout, AdminRevokeSession, tables
<1>3. PICK p : reqs' = [reqs EXCEPT ![r] = p] /\ p.step \notin TokenSteps
  <2>1. CASE \/ \E c \in Codes : MintCode(r, c)
             \/ HandleReuse(r) \/ Respond(r) \/ EndChain(r) \/ Abort(r)
    BY <1>1, <2>1 DEF MintCode, HandleReuse, Respond, EndChain, Abort, TokenSteps
  <2>2. CASE \E s \in Sessions, c \in Clients, scope \in SUBSET Scopes :
               AuthorizeResolve(r, s, c, scope)
    <3>1. PICK s \in Sessions, c \in Clients, scope \in SUBSET Scopes :
            AuthorizeResolve(r, s, c, scope)
      BY <2>2
    <3> DEFINE g == [Idle EXCEPT !.step = "mint", !.src = s, !.client = c,
                                 !.scope = scope]
    <3>2. reqs' = [reqs EXCEPT ![r] = g] /\ g.step = "mint"
      BY <1>1, <3>1 DEF AuthorizeResolve, Request
    <3>. HIDE DEF g
    <3>. QED
      BY <3>2 DEF TokenSteps
  <2>3. CASE \E c \in Codes, client \in Clients : ExchangeRead(r, c, client)
    <3>1. PICK c \in Codes, client \in Clients : ExchangeRead(r, c, client)
      BY <2>3
    <3> DEFINE g == [Idle EXCEPT !.step = "consumeCode", !.src = c,
                                 !.client = client]
    <3>2. reqs' = [reqs EXCEPT ![r] = g] /\ g.step = "consumeCode"
      BY <1>1, <3>1 DEF ExchangeRead, Request
    <3>. HIDE DEF g
    <3>. QED
      BY <3>2 DEF TokenSteps
  <2>4. CASE ConsumeCode(r)
    <3> DEFINE g == [reqs[r] EXCEPT !.step = "issueFromCode"]
    <3>1. g.step = "issueFromCode"
      BY <1>1 DEF Request
    <3>2. reqs' = [reqs EXCEPT ![r] = g] \/ reqs' = [reqs EXCEPT ![r] = Idle]
      BY <2>4 DEF ConsumeCode
    <3>. HIDE DEF g
    <3>. QED
      BY <1>1, <3>1, <3>2 DEF TokenSteps
  <2>5. CASE IssueFromCode(r)
    <3> DEFINE c == reqs[r].src
               st == IF reqs[r].client \in AllowRefresh
                        /\ OfflineAccess \in codes[c].scope
                     THEN "storeRoot" ELSE "respond"
               g == [reqs[r] EXCEPT !.authTime = codes[c].createdAt,
                                    !.scope = codes[c].scope, !.step = st]
    <3>1. g.step \in {"storeRoot", "respond"}
      BY <1>1 DEF Request
    <3>2. reqs' = [reqs EXCEPT ![r] = g]
      BY <2>5 DEF IssueFromCode
    <3>. HIDE DEF g
    <3>. QED
      BY <3>1, <3>2 DEF TokenSteps
  <2>6. CASE \E s \in Sessions : Logout(r, s) \/ AdminRevokeSession(r, s)
    <3>1. PICK s \in Sessions : Logout(r, s) \/ AdminRevokeSession(r, s)
      BY <2>6
    <3> DEFINE g == [Idle EXCEPT !.step = "endChain", !.src = s]
    <3>2. reqs' = [reqs EXCEPT ![r] = g] /\ g.step = "endChain"
      BY <1>1, <3>1 DEF Logout, AdminRevokeSession, Request
    <3>. HIDE DEF g
    <3>. QED
      BY <3>2 DEF TokenSteps
  <2>. QED
    BY <2>1, <2>2, <2>3, <2>4, <2>5, <2>6
<1>. QED
  BY <1>2, <1>3, TimesRequest

\* A refresh reads its token and its clock together, and keeps both.
LEMMA TimesRefresh ==
    ASSUME GrantsInv, TimesInv, OnlyGrows, NEW r \in Requests,
           \/ \E t \in Tokens, client \in Clients : RefreshRead(r, t, client)
           \/ ConsumeToken(r) \/ WalkToRoot(r)
           \/ \E requested \in SUBSET Scopes : IssueFromToken(r, requested)
    PROVE  TimesInv'
<1>1. /\ reqs[r] \in Request /\ Idle \in Request /\ Idle.step = "idle"
  BY IdleType DEF GrantsInv, TypeOK
<1>2. tokens' = tokens
  BY DEF RefreshRead, ConsumeToken, WalkToRoot, IssueFromToken, tables
<1>3. ASSUME NEW t \in Tokens, NEW client \in Clients, RefreshRead(r, t, client)
      PROVE  TimesInv'
  <2> DEFINE g == [Idle EXCEPT !.step = "consumeToken", !.src = t,
                               !.client = client, !.at = now]
  <2>1. reqs' = [reqs EXCEPT ![r] = g] /\ tokens[t] # None
    BY <1>3 DEF RefreshRead
  <2>2. g.src = t /\ g.at = now
    BY <1>1 DEF Request
  <2>. HIDE DEF g
  <2>. QED
    BY <1>2, <2>1, <2>2, TimesRequest
<1>4. ASSUME NEW p, reqs' = [reqs EXCEPT ![r] = p],
             p = Idle \/ (p.src = reqs[r].src /\ p.at = reqs[r].at),
             reqs[r].step \in TokenSteps
      PROVE  TimesInv'
  BY <1>1, <1>2, <1>4, TimesRequest DEF TokenSteps
<1>5. CASE ConsumeToken(r)
  <2>1. PICK p : /\ reqs' = [reqs EXCEPT ![r] = p]
                 /\ \/ p = Idle
                    \/ \E st \in Steps : p = [reqs[r] EXCEPT !.step = st]
    BY <1>5 DEF ConsumeToken, Steps
  <2>2. p = Idle \/ (p.src = reqs[r].src /\ p.at = reqs[r].at)
    BY <1>1, <2>1 DEF Request
  <2>. QED
    BY <1>4, <1>5, <2>1, <2>2 DEF ConsumeToken, TokenSteps
<1>6. ASSUME NEW requested \in SUBSET Scopes, IssueFromToken(r, requested)
      PROVE  TimesInv'
  <2>1. PICK p : /\ reqs' = [reqs EXCEPT ![r] = p]
                 /\ \/ p = Idle
                    \/ \E scope : p = [reqs[r] EXCEPT !.scope = scope,
                                         !.step = "walk", !.cur = reqs[r].src]
    BY <1>6 DEF IssueFromToken
  <2>2. p = Idle \/ (p.src = reqs[r].src /\ p.at = reqs[r].at)
    BY <1>1, <2>1 DEF Request
  <2>. QED
    BY <1>4, <1>6, <2>1, <2>2 DEF IssueFromToken, TokenSteps
<1>7. CASE WalkToRoot(r)
  <2> DEFINE up == tokens[reqs[r].cur].parent
             at == tokens[reqs[r].cur].createdAt
             st == AfterWalk(r)
             g == [reqs[r] EXCEPT !.cur = up, !.depth = @ + 1]
             h == [reqs[r] EXCEPT !.authTime = at, !.step = st]
  <2>1. /\ reqs[r].step = "walk"
        /\ reqs' = [reqs EXCEPT ![r] = g] \/ reqs' = [reqs EXCEPT ![r] = h]
    BY <1>7 DEF WalkToRoot
  <2>. HIDE DEF up, at, st
  <2>2. /\ g.src = reqs[r].src /\ g.at = reqs[r].at
        /\ h.src = reqs[r].src /\ h.at = reqs[r].at
    BY <1>1 DEF Request
  <2>. HIDE DEF g, h
  <2>. QED
    BY <1>4, <2>1, <2>2 DEF TokenSteps
<1>. QED
  BY <1>3, <1>5, <1>6, <1>7

\* A successor is stored with the time at which the refresh read its token.
LEMMA TimesStore ==
    ASSUME GrantsInv, TimesInv, OnlyGrows, NEW r \in Requests, NEW t \in Tokens,
           StoreRoot(r, t) \/ Rotate(r, t)
    PROVE  TimesInv'
<1>1. /\ tokens \in [Tokens -> TokenRow \cup {None}] /\ now \in Nat /\ now' = now
      /\ reqs[r] \in Request
      /\ reqs' = [reqs EXCEPT ![r].step = "respond"]
  BY DEF StoreRoot, Rotate, GrantsInv, TypeOK
<1>2. \A q \in Requests : reqs'[q].step \in TokenSteps => reqs'[q] = reqs[q]
  BY <1>1 DEF GrantsInv, TypeOK, TokenSteps, Request
<1>3. PICK row : /\ tokens' = [tokens EXCEPT ![t] = row]
                 /\ \/ row.createdAt = now /\ row.parent = None
                    \/ /\ reqs[r].step = "rotate"
                       /\ row.createdAt = reqs[r].at /\ row.parent = reqs[r].src
  <2>1. CASE StoreRoot(r, t)
    <3> DEFINE c == reqs[r].src
               new == [session |-> codes[c].session, client |-> reqs[r].client,
                       scope |-> reqs[r].scope, parent |-> None, origin |-> c,
                       createdAt |-> now,
                       expiresAt |-> now + (IF reqs[r].client \in AbsoluteMode
                                            THEN RefreshAbsoluteLifetime
                                            ELSE RefreshLifetime),
                       absoluteExpiresAt |-> now + RefreshAbsoluteLifetime]
    <3>1. tokens' = [tokens EXCEPT ![t] = new]
      BY <2>1 DEF StoreRoot
    <3>2. new.createdAt = now /\ new.parent = None
      OBVIOUS
    <3>. HIDE DEF new
    <3>. QED
      BY <3>1, <3>2
  <2>2. CASE Rotate(r, t)
    <3> DEFINE new == RotatedRow(reqs[r].src, r)
    <3>1. tokens' = [tokens EXCEPT ![t] = new] /\ reqs[r].step = "rotate"
      BY <2>2 DEF Rotate
    <3>2. new.createdAt = reqs[r].at /\ new.parent = reqs[r].src
      BY DEF RotatedRow
    <3>. HIDE DEF new
    <3>. QED
      BY <3>1, <3>2
  <2>. QED
    BY <2>1, <2>2
<1>4. reqs[r].step = "rotate" =>
        /\ reqs[r].src \in Tokens /\ tokens[reqs[r].src] # None
        /\ tokens[reqs[r].src].createdAt <= reqs[r].at /\ reqs[r].at <= now
  BY DEF GrantsInv, RequestWellFormed, TokenSteps, TimesInv
<1>5. tokens'[t] = row /\ \A u \in Tokens : u # t => tokens'[u] = tokens[u]
  BY <1>1, <1>3
<1>6. /\ tokens'[t].createdAt <= now'
      /\ tokens'[t].parent # None =>
           /\ tokens'[t].parent \in Tokens
           /\ tokens[tokens'[t].parent] # None
           /\ tokens[tokens'[t].parent].createdAt <= tokens'[t].createdAt
  BY <1>1, <1>3, <1>4, <1>5
<1>7. \A u \in Tokens : tokens[u] = None /\ tokens'[u] # None => u = t
  BY <1>5
<1>. QED
  BY <1>2, <1>6, <1>7, TimesStep

LEMMA TimesNext ==
    ASSUME GrantsInv, TimesInv, [Next]_vars
    PROVE  TimesInv'
<1>1. OnlyGrows
  BY NextGrows
<1>2. CASE \/ UNCHANGED vars \/ Tick \/ \E s \in Sessions : StartSession(s)
           \/ \E t \in Tokens, client \in Clients : Revoke(t, client)
           \/ \E t \in Tokens : AdminRevokeToken(t)
  <2>1. UNCHANGED <<tokens, reqs>>
    BY <1>2 DEF Tick, StartSession, Revoke, AdminRevokeToken, vars, tables
  <2>. QED
    BY <1>1, <2>1, TimesStep
<1>3. CASE \E r \in Requests : GrantStep(r)
  <2>1. PICK r \in Requests : GrantStep(r)
    BY <1>3
  <2>. QED
    BY <1>1, <2>1, TimesAside, TimesRefresh, TimesStore DEF GrantStep
<1>4. CASE \/ \E r \in Requests, s \in Sessions, client \in Clients,
                 scope \in SUBSET Scopes : AuthorizeResolve(r, s, client, scope)
           \/ \E r \in Requests, s \in Sessions :
                Logout(r, s) \/ AdminRevokeSession(r, s)
           \/ \E r \in Requests : EndChain(r) \/ Abort(r)
  BY <1>1, <1>4, TimesAside
<1>. QED
  BY <1>2, <1>3, <1>4 DEF Next

\* The ancestors of a token are no younger than it is.
LEMMA LineOlder ==
    ASSUME GrantsInv, TimesInv, NEW t \in Tokens, tokens[t] # None,
           NEW u \in Line(t), tokens[u] # None
    PROVE  tokens[u].createdAt <= tokens[t].createdAt
<1> DEFINE S == {v \in Tokens : tokens[v] # None =>
                                  tokens[v].createdAt <= tokens[t].createdAt}
<1>1. S \in SUBSET Tokens /\ t \in S
  BY DEF GrantsInv, TypeOK, TokenRow
<1>2. WithParents(S)
  <2>. SUFFICES ASSUME NEW v \in S, tokens[v] # None, tokens[v].parent # None
                PROVE  tokens[v].parent \in S
    BY DEF WithParents
  <2>1. /\ v \in Tokens /\ tokens[v] \in TokenRow /\ tokens[t] \in TokenRow
        /\ tokens[v].createdAt <= tokens[t].createdAt
    BY DEF GrantsInv, TypeOK
  <2>2. /\ tokens[v].parent \in Tokens /\ tokens[tokens[v].parent] \in TokenRow
        /\ tokens[tokens[v].parent].createdAt <= tokens[v].createdAt
    BY <2>1 DEF GrantsInv, TypeOK, ChainsWellFormed, TokenRow, TimesInv
  <2>. QED
    BY <2>1, <2>2 DEF TokenRow
<1>3. u \in S
  BY <1>1, <1>2 DEF Line
<1>. QED
  BY <1>3

\* Every response to a refresh token carries the time its chain's root was stored;
\* where a lookup of the walk failed or the token has more ancestors than the walk
\* is long, it carries an ancestor's, never a time after the token presented
\* (chainRootCreatedAt).
THEOREM AuthTimeFollowsChain == Spec => []AuthTimeStable
<1>1. GrantsInv /\ WalkInv /\ TimesInv => AuthTimeStable
  <2>. SUFFICES ASSUME GrantsInv, WalkInv, TimesInv, NEW t \in Tokens,
                       issued[t] # <<>>
                PROVE  Reached(t, issued[t][1]) /\ issued[t][1] <= tokens[t].createdAt
    BY DEF AuthTimeStable
  <2>1. Reached(t, issued[t][1])
    BY DEF WalkInv
  <2>2. tokens[t] # None
    BY IdsAssumption DEF GrantsInv, HonouredOnce, Exists, Credentials
  <2>3. PICK u \in Line(t) : tokens[u] # None /\ tokens[u].createdAt = issued[t][1]
    BY <2>1 DEF Reached
  <2>. QED
    BY <2>1, <2>2, <2>3, LineOlder
<1>2. Init => WalkInv /\ TimesInv
  BY WalkInit, TimesInit
<1>3. GrantsInv /\ WalkInv /\ TimesInv /\ [Next]_vars => WalkInv' /\ TimesInv'
  BY WalkNext, TimesNext
<1>. QED
  BY <1>1, <1>2, <1>3, GrantsSafe, PTL DEF Spec

-----------------------------------------------------------------------------
(* Revocation is final. *)

\* What a step may not do to a dead session: give it a row, or leave a request
\* at work on it.
LEMMA DeadStep ==
    ASSUME GrantsInv, OnlyGrows, NEW s \in Sessions, SessionDead(s),
           \A c \in Codes : codes[c] = None /\ codes'[c] # None =>
             codes'[c].session # s,
           \A t \in Tokens : tokens[t] = None /\ tokens'[t] # None =>
             tokens'[t].session # s,
           \A r \in Requests : reqs'[r] = reqs[r] \/ ~InFlightOn(r, s)'
    PROVE  SessionDead(s)'
<1>1. sessions'[s] # None /\ s \in revoked'
  BY DEF SessionDead, OnlyGrows
<1>2. TokensOf(s)' \subseteq revoked'
  BY DEF SessionDead, OnlyGrows, TokensOf
<1>3. \A c \in Codes : codes'[c] # None /\ codes'[c].session = s =>
        c \in consumed' \/ now' > codes'[c].expiresAt
  <2>. SUFFICES ASSUME NEW c \in Codes, codes'[c] # None, codes'[c].session = s
                PROVE  c \in consumed' \/ now' > codes'[c].expiresAt
    OBVIOUS
  <2>1. codes[c] # None /\ codes'[c] = codes[c]
    BY DEF OnlyGrows
  <2>2. c \in consumed \/ now > codes[c].expiresAt
    BY <2>1 DEF SessionDead
  <2>3. now \in Nat /\ codes[c].expiresAt \in Nat
    BY <2>1 DEF GrantsInv, TypeOK, CodeRow
  <2>. QED
    BY <2>1, <2>2, <2>3 DEF OnlyGrows
<1>4. ASSUME NEW r \in Requests, reqs'[r] = reqs[r]
      PROVE  ~InFlightOn(r, s)'
  <2>1. ~InFlightOn(r, s)
    BY DEF SessionDead
  <2>2. reqs[r].step \in CodeSteps =>
          reqs[r].src \in Codes /\ codes'[reqs[r].src] = codes[reqs[r].src]
    BY DEF GrantsInv, RequestWellFormed, OnlyGrows
  <2>3. reqs[r].step \in TokenSteps =>
          reqs[r].src \in Tokens /\ tokens'[reqs[r].src] = tokens[reqs[r].src]
    BY DEF GrantsInv, RequestWellFormed, OnlyGrows
  <2>4. consumed \subseteq consumed'
    BY DEF OnlyGrows
  <2>. QED
    BY <1>4, <2>1, <2>2, <2>3, <2>4 DEF InFlightOn, CodeSteps, TokenSteps
<1>. QED
  BY <1>1, <1>2, <1>3, <1>4 DEF SessionDead

\* The same for the steps that change one request and store no row.
LEMMA DeadRequest ==
    ASSUME GrantsInv, OnlyGrows, NEW s \in Sessions, SessionDead(s),
           NEW r \in Requests, NEW p, reqs' = [reqs EXCEPT ![r] = p],
           UNCHANGED <<codes, tokens>>,
           ~InFlightOn(r, s)'
    PROVE  SessionDead(s)'
<1>1. \A q \in Requests : reqs'[q] = reqs[q] \/ ~InFlightOn(q, s)'
  BY DEF GrantsInv, TypeOK
<1>. QED
  BY <1>1, DeadStep

\* Steps after which a request can add nothing more to a session.
Spent == {"idle", "reuse", "respond", "endChain"}

LEMMA SpentRequest ==
    ASSUME GrantsInv, NEW s \in Sessions, NEW r \in Requests, NEW p,
           reqs' = [reqs EXCEPT ![r] = p], p.step \in Spent
    PROVE  ~InFlightOn(r, s)'
BY DEF GrantsInv, TypeOK, InFlightOn, Spent

\* A request that goes on with its credential is in flight on a session only
\* if it was before.
LEMMA DeadProgress ==
    ASSUME GrantsInv, OnlyGrows, NEW s \in Sessions, SessionDead(s),
           NEW r \in Requests, NEW p, reqs' = [reqs EXCEPT ![r] = p],
           UNCHANGED <<codes, tokens>>,
           p.src = reqs[r].src,
           \/ p.step \in Spent
           \/ /\ p.step \in {"issueFromCode", "storeRoot"}
              /\ \/ reqs[r].step = "issueFromCode"
                 \/ reqs[r].step = "consumeCode" /\ reqs[r].src \notin consumed
           \/ /\ p.step \in {"issueFromToken", "walk", "rotate"}
              /\ \/ reqs[r].step \in {"issueFromToken", "walk"}
                 \/ reqs[r].step = "consumeToken" /\ reqs[r].src \notin consumed
    PROVE  SessionDead(s)'
<1>1. reqs'[r] = p
  BY DEF GrantsInv, TypeOK
<1>2. ~InFlightOn(r, s)
  BY DEF SessionDead
<1>3. CASE p.step \in Spent
  BY <1>3, SpentRequest, DeadRequest
<1>4. CASE p.step \notin Spent
  <2>1. ~InFlightOn(r, s)'
    BY <1>1, <1>2, <1>4 DEF InFlightOn
  <2>. QED
    BY <2>1, DeadRequest
<1>. QED
  BY <1>3, <1>4

LEMMA DeadEnds ==
    ASSUME GrantsInv, OnlyGrows, NEW s \in Sessions, SessionDead(s),
           NEW r \in Requests, reqs' = [reqs EXCEPT ![r] = Idle],
           UNCHANGED <<codes, tokens>>
    PROVE  SessionDead(s)'
BY IdleType, SpentRequest, DeadRequest DEF Spent

\* A new request finds the session revoked, its tokens revoked and its codes
\* spent or expired.
LEMMA DeadStart ==
    ASSUME GrantsInv, OnlyGrows, NEW s \in Sessions, SessionDead(s),
           NEW r \in Requests,
           \/ \E v \in Sessions, c \in Clients, scope \in SUBSET Scopes :
                AuthorizeResolve(r, v, c, scope)
           \/ \E c \in Codes, client \in Clients : ExchangeRead(r, c, client)
           \/ \E t \in Tokens, client \in Clients : RefreshRead(r, t, client)
           \/ \E v \in Sessions : Logout(r, v) \/ AdminRevokeSession(r, v)
    PROVE  SessionDead(s)'
<1>1. Idle \in Request
  BY IdleType
<1>2. UNCHANGED <<codes, tokens>>
  BY DEF AuthorizeResolve, ExchangeRead, RefreshRead, Logout,
     AdminRevokeSession, tables
<1>3. ASSUME NEW v \in Sessions, NEW c \in Clients, NEW scope \in SUBSET Scopes,
             AuthorizeResolve(r, v, c, scope)
      PROVE  SessionDead(s)'
  <2> DEFINE g == [Idle EXCEPT !.step = "mint", !.src = v, !.client = c,
                               !.scope = scope]
  <2>1. g.step = "mint" /\ g.src = v
    BY <1>1 DEF Request
  <2>2. reqs' = [reqs EXCEPT ![r] = g] /\ v # s
    BY <1>3 DEF AuthorizeResolve, SessionUsable, SessionDead
  <2>. HIDE DEF g
  <2>3. ~InFlightOn(r, s)'
    BY <2>1, <2>2 DEF InFlightOn, GrantsInv, TypeOK
  <2>. QED
    BY <1>2, <2>2, <2>3, DeadRequest
<1>4. ASSUME NEW c \in Codes, NEW client \in Clients, ExchangeRead(r, c, client)
      PROVE  SessionDead(s)'
  <2> DEFINE g == [Idle EXCEPT !.step = "consumeCode", !.src = c,
                               !.client = client]
  <2>1. g.step = "consumeCode" /\ g.src = c
    BY <1>1 DEF Request
  <2>2. reqs' = [reqs EXCEPT ![r] = g] /\ consumed' = consumed
    BY <1>4 DEF ExchangeRead, flags
  <2>3. codes[c].session = s => c \in consumed
    BY <1>4 DEF ExchangeRead, SessionDead
  <2>. HIDE DEF g
  <2>4. reqs'[r] = g /\ codes' = codes
    BY <1>2, <2>2 DEF GrantsInv, TypeOK
  <2>5. ~InFlightOn(r, s)'
    BY <2>1, <2>2, <2>3, <2>4 DEF InFlightOn
  <2>. QED
    BY <1>2, <2>2, <2>5, DeadRequest
<1>5. ASSUME NEW t \in Tokens, NEW client \in Clients, RefreshRead(r, t, client)
      PROVE  SessionDead(s)'
  <2> DEFINE g == [Idle EXCEPT !.step = "consumeToken", !.src = t,
                               !.client = client, !.at = now]
  <2>1. g.step = "consumeToken" /\ g.src = t
    BY <1>1 DEF Request
  <2>2. reqs' = [reqs EXCEPT ![r] = g]
    BY <1>5 DEF RefreshRead
  <2>3. t \notin Codes /\ tokens[t].session # s
    BY <1>5, IdsAssumption DEF RefreshRead, SessionDead, TokensOf
  <2>. HIDE DEF g
  <2>4. reqs'[r] = g /\ tokens' = tokens
    BY <1>2, <2>2 DEF GrantsInv, TypeOK
  <2>5. ~InFlightOn(r, s)'
    BY <2>1, <2>3, <2>4 DEF InFlightOn
  <2>. QED
    BY <1>2, <2>2, <2>5, DeadRequest
<1>6. ASSUME NEW v \in Sessions, Logout(r, v) \/ AdminRevokeSession(r, v)
      PROVE  SessionDead(s)'
  <2> DEFINE g == [Idle EXCEPT !.step = "endChain", !.src = v]
  <2>1. g.step = "endChain"
    BY <1>1 DEF Request
  <2>2. reqs' = [reqs EXCEPT ![r] = g]
    BY <1>6 DEF Logout, AdminRevokeSession
  <2>. HIDE DEF g
  <2>. QED
    BY <1>2, <2>1, <2>2, SpentRequest, DeadRequest DEF Spent
<1>. QED
  BY <1>3, <1>4, <1>5, <1>6

LEMMA DeadGrantStep ==
    ASSUME GrantsInv, OnlyGrows, NEW s \in Sessions, SessionDead(s),
           NEW r \in Requests, GrantStep(r)
    PROVE  SessionDead(s)'
<1>. USE IdsAssumption
<1> DEFINE q == reqs[r]
<1>1. q \in Request /\ ~InFlightOn(r, s)
  BY DEF GrantsInv, TypeOK, SessionDead
<1>2. ASSUME NEW c \in Codes, MintCode(r, c)
      PROVE  SessionDead(s)'
  <2>1. /\ reqs' = [reqs EXCEPT ![r] = Idle] /\ tokens' = tokens
        /\ \A d \in Codes : d # c => codes'[d] = codes[d]
        /\ codes'[c].session = q.src /\ q.src # s
    BY <1>1, <1>2 DEF MintCode, GrantsInv, TypeOK, InFlightOn
  <2>2. ~InFlightOn(r, s)'
    BY <2>1, IdleType, SpentRequest DEF Spent
  <2>3. \A p \in Requests : reqs'[p] = reqs[p] \/ ~InFlightOn(p, s)'
    BY <2>1, <2>2 DEF GrantsInv, TypeOK
  <2>4. \A d \in Codes : codes[d] = None /\ codes'[d] # None =>
          codes'[d].session # s
    BY <2>1
  <2>. QED
    BY <2>1, <2>3, <2>4, DeadStep
<1>3. ASSUME NEW t \in Tokens, StoreRoot(r, t) \/ Rotate(r, t)
      PROVE  SessionDead(s)'
  <2> DEFINE g == [q EXCEPT !.step = "respond"]
  <2>1. /\ codes' = codes
        /\ \A u \in Tokens : u # t => tokens'[u] = tokens[u]
        /\ reqs' = [reqs EXCEPT ![r] = g]
    BY <1>3 DEF StoreRoot, Rotate, GrantsInv, TypeOK
  <2>2. tokens'[t].session # s
    <3>1. CASE StoreRoot(r, t)
      BY <1>1, <3>1 DEF StoreRoot, GrantsInv, TypeOK, InFlightOn
    <3>2. CASE Rotate(r, t)
      BY <1>1, <3>2 DEF Rotate, RotatedRow, GrantsInv, TypeOK, InFlightOn
    <3>. QED
      BY <1>3, <3>1, <3>2
  <2>3. g.step = "respond"
    BY <1>1 DEF Request
  <2>. HIDE DEF g
  <2>4. ~InFlightOn(r, s)'
    BY <2>1, <2>3, SpentRequest DEF Spent
  <2>5. \A p \in Requests : reqs'[p] = reqs[p] \/ ~InFlightOn(p, s)'
    BY <2>1, <2>4 DEF GrantsInv, TypeOK
  <2>6. \A u \in Tokens : tokens[u] = None /\ tokens'[u] # None =>
          tokens'[u].session # s
    BY <2>1, <2>2
  <2>. QED
    BY <2>1, <2>5, <2>6, DeadStep
<1>4. CASE ConsumeCode(r)
  <2> DEFINE g == [q EXCEPT !.step = "issueFromCode"]
  <2>1. g.step = "issueFromCode" /\ g.src = q.src
    BY <1>1 DEF Request
  <2>2. /\ UNCHANGED <<codes, tokens>> /\ q.step = "consumeCode"
        /\ \/ reqs' = [reqs EXCEPT ![r] = Idle]
           \/ reqs' = [reqs EXCEPT ![r] = g] /\ q.src \notin consumed
    BY <1>4 DEF ConsumeCode, tables
  <2>. HIDE DEF g
  <2>. QED
    BY <2>1, <2>2, DeadEnds, DeadProgress
<1>5. CASE IssueFromCode(r)
  <2> DEFINE st == IF q.client \in AllowRefresh
                      /\ OfflineAccess \in codes[q.src].scope
                   THEN "storeRoot" ELSE "respond"
             g == [q EXCEPT !.authTime = codes[q.src].createdAt,
                            !.scope = codes[q.src].scope, !.step = st]
  <2>1. g.step \in {"storeRoot", "respond"} /\ g.src = q.src
    BY <1>1 DEF Request
  <2>2. /\ UNCHANGED <<codes, tokens>> /\ q.step = "issueFromCode"
        /\ reqs' = [reqs EXCEPT ![r] = g]
    BY <1>5 DEF IssueFromCode, tables
  <2>. HIDE DEF g
  <2>. QED
    BY <2>1, <2>2, DeadProgress DEF Spent
<1>6. CASE ConsumeToken(r)
  <2> DEFINE g == [q EXCEPT !.step = "issueFromToken"]
             h == [q EXCEPT !.step = "reuse"]
  <2>1. /\ g.step = "issueFromToken" /\ g.src = q.src
        /\ h.step = "reuse" /\ h.src = q.src
    BY <1>1 DEF Request
  <2>2. /\ UNCHANGED <<codes, tokens>> /\ q.step = "consumeToken"
        /\ \/ reqs' = [reqs EXCEPT ![r] = Idle]
           \/ reqs' = [reqs EXCEPT ![r] = g] /\ q.src \notin consumed
           \/ reqs' = [reqs EXCEPT ![r] = h]
    BY <1>6 DEF ConsumeToken, tables
  <2>. HIDE DEF g, h
  <2>. QED
    BY <2>1, <2>2, DeadEnds, DeadProgress DEF Spent
<1>7. ASSUME NEW requested \in SUBSET Scopes, IssueFromToken(r, requested)
      PROVE  SessionDead(s)'
  <2> DEFINE scope == IF requested = {} THEN tokens[q.src].scope ELSE requested
             g == [q EXCEPT !.scope = scope, !.step = "walk", !.cur = q.src]
  <2>1. g.step = "walk" /\ g.src = q.src
    BY <1>1 DEF Request
  <2>2. /\ UNCHANGED <<codes, tokens>> /\ q.step = "issueFromToken"
        /\ \/ reqs' = [reqs EXCEPT ![r] = Idle]
           \/ reqs' = [reqs EXCEPT ![r] = g]
    BY <1>7 DEF IssueFromToken, tables
  <2>. HIDE DEF g
  <2>. QED
    BY <2>1, <2>2, DeadEnds, DeadProgress
<1>8. CASE WalkToRoot(r)
  <2> DEFINE here == tokens[q.cur]
             g == [q EXCEPT !.cur = here.parent, !.depth = @ + 1]
             h == [q EXCEPT !.authTime = here.createdAt, !.step = AfterWalk(r)]
  <2>1. AfterWalk(r) \in {"rotate", "respond"}
    BY DEF AfterWalk
  <2>2. /\ UNCHANGED <<codes, tokens>> /\ q.step = "walk"
        /\ reqs' = [reqs EXCEPT ![r] = g] \/ reqs' = [reqs EXCEPT ![r] = h]
    BY <1>8 DEF WalkToRoot, tables
  <2>. HIDE DEF here
  <2>3. /\ g.step = "walk" /\ g.src = q.src
        /\ h.step \in {"rotate", "respond"} /\ h.src = q.src
    BY <1>1, <2>1, <2>2 DEF Request
  <2>. HIDE DEF g, h
  <2>. QED
    BY <2>2, <2>3, DeadProgress DEF Spent
<1>9. CASE HandleReuse(r) \/ Respond(r)
  BY <1>9, DeadEnds DEF HandleReuse, Respond, tables
<1>. QED
  BY <1>2, <1>3, <1>4, <1>5, <1>6, <1>7, <1>8, <1>9, DeadStart DEF GrantStep

LEMMA DeadNext ==
    ASSUME GrantsInv, [Next]_vars, NEW s \in Sessions, SessionDead(s)
    PROVE  SessionDead(s)'
<1>1. OnlyGrows
  BY NextGrows
<1>2. CASE \/ Tick \/ UNCHANGED vars
           \/ \E v \in Sessions : StartSession(v)
           \/ \E t \in Tokens, client \in Clients : Revoke(t, client)
           \/ \E t \in Tokens : AdminRevokeToken(t)
  <2>1. UNCHANGED <<codes, tokens, reqs>>
    BY <1>2 DEF Tick, StartSession, Revoke, AdminRevokeToken, vars, tables
  <2>. QED
    BY <1>1, <2>1, DeadStep
<1>3. CASE \E r \in Requests : GrantStep(r)
  BY <1>1, <1>3, DeadGrantStep
<1>4. CASE \E r \in Requests, v \in Sessions : \/ Logout(r, v)
                                               \/ AdminRevokeSession(r, v)
                                               \/ \E client \in Clients,
                                                     scope \in SUBSET Scopes :
                                                    AuthorizeResolve(r, v, client, scope)
  BY <1>1, <1>4, DeadStart
<1>5. CASE \E r \in Requests : EndChain(r) \/ Abort(r)
  <2>1. PICK r \in Requests : EndChain(r) \/ Abort(r)
    BY <1>5
  <2>2. reqs' = [reqs EXCEPT ![r] = Idle] /\ UNCHANGED <<codes, tokens>>
    BY <2>1 DEF EndChain, Abort, tables
  <2>. QED
    BY <1>1, <2>2, DeadEnds
<1>. QED
  BY <1>2, <1>3, <1>4, <1>5 DEF Next

\* Once a session is revoked, its tokens are and no request is half way on it,
\* no interleaving of logins, exchanges, refreshes and failures gives it a
\* credential again (terminateSession, revokeSession, handleReuse).
THEOREM RevocationLasts == Spec => RevocationIsFinal
<1>1. GrantsInv /\ [Next]_vars =>
        [\A s \in Sessions : SessionDead(s) => SessionDead(s)']_vars
  BY DeadNext
<1>. QED
  BY <1>1, GrantsSafe, PTL DEF Spec, RevocationIsFinal

-----------------------------------------------------------------------------
(* The token endpoint implements the ledger of one-time credentials. *)

\* Nothing is consumed before it is stored.
SpentExist == \A x \in consumed : Exists(x)

LEMMA SpentExistNext ==
    ASSUME GrantsInv, SpentExist, [Next]_vars
    PROVE  SpentExist'
<1>1. OnlyGrows
  BY NextGrows
<1>2. \A x \in Credentials : Exists(x) => Exists(x)'
  BY <1>1, IdsAssumption DEF GrantsInv, TypeOK, OnlyGrows, Exists, Credentials
<1>3. consumed \subseteq Credentials
  BY DEF GrantsInv, TypeOK
<1>4. consumed' = consumed
      \/ \E r \in Requests : ConsumeCode(r) \/ ConsumeToken(r)
  BY DEF Next, GrantStep, Tick, StartSession, AuthorizeResolve, MintCode,
     ExchangeRead, IssueFromCode, StoreRoot, RefreshRead, IssueFromToken,
     WalkToRoot, Rotate, HandleReuse, Respond, Revoke, AdminRevokeToken,
     Logout, AdminRevokeSession, EndChain, Abort, vars, flags
<1>5. ASSUME NEW r \in Requests, ConsumeCode(r) \/ ConsumeToken(r)
      PROVE  SpentExist'
  <2>1. reqs[r].src \in Credentials /\ Exists(reqs[r].src)
    BY <1>5, IdsAssumption DEF ConsumeCode, ConsumeToken, GrantsInv,
       RequestWellFormed, CodeSteps, TokenSteps, Credentials, Exists
  <2>2. consumed' = consumed \cup {reqs[r].src}
    BY <1>5 DEF ConsumeCode, ConsumeToken
  <2>. QED
    BY <1>2, <1>3, <2>1, <2>2 DEF SpentExist
<1>. QED
  BY <1>2, <1>3, <1>4, <1>5 DEF SpentExist

\* Only a consumed credential has a successor.
LEMMA SuccessorsOfSpent ==
    ASSUME GrantsInv, NEW x \in Credentials, HasSuccessor(x)
    PROVE  x \in consumed
<1>1. PICK t \in Tokens :
        /\ tokens[t] # None
        /\ IF x \in Codes THEN tokens[t].parent = None /\ tokens[t].origin = x
                          ELSE tokens[t].parent = x
  BY DEF HasSuccessor
<1>. QED
  BY <1>1, IdsAssumption DEF GrantsInv, ChainsWellFormed, Credentials

LEMMA StatusKept ==
    ASSUME UNCHANGED <<codes, tokens>>, NEW x \in Credentials,
           x \in consumed' <=> x \in consumed,
           issued'[x] = issued[x]
    PROVE  StatusOf(x)' = StatusOf(x)
BY DEF StatusOf, Exists, HasSuccessor

\* One credential moves by itself.
LEMMA LedgerMove ==
    ASSUME NEW x \in Credentials,
           \A y \in Credentials : y # x => StatusOf(y)' = StatusOf(y),
           \/ StatusOf(x)' = StatusOf(x)
           \/ /\ x \notin Tokens
              /\ StatusOf(x) = "absent" /\ StatusOf(x)' = "fresh"
           \/ StatusOf(x) = "fresh" /\ StatusOf(x)' = "spent"
           \/ /\ StatusOf(x) \in {"spent", "extended"}
              /\ StatusOf(x)' = "honoured"
    PROVE  [Ledger!LNext]_[y \in Credentials |-> StatusOf(y)]
<1> DEFINE S == [y \in Credentials |-> StatusOf(y)]
<1>1. S'[x] = StatusOf(x)' /\ S[x] = StatusOf(x)
  OBVIOUS
<1>2. S' = [S EXCEPT ![x] = StatusOf(x)']
  OBVIOUS
<1>3. CASE StatusOf(x)' = StatusOf(x)
  BY <1>3
<1>4. CASE /\ x \notin Tokens
           /\ StatusOf(x) = "absent" /\ StatusOf(x)' = "fresh"
  BY <1>1, <1>2, <1>4 DEF Ledger!LNext, Ledger!Create
<1>5. CASE StatusOf(x) = "fresh" /\ StatusOf(x)' = "spent"
  BY <1>1, <1>2, <1>5 DEF Ledger!LNext, Ledger!Spend
<1>6. CASE /\ StatusOf(x) \in {"spent", "extended"}
           /\ StatusOf(x)' = "honoured"
  BY <1>1, <1>2, <1>6 DEF Ledger!LNext, Ledger!Honour
<1>. QED
  BY <1>3, <1>4, <1>5, <1>6

\* A successor appears.
LEMMA LedgerExtend ==
    ASSUME NEW x \in Credentials, NEW t \in Tokens, x # t,
           \A y \in Credentials : y # x /\ y # t => StatusOf(y)' = StatusOf(y),
           StatusOf(x) = "spent", StatusOf(x)' = "extended",
           StatusOf(t) = "absent", StatusOf(t)' = "fresh"
    PROVE  [Ledger!LNext]_[y \in Credentials |-> StatusOf(y)]
<1> DEFINE S == [y \in Credentials |-> StatusOf(y)]
<1>1. t \in Credentials
  BY DEF Credentials
<1>2. S[x] = "spent" /\ S'[x] = "extended" /\ S[t] = "absent"
  BY <1>1
<1>3. S' = [S EXCEPT ![x] = "extended", ![t] = "fresh"]
  BY <1>1
<1>. QED
  BY <1>1, <1>2, <1>3 DEF Ledger!LNext, Ledger!Extend

LEMMA LedgerMint ==
    ASSUME GrantsInv, SpentExist, NEW r \in Requests, NEW c \in Codes,
           MintCode(r, c)
    PROVE  [Ledger!LNext]_[y \in Credentials |-> StatusOf(y)]
<1>. USE IdsAssumption
<1>1. c \in Credentials /\ c \notin Tokens /\ codes[c] = None
  BY DEF Credentials, MintCode
<1>2. /\ \A d \in Codes : d # c => codes'[d] = codes[d]
      /\ codes'[c] \in CodeRow
      /\ UNCHANGED <<tokens, consumed, issued>>
  BY TimeAssumption DEF MintCode, GrantsInv, TypeOK, RequestWellFormed, Request,
     CodeRow, flags, history
<1>3. codes'[c] # None
  BY <1>2, NoneAssumption
<1>4. c \notin consumed
  BY <1>1 DEF SpentExist, Exists
<1>5. StatusOf(c) = "absent" /\ StatusOf(c)' = "fresh"
  BY <1>1, <1>2, <1>3, <1>4 DEF StatusOf, Exists
<1>6. \A y \in Credentials : y # c => StatusOf(y)' = StatusOf(y)
  BY <1>2 DEF StatusOf, Exists, HasSuccessor
<1>. QED
  BY <1>1, <1>5, <1>6, LedgerMove

LEMMA LedgerConsume ==
    ASSUME GrantsInv, NEW r \in Requests, ConsumeCode(r) \/ ConsumeToken(r)
    PROVE  [Ledger!LNext]_[y \in Credentials |-> StatusOf(y)]
<1>0. PICK x : x = reqs[r].src
  OBVIOUS
<1>1. x \in Credentials /\ Exists(x)
  BY <1>0, IdsAssumption DEF ConsumeCode, ConsumeToken, GrantsInv, RequestWellFormed,
     CodeSteps, TokenSteps, Credentials, Exists
<1>2. /\ UNCHANGED <<codes, tokens, issued>>
      /\ consumed' = consumed \cup {x}
  BY <1>0 DEF ConsumeCode, ConsumeToken, tables, history
<1>3. \A y \in Credentials : y # x => StatusOf(y)' = StatusOf(y)
  BY <1>2, StatusKept
<1>4. CASE x \in consumed
  <2>1. StatusOf(x)' = StatusOf(x)
    BY <1>1, <1>2, <1>4, StatusKept
  <2>. QED
    BY <1>1, <1>3, <2>1, LedgerMove
<1>5. CASE x \notin consumed
  <2>1. issued[x] = <<>> /\ ~HasSuccessor(x)
    BY <1>1, <1>5, SuccessorsOfSpent DEF GrantsInv, HonouredOnce
  <2>2. Exists(x)' /\ ~HasSuccessor(x)' /\ issued'[x] = <<>> /\ x \in consumed'
    BY <1>1, <1>2, <2>1 DEF Exists, HasSuccessor
  <2>3. StatusOf(x) = "fresh" /\ StatusOf(x)' = "spent"
    BY <1>1, <1>5, <2>2 DEF StatusOf
  <2>. QED
    BY <1>1, <1>3, <2>3, LedgerMove
<1>. QED
  BY <1>4, <1>5

\* Storing a token extends the credential it was stored for, which is held by
\* the request that stores it.
LEMMA LedgerStore ==
    ASSUME GrantsInv, SpentExist, NEW r \in Requests, NEW t \in Tokens,
           StoreRoot(r, t) \/ Rotate(r, t)
    PROVE  [Ledger!LNext]_[y \in Credentials |-> StatusOf(y)]
<1>. USE IdsAssumption
<1>0. PICK x : x = reqs[r].src
  OBVIOUS
<1>1. /\ tokens[t] = None
      /\ \A u \in Tokens : u # t => tokens'[u] = tokens[u]
      /\ UNCHANGED <<codes, consumed, issued>>
      /\ reqs[r].step \in {"storeRoot", "rotate"}
  BY DEF StoreRoot, Rotate, GrantsInv, TypeOK, flags, history
<1>2. /\ x \in Credentials /\ Exists(x) /\ x # t
      /\ x \in consumed /\ issued[x] = <<>>
  BY <1>0, <1>1 DEF GrantsInv, RequestWellFormed, CodeSteps, TokenSteps, Credentials,
     Exists, OneWinner, WonSteps
<1>3. /\ tokens'[t] # None
      /\ IF x \in Codes
         THEN tokens'[t].parent = None /\ tokens'[t].origin = x
         ELSE tokens'[t].parent = x
  <2>2. CASE StoreRoot(r, t)
    <3> DEFINE row == [session |-> codes[x].session, client |-> reqs[r].client,
                       scope |-> reqs[r].scope, parent |-> None, origin |-> x,
                       createdAt |-> now,
                       expiresAt |-> now + (IF reqs[r].client \in AbsoluteMode
                                            THEN RefreshAbsoluteLifetime
                                            ELSE RefreshLifetime),
                       absoluteExpiresAt |-> now + RefreshAbsoluteLifetime]
    <3>1. /\ reqs[r] \in Request /\ now \in Nat
          /\ x \in Codes /\ codes[x] \in CodeRow
      BY <1>0, <2>2 DEF StoreRoot, GrantsInv, TypeOK, RequestWellFormed, CodeSteps
    <3>2. row \in TokenRow /\ row.parent = None /\ row.origin = x
      BY <3>1, TimeAssumption DEF Request, CodeRow, TokenRow, Credentials
    <3>3. tokens'[t] = row
      BY <1>0, <2>2 DEF StoreRoot, GrantsInv, TypeOK
    <3>. HIDE DEF row
    <3>. QED
      BY <3>1, <3>2, <3>3, NoneAssumption
  <2>3. CASE Rotate(r, t)
    <3> DEFINE row == RotatedRow(x, r)
    <3>1. /\ reqs[r] \in Request /\ x \in Tokens
          /\ tokens[x] # None /\ tokens[x] \in TokenRow
      BY <1>0, <2>3 DEF Rotate, GrantsInv, TypeOK, RequestWellFormed, TokenSteps
    <3>2. RotatedExpiry(tokens[x], reqs[r].client, reqs[r].at) \in Nat
      BY <3>1, RotatedExpiryBound DEF Request
    <3>3. row \in TokenRow /\ row.parent = x
      BY <3>1, <3>2 DEF RotatedRow, Request, TokenRow
    <3>4. tokens'[t] = row
      BY <1>0, <2>3 DEF Rotate, GrantsInv, TypeOK
    <3>. HIDE DEF row
    <3>. QED
      BY <3>1, <3>3, <3>4, NoneAssumption
  <2>. QED
    BY <2>2, <2>3
<1>4. ~HasSuccessor(x)
  BY <1>0, <1>1 DEF GrantsInv, OneBaton, HoldsCode, HoldsToken, HasSuccessor,
     RequestWellFormed, CodeSteps, TokenSteps
<1>5. HasSuccessor(x)'
  BY <1>2, <1>3 DEF HasSuccessor
<1>6. Exists(x)'
  BY <1>1, <1>2 DEF Exists, Credentials
<1>7. StatusOf(x) = "spent" /\ StatusOf(x)' = "extended"
  BY <1>1, <1>2, <1>4, <1>5, <1>6 DEF StatusOf
<1>8. t \notin consumed /\ t \notin Codes
  BY <1>1 DEF SpentExist, Exists
<1>9. StatusOf(t) = "absent" /\ StatusOf(t)' = "fresh"
  BY <1>1, <1>3, <1>8 DEF StatusOf, Exists
<1>10. ASSUME NEW y \in Credentials, y # x, y # t
       PROVE  StatusOf(y)' = StatusOf(y)
  <2>1. Exists(y)' <=> Exists(y)
    BY <1>1, <1>10 DEF Exists, Credentials
  <2>2. HasSuccessor(y)' <=> HasSuccessor(y)
    <3>1. ~(IF y \in Codes
            THEN tokens'[t].parent = None /\ tokens'[t].origin = y
            ELSE tokens'[t].parent = y)
      BY <1>2, <1>3, <1>10 DEF Credentials
    <3>. QED
      BY <1>1, <3>1 DEF HasSuccessor
  <2>. QED
    BY <1>1, <2>1, <2>2 DEF StatusOf
<1>. QED
  BY <1>2, <1>7, <1>9, <1>10, LedgerExtend

LEMMA LedgerRespond ==
    ASSUME GrantsInv, NEW r \in Requests, Respond(r)
    PROVE  [Ledger!LNext]_[y \in Credentials |-> StatusOf(y)]
<1>0. PICK x : x = reqs[r].src
  OBVIOUS
<1>1. /\ x \in Credentials /\ Exists(x)
      /\ x \in consumed /\ issued[x] = <<>>
      /\ reqs[r].authTime \in Nat
  BY <1>0 DEF Respond, GrantsInv, TypeOK, Request, RequestWellFormed, OneWinner,
     WonSteps
<1>2. /\ UNCHANGED <<codes, tokens, consumed>>
      /\ \A y \in Credentials : y # x => issued'[y] = issued[y]
      /\ issued'[x] # <<>>
  BY <1>0, <1>1 DEF Respond, GrantsInv, TypeOK, tables, flags
<1>3. \A y \in Credentials : y # x => StatusOf(y)' = StatusOf(y)
  BY <1>2, StatusKept
<1>4. Exists(x)'
  BY <1>1, <1>2 DEF Exists
<1>5. StatusOf(x) \in {"spent", "extended"} /\ StatusOf(x)' = "honoured"
  BY <1>1, <1>2, <1>4 DEF StatusOf
<1>. QED
  BY <1>1, <1>3, <1>5, LedgerMove

\* Every other step is a stutter of the ledger.
LEMMA LedgerStutter ==
    ASSUME UNCHANGED <<codes, tokens, consumed, issued>>
    PROVE  [Ledger!LNext]_[y \in Credentials |-> StatusOf(y)]
<1>1. \A y \in Credentials : StatusOf(y)' = StatusOf(y)
  BY StatusKept
<1>. QED
  BY <1>1

LEMMA LedgerNext ==
    ASSUME GrantsInv, SpentExist, [Next]_vars
    PROVE  [Ledger!LNext]_[y \in Credentials |-> StatusOf(y)]
<1>1. CASE \E r \in Requests, c \in Codes : MintCode(r, c)
  BY <1>1, LedgerMint
<1>2. CASE \E r \in Requests : ConsumeCode(r) \/ ConsumeToken(r)
  BY <1>2, LedgerConsume
<1>3. CASE \E r \in Requests, t \in Tokens : StoreRoot(r, t) \/ Rotate(r, t)
  BY <1>3, LedgerStore
<1>4. CASE \E r \in Requests : Respond(r)
  BY <1>4, LedgerRespond
<1>5. CASE /\ ~\E r \in Requests, c \in Codes : MintCode(r, c)
           /\ ~\E r \in Requests : ConsumeCode(r) \/ ConsumeToken(r)
           /\ ~\E r \in Requests, t \in Tokens : StoreRoot(r, t) \/ Rotate(r, t)
           /\ ~\E r \in Requests : Respond(r)
  <2>1. UNCHANGED <<codes, tokens, consumed, issued>>
    BY <1>5 DEF Next, GrantStep, Tick, StartSession, AuthorizeResolve,
       ExchangeRead, IssueFromCode, RefreshRead, IssueFromToken, WalkToRoot,
       HandleReuse, Revoke, AdminRevokeToken, Logout, AdminRevokeSession,
       EndChain, Abort, vars, tables, flags, history
  <2>. QED
    BY <2>1, LedgerStutter
<1>. QED
  BY <1>1, <1>2, <1>3, <1>4, <1>5

LEMMA LedgerInit == Init => Ledger!LInit
<1>. SUFFICES ASSUME Init PROVE Ledger!LInit
  OBVIOUS
<1>1. PICK owner \in [LegacyTokens -> Clients] :
        tokens = [t \in Tokens |-> IF t \in LegacyTokens
                                   THEN LegacyRow(t, owner[t]) ELSE None]
  BY DEF Init
<1>2. \A t \in LegacyTokens : LegacyRow(t, owner[t]) \in TokenRow
  BY TimeAssumption, IdsAssumption DEF LegacyRow, TokenRow, Credentials
<1>3. \A x \in Credentials :
        Exists(x) <=> x \in LegacyTokens
  BY <1>1, <1>2, IdsAssumption, NoneAssumption DEF Init, Exists, Credentials
<1>4. \A x \in Credentials :
        StatusOf(x) = IF x \in LegacyTokens THEN "fresh" ELSE "absent"
  BY <1>3 DEF StatusOf, Init
<1>. QED
  BY <1>4 DEF Ledger!LInit

\* The token endpoint implements the ledger: every code and token is created
\* once, spent once, extended at most once while it is spent and honoured at
\* most once, last, whatever the requests do (AuthCodeGrant, RefreshGrant).
THEOREM GrantsImplementLedger == Spec => ImplementsLedger
<1>1. Init => Ledger!LInit
  BY LedgerInit
<1>2. Init => SpentExist
  BY DEF Init, SpentExist
<1>3. GrantsInv /\ SpentExist /\ [Next]_vars => SpentExist'
  BY SpentExistNext
<1>4. GrantsInv /\ SpentExist /\ [Next]_vars =>
        [Ledger!LNext]_[x \in Credentials |-> StatusOf(x)]
  BY LedgerNext
<1>. QED
  BY <1>1, <1>2, <1>3, <1>4, GrantsSafe, PTL
     DEF Spec, ImplementsLedger, Ledger!LSpec
=============================================================================
