--------------------------- MODULE Accounts_proofs ---------------------------
(***************************************************************************)
(* Proofs about Accounts, for any number of requests, links, sessions and  *)
(* passwords, with and without failures.                                   *)
(*                                                                         *)
(* AccountsInv is inductive: each lemma below shows that one group of      *)
(* actions preserves it.                                                   *)
(***************************************************************************)
EXTENDS Accounts, TLAPS

USE DEF tokens

LEMMA IdleType == Idle \in Request
  BY DEF Idle, Request, Ops, Steps

LEMMA InitInv == Init => AccountsInv
<1> SUFFICES ASSUME Init PROVE AccountsInv
  OBVIOUS
<1>1. TypeOK
  BY IdleType DEF Init, TypeOK, Grants
<1>2. LinkInv
  BY DEF Init, LinkInv, Idle
<1>3. PendingInv /\ OlderInv
  BY DEF Init, PendingInv, OlderInv, Idle
<1>4. ChainsFollowSessions
  BY DEF Init, ChainsFollowSessions
<1> QED BY <1>1, <1>2, <1>3, <1>4 DEF AccountsInv

\* Time passing, the token endpoint and the creation of the account.
LEMMA OutsideInv ==
  ASSUME AccountsInv,
         \/ \E s \in Sessions : SessionExpires(s) \/ ClaimTokens(s)
               \/ FindGrantee(s) \/ GrantTokens(s) \/ GiveUpGrant(s) \/ TokensEnd(s)
         \/ \E l \in Links : LinkExpires(l)
         \/ \E p \in Passwords : CreateUser(p)
  PROVE  AccountsInv'
<1>1. CASE \E s \in Sessions : SessionExpires(s)
  BY <1>1 DEF AccountsInv, TypeOK, LinkInv, PendingInv, OlderInv,
              ChainsFollowSessions, SessionExpires
<1>2. ASSUME NEW s \in Sessions,
             \/ ClaimTokens(s) \/ FindGrantee(s) \/ GrantTokens(s)
             \/ GiveUpGrant(s) \/ TokensEnd(s)
      PROVE  AccountsInv'
  <2>1. UNCHANGED <<hash, links, sessions, outran, reqs, used, dropped>>
    BY <1>2 DEF ClaimTokens, FindGrantee, GrantTokens, GiveUpGrant, TokensEnd
  <2>2. granted' \subseteq Sessions /\ grants' \in [Sessions -> Grants]
    BY <1>2 DEF ClaimTokens, FindGrantee, GrantTokens, GiveUpGrant, TokensEnd,
                AccountsInv, TypeOK, Grants
  <2>3. \A t \in Sessions : sessions[t] = "revoked" /\ t \notin granted
                              /\ grants[t] = "none"
                           => t \notin granted' /\ grants'[t] = "none"
    BY <1>2 DEF ClaimTokens, FindGrantee, GrantTokens, GiveUpGrant, TokensEnd,
                AccountsInv, TypeOK
  <2>4. ChainsFollowSessions'
    BY <2>1, <2>3 DEF AccountsInv, ChainsFollowSessions
  <2>5. TypeOK' /\ LinkInv' /\ PendingInv' /\ OlderInv'
    BY <2>1, <2>2 DEF AccountsInv, TypeOK, LinkInv, PendingInv, OlderInv
  <2> QED BY <2>4, <2>5 DEF AccountsInv
<1>3. CASE \E l \in Links : LinkExpires(l)
  BY <1>3 DEF AccountsInv, TypeOK, LinkInv, PendingInv, OlderInv,
              ChainsFollowSessions, LinkExpires
<1>4. CASE \E p \in Passwords : CreateUser(p)
  <2>1. TypeOK'
    BY <1>4 DEF AccountsInv, TypeOK, CreateUser
  <2>2. LinkInv' /\ PendingInv' /\ OlderInv' /\ ChainsFollowSessions'
    BY <1>4 DEF AccountsInv, LinkInv, PendingInv, OlderInv,
                ChainsFollowSessions, CreateUser
  <2> QED BY <2>1, <2>2 DEF AccountsInv
<1> QED BY <1>1, <1>2, <1>3, <1>4

\* What any statement of a handler does to links and sessions: a link that is
\* dead stays dead, nothing that was used becomes free again, and only a row
\* that was free becomes live.
Ages ==
    /\ links' \in [Links -> {"free", "live", "dead"}]
    /\ \A l \in Links : links[l] # "free" =>
          /\ links'[l] # "free"
          /\ links[l] = "dead" => links'[l] = "dead"
    /\ sessions' \in [Sessions -> {"free", "live", "expired", "revoked"}]
    /\ \A s \in Sessions : sessions[s] # "free" =>
          /\ sessions'[s] # "free"
          /\ sessions[s] # "live" => sessions'[s] # "live"

\* OlderInv for the record q in the next state.
EndsOlder(q) ==
    /\ \A s \in q.before :
          /\ sessions'[s] # "free"
          /\ q.step \in {"chains", "done"} /\ s # q.keep
             => sessions'[s] # "live"
    /\ \A l \in q.older :
          /\ links'[l] # "free"
          /\ q.op # "change" /\ q.step \in {"revoke", "chains", "done"}
             => links'[l] # "live"

\* LinkInv survives a step that neither uses nor consumes a link.
LEMMA LinkStep ==
  ASSUME AccountsInv, NEW r \in Requests, NEW q \in Request, Become(r, q),
         Ages, used' = used, q.step = "set" => q.link = None
  PROVE  LinkInv'
<1>1. \A o \in Requests : reqs'[o].step = "set" /\ reqs'[o].link # None
         => o # r /\ reqs'[o] = reqs[o]
  BY DEF AccountsInv, TypeOK, Become
<1>2. \A o \in Requests : reqs[o].link # None => reqs[o].link \in Links
  BY DEF AccountsInv, TypeOK, Request
<1>3. \A o \in Requests : reqs'[o].step = "set" /\ reqs'[o].link # None
         => links'[reqs'[o].link] = "dead"
  BY <1>1, <1>2 DEF AccountsInv, LinkInv, Ages
<1>4. \A l \in Links : used'[l] > 0 =>
          /\ used'[l] = 1 /\ links'[l] = "dead"
          /\ \A o \in Requests :
                ~(reqs'[o].step = "set" /\ reqs'[o].link = l)
  BY <1>1, NoneAssumption DEF AccountsInv, LinkInv, Ages
<1> QED BY <1>1, <1>3, <1>4 DEF AccountsInv, LinkInv

\* The rest of the invariant survives a step of request r to q that accounts
\* for every session it revokes or stops to cascade.
LEMMA RequestStep ==
  ASSUME AccountsInv, NEW r \in Requests, NEW q \in Request, Become(r, q),
         Ages, LinkInv',
         hash' \in Passwords \cup {None},
         used' \in [Links -> Nat],
         dropped' \subseteq Sessions, outran' \subseteq Sessions,
         granted' \subseteq granted, grants' = grants,
         q.pending # {} => q.step = "chains",
         \A s \in Sessions :
            \/ s \in reqs[r].pending \cup dropped \cup outran
            \/ sessions'[s] = "revoked" /\ sessions[s] # "revoked"
            => \/ s \in q.pending \cup dropped' \cup outran'
               \/ s \notin granted' /\ grants[s] = "none",
         EndsOlder(q)
  PROVE  AccountsInv'
<1>1. reqs'[r] = q /\ \A o \in Requests : o # r => reqs'[o] = reqs[o]
  BY DEF AccountsInv, TypeOK, Become
<1>2. TypeOK'
  BY DEF AccountsInv, TypeOK, Become, Ages
<1>3. PendingInv'
  BY <1>1 DEF AccountsInv, PendingInv
<1>4. OlderInv'
  <2>1. \A o \in Requests : /\ reqs[o].before \subseteq Sessions
                            /\ reqs[o].older \subseteq Links
    BY DEF AccountsInv, TypeOK, Request
  <2>2. \A o \in Requests : o # r => EndsOlder(reqs[o])
    BY <2>1 DEF AccountsInv, TypeOK, OlderInv, EndsOlder, Ages
  <2> QED BY <1>1, <2>2 DEF OlderInv, EndsOlder
<1>5. ChainsFollowSessions'
  <2> SUFFICES ASSUME NEW s \in Sessions, sessions'[s] = "revoked"
               PROVE  \/ s \in dropped' \cup outran'
                      \/ \E o \in Requests : s \in reqs'[o].pending
                      \/ s \notin granted' /\ grants'[s] = "none"
    BY DEF ChainsFollowSessions
  <2>1. CASE \/ sessions[s] # "revoked"
             \/ s \in reqs[r].pending \cup dropped \cup outran
    BY <1>1, <2>1
  <2>2. CASE /\ sessions[s] = "revoked"
             /\ s \notin reqs[r].pending \cup dropped \cup outran
    <3>1. \/ \E o \in Requests : s \in reqs[o].pending
          \/ s \notin granted /\ grants[s] = "none"
      BY <2>2 DEF AccountsInv, ChainsFollowSessions
    <3> QED BY <1>1, <2>2, <3>1
  <2> QED BY <2>1, <2>2
<1> QED BY <1>2, <1>3, <1>4, <1>5 DEF AccountsInv

\* Nothing but the request's own record, the users row and the history moves.
LEMMA HistoryStep ==
  ASSUME AccountsInv, NEW r \in Requests, NEW q \in Request, Become(r, q),
         UNCHANGED <<links, sessions, granted, grants, used>>,
         hash' \in Passwords \cup {None},
         dropped' \subseteq Sessions, dropped \subseteq dropped',
         outran' \subseteq Sessions, outran \subseteq outran',
         q.step = "set" => q.link = None,
         q.pending # {} => q.step = "chains",
         \A s \in reqs[r].pending : \/ s \in q.pending \cup dropped' \cup outran'
                                    \/ s \notin granted /\ grants[s] = "none",
         EndsOlder(q)
  PROVE  AccountsInv'
<1>1. Ages /\ used' \in [Links -> Nat]
  BY DEF AccountsInv, TypeOK, Ages
<1>2. LinkInv'
  BY <1>1, LinkStep
<1> QED BY <1>1, <1>2, RequestStep

\* The same, where nothing changes what is under way at the token endpoint.
LEMMA QuietStep ==
  ASSUME AccountsInv, NEW r \in Requests, NEW q \in Request, Become(r, q),
         UNCHANGED <<links, sessions, tokens, used>>,
         hash' \in Passwords \cup {None},
         dropped' \subseteq Sessions, dropped \subseteq dropped',
         q.step = "set" => q.link = None,
         q.pending # {} => q.step = "chains",
         reqs[r].pending \subseteq q.pending \cup dropped',
         EndsOlder(q)
  PROVE  AccountsInv'
<1>1. outran' = outran /\ outran \subseteq Sessions
  BY DEF AccountsInv, TypeOK
<1> QED BY <1>1, HistoryStep

LEMMA QuietEnd ==
  ASSUME AccountsInv, NEW r \in Requests, End(r),
         UNCHANGED <<links, sessions, tokens, used>>,
         hash' \in Passwords \cup {None},
         dropped' = dropped \cup reqs[r].pending
  PROVE  AccountsInv'
<1>1. /\ Idle.step = "idle" /\ Idle.pending = {}
      /\ Idle.before = {} /\ Idle.older = {}
  BY DEF Idle
<1>2. dropped' \subseteq Sessions
  BY DEF AccountsInv, TypeOK, Request
<1> QED BY <1>1, <1>2, IdleType, QuietStep DEF End, EndsOlder

\* A request that begins holds no link past its lookup and has set nothing.
LEMMA BeginInv ==
  ASSUME AccountsInv, NEW r \in Requests, NEW req \in Request,
         Begin(r, req),
         UNCHANGED <<hash, links, sessions, tokens, used, dropped>>,
         req.step = "set" => req.link = None,
         req.pending = {}, req.before = {}, req.older = {}
  PROVE  AccountsInv'
<1>1. reqs[r].pending = {}
  BY DEF AccountsInv, PendingInv, Begin
<1>2. /\ hash' \in Passwords \cup {None}
      /\ dropped' \subseteq Sessions
  BY DEF AccountsInv, TypeOK
<1>3. EndsOlder(req)
  BY DEF EndsOlder
<1> QED BY <1>1, <1>2, <1>3, QuietStep DEF Begin

\* The first statements of the handlers, except revokeSession's.
LEMMA BeginsInv ==
  ASSUME AccountsInv, NEW r \in Requests,
         \/ \E p \in Passwords : LoginValidate(r, p) \/ AdminBegin(r, p)
         \/ \E l \in Links, p \in Passwords : ResetLookup(r, l, p)
         \/ \E s \in Sessions, p \in Passwords : ChangeValidate(r, s, p)
         \/ \E s \in Sessions : RevokeOthersBegin(r, s)
         \/ ForgotFind(r) \/ UpdateFind(r) \/ DeleteBegin(r)
  PROVE  AccountsInv'
<1>1. ASSUME NEW p \in Passwords, LoginValidate(r, p) PROVE AccountsInv'
  <2> DEFINE req == [Idle EXCEPT !.step = "store"]
  <2>1. /\ req \in Request
        /\ req.step = "set" => req.link = None
        /\ req.pending = {} /\ req.before = {} /\ req.older = {}
    BY DEF Idle, Request, Ops, Steps
  <2>2. Begin(r, req)
    BY <1>1 DEF LoginValidate
  <2> HIDE DEF req
  <2>3. UNCHANGED <<hash, links, sessions, tokens, used, dropped>>
    BY <1>1 DEF LoginValidate
  <2> QED BY <2>1, <2>2, <2>3, BeginInv
<1>2. ASSUME NEW p \in Passwords, AdminBegin(r, p) PROVE AccountsInv'
  <2> DEFINE req == [Idle EXCEPT !.op = "reset", !.step = "set", !.pw = p]
  <2>1. /\ req \in Request
        /\ req.step = "set" => req.link = None
        /\ req.pending = {} /\ req.before = {} /\ req.older = {}
    BY DEF Idle, Request, Ops, Steps
  <2>2. Begin(r, req)
    BY <1>2 DEF AdminBegin
  <2> HIDE DEF req
  <2>3. UNCHANGED <<hash, links, sessions, tokens, used, dropped>>
    BY <1>2 DEF AdminBegin
  <2> QED BY <2>1, <2>2, <2>3, BeginInv
<1>3. ASSUME NEW l \in Links, NEW p \in Passwords, ResetLookup(r, l, p)
      PROVE  AccountsInv'
  <2> DEFINE req == [Idle EXCEPT !.op = "reset", !.step = "consume",
                                !.link = l, !.pw = p]
  <2>1. /\ req \in Request
        /\ req.step = "set" => req.link = None
        /\ req.pending = {} /\ req.before = {} /\ req.older = {}
    BY DEF Idle, Request, Ops, Steps
  <2>2. Begin(r, req)
    BY <1>3 DEF ResetLookup
  <2> HIDE DEF req
  <2>3. UNCHANGED <<hash, links, sessions, tokens, used, dropped>>
    BY <1>3 DEF ResetLookup
  <2> QED BY <2>1, <2>2, <2>3, BeginInv
<1>4. ASSUME NEW s \in Sessions, NEW p \in Passwords, ChangeValidate(r, s, p)
      PROVE  AccountsInv'
  <2> DEFINE req == [Idle EXCEPT !.op = "change", !.step = "set",
                                !.keep = s, !.pw = p]
  <2>1. /\ req \in Request
        /\ req.step = "set" => req.link = None
        /\ req.pending = {} /\ req.before = {} /\ req.older = {}
    BY DEF Idle, Request, Ops, Steps
  <2>2. Begin(r, req)
    BY <1>4 DEF ChangeValidate
  <2> HIDE DEF req
  <2>3. UNCHANGED <<hash, links, sessions, tokens, used, dropped>>
    BY <1>4 DEF ChangeValidate
  <2> QED BY <2>1, <2>2, <2>3, BeginInv
<1>5. ASSUME NEW s \in Sessions, RevokeOthersBegin(r, s) PROVE AccountsInv'
  <2> DEFINE req == [Idle EXCEPT !.op = "others", !.step = "revoke",
                                !.keep = s]
  <2>1. /\ req \in Request
        /\ req.step = "set" => req.link = None
        /\ req.pending = {} /\ req.before = {} /\ req.older = {}
    BY DEF Idle, Request, Ops, Steps
  <2>2. Begin(r, req)
    BY <1>5 DEF RevokeOthersBegin
  <2> HIDE DEF req
  <2>3. UNCHANGED <<hash, links, sessions, tokens, used, dropped>>
    BY <1>5 DEF RevokeOthersBegin
  <2> QED BY <2>1, <2>2, <2>3, BeginInv
<1>6. ASSUME ForgotFind(r) PROVE AccountsInv'
  <2> DEFINE req == [Idle EXCEPT !.op = "forgot", !.step = "invalidate"]
  <2>1. /\ req \in Request
        /\ req.step = "set" => req.link = None
        /\ req.pending = {} /\ req.before = {} /\ req.older = {}
    BY DEF Idle, Request, Ops, Steps
  <2>2. Begin(r, req)
    BY <1>6 DEF ForgotFind
  <2> HIDE DEF req
  <2>3. UNCHANGED <<hash, links, sessions, tokens, used, dropped>>
    BY <1>6 DEF ForgotFind
  <2> QED BY <2>1, <2>2, <2>3, BeginInv
<1>7. ASSUME UpdateFind(r) PROVE AccountsInv'
  <2> DEFINE req == [Idle EXCEPT !.op = "update", !.step = "read"]
  <2>1. /\ req \in Request
        /\ req.step = "set" => req.link = None
        /\ req.pending = {} /\ req.before = {} /\ req.older = {}
    BY DEF Idle, Request, Ops, Steps
  <2>2. Begin(r, req)
    BY <1>7 DEF UpdateFind
  <2> HIDE DEF req
  <2>3. UNCHANGED <<hash, links, sessions, tokens, used, dropped>>
    BY <1>7 DEF UpdateFind
  <2> QED BY <2>1, <2>2, <2>3, BeginInv
<1>8. ASSUME DeleteBegin(r) PROVE AccountsInv'
  <2> DEFINE req == [Idle EXCEPT !.op = "delete", !.step = "revoke"]
  <2>1. /\ req \in Request
        /\ req.step = "set" => req.link = None
        /\ req.pending = {} /\ req.before = {} /\ req.older = {}
    BY DEF Idle, Request, Ops, Steps
  <2>2. Begin(r, req)
    BY <1>8 DEF DeleteBegin
  <2> HIDE DEF req
  <2>3. UNCHANGED <<hash, links, sessions, tokens, used, dropped>>
    BY <1>8 DEF DeleteBegin
  <2> QED BY <2>1, <2>2, <2>3, BeginInv
<1> QED BY <1>1, <1>2, <1>3, <1>4, <1>5, <1>6, <1>7, <1>8

\* revokeSession marks another session and will cascade to its tokens.
LEMMA RevokeSessionInv ==
  ASSUME AccountsInv, NEW r \in Requests, NEW s \in Sessions,
         NEW t \in Sessions, RevokeSession(r, s, t)
  PROVE  AccountsInv'
<1> DEFINE req == [Idle EXCEPT !.op = "one", !.step = "chains", !.pending = {t}]
<1>1. /\ req \in Request /\ req.step = "chains" /\ req.pending = {t}
      /\ req.before = {} /\ req.older = {}
  BY DEF Idle, Request, Ops, Steps
<1>2. Begin(r, req) /\ UNCHANGED <<hash, links, tokens, used, dropped>>
  BY DEF RevokeSession
<1> HIDE DEF req
<1>3. reqs[r].pending = {}
  BY <1>2 DEF AccountsInv, PendingInv, Begin
<1>4. Ages
  BY <1>2 DEF RevokeSession, AccountsInv, TypeOK, Ages
<1>5. \A x \in Sessions : sessions'[x] # sessions[x] => x \in req.pending
  BY <1>1 DEF RevokeSession, AccountsInv, TypeOK
<1>6. LinkInv' /\ EndsOlder(req)
  BY <1>1, <1>2, <1>4, LinkStep DEF Begin, EndsOlder
<1>7. /\ hash' \in Passwords \cup {None}
      /\ used' \in [Links -> Nat] /\ outran' \subseteq Sessions
      /\ dropped' \subseteq Sessions
  BY <1>2 DEF AccountsInv, TypeOK
<1> QED BY <1>1, <1>2, <1>3, <1>4, <1>5, <1>6, <1>7, RequestStep DEF Begin

\* A handler that inserts its row and returns.
LEMMA InsertInv ==
  ASSUME AccountsInv, NEW r \in Requests, LoginStore(r) \/ ForgotCreate(r)
  PROVE  AccountsInv'
<1>1. /\ Idle.step = "idle" /\ Idle.pending = {}
      /\ Idle.before = {} /\ Idle.older = {}
  BY DEF Idle
<1>2. Become(r, Idle) /\ UNCHANGED <<hash, tokens, used, dropped>>
  BY DEF LoginStore, ForgotCreate, End
<1>3. reqs[r].pending = {}
  BY DEF AccountsInv, PendingInv, LoginStore, ForgotCreate
<1>4. Ages
  BY DEF LoginStore, ForgotCreate, AccountsInv, TypeOK, Ages
<1>5. \A x \in Sessions : sessions'[x] = "revoked" => sessions[x] = "revoked"
  BY DEF LoginStore, ForgotCreate, AccountsInv, TypeOK
<1>6. LinkInv' /\ EndsOlder(Idle)
  BY <1>1, <1>2, <1>4, IdleType, LinkStep DEF EndsOlder
<1>7. /\ hash' \in Passwords \cup {None}
      /\ used' \in [Links -> Nat] /\ outran' \subseteq Sessions
      /\ dropped' \subseteq Sessions
  BY <1>2 DEF AccountsInv, TypeOK
<1> QED BY <1>1, <1>2, <1>3, <1>4, <1>5, <1>6, <1>7, IdleType, RequestStep

\* The compare-and-set: the winner is the only request that still owes a
\* SetPassword for its link.
LEMMA ConsumeInv ==
  ASSUME AccountsInv, NEW r \in Requests, Consume(r)
  PROVE  AccountsInv'
<1> DEFINE link == reqs[r].link
           won == [reqs[r] EXCEPT !.step = "set"]
<1>1. /\ reqs[r] \in Request /\ reqs[r].step = "consume"
      /\ reqs[r].pending = {}
      /\ UNCHANGED <<hash, sessions, tokens, used, dropped>>
  BY DEF Consume, AccountsInv, TypeOK, PendingInv
<1>2. /\ hash' \in Passwords \cup {None}
      /\ used' \in [Links -> Nat] /\ outran' \subseteq Sessions
      /\ dropped' \subseteq Sessions
  BY <1>1 DEF AccountsInv, TypeOK
<1>3. CASE End(r) /\ UNCHANGED links
  BY <1>1, <1>2, <1>3, QuietEnd
<1>4. CASE /\ links[link] = "live" /\ Goto(r, "set")
           /\ links' = [links EXCEPT ![link] = "dead"]
  <2>1. /\ won \in Request /\ won.step = "set" /\ won.link = link
        /\ won.pending = {} /\ won.before = reqs[r].before
        /\ won.older = reqs[r].older /\ won.keep = reqs[r].keep
    BY <1>1 DEF Request, Steps
  <2>2. Become(r, won)
    BY <1>4 DEF Goto
  <2> HIDE DEF won
  <2>3. Ages
    BY <1>1, <1>4 DEF AccountsInv, TypeOK, Ages
  <2>4. reqs'[r] = won /\ \A o \in Requests : o # r => reqs'[o] = reqs[o]
    BY <2>2 DEF AccountsInv, TypeOK, Become
  <2>5. \A o \in Requests : reqs[o].link # None => reqs[o].link \in Links
    BY DEF AccountsInv, TypeOK, Request
  <2>6. \A l \in Links : links'[l] = IF l = link THEN "dead" ELSE links[l]
    BY <1>4 DEF AccountsInv, TypeOK
  <2>7. LinkInv'
    <3>1. \A o \in Requests : reqs'[o].step = "set" /\ reqs'[o].link # None
             => links'[reqs'[o].link] = "dead"
      BY <2>1, <2>4, <2>5, <2>6 DEF AccountsInv, LinkInv
    <3>2. \A o \in Requests :
             o # r /\ reqs[o].step = "set" /\ reqs[o].link # None
             => reqs[o].link # link
      BY <1>4 DEF AccountsInv, LinkInv
    <3>3. \A o, i \in Requests :
             /\ reqs'[o].step = "set" /\ reqs'[i].step = "set"
             /\ reqs'[o].link = reqs'[i].link /\ reqs'[o].link # None
             => o = i
      BY <2>1, <2>4, <3>2 DEF AccountsInv, LinkInv
    <3>4. \A l \in Links : used'[l] > 0 =>
             /\ used'[l] = 1 /\ links'[l] = "dead"
             /\ \A o \in Requests :
                   ~(reqs'[o].step = "set" /\ reqs'[o].link = l)
      BY <1>1, <1>4, <2>1, <2>4, <2>6 DEF AccountsInv, LinkInv
    <3> QED BY <3>1, <3>3, <3>4 DEF LinkInv
  <2>8. EndsOlder(won)
    <3>1. \A s \in won.before : sessions'[s] # "free"
      BY <1>1, <2>1 DEF AccountsInv, OlderInv
    <3>2. \A l \in won.older : l \in Links /\ links'[l] # "free"
      BY <1>1, <2>1, <2>6 DEF AccountsInv, OlderInv, Request
    <3> QED BY <2>1, <3>1, <3>2 DEF EndsOlder
  <2> QED BY <1>1, <1>2, <2>1, <2>2, <2>3, <2>7, <2>8, RequestStep
<1> QED BY <1>3, <1>4 DEF Consume

\* SetPassword: the link is used for the first time, by the one request that
\* consumed it; what is live now is what the cleanup has to end.
LEMMA SetPasswordInv ==
  ASSUME AccountsInv, NEW r \in Requests, SetPassword(r)
  PROVE  AccountsInv'
<1> DEFINE link == reqs[r].link
           step == IF reqs[r].op = "change" THEN "read" ELSE "find"
           older == IF reqs[r].op = "change" THEN {} ELSE LiveLinks
           q == [reqs[r] EXCEPT !.step = step, !.pw = None, !.link = None,
                                !.before = Live, !.older = older]
<1>1. /\ reqs[r] \in Request /\ reqs[r].step = "set" /\ reqs[r].pending = {}
      /\ UNCHANGED <<links, sessions, tokens, dropped>>
  BY DEF SetPassword, AccountsInv, TypeOK, PendingInv
<1>2. /\ outran' \subseteq Sessions
      /\ dropped' \subseteq Sessions /\ Ages
  BY <1>1 DEF AccountsInv, TypeOK, Ages
<1>3. CASE End(r) /\ UNCHANGED <<hash, used>>
  BY <1>1, <1>2, <1>3, QuietEnd DEF AccountsInv, TypeOK
<1>4. CASE /\ hash' = reqs[r].pw /\ Become(r, q)
           /\ used' = [l \in Links |-> IF l = link THEN used[l] + 1
                                                   ELSE used[l]]
  <2>1. step \in {"read", "find"}
    OBVIOUS
  <2>2. /\ Live \subseteq Sessions /\ LiveLinks \subseteq Links
        /\ older \subseteq LiveLinks
    BY DEF Live, LiveLinks
  <2> HIDE DEF step, older
  <2>3. /\ q \in Request /\ q.step = step /\ q.link = None
        /\ q.pending = {} /\ q.before = Live /\ q.older \subseteq LiveLinks
    BY <1>1, <2>1, <2>2 DEF Request, Steps
  <2> HIDE DEF q
  <2>4. reqs'[r] = q /\ \A o \in Requests : o # r => reqs'[o] = reqs[o]
    BY <1>4 DEF AccountsInv, TypeOK, Become
  <2>5. hash' \in Passwords \cup {None} /\ used' \in [Links -> Nat]
    BY <1>1, <1>4 DEF AccountsInv, TypeOK, Request
  <2>6. LinkInv'
    <3>1. \A o \in Requests : reqs'[o].step = "set"
             => o # r /\ reqs'[o] = reqs[o]
      BY <2>1, <2>3, <2>4
    <3>2. \A l \in Links : used'[l] > 0 =>
             /\ used'[l] = 1 /\ links'[l] = "dead"
             /\ \A o \in Requests :
                   ~(reqs'[o].step = "set" /\ reqs'[o].link = l)
      <4> SUFFICES ASSUME NEW l \in Links, used'[l] > 0
                   PROVE  /\ used'[l] = 1 /\ links'[l] = "dead"
                          /\ \A o \in Requests :
                                ~(reqs'[o].step = "set" /\ reqs'[o].link = l)
        OBVIOUS
      <4>1. CASE l = link
        <5>1. used[l] = 0 /\ links[l] = "dead"
          BY <1>1, <4>1, NoneAssumption DEF AccountsInv, TypeOK, LinkInv
        <5>2. \A o \in Requests : o # r => ~(/\ reqs[o].step = "set"
                                             /\ reqs[o].link = l)
          BY <1>1, <4>1, NoneAssumption DEF AccountsInv, LinkInv
        <5> QED BY <1>1, <1>4, <3>1, <4>1, <5>1, <5>2
      <4>2. CASE l # link
        <5>1. used'[l] = used[l]
          BY <1>4, <4>2
        <5> QED BY <1>1, <3>1, <5>1 DEF AccountsInv, LinkInv
      <4> QED BY <4>1, <4>2
    <3> QED BY <1>1, <3>1, <3>2 DEF AccountsInv, LinkInv
  <2>7. EndsOlder(q)
    BY <1>1, <2>1, <2>3 DEF EndsOlder, Live, LiveLinks
  <2> QED BY <1>1, <1>2, <1>4, <2>1, <2>3, <2>5, <2>6, <2>7, RequestStep
<1> QED BY <1>3, <1>4 DEF SetPassword

\* The step after UpdateUser.
LEMMA AfterSaveType ==
  ASSUME NEW op PROVE AfterSave(op) \in {"revoke", "invalidate"}
  BY DEF AfterSave

\* A failed cleanup forgets what it had to end and drops nothing silently.
LEMMA FailToInv ==
  ASSUME AccountsInv, NEW r \in Requests, NEW st \in Steps, FailTo(r, st),
         st # "set", reqs[r].pending = {},
         UNCHANGED <<hash, links, sessions, tokens, used, dropped>>
  PROVE  AccountsInv'
<1> DEFINE q == [reqs[r] EXCEPT !.step = st, !.hash = None,
                                !.before = {}, !.older = {}]
<1>1. reqs[r] \in Request
  BY DEF AccountsInv, TypeOK
<1>2. /\ q \in Request /\ q.step = st /\ q.pending = {}
      /\ q.before = {} /\ q.older = {}
  BY <1>1 DEF Request
<1>3. Become(r, q)
  BY DEF FailTo
<1> HIDE DEF q
<1>4. /\ hash' \in Passwords \cup {None}
      /\ dropped' \subseteq Sessions /\ EndsOlder(q)
  BY <1>2 DEF AccountsInv, TypeOK, EndsOlder
<1> QED BY <1>2, <1>3, <1>4, QuietStep

\* The statements of UpdateUser.
LEMMA UpdateUserInv ==
  ASSUME AccountsInv, NEW r \in Requests,
         FindUser(r) \/ UpdateRead(r) \/ UpdateSave(r)
  PROVE  AccountsInv'
<1> DEFINE after == AfterSave(reqs[r].op)
           found == [reqs[r] EXCEPT !.step = "read"]
           read == [reqs[r] EXCEPT !.step = "save", !.hash = hash]
           saved == [reqs[r] EXCEPT !.step = after, !.hash = None]
<1>1. /\ reqs[r] \in Request /\ reqs[r].step \in {"find", "read", "save"}
      /\ UNCHANGED <<links, sessions, tokens, used, dropped>>
  BY DEF FindUser, UpdateRead, UpdateSave, AccountsInv, TypeOK
<1>2. reqs[r].pending = {}
  BY <1>1 DEF AccountsInv, PendingInv
<1>3. /\ after \in {"revoke", "invalidate"}
      /\ after = "revoke" <=> reqs[r].op = "change"
  BY DEF AfterSave
<1>4. /\ hash' \in Passwords \cup {None}
      /\ dropped' \subseteq Sessions
  BY <1>1 DEF FindUser, UpdateRead, UpdateSave, AccountsInv, TypeOK, Request
<1>5. CASE End(r)
  BY <1>1, <1>2, <1>4, <1>5, QuietEnd
<1>6. CASE FailTo(r, after) /\ UNCHANGED hash
  BY <1>1, <1>2, <1>3, <1>6, FailToInv DEF Steps
<1> HIDE DEF after
<1>7. CASE Become(r, found) \/ Become(r, read) \/ Become(r, saved)
  <2>1. PICK q : /\ Become(r, q)
                 /\ q \in {found, read, saved}
    BY <1>7
  <2>2. /\ q \in Request /\ q.step \in {"read", "save", after}
        /\ q.op = reqs[r].op /\ q.pending = {}
        /\ q.before = reqs[r].before /\ q.older = reqs[r].older
    <3>1. hash \in Passwords \cup {None}
      BY DEF AccountsInv, TypeOK
    <3>2. CASE q = found
      BY <1>1, <1>2, <3>2 DEF Request, Steps
    <3>3. CASE q = read
      BY <1>1, <1>2, <3>1, <3>3 DEF Request, Steps
    <3>4. CASE q = saved
      BY <1>1, <1>2, <1>3, <3>4 DEF Request, Steps
    <3> QED BY <2>1, <3>2, <3>3, <3>4
  <2> HIDE DEF found, read, saved
  <2>3. EndsOlder(q)
    BY <1>1, <1>3, <2>2 DEF EndsOlder, AccountsInv, OlderInv
  <2> QED BY <1>1, <1>2, <1>3, <1>4, <2>1, <2>2, <2>3, QuietStep
<1> QED BY <1>5, <1>6, <1>7 DEF FindUser, UpdateRead, UpdateSave, Goto, after

\* No link is live after InvalidateForUser.
LEMMA InvalidateInv ==
  ASSUME AccountsInv, NEW r \in Requests, InvalidateForUser(r)
  PROVE  AccountsInv'
<1> DEFINE after == AfterInvalidate(reqs[r].op)
           q == [reqs[r] EXCEPT !.step = after]
<1>1. /\ reqs[r] \in Request /\ reqs[r].step = "invalidate"
      /\ UNCHANGED <<hash, sessions, tokens, used, dropped>>
  BY DEF InvalidateForUser, AccountsInv, TypeOK
<1>2. reqs[r].pending = {}
  BY <1>1 DEF AccountsInv, PendingInv
<1>3. after \in {"create", "delete", "revoke"}
  BY DEF AfterInvalidate
<1>4. Become(r, q)
  BY DEF InvalidateForUser, Goto
<1> HIDE DEF after
<1>5. /\ q \in Request /\ q.step = after /\ q.pending = {}
      /\ q.before = reqs[r].before /\ q.older = reqs[r].older
  BY <1>1, <1>2, <1>3 DEF Request, Steps
<1> HIDE DEF q
<1>6. /\ hash' \in Passwords \cup {None}
      /\ used' \in [Links -> Nat] /\ outran' \subseteq Sessions
      /\ dropped' \subseteq Sessions
  BY <1>1 DEF AccountsInv, TypeOK
<1>7. Ages /\ \A l \in Links : links'[l] # "live"
  BY <1>1 DEF InvalidateForUser, AccountsInv, TypeOK, Ages
<1>8. LinkInv'
  BY <1>1, <1>3, <1>4, <1>5, <1>7, LinkStep
<1>9. EndsOlder(q)
  <2>1. \A s \in q.before : sessions'[s] # "free"
    BY <1>1, <1>5 DEF AccountsInv, OlderInv
  <2>2. \A l \in q.older : links'[l] # "free" /\ links'[l] # "live"
    BY <1>1, <1>5, <1>7 DEF AccountsInv, OlderInv, Ages, Request
  <2> QED BY <1>3, <1>5, <2>1, <2>2 DEF EndsOlder
<1> QED BY <1>1, <1>2, <1>4, <1>5, <1>6, <1>7, <1>8, <1>9, RequestStep

\* Every session RevokeByUserIDExcept revokes is pending for the cascade, and
\* afterwards no session but the kept one is live.
LEMMA RevokeByUserInv ==
  ASSUME AccountsInv, NEW r \in Requests, RevokeByUserIDExcept(r)
  PROVE  AccountsInv'
<1> DEFINE ids == Live \ {reqs[r].keep}
           q == [reqs[r] EXCEPT !.step = "chains", !.pending = ids]
<1>1. /\ reqs[r] \in Request /\ reqs[r].step = "revoke"
      /\ Become(r, q)
      /\ UNCHANGED <<hash, links, tokens, used, dropped>>
  BY DEF RevokeByUserIDExcept, AccountsInv, TypeOK
<1>2. reqs[r].pending = {}
  BY <1>1 DEF AccountsInv, PendingInv
<1>3. ids \subseteq Sessions
  BY DEF Live
<1>4. \A s \in Sessions :
         /\ sessions'[s] = IF s \in ids THEN "revoked" ELSE sessions[s]
         /\ sessions[s] = "live" /\ s # reqs[r].keep => s \in ids
         /\ s \in ids => sessions[s] = "live"
  BY DEF RevokeByUserIDExcept, Live
<1>5. sessions' \in [Sessions -> {"free", "live", "expired", "revoked"}]
  BY DEF RevokeByUserIDExcept, AccountsInv, TypeOK
<1> HIDE DEF ids
<1>6. /\ q \in Request /\ q.step = "chains" /\ q.pending = ids
      /\ q.op = reqs[r].op /\ q.keep = reqs[r].keep
      /\ q.before = reqs[r].before /\ q.older = reqs[r].older
  BY <1>1, <1>3 DEF Request, Steps
<1> HIDE DEF q
<1>7. /\ hash' \in Passwords \cup {None}
      /\ used' \in [Links -> Nat] /\ outran' \subseteq Sessions
      /\ dropped' \subseteq Sessions
  BY <1>1 DEF AccountsInv, TypeOK
<1>8. Ages
  BY <1>1, <1>4, <1>5 DEF AccountsInv, TypeOK, Ages
<1>9. LinkInv'
  BY <1>1, <1>6, <1>8, LinkStep
<1>10. EndsOlder(q)
  <2>1. \A s \in q.before : s \in Sessions /\ sessions[s] # "free"
    BY <1>1, <1>6 DEF AccountsInv, OlderInv, Request
  <2>2. \A l \in q.older : /\ links[l] # "free"
                           /\ q.op # "change" => links[l] # "live"
    BY <1>1, <1>6 DEF AccountsInv, OlderInv
  <2>3. \A s \in q.before : /\ sessions'[s] # "free"
                            /\ s # q.keep => sessions'[s] # "live"
    BY <1>4, <1>6, <2>1
  <2>4. \A l \in q.older : /\ links'[l] # "free"
                           /\ q.op # "change" => links'[l] # "live"
    BY <1>1, <2>2
  <2> QED BY <2>3, <2>4 DEF EndsOlder
<1> QED BY <1>1, <1>2, <1>4, <1>6, <1>7, <1>8, <1>9, <1>10, RequestStep

\* One session of the cascade is done, or given up.
LEMMA RevokeChainInv ==
  ASSUME AccountsInv, NEW r \in Requests, RevokeChain(r)
  PROVE  AccountsInv'
<1>1. PICK s \in reqs[r].pending :
         /\ granted' = granted \ {s}
         /\ dropped' = dropped \ {s}
         /\ outran' = IF grants[s] = "none" THEN outran \ {s}
                                            ELSE outran \cup {s}
         /\ Become(r, [reqs[r] EXCEPT !.pending = @ \ {s}])
  BY DEF RevokeChain
<1> DEFINE q == [reqs[r] EXCEPT !.pending = @ \ {s}]
<1>2. /\ reqs[r] \in Request /\ reqs[r].step = "chains"
      /\ UNCHANGED <<hash, links, sessions, grants, used>>
  BY DEF RevokeChain, AccountsInv, TypeOK
<1>3. /\ q \in Request /\ q.step = "chains"
      /\ q.pending = reqs[r].pending \ {s}
      /\ q.op = reqs[r].op /\ q.keep = reqs[r].keep
      /\ q.before = reqs[r].before /\ q.older = reqs[r].older
  BY <1>2 DEF Request
<1> HIDE DEF q
<1>4. Become(r, q)
  BY <1>1 DEF q
<1>5. /\ hash' \in Passwords \cup {None}
      /\ used' \in [Links -> Nat] /\ Ages
      /\ dropped' \subseteq Sessions /\ outran' \subseteq Sessions
  BY <1>1, <1>2 DEF AccountsInv, TypeOK, Ages, Request
<1>6. LinkInv'
  BY <1>2, <1>3, <1>4, <1>5, LinkStep
<1>7. EndsOlder(q)
  BY <1>2, <1>3 DEF EndsOlder, AccountsInv, OlderInv
<1> QED BY <1>1, <1>2, <1>3, <1>4, <1>5, <1>6, <1>7, RequestStep

LEMMA ChainsRevokedInv ==
  ASSUME AccountsInv, NEW r \in Requests, ChainsRevoked(r)
  PROVE  AccountsInv'
<1>1. /\ reqs[r] \in Request /\ reqs[r].step = "chains"
      /\ reqs[r].pending = {}
      /\ UNCHANGED <<hash, links, sessions, tokens, used, dropped>>
  BY DEF ChainsRevoked, AccountsInv, TypeOK
<1>2. /\ hash' \in Passwords \cup {None}
      /\ dropped' \subseteq Sessions
  BY <1>1 DEF AccountsInv, TypeOK
<1>3. CASE End(r)
  BY <1>1, <1>2, <1>3, QuietEnd
<1>4. ASSUME NEW st \in {"invalidate", "done"}, Goto(r, st)
      PROVE  AccountsInv'
  <2> DEFINE q == [reqs[r] EXCEPT !.step = st]
  <2>1. /\ q \in Request /\ q.step = st /\ q.pending = {}
        /\ q.op = reqs[r].op /\ q.keep = reqs[r].keep
        /\ q.before = reqs[r].before /\ q.older = reqs[r].older
    BY <1>1 DEF Request, Steps
  <2>2. Become(r, q)
    BY <1>4 DEF Goto
  <2> HIDE DEF q
  <2>3. EndsOlder(q)
    BY <1>1, <2>1 DEF EndsOlder, AccountsInv, OlderInv
  <2> QED BY <1>1, <1>2, <2>1, <2>2, <2>3, QuietStep
<1>5. End(r) \/ Goto(r, "invalidate") \/ Goto(r, "done")
  BY DEF ChainsRevoked, AfterChains
<1> QED BY <1>3, <1>4, <1>5

\* A handler that returns, or that fails and gives up its cascade.
LEMMA EndsInv ==
  ASSUME AccountsInv, NEW r \in Requests,
         DeleteUser(r) \/ Answer(r) \/ Abort(r)
  PROVE  AccountsInv'
<1>1. End(r) /\ hash' \in Passwords \cup {None}
  BY DEF DeleteUser, Answer, Abort, AccountsInv, TypeOK
<1>2. CASE DeleteUser(r) \/ Answer(r)
  <2>1. UNCHANGED <<links, sessions, tokens, used>>
    BY <1>2 DEF DeleteUser, Answer
  <2>2. dropped' = dropped \cup reqs[r].pending
    BY <1>2 DEF DeleteUser, Answer, AccountsInv, PendingInv
  <2> QED BY <1>1, <2>1, <2>2, QuietEnd
<1>3. CASE Abort(r)
  <2>1. UNCHANGED <<links, sessions, granted, grants, used>>
    BY <1>3 DEF Abort
  <2>2. /\ dropped' \subseteq Sessions /\ dropped \subseteq dropped'
        /\ outran' \subseteq Sessions /\ outran \subseteq outran'
        /\ \A s \in reqs[r].pending : \/ s \in dropped' \cup outran'
                                      \/ s \notin granted /\ grants[s] = "none"
    BY <1>3 DEF Abort, GiveUpCascade, AccountsInv, TypeOK, Request
  <2>3. /\ Idle.step = "idle" /\ Idle.pending = {}
        /\ Idle.before = {} /\ Idle.older = {}
    BY DEF Idle
  <2> QED BY <1>1, <2>1, <2>2, <2>3, IdleType, HistoryStep DEF End, EndsOlder
<1> QED BY <1>2, <1>3

LEMMA CleanupFailsInv ==
  ASSUME AccountsInv, NEW r \in Requests, CleanupFails(r)
  PROVE  AccountsInv'
<1>1. /\ reqs[r] \in Request
      /\ UNCHANGED <<hash, links, sessions, granted, grants, used>>
  BY DEF CleanupFails, AccountsInv, TypeOK
<1>2. ASSUME NEW st \in {"revoke", "invalidate", "chains"}, FailTo(r, st),
             reqs[r].step # "chains", UNCHANGED <<dropped, outran>>
      PROVE  AccountsInv'
  <2>1. reqs[r].pending = {}
    BY <1>2 DEF AccountsInv, PendingInv
  <2> QED BY <1>1, <1>2, <2>1, FailToInv DEF Steps
<1>3. ASSUME NEW lost \in SUBSET reqs[r].pending, reqs[r].step = "chains",
             Become(r, [reqs[r] EXCEPT !.pending = @ \ lost,
                          !.before = {}, !.older = {}]),
             GiveUpCascade(lost)
      PROVE  AccountsInv'
  <2> DEFINE q == [reqs[r] EXCEPT !.pending = @ \ lost,
                     !.before = {}, !.older = {}]
  <2>1. /\ q \in Request /\ q.step = "chains"
        /\ q.pending = reqs[r].pending \ lost
        /\ q.before = {} /\ q.older = {}
    BY <1>1, <1>3 DEF Request
  <2> HIDE DEF q
  <2>2. Become(r, q)
    BY <1>3 DEF q
  <2>3. /\ hash' \in Passwords \cup {None}
        /\ dropped' \subseteq Sessions /\ dropped \subseteq dropped'
        /\ outran' \subseteq Sessions /\ outran \subseteq outran'
        /\ \A s \in reqs[r].pending :
              \/ s \in q.pending \cup dropped' \cup outran'
              \/ s \notin granted /\ grants[s] = "none"
    BY <1>1, <1>3, <2>1 DEF GiveUpCascade, AccountsInv, TypeOK, Request
  <2>4. EndsOlder(q)
    BY <2>1 DEF EndsOlder
  <2> QED BY <1>1, <1>3, <2>1, <2>2, <2>3, <2>4, HistoryStep
<1>4. CASE reqs[r].step = "chains"
  <2>1. PICK s \in reqs[r].pending :
          LET lost == IF reqs[r].op = "change" THEN reqs[r].pending
                                               ELSE {s} IN
          /\ Become(r, [reqs[r] EXCEPT !.pending = @ \ lost,
                          !.before = {}, !.older = {}])
          /\ GiveUpCascade(lost)
    BY <1>4 DEF CleanupFails
  <2> DEFINE lost == IF reqs[r].op = "change" THEN reqs[r].pending ELSE {s}
  <2>2. lost \in SUBSET reqs[r].pending
    OBVIOUS
  <2> QED BY <1>3, <1>4, <2>1, <2>2
<1>5. CASE reqs[r].step # "chains"
  <2>1. \E st \in {"revoke", "invalidate", "chains"} : FailTo(r, st)
    BY <1>5, AfterSaveType DEF CleanupFails
  <2>2. UNCHANGED <<dropped, outran>>
    BY <1>5 DEF CleanupFails
  <2> QED BY <1>2, <1>5, <2>1, <2>2
<1> QED BY <1>4, <1>5

LEMMA NextInv == AccountsInv /\ [Next]_vars => AccountsInv'
<1> SUFFICES ASSUME AccountsInv, [Next]_vars PROVE AccountsInv'
  OBVIOUS
<1>1. CASE UNCHANGED vars
  BY <1>1 DEF vars, AccountsInv, TypeOK, LinkInv, PendingInv, OlderInv,
              ChainsFollowSessions
<1>2. ASSUME NEW r \in Requests, Handle(r) PROVE AccountsInv'
  BY <1>2, BeginsInv, RevokeSessionInv, InsertInv, ConsumeInv,
     SetPasswordInv, UpdateUserInv, InvalidateInv, RevokeByUserInv,
     RevokeChainInv, ChainsRevokedInv, EndsInv, CleanupFailsInv DEF Handle
<1> QED BY <1>1, <1>2, OutsideInv DEF Next

\* The inductive invariant holds in every reachable state: a consumed link has
\* one owner, only a cascade has sessions pending, and what was live when the
\* password was set is ended by the statement that answers for it.
THEOREM AccountsSafe == Spec => []AccountsInv
  BY InitInv, NextInv, PTL DEF Spec

\* A reset link sets the password at most once, for any number of requests
\* that race on it (PasswordResetStore.Consume before SetPassword).
THEOREM LinksSingleUse == Spec => []LinkUsedOnce
<1>1. AccountsInv => LinkUsedOnce
  BY DEF AccountsInv, TypeOK, LinkInv, LinkUsedOnce
<1> QED BY <1>1, AccountsSafe, PTL

\* A password change that answers without a failed cleanup has ended every
\* older session but its caller's, and, if it is not the profile page's, every
\* older reset link.
THEOREM ChangesEndAccess == Spec => []ChangeEndsOlderAccess
<1>1. AccountsInv => ChangeEndsOlderAccess
  BY DEF AccountsInv, OlderInv, ChangeEndsOlderAccess, Live, LiveLinks
<1> QED BY <1>1, AccountsSafe, PTL

\* A revoked session has no live refresh token and can get none, unless its
\* cascade is still running, a failure has cut it short, or a code or a token
\* request of the session was under way when it ran (admin/api.go, deleteUser and
\* setUserPassword; oidc/reset_password.go; oidc/profile.go).
THEOREM CascadesComplete == Spec => []ChainsFollowSessions
<1>1. AccountsInv => ChainsFollowSessions
  BY DEF AccountsInv
<1> QED BY <1>1, AccountsSafe, PTL
=============================================================================
