------------------------------ MODULE Accounts ------------------------------
(***************************************************************************)
(* One account: its password, its password reset links, its sessions and   *)
(* the refresh token chains that hang from them, under the handlers that   *)
(* change them: sign-in (oidc/login.go), forgotten and reset password      *)
(* (oidc/forgot_password.go, oidc/reset_password.go), the profile page     *)
(* (oidc/profile.go) and the admin API's user operations (admin/api.go).   *)
(*                                                                         *)
(* A handler is a sequence of database statements, each committed by       *)
(* itself; an action below is one statement together with the code up to   *)
(* the next one.  Every statement is keyed by the id of one user, so one   *)
(* account is modelled; a password stands for its bcrypt hash.  Requests   *)
(* that are refused before their first statement change nothing and are    *)
(* left out, and so are the throttles (store.LoginAttemptTracker).         *)
(***************************************************************************)
EXTENDS Naturals, FiniteSets

CONSTANTS
    Requests,       \* concurrent handlers
    Passwords,
    Links,          \* rows of password_reset_tokens
    Sessions,       \* rows of sessions
    None,           \* no row, no value
    StoreMayFail,   \* whether a statement may fail and a process may die
    Granting        \* sessions under which clients ask for tokens

ASSUME NoneAssumption == None \notin Passwords \cup Links \cup Sessions
ASSUME SwitchAssumption == StoreMayFail \in BOOLEAN /\ Granting \subseteq Sessions

VARIABLES
    hash,       \* the password_hash of the users row, None without a row
    links,      \* per reset link "free", "live" or "dead": consumed,
                \* expired and deleted rows are refused alike
    sessions,   \* per session "free", "live", "expired" or "revoked"
    granted,    \* sessions with a live refresh token in their chain
    grants,     \* per session how far the furthest of the requests has come
                \* that may store a refresh token of it
    reqs,       \* the requests in flight
    used,       \* history: how often a link has set the password
    dropped,    \* history: sessions whose last cascade to the refresh tokens was
                \* given up after a failure and left a live one
    outran      \* history: sessions whose last cascade ran, or was given up, while
                \* a code or a token request of theirs was under way

\* The refresh tokens, which handlers touch only in their cascades.
tokens == <<granted, grants, outran>>

vars == <<hash, links, sessions, tokens, reqs, used, dropped>>

-----------------------------------------------------------------------------
Ops == {"login", "forgot", "reset", "change", "update", "delete", "one",
        "others"}

Steps == {"idle", "store", "invalidate", "create", "consume", "set", "find",
          "read", "save", "revoke", "chains", "delete", "done"}

\* "claim": a code is out or about to be, or a refresh has read its token;
\* "due": a request has found the user and goes on to store a token.
Grants == {"none", "claim", "due"}

\* The local variables of a handler.  before and older are history: the sessions
\* and the links that were live when the handler set the password and that it has
\* to end, empty once a cleanup has failed and the answer will say so.
Request == [op : Ops, step : Steps, pw : Passwords \cup {None},
            link : Links \cup {None}, keep : Sessions \cup {None},
            hash : Passwords \cup {None}, pending : SUBSET Sessions,
            before : SUBSET Sessions, older : SUBSET Links]

Idle == [op |-> "login", step |-> "idle", pw |-> None, link |-> None,
         keep |-> None, hash |-> None, pending |-> {},
         before |-> {}, older |-> {}]

\* The type invariant: rows of users, password_reset_tokens and sessions as
\* gormstore/entities.go declares them, and the locals of the handlers.
TypeOK ==
    /\ hash \in Passwords \cup {None}
    /\ links \in [Links -> {"free", "live", "dead"}]
    /\ sessions \in [Sessions -> {"free", "live", "expired", "revoked"}]
    /\ granted \subseteq Sessions
    /\ grants \in [Sessions -> Grants]
    /\ reqs \in [Requests -> Request]
    /\ used \in [Links -> Nat]
    /\ dropped \subseteq Sessions
    /\ outran \subseteq Sessions

\* The account may or may not exist; it has no session and no link yet.
Init ==
    /\ hash \in Passwords \cup {None}
    /\ links = [l \in Links |-> "free"]
    /\ sessions = [s \in Sessions |-> "free"]
    /\ granted = {}
    /\ grants = [s \in Sessions |-> "none"]
    /\ reqs = [r \in Requests |-> Idle]
    /\ used = [l \in Links |-> 0]
    /\ dropped = {}
    /\ outran = {}

Live == {s \in Sessions : sessions[s] = "live"}
LiveLinks == {l \in Links : links[l] = "live"}

Become(r, req) == reqs' = [reqs EXCEPT ![r] = req]

Begin(r, req) == reqs[r].step = "idle" /\ Become(r, req)

Goto(r, step) == Become(r, [reqs[r] EXCEPT !.step = step])
End(r) == Become(r, Idle)

\* A cleanup statement failed: it is logged and the handler goes on.
FailTo(r, step) ==
    Become(r, [reqs[r] EXCEPT
                 !.step = step, !.hash = None, !.before = {}, !.older = {}])

\* Mutant: the older links are forgotten.
AfterSaveNoInvalidate(op) == "revoke"

\* The step after UpdateUser: changePassword leaves reset links alone.
AfterSave(op) == IF op = "change" THEN "revoke" ELSE "invalidate"

\* The step after InvalidateForUser.
AfterInvalidate(op) ==
    CASE op = "forgot" -> "create"
      [] op = "delete" -> "delete"
      [] OTHER -> "revoke"

\* Ids are drawn from a bounded supply: a handler that will insert a row
\* starts only while one is left for it.
RowLeft(rows, op) ==
    Cardinality({q \in Requests : reqs[q].op = op /\ reqs[q].step # "idle"})
        < Cardinality({x \in DOMAIN rows : rows[x] = "free"})

-----------------------------------------------------------------------------
(* Time and the token endpoint.                                            *)

\* A session runs out; the refresh tokens issued under it do not.
SessionExpires(s) ==
    /\ sessions[s] = "live"
    /\ sessions' = [sessions EXCEPT ![s] = "expired"]
    /\ UNCHANGED <<hash, links, tokens, reqs, used, dropped>>

LinkExpires(l) ==
    /\ links[l] = "live"
    /\ links' = [links EXCEPT ![l] = "dead"]
    /\ UNCHANGED <<hash, sessions, tokens, reqs, used, dropped>>

\* The authorization endpoint has resolved the session and will store a code,
\* or a refresh reads a live token of the chain.
ClaimTokens(s) ==
    /\ s \in Granting /\ grants[s] = "none"
    /\ sessions[s] = "live" \/ s \in granted
    /\ grants' = [grants EXCEPT ![s] = "claim"]
    /\ UNCHANGED <<hash, links, sessions, granted, outran, reqs, used, dropped>>

\* The request has consumed the code or the token and looks the user up.
FindGrantee(s) ==
    /\ grants[s] = "claim"
    /\ hash # None
    /\ grants' = [grants EXCEPT ![s] = "due"]
    /\ UNCHANGED <<hash, links, sessions, granted, outran, reqs, used, dropped>>

\* The refresh token is stored; nothing looks at the session again, revoked or
\* not.  Other requests of the session may be as far or behind.
GrantTokens(s) ==
    /\ grants[s] = "due"
    /\ granted' = granted \cup {s}
    /\ \E g \in Grants : grants' = [grants EXCEPT ![s] = g]
    /\ UNCHANGED <<hash, links, sessions, outran, reqs, used, dropped>>

\* The furthest request is refused, fails or dies, or its code runs out.
GiveUpGrant(s) ==
    /\ \/ grants[s] # "none" /\ grants' = [grants EXCEPT ![s] = "none"]
       \/ grants[s] = "due" /\ grants' = [grants EXCEPT ![s] = "claim"]
    /\ UNCHANGED <<hash, links, sessions, granted, outran, reqs, used, dropped>>

\* The live token of the chain is consumed by a refresh, or revoked by its
\* client or after a reuse.
TokensEnd(s) ==
    /\ s \in granted
    /\ granted' = granted \ {s}
    /\ UNCHANGED <<hash, links, sessions, grants, outran, reqs, used, dropped>>

-----------------------------------------------------------------------------
(* Sign-in and account creation.                                           *)

\* createUser with the id of the account (admin API; a registration always
\* draws a new id).
CreateUser(p) ==
    /\ hash = None
    /\ hash' = p
    /\ UNCHANGED <<links, sessions, tokens, reqs, used, dropped>>

\* ValidateCredentials finds the password correct.
LoginValidate(r, p) ==
    /\ hash = p
    /\ RowLeft(sessions, "login")
    /\ Begin(r, [Idle EXCEPT !.step = "store"])
    /\ UNCHANGED <<hash, links, sessions, tokens, used, dropped>>

\* The session row is inserted under a fresh id.
LoginStore(r) ==
    /\ reqs[r].step = "store"
    /\ \E s \in Sessions :
          /\ sessions[s] = "free"
          /\ sessions' = [sessions EXCEPT ![s] = "live"]
    /\ End(r)
    /\ UNCHANGED <<hash, links, tokens, used, dropped>>

-----------------------------------------------------------------------------
(* The beginnings of the other handlers.                                   *)

\* findUser matches the account and the throttle lets the request pass.
\* DeleteExpired only removes rows that are dead already.
ForgotFind(r) ==
    /\ hash # None
    /\ RowLeft(links, "forgot")
    /\ Begin(r, [Idle EXCEPT !.op = "forgot", !.step = "invalidate"])
    /\ UNCHANGED <<hash, links, sessions, tokens, used, dropped>>

\* The second lookup of handlePost, after the form was validated.
ResetLookup(r, l, p) ==
    /\ links[l] = "live"
    /\ Begin(r, [Idle EXCEPT !.op = "reset", !.step = "consume",
                             !.link = l, !.pw = p])
    /\ UNCHANGED <<hash, links, sessions, tokens, used, dropped>>

\* changePassword of the signed-in session s: the current password is
\* correct and the new one differs from it.
ChangeValidate(r, s, p) ==
    /\ sessions[s] = "live"
    /\ hash \notin {None, p}
    /\ Begin(r, [Idle EXCEPT !.op = "change", !.step = "set",
                             !.keep = s, !.pw = p])
    /\ UNCHANGED <<hash, links, sessions, tokens, used, dropped>>

\* setUserPassword begins with its write and goes on as a reset does.
AdminBegin(r, p) ==
    /\ Begin(r, [Idle EXCEPT !.op = "reset", !.step = "set", !.pw = p])
    /\ UNCHANGED <<hash, links, sessions, tokens, used, dropped>>

\* updateUser and unlockUser find the account.
UpdateFind(r) ==
    /\ hash # None
    /\ Begin(r, [Idle EXCEPT !.op = "update", !.step = "read"])
    /\ UNCHANGED <<hash, links, sessions, tokens, used, dropped>>

DeleteBegin(r) ==
    /\ Begin(r, [Idle EXCEPT !.op = "delete", !.step = "revoke"])
    /\ UNCHANGED <<hash, links, sessions, tokens, used, dropped>>

RevokeOthersBegin(r, s) ==
    /\ sessions[s] = "live"
    /\ Begin(r, [Idle EXCEPT !.op = "others", !.step = "revoke",
                             !.keep = s])
    /\ UNCHANGED <<hash, links, sessions, tokens, used, dropped>>

\* revokeSession of another session t, seen from session s: Sessions.Revoke
\* answers not found for a revoked row, which the handler tolerates.
RevokeSession(r, s, t) ==
    /\ sessions[s] = "live"
    /\ t # s /\ sessions[t] # "free"
    /\ Begin(r, [Idle EXCEPT !.op = "one", !.step = "chains", !.pending = {t}])
    /\ sessions' = [sessions EXCEPT ![t] = "revoked"]
    /\ UNCHANGED <<hash, links, tokens, used, dropped>>

-----------------------------------------------------------------------------
(* The statements they share.                                              *)

\* Mutant: the link is looked up and marked without a compare-and-set.
ConsumeNoCAS(r) ==
    /\ reqs[r].step = "consume"
    /\ links' = [links EXCEPT ![reqs[r].link] = "dead"]
    /\ Goto(r, "set")
    /\ UNCHANGED <<hash, sessions, tokens, used, dropped>>

\* Consume: one conditional UPDATE; the loser is answered "invalid".
Consume(r) ==
    /\ reqs[r].step = "consume"
    /\ \/ /\ links[reqs[r].link] = "live"
          /\ links' = [links EXCEPT ![reqs[r].link] = "dead"]
          /\ Goto(r, "set")
       \/ /\ links[reqs[r].link] # "live"
          /\ End(r)
          /\ UNCHANGED links
    /\ UNCHANGED <<hash, sessions, tokens, used, dropped>>

\* SetPassword: an UPDATE of one column; without a row the handler ends.
SetPassword(r) ==
    /\ reqs[r].step = "set"
    /\ \/ /\ hash # None
          /\ hash' = reqs[r].pw
          /\ used' = [l \in Links |-> IF l = reqs[r].link THEN used[l] + 1
                                                          ELSE used[l]]
          /\ Become(r, [reqs[r] EXCEPT
                !.step = IF reqs[r].op = "change" THEN "read" ELSE "find",
                !.pw = None, !.link = None,
                !.before = Live,
                !.older = IF reqs[r].op = "change" THEN {} ELSE LiveLinks])
       \/ /\ hash = None
          /\ End(r)
          /\ UNCHANGED <<hash, used>>
    /\ UNCHANGED <<links, sessions, tokens, dropped>>

\* FindUserByID before the security stamp is rotated; a missing row skips
\* the rotation and is noted as a failed cleanup.
FindUser(r) ==
    /\ reqs[r].step = "find"
    /\ IF hash # None
       THEN Goto(r, "read")
       ELSE FailTo(r, AfterSave(reqs[r].op))
    /\ UNCHANGED <<hash, links, sessions, tokens, used, dropped>>

\* UpdateUser, first statement: the existing row, for its password hash.
UpdateRead(r) ==
    /\ reqs[r].step = "read"
    /\ IF hash # None
       THEN Become(r, [reqs[r] EXCEPT !.step = "save", !.hash = hash])
       ELSE IF reqs[r].op = "update"
            THEN End(r)
            ELSE FailTo(r, AfterSave(reqs[r].op))
    /\ UNCHANGED <<hash, links, sessions, tokens, used, dropped>>

\* UpdateUser, second statement: Save writes every column, the hash that was
\* read included, and inserts the row if it is missing (gorm's Save).
UpdateSave(r) ==
    /\ reqs[r].step = "save"
    /\ hash' = reqs[r].hash
    /\ IF reqs[r].op = "update"
       THEN End(r)
       ELSE Become(r, [reqs[r] EXCEPT !.step = AfterSave(reqs[r].op),
                                      !.hash = None])
    /\ UNCHANGED <<links, sessions, tokens, used, dropped>>

\* InvalidateForUser consumes every outstanding link.
InvalidateForUser(r) ==
    /\ reqs[r].step = "invalidate"
    /\ links' = [l \in Links |-> IF links[l] = "live" THEN "dead"
                                                      ELSE links[l]]
    /\ Goto(r, AfterInvalidate(reqs[r].op))
    /\ UNCHANGED <<hash, sessions, tokens, used, dropped>>

\* The link that is mailed: stored after the older ones were invalidated.
ForgotCreate(r) ==
    /\ reqs[r].step = "create"
    /\ \E l \in Links :
          /\ links[l] = "free"
          /\ links' = [links EXCEPT ![l] = "live"]
    /\ End(r)
    /\ UNCHANGED <<hash, sessions, tokens, used, dropped>>

\* Mutant: the ids are not returned, so nothing cascades.
RevokeByUserIDOnly(r) ==
    /\ reqs[r].step = "revoke"
    /\ sessions' = [s \in Sessions |->
                       IF s \in Live \ {reqs[r].keep} THEN "revoked"
                                                     ELSE sessions[s]]
    /\ Goto(r, "chains")
    /\ UNCHANGED <<hash, links, tokens, used, dropped>>

\* RevokeByUserIDExcept: one transaction over the sessions that are neither
\* revoked nor expired; their ids are kept for the cascade.
RevokeByUserIDExcept(r) ==
    /\ reqs[r].step = "revoke"
    /\ LET ids == Live \ {reqs[r].keep} IN
       /\ sessions' = [s \in Sessions |-> IF s \in ids THEN "revoked"
                                                       ELSE sessions[s]]
       /\ Become(r, [reqs[r] EXCEPT !.step = "chains", !.pending = ids])
    /\ UNCHANGED <<hash, links, tokens, used, dropped>>

\* RevokeBySessionID for the next of the revoked sessions.
RevokeChain(r) ==
    /\ reqs[r].step = "chains"
    /\ \E s \in reqs[r].pending :
          /\ granted' = granted \ {s}
          /\ dropped' = dropped \ {s}
          /\ outran' = IF grants[s] = "none" THEN outran \ {s}
                                             ELSE outran \cup {s}
          /\ Become(r, [reqs[r] EXCEPT !.pending = @ \ {s}])
    /\ UNCHANGED <<hash, links, sessions, grants, used>>

\* deleteUser goes on; the others answer.
AfterChains(r) ==
    CASE reqs[r].op = "delete" -> Goto(r, "invalidate")
      [] reqs[r].op \in {"reset", "change"} -> Goto(r, "done")
      [] OTHER -> End(r)

ChainsRevoked(r) ==
    /\ reqs[r].step = "chains"
    /\ reqs[r].pending = {}
    /\ AfterChains(r)
    /\ UNCHANGED <<hash, links, sessions, tokens, used, dropped>>

\* DeleteUser: claims, roles, logins and tokens go first, the users row last;
\* without a row the answer is 404.
DeleteUser(r) ==
    /\ reqs[r].step = "delete"
    /\ hash' = None
    /\ End(r)
    /\ UNCHANGED <<links, sessions, tokens, used, dropped>>

\* The response is written and the handler returns.
Answer(r) ==
    /\ reqs[r].step = "done"
    /\ End(r)
    /\ UNCHANGED <<hash, links, sessions, tokens, used, dropped>>

-----------------------------------------------------------------------------
(* Failures.                                                               *)

\* The cascade to the refresh tokens of these sessions is given up.
GiveUpCascade(lost) ==
    /\ dropped' = dropped \cup (lost \cap granted)
    /\ outran' = outran \cup {s \in lost : grants[s] # "none"}

\* A statement fails in a handler that then answers with an error, or the
\* process dies.
Abort(r) ==
    /\ StoreMayFail
    /\ reqs[r].step \notin {"idle", "done"}
    /\ End(r)
    /\ GiveUpCascade(reqs[r].pending)
    /\ UNCHANGED <<hash, links, sessions, granted, grants, used>>

\* After the password is set a failed statement is logged and the handler
\* goes on; changePassword leaves the loop over the chains, the others only
\* skip a session.
CleanupFails(r) ==
    /\ StoreMayFail
    /\ reqs[r].op \in {"reset", "change"}
    /\ \/ /\ reqs[r].step \in {"find", "read", "save"}
          /\ FailTo(r, AfterSave(reqs[r].op))
          /\ UNCHANGED <<dropped, outran>>
       \/ /\ reqs[r].step = "invalidate"
          /\ FailTo(r, "revoke")
          /\ UNCHANGED <<dropped, outran>>
       \/ /\ reqs[r].step = "revoke"
          /\ FailTo(r, "chains")
          /\ UNCHANGED <<dropped, outran>>
       \/ /\ reqs[r].step = "chains"
          /\ \E s \in reqs[r].pending :
                LET lost == IF reqs[r].op = "change" THEN reqs[r].pending
                                                     ELSE {s} IN
                /\ Become(r, [reqs[r] EXCEPT
                        !.pending = @ \ lost, !.before = {}, !.older = {}])
                /\ GiveUpCascade(lost)
    /\ UNCHANGED <<hash, links, sessions, granted, grants, used>>

-----------------------------------------------------------------------------
Handle(r) ==
    \/ \E p \in Passwords : LoginValidate(r, p) \/ AdminBegin(r, p)
    \/ \E l \in Links, p \in Passwords : ResetLookup(r, l, p)
    \/ \E s \in Sessions, p \in Passwords : ChangeValidate(r, s, p)
    \/ \E s, t \in Sessions : RevokeSession(r, s, t)
    \/ \E s \in Sessions : RevokeOthersBegin(r, s)
    \/ ForgotFind(r) \/ UpdateFind(r) \/ DeleteBegin(r)
    \/ LoginStore(r) \/ Consume(r) \/ SetPassword(r) \/ FindUser(r)
    \/ UpdateRead(r) \/ UpdateSave(r) \/ InvalidateForUser(r)
    \/ ForgotCreate(r) \/ RevokeByUserIDExcept(r) \/ RevokeChain(r)
    \/ ChainsRevoked(r) \/ DeleteUser(r) \/ Answer(r)
    \/ Abort(r) \/ CleanupFails(r)

Next ==
    \/ \E r \in Requests : Handle(r)
    \/ \E s \in Sessions : SessionExpires(s) \/ ClaimTokens(s)
          \/ FindGrantee(s) \/ GrantTokens(s) \/ GiveUpGrant(s) \/ TokensEnd(s)
    \/ \E l \in Links : LinkExpires(l)
    \/ \E p \in Passwords : CreateUser(p)

Spec == Init /\ [][Next]_vars

-----------------------------------------------------------------------------
(* Properties.                                                             *)

\* A reset link sets the password at most once, whatever requests race on it
\* (PasswordResetStore.Consume and its place before SetPassword).
LinkUsedOnce == \A l \in Links : used[l] <= 1

\* When a password change without a failed cleanup answers, no session that
\* was live when the password was set is still live, except the caller's own,
\* and after a reset or an admin's change no older reset link works
\* (RevokeByUserIDExcept and InvalidateForUser after SetPassword).
ChangeEndsOlderAccess ==
    \A r \in Requests :
        reqs[r].step = "done" =>
            /\ reqs[r].before \cap Live \subseteq {reqs[r].keep}
            /\ reqs[r].op # "change" => reqs[r].older \cap LiveLinks = {}

\* A revoked session has no live refresh token and nothing under way that could
\* give it one, unless some request is still cascading the revocation, a failure
\* has cut that cascade short, or the cascade ran while a code or a token request
\* of the session was under way: only those are what RevokeBySessionID, for every
\* id RevokeByUserIDExcept returned, leaves to the token endpoint, which does not
\* look at the session again.
ChainsFollowSessions ==
    \A s \in Sessions :
        sessions[s] = "revoked" =>
            \/ s \in dropped \cup outran
            \/ \E r \in Requests : s \in reqs[r].pending
            \/ s \notin granted /\ grants[s] = "none"

\* The inductive invariant behind the three.  A link that has been consumed
\* is dead and has at most one request that still owes its SetPassword; only
\* the cascade has sessions pending; and what was live when the password was
\* set is no longer live once the statement that ends it has run.
LinkInv ==
    /\ \A r \in Requests : reqs[r].step = "set" /\ reqs[r].link # None
                            => links[reqs[r].link] = "dead"
    /\ \A r, q \in Requests :
          /\ reqs[r].step = "set" /\ reqs[q].step = "set"
          /\ reqs[r].link = reqs[q].link /\ reqs[r].link # None
          => r = q
    /\ \A l \in Links : used[l] > 0 =>
          /\ used[l] = 1 /\ links[l] = "dead"
          /\ \A r \in Requests : ~(reqs[r].step = "set" /\ reqs[r].link = l)

PendingInv ==
    \A r \in Requests : reqs[r].pending # {} => reqs[r].step = "chains"

OlderInv ==
    \A r \in Requests :
        /\ \A s \in reqs[r].before :
              /\ sessions[s] # "free"
              /\ reqs[r].step \in {"chains", "done"} /\ s # reqs[r].keep
                 => sessions[s] # "live"
        /\ \A l \in reqs[r].older :
              /\ links[l] # "free"
              /\ /\ reqs[r].op # "change"
                 /\ reqs[r].step \in {"revoke", "chains", "done"}
                 => links[l] # "live"

AccountsInv ==
    TypeOK /\ LinkInv /\ PendingInv /\ OlderInv /\ ChainsFollowSessions

\* deleteUser promises that a failed revocation can be retried instead of
\* leaving refresh tokens behind for an account that is gone: when it comes to
\* delete the users row, no revoked session has a live refresh token.  (Tokens
\* that were under way when the cascade ran or was given up are not the matter.)
DeletionLeavesNoTokens ==
    \A r \in Requests :
        reqs[r].step = "delete" /\ hash # None =>
            \A s \in granted \ outran : sessions[s] # "revoked"
=============================================================================
