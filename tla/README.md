# Verification of the authorization server

TLA+ models of the stateful core of this OAuth 2.0 / OpenID Connect server, the
TLC runs that check them on small instances, and TLAPS proofs of the main
properties for every size. Every definition is translated from the Go source;
`PROJECT.json` maps each one to its lines.

    tlc -config grants_race.cfg MCTokenGrants      # one run
    tlapm TokenGrants_proofs.tla                   # the proofs of one module

## The system and its parts

The server is a Go process (several may run over one Postgres database). A
request is a goroutine; nothing but the database and a few in-process
structures is shared. No handler opens a transaction across statements, so a
request of any instance can interleave between any two statements of another.

| Part | State | Operations | What makes it correct |
|---|---|---|---|
| Authorization endpoint (`oidc/authorize.go`, `session_resolver.go`) | sessions (read), codes | resolve the session cookie, mint a code | a code only on a usable session |
| Code grant (`grants/authcode.go`) | codes, refresh tokens | check, consume (CAS), issue, store the root token | a code is honoured once |
| Refresh grant (`grants/refresh.go`) | refresh tokens, audit | check, consume (CAS), down-scope, walk to the root, rotate, handle reuse | one live token per chain; fixed ceiling; scope never widens; stable `auth_time`; reuse ends the chain |
| Revocation, logout, admin sessions (`revoke.go`, `logout.go`, `admin/api.go`) | sessions, refresh tokens | revoke one, revoke by session | what is revoked stays unusable |
| Signing keys (`token/keys.go`, `issuer.go`) | `signing_keys`, an in-process mutex | bootstrap, rotate, sign, publish | always an active key; issued tokens stay verifiable |
| Data-protection ring (`session/dpkeys.go`, `cookie.go`) | `data_protection_keys`, a copy per process | load at boot, rotate, encode, decode | cookies survive restarts and rotations |
| Login and lockout (`login.go`, `gormstore/loginattempt.go`) | attempt counters, sessions | check the lock, record, reset | guesses under a lock are bounded; a newcomer lifts no lock |
| Passwords (`forgot_password.go`, `reset_password.go`, `profile.go`, `register.go`, `gormstore/users.go`) | users, reset tokens, sessions | request, reset, change, admin set | one newest link; a reset ends what the old password opened |
| Client authentication and the client credentials grant (`clientauth.go`, `token/clientassertion.go`, `grants/clientcreds.go`) | clients (read), jti cache (in process) | verify, check and store, issue | no jti twice before its `exp`; one registration earns a token |
| Rate limiter (`server/ratelimit.go`) | buckets by IP, one set per route | allow, sweep | sweeping loses nothing; the rate is never exceeded |
| Remote log sink (`errlog/typesense.go`) | bounded queue, one worker | enqueue, send, close | never blocks a request; an event is stored at most once, in order unless its POST had no answer; close drains or ends |
| Users, roles and claims of the admin API (`admin/api.go`, `gormstore/users.go`, `roles.go`) | users, roles, memberships, claims | CRUD, a statement at a time | an answered change took effect; deletions leave nothing behind |
| Clients and seeding (`domain/client.go`, `admin/api.go`, `gormstore/entities.go`, `cmd/authserver/main.go`) | clients, scopes | apply a profile, normalise, validate, encode, seed | stored clients agree with themselves; seeding overwrites no edit |
| Read-only handlers, router, mail, config, CLI, SPA | none of their own | | |

What is hard to test here: two requests presenting one credential, a revocation
landing between a read and a write of another request, a process that dies
between two writes, copies that go stale (the key ring, a row read before a
write), queues at their limit, and expiries at their boundary. `PROJECT.json`
lists these hazards with their lines.

## Modules

### TokenGrants

Session, code and refresh-token rows (`sessions`, `codes`, `tokens`), the
`consumed_at` and `revoked_at` columns as sets of ids (`consumed`, `revoked`),
the clock, and for every request in flight its local variables and the next
statement (`reqs`). `issued`, `audit`, `ended` and `cut` record what was
answered, which reuse was audited, which session revocations ran to their end and
which walks to the root a failed lookup has ended. A token row carries a history field `origin`, the code or legacy token its chain
grew from.

Each action is the code up to and including one database statement:

| Actions | Code |
|---|---|
| `StartSession` | session creation in `LoginHandler.ServeHTTP` |
| `AuthorizeResolve`, `MintCode` | `AuthorizeHandler.ServeHTTP`, `mintCode` |
| `ExchangeRead`, `ConsumeCode`, `IssueFromCode`, `StoreRoot`, `Respond` | `AuthCodeGrant.Handle` |
| `RefreshRead`, `ConsumeToken`, `IssueFromToken`, `WalkToRoot`, `Rotate`, `Respond` | `RefreshGrant.Handle`, `chainRootCreatedAt` |
| `HandleReuse` | `handleReuse`; the errors of both of its writes are swallowed, so each may fail alone |
| `Revoke`, `AdminRevokeToken` | `RevokeHandler`, `revokeRefreshToken` |
| `Logout`, `AdminRevokeSession`, `EndChain` | `terminateSession`, `revokeSession` (already revoked is 404 for the latter) |
| `Abort` | an error return, a missing user, a lost response or a crash, after which the writes so far stay |

An early return before the first write changes nothing and is no step.
Abstracted: hashes, redirect URIs, PKCE, nonces and users (checks of a single
request that end it before any write), JWT contents other than `auth_time`,
`max_age` and `prompt` (they can only keep a code from being minted). A scope
is a set, and the empty `requested` set stands for an absent `scope` parameter.
The refresh lifetimes are those of one client configuration; sliding or
absolute mode is per client. All instances share one clock.

### CredentialLedger

What the token endpoint promises about a one-time credential, without requests
and tables: created, spent once, extended by at most one successor between
being spent and being answered, answered at most once, last of all.
`TokenGrants` implements it under the mapping `StatusOf` (`ImplementsLedger`).

### SigningKeys

`row` is the `IsActive` flag of each kid; calls of `EnsureActiveKey` (tokens,
JWKS, boot) and of `Rotate` (admin API under the mutex of its process, or the
command without one) are split at their statements. `GetActive` may return any
active row. `latest` and `signed` are history, and so is `mixed`: whether two
rotations, two bootstraps or a failure have overlapped so far.

### DPKeys

The same table for cookie keys, whose `Rotate` retires *before* it stores, and
the copy (`active`, `ring`) each instance takes at boot and never refreshes.
Instances and the command stop at any point. `Processes` declares what the two
modules share, the instances and the commands.

### Accounts

One account: its password hash (`hash`, `None` without a row), reset links,
sessions, the sessions whose chain has a live refresh token (`granted`), how far
the furthest request has come that may store one (`grants`), and the handlers in
flight. Consumed, expired and deleted links are refused alike and
are one state, `"dead"`; an expired session is kept apart from a revoked one,
because `RevokeByUserIDExcept` skips it and a later `Revoke` does not. The
handlers share their statements, so there is one action per statement and
`AfterSave`, `AfterInvalidate` and `AfterChains` give the order in which each
handler runs them:

| Handler | Statements |
|---|---|
| `LoginHandler` | `LoginValidate`, `LoginStore` |
| `ForgotPasswordHandler.process` | `ForgotFind`, `InvalidateForUser`, `ForgotCreate` |
| `ResetPasswordHandler.handlePost` | `ResetLookup`, `Consume`, `SetPassword`, `FindUser`, `UpdateRead`, `UpdateSave`, `InvalidateForUser`, `RevokeByUserIDExcept`, `RevokeChain` for each, `Answer` |
| `API.setUserPassword` | `AdminBegin`, then as a reset from `SetPassword` on |
| `ProfileHandler.changePassword` | `ChangeValidate`, `SetPassword`, `UpdateRead`, `UpdateSave`, `RevokeByUserIDExcept` (keeping the caller's session), `RevokeChain` for each, `Answer` |
| `API.deleteUser` | `DeleteBegin`, `RevokeByUserIDExcept`, `RevokeChain` for each, `InvalidateForUser`, `DeleteUser` |
| `API.updateUser`, `unlockUser` | `UpdateFind`, `UpdateRead`, `UpdateSave` |
| `ProfileHandler.revokeOthers`, `revokeSession` | `RevokeOthersBegin`, `RevokeByUserIDExcept`, `RevokeChain`; `RevokeSession`, `RevokeChain` |

`Abort` is a statement whose failure ends the handler, or the death of the
process; `CleanupFails` a failure after the password is set, which is logged
only. gorm's `Save` inserts the row it does not find (external behaviour).
`before` and `older` remember what was live when a handler set the password,
`used` how often a link did, `dropped` the sessions whose last cascade a failure cut
short of a live token, `outran` those whose last cascade ran, or was given up, while
a code or a token request of theirs was under way.

The token endpoint works beside the handlers: `ClaimTokens` begins a code on a
usable session or a refresh of a live token, `FindGrantee` is the user lookup,
`GrantTokens` stores the refresh token without looking at the session again,
revoked or not, and `GiveUpGrant` ends the request in any other way. `TokensEnd`
is a token consumed or revoked by its client. What happens to the single code or
token belongs to `TokenGrants`; `Granting` are the sessions under which clients ask
for tokens. Left out: the throttles, mail, audit rows, and profile fields
other than the hash.

### RateLimiter, TokenBucket, LoginLockout, LoginGuard

`RateLimiter` is the map of buckets of one limiter with its lazy sweep;
`golang.org/x/time/rate` is external and modelled by its arithmetic (`Tokens`).
`TokenBucket` is what it promises: a bucket per address that is never
forgotten. `SweepLosesNothing` is the refinement of the second by the first.

`LoginLockout` is the `login_attempts` table and the requests that consult it:
`Begin`, `Check` (`IsLockedOut`), `Clear` (its DELETE of a stale row),
`Validate`, `Record` and `Insert` (`RecordFailure`; one step where the row is
there to be locked, two where it is not), `Reset`. `CheckFails` is a failed
lookup, which the handlers take for "not locked"; `Abandon` an error or a
crash. The key is a principal and an address for passwords and a principal
alone for the throttle on forgotten passwords (`Throttles`), which counts every
request. `excused` and `blind` are history.

`LoginGuard` composes the two as `NewRouter` does: a login passes its limiter
first (`Arrive`), a forgotten password the limiter of its own route, of which
nothing is assumed (`ArriveElsewhere`). `Clock` is the shared clock.

### ClientAuth

Client rows as the admin API leaves them (`Register`, `Unregister`), the replay
cache of each process, and the requests at the token and revocation endpoints:
`AuthenticateClient` reads the row once, `Verify` checks the assertion against
that copy, `CheckAndStore` burns the jti under the mutex, `ClientCredentials` or
`OtherGrant` ends the request. `Restart` empties the cache. An assertion is a
record of what the checks compare; JOSE itself is left out. `rows`, `accepted`
and `issued` are history.

### LogSink

Goroutines that log (`Handle`, `Enqueue`, `Write`), the channel, the worker
(`Receive`, `Post`, `CreateCollection`, `Repost`), and `Close` in its two halves.
A POST is answered, or the worker gives it up (the client's timeout of two
seconds, a cancelled context); then it is in `adrift`, and the remote stores it at
any later time or never (`StoreAdrift`), behind documents posted after it too.
`OtherChanges` deletes and creates the collection at any time; `remote` keeps the
order in which documents were stored, those of deleted collections included. What
a record is projected to, and the local warnings, are left out.

### Directory

`oauth_users`, `oauth_roles`, memberships and claims under the admin handlers,
one action per statement: `SetUserRoles`, `ReadNames`, `RemoveLookup`,
`RemoveDelete`, `AddLookup`, `AddInsert` are `setUserRoles`; `ClearClaims` and
`AddClaim` are `setUserClaims` and `setRoleClaims`; `DeleteUser`,
`DeleteUserRoles`, `DeleteUserRow` and `DeleteRole`, `DeleteRoleClaims`,
`DeleteRoleRow` the deletions; `UpdateRole` and `SaveRole` the lookup and the
Save of `updateRole`. `contested` collects what other handlers changed under a
handler's feet, `strays` the rows inserted for an owner that was not there or
was on its way out.

### Clients and Registry

`Clients` holds the pure part: `Profile`, `ApplyProfile`, `Normalize`, `Valid`
and the list helpers of `domain/client.go`, the JSON columns with nil kept apart
from the empty list, and the row conversions. Strings are a small set with the
functions `Trim` and `Fold` on it.

`Registry` puts clients under `createClient`, `updateClient` (lookup and Save
apart), `deleteClient`, and under the seeding of each boot: `Start`, one `Probe`
per table, one `Seed` per fixture, `Stop` at any point. The other fixtures
(scopes, the admin role, the demo user, its membership) are rows that are there
or not (`PutOther`, `DeleteOther`).

### MC modules and proof modules

Each `MC` module adds the symmetry sets of its specification; `MCClientAuth` and
`MCRegistry` also the assertions, registrations and request bodies that are
tried. The theorems are in eight `_proofs` modules, one per module or composition
they are about; `Keys_proofs` holds those of both kinds of key.

## Runs

| Run | Bounds | Shows |
|---|---|---|
| `grants_race` | 1 session, 1 code, 3 tokens, 2 requests, failures | `TypeOK`, `HonouredOnce`, `OneLiveTokenPerChain`, `RevocationIsFinal`, `ImplementsLedger` |
| `grants_chain` | 3 tokens, one of them without a session, 1 request, a sliding and an absolute client, 2 scopes, clock 0..2, a walk of one lookup at most, which may fail | `CeilingCarried`, `ChainInherits`, `AuthTimeStable` |
| `keys_fleet` | 4 keys, 3 calls, 2 instances, a command, failures, empty table | `AlwaysAnActiveKey`, `TokensStayVerifiable`, `OneActiveBetweenRotations` |
| `dp_restart` | 4 keys, 2 instances, 2 commands, crashes | `SignsWithStoredKey`, `RestartDecodesAll` |
| `accounts_race` | 2 handlers, 2 passwords, 1 link, 2 sessions, token requests of one of them, failures | `LinkUsedOnce`, `ChangeEndsOlderAccess`, `ChainsFollowSessions` |
| `login_guard` | 1 address, an account and a reset throttle, 2 requests, clock 0..2, 2 failures to a lock, a burst of 2 | `GuessesUnderLock`, `LockLiftedByOldRequestsOnly`, `PassRateBounded`, `SweepLosesNothing`, `GuessesPaidFor` |
| `client_auth` | 1 client, 2 keys, 3 registrations, 4 assertions of one jti, 2 requests, a restart, skew 1, clock 0..3 | `NoReplayBeforeExpiry`, `EarnedUnderOneRegistration` |
| `log_sink` | 2 goroutines, 4 events, a channel of 1 | `StoredOnceInOrder`, `CloseDrains`, `EveryEventReachesStdout`, `ShutdownCompletes` |
| `directory` | 1 user, 2 roles, 2 names, 1 claim, 2 handlers, failures | `RolesTookEffect`, `ClaimsTookEffect`, `OrphansOnlyFromRaces` |
| `registry` | 1 client, 1 scope, 7 bodies, 2 instances, 3 boots, 2 changes | `StoredClientsConsistent`, `ProfileKept`, `SeedKeepsEdits`, `SeedComplete` |

Two requests suffice for a race on one row, because a request holds one
credential and every conflict is between a winner and a loser of one CAS; the
proofs remove the bound. One code and three tokens give an exchange, a rotation,
a reuse, and the second successor a forked refresh would store. In
`grants_chain` the legacy token is the root of a rotation of a rotation, which
is where a ceiling, a scope or an `auth_time` that is not carried would show. The
walk may make one lookup there, so that a chain of two is within its reach and a
chain of three is not, and any lookup may fail (`LookupMayFail`; the statements
whose failure ends the request fail in `grants_race`).
Ticks of one reach both sides of every expiry, since the lifetimes are 0, 1 and
2. Kids run out after 4: enough for two rotations to overlap with a bootstrap.
Two sessions are the caller's own and another; two handlers meet in every pair
of statements, and one of them may run to its end and start again as another
kind. A row id is used once (ids are fresh UUIDs), so the numbers of ids bound
the number of logins, mints and rotations.

In `login_guard` a lock, its expiry and the end of the window fall on different
ticks, and a bucket becomes idle for as long as a sweep asks. The failures of a
key that a limiter does not guard are not bounded by the code: a failure dated
before the row's window sets a lock that has already run out. `MaxCounted`
therefore bounds what other routes add, above anything the properties speak of.
`client_auth` reaches the tick between `exp` and `exp` plus skew. `log_sink`
fills the channel, loses and delays responses, deletes the collection and closes
at every point. `registry` boots
once more after the first seeding, against every edit an operator can make; its
bodies hold duplicates, blanks, other cases, and what each profile overrules.
Deadlock checking is off where nothing may be left to do: ids, the clock, events
or boots are used up, and no request has to come.

Runs that find a disagreement with the repository's own words (details under
`findings` in `PROJECT.json`):

| Run | Property | What happens |
|---|---|---|
| `grants_reuse_race` | `ReuseRevokesChain` | the loser's chain revocation runs before the winner stores the successor, which stays live |
| `accounts_delete_retry` | `DeletionLeavesNoTokens` | a deletion dies after revoking the sessions; the retry is given no session ids, so their refresh tokens stay live |

Four more statements of comments or documents do not hold of the models as
written; they stand in their modules and can be put into a configuration in
place of its properties:

- `EndedSessionHasNoLiveToken` (`TokenGrants`): a code minted before its session
  was revoked is exchanged afterwards and grows a live refresh token; the code
  grant does not look at the session. `RevocationIsFinal` says what does hold.
- `AuthTimeIsRoot` (`TokenGrants`): a lookup of the walk fails, for whichever reason,
  and the rotation is answered with the `CreatedAt` of a later token as `auth_time`
  (refresh.go:325); the walk never returns an error, so the caller's branch "auth_time
  lookup failed" is not taken. `AuthTimeStable` is what holds.
- `FleetDecodes` (`DPKeys`): an instance does not know keys stored after its boot
  and rejects their cookies until it restarts (README.md:198-200 of the
  repository speaks of the whole fleet). `RestartDecodesAll` is what holds.
- `ReplayRejected` (`ClientAuth`): a jti is dropped at `exp`, the assertion is
  accepted until `exp` plus skew (60 s by default) and so once more in between.
  `NoReplayBeforeExpiry` draws the line where it holds.

A password change ends less than one may expect: an expired session is not among
the revoked ones, so its refresh token survives, and so does a token that a code or
a request under way stores after the cascade (`ChainsFollowSessions` excuses what is
`outran`, and otherwise only cascades still running or cut short by a failure).

Two comments simply describe other code: `RouterConfig` says a rate of 0 disables
the limiter, `NewLoginRateLimiter` makes it 10; `newGormBundle` says the attempt
tracker stays in memory, two lines above the one in the database.

Limits of the passing runs worth knowing. `chainRootCreatedAt` takes any error of
`FindByID` for the end of the chain (refresh.go:325) and stops after 1000 rows in
any case. `AuthTimeStable` says what a response then carries: the time of an
ancestor, never one after the token presented; everywhere else it must be the
root's. `OneActiveBetweenRotations` is about histories in which rotations
did not overlap: `rotateMu` is a mutex of one process, and two instances or the
command can leave two active keys. `Accounts` orders no concurrent password
changes: `UpdateUser` writes back the hash it read, so an edit that overlaps a
`SetPassword` can undo it, and one that overlaps a deletion inserts the row
again; `updateClient` and `updateRole` bring a deleted row back in the same way.
`SeedComplete` excuses a seeding whose process died: later boots find data and
never finish it. `SeedKeepsEdits` excuses a boot that found the database empty
when it began, or whose probes operators overlapped: four statements are no
snapshot, and seeding need not end before an instance without `AUTH_SEED` takes
requests. `RolesTookEffect` and `ClaimsTookEffect` excuse names and claims that
another handler changed meanwhile. `setUserRoles` and the claim handlers accept
an owner that does not exist, and an owner created later under that id inherits
the rows. The scopes of a client are compared without case by `Normalize` and
with case by the grants, so a client that lists `Offline_Access` is consistent
and yet is never given a refresh token.

Only `log_sink` assumes fairness: each goroutine that has begun to log, the
worker and `Close` take their next step eventually. The Go scheduler gives the
first; a POST of the worker ends at the HTTP client's timeout of two seconds, or
when its context is cancelled; `Close` waits for the worker or for the three
seconds main allows it. Nothing forces anyone to log or main to close, and the
remote need not ever answer. The other handlers promise nothing eventual.

## Proofs

Every safety property and every action property that a passing run checks is
also a theorem. The theorems hold for any number of requests, instances, rows,
keys and principals, and for any lifetimes, rates and thresholds within the
named assumptions. These say little: ids of different kinds differ, NULL
(`None`) is neither an id nor a row, times are natural numbers, sets that are
counted (requests in flight, fixtures) are finite, trimming a string twice is
trimming it once, `openid` and `offline_access` are trimmed and differ in more
than case, the queue has a capacity, an idle bucket has time to refill
(`IdleAssumption`), a lock takes at least two failures. TLC evaluates every one
of them on each run.

None of the properties is inductive by itself. Each module has a strengthening
that is, checked by TLC on the instances of the runs before it was proved. Its
proof has one lemma per action, on top of lemmas for the actions that share a
shape (`RequestStep`, `StoreTokenInv`, the `...Frame` lemmas).

**TokenGrants** (`TokenGrants_proofs`). `GrantsInv` adds

- `RequestWellFormed`: a request works on a row that exists and is its client's;
- `ChainsWellFormed`: parents and origins exist and are consumed;
- `OneWinner`: at most one request is past the CAS of a credential, and none
  once it has been answered (this gives `HonouredOnce`, theorem `SingleUse`);
- `OneBaton`: each chain has one baton, held by the unconsumed code, by the
  request that consumed its last credential, or by its one unconsumed token
  (`OneLiveTokenPerChain`, theorem `NoForkedChain`);
- `RequestWithinBounds`: a refresh in flight began within both expiries and
  never widened its scope (`CeilingCarried` and `ChainInherits`, theorems
  `CeilingNeverMoves` and `ChainNeverWidens`).

`AuthTimeFollowsChain` (`AuthTimeStable`) needs to know where the walk of
`chainRootCreatedAt` ends. `Line` is a token with its ancestors, defined by closure
under parents so that nothing is proved by induction over the chain. `WalkInv` says
that tokens can be ranked so that a parent ranks below its child, and that a request
in its walk stands on the line of its token and has left behind as many tokens of
that line as it took steps, all ranked above the one it stands at. So a walk that
ends by its bound short of the root has left `MaxDepth` tokens of the line behind
and has two more before it, too many for `WithinWalk`; a walk that ends by an error
is in `cut`; any other has reached the root. The rank is a witness which each step
that stores a token extends. `TimesInv` (no token is older than its parent, no
refresh than its token) bounds what the shorter walks return. The theorem assumes
nothing of failures or of the length of chains.

`RevocationLasts` is the action property `RevocationIsFinal`. Most steps only add
to `revoked` and `consumed` and never change a row (`OnlyGrows`); what is left is
that no request acquires a credential of the dead session (`DeadStep`).
`GrantsImplementLedger` is the refinement: the tables start as the empty ledger
and each step is a step of `CredentialLedger` or a stutter. The consuming CAS is
`Spend`, storing a successor is `Extend`, and `OneBaton` gives that a credential
has only one; `SpentExist` (what is consumed has a row) is invariant beside
`GrantsInv`.

**SigningKeys** (`Keys_proofs`). `KeysInv`: the key stored last is active, and a
rotation about to retire a key never has that one, because it stored a newer key
after it read its own. It needs no mutex: `NeverWithoutActiveKey` holds for
unserialised rotations too. `SerialInv` adds the mutex of each process and what a
rotation that overlaps no other may find: `OneActiveKey`. Also
`SignedTokensVerify`.

**DPKeys** (`Keys_proofs`). `RingInv`: rows
are never removed and nothing is signed before its key has a row. Hence
`SigningKeysStored` and, as an action property, `RestartsDecode`.

**Accounts** (`Accounts_proofs`). `AccountsInv` adds `LinkInv` (a consumed link
is dead and has at most one request that still owes its `SetPassword`),
`PendingInv` (only a cascade has sessions pending) and `OlderInv` (what was live
when the password was set is not live once the statement responsible for it has
run). `RequestStep` shows that a step of one request preserves it as long as
links and sessions only age and every session it revokes is pending or recorded
as dropped; each action is an instance. Tokens enter a revoked session only through
requests that were under way at its cascade, which puts it in `outran`: a session
that is neither dropped nor outrun has no request, and none can begin. Theorems:
`LinksSingleUse`, `ChangesEndAccess`, `CascadesComplete`.

**RateLimiter, LoginLockout, LoginGuard** (`LoginGuard_proofs`). Each component is
proved by itself. `LimInv` says that passes and remaining tokens together never
exceed what was granted; with it each step of the limiter is a step or a stutter
of `TokenBucket`, since a bucket idle for `MaxIdle` is full (`SweepIsLossless`).
`LockInv` counts, under a lock, the requests that may still add a failure against
the one failure each of them has left. `StepProjects` shows that a step of the
composition is a step of each (`GuardImplementsBoth`), so both sets of theorems
hold of the login route: `PassesAreBounded`, `LoginSweepIsLossless`,
`GuessingStops`, `LocksHold`. `GuessesArePaidFor` needs both at once: `GuardInv`
charges each request in flight to a pass of its address, also where its key has
no row yet, and shows a row's failures to be the requests that have gone.

**ClientAuth** (`ClientAuth_proofs`). `AuthInv`: the jti of an accepted assertion
is in the cache of the process that accepted it, or its `exp` has passed, or the
process has restarted since; accepted assertions are numbered; what a request
holds was read from one registration (`Established`). Theorems: `NoReplay`,
`EarnedOnce`.

**Directory** (`Directory_proofs`). `DirInv` says how far each handler has come:
`RolesSoFar` and `ClaimsSoFar` (the names and claims nobody else touched are those
still to be removed, those had before and those added so far), `Cleared` (what is
left of an owner that is being deleted has come back meanwhile), `Local` and
`UniqueNames`. Theorems: `RolesTakeEffect`, `ClaimsTakeEffect`,
`DeletionsLeaveNoOrphans`.

**LogSink** (`LogSink_proofs`). `SinkInv` places every event the channel has taken
in the queue, in the worker's hand or behind it. The order at the remote is
stated by a witness `place`, the position at which the channel took each
document; a second one, `berth`, does the same for the POSTs given up, and the
two never meet, so a POST carried out late is still the only one of its event.
Only an event in `late` may stand behind younger ones.
Theorems: `StoredInOrder`, `CloseDrainsQueue`.

**Clients and Registry** (`Registry_proofs`). `RegInv` adds

- `RowsKnown`: every row was written by a seeding or by a handler with an
  accepted body (`Origin`), whose profile is the one remembered;
- `Probing`: a boot that found data, and saw no operator at work, has a probe
  ahead that will find data. Rows only disappear through operators, so the last
  probe cannot come back empty: `EditsSurviveRestarts`;
- `Seeding`: the membership comes last, and the role it needs is still to be
  written, is there, or went through an operator. So the error return of
  `AddToRoles` leaves nothing out, and with `Accounted` (each fixture is there,
  was changed by an operator, or is ahead of a seeding): `SeedingCompletes`.

What a row decodes to is a question about the list helpers. `Entries(xs, I)`, the
loop that appends the entries at the indices `I`, keeps the entries and their
order (`EntriesKept`), by counting and without induction. From it: `cleanStringList`
leaves a list `Tidy` (trimmed, without blanks and repetitions) and a tidy list
alone, `removeScope` takes out one scope in every spelling and nothing else, and
`NormalScopes` is idempotent. So what `Normalize` returns is `Normal`, a normal
client is left alone by it (`NormalizeAgain`), and the row gives it back
(`RoundTrip`). Theorems: `ProfilesKept`; `ClientsConsistent`, for any bodies and
strings, under the hypothesis that the seeded clients, which are stored without
passing through `Normalize` or `Validate`, are consistent as they stand. The run
checks that on the clients it seeds.

Only model-checked: the liveness properties of `log_sink`, because fairness and
ENABLED are outside what the installed provers do.

## Plan

1. Done: `TokenGrants`, `CredentialLedger`, `SigningKeys`, `DPKeys`, `Accounts`.
2. Done: `LoginLockout`, `RateLimiter` and their composition, `ClientAuth`,
   `LogSink`, `Directory`, `Clients`, `Registry`.
3. Done: proofs of the safety and action properties of all of these, and of the
   two refinements.
4. Next: what else can be said of the handlers that change several rows
   (an abstract specification of a password change that `Accounts` implements), and
   the token requests of `Accounts` refined by those of `TokenGrants`.

## Not modelled

Cryptography, encodings and HTML; userinfo, discovery, home, session info and
the listing handlers of the admin API (they only read); return URLs, redirect
URIs, PKCE, CSRF guards and admin authentication (checks of one request);
external logins and user tokens (nothing writes them); the audit log; the
in-memory stores (used by tests, the same operations under one mutex); mail; the
reading of the configuration; entities that are copied field by field; the web
application. Clock skew between instances and a relying party's cached JWKS are
outside the models.
