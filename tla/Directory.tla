------------------------------ MODULE Directory ------------------------------
(***************************************************************************)
(* The tables behind the user and role pages of the admin API: accounts,   *)
(* roles, who holds which role, and the claims of both.  No handler opens  *)
(* a transaction and no table has a foreign key: a handler is a sequence   *)
(* of statements, each committed by itself, and one action below is one    *)
(* statement with the code up to the next one.                             *)
(*                                                                         *)
(* A role name stands for its normalised form (upper case, unique index).  *)
(* A claim row stands for all its duplicates: they are read as one         *)
(* (loadClaims) and deleted together.  No handler ever writes a login or a *)
(* user token, so those two tables stay empty and are left out.            *)
(***************************************************************************)
EXTENDS FiniteSets

CONSTANTS
    Users,      \* account ids
    RoleIds,
    Names,      \* role names
    Claims,
    Requests,   \* concurrent handlers of the admin API
    None

\* Ids, names and claims are of different sorts; no row is one of both tables.
ASSUME OwnersAssumption ==
    /\ Users \cap RoleIds = {} /\ RoleIds \cap Claims = {}
    /\ None \notin Names \cup RoleIds

VARIABLES
    users,    \* oauth_users: the ids that have a row
    roles,    \* oauth_roles: id -> name
    members,  \* oauth_user_roles
    claims,   \* oauth_user_claims and oauth_role_claims, by owner
    reqs,     \* the handlers in flight
    strays    \* history: rows inserted for an owner that had no row, or
              \* whose deletion was under way

vars == <<users, roles, members, claims, reqs, strays>>

-----------------------------------------------------------------------------
Owners == Users \cup RoleIds
Membership == Users \X RoleIds
Claim == Owners \X Claims

\* contested is history: what others changed while the handler ran, role names
\* for setUserRoles, claims for setUserClaims and setRoleClaims.
Request == [op : {"none", "roles", "claims", "deleteUser", "updateRole", "deleteRole"},
            step : {"idle", "names", "remove", "delete", "add", "insert",
                    "clear", "save", "members", "claims", "row", "answer"},
            owner : Owners \cup {None}, name : Names \cup {None},
            want : SUBSET (Names \cup Claims), ids : SUBSET RoleIds,
            toRemove : SUBSET Names, toAdd : SUBSET (Names \cup Claims),
            at : RoleIds \cup {None}, contested : SUBSET (Names \cup Claims)]

Idle == [op |-> "none", step |-> "idle", owner |-> None, name |-> None,
         want |-> {}, ids |-> {}, toRemove |-> {}, toAdd |-> {}, at |-> None,
         contested |-> {}]

\* The type invariant: the tables as gormstore/entities.go declares them.
TypeOK ==
    /\ users \subseteq Users
    /\ roles \in [RoleIds -> Names \cup {None}]
    /\ members \subseteq Membership
    /\ claims \subseteq Claim
    /\ reqs \in [Requests -> Request]
    /\ strays \subseteq Membership \cup Claim

\* After the migration: no table has a row.
Init ==
    /\ users = {}
    /\ roles = [i \in RoleIds |-> None]
    /\ members = {}
    /\ claims = {}
    /\ reqs = [r \in Requests |-> Idle]
    /\ strays = {}

\* r goes on as q; xs is what the step changed of the tables, seen by the
\* other handlers that set the same thing for the same owner.
Step(r, q, concerns(_), xs) ==
    reqs' = [s \in Requests |->
               CASE s = r -> q
                 [] s # r /\ concerns(reqs[s]) ->
                      [reqs[s] EXCEPT !.contested = @ \cup xs]
                 [] OTHER -> reqs[s]]

Goto(r, q) == reqs' = [reqs EXCEPT ![r] = q]

SetsRoles(u, q) == q.op = "roles" /\ q.owner = u
SetsAnyRoles(q) == q.op = "roles"
SetsClaims(o, q) == q.op = "claims" /\ q.owner = o

NamesOf(ids) == {roles[i] : i \in ids} \ {None}
RolesOf(u) == {i \in RoleIds : <<u, i>> \in members}
ClaimsOf(o) == {c \in Claims : <<o, c>> \in claims}

\* The row with this normalised name, at most one.
Named(n) == {i \in RoleIds : roles[i] = n}

\* Whether rows inserted for owner now may outlive it.
Unsettled(o) ==
    \/ o \in Users /\ o \notin users
    \/ o \in RoleIds /\ roles[o] = None
    \/ \E s \in Requests : reqs[s].owner = o /\ reqs[s].op \in {"deleteUser", "deleteRole"}

-----------------------------------------------------------------------------
(* setUserRoles: GetUserRoles, RemoveFromRoles, AddToRoles *)

\* An unknown user has no memberships: that is no error, and no 404.
SetUserRoles(r, u, want) ==
    /\ reqs[r].step = "idle"
    /\ Goto(r, [Idle EXCEPT !.op = "roles", !.owner = u, !.want = want,
                            !.step = IF RolesOf(u) = {} THEN "add" ELSE "names",
                            !.ids = RolesOf(u),
                            !.toAdd = IF RolesOf(u) = {} THEN want ELSE {}])
    /\ UNCHANGED <<users, roles, members, claims, strays>>

\* The second statement of GetUserRoles, and the two differences.
ReadNames(r) ==
    /\ reqs[r].step = "names"
    /\ LET existing == NamesOf(reqs[r].ids) IN
       Goto(r, [reqs[r] EXCEPT !.step = "remove", !.ids = {},
                               !.toRemove = existing \ reqs[r].want,
                               !.toAdd = reqs[r].want \ existing])
    /\ UNCHANGED <<users, roles, members, claims, strays>>

\* Mutant: a role that is gone ends the loop.
RemoveLookupStops(r, n) ==
    /\ reqs[r].step = "remove"
    /\ n \in reqs[r].toRemove
    /\ \/ /\ Named(n) = {}
          /\ Goto(r, [reqs[r] EXCEPT !.toRemove = {}])
       \/ \E i \in Named(n) :
             Goto(r, [reqs[r] EXCEPT !.toRemove = @ \ {n}, !.step = "delete", !.at = i])
    /\ UNCHANGED <<users, roles, members, claims, strays>>

\* RemoveFromRoles looks each name up; one that is gone is skipped.
RemoveLookup(r, n) ==
    /\ reqs[r].step = "remove"
    /\ n \in reqs[r].toRemove
    /\ \/ /\ Named(n) = {}
          /\ Goto(r, [reqs[r] EXCEPT !.toRemove = @ \ {n}])
       \/ \E i \in Named(n) :
             Goto(r, [reqs[r] EXCEPT !.toRemove = @ \ {n}, !.step = "delete", !.at = i])
    /\ UNCHANGED <<users, roles, members, claims, strays>>

RemoveDelete(r) ==
    LET row == <<reqs[r].owner, reqs[r].at>> IN
    /\ reqs[r].step = "delete"
    /\ members' = members \ {row}
    /\ strays' = strays \ {row}
    /\ Step(r, [reqs[r] EXCEPT !.step = "remove", !.at = None],
            LAMBDA q : SetsRoles(row[1], q),
            IF row \in members THEN NamesOf({row[2]}) ELSE {})
    /\ UNCHANGED <<users, roles, claims>>

RemoveDone(r) ==
    /\ reqs[r].step = "remove"
    /\ reqs[r].toRemove = {}
    /\ Goto(r, [reqs[r] EXCEPT !.step = "add"])
    /\ UNCHANGED <<users, roles, members, claims, strays>>

\* AddToRoles looks each name up; an unknown one ends the request with an
\* error, after the removals and the additions made so far.
AddLookup(r, n) ==
    /\ reqs[r].op = "roles" /\ reqs[r].step = "add"
    /\ n \in reqs[r].toAdd
    /\ \/ Named(n) = {} /\ Goto(r, Idle)
       \/ \E i \in Named(n) :
             Goto(r, [reqs[r] EXCEPT !.toAdd = @ \ {n}, !.step = "insert", !.at = i])
    /\ UNCHANGED <<users, roles, members, claims, strays>>

\* The insert of a row that is already there is ignored.
AddInsert(r) ==
    LET row == <<reqs[r].owner, reqs[r].at>> IN
    /\ reqs[r].step = "insert"
    /\ members' = members \cup {row}
    /\ strays' = IF row \notin members /\ (Unsettled(row[1]) \/ Unsettled(row[2]))
                 THEN strays \cup {row} ELSE strays
    /\ Step(r, [reqs[r] EXCEPT !.step = "add", !.at = None],
            LAMBDA q : SetsRoles(row[1], q),
            IF row \in members THEN {} ELSE NamesOf({row[2]}))
    /\ UNCHANGED <<users, roles, claims>>

-----------------------------------------------------------------------------
(* setUserClaims and setRoleClaims: a delete, then one insert per claim *)

\* Mutant: what the owner had stays.
ClearClaimsKeeps(r, o, want) ==
    /\ reqs[r].step = "idle"
    /\ Goto(r, [Idle EXCEPT !.op = "claims", !.step = "add", !.owner = o,
                            !.want = want, !.toAdd = want])
    /\ UNCHANGED <<users, roles, members, claims, strays>>

\* Neither handler asks whether the owner exists.
ClearClaims(r, o, want) ==
    LET rows == {x \in claims : x[1] = o} IN
    /\ reqs[r].step = "idle"
    /\ claims' = claims \ rows
    /\ strays' = strays \ rows
    /\ Step(r, [Idle EXCEPT !.op = "claims", !.step = "add", !.owner = o,
                            !.want = want, !.toAdd = want],
            LAMBDA q : SetsClaims(o, q), ClaimsOf(o))
    /\ UNCHANGED <<users, roles, members>>

AddClaim(r, c) ==
    LET row == <<reqs[r].owner, c>> IN
    /\ reqs[r].op = "claims" /\ reqs[r].step = "add"
    /\ c \in reqs[r].toAdd
    /\ claims' = claims \cup {row}
    /\ strays' = IF row \notin claims /\ Unsettled(row[1]) THEN strays \cup {row}
                                                           ELSE strays
    /\ Step(r, [reqs[r] EXCEPT !.toAdd = @ \ {c}],
            LAMBDA q : SetsClaims(row[1], q), {c})
    /\ UNCHANGED <<users, roles, members>>

\* 204 No Content, for both kinds of handler.
Finish(r) ==
    /\ reqs[r].step = "add"
    /\ reqs[r].toAdd = {}
    /\ Goto(r, [reqs[r] EXCEPT !.step = "answer"])
    /\ UNCHANGED <<users, roles, members, claims, strays>>

Answer(r) ==
    /\ reqs[r].step = "answer"
    /\ Goto(r, Idle)
    /\ UNCHANGED <<users, roles, members, claims, strays>>

-----------------------------------------------------------------------------
(* Accounts *)

CreateUser(u) ==
    /\ u \notin users
    /\ users' = users \cup {u}
    /\ UNCHANGED <<roles, members, claims, reqs, strays>>

\* DeleteUser, after the handler has ended the sessions (see Accounts): the
\* claims, the memberships, then the account itself.
DeleteUser(r, u) ==
    LET rows == {x \in claims : x[1] = u} IN
    /\ reqs[r].step = "idle"
    /\ claims' = claims \ rows
    /\ strays' = strays \ rows
    /\ Step(r, [Idle EXCEPT !.op = "deleteUser", !.step = "members", !.owner = u],
            LAMBDA q : SetsClaims(u, q), ClaimsOf(u))
    /\ UNCHANGED <<users, roles, members>>

DeleteUserRoles(r) ==
    LET u == reqs[r].owner
        rows == {x \in members : x[1] = u} IN
    /\ reqs[r].op = "deleteUser" /\ reqs[r].step = "members"
    /\ members' = members \ rows
    /\ strays' = strays \ rows
    /\ Step(r, [reqs[r] EXCEPT !.step = "row"],
            LAMBDA q : SetsRoles(u, q), NamesOf(RolesOf(u)))
    /\ UNCHANGED <<users, roles, claims>>

DeleteUserRow(r) ==
    /\ reqs[r].op = "deleteUser" /\ reqs[r].step = "row"
    /\ users' = users \ {reqs[r].owner}
    /\ Goto(r, Idle)
    /\ UNCHANGED <<roles, members, claims, strays>>

-----------------------------------------------------------------------------
(* Roles *)

\* Primary key and name are unique; anything else is refused.
CreateRole(i, n) ==
    /\ roles[i] = None /\ Named(n) = {}
    /\ roles' = [roles EXCEPT ![i] = n]
    /\ reqs' = [s \in Requests |->
                  IF SetsAnyRoles(reqs[s]) THEN [reqs[s] EXCEPT !.contested = @ \cup {n}]
                                           ELSE reqs[s]]
    /\ UNCHANGED <<users, members, claims, strays>>

UpdateRole(r, i, n) ==
    /\ reqs[r].step = "idle"
    /\ roles[i] # None
    /\ Goto(r, [Idle EXCEPT !.op = "updateRole", !.step = "save", !.owner = i, !.name = n])
    /\ UNCHANGED <<users, roles, members, claims, strays>>

\* Save inserts the row again if it was deleted meanwhile; a name that another
\* role has is refused by the index.
SaveRole(r) ==
    LET i == reqs[r].owner
        n == reqs[r].name IN
    /\ reqs[r].step = "save"
    /\ \/ /\ Named(n) \subseteq {i}
          /\ roles' = [roles EXCEPT ![i] = n]
          /\ Step(r, Idle, SetsAnyRoles, {n} \cup NamesOf({i}))
       \/ /\ ~(Named(n) \subseteq {i})
          /\ Goto(r, Idle)
          /\ UNCHANGED roles
    /\ UNCHANGED <<users, members, claims, strays>>

\* Mutant: the role goes first, what refers to it afterwards.
DeleteRoleFirst(r, i) ==
    /\ reqs[r].step = "idle"
    /\ roles' = [roles EXCEPT ![i] = None]
    /\ Step(r, [Idle EXCEPT !.op = "deleteRole", !.step = "claims", !.owner = i],
            SetsAnyRoles, NamesOf({i}))
    /\ UNCHANGED <<users, members, claims, strays>>

DeleteRole(r, i) ==
    LET rows == {x \in members : x[2] = i} IN
    /\ reqs[r].step = "idle"
    /\ members' = members \ rows
    /\ strays' = strays \ rows
    /\ Step(r, [Idle EXCEPT !.op = "deleteRole", !.step = "claims", !.owner = i],
            SetsAnyRoles, NamesOf({i}))
    /\ UNCHANGED <<users, roles, claims>>

DeleteRoleClaims(r) ==
    LET i == reqs[r].owner
        rows == {x \in claims : x[1] = i} IN
    /\ reqs[r].op = "deleteRole" /\ reqs[r].step = "claims"
    /\ claims' = claims \ rows
    /\ strays' = strays \ rows
    /\ Step(r, [reqs[r] EXCEPT !.step = "row"], LAMBDA q : SetsClaims(i, q), ClaimsOf(i))
    /\ UNCHANGED <<users, roles, members>>

DeleteRoleRow(r) ==
    LET i == reqs[r].owner IN
    /\ reqs[r].op = "deleteRole" /\ reqs[r].step = "row"
    /\ roles' = [roles EXCEPT ![i] = None]
    /\ Step(r, Idle, SetsAnyRoles, NamesOf({i}))
    /\ UNCHANGED <<users, members, claims, strays>>

\* A statement fails or the process dies: the statements before it stay.
Abort(r) ==
    /\ reqs[r].step \notin {"idle", "answer"}
    /\ Goto(r, Idle)
    /\ UNCHANGED <<users, roles, members, claims, strays>>

-----------------------------------------------------------------------------
RolesStep(r) ==
    \/ \E u \in Users, want \in SUBSET Names : SetUserRoles(r, u, want)
    \/ ReadNames(r)
    \/ \E n \in Names : RemoveLookup(r, n) \/ AddLookup(r, n)
    \/ RemoveDelete(r) \/ RemoveDone(r) \/ AddInsert(r)

ClaimsStep(r) ==
    \/ \E o \in Owners, want \in SUBSET Claims : ClearClaims(r, o, want)
    \/ \E c \in Claims : AddClaim(r, c)

RowStep(r) ==
    \/ \E u \in Users : DeleteUser(r, u)
    \/ DeleteUserRoles(r) \/ DeleteUserRow(r)
    \/ \E i \in RoleIds, n \in Names : UpdateRole(r, i, n)
    \/ SaveRole(r)
    \/ \E i \in RoleIds : DeleteRole(r, i)
    \/ DeleteRoleClaims(r) \/ DeleteRoleRow(r)

Next ==
    \/ \E r \in Requests : RolesStep(r) \/ ClaimsStep(r) \/ RowStep(r)
                             \/ Finish(r) \/ Answer(r) \/ Abort(r)
    \/ \E u \in Users : CreateUser(u)
    \/ \E i \in RoleIds, n \in Names : CreateRole(i, n)

Spec == Init /\ [][Next]_vars

-----------------------------------------------------------------------------
(* Properties *)

\* setUserRoles answers 204 only when, for every role that no concurrent
\* handler changed, the user holds it exactly if the body lists it; the roles
\* were read by two statements before the first was changed.
RolesTookEffect ==
    \A r \in Requests :
        (reqs[r].op = "roles" /\ reqs[r].step = "answer")
          => \A n \in Names \ reqs[r].contested :
                n \in reqs[r].want <=> n \in NamesOf(RolesOf(reqs[r].owner))

\* ReplaceUserClaims and ReplaceRoleClaims, a delete and inserts without a
\* transaction: at the answer the owner has exactly the claims of the body,
\* but for those a concurrent handler touched.
ClaimsTookEffect ==
    \A r \in Requests :
        (reqs[r].op = "claims" /\ reqs[r].step = "answer")
          => \A c \in Claims \ reqs[r].contested :
                c \in reqs[r].want <=> c \in ClaimsOf(reqs[r].owner)

\* DeleteUser and DeleteRole remove an owner's row last, so a deletion that
\* fails half-way can be repeated: a membership or claim without its user or
\* role was inserted before that owner existed or while it was being deleted,
\* never left behind by a deletion.
OrphansOnlyFromRaces ==
    /\ \A x \in members : (x[1] \notin users \/ roles[x[2]] = None) => x \in strays
    /\ \A x \in claims : (x[1] \notin users /\ (x[1] \in RoleIds => roles[x[1]] = None))
                            => x \in strays

-----------------------------------------------------------------------------
(* The strengthening of the three properties, in parts *)

\* What a handler has put into its local variables.
Local(q) ==
    /\ q.step = "idle" <=> q.op = "none"
    /\ q.op = "roles" =>
         /\ q.owner \in Users /\ q.want \subseteq Names /\ q.toAdd \subseteq q.want
         /\ q.toRemove \cap q.want = {}
         /\ q.step \in {"names", "remove", "delete", "add", "insert", "answer"}
         /\ q.step \in {"delete", "insert"} => q.at \in RoleIds
    /\ q.op = "claims" =>
         /\ q.owner \in Owners /\ q.want \subseteq Claims /\ q.toAdd \subseteq q.want
         /\ q.step \in {"add", "answer"}
    /\ q.step = "answer" => q.toAdd = {}
    /\ q.op = "deleteUser" => q.owner \in Users /\ q.step \in {"members", "row"}
    /\ q.op = "updateRole" => q.owner \in RoleIds /\ q.name \in Names /\ q.step = "save"
    /\ q.op = "deleteRole" => q.owner \in RoleIds /\ q.step \in {"claims", "row"}

\* What is left of an owner that is being deleted has come back meanwhile.
Cleared(q) ==
    /\ q.op = "deleteUser" =>
         /\ \A x \in claims : x[1] = q.owner => x \in strays
         /\ q.step = "row" => \A x \in members : x[1] = q.owner => x \in strays
    /\ q.op = "deleteRole" =>
         /\ \A x \in members : x[2] = q.owner => x \in strays
         /\ q.step = "row" => \A x \in claims : x[1] = q.owner => x \in strays

\* The claims nobody else touched are those added so far.
ClaimsSoFar(q) ==
    q.op = "claims" =>
      \A c \in Claims \ q.contested :
          <<q.owner, c>> \in claims <=> c \in q.want \ q.toAdd

Holds(u, n) == \E i \in RoleIds : <<u, i>> \in members /\ roles[i] = n

\* The role names nobody else touched are those still to be removed and those
\* had or added so far; the role looked up last is on its way.
RolesSoFar(q) ==
    q.op = "roles" =>
      \A n \in Names \ q.contested :
        LET held == Holds(q.owner, n)
            looked == roles[q.at] = n
            had == n \in q.want \ q.toAdd IN
        /\ q.step = "names" => (held <=> \E i \in q.ids : roles[i] = n)
        /\ q.step = "remove" => (held <=> n \in q.toRemove \/ had)
        /\ q.step = "delete" => /\ held <=> looked \/ n \in q.toRemove \/ had
                                /\ looked => n \notin q.toRemove \cup q.want
        /\ q.step \in {"add", "answer"} => (held <=> had)
        /\ q.step = "insert" => /\ held <=> ~looked /\ had
                                /\ looked => had

UniqueNames == \A i, j \in RoleIds : roles[i] = roles[j] /\ roles[i] # None => i = j

DirInv ==
    /\ TypeOK
    /\ UniqueNames
    /\ OrphansOnlyFromRaces
    /\ \A r \in Requests :
         /\ Local(reqs[r]) /\ Cleared(reqs[r])
         /\ ClaimsSoFar(reqs[r]) /\ RolesSoFar(reqs[r])
=============================================================================
