------------------------------- MODULE Registry -------------------------------
(***************************************************************************)
(* Client registrations in the database, under the admin API and under the *)
(* seeding that every boot with AUTH_SEED set performs: an instance probes *)
(* four tables and, when all are empty, writes the demo fixtures one       *)
(* statement at a time (cmd/authserver/main.go).  Scopes, the admin role,  *)
(* the demo user and its membership are fixtures too; they are rows that   *)
(* are there or not.                                                       *)
(***************************************************************************)
EXTENDS Clients, FiniteSets

CONSTANTS
    ClientIds, Scopes,
    Seeded,       \* the registration each seeded client starts with
    Bodies,       \* bodies of createClient and updateClient
    Instances,    \* processes that boot: servers and the migrate command
    Requests,     \* updateClient handlers in flight
    MaxChanges,   \* bound of the model: changes made by operators
    MaxBoots,     \* bound of the model: boots of all instances
    None

ASSUME BodiesAssumption == Bodies \subseteq [client : Client, profile : Profiles]
ASSUME SeededAssumption ==
    /\ DOMAIN Seeded \subseteq ClientIds /\ IsFiniteSet(DOMAIN Seeded)
    /\ \A k \in DOMAIN Seeded : Seeded[k] \in Client
ASSUME BoundsAssumption == MaxChanges \in Nat /\ MaxBoots \in Nat

VARIABLES
    clients,   \* oauth_clients: id -> row
    others,    \* the other fixtures that have a row
    edits,     \* updateClient handlers between lookup and Save
    boots,     \* how far each instance has come
    asked,     \* history: the profile a client was last saved with
    edited,    \* history: the keys operators changed or deleted
    changes,   \* history: how many changes operators made
    seeds,     \* history: "never", "done" or "cut" (an instance died seeding)
    starts     \* history: how many boots there were

vars == <<clients, others, edits, boots, asked, edited, changes, seeds, starts>>

-----------------------------------------------------------------------------
People == {"role", "user", "member"}
Keys == ClientIds \cup Scopes \cup People

\* One row is one fixture; the tables are kept apart.
ASSUME KeysAssumption ==
    /\ IsFiniteSet(Scopes)
    /\ ClientIds \cap Scopes = {} /\ (ClientIds \cup Scopes) \cap People = {}

ASSUME NoneAssumption ==
    /\ \A k \in DOMAIN Seeded : toClientEntity(Seeded[k]) # None
    /\ \A body \in Bodies : toClientEntity(Submitted(body)) # None
    /\ None \notin [id : ClientIds, body : Bodies]

\* Mutant: the user is made an admin before there is a role.
FixturesRoleLast ==
    SetToSeq(Scopes) \o SetToSeq(DOMAIN Seeded) \o <<"user", "member", "role">>

\* The order in which seedBundle writes.
Fixtures == SetToSeq(Scopes) \o SetToSeq(DOMAIN Seeded) \o <<"role", "user", "member">>

\* The order in which bundleHasData probes.
Probes == <<"users", "clients", "scopes", "roles">>

\* left, the probes and later the fixtures still to come; vacant is history:
\* whether the boot had reason to find the database empty, because it was when
\* the boot began or because operators changed it between the probes.
Boot == [step : {"down", "probe", "seed", "serve"}, left : Seq(Keys \cup ToSet(Probes)),
         vacant : BOOLEAN]

Down == [step |-> "down", left |-> <<>>, vacant |-> FALSE]

\* The type invariant.
TypeOK ==
    /\ \A c \in ClientIds : clients[c] = None \/ toDomain(clients[c]) \in Client
    /\ others \subseteq Keys \ ClientIds
    /\ boots \in [Instances -> Boot]
    /\ asked \in [ClientIds -> Profiles]
    /\ edited \subseteq Keys
    /\ changes \in Nat
    /\ seeds \in {"never", "done", "cut"}
    /\ starts \in Nat

\* The schema has been migrated, nothing has been stored.
Init ==
    /\ clients = [c \in ClientIds |-> None]
    /\ others = {}
    /\ edits = [r \in Requests |-> None]
    /\ boots = [i \in Instances |-> Down]
    /\ asked = [c \in ClientIds |-> ""]
    /\ edited = {}
    /\ changes = 0
    /\ seeds = "never"
    /\ starts = 0

Rows(table) ==
    CASE table = "users" -> others \cap {"user"}
      [] table = "clients" -> {c \in ClientIds : clients[c] # None}
      [] table = "scopes" -> others \cap Scopes
      [] table = "roles" -> others \cap {"role"}

DatabaseEmpty == \A t \in ToSet(Probes) : Rows(t) = {}

-----------------------------------------------------------------------------
(* seedBundle *)

\* Without AUTH_SEED nothing is probed.
Start(i, enabled) ==
    /\ boots[i].step = "down"
    /\ starts < MaxBoots
    /\ starts' = starts + 1
    /\ boots' = [boots EXCEPT ![i] =
         [step |-> IF enabled THEN "probe" ELSE "serve",
          left |-> IF enabled THEN Probes ELSE <<>>,
          vacant |-> DatabaseEmpty]]
    /\ UNCHANGED <<clients, others, edits, asked, edited, changes, seeds>>

\* Mutant: the last probe is forgotten.
ProbeThree(i) ==
    LET b == boots[i] IN
    /\ b.step = "probe"
    /\ boots' = [boots EXCEPT ![i] =
         IF Rows(Head(b.left)) # {} THEN [b EXCEPT !.step = "serve", !.left = <<>>]
         ELSE IF Len(b.left) = 2 THEN [b EXCEPT !.step = "seed", !.left = Fixtures]
         ELSE [b EXCEPT !.left = Tail(@)]]
    /\ seeds' = IF boots'[i].step = "seed" /\ seeds = "never" THEN "done" ELSE seeds
    /\ UNCHANGED <<clients, others, edits, asked, edited, changes, starts>>

\* bundleHasData, one statement.
Probe(i) ==
    LET b == boots[i] IN
    /\ b.step = "probe"
    /\ boots' = [boots EXCEPT ![i] =
         IF Rows(Head(b.left)) # {} THEN [b EXCEPT !.step = "serve", !.left = <<>>]
         ELSE IF Len(b.left) = 1 THEN [b EXCEPT !.step = "seed", !.left = Fixtures]
         ELSE [b EXCEPT !.left = Tail(@)]]
    /\ seeds' = IF boots'[i].step = "seed" /\ seeds = "never" THEN "done" ELSE seeds
    /\ UNCHANGED <<clients, others, edits, asked, edited, changes, starts>>

\* Store of a scope or client overwrites; CreateRole, CreateUser and the insert
\* of the membership leave a row that is there alone.
SeedWrites(k) ==
    IF k \in ClientIds
    THEN /\ clients' = [clients EXCEPT ![k] = toClientEntity(Seeded[k])]
         /\ asked' = [asked EXCEPT ![k] = ""]
         /\ UNCHANGED others
    ELSE others' = others \cup {k} /\ UNCHANGED <<clients, asked>>

\* One statement of the seeding.  AddToRoles looks the role up by name and ends
\* the boot with an error when an operator has removed it.
Seed(i) ==
    LET b == boots[i]
        k == Head(b.left) IN
    /\ b.step = "seed"
    /\ \/ /\ k = "member" /\ "role" \notin others
          /\ boots' = [boots EXCEPT ![i] = Down]
          /\ UNCHANGED <<clients, others, asked, edited>>
       \/ /\ k = "member" => "role" \in others
          /\ SeedWrites(k)
          /\ edited' = edited \ {k}
          /\ boots' = [boots EXCEPT ![i] =
               IF Len(b.left) = 1 THEN [b EXCEPT !.step = "serve", !.left = <<>>]
                                  ELSE [b EXCEPT !.left = Tail(@)]]
    /\ UNCHANGED <<edits, changes, seeds, starts>>

\* The process stops, or a statement of the boot fails.
Stop(i) ==
    /\ boots[i].step # "down"
    /\ boots' = [boots EXCEPT ![i] = Down]
    /\ seeds' = IF boots[i].step = "seed" THEN "cut" ELSE seeds
    /\ UNCHANGED <<clients, others, edits, asked, edited, changes, starts>>

-----------------------------------------------------------------------------
(* The admin API, on an instance that serves *)

Serving == \E i \in Instances : boots[i].step = "serve"

\* Operators changed ks: the history of it.
Changed(ks) ==
    /\ Serving
    /\ changes < MaxChanges
    /\ changes' = changes + 1
    /\ edited' = edited \cup ks
    /\ boots' = [i \in Instances |->
         IF boots[i].step = "probe" THEN [boots[i] EXCEPT !.vacant = TRUE] ELSE boots[i]]

\* createClient: Save overwrites a client that has the id already.
CreateClient(c, body) ==
    /\ Valid(Submitted(body))
    /\ clients' = [clients EXCEPT ![c] = toClientEntity(Submitted(body))]
    /\ asked' = [asked EXCEPT ![c] = body.profile]
    /\ Changed({c})
    /\ UNCHANGED <<others, edits, seeds, starts>>

\* updateClient looks the client up and refuses an invalid body ...
UpdateFind(r, c, body) ==
    /\ Serving /\ changes < MaxChanges
    /\ edits[r] = None
    /\ clients[c] # None
    /\ Valid(Submitted(body))
    /\ edits' = [edits EXCEPT ![r] = [id |-> c, body |-> body]]
    /\ UNCHANGED <<clients, others, boots, asked, edited, changes, seeds, starts>>

\* ... and Save inserts the row again if it was deleted meanwhile.
UpdateStore(r) ==
    /\ edits[r] # None
    /\ clients' = [clients EXCEPT ![edits[r].id] = toClientEntity(Submitted(edits[r].body))]
    /\ asked' = [asked EXCEPT ![edits[r].id] = edits[r].body.profile]
    /\ edits' = [edits EXCEPT ![r] = None]
    /\ Changed({edits[r].id})
    /\ UNCHANGED <<others, seeds, starts>>

\* A statement of updateClient fails, or its process dies.
UpdateFails(r) ==
    /\ edits[r] # None
    /\ edits' = [edits EXCEPT ![r] = None]
    /\ UNCHANGED <<clients, others, boots, asked, edited, changes, seeds, starts>>

DeleteClient(c) ==
    /\ clients[c] # None
    /\ clients' = [clients EXCEPT ![c] = None]
    /\ Changed({c})
    /\ UNCHANGED <<others, edits, asked, seeds, starts>>

\* createScope, updateScope, createRole, createUser, setUserRoles: the row is
\* there afterwards.
PutOther(k) ==
    /\ k = "member" => "role" \in others
    /\ others' = others \cup {k}
    /\ Changed({k})
    /\ UNCHANGED <<clients, edits, asked, seeds, starts>>

\* deleteScope, deleteRole, deleteUser, setUserRoles; a deleted role or user
\* takes the membership along.
DeleteOther(k) ==
    LET gone == IF k \in {"role", "user"} THEN {k, "member"} ELSE {k} IN
    /\ k \in others
    /\ others' = others \ gone
    /\ Changed(gone)
    /\ UNCHANGED <<clients, edits, asked, seeds, starts>>

-----------------------------------------------------------------------------
Next ==
    \/ \E i \in Instances :
          (\E enabled \in BOOLEAN : Start(i, enabled)) \/ Probe(i) \/ Seed(i) \/ Stop(i)
    \/ \E c \in ClientIds :
          \/ DeleteClient(c)
          \/ \E body \in Bodies :
                CreateClient(c, body) \/ \E r \in Requests : UpdateFind(r, c, body)
    \/ \E r \in Requests : UpdateStore(r) \/ UpdateFails(r)
    \/ \E k \in Scopes \cup People : PutOther(k) \/ DeleteOther(k)

Spec == Init /\ [][Next]_vars

-----------------------------------------------------------------------------
(* Properties *)

\* Whatever mixture of bodies, profiles, handlers and seeding wrote a client,
\* its row decodes to a client whose fields agree with each other; the seeded
\* clients never pass through Normalize or Validate.
StoredClientsConsistent ==
    \A c \in ClientIds : clients[c] # None => Consistent(toDomain(clients[c]))

\* ApplyProfile and Profile agree across normalisation and the database: a
\* client saved as spa, web or m2m is listed as that, and the interactive ones
\* demand PKCE.
ProfileKept ==
    \A c \in ClientIds :
        (clients[c] # None /\ asked[c] \in {"spa", "web", "m2m"})
          => /\ Profile(toDomain(clients[c])) = asked[c]
             /\ asked[c] # "m2m" => clients[c].requirePKCE

\* "restarts never overwrite operator edits or resurrect deleted demo fixtures":
\* a seeding writes what an operator changed only if the database was empty when
\* its boot began, or operators changed it while the boot was probing.
SeedKeepsEdits ==
    [][\A i \in Instances :
          (boots[i].step = "seed" /\ Seed(i) /\ Head(boots[i].left) \in edited)
            => boots[i].vacant]_vars

\* A seeding that no process died in leaves every fixture, whichever instances
\* seeded at the same time, but for what operators changed.
SeedComplete ==
    (seeds = "done" /\ \A i \in Instances : boots[i].step # "seed")
      => \A k \in ToSet(Fixtures) :
            k \in edited \cup others \/ (k \in ClientIds /\ clients[k] # None)

-----------------------------------------------------------------------------
(* The strengthening of the four properties, in parts *)

Accepted == {body \in Bodies : Valid(Submitted(body))}

\* Who wrote the row of c: a seeding, or a handler with an accepted body.
Origin(c) ==
    \/ c \in DOMAIN Seeded /\ clients[c] = toClientEntity(Seeded[c]) /\ asked[c] = ""
    \/ \E body \in Accepted :
          clients[c] = toClientEntity(Submitted(body)) /\ asked[c] = body.profile

RowsKnown ==
    /\ clients = [c \in ClientIds |-> clients[c]]
    /\ asked \in [ClientIds -> Profiles]
    /\ \A c \in ClientIds : clients[c] # None => Origin(c)
    /\ edits \in [Requests -> {None} \cup [id : ClientIds, body : Accepted]]

\* A boot that found data, and saw no operator at work, will find data again.
Probing(b) ==
    b.step = "probe" =>
      /\ b.left \in Seq(ToSet(Probes)) /\ b.left # <<>>
      /\ ~b.vacant => \E t \in ToSet(b.left) : Rows(t) # {}

\* The membership comes last, and the role it needs is still to come, is there,
\* or was deleted by an operator.
Seeding(b) ==
    b.step = "seed" =>
      /\ b.vacant
      /\ b.left \in Seq(ToSet(Fixtures)) /\ b.left # <<>>
      /\ \A j \in DOMAIN b.left : b.left[j] = "member" => j = Len(b.left)
      /\ "role" \in ToSet(b.left) \cup others \/ "member" \in edited

\* Once one seeding has begun, and none was cut, each fixture is there, was
\* changed by an operator, or will still be written.
Accounted(k) ==
    \/ k \in edited \cup others
    \/ k \in ClientIds /\ clients[k] # None
    \/ \E i \in Instances : boots[i].step = "seed" /\ k \in ToSet(boots[i].left)

RegInv ==
    /\ RowsKnown
    /\ boots \in [Instances -> Boot]
    /\ \A i \in Instances : Probing(boots[i]) /\ Seeding(boots[i])
    /\ seeds = "done" => \A k \in ToSet(Fixtures) : Accounted(k)
=============================================================================
