-------------------------- MODULE Directory_proofs --------------------------
(***************************************************************************)
(* Proofs about Directory, for any accounts, roles, names, claims and      *)
(* handlers: DirInv is inductive, and the three properties follow from it. *)
(***************************************************************************)
EXTENDS Directory, TLAPS

Good(q) == Local(q) /\ Cleared(q) /\ ClaimsSoFar(q) /\ RolesSoFar(q)

\* p is the handler q, and others have contested more of what it sets.
Same(q, p) ==
    /\ p.op = q.op /\ p.step = q.step /\ p.owner = q.owner /\ p.name = q.name
    /\ p.want = q.want /\ p.ids = q.ids /\ p.toRemove = q.toRemove
    /\ p.toAdd = q.toAdd /\ p.at = q.at /\ q.contested \subseteq p.contested

Contest(q, xs) == [q EXCEPT !.contested = @ \cup xs]

\* Step, with the handlers concerned as a set.
Steps(r, q, P, xs) ==
    reqs' = [s \in Requests |->
               CASE s = r -> q
                 [] s # r /\ s \in P -> Contest(reqs[s], xs)
                 [] OTHER -> reqs[s]]

\* What such a step does: r is q now, the others are what they were but for what
\* those concerned call contested.
Stepped(r, q, P, xs) ==
    /\ reqs' \in [Requests -> Request] /\ reqs'[r] = q
    /\ \A s \in Requests \ {r} :
         /\ Same(reqs[s], reqs'[s])
         /\ s \in P => reqs'[s].contested = reqs[s].contested \cup xs

\* What the handler q reads, but for what p calls contested, the step leaves.
ClaimsFrame(q, p) ==
    q.op = "claims" =>
      \A c \in Claims \ p.contested :
          <<q.owner, c>> \in claims' <=> <<q.owner, c>> \in claims

RolesFrame(q, p) ==
    q.op = "roles" =>
      \A n \in Names \ p.contested :
          /\ Holds(q.owner, n)' <=> Holds(q.owner, n)
          /\ \A i \in RoleIds : roles'[i] = n <=> roles[i] = n

\* Strays remain strays while their row is there, and a new row is one unless
\* its owners have rows and nobody is deleting them.
StraysKept ==
    /\ \A x \in members' : IF x \in members THEN x \in strays => x \in strays'
                           ELSE x \in strays' \/ (~Unsettled(x[1]) /\ ~Unsettled(x[2]))
    /\ \A x \in claims' : IF x \in claims THEN x \in strays => x \in strays'
                          ELSE x \in strays' \/ ~Unsettled(x[1])

-----------------------------------------------------------------------------
(* The invariant and its frames *)

LEMMA DirInvParts ==
    /\ DirInv <=> /\ TypeOK /\ UniqueNames /\ OrphansOnlyFromRaces
                  /\ \A r \in Requests : Good(reqs[r])
    /\ DirInv' <=> /\ TypeOK' /\ UniqueNames' /\ OrphansOnlyFromRaces'
                   /\ \A r \in Requests : Good(reqs[r])'
BY DEF DirInv, Good

LEMMA IdleFacts ==
    /\ Idle \in Request /\ Idle.op = "none" /\ Idle.step = "idle"
    /\ Good(Idle) /\ Good(Idle)'
<1>1. /\ Idle \in Request /\ Idle.op = "none" /\ Idle.step = "idle"
      /\ Idle.toAdd = {} /\ Idle.contested = {} /\ Idle.toRemove = {} /\ Idle.ids = {}
      /\ Idle.want = {} /\ Idle.name = None /\ Idle.owner = None /\ Idle.at = None
  BY DEF Idle, Request
<1>. QED
  BY <1>1 DEF Good, Local, Cleared, ClaimsSoFar, RolesSoFar

LEMMA SameRefl == ASSUME NEW q \in Request PROVE Same(q, q)
BY DEF Same

LEMMA ContestFacts ==
    ASSUME NEW q \in Request, NEW xs \in SUBSET (Names \cup Claims)
    PROVE  /\ Contest(q, xs) \in Request /\ Same(q, Contest(q, xs))
           /\ Contest(q, xs).contested = q.contested \cup xs
BY DEF Contest, Request, Same

LEMMA SameLocal ==
    ASSUME NEW q, NEW p, Same(q, p), Local(q)
    PROVE  Local(p)
BY DEF Same, Local

LEMMA SameClaims ==
    ASSUME NEW q, NEW p, Same(q, p), ClaimsSoFar(q), ClaimsFrame(q, p)
    PROVE  ClaimsSoFar(p)'
BY DEF Same, ClaimsSoFar, ClaimsFrame

LEMMA SameRoles ==
    ASSUME NEW q \in Request, NEW p \in Request, Same(q, p), Local(q),
           RolesSoFar(q), RolesFrame(q, p)
    PROVE  RolesSoFar(p)'
<1>. SUFFICES ASSUME p.op = "roles", NEW n \in Names \ p.contested
              PROVE  /\ p.step = "names" =>
                          (Holds(p.owner, n)' <=> \E i \in p.ids : roles'[i] = n)
                     /\ p.step = "remove" =>
                          (Holds(p.owner, n)' <=>
                             n \in p.toRemove \/ n \in p.want \ p.toAdd)
                     /\ p.step = "delete" =>
                          /\ Holds(p.owner, n)' <=>
                               roles'[p.at] = n \/ n \in p.toRemove \/ n \in p.want \ p.toAdd
                          /\ roles'[p.at] = n => n \notin p.toRemove \cup p.want
                     /\ p.step \in {"add", "answer"} =>
                          (Holds(p.owner, n)' <=> n \in p.want \ p.toAdd)
                     /\ p.step = "insert" =>
                          /\ Holds(p.owner, n)' <=>
                               ~(roles'[p.at] = n) /\ n \in p.want \ p.toAdd
                          /\ roles'[p.at] = n => n \in p.want \ p.toAdd
  BY DEF RolesSoFar
<1>1. q.op = "roles" /\ n \in Names \ q.contested
  BY DEF Same
<1>2. Holds(p.owner, n)' <=> Holds(q.owner, n)
  BY <1>1 DEF RolesFrame, Same
<1>3. \A i \in RoleIds : roles'[i] = n <=> roles[i] = n
  BY <1>1 DEF RolesFrame
<1>4. p.ids \subseteq RoleIds /\ (p.step \in {"delete", "insert"} => p.at \in RoleIds)
  BY <1>1 DEF Request, Same, Local
<1>5. /\ q.step = "names" => (Holds(q.owner, n) <=> \E i \in q.ids : roles[i] = n)
      /\ q.step = "remove" => (Holds(q.owner, n) <=>
                                 n \in q.toRemove \/ n \in q.want \ q.toAdd)
      /\ q.step = "delete" =>
           /\ Holds(q.owner, n) <=> roles[q.at] = n \/ n \in q.toRemove
                                    \/ n \in q.want \ q.toAdd
           /\ roles[q.at] = n => n \notin q.toRemove \cup q.want
      /\ q.step \in {"add", "answer"} => (Holds(q.owner, n) <=> n \in q.want \ q.toAdd)
      /\ q.step = "insert" =>
           /\ Holds(q.owner, n) <=> ~(roles[q.at] = n) /\ n \in q.want \ q.toAdd
           /\ roles[q.at] = n => n \in q.want \ q.toAdd
  BY <1>1 DEF RolesSoFar
<1>6. /\ p.step = q.step /\ p.ids = q.ids /\ p.toRemove = q.toRemove
      /\ p.want = q.want /\ p.toAdd = q.toAdd /\ p.at = q.at
  BY DEF Same
<1>. QED
  BY <1>2, <1>3, <1>4, <1>5, <1>6

\* An owner somebody deletes is unsettled.
LEMMA SameCleared ==
    ASSUME DirInv, StraysKept, NEW s \in Requests, NEW p, Same(reqs[s], p)
    PROVE  Cleared(p)'
<1>. DEFINE q == reqs[s]
<1>1. Cleared(q)
  BY DirInvParts DEF Good
<1>2. q.op \in {"deleteUser", "deleteRole"} => Unsettled(q.owner)
  BY DEF Unsettled
<1>. QED
  BY <1>1, <1>2 DEF Cleared, Same, StraysKept

LEMMA OtherGood ==
    ASSUME DirInv, StraysKept, NEW s \in Requests, NEW p \in Request,
           Same(reqs[s], p), ClaimsFrame(reqs[s], p), RolesFrame(reqs[s], p)
    PROVE  Good(p)'
<1>1. Good(reqs[s]) /\ reqs[s] \in Request
  BY DirInvParts DEF TypeOK
<1>. QED
  BY <1>1, SameLocal, SameClaims, SameRoles, SameCleared DEF Good, Local

LEMMA StillOrphans ==
    ASSUME DirInv, StraysKept, users \subseteq users', TypeOK',
           \A i \in RoleIds : roles[i] # None => roles'[i] # None
    PROVE  OrphansOnlyFromRaces'
<1>1. ASSUME NEW x \in members', x[1] \notin users' \/ roles'[x[2]] = None
      PROVE  x \in strays'
  <2>1. x[1] \in Users /\ x[2] \in RoleIds
    BY DEF TypeOK, Membership
  <2>2. x[1] \notin users \/ roles[x[2]] = None
    BY <1>1, <2>1
  <2>3. Unsettled(x[1]) \/ Unsettled(x[2])
    BY <2>1, <2>2 DEF Unsettled
  <2>. QED
    BY <2>2, <2>3, DirInvParts DEF OrphansOnlyFromRaces, StraysKept
<1>2. ASSUME NEW x \in claims', x[1] \notin users', x[1] \in RoleIds => roles'[x[1]] = None
      PROVE  x \in strays'
  <2>1. x[1] \in Owners
    BY DEF TypeOK, Claim
  <2>2. x[1] \notin users /\ (x[1] \in RoleIds => roles[x[1]] = None)
    BY <1>2
  <2>3. Unsettled(x[1])
    BY <2>1, <2>2 DEF Unsettled, Owners
  <2>. QED
    BY <2>2, <2>3, DirInvParts DEF OrphansOnlyFromRaces, StraysKept
<1>. QED
  BY <1>1, <1>2 DEF OrphansOnlyFromRaces

\* A statement that deletes rows, all of them of one table.
LEMMA RowsGone ==
    ASSUME TypeOK, NEW rows,
           \/ /\ rows \subseteq Membership /\ members' = members \ rows
              /\ claims' = claims
           \/ /\ rows \subseteq Claim /\ claims' = claims \ rows
              /\ members' = members,
           strays' = strays \ rows
    PROVE  StraysKept
<1>1. members \subseteq Membership /\ claims \subseteq Claim
  BY DEF TypeOK
<1>2. Membership \cap Claim = {}
  BY OwnersAssumption DEF Membership, Claim, Owners
<1>. QED
  BY <1>1, <1>2 DEF StraysKept

\* The frames of a step that leaves the roles or the memberships alone.
LEMMA QuietFrame ==
    ASSUME NEW q, NEW p, UNCHANGED <<roles, members>>
    PROVE  RolesFrame(q, p)
BY DEF RolesFrame, Holds

LEMMA QuietClaims ==
    ASSUME NEW q, NEW p, UNCHANGED claims
    PROVE  ClaimsFrame(q, p)
BY DEF ClaimsFrame

LEMMA MembersFrame ==
    ASSUME NEW q, NEW p, UNCHANGED roles,
           \A i \in RoleIds, n \in Names \ p.contested :
              roles[i] = n => (<<q.owner, i>> \in members' <=> <<q.owner, i>> \in members)
    PROVE  RolesFrame(q, p)
BY DEF RolesFrame, Holds

LEMMA RenameFrame ==
    ASSUME TypeOK, NEW q, NEW p, UNCHANGED members, NEW i \in RoleIds, NEW v,
           roles' = [roles EXCEPT ![i] = v], {v, roles[i]} \cap Names \subseteq p.contested
    PROVE  RolesFrame(q, p)
<1>1. ASSUME NEW n \in Names \ p.contested, NEW j \in RoleIds
      PROVE  roles'[j] = n <=> roles[j] = n
  BY DEF TypeOK
<1>. QED
  BY <1>1 DEF RolesFrame, Holds

\* A handler is good as long as the tables stay.
LEMMA GoodKept ==
    ASSUME NEW p, Good(p), UNCHANGED <<roles, members, claims, strays>>
    PROVE  Good(p)'
<1>1. \A u, n : Holds(u, n)' <=> Holds(u, n)
  BY DEF Holds
<1>2. Local(p)' /\ Cleared(p)'
  BY DEF Good, Local, Cleared
<1>3. ClaimsSoFar(p)'
  BY DEF Good, ClaimsSoFar
<1>4. RolesSoFar(p)'
  BY <1>1 DEF Good, RolesSoFar
<1>. QED
  BY <1>2, <1>3, <1>4 DEF Good

\* A step of a handler that changes no table.
LEMMA LocalStep ==
    ASSUME DirInv, NEW r \in Requests, NEW q \in Request, Goto(r, q), Good(q),
           UNCHANGED <<users, roles, members, claims, strays>>
    PROVE  DirInv'
<1>1. TypeOK
  BY DirInvParts
<1>2. reqs' \in [Requests -> Request] /\ reqs'[r] = q
      /\ \A s \in Requests \ {r} : reqs'[s] = reqs[s]
  BY <1>1 DEF TypeOK, Goto
<1>3. TypeOK' /\ UniqueNames' /\ OrphansOnlyFromRaces'
  BY <1>1, <1>2, DirInvParts DEF TypeOK, UniqueNames, OrphansOnlyFromRaces
<1>5. ASSUME NEW s \in Requests
      PROVE  Good(reqs[s])'
  <2>1. PICK p \in Request : p = reqs'[s] /\ Good(p)
    BY <1>1, <1>2, DirInvParts DEF TypeOK
  <2>2. Good(p)'
    BY <2>1, GoodKept
  <2>. QED
    BY <2>1, <2>2 DEF Good
<1>. QED
  BY <1>3, <1>5, DirInvParts

\* A step that changes a table: the handler that takes it by itself, the
\* others by their frames.
LEMMA TableStep ==
    ASSUME DirInv, UniqueNames', TypeOK', OrphansOnlyFromRaces', StraysKept,
           NEW R \in SUBSET Requests,
           \A s \in R : Good(reqs[s])',
           \A s \in Requests \ R :
              Same(reqs[s], reqs'[s]) /\ ClaimsFrame(reqs[s], reqs'[s])
                /\ RolesFrame(reqs[s], reqs'[s])
    PROVE  DirInv'
<1>1. ASSUME NEW s \in Requests \ R
      PROVE  Good(reqs[s])'
  <2>1. PICK p \in Request : p = reqs'[s]
    BY DEF TypeOK
  <2>2. Good(p)'
    BY <2>1, OtherGood
  <2>. QED
    BY <2>1, <2>2 DEF Good
<1>. QED
  BY <1>1, DirInvParts

\* What the step of one handler does to the others.
LEMMA StepFacts ==
    ASSUME TypeOK, NEW r \in Requests, NEW q \in Request,
           NEW xs \in SUBSET (Names \cup Claims), NEW P,
           Steps(r, q, P, xs)
    PROVE  Stepped(r, q, P, xs)
<1>1. /\ reqs \in [Requests -> Request]
      /\ \A s \in Requests : reqs[s] \in Request
  BY DEF TypeOK
<1>2. ASSUME NEW s \in Requests \ {r}
      PROVE  /\ reqs'[s] \in Request /\ Same(reqs[s], reqs'[s])
             /\ s \in P => reqs'[s].contested = reqs[s].contested \cup xs
  <2>1. reqs'[s] = IF s \in P THEN Contest(reqs[s], xs) ELSE reqs[s]
    BY DEF Steps
  <2>. QED
    BY <1>1, <2>1, ContestFacts, SameRefl
<1>3. reqs'[r] = q /\ reqs' = [s \in Requests |-> reqs'[s]]
  BY DEF Steps
<1>. QED
  BY <1>2, <1>3 DEF Stepped

LEMMA NamesFacts ==
    ASSUME NEW n \in Names
    PROVE  /\ \A ids : n \in NamesOf(ids) <=> \E i \in ids : roles[i] = n
           /\ \A u : n \in NamesOf(RolesOf(u)) <=> Holds(u, n)
BY OwnersAssumption DEF NamesOf, RolesOf, Holds

LEMMA NamesOfType ==
    ASSUME TypeOK, NEW ids \in SUBSET RoleIds
    PROVE  NamesOf(ids) \in SUBSET (Names \cup Claims)
BY DEF TypeOK, NamesOf

-----------------------------------------------------------------------------
(* setUserRoles *)

LEMMA SetUserRolesInv ==
    ASSUME DirInv, NEW r \in Requests, NEW u \in Users, NEW want \in SUBSET Names,
           SetUserRoles(r, u, want)
    PROVE  DirInv'
<1>. DEFINE q == [Idle EXCEPT !.op = "roles", !.owner = u, !.want = want,
                              !.step = IF RolesOf(u) = {} THEN "add" ELSE "names",
                              !.ids = RolesOf(u),
                              !.toAdd = IF RolesOf(u) = {} THEN want ELSE {}]
<1>1. Goto(r, q) /\ UNCHANGED <<users, roles, members, claims, strays>>
  BY DEF SetUserRoles
<1>2. RolesOf(u) \in SUBSET RoleIds
  BY DEF RolesOf
<1>3. /\ q \in Request /\ q.op = "roles" /\ q.owner = u /\ q.want = want
      /\ q.step = (IF RolesOf(u) = {} THEN "add" ELSE "names") /\ q.ids = RolesOf(u)
      /\ q.toAdd = (IF RolesOf(u) = {} THEN want ELSE {}) /\ q.toRemove = {}
  BY <1>2 DEF Idle, Request, Owners
<1>. HIDE DEF q
<1>4. Local(q)
  BY <1>3 DEF Local
<1>5. \A n \in Names : Holds(u, n) <=> \E i \in RolesOf(u) : roles[i] = n
  BY DEF Holds, RolesOf
<1>6. RolesSoFar(q)
  BY <1>3, <1>5 DEF RolesSoFar
<1>7. Good(q)
  BY <1>3, <1>4, <1>6 DEF Good, Cleared, ClaimsSoFar
<1>. QED
  BY <1>1, <1>3, <1>7, LocalStep

LEMMA ReadNamesInv ==
    ASSUME DirInv, NEW r \in Requests, ReadNames(r)
    PROVE  DirInv'
<1>. DEFINE p == reqs[r]
            existing == NamesOf(p.ids)
            q == [p EXCEPT !.step = "remove", !.ids = {},
                           !.toRemove = existing \ p.want,
                           !.toAdd = p.want \ existing]
<1>1. /\ p.step = "names" /\ Goto(r, q)
      /\ UNCHANGED <<users, roles, members, claims, strays>>
  BY DEF ReadNames
<1>2. p \in Request /\ Good(p) /\ TypeOK
  BY DirInvParts DEF TypeOK
<1>3. /\ p.op = "roles" /\ p.owner \in Users /\ p.want \subseteq Names
      /\ p.ids \subseteq RoleIds
  BY <1>1, <1>2 DEF Good, Local, Request
<1>4. existing \subseteq Names
  BY <1>2, <1>3 DEF TypeOK, NamesOf
<1>5. /\ q \in Request /\ q.op = "roles" /\ q.owner = p.owner /\ q.want = p.want
      /\ q.step = "remove" /\ q.toAdd = p.want \ existing
      /\ q.toRemove = existing \ p.want /\ q.contested = p.contested
  BY <1>2, <1>3, <1>4 DEF Request
<1>. HIDE DEF q
<1>6. Local(q)
  BY <1>3, <1>4, <1>5 DEF Local
<1>7. \A n \in Names \ p.contested : Holds(p.owner, n) <=> n \in existing
  BY <1>1, <1>2, <1>3, NamesFacts DEF Good, RolesSoFar
<1>8. RolesSoFar(q)
  BY <1>5, <1>7 DEF RolesSoFar
<1>9. Good(q)
  BY <1>5, <1>6, <1>8 DEF Good, Cleared, ClaimsSoFar
<1>. QED
  BY <1>1, <1>5, <1>9, LocalStep

\* A looked-up name leaves the list, and its role, if there is one, is next.
LEMMA RemoveLookupInv ==
    ASSUME DirInv, NEW r \in Requests, NEW n \in Names, RemoveLookup(r, n)
    PROVE  DirInv'
<1>. DEFINE p == reqs[r]
<1>1. /\ p.step = "remove" /\ n \in p.toRemove
      /\ UNCHANGED <<users, roles, members, claims, strays>>
  BY DEF RemoveLookup
<1>2. p \in Request /\ Good(p) /\ TypeOK /\ UniqueNames
  BY DirInvParts DEF TypeOK
<1>3. /\ p.op = "roles" /\ p.owner \in Users /\ p.want \subseteq Names
      /\ p.toAdd \subseteq p.want /\ p.toRemove \cap p.want = {} /\ p.toRemove \subseteq Names
  BY <1>1, <1>2 DEF Good, Local, Request
<1>4. \A m \in Names \ p.contested :
         Holds(p.owner, m) <=> m \in p.toRemove \/ m \in p.want \ p.toAdd
  BY <1>1, <1>2, <1>3 DEF Good, RolesSoFar
<1>5. CASE Named(n) = {} /\ Goto(r, [p EXCEPT !.toRemove = @ \ {n}])
  <2>. DEFINE q == [p EXCEPT !.toRemove = @ \ {n}]
  <2>1. /\ q \in Request /\ q.op = "roles" /\ q.owner = p.owner /\ q.want = p.want
        /\ q.step = "remove" /\ q.toAdd = p.toAdd
        /\ q.toRemove = p.toRemove \ {n} /\ q.contested = p.contested
    BY <1>1, <1>2, <1>3 DEF Request
  <2>. HIDE DEF q
  <2>2. Local(q)
    BY <1>3, <2>1 DEF Local
  <2>3. ~Holds(p.owner, n)
    BY <1>5 DEF Holds, Named
  <2>4. RolesSoFar(q)
    BY <1>4, <2>1, <2>3 DEF RolesSoFar
  <2>5. Good(q)
    BY <2>1, <2>2, <2>4 DEF Good, Cleared, ClaimsSoFar
  <2>6. Goto(r, q)
    BY <1>5 DEF q
  <2>. QED
    BY <1>1, <2>1, <2>5, <2>6, LocalStep
<1>6. ASSUME NEW i \in Named(n),
             Goto(r, [p EXCEPT !.toRemove = @ \ {n}, !.step = "delete", !.at = i])
      PROVE  DirInv'
  <2>. DEFINE q == [p EXCEPT !.toRemove = @ \ {n}, !.step = "delete", !.at = i]
  <2>0. i \in RoleIds /\ roles[i] = n
    BY DEF Named
  <2>1. /\ q \in Request /\ q.op = "roles" /\ q.owner = p.owner /\ q.want = p.want
        /\ q.step = "delete" /\ q.toAdd = p.toAdd /\ q.at = i
        /\ q.toRemove = p.toRemove \ {n} /\ q.contested = p.contested
    BY <1>1, <1>2, <1>3, <2>0 DEF Request
  <2>. HIDE DEF q
  <2>2. Local(q)
    BY <1>3, <2>0, <2>1 DEF Local
  <2>3. RolesSoFar(q)
    BY <1>1, <1>3, <1>4, <2>0, <2>1 DEF RolesSoFar
  <2>4. Good(q)
    BY <2>1, <2>2, <2>3 DEF Good, Cleared, ClaimsSoFar
  <2>5. Goto(r, q)
    BY <1>6 DEF q
  <2>. QED
    BY <1>1, <2>1, <2>4, <2>5, LocalStep
<1>. QED
  BY <1>5, <1>6 DEF RemoveLookup

LEMMA AddLookupInv ==
    ASSUME DirInv, NEW r \in Requests, NEW n \in Names, AddLookup(r, n)
    PROVE  DirInv'
<1>. DEFINE p == reqs[r]
<1>1. /\ p.op = "roles" /\ p.step = "add" /\ n \in p.toAdd
      /\ UNCHANGED <<users, roles, members, claims, strays>>
  BY DEF AddLookup
<1>2. p \in Request /\ Good(p) /\ TypeOK
  BY DirInvParts DEF TypeOK
<1>3. /\ p.owner \in Users /\ p.want \subseteq Names
      /\ p.toAdd \subseteq p.want /\ p.toRemove \cap p.want = {}
  BY <1>1, <1>2 DEF Good, Local
<1>4. \A m \in Names \ p.contested : Holds(p.owner, m) <=> m \in p.want \ p.toAdd
  BY <1>1, <1>2 DEF Good, RolesSoFar
<1>5. CASE Goto(r, Idle)
  BY <1>1, <1>5, IdleFacts, LocalStep
<1>6. ASSUME NEW i \in Named(n),
             Goto(r, [p EXCEPT !.toAdd = @ \ {n}, !.step = "insert", !.at = i])
      PROVE  DirInv'
  <2>. DEFINE q == [p EXCEPT !.toAdd = @ \ {n}, !.step = "insert", !.at = i]
  <2>0. i \in RoleIds /\ roles[i] = n
    BY DEF Named
  <2>1. /\ q \in Request /\ q.op = "roles" /\ q.owner = p.owner /\ q.want = p.want
        /\ q.step = "insert" /\ q.toAdd = p.toAdd \ {n} /\ q.at = i
        /\ q.toRemove = p.toRemove /\ q.contested = p.contested
    BY <1>1, <1>2, <2>0 DEF Request
  <2>. HIDE DEF q
  <2>2. Local(q)
    BY <1>3, <2>0, <2>1 DEF Local
  <2>3. RolesSoFar(q)
    BY <1>1, <1>3, <1>4, <2>0, <2>1 DEF RolesSoFar
  <2>4. Good(q)
    BY <2>1, <2>2, <2>3 DEF Good, Cleared, ClaimsSoFar
  <2>5. Goto(r, q)
    BY <1>6 DEF q
  <2>. QED
    BY <1>1, <2>1, <2>4, <2>5, LocalStep
<1>. QED
  BY <1>5, <1>6 DEF AddLookup

LEMMA RemoveDoneInv ==
    ASSUME DirInv, NEW r \in Requests, RemoveDone(r)
    PROVE  DirInv'
<1>. DEFINE p == reqs[r]
            q == [p EXCEPT !.step = "add"]
<1>1. /\ p.step = "remove" /\ p.toRemove = {} /\ Goto(r, q)
      /\ UNCHANGED <<users, roles, members, claims, strays>>
  BY DEF RemoveDone
<1>2. p \in Request /\ Good(p)
  BY DirInvParts DEF TypeOK
<1>3. p.op = "roles"
  BY <1>1, <1>2 DEF Good, Local, Request
<1>4. /\ q \in Request /\ q.op = "roles" /\ q.owner = p.owner /\ q.want = p.want
      /\ q.step = "add" /\ q.toAdd = p.toAdd /\ q.toRemove = {}
      /\ q.contested = p.contested
  BY <1>1, <1>2, <1>3 DEF Request
<1>. HIDE DEF q
<1>5. Local(q)
  BY <1>2, <1>3, <1>4 DEF Good, Local
<1>6. RolesSoFar(q)
  BY <1>1, <1>2, <1>3, <1>4 DEF Good, RolesSoFar
<1>7. Good(q)
  BY <1>4, <1>5, <1>6 DEF Good, Cleared, ClaimsSoFar
<1>. QED
  BY <1>1, <1>4, <1>7, LocalStep

LEMMA FinishInv ==
    ASSUME DirInv, NEW r \in Requests, Finish(r)
    PROVE  DirInv'
<1>. DEFINE p == reqs[r]
            q == [p EXCEPT !.step = "answer"]
<1>1. /\ p.step = "add" /\ p.toAdd = {} /\ Goto(r, q)
      /\ UNCHANGED <<users, roles, members, claims, strays>>
  BY DEF Finish
<1>2. p \in Request /\ Good(p)
  BY DirInvParts DEF TypeOK
<1>3. p.op \in {"roles", "claims"}
  BY <1>1, <1>2 DEF Good, Local, Request
<1>4. /\ q \in Request /\ q.op = p.op /\ q.owner = p.owner /\ q.want = p.want
      /\ q.step = "answer" /\ q.toAdd = {} /\ q.toRemove = p.toRemove
      /\ q.contested = p.contested
  BY <1>1, <1>2 DEF Request
<1>. HIDE DEF q
<1>5. Local(q)
  BY <1>2, <1>3, <1>4 DEF Good, Local
<1>6. RolesSoFar(q)
  BY <1>1, <1>2, <1>4 DEF Good, RolesSoFar
<1>7. ClaimsSoFar(q)
  BY <1>1, <1>2, <1>4 DEF Good, ClaimsSoFar
<1>8. Good(q)
  BY <1>3, <1>4, <1>5, <1>6, <1>7 DEF Good, Cleared
<1>. QED
  BY <1>1, <1>4, <1>8, LocalStep

\* The step of one handler that changes the memberships, in the end.
LEMMA MembersStep ==
    ASSUME DirInv, NEW r \in Requests, NEW q \in Request, NEW P,
           NEW xs \in SUBSET (Names \cup Claims),
           Steps(r, q, P, xs),
           members' \subseteq Membership, strays' \subseteq Membership \cup Claim,
           UNCHANGED <<users, roles, claims>>, StraysKept, Good(q)',
           \A s \in Requests, i \in RoleIds, n \in Names :
              /\ reqs[s].op = "roles" /\ roles[i] = n
              /\ s \in P => n \notin xs
              => (<<reqs[s].owner, i>> \in members' <=> <<reqs[s].owner, i>> \in members)
    PROVE  DirInv'
<1>1. TypeOK /\ UniqueNames
  BY DirInvParts
<1>2. Stepped(r, q, P, xs)
  BY <1>1, StepFacts
<1>3. TypeOK'
  BY <1>1, <1>2 DEF TypeOK, Stepped
<1>4. UniqueNames'
  BY <1>1 DEF UniqueNames
<1>5. OrphansOnlyFromRaces'
  BY <1>3, StillOrphans
<1>6. ASSUME NEW s \in Requests \ {r}
      PROVE  /\ Same(reqs[s], reqs'[s]) /\ ClaimsFrame(reqs[s], reqs'[s])
             /\ RolesFrame(reqs[s], reqs'[s])
  <2>1. ClaimsFrame(reqs[s], reqs'[s])
    BY DEF ClaimsFrame
  <2>2. RolesFrame(reqs[s], reqs'[s])
    <3>1. CASE reqs[s].op # "roles"
      BY <3>1 DEF RolesFrame
    <3>2. CASE reqs[s].op = "roles"
      <4>1. \A i \in RoleIds, n \in Names \ reqs'[s].contested :
               roles[i] = n => (<<reqs[s].owner, i>> \in members'
                                  <=> <<reqs[s].owner, i>> \in members)
        BY <1>2, <3>2 DEF Stepped
      <4>2. PICK p, w : p = reqs'[s] /\ w = reqs[s]
        OBVIOUS
      <4>. QED
        BY <4>1, <4>2, MembersFrame
    <3>. QED
      BY <3>1, <3>2
  <2>. QED
    BY <1>2, <2>1, <2>2 DEF Stepped
<1>7. ASSUME NEW s \in {r}
      PROVE  Good(reqs[s])'
  BY <1>2 DEF Good, Stepped
<1>8. {r} \in SUBSET Requests
  OBVIOUS
<1>. QED
  BY <1>3, <1>4, <1>5, <1>6, <1>7, <1>8, TableStep

\* The role was looked up before: what it is called by now does not matter.
LEMMA RemoveDeleteInv ==
    ASSUME DirInv, NEW r \in Requests, RemoveDelete(r)
    PROVE  DirInv'
<1>. DEFINE p == reqs[r]
<1>1. p.step = "delete" /\ p \in Request /\ Good(p) /\ TypeOK /\ UniqueNames
  BY DirInvParts DEF RemoveDelete, TypeOK
<1>2. /\ p.op = "roles" /\ p.at \in RoleIds /\ p.owner \in Users
      /\ p.want \subseteq Names /\ p.toAdd \subseteq p.want
      /\ p.toRemove \cap p.want = {} /\ p.toRemove \subseteq Names
  BY <1>1 DEF Good, Local, Request
<1>. DEFINE g == [p EXCEPT !.step = "remove", !.at = None]
<1>g. /\ g \in Request /\ g.op = "roles" /\ g.owner = p.owner /\ g.want = p.want
      /\ g.step = "remove" /\ g.toAdd = p.toAdd /\ g.toRemove = p.toRemove
      /\ g.contested = p.contested
  BY <1>1, <1>2 DEF Request
<1>. HIDE DEF g
<1>3. PICK u \in Users, i \in RoleIds, q \in Request :
         /\ u = p.owner /\ i = p.at /\ q = g
         /\ q.op = "roles" /\ q.owner = u /\ q.want = p.want /\ q.step = "remove"
         /\ q.toAdd = p.toAdd /\ q.toRemove = p.toRemove /\ q.contested = p.contested
  BY <1>2, <1>g
<1>. DEFINE row == <<u, i>>
            xs == IF row \in members THEN NamesOf({i}) ELSE {}
            P == {s \in Requests : SetsRoles(u, reqs[s])}
<1>4. /\ members' = members \ {row} /\ strays' = strays \ {row}
      /\ UNCHANGED <<users, roles, claims>>
      /\ Steps(r, q, P, xs)
  BY <1>3 DEF RemoveDelete, Step, Steps, Contest, g
<1>5. xs \in SUBSET (Names \cup Claims)
  BY <1>1, NamesOfType
<1>6. members' \subseteq Membership /\ strays' \subseteq Membership \cup Claim
  BY <1>1, <1>4 DEF TypeOK
<1>7. StraysKept
  <2>1. {row} \subseteq Membership
    BY DEF Membership
  <2>. QED
    BY <1>1, <1>4, <2>1, RowsGone
<1>8. Good(q)'
  <2>1. Local(q)
    BY <1>2, <1>3 DEF Local
  <2>2. ASSUME NEW n \in Names \ q.contested
        PROVE  Holds(u, n)' <=> n \in q.toRemove \/ n \in q.want \ q.toAdd
    <3>1. /\ Holds(u, n) <=> roles[i] = n \/ n \in q.toRemove \/ n \in q.want \ q.toAdd
          /\ roles[i] = n => n \notin q.toRemove \cup q.want
      BY <1>1, <1>2, <1>3 DEF Good, RolesSoFar
    <3>2. roles[i] = n => ~Holds(u, n)'
      BY <1>1, <1>4, OwnersAssumption DEF Holds, UniqueNames
    <3>3. roles[i] # n => (Holds(u, n)' <=> Holds(u, n))
      BY <1>4 DEF Holds
    <3>. QED
      BY <3>1, <3>2, <3>3
  <2>3. RolesSoFar(q)'
    BY <1>3, <2>2 DEF RolesSoFar
  <2>. QED
    BY <1>3, <2>1, <2>3 DEF Good, Local, Cleared, ClaimsSoFar
<1>9. \A s \in Requests, j \in RoleIds, n \in Names :
         /\ reqs[s].op = "roles" /\ roles[j] = n
         /\ s \in P => n \notin xs
         => (<<reqs[s].owner, j>> \in members' <=> <<reqs[s].owner, j>> \in members)
  BY <1>4, OwnersAssumption DEF SetsRoles, NamesOf
<1>. HIDE DEF P, xs
<1>. QED
  BY <1>4, <1>5, <1>6, <1>7, <1>8, <1>9, MembersStep

\* A row that is new is a stray unless its owners stay.
LEMMA AddInsertInv ==
    ASSUME DirInv, NEW r \in Requests, AddInsert(r)
    PROVE  DirInv'
<1>. DEFINE p == reqs[r]
<1>1. p.step = "insert" /\ p \in Request /\ Good(p) /\ TypeOK /\ UniqueNames
  BY DirInvParts DEF AddInsert, TypeOK
<1>2. /\ p.op = "roles" /\ p.at \in RoleIds /\ p.owner \in Users
      /\ p.want \subseteq Names /\ p.toAdd \subseteq p.want
      /\ p.toRemove \cap p.want = {}
  BY <1>1 DEF Good, Local, Request
<1>. DEFINE g == [p EXCEPT !.step = "add", !.at = None]
<1>g. /\ g \in Request /\ g.op = "roles" /\ g.owner = p.owner /\ g.want = p.want
      /\ g.step = "add" /\ g.toAdd = p.toAdd /\ g.toRemove = p.toRemove
      /\ g.contested = p.contested
  BY <1>1, <1>2 DEF Request
<1>. HIDE DEF g
<1>3. PICK u \in Users, i \in RoleIds, q \in Request :
         /\ u = p.owner /\ i = p.at /\ q = g
         /\ q.op = "roles" /\ q.owner = u /\ q.want = p.want /\ q.step = "add"
         /\ q.toAdd = p.toAdd /\ q.toRemove = p.toRemove /\ q.contested = p.contested
  BY <1>2, <1>g
<1>. DEFINE row == <<u, i>>
            xs == IF row \in members THEN {} ELSE NamesOf({i})
            P == {s \in Requests : SetsRoles(u, reqs[s])}
<1>4. /\ members' = members \cup {row}
      /\ strays' = IF row \notin members /\ (Unsettled(u) \/ Unsettled(i))
                   THEN strays \cup {row} ELSE strays
      /\ UNCHANGED <<users, roles, claims>>
      /\ Steps(r, q, P, xs)
  BY <1>3 DEF AddInsert, Step, Steps, Contest, g
<1>5. xs \in SUBSET (Names \cup Claims)
  BY <1>1, NamesOfType
<1>6. members' \subseteq Membership /\ strays' \subseteq Membership \cup Claim
  BY <1>1, <1>4 DEF TypeOK, Membership
<1>7. StraysKept
  BY <1>4 DEF StraysKept
<1>8. Good(q)'
  <2>1. Local(q)
    BY <1>2, <1>3 DEF Local
  <2>2. ASSUME NEW n \in Names \ q.contested
        PROVE  Holds(u, n)' <=> n \in q.want \ q.toAdd
    <3>1. /\ Holds(u, n) <=> ~(roles[i] = n) /\ n \in q.want \ q.toAdd
          /\ roles[i] = n => n \in q.want \ q.toAdd
      BY <1>1, <1>2, <1>3 DEF Good, RolesSoFar
    <3>2. roles[i] = n => Holds(u, n)'
      BY <1>4 DEF Holds
    <3>3. roles[i] # n => (Holds(u, n)' <=> Holds(u, n))
      BY <1>4 DEF Holds
    <3>. QED
      BY <3>1, <3>2, <3>3
  <2>3. RolesSoFar(q)'
    BY <1>3, <2>2 DEF RolesSoFar
  <2>. QED
    BY <1>3, <2>1, <2>3 DEF Good, Local, Cleared, ClaimsSoFar
<1>9. \A s \in Requests, j \in RoleIds, n \in Names :
         /\ reqs[s].op = "roles" /\ roles[j] = n
         /\ s \in P => n \notin xs
         => (<<reqs[s].owner, j>> \in members' <=> <<reqs[s].owner, j>> \in members)
  BY <1>4, OwnersAssumption DEF SetsRoles, NamesOf
<1>. HIDE DEF P, xs
<1>. QED
  BY <1>4, <1>5, <1>6, <1>7, <1>8, <1>9, MembersStep

\* A deletion takes every row of its owner; what others add meanwhile strays.
LEMMA DeleteUserRolesInv ==
    ASSUME DirInv, NEW r \in Requests, DeleteUserRoles(r)
    PROVE  DirInv'
<1>. DEFINE p == reqs[r]
<1>1. /\ p.op = "deleteUser" /\ p.step = "members"
      /\ p \in Request /\ Good(p) /\ TypeOK
  BY DirInvParts DEF DeleteUserRoles, TypeOK
<1>2. p.owner \in Users
  BY <1>1 DEF Good, Local
<1>. DEFINE g == [p EXCEPT !.step = "row"]
<1>g. g \in Request /\ g.op = "deleteUser" /\ g.owner = p.owner /\ g.step = "row"
  BY <1>1 DEF Request
<1>. HIDE DEF g
<1>3. PICK u \in Users, q \in Request :
         /\ u = p.owner /\ q = g
         /\ q.op = "deleteUser" /\ q.owner = u /\ q.step = "row"
  BY <1>2, <1>g
<1>. DEFINE rows == {x \in members : x[1] = u}
            xs == NamesOf(RolesOf(u))
            P == {s \in Requests : SetsRoles(u, reqs[s])}
<1>4. /\ members' = members \ rows /\ strays' = strays \ rows
      /\ UNCHANGED <<users, roles, claims>>
      /\ Steps(r, q, P, xs)
  BY <1>3 DEF DeleteUserRoles, Step, Steps, Contest, g
<1>5. xs \in SUBSET (Names \cup Claims)
  BY <1>1, NamesOfType DEF RolesOf
<1>6. members' \subseteq Membership /\ strays' \subseteq Membership \cup Claim
  BY <1>1, <1>4 DEF TypeOK
<1>7. StraysKept
  <2>1. rows \subseteq Membership
    BY <1>1 DEF TypeOK
  <2>. HIDE DEF rows
  <2>. QED
    BY <1>1, <1>4, <2>1, RowsGone
<1>8. Good(q)'
  <2>1. \A x \in claims' : x[1] = u => x \in strays'
    <3>1. ASSUME NEW x \in claims', x[1] = u PROVE x \in strays'
      BY <1>1, <1>3, <1>4, <1>7, <3>1 DEF Good, Cleared, StraysKept
    <3>. QED
      BY <3>1
  <2>2. \A x \in members' : x[1] # u
    BY <1>4
  <2>. QED
    BY <1>3, <2>1, <2>2 DEF Good, Local, Cleared, ClaimsSoFar, RolesSoFar
<1>9. \A s \in Requests, j \in RoleIds, n \in Names :
         /\ reqs[s].op = "roles" /\ roles[j] = n
         /\ s \in P => n \notin xs
         => (<<reqs[s].owner, j>> \in members' <=> <<reqs[s].owner, j>> \in members)
  BY <1>4, OwnersAssumption DEF SetsRoles, NamesOf, RolesOf
<1>. HIDE DEF P, xs
<1>. QED
  BY <1>4, <1>5, <1>6, <1>7, <1>8, <1>9, MembersStep

LEMMA DeleteRoleInv ==
    ASSUME DirInv, NEW r \in Requests, NEW i \in RoleIds, DeleteRole(r, i)
    PROVE  DirInv'
<1>1. TypeOK
  BY DirInvParts
<1>. DEFINE g == [Idle EXCEPT !.op = "deleteRole", !.step = "claims", !.owner = i]
<1>g. g \in Request /\ g.op = "deleteRole" /\ g.owner = i /\ g.step = "claims"
  BY DEF Idle, Request, Owners
<1>. HIDE DEF g
<1>2. PICK q \in Request :
         q = g /\ q.op = "deleteRole" /\ q.owner = i /\ q.step = "claims"
  BY <1>g
<1>. DEFINE rows == {x \in members : x[2] = i}
            xs == NamesOf({i})
            P == {s \in Requests : SetsAnyRoles(reqs[s])}
<1>4. /\ members' = members \ rows /\ strays' = strays \ rows
      /\ UNCHANGED <<users, roles, claims>>
      /\ Steps(r, q, P, xs)
  BY <1>2 DEF DeleteRole, Step, Steps, Contest, g
<1>5. xs \in SUBSET (Names \cup Claims)
  BY <1>1, NamesOfType
<1>6. members' \subseteq Membership /\ strays' \subseteq Membership \cup Claim
  BY <1>1, <1>4 DEF TypeOK
<1>7. StraysKept
  <2>1. rows \subseteq Membership
    BY <1>1 DEF TypeOK
  <2>. HIDE DEF rows
  <2>. QED
    BY <1>1, <1>4, <2>1, RowsGone
<1>8. Good(q)'
  <2>1. \A x \in members' : x[2] # i
    BY <1>4
  <2>. QED
    BY <1>2, <2>1 DEF Good, Local, Cleared, ClaimsSoFar, RolesSoFar
<1>9. \A s \in Requests, j \in RoleIds, n \in Names :
         /\ reqs[s].op = "roles" /\ roles[j] = n
         /\ s \in P => n \notin xs
         => (<<reqs[s].owner, j>> \in members' <=> <<reqs[s].owner, j>> \in members)
  BY <1>4, OwnersAssumption DEF SetsAnyRoles, NamesOf
<1>. HIDE DEF P, xs
<1>. QED
  BY <1>4, <1>5, <1>6, <1>7, <1>8, <1>9, MembersStep

-----------------------------------------------------------------------------
(* setUserClaims and setRoleClaims, and the claims of a deletion *)

\* The step of one handler that changes the claims, in the end.
LEMMA ClaimRowsStep ==
    ASSUME DirInv, NEW r \in Requests, NEW q \in Request, NEW P,
           NEW xs \in SUBSET (Names \cup Claims), Steps(r, q, P, xs),
           claims' \subseteq Claim, strays' \subseteq Membership \cup Claim,
           UNCHANGED <<users, roles, members>>, StraysKept, Good(q)',
           \A s \in Requests, c \in Claims :
              /\ reqs[s].op = "claims"
              /\ s \in P => c \notin xs
              => (<<reqs[s].owner, c>> \in claims' <=> <<reqs[s].owner, c>> \in claims)
    PROVE  DirInv'
<1>1. TypeOK /\ UniqueNames
  BY DirInvParts
<1>2. Stepped(r, q, P, xs)
  BY <1>1, StepFacts
<1>3. TypeOK'
  BY <1>1, <1>2 DEF TypeOK, Stepped
<1>4. UniqueNames'
  BY <1>1 DEF UniqueNames
<1>5. OrphansOnlyFromRaces'
  BY <1>3, StillOrphans
<1>6. ASSUME NEW s \in Requests \ {r}
      PROVE  /\ Same(reqs[s], reqs'[s]) /\ ClaimsFrame(reqs[s], reqs'[s])
             /\ RolesFrame(reqs[s], reqs'[s])
  <2>1. ClaimsFrame(reqs[s], reqs'[s])
    BY <1>2 DEF ClaimsFrame, Same, Stepped
  <2>2. RolesFrame(reqs[s], reqs'[s])
    <3>1. PICK p, w : p = reqs'[s] /\ w = reqs[s]
      OBVIOUS
    <3>. QED
      BY <3>1, QuietFrame
  <2>. QED
    BY <1>2, <2>1, <2>2 DEF Stepped
<1>7. ASSUME NEW s \in {r}
      PROVE  Good(reqs[s])'
  BY <1>2 DEF Good, Stepped
<1>8. {r} \in SUBSET Requests
  OBVIOUS
<1>. QED
  BY <1>3, <1>4, <1>5, <1>6, <1>7, <1>8, TableStep

\* Whoever deletes all claims of an owner contests them.
LEMMA ClaimsGone ==
    ASSUME DirInv, NEW r \in Requests, NEW q \in Request, NEW o \in Owners,
           Steps(r, q, {s \in Requests : SetsClaims(o, reqs[s])}, ClaimsOf(o)),
           claims' = claims \ {x \in claims : x[1] = o},
           strays' = strays \ {x \in claims : x[1] = o},
           UNCHANGED <<users, roles, members>>,
           StraysKept => Good(q)'
    PROVE  DirInv'
<1>. DEFINE rows == {x \in claims : x[1] = o}
            P == {s \in Requests : SetsClaims(o, reqs[s])}
<1>1. TypeOK
  BY DirInvParts
<1>2. ClaimsOf(o) \in SUBSET (Names \cup Claims)
  BY DEF ClaimsOf
<1>3. claims' \subseteq Claim /\ strays' \subseteq Membership \cup Claim
  BY <1>1 DEF TypeOK
<1>4. StraysKept
  <2>1. rows \subseteq Claim
    BY <1>1 DEF TypeOK
  <2>2. claims' = claims \ rows /\ strays' = strays \ rows
    OBVIOUS
  <2>. HIDE DEF rows
  <2>. QED
    BY <1>1, <2>1, <2>2, RowsGone
<1>5. \A s \in Requests, c \in Claims :
         /\ reqs[s].op = "claims"
         /\ s \in P => c \notin ClaimsOf(o)
         => (<<reqs[s].owner, c>> \in claims' <=> <<reqs[s].owner, c>> \in claims)
  BY DEF SetsClaims, ClaimsOf
<1>. HIDE DEF P
<1>6. Steps(r, q, P, ClaimsOf(o))
  BY DEF P
<1>. QED
  BY <1>2, <1>3, <1>4, <1>5, <1>6, ClaimRowsStep

LEMMA ClearClaimsInv ==
    ASSUME DirInv, NEW r \in Requests, NEW o \in Owners, NEW want \in SUBSET Claims,
           ClearClaims(r, o, want)
    PROVE  DirInv'
<1>. DEFINE g == [Idle EXCEPT !.op = "claims", !.step = "add", !.owner = o,
                              !.want = want, !.toAdd = want]
<1>g. /\ g \in Request /\ g.op = "claims" /\ g.step = "add" /\ g.owner = o
      /\ g.want = want /\ g.toAdd = want
  BY DEF Idle, Request
<1>. HIDE DEF g
<1>1. PICK q \in Request : /\ q = g /\ q.op = "claims" /\ q.step = "add" /\ q.owner = o
                           /\ q.want = want /\ q.toAdd = want
  BY <1>g
<1>2. /\ claims' = claims \ {x \in claims : x[1] = o}
      /\ strays' = strays \ {x \in claims : x[1] = o}
      /\ UNCHANGED <<users, roles, members>>
      /\ Steps(r, q, {s \in Requests : SetsClaims(o, reqs[s])}, ClaimsOf(o))
  BY <1>1 DEF ClearClaims, Step, Steps, Contest, g
<1>3. \A c \in Claims : <<o, c>> \notin claims'
  BY <1>2
<1>4. Good(q)'
  BY <1>1, <1>3 DEF Good, Local, Cleared, ClaimsSoFar, RolesSoFar
<1>. QED
  BY <1>2, <1>4, ClaimsGone

LEMMA DeleteUserInv ==
    ASSUME DirInv, NEW r \in Requests, NEW u \in Users, DeleteUser(r, u)
    PROVE  DirInv'
<1>. DEFINE g == [Idle EXCEPT !.op = "deleteUser", !.step = "members", !.owner = u]
<1>g. g \in Request /\ g.op = "deleteUser" /\ g.step = "members" /\ g.owner = u
  BY DEF Idle, Request, Owners
<1>. HIDE DEF g
<1>1. PICK q \in Request :
         q = g /\ q.op = "deleteUser" /\ q.step = "members" /\ q.owner = u
  BY <1>g
<1>2. /\ claims' = claims \ {x \in claims : x[1] = u}
      /\ strays' = strays \ {x \in claims : x[1] = u}
      /\ UNCHANGED <<users, roles, members>> /\ u \in Owners
      /\ Steps(r, q, {s \in Requests : SetsClaims(u, reqs[s])}, ClaimsOf(u))
  BY <1>1 DEF DeleteUser, Step, Steps, Contest, g, Owners
<1>3. \A x \in claims' : x[1] # u
  BY <1>2
<1>4. Good(q)'
  BY <1>1, <1>3 DEF Good, Local, Cleared, ClaimsSoFar, RolesSoFar
<1>. QED
  BY <1>2, <1>4, ClaimsGone

LEMMA DeleteRoleClaimsInv ==
    ASSUME DirInv, NEW r \in Requests, DeleteRoleClaims(r)
    PROVE  DirInv'
<1>. DEFINE p == reqs[r]
            g == [p EXCEPT !.step = "row"]
<1>1. p.op = "deleteRole" /\ p.step = "claims" /\ p \in Request /\ Good(p)
  BY DirInvParts DEF DeleteRoleClaims, TypeOK
<1>g. g \in Request /\ g.op = "deleteRole" /\ g.owner = p.owner /\ g.step = "row"
  BY <1>1 DEF Request
<1>. HIDE DEF g
<1>2. PICK i \in RoleIds, q \in Request :
         i = p.owner /\ q = g /\ q.op = "deleteRole" /\ q.step = "row" /\ q.owner = i
  BY <1>1, <1>g DEF Good, Local
<1>3. /\ claims' = claims \ {x \in claims : x[1] = i}
      /\ strays' = strays \ {x \in claims : x[1] = i}
      /\ UNCHANGED <<users, roles, members>> /\ i \in Owners
      /\ Steps(r, q, {s \in Requests : SetsClaims(i, reqs[s])}, ClaimsOf(i))
  BY <1>2 DEF DeleteRoleClaims, Step, Steps, Contest, g, Owners
<1>4. StraysKept => \A x \in members' : x[2] = i => x \in strays'
  <2>1. ASSUME StraysKept, NEW x \in members', x[2] = i PROVE x \in strays'
    BY <1>1, <1>2, <1>3, <2>1 DEF Good, Cleared, StraysKept
  <2>. QED
    BY <2>1
<1>5. \A x \in claims' : x[1] # i
  BY <1>3
<1>6. StraysKept => Good(q)'
  BY <1>2, <1>4, <1>5 DEF Good, Local, Cleared, ClaimsSoFar, RolesSoFar
<1>. QED
  BY <1>3, <1>6, ClaimsGone

LEMMA AddClaimInv ==
    ASSUME DirInv, NEW r \in Requests, NEW c \in Claims, AddClaim(r, c)
    PROVE  DirInv'
<1>. DEFINE p == reqs[r]
            g == [p EXCEPT !.toAdd = @ \ {c}]
<1>1. /\ p.op = "claims" /\ p.step = "add" /\ c \in p.toAdd
      /\ p \in Request /\ Good(p) /\ TypeOK
  BY DirInvParts DEF AddClaim, TypeOK
<1>2. p.owner \in Owners /\ p.want \subseteq Claims /\ p.toAdd \subseteq p.want
  BY <1>1 DEF Good, Local
<1>g. /\ g \in Request /\ g.op = "claims" /\ g.owner = p.owner /\ g.step = "add"
      /\ g.want = p.want /\ g.toAdd = p.toAdd \ {c} /\ g.contested = p.contested
  BY <1>1 DEF Request
<1>. HIDE DEF g
<1>3. PICK o \in Owners, q \in Request :
         /\ o = p.owner /\ q = g
         /\ q.op = "claims" /\ q.owner = o /\ q.step = "add"
         /\ q.want = p.want /\ q.toAdd = p.toAdd \ {c} /\ q.contested = p.contested
  BY <1>2, <1>g
<1>. DEFINE row == <<o, c>>
            P == {s \in Requests : SetsClaims(o, reqs[s])}
<1>4. /\ claims' = claims \cup {row}
      /\ strays' = IF row \notin claims /\ Unsettled(o) THEN strays \cup {row} ELSE strays
      /\ UNCHANGED <<users, roles, members>>
      /\ Steps(r, q, P, {c})
  BY <1>3 DEF AddClaim, Step, Steps, Contest, g
<1>5. /\ claims' \subseteq Claim /\ strays' \subseteq Membership \cup Claim
      /\ {c} \in SUBSET (Names \cup Claims)
  BY <1>1, <1>4 DEF TypeOK, Claim
<1>6. StraysKept
  BY <1>4 DEF StraysKept
<1>7. Good(q)'
  <2>1. ASSUME NEW d \in Claims \ q.contested
        PROVE  <<o, d>> \in claims' <=> d \in q.want \ q.toAdd
    <3>1. <<o, d>> \in claims <=> d \in p.want \ p.toAdd
      BY <1>1, <1>3 DEF Good, ClaimsSoFar
    <3>. QED
      BY <1>1, <1>2, <1>3, <1>4, <3>1
  <2>2. Local(q)
    BY <1>2, <1>3 DEF Local
  <2>. QED
    BY <1>3, <2>1, <2>2 DEF Good, Local, Cleared, ClaimsSoFar, RolesSoFar
<1>8. \A s \in Requests, d \in Claims :
         /\ reqs[s].op = "claims"
         /\ s \in P => d \notin {c}
         => (<<reqs[s].owner, d>> \in claims' <=> <<reqs[s].owner, d>> \in claims)
  BY <1>4 DEF SetsClaims
<1>. HIDE DEF P
<1>. QED
  BY <1>4, <1>5, <1>6, <1>7, <1>8, ClaimRowsStep

-----------------------------------------------------------------------------
(* The rows of accounts and roles *)

LEMMA InitInv == Init => DirInv
<1>. SUFFICES ASSUME Init PROVE DirInv
  OBVIOUS
<1>1. TypeOK
  BY IdleFacts DEF Init, TypeOK
<1>2. UniqueNames /\ OrphansOnlyFromRaces
  BY DEF Init, UniqueNames, OrphansOnlyFromRaces
<1>3. \A r \in Requests : Good(reqs[r])
  BY IdleFacts DEF Init
<1>. QED
  BY <1>1, <1>2, <1>3, DirInvParts

\* The step that changes the row of one role, whatever it does to handlers R.
LEMMA RoleRowStep ==
    ASSUME DirInv, NEW i \in RoleIds, NEW v \in Names \cup {None}, NEW R \in SUBSET Requests,
           roles' = [roles EXCEPT ![i] = v], UNCHANGED <<users, members, claims, strays>>,
           v # None => Named(v) \subseteq {i},
           OrphansOnlyFromRaces',
           \A s \in R : reqs'[s] = Idle,
           reqs' \in [Requests -> Request],
           \A s \in Requests \ R :
              /\ Same(reqs[s], reqs'[s])
              /\ reqs[s].op = "roles" => {v, roles[i]} \cap Names \subseteq reqs'[s].contested
    PROVE  DirInv'
<1>1. TypeOK /\ UniqueNames
  BY DirInvParts
<1>2. TypeOK'
  BY <1>1 DEF TypeOK
<1>3. UniqueNames'
  <2>1. ASSUME NEW j \in RoleIds, NEW k \in RoleIds, roles'[j] = roles'[k], roles'[j] # None
        PROVE  j = k
    <3>1. roles'[j] = IF j = i THEN v ELSE roles[j]
      BY <1>1 DEF TypeOK
    <3>2. roles'[k] = IF k = i THEN v ELSE roles[k]
      BY <1>1 DEF TypeOK
    <3>. QED
      BY <1>1, <2>1, <3>1, <3>2 DEF UniqueNames, Named
  <2>. QED
    BY <2>1 DEF UniqueNames
<1>4. StraysKept
  BY DEF StraysKept
<1>5. ASSUME NEW s \in R
      PROVE  Good(reqs[s])'
  BY IdleFacts DEF Good
<1>6. ASSUME NEW s \in Requests \ R
      PROVE  /\ Same(reqs[s], reqs'[s]) /\ ClaimsFrame(reqs[s], reqs'[s])
             /\ RolesFrame(reqs[s], reqs'[s])
  <2>1. PICK p, w : p = reqs'[s] /\ w = reqs[s]
    OBVIOUS
  <2>2. CASE w.op = "roles"
    <3>1. RolesFrame(w, p)
      BY <1>1, <2>1, <2>2, RenameFrame
    <3>2. ClaimsFrame(w, p)
      BY QuietClaims
    <3>. QED
      BY <2>1, <3>1, <3>2
  <2>3. CASE w.op # "roles"
    BY <2>1, <2>3, QuietClaims DEF RolesFrame
  <2>. QED
    BY <2>2, <2>3
<1>. QED
  BY <1>2, <1>3, <1>4, <1>5, <1>6, TableStep

LEMMA CreateRoleInv ==
    ASSUME DirInv, NEW i \in RoleIds, NEW n \in Names, CreateRole(i, n)
    PROVE  DirInv'
<1>1. /\ roles[i] = None /\ Named(n) = {} /\ roles' = [roles EXCEPT ![i] = n]
      /\ UNCHANGED <<users, members, claims, strays>>
      /\ reqs' = [s \in Requests |-> IF SetsAnyRoles(reqs[s])
                                     THEN Contest(reqs[s], {n}) ELSE reqs[s]]
  BY DEF CreateRole, Contest
<1>2. TypeOK /\ OrphansOnlyFromRaces
  BY DirInvParts
<1>3. ASSUME NEW s \in Requests
      PROVE  /\ reqs'[s] \in Request /\ Same(reqs[s], reqs'[s])
             /\ reqs[s].op = "roles" => n \in reqs'[s].contested
  <2>1. reqs[s] \in Request
    BY <1>2 DEF TypeOK
  <2>2. reqs'[s] = IF SetsAnyRoles(reqs[s]) THEN Contest(reqs[s], {n}) ELSE reqs[s]
    BY <1>1
  <2>3. {n} \in SUBSET (Names \cup Claims)
    OBVIOUS
  <2>. QED
    BY <2>1, <2>2, <2>3, ContestFacts, SameRefl DEF SetsAnyRoles
<1>4. reqs' \in [Requests -> Request]
  BY <1>1, <1>3
<1>5. OrphansOnlyFromRaces'
  BY <1>1, <1>2 DEF TypeOK, OrphansOnlyFromRaces, Membership
<1>6. /\ \A s \in {} : reqs'[s] = Idle
      /\ \A s \in Requests \ {} :
           /\ Same(reqs[s], reqs'[s])
           /\ reqs[s].op = "roles" => {n, roles[i]} \cap Names \subseteq reqs'[s].contested
  BY <1>1, <1>3, OwnersAssumption
<1>7. {} \in SUBSET Requests
  OBVIOUS
<1>. QED
  BY <1>1, <1>4, <1>5, <1>6, <1>7, RoleRowStep

\* Save and the delete of a role's row, which end their handlers.
LEMMA LastRoleStep ==
    ASSUME DirInv, NEW r \in Requests, NEW i \in RoleIds, NEW v \in Names \cup {None},
           NEW xs \in SUBSET (Names \cup Claims),
           roles' = [roles EXCEPT ![i] = v], UNCHANGED <<users, members, claims, strays>>,
           v # None => Named(v) \subseteq {i},
           OrphansOnlyFromRaces',
           Steps(r, Idle, {s \in Requests : SetsAnyRoles(reqs[s])}, xs),
           {v, roles[i]} \cap Names \subseteq xs
    PROVE  DirInv'
<1>. DEFINE P == {s \in Requests : SetsAnyRoles(reqs[s])}
<1>1. TypeOK
  BY DirInvParts
<1>2. Steps(r, Idle, P, xs)
  OBVIOUS
<1>3. \A s \in Requests : reqs[s].op = "roles" => s \in P
  BY DEF SetsAnyRoles
<1>. HIDE DEF P
<1>4. Stepped(r, Idle, P, xs)
  BY <1>1, <1>2, IdleFacts, StepFacts
<1>. DEFINE R == {r}
<1>5. reqs' \in [Requests -> Request] /\ \A s \in R : reqs'[s] = Idle
  BY <1>4 DEF Stepped
<1>6. \A s \in Requests \ R :
         /\ Same(reqs[s], reqs'[s])
         /\ reqs[s].op = "roles" => {v, roles[i]} \cap Names \subseteq reqs'[s].contested
  BY <1>3, <1>4 DEF Stepped
<1>7. R \in SUBSET Requests
  OBVIOUS
<1>. HIDE DEF R
<1>. QED
  BY <1>5, <1>6, <1>7, RoleRowStep

LEMMA SaveRoleInv ==
    ASSUME DirInv, NEW r \in Requests, SaveRole(r)
    PROVE  DirInv'
<1>1. reqs[r].step = "save" /\ reqs[r] \in Request /\ Good(reqs[r]) /\ TypeOK
  BY DirInvParts DEF SaveRole, TypeOK
<1>2. reqs[r].op = "updateRole"
  BY <1>1 DEF Good, Local, Request
<1>3. PICK i \in RoleIds, n \in Names : i = reqs[r].owner /\ n = reqs[r].name
  BY <1>1, <1>2 DEF Good, Local
<1>4. UNCHANGED <<users, members, claims, strays>>
  BY DEF SaveRole
<1>5. CASE Goto(r, Idle) /\ UNCHANGED roles
  BY <1>4, <1>5, IdleFacts, LocalStep
<1>6. CASE /\ Named(n) \subseteq {i} /\ roles' = [roles EXCEPT ![i] = n]
           /\ Step(r, Idle, SetsAnyRoles, {n} \cup NamesOf({i}))
  <2>1. Steps(r, Idle, {s \in Requests : SetsAnyRoles(reqs[s])}, {n} \cup NamesOf({i}))
    BY <1>6 DEF Step, Steps, Contest
  <2>2. {n} \cup NamesOf({i}) \in SUBSET (Names \cup Claims)
    BY <1>1, NamesOfType
  <2>3. {n, roles[i]} \cap Names \subseteq {n} \cup NamesOf({i})
    BY OwnersAssumption DEF NamesOf
  <2>4. OrphansOnlyFromRaces'
    BY <1>1, <1>4, <1>6, DirInvParts, OwnersAssumption
       DEF TypeOK, OrphansOnlyFromRaces, Membership
  <2>. QED
    BY <1>4, <1>6, <2>1, <2>2, <2>3, <2>4, LastRoleStep
<1>. QED
  BY <1>3, <1>5, <1>6 DEF SaveRole

\* Whatever the role is still said to hold came while it was being deleted.
LEMMA DeleteRoleRowInv ==
    ASSUME DirInv, NEW r \in Requests, DeleteRoleRow(r)
    PROVE  DirInv'
<1>1. /\ reqs[r].op = "deleteRole" /\ reqs[r].step = "row"
      /\ reqs[r] \in Request /\ Good(reqs[r]) /\ TypeOK
  BY DirInvParts DEF DeleteRoleRow, TypeOK
<1>2. PICK i \in RoleIds : i = reqs[r].owner
  BY <1>1 DEF Good, Local
<1>3. /\ roles' = [roles EXCEPT ![i] = None] /\ UNCHANGED <<users, members, claims, strays>>
      /\ Steps(r, Idle, {s \in Requests : SetsAnyRoles(reqs[s])}, NamesOf({i}))
  BY <1>2 DEF DeleteRoleRow, Step, Steps, Contest
<1>4. NamesOf({i}) \in SUBSET (Names \cup Claims)
  BY <1>1, NamesOfType
<1>5. {None, roles[i]} \cap Names \subseteq NamesOf({i})
  BY OwnersAssumption DEF NamesOf
<1>6. /\ \A x \in members : x[2] = i => x \in strays
      /\ \A x \in claims : x[1] = i => x \in strays
  BY <1>1, <1>2 DEF Good, Cleared
<1>7. \A j \in RoleIds \ {i} : roles'[j] = roles[j]
  BY <1>1, <1>3 DEF TypeOK
<1>8. \A x \in members : x[2] \in RoleIds
  BY <1>1 DEF TypeOK, Membership
<1>9. OrphansOnlyFromRaces
  BY DirInvParts
<1>10. OrphansOnlyFromRaces'
  <2>1. ASSUME NEW x \in members, x[1] \notin users \/ roles'[x[2]] = None
        PROVE  x \in strays
    BY <1>6, <1>7, <1>8, <1>9, <2>1 DEF OrphansOnlyFromRaces
  <2>2. ASSUME NEW x \in claims, x[1] \notin users,
               x[1] \in RoleIds => roles'[x[1]] = None
        PROVE  x \in strays
    BY <1>6, <1>7, <1>9, <2>2 DEF OrphansOnlyFromRaces
  <2>. QED
    BY <1>3, <2>1, <2>2 DEF OrphansOnlyFromRaces
<1>. QED
  BY <1>3, <1>4, <1>5, <1>10, LastRoleStep

LEMMA CreateUserInv ==
    ASSUME DirInv, NEW u \in Users, CreateUser(u)
    PROVE  DirInv'
<1>1. users' = users \cup {u} /\ UNCHANGED <<roles, members, claims, reqs, strays>>
  BY DEF CreateUser
<1>2. TypeOK' /\ UniqueNames' /\ OrphansOnlyFromRaces'
  BY <1>1, DirInvParts DEF TypeOK, UniqueNames, OrphansOnlyFromRaces
<1>3. ASSUME NEW s \in Requests
      PROVE  Good(reqs[s])'
  <2>1. PICK p : p = reqs[s] /\ Good(p)
    BY DirInvParts
  <2>2. Good(p)'
    BY <1>1, <2>1, GoodKept
  <2>. QED
    BY <1>1, <2>1, <2>2 DEF Good
<1>. QED
  BY <1>2, <1>3, DirInvParts

LEMMA DeleteUserRowInv ==
    ASSUME DirInv, NEW r \in Requests, DeleteUserRow(r)
    PROVE  DirInv'
<1>1. /\ reqs[r].op = "deleteUser" /\ reqs[r].step = "row"
      /\ users' = users \ {reqs[r].owner} /\ Goto(r, Idle)
      /\ UNCHANGED <<roles, members, claims, strays>>
      /\ reqs[r] \in Request /\ Good(reqs[r]) /\ TypeOK /\ UniqueNames
      /\ OrphansOnlyFromRaces
  BY DirInvParts DEF DeleteUserRow, TypeOK
<1>2. /\ \A x \in claims : x[1] = reqs[r].owner => x \in strays
      /\ \A x \in members : x[1] = reqs[r].owner => x \in strays
  BY <1>1 DEF Good, Cleared
<1>3. OrphansOnlyFromRaces'
  BY <1>1, <1>2 DEF OrphansOnlyFromRaces
<1>4. reqs' \in [Requests -> Request] /\ reqs'[r] = Idle
      /\ \A s \in Requests \ {r} : reqs'[s] = reqs[s]
  BY <1>1, IdleFacts DEF TypeOK, Goto
<1>5. TypeOK' /\ UniqueNames'
  BY <1>1, <1>4 DEF TypeOK, UniqueNames
<1>6. ASSUME NEW s \in Requests
      PROVE  Good(reqs[s])'
  <2>1. PICK p : p = reqs'[s] /\ Good(p)
    BY <1>4, IdleFacts, DirInvParts
  <2>2. Good(p)'
    BY <1>1, <2>1, GoodKept
  <2>. QED
    BY <2>1, <2>2 DEF Good
<1>. QED
  BY <1>3, <1>5, <1>6, DirInvParts

LEMMA UpdateRoleInv ==
    ASSUME DirInv, NEW r \in Requests, NEW i \in RoleIds, NEW n \in Names, UpdateRole(r, i, n)
    PROVE  DirInv'
<1>. DEFINE q == [Idle EXCEPT !.op = "updateRole", !.step = "save", !.owner = i, !.name = n]
<1>1. Goto(r, q) /\ UNCHANGED <<users, roles, members, claims, strays>>
  BY DEF UpdateRole
<1>2. /\ q \in Request /\ q.op = "updateRole" /\ q.step = "save" /\ q.owner = i
      /\ q.name = n
  BY DEF Idle, Request, Owners
<1>. HIDE DEF q
<1>3. Good(q)
  BY <1>2 DEF Good, Local, Cleared, ClaimsSoFar, RolesSoFar
<1>. QED
  BY <1>1, <1>2, <1>3, LocalStep

\* A handler that ends leaves its tables as they are, half done or not.
LEMMA OverInv ==
    ASSUME DirInv, NEW r \in Requests, Answer(r) \/ Abort(r)
    PROVE  DirInv'
<1>1. Goto(r, Idle) /\ UNCHANGED <<users, roles, members, claims, strays>>
  BY DEF Answer, Abort
<1>. QED
  BY <1>1, IdleFacts, LocalStep

-----------------------------------------------------------------------------
LEMMA NextInv == DirInv /\ [Next]_vars => DirInv'
<1>. SUFFICES ASSUME DirInv, [Next]_vars PROVE DirInv'
  OBVIOUS
<1>1. CASE UNCHANGED vars
  <2>1. UNCHANGED <<users, roles, members, claims, reqs, strays>>
    BY <1>1 DEF vars
  <2>2. TypeOK' /\ UniqueNames' /\ OrphansOnlyFromRaces'
    BY <2>1, DirInvParts DEF TypeOK, UniqueNames, OrphansOnlyFromRaces
  <2>3. ASSUME NEW s \in Requests
        PROVE  Good(reqs[s])'
    <3>1. PICK p : p = reqs[s] /\ Good(p)
      BY DirInvParts
    <3>2. Good(p)'
      BY <2>1, <3>1, GoodKept
    <3>. QED
      BY <2>1, <3>1, <3>2 DEF Good
  <2>. QED
    BY <2>2, <2>3, DirInvParts
<1>2. ASSUME NEW r \in Requests, RolesStep(r)
      PROVE  DirInv'
  BY <1>2, SetUserRolesInv, ReadNamesInv, RemoveLookupInv, AddLookupInv, RemoveDeleteInv,
     RemoveDoneInv, AddInsertInv DEF RolesStep
<1>3. ASSUME NEW r \in Requests, ClaimsStep(r)
      PROVE  DirInv'
  BY <1>3, ClearClaimsInv, AddClaimInv DEF ClaimsStep
<1>4. ASSUME NEW r \in Requests, RowStep(r)
      PROVE  DirInv'
  BY <1>4, DeleteUserInv, DeleteUserRolesInv, DeleteUserRowInv, UpdateRoleInv, SaveRoleInv,
     DeleteRoleInv, DeleteRoleClaimsInv, DeleteRoleRowInv DEF RowStep
<1>. QED
  BY <1>1, <1>2, <1>3, <1>4, FinishInv, OverInv, CreateUserInv, CreateRoleInv DEF Next

\* DirInv is inductive: what each handler has in hand, up to what the others
\* have contested, accounts for what its owner has in the tables.
THEOREM DirectorySafe == Spec => []DirInv
BY InitInv, NextInv, PTL DEF Spec

\* setUserRoles: when it answers, the user holds what the body lists, but for
\* the roles that a concurrent handler changed or renamed.
THEOREM RolesTakeEffect == Spec => []RolesTookEffect
<1>1. DirInv => RolesTookEffect
  BY DirInvParts, NamesFacts DEF Good, Local, RolesSoFar, RolesTookEffect
<1>. QED
  BY <1>1, DirectorySafe, PTL

\* ReplaceUserClaims and ReplaceRoleClaims likewise, without a transaction.
THEOREM ClaimsTakeEffect == Spec => []ClaimsTookEffect
<1>1. DirInv => ClaimsTookEffect
  BY DirInvParts DEF Good, Local, ClaimsSoFar, ClaimsTookEffect, ClaimsOf
<1>. QED
  BY <1>1, DirectorySafe, PTL

\* DeleteUser and DeleteRole: their order leaves no orphan behind, however
\* they are cut off and repeated; a race with an insert may.
THEOREM DeletionsLeaveNoOrphans == Spec => []OrphansOnlyFromRaces
<1>1. DirInv => OrphansOnlyFromRaces
  BY DirInvParts
<1>. QED
  BY <1>1, DirectorySafe, PTL
=============================================================================
