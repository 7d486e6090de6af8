--------------------------- MODULE Registry_proofs ---------------------------
(***************************************************************************)
(* Proofs about client registrations: what the list helpers of Clients do, *)
(* that what the admin API stores agrees with itself, and that seeding      *)
(* overwrites no edit and leaves no fixture out; for any clients, scopes,  *)
(* bodies, instances and requests.                                         *)
(***************************************************************************)
EXTENDS Registry, FiniteSetTheorems, TLAPS

-----------------------------------------------------------------------------
(* The order of the fixtures and the probes *)

\* SetToSeq lists every member of a finite set.
LEMMA ListOfSet ==
    ASSUME NEW S, IsFiniteSet(S)
    PROVE  SetToSeq(S) \in Seq(S) /\ ToSet(SetToSeq(S)) = S
<1> DEFINE n == Cardinality(S)
           f == SetToSeq(S)
<1>1. n \in Nat /\ IsFiniteSet(1..n) /\ Cardinality(1..n) = n
  BY FS_CardinalityType, FS_Interval
<1>2. \E g \in [1..n -> S] : IsInjective(g)
  BY FS_CardinalityType DEF ExistsBijection, Bijection, Injection, IsInjective
<1>3. f \in [1..n -> S] /\ IsInjective(f)
  BY <1>2 DEF SetToSeq
<1>4. f \in Surjection(1..n, S)
  <2>1. f \in Injection(1..n, S)
    BY <1>3 DEF Injection
  <2>. QED
    BY <1>1, <2>1, FS_Injection
<1>. HIDE DEF f, n
<1>5. f \in Seq(S)
  BY <1>1, <1>3
<1>6. DOMAIN f = 1..n
  BY <1>3
<1>7. ToSet(f) = S
  BY <1>3, <1>4, <1>6 DEF ToSet, Surjection
<1>. QED
  BY <1>5, <1>7 DEF f

LEMMA FixturesFacts ==
    /\ Fixtures \in Seq(ToSet(Fixtures)) /\ Fixtures # <<>>
    /\ ToSet(Fixtures) = Scopes \cup DOMAIN Seeded \cup People
    /\ \A j \in DOMAIN Fixtures : Fixtures[j] = "member" => j = Len(Fixtures)
<1> DEFINE s == SetToSeq(Scopes)
           d == SetToSeq(DOMAIN Seeded)
           K == Scopes \cup DOMAIN Seeded \cup People
<1>1. s \in Seq(Scopes) /\ ToSet(s) = Scopes
  BY ListOfSet, KeysAssumption
<1>2. d \in Seq(DOMAIN Seeded) /\ ToSet(d) = DOMAIN Seeded
  BY ListOfSet, SeededAssumption
<1>3. People = {"role", "user", "member"}
  BY DEF People
<1>4. "member" \notin Scopes \cup DOMAIN Seeded
  BY <1>3, KeysAssumption, SeededAssumption
<1>5. Fixtures = (s \o d) \o <<"role", "user", "member">>
  BY <1>1, <1>2 DEF Fixtures
<1>. HIDE DEF s, d
<1>6. /\ Len(s) \in Nat /\ Len(d) \in Nat
      /\ Len(Fixtures) = Len(s) + Len(d) + 3
      /\ DOMAIN Fixtures = 1..(Len(s) + Len(d) + 3)
      /\ \A j \in 1..Len(s) : Fixtures[j] = s[j] /\ s[j] \in Scopes
      /\ \A j \in (Len(s) + 1)..(Len(s) + Len(d)) :
           Fixtures[j] = d[j - Len(s)] /\ d[j - Len(s)] \in DOMAIN Seeded
      /\ Fixtures[Len(s) + Len(d) + 1] = "role"
      /\ Fixtures[Len(s) + Len(d) + 2] = "user"
      /\ Fixtures[Len(s) + Len(d) + 3] = "member"
  BY <1>1, <1>2, <1>5
<1>7. ASSUME NEW j \in DOMAIN Fixtures
      PROVE  \/ j \in 1..Len(s)
             \/ j \in (Len(s) + 1)..(Len(s) + Len(d))
             \/ j = Len(s) + Len(d) + 1
             \/ j = Len(s) + Len(d) + 2
             \/ j = Len(Fixtures)
  <2>1. j \in 1..(Len(s) + Len(d) + 3)
    BY <1>6
  <2>2. PICK a \in Nat, b \in Nat : a = Len(s) /\ b = Len(d)
    BY <1>6
  <2>3. Len(Fixtures) = a + b + 3
    BY <1>6, <2>2
  <2>. HIDE DEF Fixtures
  <2>4. j \in 1..a \/ j \in (a + 1)..(a + b) \/ j = a + b + 1 \/ j = a + b + 2 \/ j = a + b + 3
    BY <2>1, <2>2
  <2>. QED
    BY <2>2, <2>3, <2>4
<1>8. ASSUME NEW j \in DOMAIN Fixtures
      PROVE  /\ Fixtures[j] \in K
             /\ Fixtures[j] = "member" => j = Len(Fixtures)
  BY <1>3, <1>4, <1>6, <1>7, <1>8
<1>9. ASSUME NEW k \in K
      PROVE  \E j \in DOMAIN Fixtures : Fixtures[j] = k
  <2>1. CASE k \in Scopes
    <3>1. PICK j \in DOMAIN s : s[j] = k
      BY <1>1, <2>1 DEF ToSet
    <3>2. j \in 1..Len(s) /\ j \in DOMAIN Fixtures
      BY <1>1, <1>6, <3>1
    <3>. QED
      BY <1>6, <3>1, <3>2
  <2>2. CASE k \in DOMAIN Seeded
    <3>1. PICK j \in DOMAIN d : d[j] = k
      BY <1>2, <2>2 DEF ToSet
    <3>2. /\ j \in 1..Len(d)
          /\ j + Len(s) \in (Len(s) + 1)..(Len(s) + Len(d))
          /\ (j + Len(s)) - Len(s) = j /\ j + Len(s) \in DOMAIN Fixtures
      BY <1>2, <1>6, <3>1
    <3>. QED
      BY <1>6, <3>1, <3>2
  <2>3. CASE k \in People
    <3>1. /\ Len(s) + Len(d) + 1 \in DOMAIN Fixtures
          /\ Len(s) + Len(d) + 2 \in DOMAIN Fixtures
          /\ Len(s) + Len(d) + 3 \in DOMAIN Fixtures
      BY <1>6
    <3>. QED
      BY <1>3, <1>6, <2>3, <3>1
  <2>. QED
    BY <2>1, <2>2, <2>3
<1>10. ToSet(Fixtures) = K
  BY <1>8, <1>9 DEF ToSet
<1>11. Fixtures \in Seq(ToSet(Fixtures))
  <2>1. Fixtures = [j \in 1..Len(Fixtures) |-> Fixtures[j]]
    BY <1>1, <1>2, <1>5
  <2>2. \A j \in 1..Len(Fixtures) : Fixtures[j] \in K
    BY <1>6, <1>8
  <2>. QED
    BY <1>6, <1>10, <2>1, <2>2
<1>12. Fixtures # <<>>
  BY <1>6
<1>. QED
  BY <1>8, <1>10, <1>11, <1>12

-----------------------------------------------------------------------------
(* The inductive invariant *)

\* Rows that only appear leave no table empty that was not.
LEMMA RowsStay ==
    ASSUME others \subseteq others',
           \A c \in ClientIds : clients[c] # None => clients'[c] # None,
           NEW t \in ToSet(Probes), Rows(t) # {}
    PROVE  Rows(t)' # {}
<1>1. t \in {"users", "clients", "scopes", "roles"}
  BY DEF ToSet, Probes
<1>. QED
  BY <1>1 DEF Rows

\* A step of one boot, which adds rows at most.
LEMMA BootStep ==
    ASSUME RegInv, NEW i \in Instances, NEW b \in Boot,
           boots' = [boots EXCEPT ![i] = b], RowsKnown',
           others \subseteq others',
           \A c \in ClientIds : clients[c] # None => clients'[c] # None,
           "role" \in others \/ ("member" \in edited => "member" \in edited'),
           Probing(b)', Seeding(b)',
           seeds' = "done" => \A k \in ToSet(Fixtures) : Accounted(k)'
    PROVE  RegInv'
<1>1. boots \in [Instances -> Boot] /\ boots' \in [Instances -> Boot]
  BY DEF RegInv
<1>2. ASSUME NEW j \in Instances
      PROVE  Probing(boots[j])' /\ Seeding(boots[j])'
  <2>1. CASE j = i
    BY <1>1, <2>1
  <2>2. CASE j # i
    <3>1. PICK q \in Boot : q = boots[j] /\ boots'[j] = q
      BY <1>1, <2>2
    <3>2. Probing(q) /\ Seeding(q)
      BY <3>1 DEF RegInv
    <3>3. Probing(q)'
      <4>1. ASSUME q.step = "probe", ~q.vacant
            PROVE  \E t \in ToSet(q.left) : Rows(t)' # {}
        <5>1. PICK t \in ToSet(q.left) : Rows(t) # {}
          BY <3>2, <4>1 DEF Probing
        <5>2. t \in ToSet(Probes)
          BY <3>2, <4>1, <5>1 DEF Probing, ToSet
        <5>. QED
          BY <5>1, <5>2, RowsStay
      <4>. QED
        BY <3>2, <4>1 DEF Probing
    <3>4. Seeding(q)'
      BY <3>2 DEF Seeding
    <3>. QED
      BY <3>1, <3>3, <3>4
  <2>. QED
    BY <2>1, <2>2
<1>. QED
  BY <1>1, <1>2 DEF RegInv

LEMMA DownFacts ==
    Down \in Boot /\ Down.step = "down" /\ Probing(Down) /\ Seeding(Down)
<1>1. <<>> \in Seq(Keys \cup ToSet(Probes))
  OBVIOUS
<1>. QED
  BY <1>1 DEF Down, Boot, Probing, Seeding

LEMMA InitReg == Init => RegInv
<1>. SUFFICES ASSUME Init PROVE RegInv
  OBVIOUS
<1>1. RowsKnown
  BY DEF Init, RowsKnown, Profiles
<1>. QED
  BY <1>1, DownFacts DEF Init, RegInv

\* What is still to be written stays to be written.
LEMMA AccountedStays ==
    ASSUME boots \in [Instances -> Boot], NEW i \in Instances, NEW b \in Boot,
           boots' = [boots EXCEPT ![i] = b],
           UNCHANGED <<clients, others, edited>>,
           NEW k, Accounted(k),
           boots[i].step = "seed" => b.step = "seed" /\ b.left = boots[i].left
    PROVE  Accounted(k)'
BY DEF Accounted

LEMMA StartReg ==
    ASSUME RegInv, NEW i \in Instances, NEW enabled \in BOOLEAN, Start(i, enabled)
    PROVE  RegInv'
<1> DEFINE b == [step |-> IF enabled THEN "probe" ELSE "serve",
                 left |-> IF enabled THEN Probes ELSE <<>>,
                 vacant |-> DatabaseEmpty]
<1>1. Probes \in Seq(ToSet(Probes)) /\ Probes # <<>>
  BY DEF Probes, ToSet
<1>2. Probes \in Seq(Keys \cup ToSet(Probes)) /\ <<>> \in Seq(Keys \cup ToSet(Probes))
  BY <1>1
<1>3. DatabaseEmpty \in BOOLEAN
  BY DEF DatabaseEmpty
<1>4. b \in Boot /\ b.step \in {"probe", "serve"}
  BY <1>2, <1>3 DEF Boot
<1>5. /\ boots' = [boots EXCEPT ![i] = b] /\ boots[i].step = "down"
      /\ UNCHANGED <<clients, others, edits, asked, edited, seeds>>
  BY DEF Start
<1>6. RowsKnown'
  BY <1>5 DEF RegInv, RowsKnown, Origin
<1>7. b.step = "probe" => b.left = Probes /\ b.vacant = DatabaseEmpty
  OBVIOUS
<1>. HIDE DEF b
<1>8. PICK q \in Boot : q = b
  BY <1>4
<1>9. Probing(q)'
  BY <1>1, <1>5, <1>7, <1>8 DEF Probing, DatabaseEmpty, Rows
<1>10. Seeding(q)'
  BY <1>4, <1>8 DEF Seeding
<1>11. seeds' = "done" => \A k \in ToSet(Fixtures) : Accounted(k)'
  BY <1>5, <1>8, AccountedStays DEF RegInv
<1>. QED
  BY <1>5, <1>6, <1>8, <1>9, <1>10, <1>11, BootStep

LEMMA StopReg ==
    ASSUME RegInv, NEW i \in Instances, Stop(i)
    PROVE  RegInv'
<1>1. /\ boots' = [boots EXCEPT ![i] = Down]
      /\ UNCHANGED <<clients, others, edits, asked, edited>>
      /\ seeds' = IF boots[i].step = "seed" THEN "cut" ELSE seeds
  BY DEF Stop
<1>2. RowsKnown'
  BY <1>1 DEF RegInv, RowsKnown, Origin
<1>3. PICK q \in Boot : q = Down
  BY DownFacts
<1>4. Probing(q)' /\ Seeding(q)'
  BY <1>3, DownFacts DEF Probing, Seeding
<1>5. seeds' = "done" => \A k \in ToSet(Fixtures) : Accounted(k)'
  BY <1>1, <1>3, AccountedStays DEF RegInv
<1>. QED
  BY <1>1, <1>2, <1>3, <1>4, <1>5, BootStep

\* A list without its head.
LEMMA TailFacts ==
    ASSUME NEW S, NEW s \in Seq(S), s # <<>>
    PROVE  /\ Head(s) = s[1] /\ Head(s) \in S /\ Head(s) \in ToSet(s)
           /\ Len(s) \in Nat \ {0} /\ DOMAIN s = 1..Len(s)
           /\ Tail(s) \in Seq(S) /\ Len(Tail(s)) = Len(s) - 1
           /\ \A j \in DOMAIN Tail(s) : Tail(s)[j] = s[j + 1] /\ j + 1 \in DOMAIN s
           /\ ToSet(s) = {Head(s)} \cup ToSet(Tail(s))
           /\ Len(s) = 1 => ToSet(s) = {Head(s)}
           /\ Len(s) # 1 => Tail(s) # <<>>
<1>1. /\ Len(s) \in Nat \ {0} /\ DOMAIN s = 1..Len(s)
      /\ Head(s) = s[1] /\ Head(s) \in S
  <2>1. Len(s) \in Nat /\ DOMAIN s = 1..Len(s)
    OBVIOUS
  <2>2. Len(s) # 0
    OBVIOUS
  <2>. QED
    BY <2>1, <2>2
<1>2. /\ Tail(s) \in Seq(S) /\ Len(Tail(s)) = Len(s) - 1
      /\ DOMAIN Tail(s) = 1..(Len(s) - 1)
      /\ \A j \in 1..(Len(s) - 1) : Tail(s)[j] = s[j + 1]
  BY <1>1
<1>3. \A j \in DOMAIN Tail(s) : Tail(s)[j] = s[j + 1] /\ j + 1 \in DOMAIN s
  BY <1>1, <1>2
<1>4. \A j \in DOMAIN s : j = 1 \/ (j - 1 \in DOMAIN Tail(s) /\ Tail(s)[j - 1] = s[j])
  BY <1>1, <1>2
<1>5. 1 \in DOMAIN s
  BY <1>1
<1>6. ToSet(s) = {Head(s)} \cup ToSet(Tail(s))
  <2>1. PICK t : t = Tail(s)
    OBVIOUS
  <2>2. \A j \in DOMAIN t : t[j] = s[j + 1] /\ j + 1 \in DOMAIN s
    BY <1>3, <2>1
  <2>3. \A j \in DOMAIN s : s[j] = Head(s) \/ (\E m \in DOMAIN t : t[m] = s[j])
    BY <1>1, <1>4, <2>1
  <2>4. PICK h : h = Head(s) /\ h = s[1]
    BY <1>1
  <2>5. ToSet(s) = {h} \cup ToSet(t)
    <3>1. \A j \in DOMAIN s : s[j] \in {h} \cup {t[m] : m \in DOMAIN t}
      BY <2>3, <2>4
    <3>2. h \in {s[j] : j \in DOMAIN s}
      BY <1>5, <2>4
    <3>3. \A m \in DOMAIN t : t[m] \in {s[j] : j \in DOMAIN s}
      BY <2>2
    <3>. QED
      BY <3>1, <3>2, <3>3 DEF ToSet
  <2>. QED
    BY <2>1, <2>4, <2>5
<1>7. Len(s) = 1 => DOMAIN s = {1}
  BY <1>1
<1>8. Len(s) = 1 => ToSet(s) = {Head(s)}
  BY <1>1, <1>7 DEF ToSet
<1>9. Len(s) # 1 => Tail(s) # <<>>
  <2>1. PICK t : t = Tail(s) /\ Len(t) = Len(s) - 1
    BY <1>2
  <2>2. t = <<>> => Len(t) = 0
    OBVIOUS
  <2>. QED
    BY <1>1, <2>1, <2>2
<1>10. Head(s) \in ToSet(s)
  BY <1>6
<1>. QED
  BY <1>1, <1>2, <1>3, <1>6, <1>8, <1>9, <1>10

\* A boot that has ended its seeding, or had none to do.
LEMMA ServesFacts ==
    ASSUME NEW q \in Boot
    PROVE  /\ [q EXCEPT !.step = "serve", !.left = <<>>] \in Boot
           /\ [q EXCEPT !.step = "serve", !.left = <<>>].step = "serve"
<1>1. <<>> \in Seq(Keys \cup ToSet(Probes))
  OBVIOUS
<1>. QED
  BY <1>1 DEF Boot

LEMMA ProbeReg ==
    ASSUME RegInv, NEW i \in Instances, Probe(i)
    PROVE  RegInv'
<1>1. PICK q \in Boot : q = boots[i]
  BY DEF RegInv
<1>2. q.step = "probe" /\ Probing(q) /\ boots \in [Instances -> Boot]
  BY <1>1 DEF Probe, RegInv
<1>3. q.left \in Seq(ToSet(Probes)) /\ q.left # <<>>
  BY <1>2 DEF Probing
<1>4. UNCHANGED <<clients, others, edits, asked, edited>>
  BY DEF Probe
<1>5. RowsKnown'
  BY <1>4 DEF RegInv, RowsKnown, Origin
<1>6. CASE Rows(Head(q.left)) # {}
  <2> DEFINE b == [q EXCEPT !.step = "serve", !.left = <<>>]
  <2>1. b \in Boot /\ b.step = "serve"
    BY ServesFacts
  <2>2. boots' = [boots EXCEPT ![i] = b] /\ seeds' = seeds
    <3>1. boots' = [boots EXCEPT ![i] = b]
      BY <1>1, <1>6 DEF Probe
    <3>2. boots'[i].step = "serve"
      BY <1>2, <2>1, <3>1
    <3>. QED
      BY <3>1, <3>2 DEF Probe
  <2>. HIDE DEF b
  <2>3. Probing(b)' /\ Seeding(b)'
    BY <2>1 DEF Probing, Seeding
  <2>4. seeds' = "done" => \A k \in ToSet(Fixtures) : Accounted(k)'
    BY <1>1, <1>2, <1>4, <2>1, <2>2, AccountedStays DEF RegInv
  <2>. QED
    BY <1>4, <1>5, <2>1, <2>2, <2>3, <2>4, BootStep
<1>7. CASE Rows(Head(q.left)) = {} /\ Len(q.left) = 1
  <2> DEFINE b == [q EXCEPT !.step = "seed", !.left = Fixtures]
  <2>1. Fixtures \in Seq(Keys \cup ToSet(Probes))
    <3>1. ToSet(Fixtures) \subseteq Keys \cup ToSet(Probes)
      BY FixturesFacts, SeededAssumption DEF Keys
    <3>. QED
      BY <3>1, FixturesFacts
  <2>2. /\ b \in Boot /\ b.step = "seed"
        /\ b.left = Fixtures /\ b.vacant = q.vacant
    BY <2>1 DEF Boot
  <2>3. boots' = [boots EXCEPT ![i] = b]
    BY <1>1, <1>7 DEF Probe
  <2>. HIDE DEF b
  <2>4. q.vacant
    <3>1. ToSet(q.left) = {Head(q.left)}
      BY <1>3, <1>7, TailFacts
    <3>. QED
      BY <1>2, <1>7, <3>1 DEF Probing
  <2>5. Probing(b)'
    BY <2>2 DEF Probing
  <2>6. "role" \in ToSet(Fixtures)
    BY FixturesFacts DEF People
  <2>7. Seeding(b)'
    BY <2>2, <2>4, <2>6, FixturesFacts DEF Seeding
  <2>8. \A k \in ToSet(Fixtures) : Accounted(k)'
    BY <1>2, <2>2, <2>3 DEF Accounted
  <2>. QED
    BY <1>4, <1>5, <2>2, <2>3, <2>5, <2>7, <2>8, BootStep
<1>8. CASE Rows(Head(q.left)) = {} /\ Len(q.left) # 1
  <2> DEFINE b == [q EXCEPT !.left = Tail(@)]
  <2>1. Tail(q.left) \in Seq(ToSet(Probes)) /\ Tail(q.left) # <<>>
    BY <1>3, <1>8, TailFacts
  <2>2. Tail(q.left) \in Seq(Keys \cup ToSet(Probes))
    BY <2>1
  <2>3. /\ b \in Boot /\ b.step = "probe"
        /\ b.left = Tail(q.left) /\ b.vacant = q.vacant
    BY <1>2, <2>2 DEF Boot
  <2>4. boots' = [boots EXCEPT ![i] = b] /\ seeds' = seeds
    <3>1. boots' = [boots EXCEPT ![i] = b]
      BY <1>1, <1>8 DEF Probe
    <3>2. boots'[i].step = "probe"
      BY <1>2, <2>3, <3>1
    <3>. QED
      BY <3>1, <3>2 DEF Probe
  <2>. HIDE DEF b
  <2>5. Probing(b)'
    <3>1. ASSUME ~q.vacant
          PROVE  \E t \in ToSet(Tail(q.left)) : Rows(t)' # {}
      <4>1. PICK t \in ToSet(q.left) : Rows(t) # {}
        BY <1>2, <3>1 DEF Probing
      <4>2. t \in ToSet(Tail(q.left))
        BY <1>3, <1>8, <4>1, TailFacts
      <4>3. Rows(t)' = Rows(t)
        BY <1>4 DEF Rows
      <4>. QED
        BY <4>1, <4>2, <4>3
    <3>. QED
      BY <2>1, <2>3, <3>1 DEF Probing
  <2>6. Seeding(b)'
    BY <2>3 DEF Seeding
  <2>7. seeds' = "done" => \A k \in ToSet(Fixtures) : Accounted(k)'
    BY <1>1, <1>2, <1>4, <2>3, <2>4, AccountedStays DEF RegInv
  <2>. QED
    BY <1>4, <1>5, <2>3, <2>4, <2>5, <2>6, <2>7, BootStep
<1>. QED
  BY <1>6, <1>7, <1>8

\* The row written for c has an origin; every other row keeps its own.
LEMMA RowWritten ==
    ASSUME RowsKnown, NEW c \in ClientIds, NEW row, NEW p \in Profiles,
           clients' = [clients EXCEPT ![c] = row],
           asked' = [asked EXCEPT ![c] = p],
           \/ c \in DOMAIN Seeded /\ row = toClientEntity(Seeded[c]) /\ p = ""
           \/ \E body \in Accepted :
                row = toClientEntity(Submitted(body)) /\ p = body.profile,
           edits' \in [Requests -> {None} \cup [id : ClientIds, body : Accepted]]
    PROVE  RowsKnown'
<1>1. /\ clients = [x \in ClientIds |-> clients[x]]
      /\ asked \in [ClientIds -> Profiles]
  BY DEF RowsKnown
<1>2. clients'[c] = row /\ asked'[c] = p
  BY <1>1
<1>3. \A x \in ClientIds \ {c} : clients'[x] = clients[x] /\ asked'[x] = asked[x]
  BY <1>1
<1>4. \A x \in ClientIds : clients'[x] # None => Origin(x)'
  BY <1>2, <1>3 DEF Origin, RowsKnown
<1>5. clients' = [x \in ClientIds |-> clients'[x]] /\ asked' \in [ClientIds -> Profiles]
  BY <1>1
<1>. QED
  BY <1>4, <1>5 DEF RowsKnown

LEMMA SeedReg ==
    ASSUME RegInv, NEW i \in Instances, Seed(i)
    PROVE  RegInv'
<1>1. PICK q \in Boot : q = boots[i]
  BY DEF RegInv
<1>2. /\ q.step = "seed" /\ Seeding(q) /\ boots \in [Instances -> Boot]
      /\ UNCHANGED <<edits, seeds>>
  BY <1>1 DEF Seed, RegInv
<1>3. PICK k : k = Head(q.left)
  OBVIOUS
<1>4. /\ q.left \in Seq(ToSet(Fixtures)) /\ q.left # <<>>
  BY <1>2 DEF Seeding
<1>5. k \in ToSet(Fixtures) /\ k = q.left[1] /\ 1 \in DOMAIN q.left
  <2>1. Len(q.left) \in Nat \ {0} /\ DOMAIN q.left = 1..Len(q.left)
    BY <1>4, TailFacts
  <2>. QED
    BY <1>3, <1>4, <2>1, TailFacts
<1>6. CASE /\ k = "member" /\ "role" \notin others
           /\ boots' = [boots EXCEPT ![i] = Down]
           /\ UNCHANGED <<clients, others, asked, edited>>
  <2>1. ToSet(q.left) = {"member"}
    <3>1. 1 = Len(q.left)
      BY <1>2, <1>5, <1>6 DEF Seeding
    <3>. QED
      BY <1>3, <1>4, <1>6, <3>1, TailFacts
  <2>2. "member" \in edited
    BY <1>2, <1>6, <2>1 DEF Seeding
  <2>3. RowsKnown'
    BY <1>2, <1>6 DEF RegInv, RowsKnown, Origin
  <2>4. PICK b \in Boot : b = Down
    BY DownFacts
  <2>5. Probing(b)' /\ Seeding(b)'
    BY <2>4, DownFacts DEF Probing, Seeding
  <2>6. ASSUME seeds = "done", NEW f \in ToSet(Fixtures)
        PROVE  Accounted(f)'
    <3>1. Accounted(f)
      BY <2>6 DEF RegInv
    <3>2. CASE f = "member"
      BY <1>6, <2>2, <3>2 DEF Accounted
    <3>3. CASE f # "member"
      BY <1>1, <1>2, <1>6, <2>1, <3>1, <3>3 DEF Accounted
    <3>. QED
      BY <3>2, <3>3
  <2>. QED
    BY <1>2, <1>6, <2>3, <2>4, <2>5, <2>6, BootStep
<1>7. CASE /\ k = "member" => "role" \in others
           /\ SeedWrites(k)
           /\ edited' = edited \ {k}
           /\ boots' = [boots EXCEPT ![i] =
                IF Len(q.left) = 1 THEN [q EXCEPT !.step = "serve", !.left = <<>>]
                                   ELSE [q EXCEPT !.left = Tail(@)]]
  <2>1. k \in ClientIds => k \in DOMAIN Seeded
    BY <1>5, FixturesFacts, KeysAssumption
  <2>2. /\ others \subseteq others'
        /\ \A c \in ClientIds : clients[c] # None => clients'[c] # None
        /\ k \in others' \/ (k \in ClientIds /\ clients'[k] # None)
        /\ RowsKnown'
    <3>1. CASE k \in ClientIds
      <4>1. /\ clients' = [clients EXCEPT ![k] = toClientEntity(Seeded[k])]
            /\ asked' = [asked EXCEPT ![k] = ""] /\ others' = others
        BY <1>7, <3>1 DEF SeedWrites
      <4>2. clients = [c \in ClientIds |-> clients[c]]
        BY DEF RegInv, RowsKnown
      <4>3. toClientEntity(Seeded[k]) # None
        BY <2>1, <3>1, NoneAssumption
      <4>4. RowsKnown'
        <5>1. edits' \in [Requests -> {None} \cup [id : ClientIds, body : Accepted]]
          BY <1>2 DEF RegInv, RowsKnown, Accepted
        <5>2. "" \in Profiles
          BY DEF Profiles
        <5>. QED
          BY <2>1, <3>1, <4>1, <5>1, <5>2, RowWritten DEF RegInv
      <4>. QED
        BY <3>1, <4>1, <4>2, <4>3, <4>4
    <3>2. CASE k \notin ClientIds
      <4>1. others' = others \cup {k} /\ UNCHANGED <<clients, asked>>
        BY <1>7, <3>2 DEF SeedWrites
      <4>. QED
        BY <1>2, <4>1 DEF RegInv, RowsKnown, Origin
    <3>. QED
      BY <3>1, <3>2
  <2>3. "role" \in others \/ ("member" \in edited => "member" \in edited')
    BY <1>7
  <2>4. CASE Len(q.left) = 1
    <3> DEFINE b == [q EXCEPT !.step = "serve", !.left = <<>>]
    <3>1. b \in Boot /\ b.step = "serve"
      BY ServesFacts
    <3>2. boots' = [boots EXCEPT ![i] = b]
      BY <1>7, <2>4
    <3>. HIDE DEF b
    <3>3. Probing(b)' /\ Seeding(b)'
      BY <3>1 DEF Probing, Seeding
    <3>4. ToSet(q.left) = {k}
      BY <1>3, <1>4, <2>4, TailFacts
    <3>5. seeds' = "done" => \A f \in ToSet(Fixtures) : Accounted(f)'
      <4>1. SUFFICES ASSUME seeds = "done", NEW f \in ToSet(Fixtures)
                     PROVE  Accounted(f)'
        BY <1>2
      <4>2. Accounted(f)
        BY <4>1 DEF RegInv
      <4>3. CASE f = k
        BY <2>2, <4>3 DEF Accounted
      <4>4. CASE f # k
        BY <1>1, <1>2, <1>7, <2>2, <3>2, <3>4, <4>2, <4>4 DEF Accounted
      <4>. QED
        BY <4>3, <4>4
    <3>. QED
      BY <2>2, <2>3, <3>1, <3>2, <3>3, <3>5, BootStep
  <2>5. CASE Len(q.left) # 1
    <3> DEFINE b == [q EXCEPT !.left = Tail(@)]
    <3>1. /\ Tail(q.left) \in Seq(ToSet(Fixtures)) /\ Tail(q.left) # <<>>
          /\ Len(Tail(q.left)) = Len(q.left) - 1
          /\ \A j \in DOMAIN Tail(q.left) :
               Tail(q.left)[j] = q.left[j + 1] /\ j + 1 \in DOMAIN q.left
          /\ ToSet(q.left) = {k} \cup ToSet(Tail(q.left))
      BY <1>3, <1>4, <2>5, TailFacts
    <3>2. Tail(q.left) \in Seq(Keys \cup ToSet(Probes))
      <4>1. ToSet(Fixtures) \subseteq Keys \cup ToSet(Probes)
        BY FixturesFacts, SeededAssumption DEF Keys
      <4>. QED
        BY <3>1, <4>1
    <3>3. /\ b \in Boot /\ b.step = "seed"
          /\ b.left = Tail(q.left) /\ b.vacant = q.vacant
      BY <1>2, <3>2 DEF Boot
    <3>4. boots' = [boots EXCEPT ![i] = b]
      BY <1>7, <2>5
    <3>. HIDE DEF b
    <3>5. Probing(b)'
      BY <3>3 DEF Probing
    <3>6. Seeding(b)'
      <4>1. \A j \in DOMAIN b.left : b.left[j] = "member" => j = Len(b.left)
        <5>1. SUFFICES ASSUME NEW j \in DOMAIN Tail(q.left), Tail(q.left)[j] = "member"
                       PROVE  j = Len(Tail(q.left))
          BY <3>3
        <5>2. j + 1 = Len(q.left)
          BY <1>2, <3>1, <5>1 DEF Seeding
        <5>3. j \in Nat /\ Len(q.left) \in Nat
          BY <1>4, <3>1, <5>1
        <5>. QED
          BY <3>1, <5>2, <5>3
      <4>2. "role" \in ToSet(b.left) \cup others' \/ "member" \in edited'
        <5>1. CASE k = "role"
          <6>1. "role" \notin ClientIds
            BY KeysAssumption DEF People
          <6>. QED
            BY <2>2, <5>1, <6>1
        <5>2. CASE k = "member"
          BY <1>7, <2>2, <5>2
        <5>3. CASE k # "role" /\ k # "member"
          BY <1>2, <1>7, <2>2, <3>1, <3>3, <5>3 DEF Seeding
        <5>. QED
          BY <5>1, <5>2, <5>3
      <4>. QED
        BY <1>2, <3>1, <3>3, <4>1, <4>2 DEF Seeding
    <3>7. seeds' = "done" => \A f \in ToSet(Fixtures) : Accounted(f)'
      <4>1. SUFFICES ASSUME seeds = "done", NEW f \in ToSet(Fixtures)
                     PROVE  Accounted(f)'
        BY <1>2
      <4>2. Accounted(f)
        BY <4>1 DEF RegInv
      <4>3. CASE f = k
        BY <2>2, <4>3 DEF Accounted
      <4>4. CASE f # k
        BY <1>1, <1>2, <1>7, <2>2, <3>1, <3>3, <3>4, <4>2, <4>4 DEF Accounted
      <4>. QED
        BY <4>3, <4>4
    <3>. QED
      BY <2>2, <2>3, <3>3, <3>4, <3>5, <3>6, <3>7, BootStep
  <2>. QED
    BY <2>4, <2>5
<1>. QED
  BY <1>1, <1>3, <1>6, <1>7 DEF Seed

\* A change by an operator: what it removed is among the keys it changed, and a
\* membership goes with its role.
LEMMA ChangedReg ==
    ASSUME RegInv, NEW ks \in SUBSET Keys, Changed(ks), RowsKnown', seeds' = seeds,
           \A c \in ClientIds \ ks : clients'[c] = clients[c],
           others \ ks \subseteq others',
           "role" \in others \ others' => "member" \in ks
    PROVE  RegInv'
<1>1. boots \in [Instances -> Boot] /\ edited' = edited \cup ks
  BY DEF RegInv, Changed
<1>2. ASSUME NEW i \in Instances
      PROVE  /\ boots'[i] \in Boot
             /\ boots'[i].step = boots[i].step /\ boots'[i].left = boots[i].left
             /\ boots[i].step = "probe" => boots'[i].vacant
             /\ boots[i].step = "seed" /\ boots[i].vacant => boots'[i].vacant
  <2>1. boots[i] \in Boot
    BY <1>1
  <2>2. boots'[i] = IF boots[i].step = "probe" THEN [boots[i] EXCEPT !.vacant = TRUE]
                    ELSE boots[i]
    BY DEF Changed
  <2>. QED
    BY <2>1, <2>2 DEF Boot
<1>3. boots' \in [Instances -> Boot]
  <2>1. \E f : boots' = [i \in Instances |-> f[i]]
    <3>1. boots' = [i \in Instances |-> boots'[i]]
      BY DEF Changed
    <3>. QED
      BY <3>1
  <2>. QED
    BY <1>2, <2>1
<1>4. ASSUME NEW i \in Instances
      PROVE  Probing(boots[i])' /\ Seeding(boots[i])'
  <2>1. Probing(boots[i]) /\ Seeding(boots[i])
    BY DEF RegInv
  <2>2. Probing(boots[i])'
    BY <1>2, <2>1 DEF Probing
  <2>3. Seeding(boots[i])'
    <3>1. ASSUME boots[i].step = "seed"
          PROVE  "role" \in ToSet(boots[i].left) \cup others' \/ "member" \in edited'
      BY <1>1, <2>1, <3>1 DEF Seeding
    <3>. QED
      BY <1>2, <2>1, <3>1 DEF Seeding
  <2>. QED
    BY <2>2, <2>3
<1>5. ASSUME seeds' = "done", NEW k \in ToSet(Fixtures)
      PROVE  Accounted(k)'
  <2>1. Accounted(k)
    BY <1>5 DEF RegInv
  <2>2. CASE k \in edited \cup others
    BY <1>1, <2>2 DEF Accounted
  <2>3. CASE k \in ClientIds /\ clients[k] # None
    BY <1>1, <2>3 DEF Accounted
  <2>4. CASE \E i \in Instances : boots[i].step = "seed" /\ k \in ToSet(boots[i].left)
    BY <1>2, <2>4 DEF Accounted
  <2>. QED
    BY <2>1, <2>2, <2>3, <2>4 DEF Accounted
<1>. QED
  BY <1>3, <1>4, <1>5 DEF RegInv

\* createClient and updateClient store a row that an accepted body explains.
LEMMA SaveReg ==
    ASSUME RegInv, NEW c \in ClientIds, NEW body \in Accepted, Changed({c}),
           clients' = [clients EXCEPT ![c] = toClientEntity(Submitted(body))],
           asked' = [asked EXCEPT ![c] = body.profile],
           edits' \in [Requests -> {None} \cup [id : ClientIds, body : Accepted]],
           UNCHANGED <<others, seeds>>
    PROVE  RegInv'
<1>1. body.profile \in Profiles
  BY BodiesAssumption DEF Accepted
<1>2. RowsKnown'
  BY <1>1, RowWritten DEF RegInv
<1>3. \A x \in ClientIds \ {c} : clients'[x] = clients[x]
  BY DEF RegInv, RowsKnown
<1>. QED
  BY <1>2, <1>3, ChangedReg DEF Keys

\* Handlers that change nothing but their own local state.
LEMMA EditReg ==
    ASSUME RegInv, UNCHANGED <<clients, others, boots, asked, edited, changes, seeds, starts>>,
           edits' \in [Requests -> {None} \cup [id : ClientIds, body : Accepted]]
    PROVE  RegInv'
<1>1. RowsKnown'
  BY DEF RegInv, RowsKnown, Origin
<1>2. \A i \in Instances : Probing(boots[i])' /\ Seeding(boots[i])'
  BY DEF RegInv, Probing, Seeding, Rows
<1>3. seeds' = "done" => \A k \in ToSet(Fixtures) : Accounted(k)'
  BY DEF RegInv, Accounted
<1>. QED
  BY <1>1, <1>2, <1>3 DEF RegInv

LEMMA UpdateReg ==
    ASSUME RegInv, NEW r \in Requests, UpdateStore(r) \/ UpdateFails(r)
    PROVE  RegInv'
<1>1. edits \in [Requests -> {None} \cup [id : ClientIds, body : Accepted]]
  BY DEF RegInv, RowsKnown
<1>2. PICK e \in [id : ClientIds, body : Accepted] : e = edits[r]
  BY <1>1 DEF UpdateStore, UpdateFails
<1>3. edits' \in [Requests -> {None} \cup [id : ClientIds, body : Accepted]]
  BY <1>1 DEF UpdateStore, UpdateFails
<1>4. CASE UpdateStore(r)
  <2>1. /\ clients' = [clients EXCEPT ![e.id] = toClientEntity(Submitted(e.body))]
        /\ asked' = [asked EXCEPT ![e.id] = e.body.profile]
        /\ Changed({e.id}) /\ UNCHANGED <<others, seeds>>
    BY <1>2, <1>4 DEF UpdateStore
  <2>2. e.id \in ClientIds /\ e.body \in Accepted
    OBVIOUS
  <2>. QED
    BY <1>3, <2>1, <2>2, SaveReg
<1>5. CASE UpdateFails(r)
  BY <1>3, <1>5, EditReg DEF UpdateFails
<1>. QED
  BY <1>4, <1>5

LEMMA AdminReg ==
    ASSUME RegInv, NEW c \in ClientIds,
           \/ DeleteClient(c)
           \/ \E body \in Bodies :
                CreateClient(c, body) \/ \E r \in Requests : UpdateFind(r, c, body)
    PROVE  RegInv'
<1>1. edits \in [Requests -> {None} \cup [id : ClientIds, body : Accepted]]
  BY DEF RegInv, RowsKnown
<1>2. CASE DeleteClient(c)
  <2>1. /\ clients' = [clients EXCEPT ![c] = None] /\ Changed({c})
        /\ UNCHANGED <<others, edits, asked, seeds>>
    BY <1>2 DEF DeleteClient
  <2>2. /\ \A x \in ClientIds \ {c} : clients'[x] = clients[x]
        /\ clients'[c] = None
        /\ clients' = [x \in ClientIds |-> clients'[x]]
    BY <2>1 DEF RegInv, RowsKnown
  <2>3. RowsKnown'
    BY <2>1, <2>2 DEF RegInv, RowsKnown, Origin
  <2>. QED
    BY <2>1, <2>2, <2>3, ChangedReg DEF Keys
<1>3. ASSUME NEW body \in Bodies, CreateClient(c, body)
      PROVE  RegInv'
  <2>1. body \in Accepted
    BY <1>3 DEF CreateClient, Accepted
  <2>. QED
    BY <1>1, <1>3, <2>1, SaveReg DEF CreateClient
<1>4. ASSUME NEW body \in Bodies, NEW r \in Requests, UpdateFind(r, c, body)
      PROVE  RegInv'
  <2>1. body \in Accepted
    BY <1>4 DEF UpdateFind, Accepted
  <2>2. edits' \in [Requests -> {None} \cup [id : ClientIds, body : Accepted]]
    BY <1>1, <1>4, <2>1 DEF UpdateFind
  <2>. QED
    BY <1>4, <2>2, EditReg DEF UpdateFind
<1>. QED
  BY <1>2, <1>3, <1>4

LEMMA OtherReg ==
    ASSUME RegInv, NEW k \in Scopes \cup People, PutOther(k) \/ DeleteOther(k)
    PROVE  RegInv'
<1>1. UNCHANGED <<clients, edits, asked, seeds>>
  BY DEF PutOther, DeleteOther
<1>2. RowsKnown'
  BY <1>1 DEF RegInv, RowsKnown, Origin
<1>3. "member" \in Keys /\ k \in Keys
  BY DEF Keys, People
<1>4. CASE PutOther(k)
  <2>1. Changed({k}) /\ others' = others \cup {k}
    BY <1>4 DEF PutOther
  <2>2. {k} \in SUBSET Keys
    BY <1>3
  <2>. QED
    BY <1>1, <1>2, <2>1, <2>2, ChangedReg
<1>5. CASE DeleteOther(k)
  <2>1. PICK gone : gone = IF k \in {"role", "user"} THEN {k, "member"} ELSE {k}
    OBVIOUS
  <2>2. Changed(gone) /\ others' = others \ gone
    BY <1>5, <2>1 DEF DeleteOther
  <2>3. gone \in SUBSET Keys
    BY <1>3, <2>1
  <2>4. "role" \in others \ others' => "member" \in gone
    BY <2>1, <2>2
  <2>. QED
    BY <1>1, <1>2, <2>2, <2>3, <2>4, ChangedReg
<1>. QED
  BY <1>4, <1>5

LEMMA NextReg == RegInv /\ [Next]_vars => RegInv'
<1>. SUFFICES ASSUME RegInv, [Next]_vars PROVE RegInv'
  OBVIOUS
<1>1. CASE UNCHANGED vars
  <2>1. /\ UNCHANGED <<clients, others, boots, asked, edited, changes, seeds, starts>>
        /\ edits' = edits
    BY <1>1 DEF vars
  <2>. QED
    BY <2>1, EditReg DEF RegInv, RowsKnown
<1>2. ASSUME NEW i \in Instances,
             (\E enabled \in BOOLEAN : Start(i, enabled)) \/ Probe(i) \/ Seed(i) \/ Stop(i)
      PROVE  RegInv'
  BY <1>2, StartReg, ProbeReg, SeedReg, StopReg
<1>3. ASSUME NEW c \in ClientIds,
             \/ DeleteClient(c)
             \/ \E body \in Bodies :
                  CreateClient(c, body) \/ \E r \in Requests : UpdateFind(r, c, body)
      PROVE  RegInv'
  BY <1>3, AdminReg
<1>4. ASSUME NEW r \in Requests, UpdateStore(r) \/ UpdateFails(r)
      PROVE  RegInv'
  BY <1>4, UpdateReg
<1>5. ASSUME NEW k \in Scopes \cup People, PutOther(k) \/ DeleteOther(k)
      PROVE  RegInv'
  BY <1>5, OtherReg
<1>. QED
  BY <1>1, <1>2, <1>3, <1>4, <1>5 DEF Next

\* Every row was written by a seeding or by an accepted body, a seeding only
\* follows a probing of a database that was empty or being changed, and it
\* accounts for every fixture.
THEOREM RegistrySafe == Spec => []RegInv
BY InitReg, NextReg, PTL DEF Spec

\* "restarts never overwrite operator edits or resurrect deleted demo fixtures":
\* a boot that probed a database with data in it never seeds (bundleHasData).
THEOREM EditsSurviveRestarts == Spec => SeedKeepsEdits
<1>1. RegInv => [\A i \in Instances :
          (boots[i].step = "seed" /\ Seed(i) /\ Head(boots[i].left) \in edited)
            => boots[i].vacant]_vars
  BY DEF RegInv, Seeding
<1>. QED
  BY <1>1, RegistrySafe, PTL DEF SeedKeepsEdits

\* When no instance died seeding, every fixture is there or was changed by an
\* operator, whichever instances seeded beside each other (seedBundle).
THEOREM SeedingCompletes == Spec => []SeedComplete
<1>1. RegInv => SeedComplete
  BY DEF RegInv, SeedComplete, Accounted
<1>. QED
  BY <1>1, RegistrySafe, PTL

-----------------------------------------------------------------------------
(* The list helpers *)

Rank(I, i) == Cardinality({j \in I : j <= i})

\* Counting up to it numbers the members of a finite set of numbers in order.
LEMMA RankFacts ==
    ASSUME NEW n \in Nat, NEW I \in SUBSET (1..n)
    PROVE  /\ Cardinality(I) \in Nat
           /\ \A i \in I : Rank(I, i) \in 1..Cardinality(I)
           /\ \A i, j \in I : i < j => Rank(I, i) < Rank(I, j)
           /\ \A k \in 1..Cardinality(I) : \E i \in I : Rank(I, i) = k
<1>1. IsFiniteSet(I) /\ Cardinality(I) \in Nat
  <2>1. IsFiniteSet(1..n)
    BY FS_Interval
  <2>. QED
    BY <2>1, FS_Subset, FS_CardinalityType
<1>2. ASSUME NEW i \in I
      PROVE  Rank(I, i) \in 1..Cardinality(I)
  <2> DEFINE A == {j \in I : j <= i}
  <2>1. IsFiniteSet(A) /\ Cardinality(A) <= Cardinality(I) /\ Cardinality(A) \in Nat
    BY <1>1, FS_Subset, FS_CardinalityType
  <2>2. i \in A
    OBVIOUS
  <2>3. Cardinality(A) # 0
    BY <2>1, <2>2, FS_EmptySet
  <2>4. Cardinality(A) \in 1..Cardinality(I)
    <3>. HIDE DEF A
    <3>. QED
      BY <1>1, <2>1, <2>3
  <2>. QED
    BY <2>4 DEF Rank
<1>3. ASSUME NEW i \in I, NEW j \in I, i < j
      PROVE  Rank(I, i) < Rank(I, j)
  <2> DEFINE A == {m \in I : m <= i}
             B == {m \in I : m <= j}
  <2>1. IsFiniteSet(B) /\ A \in SUBSET B /\ j \in B \ A
    <3>1. IsFiniteSet(B)
      BY <1>1, FS_Subset
    <3>2. \A m \in I : m \in Int
      OBVIOUS
    <3>3. i \in Int /\ j \in Int
      BY <3>2
    <3>4. \A m \in I : m <= i => m <= j
      BY <1>3, <3>2, <3>3
    <3>5. ~(j <= i) /\ j <= j
      BY <1>3, <3>3
    <3>. QED
      BY <3>1, <3>4, <3>5
  <2>2. /\ Cardinality(A) <= Cardinality(B) /\ Cardinality(A) # Cardinality(B)
        /\ Cardinality(A) \in Nat /\ Cardinality(B) \in Nat
    <3>. HIDE DEF A, B
    <3>. QED
      BY <2>1, FS_Subset, FS_CardinalityType
  <2>3. Cardinality(A) < Cardinality(B)
    <3>. HIDE DEF A, B
    <3>. QED
      BY <2>2
  <2>. QED
    BY <2>3 DEF Rank
<1>4. ASSUME NEW k \in 1..Cardinality(I)
      PROVE  \E i \in I : Rank(I, i) = k
  <2> DEFINE f == [i \in I |-> Rank(I, i)]
  <2>1. f \in [I -> 1..Cardinality(I)]
    BY <1>2
  <2>2. ASSUME NEW i \in I, NEW j \in I, f[i] = f[j]
        PROVE  i = j
    <3>1. Rank(I, i) = Rank(I, j) /\ i \in Int /\ j \in Int
      BY <2>2
    <3>2. ~(i < j) /\ ~(j < i)
      BY <1>2, <1>3, <3>1
    <3>. QED
      BY <3>1, <3>2
  <2>3. f \in Injection(I, 1..Cardinality(I))
    BY <2>1, <2>2 DEF Injection, IsInjective
  <2>4. IsFiniteSet(1..Cardinality(I)) /\ Cardinality(1..Cardinality(I)) = Cardinality(I)
    BY <1>1, FS_Interval
  <2>5. f \in Surjection(I, 1..Cardinality(I))
    <3>. HIDE DEF f
    <3>. QED
      BY <2>3, <2>4, FS_Injection
  <2>6. \E i \in I : f[i] = k
    <3>. HIDE DEF f
    <3>. QED
      BY <2>5 DEF Surjection
  <2>. QED
    BY <2>6
<1>. QED
  BY <1>1, <1>2, <1>3, <1>4

\* at says which index each collected entry comes from.
Picks(ys, xs, I, at) ==
    /\ at \in [1..Cardinality(I) -> I]
    /\ ys = [k \in 1..Cardinality(I) |-> xs[at[k]]]
    /\ \A k, l \in 1..Cardinality(I) : k < l => at[k] < at[l]
    /\ \A i \in I : \E k \in 1..Cardinality(I) : at[k] = i

\* The loops collect the entries at the indices they keep, each once, in order.
LEMMA EntriesFacts ==
    ASSUME NEW n \in Nat, NEW I \in SUBSET (1..n), NEW xs
    PROVE  Cardinality(I) \in Nat /\ \E at : Picks(Entries(xs, I), xs, I, at)
<1> DEFINE at == [k \in 1..Cardinality(I) |-> CHOOSE i \in I : Rank(I, i) = k]
<1>1. Cardinality(I) \in Nat /\ \A i \in I : i \in Int
  <2>1. \A i \in I : i \in Int
    OBVIOUS
  <2>. QED
    BY <2>1, RankFacts
<1>2. ASSUME NEW k \in 1..Cardinality(I)
      PROVE  at[k] \in I /\ Rank(I, at[k]) = k
  <2>1. \E i \in I : Rank(I, i) = k
    BY RankFacts
  <2>. QED
    BY <2>1
<1>3. at \in [1..Cardinality(I) -> I]
  BY <1>2
<1>4. Entries(xs, I) = [k \in 1..Cardinality(I) |-> xs[at[k]]]
  BY DEF Entries, Rank
<1>. HIDE DEF at
<1>5. ASSUME NEW k \in 1..Cardinality(I), NEW l \in 1..Cardinality(I), k < l
      PROVE  at[k] < at[l]
  <2>1. /\ at[k] \in I /\ at[l] \in I /\ at[k] \in Int /\ at[l] \in Int
        /\ Rank(I, at[k]) = k /\ Rank(I, at[l]) = l
    BY <1>1, <1>2
  <2>2. at[l] < at[k] => l < k
    BY <2>1, RankFacts
  <2>3. ~(at[l] < at[k]) /\ at[k] # at[l]
    BY <1>1, <1>5, <2>1, <2>2
  <2>. QED
    BY <2>1, <2>3
<1>6. ASSUME NEW i \in I
      PROVE  \E k \in 1..Cardinality(I) : at[k] = i
  <2>1. PICK k \in 1..Cardinality(I) : k = Rank(I, i)
    BY RankFacts
  <2>2. at[k] \in I /\ Rank(I, at[k]) = Rank(I, i) /\ at[k] \in Int /\ i \in Int
    BY <1>1, <1>2, <2>1
  <2>3. /\ at[k] < i => Rank(I, at[k]) < Rank(I, i)
        /\ i < at[k] => Rank(I, i) < Rank(I, at[k])
    BY <2>2, RankFacts
  <2>4. Rank(I, i) \in Int
    BY <1>1, <2>1
  <2>5. ~(at[k] < i) /\ ~(i < at[k])
    BY <2>2, <2>3, <2>4
  <2>. QED
    BY <2>2, <2>5
<1>. QED
  BY <1>1, <1>3, <1>4, <1>5, <1>6 DEF Picks

\* A loop that keeps everything copies the list.
LEMMA EntriesAll ==
    ASSUME NEW S, NEW xs \in Seq(S)
    PROVE  Entries(xs, DOMAIN xs) = xs
<1>1. Len(xs) \in Nat /\ DOMAIN xs = 1..Len(xs) /\ xs = [k \in 1..Len(xs) |-> xs[k]]
  OBVIOUS
<1>2. Cardinality(DOMAIN xs) = Len(xs)
  BY <1>1, FS_Interval
<1>3. ASSUME NEW k \in 1..Len(xs)
      PROVE  (CHOOSE i \in 1..Len(xs) : Cardinality({j \in 1..Len(xs) : j <= i}) = k) = k
  <2>1. ASSUME NEW i \in 1..Len(xs)
        PROVE  Cardinality({j \in 1..Len(xs) : j <= i}) = i
    <3>1. {j \in 1..Len(xs) : j <= i} = 1..i
      BY <1>1
    <3>2. i \in Nat \ {0} /\ i \in Int
      BY <1>1
    <3>3. Cardinality(1..i) = i
      BY <3>2, FS_Interval
    <3>. QED
      BY <3>1, <3>3
  <2>2. \A i \in 1..Len(xs) :
          Cardinality({j \in 1..Len(xs) : j <= i}) = k <=> i = k
    BY <2>1
  <2>. QED
    BY <2>2
<1>4. Entries(xs, DOMAIN xs) = [k \in 1..Len(xs) |-> xs[k]]
  BY <1>1, <1>2, <1>3 DEF Entries
<1>. QED
  BY <1>1, <1>4

\* What is left of a list of which some entries are kept.
LEMMA EntriesKept ==
    ASSUME NEW S, NEW xs \in Seq(S), NEW I \in SUBSET (DOMAIN xs)
    PROVE  /\ Entries(xs, I) \in Seq(S)
           /\ ToSet(Entries(xs, I)) = {xs[i] : i \in I}
           /\ \A k, l \in DOMAIN Entries(xs, I) : k # l =>
                \E i, j \in I : /\ i # j
                                /\ Entries(xs, I)[k] = xs[i] /\ Entries(xs, I)[l] = xs[j]
<1>1. Len(xs) \in Nat /\ DOMAIN xs = 1..Len(xs) /\ \A i \in DOMAIN xs : xs[i] \in S
  OBVIOUS
<1>2. PICK at : Cardinality(I) \in Nat /\ Picks(Entries(xs, I), xs, I, at)
  BY <1>1, EntriesFacts
<1>3. PICK ys : ys = Entries(xs, I)
  OBVIOUS
<1>4. /\ at \in [1..Cardinality(I) -> I]
      /\ ys = [k \in 1..Cardinality(I) |-> xs[at[k]]]
      /\ \A k, l \in 1..Cardinality(I) : k < l => at[k] < at[l]
      /\ \A i \in I : \E k \in 1..Cardinality(I) : at[k] = i
  BY <1>2, <1>3 DEF Picks
<1>5. \A k \in 1..Cardinality(I) : ys[k] \in S
  BY <1>1, <1>4
<1>6. ys \in Seq(S)
  BY <1>2, <1>4, <1>5
<1>7. ToSet(ys) = {xs[i] : i \in I}
  <2>1. DOMAIN ys = 1..Cardinality(I) /\ \A k \in DOMAIN ys : ys[k] = xs[at[k]]
    BY <1>4
  <2>. QED
    BY <1>4, <2>1 DEF ToSet
<1>8. ASSUME NEW k \in DOMAIN ys, NEW l \in DOMAIN ys, k # l
      PROVE  \E i, j \in I : i # j /\ ys[k] = xs[i] /\ ys[l] = xs[j]
  <2>1. k \in 1..Cardinality(I) /\ l \in 1..Cardinality(I) /\ k \in Int /\ l \in Int
    BY <1>2, <1>4
  <2>2. at[k] \in I /\ at[l] \in I /\ ys[k] = xs[at[k]] /\ ys[l] = xs[at[l]]
    BY <1>4, <2>1
  <2>3. at[k] \in Int /\ at[l] \in Int
    BY <1>1, <2>2
  <2>4. at[k] # at[l]
    BY <1>4, <1>8, <2>1, <2>3
  <2>. QED
    BY <2>2, <2>4
<1>. QED
  BY <1>3, <1>6, <1>7, <1>8

\* What cleanStringList leaves: trimmed, without blanks, no entry twice.
Tidy(xs) ==
    /\ xs \in Seq(Strings)
    /\ \A i \in DOMAIN xs : xs[i] # Empty /\ Trim[xs[i]] = xs[i]
    /\ \A i, j \in DOMAIN xs : i # j => xs[i] # xs[j]

LEMMA NilFacts ==
    /\ <<>> \in Seq(Strings) /\ Nil # <<>>
    /\ \A xs : Tidy(xs) => xs \in Seq(Strings) /\ xs # Nil
    /\ cleanStringList(Nil) = Nil /\ cleanStringList(<<>>) = Nil
<1>1. <<>> \in Seq(Strings) /\ Nil # <<>>
  <2>1. <<>> \in Seq(Strings)
    OBVIOUS
  <2>. QED
    BY <2>1, NilAssumption
<1>2. Items(Nil) = <<>> /\ Items(<<>>) = <<>>
  BY DEF Items
<1>. QED
  BY <1>1, <1>2, NilAssumption DEF Tidy, cleanStringList

LEMMA CleanTidies ==
    ASSUME NEW xs \in List
    PROVE  cleanStringList(xs) = Nil \/ Tidy(cleanStringList(xs))
<1>1. CASE Items(xs) = <<>>
  BY <1>1 DEF cleanStringList
<1>2. CASE Items(xs) # <<>>
  <2> DEFINE ys == [i \in DOMAIN xs |-> Trim[xs[i]]]
             I == {i \in DOMAIN xs : /\ ys[i] # Empty
                                     /\ \A j \in 1..(i - 1) : ys[j] # ys[i]}
  <2>1. cleanStringList(xs) = Entries(ys, I)
    BY <1>2 DEF cleanStringList
  <2>2. xs \in Seq(Strings)
    BY <1>2 DEF Items, List
  <2>3. Len(xs) \in Nat /\ DOMAIN xs = 1..Len(xs) /\ \A i \in DOMAIN xs : xs[i] \in Strings
    BY <2>2
  <2>4. \A i \in DOMAIN xs : ys[i] \in Strings /\ Trim[ys[i]] = ys[i]
    BY <2>3, StringsAssumption
  <2>5. ys \in Seq(Strings) /\ DOMAIN ys = DOMAIN xs
    BY <2>3, <2>4
  <2>6. \A i \in I : i \in DOMAIN xs /\ ys[i] # Empty
    OBVIOUS
  <2>7. ASSUME NEW i \in I, NEW j \in I, i # j
        PROVE  ys[i] # ys[j]
    <3>1. i \in Nat /\ j \in Nat /\ i >= 1 /\ j >= 1
      BY <2>3
    <3>2. i \in 1..(j - 1) \/ j \in 1..(i - 1)
      BY <2>7, <3>1
    <3>. QED
      BY <3>2
  <2>. HIDE DEF ys, I
  <2>8. I \in SUBSET (DOMAIN ys)
    BY <2>5, <2>6
  <2>9. PICK zs : zs = Entries(ys, I)
    OBVIOUS
  <2>10. /\ zs \in Seq(Strings) /\ ToSet(zs) = {ys[i] : i \in I}
         /\ \A k, l \in DOMAIN zs : k # l =>
              \E i, j \in I : i # j /\ zs[k] = ys[i] /\ zs[l] = ys[j]
    BY <2>5, <2>8, <2>9, EntriesKept
  <2>11. \A k \in DOMAIN zs : zs[k] # Empty /\ Trim[zs[k]] = zs[k]
    <3>1. \A k \in DOMAIN zs : zs[k] \in ToSet(zs)
      BY DEF ToSet
    <3>. QED
      BY <2>4, <2>6, <2>10, <3>1
  <2>12. \A k, l \in DOMAIN zs : k # l => zs[k] # zs[l]
    BY <2>7, <2>10
  <2>. QED
    BY <2>1, <2>9, <2>10, <2>11, <2>12 DEF Tidy
<1>. QED
  BY <1>1, <1>2

LEMMA CleanKeepsTidy ==
    ASSUME NEW xs, Tidy(xs), xs # <<>>
    PROVE  cleanStringList(xs) = xs
<1> DEFINE ys == [i \in DOMAIN xs |-> Trim[xs[i]]]
           I == {i \in DOMAIN xs : /\ ys[i] # Empty
                                   /\ \A j \in 1..(i - 1) : ys[j] # ys[i]}
<1>1. xs \in Seq(Strings) /\ xs # Nil
  BY NilFacts
<1>2. Len(xs) \in Nat /\ DOMAIN xs = 1..Len(xs) /\ xs = [i \in DOMAIN xs |-> xs[i]]
  BY <1>1
<1>3. ys = xs
  <2>1. \A i \in DOMAIN xs : Trim[xs[i]] = xs[i]
    BY DEF Tidy
  <2>. QED
    BY <1>2, <2>1
<1>4. cleanStringList(xs) = Entries(ys, I)
  <2>1. Items(xs) # <<>>
    BY <1>1 DEF Items
  <2>. QED
    BY <2>1 DEF cleanStringList
<1>5. \A i \in DOMAIN xs : i \in I <=> xs[i] # Empty /\ \A j \in 1..(i - 1) : xs[j] # xs[i]
  BY <1>3
<1>6. I \in SUBSET (DOMAIN xs)
  OBVIOUS
<1>. HIDE DEF ys, I
<1>7. I = DOMAIN xs
  <2>1. ASSUME NEW i \in DOMAIN xs, NEW j \in 1..(i - 1)
        PROVE  xs[j] # xs[i]
    <3>1. j \in DOMAIN xs /\ j # i
      BY <1>2
    <3>. QED
      BY <3>1 DEF Tidy
  <2>2. \A i \in DOMAIN xs : xs[i] # Empty
    BY DEF Tidy
  <2>. QED
    BY <1>5, <1>6, <2>1, <2>2
<1>. QED
  BY <1>1, <1>3, <1>4, <1>7, EntriesAll

LEMMA FoldsOf ==
    ASSUME NEW xs \in Seq(Strings), NEW target
    PROVE  containsFold(xs, target) <=> \E i \in DOMAIN xs : Fold[xs[i]] = Fold[target]
<1>1. Items(xs) = xs
  BY NilAssumption DEF Items
<1>. QED
  BY <1>1 DEF containsFold, ToSet

\* removeScope takes out one scope in every spelling and nothing else.
LEMMA RemoveScopeFacts ==
    ASSUME NEW xs \in Seq(Strings), NEW target
    PROVE  LET ys == removeScope(xs, target) IN
           /\ ys \in List
           /\ xs # <<>> =>
                /\ ys \in Seq(Strings) /\ ~containsFold(ys, target)
                /\ \A s : containsFold(xs, s) /\ Fold[s] # Fold[target]
                            => containsFold(ys, s)
                /\ Tidy(xs) => Tidy(ys)
                /\ ~containsFold(xs, target) => ys = xs
<1> DEFINE I == {i \in DOMAIN xs : Fold[xs[i]] # Fold[target]}
<1>1. Items(xs) = xs
  BY NilAssumption DEF Items
<1>2. CASE xs = <<>>
  BY <1>1, <1>2 DEF removeScope, List
<1>3. CASE xs # <<>>
  <2>1. PICK zs : zs = Entries(xs, I)
    OBVIOUS
  <2>2. removeScope(xs, target) = zs
    BY <1>1, <1>3, <2>1 DEF removeScope
  <2>3. I \in SUBSET (DOMAIN xs)
    OBVIOUS
  <2>4. /\ zs \in Seq(Strings) /\ ToSet(zs) = {xs[i] : i \in I}
        /\ \A k, l \in DOMAIN zs : k # l =>
             \E i, j \in I : i # j /\ zs[k] = xs[i] /\ zs[l] = xs[j]
    <3>. HIDE DEF I
    <3>. QED
      BY <2>1, <2>3, EntriesKept
  <2>5. /\ \A k \in DOMAIN zs : \E i \in I : zs[k] = xs[i]
        /\ \A i \in I : \E k \in DOMAIN zs : zs[k] = xs[i]
    <3>. HIDE DEF I
    <3>1. \A k \in DOMAIN zs : zs[k] \in {xs[i] : i \in I}
      BY <2>4 DEF ToSet
    <3>2. \A i \in I : xs[i] \in ToSet(zs)
      BY <2>4
    <3>3. \A i \in I : \E k \in DOMAIN zs : zs[k] = xs[i]
      BY <3>2 DEF ToSet
    <3>. QED
      BY <3>1, <3>3
  <2>6. ~containsFold(zs, target)
    BY <2>4, <2>5, FoldsOf
  <2>7. ASSUME NEW s, containsFold(xs, s), Fold[s] # Fold[target]
        PROVE  containsFold(zs, s)
    <3>1. PICK i \in DOMAIN xs : Fold[xs[i]] = Fold[s]
      BY <2>7, FoldsOf
    <3>2. i \in I
      BY <2>7, <3>1
    <3>. QED
      BY <2>4, <2>5, <3>1, <3>2, FoldsOf
  <2>8. Tidy(xs) => Tidy(zs)
    <3>. HIDE DEF I
    <3>. QED
      BY <2>3, <2>4, <2>5 DEF Tidy
  <2>9. ASSUME ~containsFold(xs, target)
        PROVE  zs = xs
    <3>1. I = DOMAIN xs
      BY <2>9, FoldsOf
    <3>. QED
      BY <2>1, <3>1, EntriesAll
  <2>. QED
    BY <1>3, <2>2, <2>4, <2>6, <2>7, <2>8, <2>9 DEF List
<1>. QED
  BY <1>2, <1>3

-----------------------------------------------------------------------------
(* Normalize *)

\* A scope list as Normalize leaves it.
NormalList(xs, refresh) ==
    /\ Tidy(xs) /\ xs # <<>>
    /\ containsFold(xs, Openid)
    /\ refresh <=> containsFold(xs, OfflineAccess)

\* ys has the entries of xs, at of[i] for i, and s at the one index "at".
Inserted(ys, at, of, xs, s) ==
    /\ at \in DOMAIN ys /\ ys[at] = s
    /\ \A i \in DOMAIN ys : i # at => of[i] \in DOMAIN xs /\ ys[i] = xs[of[i]]
    /\ \A i, j \in DOMAIN ys : i # at /\ j # at /\ i # j => of[i] # of[j]
    /\ \A k \in DOMAIN xs : \E i \in DOMAIN ys : i # at /\ of[i] = k

\* ys contains what xs does, and s.
OneMore(ys, xs, s) ==
    /\ Tidy(ys) /\ ys # <<>> /\ containsFold(ys, s)
    /\ \A t : Fold[t] # Fold[s] => (containsFold(ys, t) <=> containsFold(xs, t))

LEMMA InsertedIsOneMore ==
    ASSUME NEW xs, Tidy(xs), NEW s \in Strings, s # Empty, Trim[s] = s, ~containsFold(xs, s),
           NEW ys \in Seq(Strings), NEW at, NEW of, Inserted(ys, at, of, xs, s)
    PROVE  OneMore(ys, xs, s)
<1>1. xs \in Seq(Strings)
  BY NilFacts
<1>2. \A i \in DOMAIN xs : Fold[xs[i]] # Fold[s]
  BY <1>1, FoldsOf
<1>3. containsFold(ys, s)
  BY FoldsOf DEF Inserted
<1>4. \A k \in DOMAIN xs : xs[k] # Empty /\ Trim[xs[k]] = xs[k]
  BY DEF Tidy
<1>5. \A k, l \in DOMAIN xs : k # l => xs[k] # xs[l]
  BY DEF Tidy
<1>6. \A i \in DOMAIN ys : ys[i] # Empty /\ Trim[ys[i]] = ys[i]
  <2>1. ASSUME NEW i \in DOMAIN ys
        PROVE  ys[i] # Empty /\ Trim[ys[i]] = ys[i]
    <3>1. CASE i = at
      BY <3>1 DEF Inserted
    <3>2. CASE i # at
      <4>1. of[i] \in DOMAIN xs /\ ys[i] = xs[of[i]]
        BY <3>2 DEF Inserted
      <4>. QED
        BY <1>4, <4>1
    <3>. QED
      BY <3>1, <3>2
  <2>. QED
    BY <2>1
<1>7. ASSUME NEW i \in DOMAIN ys, NEW j \in DOMAIN ys, i # j
      PROVE  ys[i] # ys[j]
  <2>1. \A k \in DOMAIN ys : k # at => ys[k] # s
    BY <1>2 DEF Inserted
  <2>2. CASE i = at \/ j = at
    BY <1>7, <2>1, <2>2 DEF Inserted
  <2>3. CASE i # at /\ j # at
    <3>1. /\ of[i] \in DOMAIN xs /\ of[j] \in DOMAIN xs /\ of[i] # of[j]
          /\ ys[i] = xs[of[i]] /\ ys[j] = xs[of[j]]
      BY <1>7, <2>3 DEF Inserted
    <3>. QED
      BY <1>5, <3>1
  <2>. QED
    BY <2>2, <2>3
<1>8. ASSUME NEW t, Fold[t] # Fold[s]
      PROVE  containsFold(ys, t) <=> containsFold(xs, t)
  <2>1. ASSUME containsFold(ys, t)
        PROVE  containsFold(xs, t)
    <3>1. PICK i \in DOMAIN ys : Fold[ys[i]] = Fold[t]
      BY <2>1, FoldsOf
    <3>2. of[i] \in DOMAIN xs /\ Fold[xs[of[i]]] = Fold[t]
      BY <1>8, <3>1 DEF Inserted
    <3>. QED
      BY <1>1, <3>2, FoldsOf
  <2>2. ASSUME containsFold(xs, t)
        PROVE  containsFold(ys, t)
    <3>1. PICK k \in DOMAIN xs : Fold[xs[k]] = Fold[t]
      BY <1>1, <2>2, FoldsOf
    <3>2. PICK i \in DOMAIN ys : i # at /\ of[i] = k
      BY DEF Inserted
    <3>3. Fold[ys[i]] = Fold[t]
      BY <3>1, <3>2 DEF Inserted
    <3>. QED
      BY <3>3, FoldsOf
  <2>. QED
    BY <2>1, <2>2
<1>9. ys # <<>>
  BY DEF Inserted
<1>. QED
  BY <1>3, <1>6, <1>7, <1>8, <1>9 DEF Tidy, OneMore

LEMMA OneMoreScope ==
    ASSUME NEW xs, Tidy(xs), NEW s \in {Openid, OfflineAccess}, ~containsFold(xs, s)
    PROVE  OneMore(<<s>> \o xs, xs, s) /\ OneMore(Append(xs, s), xs, s)
<1>1. xs \in Seq(Strings) /\ Len(xs) \in Nat /\ DOMAIN xs = 1..Len(xs)
  BY NilFacts
<1>2. s \in Strings /\ s # Empty /\ Trim[s] = s
  BY StringsAssumption
<1>3. ASSUME NEW ys, ys = <<s>> \o xs
      PROVE  OneMore(ys, xs, s)
  <2>1. /\ ys \in Seq(Strings) /\ DOMAIN ys = 1..(Len(xs) + 1) /\ ys[1] = s
        /\ \A i \in DOMAIN ys : i # 1 => i - 1 \in DOMAIN xs /\ ys[i] = xs[i - 1]
    BY <1>1, <1>2, <1>3
  <2>2. PICK of : of = [i \in DOMAIN ys |-> i - 1]
    OBVIOUS
  <2>3. \A i \in DOMAIN ys : of[i] = i - 1 /\ i \in Int
    BY <2>1, <2>2
  <2>4. 1 \in DOMAIN ys
    BY <1>1, <2>1
  <2>5. \A k \in DOMAIN xs : \E i \in DOMAIN ys : i # 1 /\ of[i] = k
    <3>1. \A k \in DOMAIN xs : k + 1 \in DOMAIN ys /\ k + 1 # 1 /\ (k + 1) - 1 = k
      BY <1>1, <2>1
    <3>. QED
      BY <2>3, <3>1
  <2>6. \A i, j \in DOMAIN ys : i # j => of[i] # of[j]
    BY <2>3
  <2>7. Inserted(ys, 1, of, xs, s)
    BY <2>1, <2>3, <2>4, <2>5, <2>6 DEF Inserted
  <2>. QED
    BY <1>2, <2>1, <2>7, InsertedIsOneMore
<1>4. ASSUME NEW ys, ys = Append(xs, s)
      PROVE  OneMore(ys, xs, s)
  <2>1. PICK n \in Nat : n = Len(xs) + 1
    BY <1>1
  <2>2. /\ ys \in Seq(Strings) /\ n \in DOMAIN ys /\ ys[n] = s
        /\ \A i \in DOMAIN ys : i # n => i \in DOMAIN xs /\ ys[i] = xs[i]
        /\ \A i \in DOMAIN xs : i \in DOMAIN ys /\ i # n
    BY <1>1, <1>2, <1>4, <2>1
  <2>3. PICK of : of = [i \in DOMAIN ys |-> i]
    OBVIOUS
  <2>4. \A i \in DOMAIN ys : of[i] = i
    BY <2>3
  <2>5. Inserted(ys, n, of, xs, s)
    BY <2>2, <2>4 DEF Inserted
  <2>. QED
    BY <1>2, <2>2, <2>5, InsertedIsOneMore
<1>. QED
  BY <1>3, <1>4

\* openid is there, offline_access exactly with refresh tokens.
LEMMA NormalScopesFacts ==
    ASSUME NEW xs \in List, NEW refresh \in BOOLEAN
    PROVE  NormalList(NormalScopes(xs, refresh), refresh)
<1> DEFINE clean == cleanStringList(xs)
           open == IF containsFold(clean, Openid) THEN clean
                   ELSE <<Openid>> \o Items(clean)
<1>1. clean = Nil \/ Tidy(clean)
  BY CleanTidies
<1>2. Fold[Openid] # Fold[OfflineAccess]
  BY StringsAssumption
<1>3. NormalScopes(xs, refresh) =
        CASE refresh /\ ~containsFold(open, OfflineAccess) -> Append(open, OfflineAccess)
          [] refresh /\ containsFold(open, OfflineAccess) -> open
          [] ~refresh -> removeScope(open, OfflineAccess)
  BY DEF NormalScopes
<1>. HIDE DEF clean
<1>4. Tidy(Items(clean)) /\ (containsFold(clean, Openid) <=> containsFold(Items(clean), Openid))
  <2>1. CASE clean = Nil
    <3>1. Items(clean) = <<>> /\ Items(<<>>) = <<>>
      BY <2>1 DEF Items
    <3>2. Tidy(<<>>)
      BY NilFacts DEF Tidy
    <3>. QED
      BY <3>1, <3>2 DEF containsFold
  <2>2. CASE clean # Nil
    <3>1. Items(clean) = clean
      BY <2>2 DEF Items
    <3>. QED
      BY <1>1, <2>2, <3>1
  <2>. QED
    BY <2>1, <2>2
<1>5. Tidy(open) /\ open # <<>> /\ containsFold(open, Openid)
  <2>1. CASE containsFold(clean, Openid)
    <3>1. clean # Nil
      <4>1. Items(Nil) = <<>>
        BY DEF Items
      <4>. QED
        BY <2>1, <4>1 DEF containsFold, ToSet
    <3>2. clean # <<>>
      <4>1. Items(<<>>) = <<>>
        BY DEF Items
      <4>. QED
        BY <2>1, <4>1 DEF containsFold, ToSet
    <3>. QED
      BY <1>1, <2>1, <3>1, <3>2
  <2>2. CASE ~containsFold(clean, Openid)
    BY <1>4, <2>2, OneMoreScope DEF OneMore
  <2>. QED
    BY <2>1, <2>2
<1>. HIDE DEF open
<1>6. open \in Seq(Strings)
  BY <1>5, NilFacts
<1>7. CASE refresh /\ ~containsFold(open, OfflineAccess)
  <2>1. NormalScopes(xs, refresh) = Append(open, OfflineAccess)
    BY <1>3, <1>7
  <2>2. PICK ys : ys = Append(open, OfflineAccess)
    OBVIOUS
  <2>3. /\ Tidy(ys) /\ ys # <<>> /\ containsFold(ys, OfflineAccess)
        /\ containsFold(ys, Openid) <=> containsFold(open, Openid)
    BY <1>2, <1>5, <1>7, <2>2, OneMoreScope DEF OneMore
  <2>. QED
    BY <1>5, <1>7, <2>1, <2>2, <2>3 DEF NormalList
<1>8. CASE refresh /\ containsFold(open, OfflineAccess)
  <2>1. NormalScopes(xs, refresh) = open
    BY <1>3, <1>8
  <2>. QED
    BY <1>5, <1>8, <2>1 DEF NormalList
<1>9. CASE ~refresh
  <2>1. NormalScopes(xs, refresh) = removeScope(open, OfflineAccess)
    BY <1>3, <1>9
  <2>2. PICK ys : ys = removeScope(open, OfflineAccess)
    OBVIOUS
  <2>3. /\ ys \in Seq(Strings) /\ ~containsFold(ys, OfflineAccess)
        /\ containsFold(ys, Openid) /\ Tidy(ys)
    BY <1>2, <1>5, <1>6, <2>2, RemoveScopeFacts
  <2>4. ys # <<>>
    BY <2>3, FoldsOf
  <2>. QED
    BY <1>9, <2>1, <2>2, <2>3, <2>4 DEF NormalList
<1>. QED
  BY <1>7, <1>8, <1>9

\* A scope list that Normalize left is left alone by it.
LEMMA NormalScopesAgain ==
    ASSUME NEW refresh \in BOOLEAN, NEW xs, NormalList(xs, refresh)
    PROVE  NormalScopes(xs, refresh) = xs
<1>1. cleanStringList(xs) = xs /\ xs \in Seq(Strings) /\ containsFold(xs, Openid)
  BY CleanKeepsTidy, NilFacts DEF NormalList
<1>2. CASE refresh
  <2>1. containsFold(xs, OfflineAccess)
    BY <1>2 DEF NormalList
  <2>. QED
    BY <1>1, <1>2, <2>1 DEF NormalScopes
<1>3. CASE ~refresh
  <2>1. ~containsFold(xs, OfflineAccess) /\ xs # <<>>
    BY <1>3 DEF NormalList
  <2>2. removeScope(xs, OfflineAccess) = xs
    BY <1>1, <2>1, RemoveScopeFacts
  <2>. QED
    BY <1>1, <1>3, <2>1, <2>2 DEF NormalScopes
<1>. QED
  BY <1>2, <1>3

\* A client as Normalize leaves it.
Normal(m) ==
    /\ m \in Client /\ m.method # ""
    /\ m.method = "none" => ~m.allowClientCredentials /\ m.jwks = Empty
    /\ Trim[m.jwks] = m.jwks
    /\ m.redirectURIs = Nil \/ Tidy(m.redirectURIs)
    /\ NormalList(m.allowedScopes, m.allowRefreshTokens)

LEMMA NormalizeFacts ==
    ASSUME NEW c \in Client
    PROVE  Normal(Normalize(c))
<1>1. PICK m : m = Normalize(c)
  OBVIOUS
<1>2. PICK scopes : scopes = NormalScopes(c.allowedScopes, c.allowRefreshTokens)
  OBVIOUS
<1>3. PICK uris : uris = cleanStringList(c.redirectURIs)
  OBVIOUS
<1>4. PICK method : method = IF c.method = "" THEN "none" ELSE c.method
  OBVIOUS
<1>5. PICK jwks : jwks = IF method = "none" THEN Empty ELSE Trim[c.jwks]
  OBVIOUS
<1>6. PICK creds \in BOOLEAN : creds = (c.allowClientCredentials /\ method # "none")
  OBVIOUS
<1>7. /\ c.allowedScopes \in List /\ c.redirectURIs \in List
      /\ c.allowRefreshTokens \in BOOLEAN /\ c.method \in Methods /\ c.jwks \in Strings
  BY DEF Client
<1>8. NormalList(scopes, c.allowRefreshTokens)
  BY <1>2, <1>7, NormalScopesFacts
<1>9. uris = Nil \/ Tidy(uris)
  BY <1>3, <1>7, CleanTidies
<1>10. scopes \in List /\ uris \in List
  BY <1>8, <1>9, NilFacts DEF List, NormalList
<1>11. jwks \in Strings /\ Trim[jwks] = jwks
  BY <1>5, <1>7, StringsAssumption
<1>12. method \in Methods /\ method # ""
  BY <1>4, <1>7 DEF Methods
<1>13. m = [c EXCEPT !.method = method, !.allowClientCredentials = creds, !.jwks = jwks,
                     !.redirectURIs = uris, !.allowedScopes = scopes]
  BY <1>1, <1>2, <1>3, <1>4, <1>5, <1>6 DEF Normalize
<1>14. /\ m \in Client /\ m.method = method /\ m.allowClientCredentials = creds
       /\ m.jwks = jwks /\ m.redirectURIs = uris /\ m.allowedScopes = scopes
       /\ m.allowRefreshTokens = c.allowRefreshTokens
  BY <1>10, <1>11, <1>12, <1>13 DEF Client
<1>15. m.method = "none" => ~m.allowClientCredentials /\ m.jwks = Empty
  BY <1>5, <1>6, <1>14
<1>. QED
  BY <1>1, <1>8, <1>9, <1>11, <1>12, <1>14, <1>15 DEF Normal

\* Normalising again changes nothing but a nil list.
LEMMA NormalizeAgain ==
    ASSUME NEW m, Normal(m)
    PROVE  Normalize(m) = [m EXCEPT !.redirectURIs = IF @ = <<>> THEN Nil ELSE @]
<1>1. m \in Client
  BY DEF Normal
<1>2. PICK uris : uris = IF m.redirectURIs = <<>> THEN Nil ELSE m.redirectURIs
  OBVIOUS
<1>3. NormalScopes(m.allowedScopes, m.allowRefreshTokens) = m.allowedScopes
  <2>1. m.allowRefreshTokens \in BOOLEAN
    BY <1>1 DEF Client
  <2>. QED
    BY <2>1, NormalScopesAgain DEF Normal
<1>4. cleanStringList(m.redirectURIs) = uris
  <2>1. CASE m.redirectURIs = Nil \/ m.redirectURIs = <<>>
    BY <1>2, <2>1, NilFacts
  <2>2. CASE m.redirectURIs # Nil /\ m.redirectURIs # <<>>
    <3>1. Tidy(m.redirectURIs)
      BY <2>2 DEF Normal
    <3>. QED
      BY <1>2, <2>2, <3>1, CleanKeepsTidy
  <2>. QED
    BY <2>1, <2>2
<1>5. /\ (IF m.method = "" THEN "none" ELSE m.method) = m.method
      /\ (IF m.method = "none" THEN Empty ELSE Trim[m.jwks]) = m.jwks
  BY DEF Normal
<1>6. PICK creds \in BOOLEAN : creds = (m.allowClientCredentials /\ m.method # "none")
  OBVIOUS
<1>7. creds = m.allowClientCredentials
  <2>1. m.allowClientCredentials \in BOOLEAN
    BY <1>1 DEF Client
  <2>2. m.allowClientCredentials => m.method # "none"
    BY DEF Normal
  <2>. QED
    BY <1>6, <2>1, <2>2
<1>8. Normalize(m) = [m EXCEPT !.method = m.method,
                               !.allowClientCredentials = m.allowClientCredentials,
                               !.jwks = m.jwks, !.redirectURIs = uris,
                               !.allowedScopes = m.allowedScopes]
  BY <1>3, <1>4, <1>5, <1>6, <1>7 DEF Normalize
<1>9. [m EXCEPT !.method = m.method, !.allowClientCredentials = m.allowClientCredentials,
                !.jwks = m.jwks, !.redirectURIs = uris, !.allowedScopes = m.allowedScopes]
        = [m EXCEPT !.redirectURIs = uris]
  BY <1>1 DEF Client
<1>. QED
  BY <1>2, <1>8, <1>9

\* A stored client is read back as it was, unless its method was left out.
LEMMA RoundTrip ==
    ASSUME NEW c \in Client, c.method # ""
    PROVE  toDomain(toClientEntity(c)) = c
<1>1. PICK uris : uris = encodeStringSlice(c.redirectURIs)
  OBVIOUS
<1>2. PICK scopes : scopes = encodeStringSlice(c.allowedScopes)
  OBVIOUS
<1>3. decodeStringSlice(uris) = c.redirectURIs /\ decodeStringSlice(scopes) = c.allowedScopes
  BY <1>1, <1>2 DEF encodeStringSlice, decodeStringSlice
<1>4. PICK row : row = toClientEntity(c)
  OBVIOUS
<1>5. row = [c EXCEPT !.redirectURIs = uris, !.allowedScopes = scopes, !.method = c.method]
  BY <1>1, <1>2, <1>4 DEF toClientEntity
<1>6. row = [c EXCEPT !.redirectURIs = uris, !.allowedScopes = scopes]
  BY <1>5 DEF Client
<1>7. row.redirectURIs = uris /\ row.allowedScopes = scopes
  BY <1>6 DEF Client
<1>8. toDomain(row) = [row EXCEPT !.redirectURIs = c.redirectURIs,
                                  !.allowedScopes = c.allowedScopes]
  BY <1>3, <1>7 DEF toDomain
<1>9. [row EXCEPT !.redirectURIs = c.redirectURIs, !.allowedScopes = c.allowedScopes] = c
  BY <1>6 DEF Client
<1>. QED
  BY <1>4, <1>8, <1>9

LEMMA ApplyProfileFacts ==
    ASSUME NEW c \in Client, NEW p \in Profiles
    PROVE  /\ ApplyProfile(c, p) \in Client
           /\ p \in {"spa", "web"} => ApplyProfile(c, p).requirePKCE
           /\ p \in {"spa", "web"} => ~ApplyProfile(c, p).allowClientCredentials
           /\ p = "spa" => ApplyProfile(c, p).method = "none"
           /\ p \in {"web", "m2m"} => ApplyProfile(c, p).method = "private_key_jwt"
           /\ p = "m2m" => /\ ApplyProfile(c, p).allowClientCredentials
                           /\ ~ApplyProfile(c, p).allowRefreshTokens
                           /\ ApplyProfile(c, p).redirectURIs = Nil
<1>1. CASE p = "spa"
  <2>1. ApplyProfile(c, p) = [c EXCEPT !.method = "none", !.requirePKCE = TRUE,
                                !.allowClientCredentials = FALSE, !.jwks = Empty]
    BY <1>1 DEF ApplyProfile
  <2>2. Empty \in Strings /\ "none" \in Methods
    BY StringsAssumption DEF Methods
  <2>. QED
    BY <1>1, <2>1, <2>2 DEF Client
<1>2. CASE p = "web"
  <2>1. ApplyProfile(c, p) = [c EXCEPT !.method = "private_key_jwt", !.requirePKCE = TRUE,
                                !.allowClientCredentials = FALSE]
    BY <1>2 DEF ApplyProfile
  <2>2. "private_key_jwt" \in Methods
    BY DEF Methods
  <2>. QED
    BY <1>2, <2>1, <2>2 DEF Client
<1>3. CASE p = "m2m"
  <2>1. PICK scopes : scopes = removeScope(c.allowedScopes, OfflineAccess)
    OBVIOUS
  <2>2. scopes \in List
    <3>1. CASE c.allowedScopes = Nil
      BY <2>1, <3>1 DEF removeScope, Items, List
    <3>2. CASE c.allowedScopes # Nil
      <4>1. c.allowedScopes \in Seq(Strings)
        BY <3>2 DEF Client, List
      <4>. QED
        BY <2>1, <4>1, RemoveScopeFacts
    <3>. QED
      BY <3>1, <3>2
  <2>3. ApplyProfile(c, p) = [c EXCEPT !.method = "private_key_jwt", !.requirePKCE = FALSE,
                                !.allowClientCredentials = TRUE,
                                !.allowRefreshTokens = FALSE, !.redirectURIs = Nil,
                                !.allowedScopes = scopes]
    BY <1>3, <2>1 DEF ApplyProfile
  <2>4. "private_key_jwt" \in Methods /\ Nil \in List
    BY DEF Methods, List
  <2>. QED
    BY <1>3, <2>2, <2>3, <2>4 DEF Client
<1>4. CASE p \notin {"spa", "web", "m2m"}
  BY <1>4 DEF ApplyProfile
<1>. QED
  BY <1>1, <1>2, <1>3, <1>4

\* A row that a handler saved is read back as what it normalised.
LEMMA SubmittedFacts ==
    ASSUME NEW body \in Accepted
    PROVE  /\ Normal(Submitted(body)) /\ Valid(Submitted(body))
           /\ toDomain(toClientEntity(Submitted(body))) = Submitted(body)
<1>1. body.client \in Client /\ body.profile \in Profiles /\ Valid(Submitted(body))
  BY BodiesAssumption DEF Accepted
<1>2. Normal(Submitted(body))
  BY <1>1, ApplyProfileFacts, NormalizeFacts DEF Submitted
<1>. QED
  BY <1>1, <1>2, RoundTrip DEF Normal

LEMMA SubmittedConsistent ==
    ASSUME NEW body \in Accepted
    PROVE  Consistent(toDomain(toClientEntity(Submitted(body))))
<1>1. PICK m : m = Submitted(body)
  OBVIOUS
<1>2. Normal(m) /\ Valid(m) /\ toDomain(toClientEntity(Submitted(body))) = m
  BY <1>1, SubmittedFacts
<1>3. Normalize(m) = [m EXCEPT !.redirectURIs = IF @ = <<>> THEN Nil ELSE @]
  BY <1>2, NormalizeAgain
<1>4. /\ m.allowRefreshTokens <=> containsFold(m.allowedScopes, OfflineAccess)
      /\ containsFold(m.allowedScopes, Openid)
  BY <1>2 DEF Normal, NormalList
<1>5. Profile(m) = "spa" => m.method = "none"
  <2>1. m.method = "private_key_jwt" => Profile(m) # "spa"
    BY DEF Profile
  <2>2. m.method \in {"none", "private_key_jwt"}
    BY <1>2 DEF Valid
  <2>. QED
    BY <2>1, <2>2
<1>6. Profile(m) = "spa" => ~m.allowClientCredentials /\ m.jwks = Empty
  BY <1>2, <1>5 DEF Normal
<1>. QED
  BY <1>2, <1>3, <1>4, <1>6 DEF Consistent

\* Normalize and the row leave the method, the flags and an absent URI list of a
\* profile as ApplyProfile set them.
LEMMA SubmittedProfile ==
    ASSUME NEW body \in Accepted, body.profile \in {"spa", "web", "m2m"}
    PROVE  /\ Profile(Submitted(body)) = body.profile
           /\ body.profile # "m2m" => toClientEntity(Submitted(body)).requirePKCE
<1>1. body.client \in Client /\ body.profile \in Profiles
  BY BodiesAssumption DEF Accepted
<1>2. PICK c : c = ApplyProfile(body.client, body.profile)
  OBVIOUS
<1>3. PICK m : m = Normalize(c)
  OBVIOUS
<1>4. Submitted(body) = m /\ c \in Client
  BY <1>1, <1>2, <1>3, ApplyProfileFacts DEF Submitted
<1>5. Normal(m) /\ m \in Client
  BY <1>3, <1>4, NormalizeFacts DEF Normal
<1>6. c.method # "" /\ c.allowClientCredentials \in BOOLEAN
  BY <1>1, <1>2, <1>4, ApplyProfileFacts DEF Client
<1>7. /\ m.method = c.method /\ m.requirePKCE = c.requirePKCE
      /\ m.allowRefreshTokens = c.allowRefreshTokens
      /\ m.allowClientCredentials <=> (c.allowClientCredentials /\ c.method # "none")
      /\ m.redirectURIs = cleanStringList(c.redirectURIs)
  <2>1. PICK creds \in BOOLEAN : creds = (c.allowClientCredentials /\ c.method # "none")
    OBVIOUS
  <2>2. \E jwks, uris, scopes :
           m = [c EXCEPT !.method = c.method, !.allowClientCredentials = creds, !.jwks = jwks,
                         !.redirectURIs = cleanStringList(c.redirectURIs),
                         !.allowedScopes = scopes]
    BY <1>3, <1>6, <2>1 DEF Normalize
  <2>. QED
    BY <1>4, <2>1, <2>2 DEF Client
<1>8. toClientEntity(m).requirePKCE = m.requirePKCE
  BY <1>5 DEF toClientEntity, Client
<1>9. CASE body.profile = "spa"
  <2>1. m.method = "none" /\ m.requirePKCE
    BY <1>1, <1>2, <1>7, <1>9, ApplyProfileFacts
  <2>. QED
    BY <1>4, <1>8, <1>9, <2>1 DEF Profile
<1>10. CASE body.profile = "web"
  <2>1. m.method = "private_key_jwt" /\ m.requirePKCE /\ ~m.allowClientCredentials
    BY <1>1, <1>2, <1>7, <1>10, ApplyProfileFacts
  <2>. QED
    BY <1>4, <1>8, <1>10, <2>1 DEF Profile
<1>11. CASE body.profile = "m2m"
  <2>1. /\ m.method = "private_key_jwt" /\ m.allowClientCredentials
        /\ ~m.allowRefreshTokens /\ m.redirectURIs = Nil
    BY <1>1, <1>2, <1>7, <1>11, NilFacts, ApplyProfileFacts
  <2>2. Items(m.redirectURIs) = <<>>
    BY <2>1 DEF Items
  <2>. QED
    BY <1>4, <1>11, <2>1, <2>2 DEF Profile
<1>. QED
  BY <1>9, <1>10, <1>11

\* A client saved under a profile is listed under it for as long as its row is
\* there, whatever seedings and handlers wrote before and after.
THEOREM ProfilesKept == Spec => []ProfileKept
<1>1. RegInv => ProfileKept
  <2>1. SUFFICES ASSUME RegInv, NEW c \in ClientIds, clients[c] # None,
                        asked[c] \in {"spa", "web", "m2m"}
                 PROVE  /\ Profile(toDomain(clients[c])) = asked[c]
                        /\ asked[c] # "m2m" => clients[c].requirePKCE
    BY DEF ProfileKept
  <2>2. PICK body \in Accepted :
               clients[c] = toClientEntity(Submitted(body)) /\ asked[c] = body.profile
    BY <2>1 DEF RegInv, RowsKnown, Origin
  <2>3. toDomain(clients[c]) = Submitted(body)
    BY <2>2, SubmittedFacts
  <2>. QED
    BY <2>1, <2>2, <2>3, SubmittedProfile
<1>. QED
  BY <1>1, RegistrySafe, PTL

\* Every stored client decodes to one whose fields agree with each other, given
\* that the seeded ones, which are stored as they are, do.
THEOREM ClientsConsistent ==
    ASSUME \A k \in DOMAIN Seeded : Consistent(toDomain(toClientEntity(Seeded[k])))
    PROVE  Spec => []StoredClientsConsistent
<1>1. RegInv => StoredClientsConsistent
  <2>1. SUFFICES ASSUME RegInv, NEW c \in ClientIds, clients[c] # None
                 PROVE  Consistent(toDomain(clients[c]))
    BY DEF StoredClientsConsistent
  <2>2. Origin(c)
    BY <2>1 DEF RegInv, RowsKnown
  <2>3. CASE c \in DOMAIN Seeded /\ clients[c] = toClientEntity(Seeded[c])
    BY <2>3
  <2>4. CASE \E body \in Accepted : clients[c] = toClientEntity(Submitted(body))
    BY <2>4, SubmittedConsistent
  <2>. QED
    BY <2>2, <2>3, <2>4 DEF Origin
<1>. QED
  BY <1>1, RegistrySafe, PTL
=============================================================================
