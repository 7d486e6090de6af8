---------------------------- MODULE LogSink_proofs ----------------------------
(***************************************************************************)
(* Proofs about LogSink, for any goroutines, events and capacity: what the *)
(* remote holds, and what Close has waited for when it returns in time.    *)
(***************************************************************************)
EXTENDS LogSink, TLAPS

\* SinkInv in parts.
HaveEvents == \A w \in Writers : writers[w].step # "idle" => writers[w].ev \in Events

Queued == Gone \in Nat /\ \A j \in DOMAIN queue : queue[j] = taken[Gone + j]

Held == InHand => Gone > 0 /\ worker.ev = taken[Gone]

\* Where the documents and the POSTs given up are among the events of the channel.
Seated(place, berth) ==
    /\ InOrder(place)
    /\ \A i \in DOMAIN remote : Left(place[i])
    /\ \A e \in adrift :
         /\ taken[berth[e]] = e /\ Left(berth[e])
         /\ \A i \in DOMAIN remote : place[i] # berth[e]

Placed ==
    \E place \in [DOMAIN remote -> DOMAIN taken], berth \in [adrift -> DOMAIN taken] :
      Seated(place, berth)

Closing ==
    /\ closed <=> closer # "open"
    /\ cancelled <=> closer \in {"expired", "returned"}

Sent ==
    /\ ~cancelled => \A j \in 1..Gone : taken[j] \in tried
    /\ worker.step = "done" /\ ~cancelled => closed /\ queue = <<>>

LEMMA SinkInvParts ==
    /\ SinkInv <=> TypeOK /\ HaveEvents /\ Queued /\ Held /\ Placed /\ Closing
                   /\ Sent /\ CloseDrains
    /\ SinkInv' <=> TypeOK' /\ HaveEvents' /\ Queued' /\ Held' /\ Placed' /\ Closing'
                    /\ Sent' /\ CloseDrains'
BY DEF SinkInv, HaveEvents, Queued, Held, Placed, Seated, Closing, Sent

LEMMA SeqFacts ==
    ASSUME NEW s \in Seq(Events)
    PROVE  /\ Len(s) \in Nat /\ DOMAIN s = 1..Len(s)
           /\ \A i \in 1..Len(s) : s[i] \in Events
           /\ \A e \in Events :
                /\ Append(s, e) \in Seq(Events) /\ Len(Append(s, e)) = Len(s) + 1
                /\ \A i \in 1..Len(s) : Append(s, e)[i] = s[i]
                /\ Append(s, e)[Len(s) + 1] = e
           /\ s # <<>> =>
                /\ Len(s) > 0 /\ Head(s) = s[1] /\ Tail(s) \in Seq(Events)
                /\ Len(Tail(s)) = Len(s) - 1
                /\ \A i \in 1..(Len(s) - 1) : Tail(s)[i] = s[i + 1]
           /\ Len(s) = 0 <=> s = <<>>
OBVIOUS

\* The counts of the channel.
LEMMA GoneFacts ==
    ASSUME TypeOK, Queued
    PROVE  /\ Len(taken) \in Nat /\ Len(queue) \in Nat /\ Gone \in Nat
           /\ Len(taken) = Gone + Len(queue)
           /\ DOMAIN taken = 1..Len(taken) /\ DOMAIN queue = 1..Len(queue)
           /\ DOMAIN remote = 1..Len(remote) /\ Len(remote) \in Nat
BY SeqFacts DEF TypeOK, Queued, Gone

\* What the remote holds or may still store keeps its place while the channel
\* moves on.
LEMMA PlacedKept ==
    ASSUME SinkInv, UNCHANGED <<remote, adrift, late>>, taken' \in Seq(Events),
           Len(taken) <= Len(taken'), \A j \in DOMAIN taken : taken'[j] = taken[j],
           Gone' \in Nat, Gone <= Gone', InHand' => InHand \/ Gone < Gone'
    PROVE  Placed'
<1>1. TypeOK /\ Queued /\ Placed
  BY SinkInvParts
<1>2. PICK place \in [DOMAIN remote -> DOMAIN taken], berth \in [adrift -> DOMAIN taken] :
         Seated(place, berth)
  BY <1>1 DEF Placed
<1>3. DOMAIN taken \subseteq DOMAIN taken' /\ DOMAIN taken \subseteq Nat
  BY <1>1, GoneFacts, SeqFacts
<1>4. place \in [DOMAIN remote' -> DOMAIN taken'] /\ berth \in [adrift' -> DOMAIN taken']
  BY <1>3
<1>5. /\ \A i \in DOMAIN remote : place[i] \in DOMAIN taken /\ place[i] \in Nat
      /\ \A e \in adrift : berth[e] \in DOMAIN taken /\ berth[e] \in Nat
  BY <1>3
<1>6. \A q \in DOMAIN taken : Left(q) => Left(q)'
  BY <1>1, <1>3, GoneFacts DEF Left
<1>7. InOrder(place)'
  BY <1>2, <1>5 DEF Seated, InOrder
<1>8. Seated(place, berth)'
  BY <1>2, <1>5, <1>6, <1>7 DEF Seated
<1>. QED
  BY <1>4, <1>8 DEF Placed

\* The remote stores the p-th event of the channel, which it does not have and
\* no other POST carries: after all that it has, or as one given up.
LEMMA PlacedMore ==
    ASSUME SinkInv, taken' = taken, late \subseteq late', adrift' \subseteq adrift,
           NEW place \in [DOMAIN remote -> DOMAIN taken],
           NEW berth \in [adrift -> DOMAIN taken], Seated(place, berth),
           NEW p \in DOMAIN taken, remote' = Append(remote, taken[p]), Left(p)',
           \A q \in DOMAIN taken : Left(q) => Left(q)',
           \A i \in DOMAIN remote :
             place[i] < p \/ (place[i] # p /\ taken[p] \in late'),
           \A e \in adrift' : berth[e] # p
    PROVE  Placed' /\ remote' \in Seq(Events)
<1>1. TypeOK /\ Queued
  BY SinkInvParts
<1>2. PICK N \in Nat : N = Len(remote)
  BY <1>1, GoneFacts
<1>3. DOMAIN remote = 1..N /\ DOMAIN taken \subseteq Nat /\ taken[p] \in Events
  BY <1>1, <1>2, GoneFacts, SeqFacts DEF TypeOK
<1>4. /\ remote' \in Seq(Events) /\ DOMAIN remote' = 1..(N + 1)
      /\ \A i \in 1..N : remote'[i] = remote[i]
      /\ remote'[N + 1] = taken[p]
  BY <1>1, <1>2, <1>3, SeqFacts DEF TypeOK
<1>5. \A i \in 1..N : place[i] \in DOMAIN taken /\ place[i] \in Nat /\ place[i] # p
  <2>1. ASSUME NEW i \in 1..N
        PROVE  place[i] \in DOMAIN taken /\ place[i] \in Nat /\ place[i] # p
    <3>1. i \in DOMAIN remote
      BY <1>3
    <3>2. place[i] \in DOMAIN taken
      BY <3>1
    <3>3. place[i] \in Nat /\ p \in Nat
      BY <3>2, <1>3
    <3>4. place[i] < p \/ place[i] # p
      BY <3>1
    <3>. QED
      BY <3>2, <3>3, <3>4
  <2>. QED
    BY <2>1
<1>6. PICK more \in [1..(N + 1) -> DOMAIN taken] :
         (\A i \in 1..N : more[i] = place[i]) /\ more[N + 1] = p
  <2>. DEFINE m == [i \in 1..(N + 1) |-> IF i <= N THEN place[i] ELSE p]
  <2>1. m \in [1..(N + 1) -> DOMAIN taken]
    BY <1>5
  <2>2. (\A i \in 1..N : m[i] = place[i]) /\ m[N + 1] = p
    OBVIOUS
  <2>. HIDE DEF m
  <2>. QED
    BY <2>1, <2>2
<1>7. PICK left \in [adrift' -> DOMAIN taken] :
         \A e \in adrift' : left[e] = berth[e] /\ e \in adrift
  <2>. DEFINE l == [e \in adrift' |-> berth[e]]
  <2>1. l \in [adrift' -> DOMAIN taken] /\ \A e \in adrift' : l[e] = berth[e]
    OBVIOUS
  <2>. HIDE DEF l
  <2>. QED
    BY <2>1
<1>8. \A i \in 1..(N + 1) : i \in 1..N \/ i = N + 1
  OBVIOUS
<1>9. \A i, j \in DOMAIN remote :
         i < j => place[i] < place[j] \/ (place[i] # place[j] /\ remote[j] \in late)
  BY DEF Seated, InOrder
<1>10. \A i \in DOMAIN remote' : remote'[i] = taken'[more[i]] /\ Left(more[i])'
  BY <1>3, <1>4, <1>5, <1>6, <1>8 DEF Seated, InOrder
<1>11. \A i, j \in DOMAIN remote' :
          i < j => \/ more[i] < more[j]
                   \/ more[i] # more[j] /\ remote'[j] \in late'
  <2>1. ASSUME NEW i \in 1..(N + 1), NEW j \in 1..(N + 1), i < j
        PROVE  more[i] < more[j] \/ (more[i] # more[j] /\ remote'[j] \in late')
    <3>1. i \in 1..N
      BY <2>1
    <3>2. CASE j \in 1..N
      <4>1. more[i] = place[i] /\ more[j] = place[j] /\ remote'[j] = remote[j]
        BY <1>4, <1>6, <3>1, <3>2
      <4>2. place[i] < place[j] \/ (place[i] # place[j] /\ remote[j] \in late)
        BY <1>3, <1>9, <2>1, <3>1, <3>2
      <4>. QED
        BY <4>1, <4>2
    <3>3. CASE j = N + 1
      BY <1>3, <1>4, <1>6, <3>1, <3>3
    <3>. QED
      BY <1>8, <3>2, <3>3
  <2>. QED
    BY <1>4, <2>1
<1>12. InOrder(more)'
  BY <1>10, <1>11 DEF InOrder
<1>13. \A e \in adrift : /\ taken[berth[e]] = e /\ Left(berth[e])
                         /\ \A i \in DOMAIN remote : place[i] # berth[e]
  BY DEF Seated
<1>14. ASSUME NEW e \in adrift'
       PROVE  /\ taken'[left[e]] = e /\ Left(left[e])'
              /\ \A i \in DOMAIN remote' : more[i] # left[e]
  <2>1. e \in adrift /\ left[e] = berth[e] /\ berth[e] \in DOMAIN taken /\ berth[e] # p
    BY <1>7
  <2>2. taken'[left[e]] = e /\ Left(left[e])'
    BY <1>13, <2>1
  <2>3. \A i \in DOMAIN remote' : more[i] # left[e]
    BY <1>3, <1>4, <1>6, <1>8, <1>13, <2>1
  <2>. QED
    BY <2>2, <2>3
<1>15. Seated(more, left)'
  BY <1>10, <1>12, <1>14 DEF Seated
<1>. QED
  BY <1>4, <1>6, <1>7, <1>15 DEF Placed

\* The event in hand is given up: its POST is the last event of the channel that
\* has left, and the remote has not stored it.
LEMMA PlacedAdrift ==
    ASSUME SinkInv, InHand, ~InHand', adrift' = adrift \cup {worker.ev},
           UNCHANGED <<remote, late, taken, queue>>
    PROVE  Placed'
<1>1. TypeOK /\ Queued /\ Held /\ Placed
  BY SinkInvParts
<1>2. PICK place \in [DOMAIN remote -> DOMAIN taken], berth \in [adrift -> DOMAIN taken] :
         Seated(place, berth)
  BY <1>1 DEF Placed
<1>3. PICK G \in Nat : G = Gone
  BY <1>1, GoneFacts
<1>4. /\ G \in DOMAIN taken /\ worker.ev = taken[G] /\ G = Gone'
      /\ DOMAIN taken \subseteq Nat
  BY <1>1, <1>3, GoneFacts, SeqFacts DEF Held, Gone
<1>5. \A q \in DOMAIN taken : (Left(q) => Left(q)' /\ q < G) /\ Left(G)'
  BY <1>3, <1>4 DEF Left
<1>6. PICK more \in [adrift' -> DOMAIN taken] :
         \A e \in adrift' : IF e = worker.ev THEN more[e] = G
                            ELSE e \in adrift /\ more[e] = berth[e]
  <2>. DEFINE m == [e \in adrift' |-> IF e = worker.ev THEN G ELSE berth[e]]
  <2>1. m \in [adrift' -> DOMAIN taken]
    BY <1>4
  <2>2. \A e \in adrift' : IF e = worker.ev THEN m[e] = G
                           ELSE e \in adrift /\ m[e] = berth[e]
    OBVIOUS
  <2>. HIDE DEF m
  <2>. QED
    BY <2>1, <2>2
<1>7. \A i \in DOMAIN remote :
         place[i] \in DOMAIN taken /\ place[i] # G /\ Left(place[i])'
  BY <1>2, <1>4, <1>5 DEF Seated
<1>8. InOrder(place)'
  BY <1>2 DEF Seated, InOrder
<1>9. ASSUME NEW e \in adrift'
       PROVE  /\ taken'[more[e]] = e /\ Left(more[e])'
              /\ \A i \in DOMAIN remote' : place[i] # more[e]
  <2>1. \A d \in adrift : /\ taken[berth[d]] = d /\ Left(berth[d])
                          /\ berth[d] \in DOMAIN taken
                          /\ \A i \in DOMAIN remote : place[i] # berth[d]
    BY <1>2 DEF Seated
  <2>2. CASE e = worker.ev
    BY <1>4, <1>5, <1>6, <1>7, <2>2
  <2>3. CASE e # worker.ev
    BY <1>5, <1>6, <2>1, <2>3
  <2>. QED
    BY <2>2, <2>3
<1>10. Seated(place, more)'
  BY <1>7, <1>8, <1>9 DEF Seated
<1>. QED
  BY <1>6, <1>10 DEF Placed

-----------------------------------------------------------------------------
LEMMA InitInv == Init => SinkInv
<1>. SUFFICES ASSUME Init PROVE SinkInv
  OBVIOUS
<1>1. /\ queue = <<>> /\ taken = <<>> /\ remote = <<>> /\ worker = Waiting
      /\ closed = FALSE /\ cancelled = FALSE /\ closer = "open"
  BY DEF Init
<1>2. TypeOK
  <2>1. <<>> \in Seq(Events) /\ Len(<<>>) <= Capacity
    BY CapacityAssumption
  <2>2. Quiet \in WriterState /\ Waiting \in WorkerState
    BY DEF Quiet, Waiting, WriterState, WorkerState
  <2>. QED
    BY <1>1, <2>1, <2>2 DEF Init, TypeOK
<1>3. HaveEvents
  BY DEF Init, HaveEvents, Quiet
<1>4. Gone = 0 /\ DOMAIN remote = {} /\ DOMAIN queue = {} /\ ~InHand
      /\ worker.step = "receive"
  BY <1>1 DEF Gone, InHand, Waiting
<1>5. Queued /\ Held /\ Closing /\ Sent /\ CloseDrains
  BY <1>1, <1>4 DEF Queued, Held, Closing, Sent, CloseDrains
<1>6. Placed
  <2>1. adrift = {}
    BY DEF Init
  <2>2. /\ [i \in {} |-> 0] \in [DOMAIN remote -> DOMAIN taken]
        /\ [i \in {} |-> 0] \in [adrift -> DOMAIN taken]
    BY <1>4, <2>1
  <2>. QED
    BY <1>4, <2>1, <2>2 DEF Placed, Seated, InOrder
<1>. QED
  BY <1>2, <1>3, <1>5, <1>6, SinkInvParts

\* A step that leaves the channel, the worker and Close alone.
LEMMA QuietStep ==
    ASSUME SinkInv, TypeOK', HaveEvents',
           UNCHANGED <<queue, closed, worker, cancelled, closer, remote, adrift, late,
                       taken, tried>>
    PROVE  SinkInv'
<1>1. Gone' = Gone /\ (InHand' <=> InHand)
  BY DEF Gone, InHand
<1>2. Queued' /\ Held' /\ Closing' /\ Sent' /\ CloseDrains'
  BY <1>1, SinkInvParts DEF Queued, Held, Closing, Sent, CloseDrains
<1>3. Placed'
  BY <1>1, SinkInvParts DEF Placed, Seated, InOrder, Left
<1>. QED
  BY <1>2, <1>3, SinkInvParts

LEMMA HandleInv ==
    ASSUME SinkInv, NEW w \in Writers, NEW e \in Events, Handle(w, e)
    PROVE  SinkInv'
<1>1. /\ logged' = logged \cup {e}
      /\ writers' = [writers EXCEPT ![w] =
           [step |-> IF e \in Plain THEN "write" ELSE "enqueue", ev |-> e]]
      /\ UNCHANGED <<stdout, queue, closed, worker, cancelled, closer, collection,
                     remote, adrift, late, taken, tried>>
  BY DEF Handle, documents
<1>2. TypeOK'
  BY <1>1, SinkInvParts DEF TypeOK, WriterState
<1>3. HaveEvents'
  BY <1>1, SinkInvParts DEF HaveEvents, TypeOK
<1>. QED
  BY <1>1, <1>2, <1>3, QuietStep

LEMMA WriteInv ==
    ASSUME SinkInv, NEW w \in Writers, Write(w)
    PROVE  SinkInv'
<1>1. /\ stdout' = stdout \cup {writers[w].ev}
      /\ writers[w].step = "write" /\ writers' = [writers EXCEPT ![w] = Quiet]
      /\ UNCHANGED <<queue, closed, worker, cancelled, closer, collection,
                     remote, adrift, late, logged, taken, tried>>
  BY DEF Write, documents
<1>2. writers[w].ev \in Events /\ Quiet \in WriterState /\ Quiet.step = "idle"
  BY <1>1, SinkInvParts DEF HaveEvents, Quiet, WriterState
<1>3. TypeOK'
  BY <1>1, <1>2, SinkInvParts DEF TypeOK
<1>4. HaveEvents'
  BY <1>1, <1>2, SinkInvParts DEF HaveEvents, TypeOK
<1>. QED
  BY <1>1, <1>3, <1>4, QuietStep

LEMMA OtherChangesInv ==
    ASSUME SinkInv, OtherChanges
    PROVE  SinkInv'
<1>1. /\ collection' = ~collection
      /\ UNCHANGED <<writers, stdout, queue, closed, worker, cancelled, closer,
                     remote, adrift, late, logged, taken, tried>>
  BY DEF OtherChanges
<1>2. TypeOK /\ HaveEvents /\ collection' \in BOOLEAN
  BY <1>1, SinkInvParts
<1>. QED
  BY <1>1, <1>2, QuietStep DEF TypeOK, HaveEvents

\* A POST given up is carried out: its event was the only one at its berth.
LEMMA StoreAdriftInv ==
    ASSUME SinkInv, NEW e \in Events, StoreAdrift(e)
    PROVE  SinkInv'
<1>1. /\ e \in adrift /\ remote' = Append(remote, e) /\ adrift' = adrift \ {e}
      /\ late' = late \cup {e}
      /\ UNCHANGED <<writers, stdout, queue, closed, worker, cancelled, closer,
                     collection, logged, taken, tried>>
  BY DEF StoreAdrift
<1>2. TypeOK /\ HaveEvents /\ Queued /\ Held /\ Placed /\ Closing /\ Sent /\ CloseDrains
  BY SinkInvParts
<1>3. Gone' = Gone /\ (InHand' <=> InHand)
  BY <1>1 DEF Gone, InHand
<1>4. HaveEvents' /\ Queued' /\ Held' /\ Closing' /\ Sent' /\ CloseDrains'
  BY <1>1, <1>2, <1>3 DEF HaveEvents, Queued, Held, Closing, Sent, CloseDrains
<1>5. PICK place \in [DOMAIN remote -> DOMAIN taken], berth \in [adrift -> DOMAIN taken] :
         Seated(place, berth)
  BY <1>2 DEF Placed
<1>6. /\ berth[e] \in DOMAIN taken /\ taken[berth[e]] = e /\ Left(berth[e])
      /\ \A i \in DOMAIN remote : place[i] # berth[e]
      /\ \A d \in adrift' : taken[berth[d]] = d /\ d # e
  BY <1>1, <1>5 DEF Seated
<1>7. \A q \in DOMAIN taken : Left(q) => Left(q)'
  BY <1>3 DEF Left
<1>8. Placed' /\ remote' \in Seq(Events)
  BY <1>1, <1>5, <1>6, <1>7, PlacedMore
<1>9. TypeOK'
  BY <1>1, <1>2, <1>8 DEF TypeOK
<1>. QED
  BY <1>4, <1>8, <1>9, SinkInvParts

\* A goroutine offers its event: the channel takes it at its end or not at all.
LEMMA EnqueueInv ==
    ASSUME SinkInv, NEW w \in Writers, Enqueue(w)
    PROVE  SinkInv'
<1>. DEFINE e == writers[w].ev
            fits == ~closed /\ Len(queue) < Capacity
<1>1. /\ writers[w].step = "enqueue"
      /\ queue' = (IF fits THEN Append(queue, e) ELSE queue)
      /\ taken' = (IF fits THEN Append(taken, e) ELSE taken)
      /\ writers' = [writers EXCEPT ![w].step = "write"]
      /\ UNCHANGED <<stdout, closed, worker, cancelled, closer, collection, remote,
                     adrift, late, logged, tried>>
  BY DEF Enqueue, documents
<1>2. TypeOK /\ HaveEvents /\ Queued /\ Held /\ Placed /\ Closing /\ Sent /\ CloseDrains
  BY SinkInvParts
<1>3. e \in Events
  BY <1>1, <1>2 DEF HaveEvents
<1>4. writers' \in [Writers -> WriterState] /\ HaveEvents'
  BY <1>1, <1>2 DEF TypeOK, HaveEvents, WriterState
<1>5. CASE ~fits
  <2>1. TypeOK'
    BY <1>1, <1>2, <1>4, <1>5 DEF TypeOK
  <2>. QED
    BY <1>1, <1>4, <1>5, <2>1, QuietStep
<1>6. CASE fits
  <2>1. /\ queue \in Seq(Events) /\ taken \in Seq(Events) /\ Capacity \in Nat
        /\ Len(queue) \in Nat /\ Len(taken) \in Nat
    BY <1>2, CapacityAssumption, SeqFacts DEF TypeOK
  <2>2. /\ queue' \in Seq(Events) /\ Len(queue') = Len(queue) + 1
        /\ DOMAIN queue' = 1..(Len(queue) + 1)
        /\ \A i \in 1..Len(queue) : queue'[i] = queue[i]
        /\ queue'[Len(queue) + 1] = e
    BY <1>1, <1>3, <1>6, <2>1, SeqFacts
  <2>3. /\ taken' \in Seq(Events) /\ Len(taken') = Len(taken) + 1
        /\ DOMAIN taken' = 1..(Len(taken) + 1)
        /\ \A i \in 1..Len(taken) : taken'[i] = taken[i]
        /\ taken'[Len(taken) + 1] = e
    BY <1>1, <1>3, <1>6, <2>1, SeqFacts
  <2>4. Gone' = Gone /\ (InHand' <=> InHand)
    BY <1>1, <2>1, <2>2, <2>3 DEF Gone, InHand
  <2>5. /\ Gone \in Nat /\ Len(taken) = Gone + Len(queue)
        /\ DOMAIN taken = 1..Len(taken) /\ DOMAIN queue = 1..Len(queue)
    BY <1>2, GoneFacts
  <2>6. TypeOK'
    BY <1>1, <1>2, <1>4, <1>6, <2>1, <2>2, <2>3 DEF TypeOK
  <2>7. Queued'
    <3>1. ASSUME NEW j \in DOMAIN queue'
          PROVE  queue'[j] = taken'[Gone + j]
      <4>1. CASE j \in 1..Len(queue)
        BY <1>2, <2>2, <2>3, <2>5, <4>1 DEF Queued
      <4>2. CASE j = Len(queue) + 1
        BY <2>2, <2>3, <2>5, <4>2
      <4>. QED
        BY <2>1, <2>2, <3>1, <4>1, <4>2
    <3>. QED
      BY <2>4, <2>5, <3>1 DEF Queued
  <2>8. \A j \in 1..Gone : taken'[j] = taken[j] /\ j \in 1..Len(taken)
    BY <2>1, <2>3, <2>5
  <2>9. Held'
    BY <1>1, <1>2, <2>4, <2>5, <2>8 DEF Held
  <2>10. Placed'
    BY <1>1, <2>1, <2>3, <2>4, <2>5, PlacedKept
  <2>11. Closing'
    BY <1>1, <1>2 DEF Closing
  <2>12. closer = "open" /\ ~cancelled
    BY <1>2, <1>6 DEF Closing
  <2>13. Sent' /\ CloseDrains'
    BY <1>1, <1>2, <1>6, <2>4, <2>8, <2>12 DEF Sent, CloseDrains
  <2>. QED
    BY <1>4, <2>6, <2>7, <2>9, <2>10, <2>11, <2>13, SinkInvParts
<1>. QED
  BY <1>5, <1>6

\* The worker takes the next event in hand, or ends.
LEMMA ReceiveInv ==
    ASSUME SinkInv, Receive
    PROVE  SinkInv'
<1>1. /\ worker = Waiting /\ worker.step = "receive" /\ ~InHand
      /\ UNCHANGED <<writers, stdout, closed, cancelled, closer, collection, remote,
                     adrift, late, logged, taken>>
  BY DEF Receive, Waiting, InHand, documents
<1>2. TypeOK /\ HaveEvents /\ Queued /\ Held /\ Placed /\ Closing /\ Sent /\ CloseDrains
  BY SinkInvParts
<1>3. HaveEvents' /\ Closing'
  BY <1>1, <1>2 DEF HaveEvents, Closing
<1>4. /\ queue \in Seq(Events) /\ taken \in Seq(Events) /\ Capacity \in Nat
      /\ Gone \in Nat /\ Len(taken) = Gone + Len(queue)
      /\ DOMAIN taken = 1..Len(taken) /\ DOMAIN queue = 1..Len(queue)
      /\ Len(queue) \in Nat /\ Len(taken) \in Nat
  BY <1>2, GoneFacts, CapacityAssumption DEF TypeOK
<1>5. [worker EXCEPT !.step = "done"] = [step |-> "done", ev |-> None]
  BY <1>1 DEF Waiting
<1>6. CASE /\ queue = <<>> /\ closed
           /\ worker' = [worker EXCEPT !.step = "done"] /\ UNCHANGED <<queue, tried>>
  <2>1. worker' \in WorkerState /\ worker'.step = "done" /\ ~InHand'
    BY <1>5, <1>6 DEF WorkerState, InHand
  <2>2. Gone' = Gone
    BY <1>1, <1>6 DEF Gone
  <2>3. TypeOK'
    BY <1>1, <1>2, <1>6, <2>1 DEF TypeOK
  <2>4. Queued' /\ Held'
    BY <1>1, <1>2, <1>6, <2>1, <2>2 DEF Queued, Held
  <2>5. Sent' /\ CloseDrains'
    BY <1>1, <1>2, <1>6, <2>2 DEF Sent, CloseDrains
  <2>6. Placed'
    BY <1>1, <1>4, <2>1, <2>2, PlacedKept
  <2>. QED
    BY <1>3, <2>3, <2>4, <2>5, <2>6, SinkInvParts
<1>7. CASE /\ queue # <<>> /\ queue' = Tail(queue)
           /\ worker' = IF cancelled THEN [worker EXCEPT !.step = "done"]
                        ELSE [step |-> "post", ev |-> Head(queue)]
           /\ tried' = IF cancelled THEN tried ELSE tried \cup {Head(queue)}
  <2>1. /\ Len(queue) > 0 /\ Head(queue) = queue[1] /\ queue[1] \in Events
        /\ queue' \in Seq(Events) /\ Len(queue') = Len(queue) - 1
        /\ DOMAIN queue' = 1..(Len(queue) - 1)
        /\ \A i \in 1..(Len(queue) - 1) : queue'[i] = queue[i + 1]
    BY <1>4, <1>7, SeqFacts
  <2>2. Gone' = Gone + 1 /\ Gone + 1 \in 1..Len(taken)
    BY <1>1, <1>4, <2>1 DEF Gone
  <2>3. Head(queue) = taken[Gone + 1]
    BY <1>2, <1>4, <2>1 DEF Queued
  <2>4. /\ worker' \in WorkerState
        /\ cancelled => worker'.step = "done"
        /\ ~cancelled => worker'.step = "post" /\ worker'.ev = Head(queue)
    BY <1>5, <1>7, <2>1 DEF WorkerState
  <2>5. TypeOK'
    BY <1>1, <1>2, <1>4, <1>7, <2>1, <2>4 DEF TypeOK
  <2>6. Queued'
    <3>1. ASSUME NEW j \in DOMAIN queue'
          PROVE  queue'[j] = taken[Gone + 1 + j]
      <4>1. j \in Nat /\ j + 1 \in DOMAIN queue /\ queue'[j] = queue[j + 1]
        BY <1>4, <2>1
      <4>2. queue[j + 1] = taken[Gone + (j + 1)]
        BY <1>2, <4>1 DEF Queued
      <4>3. Gone + (j + 1) = Gone + 1 + j
        BY <1>4, <4>1
      <4>. QED
        BY <4>1, <4>2, <4>3
    <3>2. Gone' \in Nat
      BY <1>4, <2>2
    <3>. QED
      BY <1>1, <2>2, <3>1, <3>2 DEF Queued
  <2>7. Held'
    BY <1>1, <1>4, <2>2, <2>3, <2>4 DEF Held, InHand
  <2>8. Sent'
    <3>1. ~cancelled => \A j \in 1..(Gone + 1) : taken[j] \in tried'
      BY <1>2, <1>4, <1>7, <2>3 DEF Sent
    <3>. QED
      BY <1>1, <2>2, <2>4, <3>1 DEF Sent
  <2>9. CloseDrains'
    BY <1>1, <1>2, <1>7 DEF CloseDrains
  <2>10. Placed'
    BY <1>1, <1>4, <2>2, PlacedKept
  <2>. QED
    BY <1>3, <2>5, <2>6, <2>7, <2>8, <2>9, <2>10, SinkInvParts
<1>. QED
  BY <1>6, <1>7 DEF Receive

\* The worker sends what it has in hand, once more after a 404, or gives it up.
LEMMA SendInv ==
    ASSUME SinkInv, InHand, worker' \in WorkerState,
           \/ worker' = Waiting
           \/ worker'.step \in {"create", "repost"} /\ worker'.ev = worker.ev,
           \/ UNCHANGED <<remote, adrift>>
           \/ worker' = Waiting /\ remote' = Append(remote, worker.ev) /\ adrift' = adrift
           \/ worker' = Waiting /\ adrift' = adrift \cup {worker.ev} /\ remote' = remote,
           collection' \in BOOLEAN,
           UNCHANGED <<writers, stdout, queue, closed, cancelled, closer, logged,
                       taken, tried, late>>
    PROVE  SinkInv'
<1>1. TypeOK /\ HaveEvents /\ Queued /\ Held /\ Placed /\ Closing /\ Sent /\ CloseDrains
  BY SinkInvParts
<1>2. Gone' = Gone /\ worker'.step # "done"
  BY DEF Gone, Waiting
<1>3. worker' = Waiting => ~InHand'
  BY DEF Waiting, InHand
<1>4. HaveEvents' /\ Queued' /\ Closing' /\ Sent' /\ CloseDrains'
  BY <1>1, <1>2 DEF HaveEvents, Queued, Closing, Sent, CloseDrains
<1>5. Held'
  BY <1>1, <1>2, <1>3 DEF Held
<1>6. Placed' /\ remote' \in Seq(Events) /\ adrift' \subseteq Events
  <2>1. CASE UNCHANGED <<remote, adrift>>
    BY <1>1, <1>2, <2>1, GoneFacts, PlacedKept DEF TypeOK
  <2>2. CASE worker' = Waiting /\ remote' = Append(remote, worker.ev) /\ adrift' = adrift
    <3>1. PICK place \in [DOMAIN remote -> DOMAIN taken],
               berth \in [adrift -> DOMAIN taken] : Seated(place, berth)
      BY <1>1 DEF Placed
    <3>2. PICK G \in DOMAIN taken : G = Gone /\ taken[G] = worker.ev
      BY <1>1, GoneFacts, SeqFacts DEF Held
    <3>3. DOMAIN taken \subseteq Nat
      BY <1>1, GoneFacts
    <3>4. \A q \in DOMAIN taken : Left(q) => Left(q)' /\ q < G
      BY <1>2, <3>2, <3>3 DEF Left
    <3>5. Left(G)'
      BY <1>2, <1>3, <2>2, <3>2, <3>3 DEF Left
    <3>6. \A i \in DOMAIN remote : place[i] < G
      BY <3>1, <3>4 DEF Seated
    <3>7. \A e \in adrift' : berth[e] \in DOMAIN taken /\ berth[e] < G
      BY <2>2, <3>1, <3>4 DEF Seated
    <3>8. \A e \in adrift' : berth[e] # G
      BY <3>3, <3>7
    <3>9. Placed' /\ remote' \in Seq(Events)
      BY <2>2, <3>1, <3>2, <3>4, <3>5, <3>6, <3>8, PlacedMore
    <3>. QED
      BY <1>1, <2>2, <3>9 DEF TypeOK
  <2>3. CASE /\ worker' = Waiting /\ adrift' = adrift \cup {worker.ev}
             /\ remote' = remote
    <3>1. worker.ev \in Events
      BY <1>1, GoneFacts, SeqFacts DEF Held, TypeOK
    <3>. QED
      BY <1>1, <1>3, <2>3, <3>1, PlacedAdrift DEF TypeOK
  <2>. QED
    BY <2>1, <2>2, <2>3
<1>7. TypeOK'
  BY <1>1, <1>6 DEF TypeOK
<1>. QED
  BY <1>4, <1>5, <1>6, <1>7, SinkInvParts

LEMMA WorkerInv ==
    ASSUME SinkInv, Post \/ CreateCollection \/ Repost
    PROVE  SinkInv'
<1>1. InHand /\ worker \in WorkerState /\ collection \in BOOLEAN
  BY SinkInvParts DEF Post, CreateCollection, Repost, InHand, TypeOK
<1>2. Waiting \in WorkerState
  BY DEF Waiting, WorkerState
<1>3. \A st \in {"create", "repost"} :
         /\ [worker EXCEPT !.step = st] \in WorkerState
         /\ [worker EXCEPT !.step = st].step = st
         /\ [worker EXCEPT !.step = st].ev = worker.ev
  BY <1>1 DEF WorkerState
<1>4. CASE Post
  BY <1>1, <1>2, <1>3, <1>4, SendInv DEF Post, Stored, NotStored, GivenUp
<1>5. CASE CreateCollection
  BY <1>1, <1>2, <1>3, <1>5, SendInv DEF CreateCollection
<1>6. CASE Repost
  BY <1>1, <1>2, <1>6, SendInv DEF Repost, Stored, NotStored, GivenUp
<1>. QED
  BY <1>4, <1>5, <1>6

\* Close: nothing enters the channel from now on, and when the worker is found
\* done before the deadline, nothing is left in it.
LEMMA CloseInv ==
    ASSUME SinkInv, BeginClose \/ CloseReturns
    PROVE  SinkInv'
<1>1. UNCHANGED <<writers, stdout, queue, worker, collection, remote, adrift, late,
                  logged, taken, tried>>
  BY DEF BeginClose, CloseReturns, documents
<1>2. TypeOK /\ HaveEvents /\ Queued /\ Held /\ Placed /\ Closing /\ Sent /\ CloseDrains
  BY SinkInvParts
<1>3. Gone' = Gone /\ (InHand' <=> InHand) /\ Gone \in Nat
  BY <1>1, <1>2, GoneFacts DEF Gone, InHand
<1>4. HaveEvents' /\ Queued' /\ Held'
  BY <1>1, <1>2, <1>3 DEF HaveEvents, Queued, Held
<1>5. Placed'
  BY <1>1, <1>2, <1>3 DEF Placed, Seated, InOrder, Left
<1>6. CASE BeginClose
  <2>1. closed' = TRUE /\ closer = "open" /\ closer' = "waiting" /\ cancelled' = cancelled
    BY <1>6 DEF BeginClose
  <2>2. TypeOK' /\ Closing' /\ CloseDrains'
    BY <1>1, <1>2, <2>1 DEF TypeOK, Closing, CloseDrains
  <2>3. Sent'
    BY <1>1, <1>2, <1>3, <2>1 DEF Sent
  <2>. QED
    BY <1>4, <1>5, <2>2, <2>3, SinkInvParts
<1>7. CASE CloseReturns
  <2>1. /\ closer = "waiting" /\ closer' \in {"returned", "expired"}
        /\ closer' = "returned" => worker.step = "done"
        /\ cancelled' = TRUE /\ closed' = closed
    BY <1>7 DEF CloseReturns
  <2>2. TypeOK' /\ Closing' /\ Sent'
    BY <1>1, <1>2, <2>1 DEF TypeOK, Closing, Sent
  <2>3. closer' = "returned" => queue = <<>> /\ \A j \in 1..Gone : taken[j] \in tried
    BY <1>2, <2>1 DEF Sent, Closing
  <2>4. queue = <<>> => DOMAIN taken = 1..Gone
    BY <1>2, GoneFacts, SeqFacts DEF TypeOK
  <2>5. CloseDrains'
    BY <1>1, <2>3, <2>4 DEF CloseDrains, ToSet
  <2>. QED
    BY <1>4, <1>5, <2>2, <2>5, SinkInvParts
<1>. QED
  BY <1>6, <1>7

LEMMA NextInv == SinkInv /\ [Next]_vars => SinkInv'
<1>. SUFFICES ASSUME SinkInv, [Next]_vars PROVE SinkInv'
  OBVIOUS
<1>1. CASE UNCHANGED vars
  BY <1>1, SinkInvParts, QuietStep DEF vars, TypeOK, HaveEvents
<1>2. CASE Next
  BY <1>2, HandleInv, EnqueueInv, WriteInv, ReceiveInv, WorkerInv, OtherChangesInv,
     StoreAdriftInv, CloseInv DEF Next, Worker
<1>. QED
  BY <1>1, <1>2

\* SinkInv is inductive: the channel is the end of what it has taken, the worker
\* has at most one event in hand, the last that left it, and the documents and
\* the POSTs given up are distinct events that left it before.
THEOREM SinkSafe == Spec => []SinkInv
<1>1. Spec => Init /\ [][Next]_vars
  BY DEF Spec
<1>. QED
  BY <1>1, InitInv, NextInv, PTL

\* Whatever responses are lost or late and whoever deletes the collection, the
\* remote stores no event twice, and none before one that was accepted earlier
\* unless a POST without an answer is carried out after its time.
THEOREM StoredInOrder == Spec => []StoredOnceInOrder
<1>1. SinkInv => StoredOnceInOrder
  BY DEF SinkInv, StoredOnceInOrder
<1>. QED
  BY <1>1, SinkSafe, PTL

\* A Close that returns before its deadline has drained the channel, for any
\* number of goroutines that log meanwhile and any capacity.
THEOREM CloseDrainsQueue == Spec => []CloseDrains
<1>1. SinkInv => CloseDrains
  BY DEF SinkInv
<1>. QED
  BY <1>1, SinkSafe, PTL
=============================================================================
