------------------------------- MODULE LogSink -------------------------------
(***************************************************************************)
(* The log handler and its remote sink: request goroutines that log, a     *)
(* bounded channel, one worker that posts to Typesense, and the Close that *)
(* main defers.  The mutex makes enqueue and the first half of Close       *)
(* atomic; nothing waits while holding it.                                 *)
(***************************************************************************)
EXTENDS Naturals, Sequences, SequencesExt

CONSTANTS
    Writers,    \* goroutines that log
    Events,     \* records they may log, each once
    Plain,      \* those below warning and without an event name
    Capacity,   \* of the channel (256)
    None

ASSUME CapacityAssumption == Capacity \in Nat \ {0}
ASSUME EventsAssumption == Plain \subseteq Events /\ None \notin Events

VARIABLES
    writers,     \* what each goroutine is logging, and where it is
    stdout,      \* events on stdout
    queue,       \* TypesenseSink.queue
    closed,      \* TypesenseSink.closed; the channel is closed with it
    worker,      \* the goroutine of run
    cancelled,   \* whether the worker's context is cancelled
    closer,      \* main's Close: "open", "waiting", "expired", "returned"
    collection,  \* whether the remote collection exists
    remote,      \* the documents Typesense has stored so far, in order, those
                 \* of deleted collections included
    adrift,      \* events whose POST was given up and may still be carried out
    logged,      \* history: the events a goroutine has begun to log
    taken,       \* history: the events the channel has accepted, in order
    tried,       \* history: the events the worker has begun to send
    late         \* history: the events that a POST given up has stored

vars == <<writers, stdout, queue, closed, worker, cancelled, closer, collection,
          remote, adrift, logged, taken, tried, late>>

\* What only the worker and the remote touch: the documents.
documents == <<collection, remote, adrift, late>>

WriterState == [step : {"idle", "enqueue", "write"}, ev : Events \cup {None}]
WorkerState == [step : {"receive", "post", "create", "repost", "done"},
                ev : Events \cup {None}]

Quiet == [step |-> "idle", ev |-> None]
Waiting == [step |-> "receive", ev |-> None]

TypeOK ==
    /\ writers \in [Writers -> WriterState]
    /\ stdout \subseteq Events
    /\ queue \in Seq(Events) /\ Len(queue) <= Capacity
    /\ closed \in BOOLEAN /\ cancelled \in BOOLEAN /\ collection \in BOOLEAN
    /\ worker \in WorkerState
    /\ closer \in {"open", "waiting", "expired", "returned"}
    /\ remote \in Seq(Events) /\ adrift \subseteq Events
    /\ logged \subseteq Events
    /\ taken \in Seq(Events)
    /\ tried \subseteq Events /\ late \subseteq Events

Init ==
    /\ writers = [w \in Writers |-> Quiet]
    /\ stdout = {}
    /\ queue = <<>> /\ closed = FALSE
    /\ worker = Waiting /\ cancelled = FALSE
    /\ closer = "open"
    /\ collection \in BOOLEAN
    /\ remote = <<>> /\ adrift = {}
    /\ logged = {} /\ taken = <<>> /\ tried = {} /\ late = {}

-----------------------------------------------------------------------------
(* handler.Handle *)

\* A plain record goes to the local handler only; others are projected and
\* offered to the sink first.
Handle(w, e) ==
    /\ writers[w] = Quiet
    /\ e \notin logged
    /\ logged' = logged \cup {e}
    /\ writers' = [writers EXCEPT ![w] =
         [step |-> IF e \in Plain THEN "write" ELSE "enqueue", ev |-> e]]
    /\ UNCHANGED <<stdout, queue, closed, worker, cancelled, closer, documents,
                   taken, tried>>

\* Mutant: a plain channel send, which waits for room.
EnqueueBlocking(w) ==
    /\ writers[w].step = "enqueue"
    /\ Len(queue) < Capacity
    /\ queue' = Append(queue, writers[w].ev)
    /\ taken' = Append(taken, writers[w].ev)
    /\ writers' = [writers EXCEPT ![w].step = "write"]
    /\ UNCHANGED <<stdout, closed, worker, cancelled, closer, documents, logged,
                   tried>>

\* enqueue: dropped when closed or full, never waiting.
Enqueue(w) ==
    LET e == writers[w].ev
        fits == ~closed /\ Len(queue) < Capacity IN
    /\ writers[w].step = "enqueue"
    /\ queue' = IF fits THEN Append(queue, e) ELSE queue
    /\ taken' = IF fits THEN Append(taken, e) ELSE taken
    /\ writers' = [writers EXCEPT ![w].step = "write"]
    /\ UNCHANGED <<stdout, closed, worker, cancelled, closer, documents, logged,
                   tried>>

Write(w) ==
    /\ writers[w].step = "write"
    /\ stdout' = stdout \cup {writers[w].ev}
    /\ writers' = [writers EXCEPT ![w] = Quiet]
    /\ UNCHANGED <<queue, closed, worker, cancelled, closer, documents, logged,
                   taken, tried>>

-----------------------------------------------------------------------------
(* TypesenseSink.run and send *)

\* Mutant: the loop does not notice that the channel is closed.
ReceiveForever ==
    /\ worker = Waiting
    /\ queue # <<>>
    /\ queue' = Tail(queue)
    /\ worker' = IF cancelled THEN [worker EXCEPT !.step = "done"]
                 ELSE [step |-> "post", ev |-> Head(queue)]
    /\ tried' = IF cancelled THEN tried ELSE tried \cup {Head(queue)}
    /\ UNCHANGED <<writers, stdout, closed, cancelled, closer, documents, logged,
                   taken>>

\* The range loop: it ends when the channel is closed and empty, and gives up
\* on the event just received when the context is cancelled.
Receive ==
    /\ worker = Waiting
    /\ \/ /\ queue # <<>>
          /\ queue' = Tail(queue)
          /\ worker' = IF cancelled THEN [worker EXCEPT !.step = "done"]
                       ELSE [step |-> "post", ev |-> Head(queue)]
          /\ tried' = IF cancelled THEN tried ELSE tried \cup {Head(queue)}
       \/ /\ queue = <<>> /\ closed
          /\ worker' = [worker EXCEPT !.step = "done"]
          /\ UNCHANGED <<queue, tried>>
    /\ UNCHANGED <<writers, stdout, closed, cancelled, closer, documents, logged,
                   taken>>

\* One POST of the document.  Answered 2xx, it is stored; refused, it is not.
\* Without an answer in the client's two seconds, or once the context is
\* cancelled, the worker gives it up, and the remote stores it later or never.
Stored(e) == collection /\ remote' = Append(remote, e) /\ UNCHANGED adrift
NotStored == UNCHANGED <<remote, adrift>>
GivenUp(e) == adrift' = adrift \cup {e} /\ UNCHANGED remote

\* Mutant: a request without an answer is sent once more.
PostRetry ==
    /\ worker.step = "post"
    /\ \/ Stored(worker.ev) /\ worker' = Waiting
       \/ NotStored /\ worker' = Waiting
       \/ GivenUp(worker.ev) /\ worker' = [worker EXCEPT !.step = "repost"]
       \/ ~collection /\ NotStored /\ worker' = [worker EXCEPT !.step = "create"]
    /\ UNCHANGED <<writers, stdout, queue, closed, cancelled, closer, collection,
                   logged, taken, tried, late>>

\* Whatever the POST came to, the next event is next, unless it was answered 404.
Post ==
    /\ worker.step = "post"
    /\ \/ /\ Stored(worker.ev) \/ NotStored \/ GivenUp(worker.ev)
          /\ worker' = Waiting
       \/ ~collection /\ NotStored /\ worker' = [worker EXCEPT !.step = "create"]
    /\ UNCHANGED <<writers, stdout, queue, closed, cancelled, closer, collection,
                   logged, taken, tried, late>>

\* 404: create the collection; a conflict (another writer was faster) is as
\* good as a success, and a failure gives the event up.
CreateCollection ==
    /\ worker.step = "create"
    /\ \/ collection' = TRUE /\ worker' = [worker EXCEPT !.step = "repost"]
       \/ worker' = Waiting /\ collection' \in {collection, TRUE}
    /\ UNCHANGED <<writers, stdout, queue, closed, cancelled, closer, remote,
                   adrift, logged, taken, tried, late>>

\* The second POST of the event; whatever it answers, 404 included, is final.
Repost ==
    /\ worker.step = "repost"
    /\ Stored(worker.ev) \/ NotStored \/ GivenUp(worker.ev)
    /\ worker' = Waiting
    /\ UNCHANGED <<writers, stdout, queue, closed, cancelled, closer, collection,
                   logged, taken, tried, late>>

-----------------------------------------------------------------------------
(* The remote *)

\* Typesense carries out a POST whose sender has given it up.
StoreAdrift(e) ==
    /\ e \in adrift /\ collection
    /\ remote' = Append(remote, e)
    /\ adrift' = adrift \ {e}
    /\ late' = late \cup {e}
    /\ UNCHANGED <<writers, stdout, queue, closed, worker, cancelled, closer,
                   collection, logged, taken, tried>>

\* Another writer of the shared collection creates it (or a creation that the
\* worker has given up is carried out), or somebody deletes it.
OtherChanges ==
    /\ collection' = ~collection
    /\ UNCHANGED <<writers, stdout, queue, closed, worker, cancelled, closer,
                   remote, adrift, logged, taken, tried, late>>

-----------------------------------------------------------------------------
(* TypesenseSink.Close *)

\* Mutant: the worker is cancelled before it has drained the channel.
BeginCloseCancels ==
    /\ closer = "open"
    /\ closed' = TRUE /\ cancelled' = TRUE
    /\ closer' = "waiting"
    /\ UNCHANGED <<writers, stdout, queue, worker, documents, logged,
                   taken, tried>>

BeginClose ==
    /\ closer = "open"
    /\ closed' = TRUE
    /\ closer' = "waiting"
    /\ UNCHANGED <<writers, stdout, queue, worker, cancelled, documents, logged,
                   taken, tried>>

\* The worker is done, or main's three seconds are over ("flush interrupted").
CloseReturns ==
    /\ closer = "waiting"
    /\ closer' \in (IF worker.step = "done" THEN {"returned", "expired"}
                    ELSE {"expired"})
    /\ cancelled' = TRUE
    /\ UNCHANGED <<writers, stdout, queue, closed, worker, documents, logged,
                   taken, tried>>

Worker == Receive \/ Post \/ CreateCollection \/ Repost

Next ==
    \/ \E w \in Writers : Enqueue(w) \/ Write(w) \/ \E e \in Events : Handle(w, e)
    \/ Worker \/ BeginClose \/ CloseReturns
    \/ OtherChanges \/ \E e \in Events : StoreAdrift(e)

\* Goroutines are scheduled; a POST ends at its timeout and Close at main's
\* deadline.  Nobody has to log or to shut down.
Fairness ==
    /\ \A w \in Writers : WF_vars(Enqueue(w)) /\ WF_vars(Write(w))
    /\ WF_vars(Worker)
    /\ WF_vars(CloseReturns)

Spec == Init /\ [][Next]_vars /\ Fairness

-----------------------------------------------------------------------------
(* Properties. *)

\* place says which event of the channel each document is: none is there twice,
\* and a later document is a later event, or was stored by a POST given up.
InOrder(place) ==
    /\ \A i \in DOMAIN remote : remote[i] = taken[place[i]]
    /\ \A i, j \in DOMAIN remote :
         i < j => \/ place[i] < place[j]
                  \/ place[i] # place[j] /\ remote[j] \in late

\* The remote stores each accepted event at most once, and in the order in which
\* the channel took them but for events whose POST had no answer in time, which
\* others may overtake; however often the collection is deleted and created.
StoredOnceInOrder ==
    \E place \in [DOMAIN remote -> DOMAIN taken] : InOrder(place)

\* "Close drains pending events within ctx's deadline": when it returns before
\* the deadline, the worker has tried to deliver every event the channel took,
\* those that raced with Close included.
CloseDrains ==
    closer = "returned" => queue = <<>> /\ ToSet(taken) \subseteq tried

\* How many events have left the channel; the worker has the last in hand until
\* it has given it up or delivered it.
Gone == Len(taken) - Len(queue)
InHand == worker.step \in {"post", "create", "repost"}

\* The p-th event of the channel has left it and is not in hand any more.
Left(p) == p <= Gone /\ (InHand => p < Gone)

\* The strengthening of both: where the events are that the channel has taken,
\* and how far Close has come.
SinkInv ==
    /\ TypeOK
    /\ \A w \in Writers : writers[w].step # "idle" => writers[w].ev \in Events
    /\ Gone \in Nat /\ \A j \in DOMAIN queue : queue[j] = taken[Gone + j]
    /\ InHand => Gone > 0 /\ worker.ev = taken[Gone]
    /\ \E place \in [DOMAIN remote -> DOMAIN taken],
          berth \in [adrift -> DOMAIN taken] :
         /\ InOrder(place)
         /\ \A i \in DOMAIN remote : Left(place[i])
         /\ \A e \in adrift :
              /\ taken[berth[e]] = e /\ Left(berth[e])
              /\ \A i \in DOMAIN remote : place[i] # berth[e]
    /\ closed <=> closer # "open"
    /\ cancelled <=> closer \in {"expired", "returned"}
    /\ ~cancelled => \A j \in 1..Gone : taken[j] \in tried
    /\ worker.step = "done" /\ ~cancelled => closed /\ queue = <<>>
    /\ CloseDrains

\* "delivers logs ... independently of requests": whatever the queue, the
\* remote and Close do, a goroutine that logs gets its event onto stdout.
EveryEventReachesStdout ==
    \A e \in Events : (e \in logged) ~> (e \in stdout)

\* Once Close has begun it returns and the worker goroutine ends, although the
\* remote may be down and goroutines keep logging.
ShutdownCompletes ==
    closed ~> (closer \in {"returned", "expired"} /\ worker.step = "done")
=============================================================================
