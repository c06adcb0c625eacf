----------------------------- MODULE LiveStream -----------------------------
(***************************************************************************)
(* The live stream of security events (app/routers/events.py): a bus that  *)
(* hands every ingested event to the queues of the viewers of its project. *)
(* The bus is an object of one process: the API's other processes ingest   *)
(* events of the project too, and those never reach the viewer.  An event  *)
(* is published while the transaction that stores it is still open; a      *)
(* viewer's queue is made only after the viewer was told that it is        *)
(* connected; a full queue drops the event.                                *)
(***************************************************************************)
EXTENDS ApiProcesses, Naturals, Sequences, Functions

CONSTANTS
    Projects,
    Viewers,         \* open streams
    Senders,         \* ingestion requests in progress at a time
    QueueSize,       \* 100
    MaxEvents        \* bound: events in a behaviour

ASSUME StreamLimits == QueueSize \in Nat \ {0} /\ MaxEvents \in Nat

(* What _event_bus has under a project, in one process.                    *)
Buckets == Processes \X Projects

Nowhere == <<"none", "none">>

ProcessOf(b) == b[1]
ProjectOf(b) == b[2]

VARIABLES
    log,        \* every event published, in order: its bucket and sender
    fate,       \* fate[n]: "open", "stored" or "undone"
    sender,     \* sender[w]: the bucket of request w, or Nowhere
    viewer,     \* viewer[v]: its stage, bucket and first event due
    listing,    \* listing[v]: what GET /events had for v since it subscribed
    queue,      \* queue[v]: numbers of the events that wait for v
    seen,       \* seen[v]: numbers of the events v was sent
    dropped     \* dropped[v]: numbers of the events v's queue had no room for

streamVars == <<log, fate, sender, viewer, listing, queue, seen, dropped>>

Away == [stage |-> "away", bucket |-> Nowhere, since |-> 0]

NotListed == [done |-> FALSE, upto |-> 0, stored |-> {}, open |-> {}]

StreamInit ==
    /\ log = <<>>
    /\ fate = <<>>
    /\ sender = [w \in Senders |-> Nowhere]
    /\ viewer = [v \in Viewers |-> Away]
    /\ listing = [v \in Viewers |-> NotListed]
    /\ queue = [v \in Viewers |-> <<>>]
    /\ seen = [v \in Viewers |-> <<>>]
    /\ dropped = [v \in Viewers |-> {}]

(* ingest_event, ingest_event_batch: a project key opens the request, at   *)
(* some process.                                                           *)
BeginIngest(w, b) ==
    /\ sender[w] = Nowhere
    /\ sender' = [sender EXCEPT ![w] = b]
    /\ UNCHANGED <<log, fate, viewer, listing, queue, seen, dropped>>

(* Mutant of Listening: every stream gets every project's events.          *)
ListeningAll(b) ==
    {v \in Viewers : /\ viewer[v].stage = "open"
                     /\ ProcessOf(viewer[v].bucket) = ProcessOf(b)}

Listening(b) ==
    {v \in Viewers : viewer[v].stage = "open" /\ viewer[v].bucket = b}

Full(v) == Len(queue[v]) >= QueueSize

(* Mutant of Waiting: the queue has no end.                                *)
WaitingUnbounded(v, n) == Append(queue[v], n)

(* The queue of v when event n is put into it without waiting.             *)
Waiting(v, n) == IF Full(v) THEN queue[v] ELSE Append(queue[v], n)

(* _ingest_single: the event is flushed, then published.                   *)
Publish(w) ==
    LET n == Len(log) + 1
        to == Listening(sender[w])
    IN /\ sender[w] # Nowhere
       /\ Len(log) < MaxEvents
       /\ log' = Append(log, [bucket |-> sender[w], by |-> w])
       /\ fate' = Append(fate, "open")
       /\ queue' = [v \in Viewers |-> IF v \in to THEN Waiting(v, n) ELSE queue[v]]
       /\ dropped' = [v \in Viewers |-> IF v \in to /\ Full(v)
                                       THEN dropped[v] \cup {n} ELSE dropped[v]]
       /\ UNCHANGED <<sender, viewer, listing, seen>>

(* The request is answered and its session commits, or rolls back.         *)
EndIngest(w, outcome) ==
    /\ sender[w] # Nowhere
    /\ sender' = [sender EXCEPT ![w] = Nowhere]
    /\ fate' = [n \in DOMAIN log |-> IF log[n].by = w /\ fate[n] = "open"
                                    THEN outcome ELSE fate[n]]
    /\ UNCHANGED <<log, viewer, listing, queue, seen, dropped>>

(* stream_events: "connected" goes out first, ...                          *)
Connect(v, b) ==
    /\ viewer[v].stage = "away"
    /\ viewer' = [viewer EXCEPT ![v] = [stage |-> "told", bucket |-> b,
                                        since |-> Len(log) + 1]]
    /\ UNCHANGED <<log, fate, sender, listing, queue, seen, dropped>>

(* ... then the generator goes on, and subscribes.                         *)
Subscribe(v) ==
    /\ viewer[v].stage = "told"
    /\ viewer' = [viewer EXCEPT ![v] = [stage |-> "open", bucket |-> @.bucket,
                                        since |-> Len(log) + 1]]
    /\ UNCHANGED <<log, fate, sender, listing, queue, seen, dropped>>

(* The events of v's project, whichever process took them.                 *)
Numbered(v, f) ==
    {n \in DOMAIN log : /\ ProjectOf(log[n].bucket) = ProjectOf(viewer[v].bucket)
                        /\ fate[n] = f}

(* list_project_events: the stored events of the project, once a stream is *)
(* open.                                                                   *)
List(v) ==
    /\ viewer[v].stage = "open" /\ ~listing[v].done
    /\ listing' = [listing EXCEPT ![v] =
                     [done |-> TRUE, upto |-> Len(log),
                      stored |-> Numbered(v, "stored"),
                      open |-> Numbered(v, "open")]]
    /\ UNCHANGED <<log, fate, sender, viewer, queue, seen, dropped>>

Deliver(v) ==
    /\ viewer[v].stage = "open"
    /\ queue[v] # <<>>
    /\ seen' = [seen EXCEPT ![v] = Append(@, Head(queue[v]))]
    /\ queue' = [queue EXCEPT ![v] = Tail(@)]
    /\ UNCHANGED <<log, fate, sender, viewer, listing, dropped>>

(* The client goes away; its queue goes with it.                           *)
Disconnect(v) ==
    /\ viewer[v].stage # "away"
    /\ viewer' = [viewer EXCEPT ![v] = Away]
    /\ listing' = [listing EXCEPT ![v] = NotListed]
    /\ queue' = [queue EXCEPT ![v] = <<>>]
    /\ seen' = [seen EXCEPT ![v] = <<>>]
    /\ dropped' = [dropped EXCEPT ![v] = {}]
    /\ UNCHANGED <<log, fate, sender>>

StreamNext ==
    \/ \E w \in Senders, b \in Buckets : BeginIngest(w, b)
    \/ \E w \in Senders : Publish(w)
    \/ \E w \in Senders, outcome \in {"stored", "undone"} : EndIngest(w, outcome)
    \/ \E v \in Viewers, b \in Buckets : Connect(v, b)
    \/ \E v \in Viewers : Subscribe(v) \/ List(v) \/ Deliver(v) \/ Disconnect(v)

StreamSpec == StreamInit /\ [][StreamNext]_streamVars

-----------------------------------------------------------------------------
StreamTypeOK ==
    /\ log \in Seq([bucket : Buckets, by : Senders])
    /\ fate \in [DOMAIN log -> {"open", "stored", "undone"}]
    /\ sender \in [Senders -> Buckets \cup {Nowhere}]
    /\ viewer \in [Viewers -> [stage : {"away", "told", "open"},
                               bucket : Buckets \cup {Nowhere}, since : Nat]]
    /\ listing \in [Viewers -> [done : BOOLEAN, upto : Nat,
                                stored : SUBSET DOMAIN log,
                                open : SUBSET DOMAIN log]]
    /\ queue \in [Viewers -> Seq(DOMAIN log)]
    /\ \A v \in Viewers : Len(queue[v]) <= QueueSize
    /\ seen \in [Viewers -> Seq(DOMAIN log)]
    /\ dropped \in [Viewers -> SUBSET DOMAIN log]

(* The events that v should be sent.                                       *)
Due(v) == {n \in DOMAIN log : /\ n >= viewer[v].since
                              /\ log[n].bucket = viewer[v].bucket
                              /\ n \notin dropped[v]}

(* What v was sent, and after it what is going to be.                      *)
Sent(v) == seen[v] \o queue[v]

(* What a viewer has been sent and what waits for it are, in order and     *)
(* once each, the events of its project that its own process published     *)
(* since it subscribed, less those its queue had no room for               *)
(* (_event_bus, _bus_publish, _bus_subscribe).                             *)
StreamIsTheLogLessDrops ==
    \A v \in Viewers :
        viewer[v].stage = "open" =>
            /\ Range(Sent(v)) = Due(v)
            /\ \A i, j \in DOMAIN Sent(v) : i < j => Sent(v)[i] < Sent(v)[j]

(* Events that another process published after v listed.                   *)
Elsewhere(v) ==
    {n \in DOMAIN log : /\ n > listing[v].upto
                        /\ ProcessOf(log[n].bucket) # ProcessOf(viewer[v].bucket)}

(* A viewer that subscribes and then lists what is stored misses no stored *)
(* event of its project but those that were in flight at that moment -     *)
(* published before it subscribed or elsewhere, stored after it listed -   *)
(* those its queue dropped, and those that another process published since *)
(* (_ingest_single publishes before it stores; _event_bus).                *)
MissesAreExplained ==
    \A v \in Viewers :
        listing[v].done =>
            Numbered(v, "stored") \subseteq
                UNION {Range(seen[v]), Range(queue[v]), dropped[v],
                       listing[v].stored, listing[v].open, Elsewhere(v)}

(* Both of these: what a viewer gets is all there is for it to get.        *)
StreamIsFaithful == StreamIsTheLogLessDrops /\ MissesAreExplained
=============================================================================
