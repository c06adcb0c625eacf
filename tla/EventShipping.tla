---------------------------- MODULE EventShipping ----------------------------
(***************************************************************************)
(* The way of a log line into the platform: the agent (agent/lbro_agent.py) *)
(* tails log files, buffers events in a ring, and ships them in batches to *)
(* POST /events/batch (app/routers/events.py).                             *)
(*                                                                         *)
(* Three kinds of threads share the ring: a watcher per file pushes, the   *)
(* flush thread drains one batch at a time, and the main thread drains     *)
(* what is left once the agent is stopped.  Events are numbered in the     *)
(* order of the pushes; the ring only ever loses its oldest events, so it  *)
(* holds the numbers from `first` to `next` - 1.  The API answers a batch  *)
(* before its session commits.                                             *)
(***************************************************************************)
EXTENDS Integers

CONSTANTS
    Files,                 \* log files watched
    Capacity,              \* maxlen of the ring (10 * batch_size)
    BatchSize,
    CompressionThreshold,  \* batches of this size and more are compressed
    MaxRetries,
    MaxEvents,             \* bound: events in a behaviour
    MaxSessions,           \* bound: the API's sessions at work at once
    Faults                 \* may the network and the API's sessions fail?

ASSUME Sizes ==
    /\ Capacity \in Nat \ {0}
    /\ BatchSize \in Nat \ {0}
    /\ CompressionThreshold \in Nat
    /\ MaxRetries \in Nat
    /\ MaxEvents \in Nat
    /\ MaxSessions \in Nat
    /\ Faults \in BOOLEAN

VARIABLES
    stopped,      \* _stop_event
    late,         \* watchers that still push an event after the stop
    first, next,  \* the ring
    pc,           \* where the two threads that ship stand
    batch,        \* the batch in hand of each
    tries,        \* failed attempts at that batch
    awaited,      \* the request each waits for
    ingests,      \* sessions of the API at work on a batch
    copies,       \* copies[e]: rows of the API's table that hold e
    lost          \* events overwritten, given up, rolled back, or in the hand
                  \* of a thread when it died

vars == <<stopped, late, first, next, pc, batch, tries, awaited, ingests,
          copies, lost>>

Events == 1 .. MaxEvents

Shippers == {"flusher", "main"}

(* A batch holds the events from `from` to `upto` - 1.                     *)
Batch == [from : Nat, upto : Nat]
NoBatch == [from |-> 0, upto |-> 0]

(* Sessions at work are told apart by a number.                            *)
Sessions == 1 .. MaxSessions

Ingest == [id : Sessions, events : Batch, answered : BOOLEAN]

In(b) == b.from .. b.upto - 1
Size(b) == b.upto - b.from

(* The agent's process ends with its main thread.                          *)
Running == pc["main"] # "done"

-----------------------------------------------------------------------------
Init ==
    /\ stopped = FALSE
    /\ late = {}
    /\ first = 1
    /\ next = 1
    /\ pc = [t \in Shippers |-> "idle"]
    /\ batch = [t \in Shippers |-> NoBatch]
    /\ tries = [t \in Shippers |-> 0]
    /\ awaited = [t \in Shippers |-> 0]
    /\ ingests = {}
    /\ copies = [e \in Events |-> 0]
    /\ lost = {}

shipping == <<pc, batch, tries, awaited>>
server == <<ingests, copies>>

(* SIGINT or SIGTERM.  The watchers that have looked at the stop event for  *)
(* the line in their hands still push that one.                            *)
Stop ==
    /\ ~stopped
    /\ stopped' = TRUE
    /\ late' \in SUBSET Files
    /\ UNCHANGED <<first, next, shipping, server, lost>>

(* A watcher pushes the event it parsed; a full ring drops its oldest.     *)
Push(f) ==
    /\ Running
    /\ ~stopped \/ f \in late
    /\ next \in Events
    /\ late' = late \ {f}
    /\ next' = next + 1
    /\ IF next - first < Capacity
       THEN UNCHANGED <<first, lost>>
       ELSE first' = first + 1 /\ lost' = lost \cup {first}
    /\ UNCHANGED <<stopped, shipping, server>>

(* Mutants of Drain: the batch stays in the ring; one event too many is    *)
(* taken out of it.                                                        *)
DrainKeeping(t) ==
    LET upto == IF first + BatchSize < next THEN first + BatchSize ELSE next
    IN  /\ Running
        /\ pc[t] = "idle"
        /\ t = "main" => stopped
        /\ first < next
        /\ UNCHANGED first
        /\ batch' = [batch EXCEPT ![t] = [from |-> first, upto |-> upto]]
        /\ pc' = [pc EXCEPT ![t] = "ready"]
        /\ UNCHANGED <<stopped, late, next, tries, awaited, server, lost>>

DrainBeyond(t) ==
    LET upto == IF first + BatchSize < next THEN first + BatchSize ELSE next
    IN  /\ Running
        /\ pc[t] = "idle"
        /\ t = "main" => stopped
        /\ first < next
        /\ first' = IF upto < next THEN upto + 1 ELSE upto
        /\ batch' = [batch EXCEPT ![t] = [from |-> first, upto |-> upto]]
        /\ pc' = [pc EXCEPT ![t] = "ready"]
        /\ UNCHANGED <<stopped, late, next, tries, awaited, server, lost>>

(* The flush thread wakes from its wait - after the interval or when the   *)
(* agent is stopped - and the main thread once the agent is stopped.       *)
Drain(t) ==
    LET upto == IF first + BatchSize < next THEN first + BatchSize ELSE next
    IN  /\ Running
        /\ pc[t] = "idle"
        /\ t = "main" => stopped
        /\ first < next
        /\ first' = upto
        /\ batch' = [batch EXCEPT ![t] = [from |-> first, upto |-> upto]]
        /\ pc' = [pc EXCEPT ![t] = "ready"]
        /\ UNCHANGED <<stopped, late, next, tries, awaited, server, lost>>

(* A stopped thread that finds the ring empty is done; the flush thread    *)
(* also when it looks at the stop event before it waits again.             *)
Leave(t) ==
    /\ Running
    /\ pc[t] = "idle"
    /\ stopped
    /\ t = "main" => first = next
    /\ pc' = [pc EXCEPT ![t] = "done"]
    /\ UNCHANGED <<stopped, late, first, next, batch, tries, awaited, server,
                   lost>>

(* _ship_batch returns.  The flush thread does one batch per round, the    *)
(* main thread goes on after a full one.                                   *)
Over(t) ==
    /\ pc' = [pc EXCEPT ![t] =
                IF (t = "flusher" /\ stopped)
                     \/ (t = "main" /\ Size(batch[t]) < BatchSize)
                THEN "done" ELSE "idle"]
    /\ batch' = [batch EXCEPT ![t] = NoBatch]
    /\ awaited' = [awaited EXCEPT ![t] = 0]
    /\ tries' = [tries EXCEPT ![t] = 0]

(* Mutant of Failed: a batch is tried for ever.                            *)
FailedForever(t) ==
    /\ tries' = [tries EXCEPT ![t] = 0]
    /\ pc' = [pc EXCEPT ![t] = "ready"]
    /\ awaited' = [awaited EXCEPT ![t] = 0]
    /\ UNCHANGED <<batch, lost>>

(* Mutant of Failed: one attempt more than max_retries allows.             *)
FailedLate(t) ==
    IF tries[t] <= MaxRetries
    THEN /\ tries' = [tries EXCEPT ![t] = @ + 1]
         /\ pc' = [pc EXCEPT ![t] = "ready"]
         /\ awaited' = [awaited EXCEPT ![t] = 0]
         /\ UNCHANGED <<batch, lost>>
    ELSE /\ Over(t)
         /\ lost' = lost \cup In(batch[t])

(* An attempt failed: wait and try again, or give the batch up.            *)
Failed(t) ==
    IF tries[t] < MaxRetries
    THEN /\ tries' = [tries EXCEPT ![t] = @ + 1]
         /\ pc' = [pc EXCEPT ![t] = "ready"]
         /\ awaited' = [awaited EXCEPT ![t] = 0]
         /\ UNCHANGED <<batch, lost>>
    ELSE /\ Over(t)
         /\ lost' = lost \cup In(batch[t])

(* The least number no session has.                                        *)
Unused(i) ==
    /\ \A g \in ingests : g.id # i
    /\ \A j \in 1 .. i - 1 : \E g \in ingests : g.id = j

agentRest == <<stopped, late, first, next>>

Post(t) ==
    /\ Running
    /\ pc[t] = "ready"
    /\ Size(batch[t]) < CompressionThreshold
    /\ \E i \in Sessions :
          /\ Unused(i)
          /\ ingests' = ingests \cup
                {[id |-> i, events |-> batch[t], answered |-> FALSE]}
          /\ awaited' = [awaited EXCEPT ![t] = i]
    /\ pc' = [pc EXCEPT ![t] = "awaiting"]
    /\ UNCHANGED <<agentRest, batch, tries, copies, lost>>

(* The API does not undo the compression: it cannot parse the body and     *)
(* answers 400, which the agent retries.                                   *)
PostCompressed(t) ==
    /\ Running
    /\ pc[t] = "ready"
    /\ Size(batch[t]) >= CompressionThreshold
    /\ Failed(t)
    /\ UNCHANGED <<agentRest, server>>

(* No connection, an error answer on the way, or no answer within 30 s     *)
(* while the API is still at work.                                         *)
NetworkFails(t) ==
    /\ Faults
    /\ Running
    /\ pc[t] \in {"ready", "awaiting"}
    /\ Failed(t)
    /\ UNCHANGED <<agentRest, server>>

(* 401, for a key that was rotated, is not retried.                        *)
Refused(t) ==
    /\ Faults
    /\ Running
    /\ pc[t] = "ready"
    /\ Over(t)
    /\ lost' = lost \cup In(batch[t])
    /\ UNCHANGED <<agentRest, server>>

(* An exception that _ship_batch does not catch - http.client's, when the   *)
(* peer closes without an answer or in the middle of one, or a JSON error    *)
(* for a 2xx body that is none - ends the thread with its batch.  Nobody     *)
(* starts the flush thread again; the main thread takes the agent with it.   *)
Dies(t) ==
    /\ Faults
    /\ Running
    /\ pc[t] \in {"ready", "awaiting"}
    /\ pc' = [pc EXCEPT ![t] = "done"]
    /\ batch' = [batch EXCEPT ![t] = NoBatch]
    /\ awaited' = [awaited EXCEPT ![t] = 0]
    /\ tries' = [tries EXCEPT ![t] = 0]
    /\ lost' = lost \cup In(batch[t])
    /\ UNCHANGED <<agentRest, server>>

-----------------------------------------------------------------------------
(* The API has stored the batch in its session and answers 202; nobody may *)
(* be waiting any more.                                                    *)
Answer(g) ==
    /\ ~g.answered
    /\ ingests' = (ingests \ {g}) \cup {[g EXCEPT !.answered = TRUE]}
    /\ IF \E t \in Shippers : Running /\ awaited[t] = g.id
       THEN \E t \in Shippers : awaited[t] = g.id /\ Over(t)
       ELSE UNCHANGED shipping
    /\ UNCHANGED <<agentRest, copies, lost>>

(* Mutant of Commit: every event is inserted twice.                        *)
CommitTwice(g) ==
    /\ g.answered
    /\ copies' = [e \in Events |->
                    IF e \in In(g.events) THEN copies[e] + 2 ELSE copies[e]]
    /\ ingests' = ingests \ {g}
    /\ UNCHANGED <<agentRest, shipping, lost>>

Commit(g) ==
    /\ g.answered
    /\ copies' = [e \in Events |->
                    IF e \in In(g.events) THEN copies[e] + 1 ELSE copies[e]]
    /\ ingests' = ingests \ {g}
    /\ UNCHANGED <<agentRest, shipping, lost>>

(* The session fails and rolls back: before the answer, which is then 500, *)
(* or after it.                                                            *)
Rollback(g) ==
    /\ Faults
    /\ ingests' = ingests \ {g}
    /\ IF \E t \in Shippers : Running /\ awaited[t] = g.id
       THEN \E t \in Shippers : awaited[t] = g.id /\ Failed(t)
       ELSE /\ lost' = IF g.answered THEN lost \cup In(g.events) ELSE lost
            /\ UNCHANGED shipping
    /\ UNCHANGED <<agentRest, copies>>

-----------------------------------------------------------------------------
Attempt(t) == Post(t) \/ PostCompressed(t) \/ NetworkFails(t) \/ Refused(t)

Serve == \E g \in ingests : Answer(g) \/ Commit(g) \/ Rollback(g)

Next ==
    \/ Stop
    \/ \E f \in Files : Push(f)
    \/ \E t \in Shippers : Drain(t) \/ Leave(t) \/ Attempt(t) \/ Dies(t)
    \/ Serve

Spec == Init /\ [][Next]_vars

(* The flush thread wakes up, an attempt ends (urlopen has a timeout) and  *)
(* the API works on what it was sent; nobody has to stop the agent.        *)
Fairness ==
    /\ \A t \in Shippers : WF_vars(Drain(t) \/ Leave(t)) /\ WF_vars(Attempt(t))
    /\ WF_vars(Serve)

FairSpec == Spec /\ Fairness

-----------------------------------------------------------------------------
TypeOK ==
    /\ stopped \in BOOLEAN
    /\ late \subseteq Files
    /\ first \in Nat \ {0} /\ next \in Nat \ {0}
    /\ pc \in [Shippers -> {"idle", "ready", "awaiting", "done"}]
    /\ batch \in [Shippers -> Batch]
    /\ tries \in [Shippers -> 0 .. MaxRetries]
    /\ awaited \in [Shippers -> Sessions \cup {0}]
    /\ ingests \subseteq Ingest
    /\ copies \in [Events -> Nat]
    /\ lost \subseteq Events

(* Every event a watcher pushed is in the ring, in the hand of a thread, in *)
(* a batch the API has answered, or stored - or it was overwritten by newer *)
(* ones, given up after the retries, refused, rolled back, or died with the *)
(* thread that had them: drains that overlap pushes, other drains, retries  *)
(* and late answers mislay nothing                                          *)
(* (lbro_agent.py, EventBuffer, _flush and _ship_batch).                    *)
EventsAreAccountedFor ==
    \A e \in 1 .. next - 1 :
        \/ e \in first .. next - 1
        \/ \E t \in Shippers : e \in In(batch[t])
        \/ \E g \in ingests : g.answered /\ e \in In(g.events)
        \/ copies[e] > 0
        \/ e \in lost

(* No event is in two hands: the main thread's last flush never ships what *)
(* the flush thread is still retrying (lbro_agent.py, EventBuffer.drain).  *)
NoEventInTwoHands ==
    /\ In(batch["flusher"]) \cap In(batch["main"]) = {}
    /\ \A t \in Shippers : In(batch[t]) \cap (first .. next - 1) = {}

(* An event is stored more than once only because its batch was sent again *)
(* after an answer that was lost or late, so at most once per attempt      *)
(* (lbro_agent.py, _ship_batch; events.py, ingest_event_batch).            *)
CopiesAreAttempts == \A e \in Events : copies[e] <= MaxRetries + 1

(* The flush thread is gone though nobody stopped the agent.               *)
FlusherDied == pc["flusher"] = "done" /\ ~stopped

(* Shipping does not hang on one batch for ever: while the agent runs and   *)
(* events wait in the ring, some thread takes a batch from it again and      *)
(* again - unless an exception took the flush thread and nobody ever stops   *)
(* the agent, so that even the main thread's last flush does not come        *)
(* (lbro_agent.py, run, _flush_loop and the retries of _ship_batch).         *)
RingIsDrained ==
    \/ []<>(first = next \/ ~Running)
    \/ []<><<\E t \in Shippers : Drain(t)>>_vars
    \/ <>[]FlusherDied

(* "Compress batches (gzip) when batch size >= compression_threshold" and  *)
(* "Ship to LBRO via /api/v1/events/batch" (lbro_agent.py): without faults *)
(* an event that a thread has taken from the ring of an agent nobody stops *)
(* gets stored.                                                            *)
ShippedEventsAreStored ==
    \A e \in Events :
        (\E t \in Shippers : e \in In(batch[t])) ~> (copies[e] > 0 \/ stopped)
=============================================================================
