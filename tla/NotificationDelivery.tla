------------------------ MODULE NotificationDelivery ------------------------
(***************************************************************************)
(* The delivery of regulatory notifications: the API requests that approve *)
(* and send them (app/routers/notifications.py on                          *)
(* app/services/notification_service.py), the SQS queue between the API    *)
(* and the worker, and the worker that sends what the queue names          *)
(* (app/workers/main.py on app/workers/notification_worker.py).            *)
(*                                                                         *)
(* Every request and every message runs in a database session of its own.  *)
(* The session reads the row once, decides on what it read, awaits the     *)
(* mail server, flushes and commits; the steps of two sessions interleave  *)
(* between these awaits.  The row lock of an UPDATE is held from the flush *)
(* to the commit.                                                          *)
(***************************************************************************)
EXTENDS Naturals, FiniteSets, UnitOfWork, SqsQueue

CONSTANTS
    Notifications,  \* rows of the table, all drafted as "pending"
    Clients,        \* API requests that can be in progress at a time
    Workers,        \* worker processes polling the notification queue
    MaxRetries,     \* MAX_RETRIES of the worker
    MaxReceive,     \* maxReceiveCount of the queue's redrive policy
    MaxRequests,    \* bound: API requests in a behaviour
    Mailers,        \* the sessions of processes with SMTP_HOST set
    Faults          \* may sessions abort, SQS be unreachable, and mail errors
                    \* hide that the mail was taken?

Sessions == Clients \cup Workers

ASSUME SessionKinds ==
    Clients \cap Workers = {} /\ IsFiniteSet(Clients) /\ IsFiniteSet(Workers)
ASSUME Limits ==
    /\ MaxRetries \in Nat
    /\ MaxReceive \in Nat
    /\ MaxRequests \in Nat
    /\ Mailers \subseteq Sessions
    /\ Faults \in BOOLEAN

VARIABLES
    db,        \* committed rows
    pc,        \* where each session stands
    on,        \* the notification a session works on
    loaded,    \* the row as the session read it
    mine,      \* the row as the session would write it
    lock,      \* lock[n]: the session that holds the row lock, if any
    queue,     \* messages not deleted yet, visible or in flight
    dlq,       \* ids of the messages the redrive policy moved away
    nextId,    \* id of the next message
    held,      \* id of the message a worker is handling
    requests,  \* API requests so far
    emails,    \* emails[n]: mails the mail server accepted for n
    logged,    \* logged[n]: mails of n only logged, SMTP_HOST being unset
    failures,  \* failures[n]: attempts of n that ended in an exception
    unrecorded,\* unrecorded[n]: mails of n sent or logged by a session that
               \* saw an error instead, or ended before its commit
    past,      \* past[n]: the rows n has had
    overtaken  \* notifications a session wrote that had read another row

vars == <<db, pc, on, loaded, mine, lock, queue, dlq, nextId, held,
          requests, emails, logged, failures, unrecorded, past, overtaken>>

sessionVars == <<pc, on, loaded, mine>>
queueVars == <<queue, dlq, nextId, held>>
mailVars == <<emails, logged, failures, unrecorded>>
rowVars == <<db, past, overtaken>>

Lifecycle == INSTANCE NotificationLifecycle WITH row <- db

Row == Lifecycle!Row

Message == MessageAbout(Notifications)

Stages == {"idle", "approving", "dispatching", "mailing", "flushing",
           "committing", "acking"}

(* Mutants of Sendable: send() also accepts what is sent; only retries.    *)
SendableSent == {"approved", "failed", "sent"}
SendableFailed == {"failed"}

(* The statuses send() and the worker accept. *)
Sendable == {"approved", "failed"}

-----------------------------------------------------------------------------
Init ==
    /\ Lifecycle!Init
    /\ pc = [s \in Sessions |-> "idle"]
    /\ on \in [Sessions -> Notifications]
    /\ \A s, t \in Sessions : on[s] = on[t]
    /\ loaded = [s \in Sessions |-> Lifecycle!Fresh]
    /\ mine = [s \in Sessions |-> Lifecycle!Fresh]
    /\ lock = [n \in Notifications |-> {}]
    /\ queue = {}
    /\ dlq = {}
    /\ nextId = 1
    /\ held = [w \in Workers |-> 0]
    /\ requests = 0
    /\ emails = [n \in Notifications |-> 0]
    /\ logged = [n \in Notifications |-> 0]
    /\ failures = [n \in Notifications |-> 0]
    /\ unrecorded = [n \in Notifications |-> 0]

(* SELECT of row n by an idle session, which then stands at `stage`.       *)
Load(s, n, stage) ==
    /\ pc' = [pc EXCEPT ![s] = stage]
    /\ on' = [on EXCEPT ![s] = n]
    /\ loaded' = [loaded EXCEPT ![s] = db[n]]
    /\ mine' = [mine EXCEPT ![s] = db[n]]

(* A request that finds its notification in another status answers 409 and *)
(* changes nothing.                                                        *)
Request(c, n, stage) ==
    /\ pc[c] = "idle"
    /\ requests < MaxRequests
    /\ requests' = requests + 1
    /\ Load(c, n, stage)
    /\ UNCHANGED <<rowVars, lock, queueVars, mailVars>>

(* Mutant of BeginApprove: approve() without its status check.             *)
BeginApproveAny(c, n) == Request(c, n, "approving")

BeginApprove(c, n) ==
    /\ db[n].status = "pending"
    /\ Request(c, n, "approving")

(* dispatch approves a pending notification first, and sends any other.    *)
BeginDispatch(c, n) ==
    /\ db[n].status = "pending"
    /\ Request(c, n, "dispatching")

(* send, and dispatch on a notification that is not pending.               *)
BeginSend(c, n) ==
    /\ db[n].status \in Sendable
    /\ Request(c, n, "mailing")

(* approve(): the flush takes the row lock, then the message is posted -   *)
(* before the commit - unless the call raises, which is swallowed: always  *)
(* on a queue that is not FIFO.                                            *)
FlushApproval(c) ==
    /\ pc[c] \in {"approving", "dispatching"}
    /\ lock[on[c]] = {}
    /\ lock' = [lock EXCEPT ![on[c]] = {c}]
    /\ mine' = [mine EXCEPT ![c] = Lifecycle!Approved(@)]
    /\ pc' = [pc EXCEPT ![c] =
                IF @ = "approving" THEN "committing" ELSE "mailing"]
    /\ \/ /\ Fifo
          /\ queue' = Posted(queue, nextId, on[c])
          /\ nextId' = nextId + 1
       \/ (~Fifo \/ Faults) /\ UNCHANGED <<queue, nextId>>
    /\ UNCHANGED <<rowVars, on, loaded, dlq, held, requests, mailVars>>

(* _send_email ended: the session goes on to flush r.                      *)
MailEnds(s, r) ==
    /\ pc[s] = "mailing"
    /\ mine' = [mine EXCEPT ![s] = r]
    /\ pc' = [pc EXCEPT ![s] = "flushing"]
    /\ UNCHANGED <<rowVars, on, loaded, lock, queueVars, requests>>

(* Mutant of MailAccepted: sent_at is left out.                            *)
MailAcceptedUndated(s) ==
    /\ s \in Mailers
    /\ MailEnds(s, [mine[s] EXCEPT !.status = "sent"])
    /\ emails' = [emails EXCEPT ![on[s]] = @ + 1]
    /\ UNCHANGED <<logged, failures, unrecorded>>

(* _send_email returned: the server took the mail.                         *)
MailAccepted(s) ==
    /\ s \in Mailers
    /\ MailEnds(s, Lifecycle!Delivered(mine[s]))
    /\ emails' = [emails EXCEPT ![on[s]] = @ + 1]
    /\ UNCHANGED <<logged, failures, unrecorded>>

(* Without SMTP_HOST _send_email logs the mail and returns, and send()     *)
(* marks the notification sent all the same.                               *)
MailLogged(s) ==
    /\ s \notin Mailers
    /\ MailEnds(s, Lifecycle!Delivered(mine[s]))
    /\ logged' = [logged EXCEPT ![on[s]] = @ + 1]
    /\ UNCHANGED <<emails, failures, unrecorded>>

(* Mutant of MailRaised: a delivery given up on becomes "cancelled", the   *)
(* value of NotificationStatus nothing sets.                               *)
MailRaisedCancelling(s) ==
    /\ s \in Mailers
    /\ MailEnds(s, [Lifecycle!Bounced(mine[s]) EXCEPT !.status = "cancelled"])
    /\ failures' = [failures EXCEPT ![on[s]] = @ + 1]
    /\ UNCHANGED <<emails, logged, unrecorded>>

(* _send_email raised.  An error after the server took the message (a lost *)
(* reply, the 15 s timeout) looks like any other.                          *)
MailRaised(s) ==
    /\ s \in Mailers
    /\ MailEnds(s, Lifecycle!Bounced(mine[s]))
    /\ failures' = [failures EXCEPT ![on[s]] = @ + 1]
    /\ \/ UNCHANGED <<emails, unrecorded>>
       \/ /\ Faults
          /\ emails' = [emails EXCEPT ![on[s]] = @ + 1]
          /\ unrecorded' = [unrecorded EXCEPT ![on[s]] = @ + 1]
    /\ UNCHANGED logged

(* The UPDATE waits for the row lock.                                      *)
FlushSend(s) ==
    /\ pc[s] = "flushing"
    /\ lock[on[s]] \subseteq {s}
    /\ lock' = [lock EXCEPT ![on[s]] = {s}]
    /\ pc' = [pc EXCEPT ![s] = "committing"]
    /\ UNCHANGED <<rowVars, on, loaded, mine, queueVars, requests, mailVars>>

(* Mutant of Written: the UPDATE writes every column.                      *)
WrittenWhole(cur, read, new) == new

Written(cur, read, new) == Lifecycle!Merged(cur, read, new)

(* The sessions whose mail of n went out and is not on record yet.         *)
Recording(n) ==
    {s \in Sessions : /\ pc[s] \in {"flushing", "committing"}
                      /\ on[s] = n
                      /\ mine[s].status = "sent"}

(* The session ends and forgets its row.                                   *)
Close(s, stage) ==
    /\ pc' = [pc EXCEPT ![s] = stage]
    /\ loaded' = [loaded EXCEPT ![s] = Lifecycle!Fresh]
    /\ mine' = [mine EXCEPT ![s] = Lifecycle!Fresh]
    /\ UNCHANGED on

(* The row lock has kept the row as the UPDATE found it, so the write may  *)
(* be applied when it becomes visible.  A worker goes on to delete its     *)
(* message, whether the mail went out or not.                              *)
Commit(s) ==
    /\ pc[s] = "committing"
    /\ db' = [db EXCEPT ![on[s]] = Written(@, loaded[s], mine[s])]
    /\ past' = [past EXCEPT ![on[s]] = @ \cup {db'[on[s]]}]
    /\ overtaken' =
         overtaken \cup {n \in {on[s]} : loaded[s] # db[n]}
    /\ lock' = [lock EXCEPT ![on[s]] = {}]
    /\ Close(s, IF s \in Workers THEN "acking" ELSE "idle")
    /\ UNCHANGED <<queueVars, requests, mailVars>>

(* The process dies, or a statement, the commit or the deletion raises:    *)
(* the session rolls back, and a worker's message stays in the queue.      *)
Abort(s) ==
    /\ Faults
    /\ pc[s] # "idle"
    /\ lock' = [lock EXCEPT ![on[s]] = @ \ {s}]
    /\ unrecorded' =
         [unrecorded EXCEPT ![on[s]] = IF s \in Recording(on[s])
                                       THEN @ + 1 ELSE @]
    /\ Close(s, "idle")
    /\ UNCHANGED <<rowVars, queueVars, requests, emails, logged, failures>>

-----------------------------------------------------------------------------
(* A worker receives m; SQS may hand out a message again whose deletion it *)
(* has not seen.                                                           *)
Receive(w, m) ==
    /\ pc[w] = "idle"
    /\ m.receives < MaxReceive
    /\ InTurn(queue, m)
    /\ queue' = Received(queue, m)
    /\ held' = [held EXCEPT ![w] = m.id]
    /\ UNCHANGED <<rowVars, lock, dlq, nextId, requests, mailVars>>

(* Mutant of WorthSending: the worker skips the status check.              *)
WorthSendingAny(n) == db[n].retries < MaxRetries

WorthSending(n) == db[n].status \in Sendable /\ db[n].retries < MaxRetries

WorkerTakes(w, m) ==
    /\ WorthSending(m.subject)
    /\ Receive(w, m)
    /\ Load(w, m.subject, "mailing")

(* The handler returns early - status not sendable, or retries used up -   *)
(* and the poll loop deletes the message all the same.                     *)
WorkerSkips(w, m) ==
    /\ ~WorthSending(m.subject)
    /\ Receive(w, m)
    /\ pc' = [pc EXCEPT ![w] = "acking"]
    /\ UNCHANGED <<on, loaded, mine>>

DeleteMessage(w) ==
    /\ pc[w] = "acking"
    /\ queue' = Deleted(queue, held[w])
    /\ pc' = [pc EXCEPT ![w] = "idle"]
    /\ UNCHANGED <<rowVars, on, loaded, mine, lock, dlq, nextId, held,
                   requests, mailVars>>

(* SQS gives up on a message received MaxReceive times and not deleted.    *)
Redrive(m) ==
    /\ m.receives = MaxReceive
    /\ \A w \in Workers : pc[w] = "idle" \/ held[w] # m.id
    /\ queue' = queue \ {m}
    /\ dlq' = dlq \cup {m.id}
    /\ UNCHANGED <<rowVars, sessionVars, lock, nextId, held, requests,
                   mailVars>>

-----------------------------------------------------------------------------
SessionStep(s) ==
    \/ s \in Clients /\ FlushApproval(s)
    \/ MailAccepted(s)
    \/ MailLogged(s)
    \/ MailRaised(s)
    \/ FlushSend(s)
    \/ Commit(s)
    \/ s \in Workers /\ DeleteMessage(s)

Poll(w) == \E m \in queue : WorkerTakes(w, m) \/ WorkerSkips(w, m)

Next ==
    \/ \E c \in Clients, n \in Notifications :
          BeginApprove(c, n) \/ BeginDispatch(c, n) \/ BeginSend(c, n)
    \/ \E s \in Sessions : SessionStep(s) \/ Abort(s)
    \/ \E w \in Workers : Poll(w)
    \/ \E m \in queue : Redrive(m)

Spec == Init /\ [][Next]_vars

(* A started session goes on (the mail call has a timeout), a worker keeps *)
(* polling and the redrive policy is applied; nobody has to send requests. *)
Fairness ==
    /\ \A s \in Sessions : WF_vars(SessionStep(s))
    /\ \A w \in Workers : WF_vars(Poll(w))
    /\ WF_vars(\E m \in queue : Redrive(m))

FairSpec == Spec /\ Fairness

-----------------------------------------------------------------------------
TypeOK ==
    /\ db \in [Notifications -> Row]
    /\ pc \in [Sessions -> Stages]
    /\ on \in [Sessions -> Notifications]
    /\ loaded \in [Sessions -> Row]
    /\ mine \in [Sessions -> Row]
    /\ lock \in [Notifications -> SUBSET Sessions]
    /\ queue \subseteq Message
    /\ dlq \subseteq Nat
    /\ nextId \in Nat
    /\ held \in [Workers -> Nat]
    /\ requests \in Nat
    /\ emails \in [Notifications -> Nat]
    /\ logged \in [Notifications -> Nat]
    /\ failures \in [Notifications -> Nat]
    /\ unrecorded \in [Notifications -> Nat]
    /\ past \in [Notifications -> SUBSET Row]
    /\ overtaken \subseteq Notifications

(* Mails of n that left send() as delivered, or reached the server.        *)
Mails(n) == emails[n] + logged[n]

(* A row that is "sent" has its sent_at, and a row with a sent_at had its  *)
(* mail accepted by the server or, where SMTP_HOST is unset, logged,       *)
(* whatever stale session wrote last and whatever rolled back              *)
(* (notification_service.py, send and _send_email).                        *)
SentWasMailed ==
    \A n \in Notifications :
        /\ db[n].status = "sent" => db[n].sentAt
        /\ db[n].sentAt => Mails(n) > 0

(* retry_count is computed from the value a session read, so concurrent    *)
(* failures may be lost from it; it never counts one that did not happen,  *)
(* and a failed notification has at least one on record                    *)
(* (notification_service.py, send).                                        *)
RetriesAreFailures ==
    \A n \in Notifications :
        /\ db[n].retries <= failures[n]
        /\ db[n].status = "failed" => db[n].retries > 0

(* The register tells the truth about deliveries and failures, whatever    *)
(* overlaps and fails (NotificationService.send).                          *)
RegisterIsTruthful == SentWasMailed /\ RetriesAreFailures

(* A delivery once on record stays on record: sent_at is only ever set, by *)
(* UPDATEs that leave out the columns a session did not change, so not     *)
(* even a stale session erases it (notification_service.py, send).         *)
DeliveriesStayOnRecord ==
    [][\A n \in Notifications : db[n].sentAt => db'[n].sentAt]_vars

(* A sent notification leaves "sent" only by the commit of a session that  *)
(* read the row before the delivery was committed: approve() and send()    *)
(* refuse what they read as sent, so only overlapping sessions can reopen  *)
(* a notification.                                                         *)
OnlyStaleSessionsReopen ==
    [][\A n \in Notifications :
          db[n].status = "sent" /\ db'[n].status # "sent"
            => \E s \in Sessions : /\ pc[s] = "committing"
                                   /\ on[s] = n
                                   /\ loaded[s].status # "sent"]_vars

(* Every mail is accounted for, whatever overlaps and fails.  Those that   *)
(* are not on record were sent by a session that is about to record them,  *)
(* or that saw an error or ended instead; any other is on record.  And     *)
(* only one is, a dispatch being "a one-shot action"                       *)
(* (app/core/rate_limit.py), unless a session wrote into a row it had not  *)
(* read (notification_service.py, send; notification_worker.py).           *)
MailsAreExact ==
    \A n \in Notifications :
        LET open == unrecorded[n] + Cardinality(Recording(n))
        IN  /\ Mails(n) >= open
            /\ Mails(n) > open <=> db[n].sentAt
            /\ n \notin overtaken => Mails(n) <= open + 1

(* Each commit is an approval, a delivery or a failure decided on a row    *)
(* the notification has had; where it is not the present row only the      *)
(* decision's columns are merged into it, and the notification counts as   *)
(* overtaken (notification_service.py, approve and send; database.py).     *)
FollowsLifecycle == Lifecycle!Spec

(* On a FIFO queue, an approval whose message the worker has not received  *)
(* is acted on: the notification leaves "approved", its retries are used   *)
(* up, or a message lands in the dead-letter queue, where the alarm sees   *)
(* it (notification_worker.py, poll_queue; terraform sqs, redrive_policy). *)
ApprovalIsActedOn ==
    \A n \in Notifications :
        db[n].status = "approved" /\ Waiting(queue, n)
        ~> (db[n].status # "approved" \/ db[n].retries >= MaxRetries
              \/ dlq # {})

(* The worker "sends approved regulatory notifications"                    *)
(* (app/workers/notification_worker.py): no approved notification with     *)
(* retries left stays approved for ever.                                   *)
ApprovedIsSent ==
    \A n \in Notifications :
        db[n].status = "approved"
        ~> (db[n].status # "approved" \/ db[n].retries >= MaxRetries)

(* "Retry logic (max 3 retries via SQS)" (README.md): a delivery that      *)
(* failed is tried again until it succeeds or the retries are used up.     *)
FailureIsRetried ==
    \A n \in Notifications :
        db[n].status = "failed"
        ~> (db[n].status = "sent" \/ db[n].retries >= MaxRetries)
=============================================================================
