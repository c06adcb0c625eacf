# LBRO: specifications, model checking and proofs

LBRO is an incident-response platform: a FastAPI backend on PostgreSQL
(`src/backend/app`), two SQS queues with a worker process, a log agent that
ships security events (`src/agent/lbro_agent.py`), SDKs, a frontend and a
deployment. This directory models the parts of it whose behaviour depends on
the order in which sessions, threads, messages and failures happen. TLC checks
the models on small instances; TLAPS proves the most important properties for
every value of the constants.

Every module is translated from the code; `PROJECT.json` ("map") names the lines
each definition stands for.

## The system

### How it runs

* One **database session per request** (`database.py`, `get_db`) and one per
  queue message (`workers/main.py`, `poll_queue`). Isolation is READ COMMITTED,
  no query locks a row (`with_for_update` does not occur), `expire_on_commit` and
  `autoflush` are off. A session therefore decides on the row as it read it, its
  UPDATE names only the columns it changed, and it holds the row lock from the
  flush to the commit.
* `get_db` commits after the endpoint returned, and with the FastAPI version
  in use **after the response was sent**. Any exception rolls back, the one
  that reports an error to the client included.
* **Messages are posted before the commit** (`incident_service.py:71`,
  `notification_service.py:201`), and an SQS error is logged and swallowed
  (`sqs_service.py`, `send_message`). `send_message` fills in the message group and the
  deduplication id only when the queue's URL holds "fifo", and passes `None` otherwise
  (`sqs_service.py:31-32`). The pinned botocore refuses `None` for a string, and the
  queues of `terraform/modules/sqs` are standard ones: **on the queues this repository
  deploys no message is ever posted**, every approval rests on somebody's `send` and no
  incident is classified by the worker.
* `_send_email` **logs the mail and returns when `SMTP_HOST` is unset**
  (`notification_service.py:228-231`), and the notification is marked sent, with a
  `sent_at`, all the same.
* The **worker** polls each queue in one loop: receive, handle, delete. A handler
  that returns normally gets its message deleted, whatever it decided; one that
  raises leaves it to the visibility timeout and, after three receives, to the
  dead-letter queue (`terraform/modules/sqs/main.tf`).
* Each process also keeps state of its own: the rate limiter's windows under a
  lock (`rate_limit.py:14`), and the bus that hands events to the queues of the open
  streams (`events.py:357`). The image starts **two processes** (`docker/Dockerfile.api:41-42`,
  `--workers 2`) and production runs two such containers, so a client that goes round gets a
  multiple of the limit, and a viewer never gets what another process ingests.
* Schema revisions run one transaction per Alembic command (`migrations/env.py`),
  while old code or scripts may be writing. The **downgrade of 006** makes `s3_key` and
  `s3_bucket` NOT NULL again (`006_evidence_postgres_storage.py:35-37`), while every upload
  since stores NULL there: one such row, and no downgrade gets past it.
* The **agent** runs a watcher thread per file, which follows the file by its name,
  a flush thread, and a last flush in the main thread once it is stopped; they
  share one ring buffer. `_ship_batch` catches `HTTPError`, `URLError` and `OSError`
  only (`lbro_agent.py:373-406`): an `http.client` exception, or a 2xx answer that is not
  JSON, **ends the flush thread for good**, with the batch it had in hand.
* The **SDKs** retry a request whose answer is late, so two sessions of the API may
  be at work on the same events.

### Inventory

| Component | State | Operations | What is hard | What makes it correct |
|---|---|---|---|---|
| Incidents (`incident_service`, `routers/incidents`, `incident_worker`) | status, severity, category, review flag, isolation mark, closed_at | create, transition, reopen, PATCH, delete; classify, contain | sessions that overlap, message before commit, redelivery, crash between containment and classification | status follows the table; verdict and isolation have a prediction behind them; an incident whose message waits is classified |
| Regulatory notifications (`notification_service`, `routers/notifications`, `notification_worker`) | status, sent_at, error, retry_count | draft, approve, dispatch, send; worker's send | a mail server awaited inside a session, duplicates, errors that hide a delivery | the register tells the truth; nothing is mailed twice or forgotten |
| Queues (`sqs_service`) | messages, receive counts, dead letters | send, receive, delete, redrive | posts that always fail on standard queues, redelivery, redrive | composed with the two above |
| Project membership and invitations (`project_service`, `invitation_service`, `core/project_access`, `routers/platform`, `routers/users`) | accounts, members with roles, invitations | add, change, remove, assign; invite, accept, decline, cancel; delete account | check-then-write on sets of rows | a project keeps an admin; the owner stays one; one pending invitation per address |
| Project lifecycle and keys (`project_service`, `routers/projects`, `routers/platform`, `dependencies.get_project_from_api_key`) | status, API key, incidents that refer to the project | create, archive, delete, rotate the key; ingest with the key | row locks against inserts of children, answers before commits, a deletion that has not loaded every child | the key shown last is the one on record; no incident refers to a project that is gone |
| Log agent and event ingestion (`agent/lbro_agent.py`, `routers/events`) | ring, batch in hand, attempts; events | push, drain, ship, retry, stop; ingest | three kinds of threads, timeouts against late answers, answer before commit, exceptions that end a thread | no event mislaid, none in two hands, bounded duplicates, no hang |
| File tailing and parsing (`agent/lbro_agent.py`) | current inode, open file and position | stat, reopen, read a line, parse | rotation between two steps, lines half written | text in order, none twice, skipped at openings only; no event the API turns down |
| Client SDKs (`sdk/python`, `sdk/nodejs`, `sdk_generator`) | attempts of a call | validate, send, retry | late answers, answer before commit, an event the database refuses | what is called accepted is stored or was rolled back; copies only for attempts that went unheard |
| Live stream (`routers/events`) | one bounded queue per viewer | publish, subscribe, list, deliver, disconnect | publishing before the commit, subscribing after the greeting, full queues, a bus per process | a viewer gets the events its process takes for its project in order, less what its queue dropped or was in flight |
| Case file: evidence vault, notes, regulation (`evidence_service`, `routers/incidents`, `compliance_service`) | files with their custody chains, notes, registered regulations | upload, view, download, verify, discard; add, edit, erase a note; amend, delete the incident | foreign keys against the cascade of a deletion, answers before commits | nothing outlives its incident; every answered access is on the chain |
| Compliance register (`compliance_service`, `routers/compliance`) | records with deadlines, obligations with scores, assessments | generate, mark met, dashboard; upsert, PATCH, assess | look up then insert, three queries for one board, stale rows | one row per control; score and status agree; a board that adds up |
| Score and reports (`security_score`, `dashboard`, `reports`, `project_service`) | none (counts of the others) | score page, report, overview, summary, audit | one formula in three copies | the pages do not contradict each other |
| Accounts and sign-on (`auth_service`, `dependencies`, `routers/users`, `routers/platform`) | role, active, API key, failed count, lock; tokens; audit rows | register, login, refresh, logout, rotate; create, update, disable, delete, re-role, reset | sessions that overlap, rows flushed and then rolled back by the answer | a refusal leaves no trace; changes of roles are audited; a super admin remains |
| RBAC (`core/rbac`) | none (a table) | `has_permission` and the guards of `dependencies` | - | composed with the accounts |
| Rate limiting (`middleware/rate_limit`) | a queue of times per client, path and process | let in, turn away, purge, answer's header | window edges, the purge, several processes | at most the limit per process in any window |
| Schema migrations (`migrations/versions`) | tables, keys, the CHECK on roles, roles, owner and members | upgrade, downgrade, writes in between, `create_all` | any path through 14 revisions | every reachable database upgrades to head, and downgrades as far as its rows let it |

The rest (classifier and training, infrastructure probes and demo data, the
legacy `app/worker/`, frontend, deployment) is listed with reasons in
`PROJECT.json`.

## The modules

```
NotificationLifecycle   UnitOfWork, SqsQueue   IncidentStateMachine
            \             /          \            /
         NotificationDelivery     IncidentHandling        ProjectMembership    EventShipping
                |                         |                         |                 |
        MC... and ...Proofs       MC... and ...Proofs       MC... and ...Proofs  MC... and ...Proofs

               UnitOfWork                       Rbac   UnitOfWork   ApiProcesses
                   |                              \    /    \         /      \
 CaseFile  ComplianceRegister  Posture  Migr.   Accounts  ProjectLife  RateLimit  LiveStream  LogTail  SdkCalls
     \            |              |       /          \          \           |          |         |       /
      +-----------+-- MCRegisters ------+            +----------+----- MCFrontDoor ----+---------+------+
                          |                                                |                (TrafficProofs)
                   RegistersProofs                                  FrontDoorProofs ---------------+
```

**UnitOfWork** has what two sessions can do to a row: `Flushed` is the row an UPDATE
of the changed columns leaves. **SqsQueue** has messages, posting, receiving and
deleting; `InTurn`, the order of first receipts; and `Waiting`, a message no consumer
has received yet. Its constant `Fifo` says which kind of queue the URLs name.

**NotificationLifecycle** is the abstract promise. `Decide` takes a decision on the row as
it stands: a notification is approved only from `pending`, delivered or failed only
from what is not `sent`. `Overtake` takes one on a row of the `past`, and merges into the
present row no more than the columns this decision changes (`Merged`); the notification
is `overtaken` from then on. One that is not is delivered once and never changes
again. **NotificationDelivery** is the system: `BeginApprove`, `BeginDispatch` and
`BeginSend` are the SELECT and the guards of the three requests; `FlushApproval` posts
the message, where it can, and writes; `MailAccepted`, `MailRaised` and `MailLogged` are the
outcomes of `_send_email` (an error may hide a delivery, and without `SMTP_HOST` nothing
is mailed); `FlushSend`, `Commit` and `Abort` end the session; `WorkerTakes` and
`WorkerSkips` are the worker's guards; `DeleteMessage` and `Redrive` end a message. A
worker that crashes or whose handler raises is `Abort`: its message stays. `Recording`
has the sessions whose mail is not on record yet, and `unrecorded` counts the mails
whose session saw an error or ended.

**IncidentStateMachine** is the abstract promise for incidents: `Move` along the table of
`transition_status` with its rule for `closed_at`, `Contain`, `Amend` (a PATCH) and
`Remove`, each decided on the row as it stands, and `Overtake`, any of them decided on a
row that has changed since. **IncidentHandling** is the system with the same sessions
and queue; the classifier's verdict is any prediction.

**ProjectMembership** has one project: its owner, members and invitations. A
request reads the access and rows it needs (`Ask...`), may count admins or look
for pending invitations in a later statement (`Check`), writes (`Flush`) and
commits. Each of these is a step of its own, because each is an await in the
code. Unique constraints are applied at the flush (`Collide`); the partial unique
index of migration 014 is one of them, and `OnePendingInvitation` holds because of
it and not because of the look-up.

**EventShipping** numbers events in the order of their pushes. The ring is then the
interval `first .. next - 1`, and a batch is an interval too. `Push`, `Drain`
(under the ring's lock, hence atomic), `Leave`, `Post`, `PostCompressed`,
`NetworkFails`, `Refused` are the agent; `Answer`, `Commit` and `Rollback` the
session of the batch endpoint, which answers before it commits. `Failed` retries
or gives the batch up; `Over` lets the thread go on; `Dies` is an exception that
`_ship_batch` does not catch, which ends the thread with its batch. When the main thread
is done the process ends, and with it whatever the flush thread held.
`EventsAreAcceptable` of LogTail says why no event of the agent's batches is rejected
on its own.

**LogTail** is a watcher at the other end of the ring. Files are numbered as they
appear at the path, which stands for their inodes, and text is counted in
half-lines. `Stat` and `OpenAtEnd` are two steps: the file that is opened may not
be the one that was seen. `WriteText`, `MoveAway` and `MakeFile` are the application
and the rotation. `ReadLine` yields a line, or the half that is there, and
`EventOf` is what the parsers make of each kind of line.

**SdkCalls** is one call of a client library: `Begin` validates, `Send`, `TurnedAway` and
`HearNothing` are attempts, `Settle` retries or gives up by the rules of the library.
Each attempt that reaches the API opens a session: `Answer` and `Reject` are the two
endpoints, `StoreBatch` and `VoidBatch` the commit after the answer. An event the
database refuses breaks the session (`Sound`): the events after it are reported as
errors, those before it as accepted, and the commit fails.

**CaseFile** has one incident and what hangs on it. `Ask...` reads, `Insert`,
`WriteNote`, `Amend` and `Delete` flush - a child's INSERT waits for a deletion in
progress and fails once its parent is gone, a DELETE waits for whoever holds a
child - and `CommitCase` or `LoseCommit` follows after the answer. An incident with
compliance records cannot be deleted: the session sets their `incident_id` to
NULL, which the column refuses. `Applying` is the rule book of
`generate_obligations`.

**ComplianceRegister** has the records of incidents with the dashboard's three
queries (`CountTotal`, `CountMet`, `CountOverdue`), and the obligations of a project:
`UpsertFinds`, `UpsertMisses` and `UpsertFails` are the three outcomes of the look-up,
`Patch` the update by id, `CommitUpdate` and `CommitInsert` the end of the session,
`Assess` the assessment with its score.

**Posture** has the numbers the views count, in every combination, and the views
as operators: `Score`, `ReportScore`, `QuickScore` with their grades and
recommendations, `Summary`, `Overview`, `Audit`.

**Migrations** has the database as a record and each revision as an operator from
database to database; `Upgrade` and `Downgrade` run any number of them at once, or
not at all when one fails. `CreateAll`, `AssignRole`, `AddProject`, `Upload` and
`DeleteIncident` are what the application and its scripts do in between; `keyless` says that
some evidence has no key in S3, which the downgrade of 006 does not get past.

**Rbac** is the table. **Accounts** has accounts, tokens and sessions. `Enter` is the
authentication, the permission check and the SELECT of a handler, `CommitSession`
and `FailSession` its end, `Written` the columns that remain, `AfterException` what
is left when the answer is an exception. **ProjectLife** has projects and their
keys: `Read`, `FlushWork` (the answer with the new key), `CommitWork`, `FailWork` for
managers; `Resolve`, `IngestEvent`, `CommitFeed`, `FailFeed` for requests with a key.
**ApiProcesses** has the processes that serve the API. **RateLimit** is the sliding
window over a bounded clock, one queue for each client at each process; `LetIn` holds
the purge that ends a dispatch. **LiveStream** has the buses: an event goes into the bucket
of its project at the process that took it, and to the viewers connected there;
`Publish` before `EndIngest`, `Connect` before `Subscribe`.

**MCRegisters** checks four modules and **MCFrontDoor** six. These share no
variables, so nothing is gained by interleaving them: `turn` picks at the start
which of them moves, and the reachable states are the union, not the product.

### Environments

Sessions overlap everywhere, as nothing in the code keeps them apart. What holds only
of a row whose every writer had read it as it stood is stated for just these rows:
`overtaken` names the others, those that some session wrote that had read another row,
and `amended` those a PATCH wrote.

* `Fifo` is the kind of the two queues. FALSE is what the repository deploys: every post
  raises. TRUE is the branch of `send_message` for URLs that hold "fifo", which an
  operator may configure and under which alone messages exist; what is said of messages -
  `ApprovalIsActedOn`, `WaitingIsClassified`, whatever a worker does - is said of it. Its
  queue lets more happen than SQS does: a redelivery need not wait for the messages
  before it. The theorems hold for both.
* `Mailers` are the sessions whose process has `SMTP_HOST` set.
* `Faults` lets sessions abort, SQS be unreachable, mail errors hide a delivery, networks
  fail and threads die. In the modules without it sessions may always fail
  (`CommitsFail` in CaseFile).

## The runs

| Run | Question | Bounds |
|---|---|---|
| `notification_overlap` | What does the register still guarantee when requests, the worker and redeliveries overlap, everything may fail and one process has no mail server? It tells the truth, every mail is accounted for, only stale sessions reopen, and every commit is a step of the life cycle | 1 notification, 2 clients with a mail server, 1 worker without, 3 requests, 2 receives, 2 retries |
| `notification_queue` | Is an approval acted on whose message waits in a FIFO queue, behind another's, while sessions die over it? | 2 notifications, 1 client, 1 worker, 2 requests, 2 receives, 2 retries |
| `notification_retry` (violated) | Is a failed delivery tried again, on the queues the repository deploys? | 1 request, no faults |
| `notification_lost` (violated) | Is every approved notification sent there? | 1 request, no faults |
| `incident_overlap` | Isolation has a cause; only stale sessions leave the table; a waiting message leads to a classification | 1 incident, 2 clients, 1 worker, 3 requests, 2 receives, PATCH to `closed`, faults |
| `incident_table` | The state machine is implemented; where nobody wrote by a row they had not read, verdicts are whole and `closed_at` follows the status until the worker contains the incident | 1 incident, 1 client, 2 workers, 4 requests, 2 receives, PATCH to `closed` |
| `membership_overlap` | The owner stays admin; one invitation per address is pending; the last admin goes and an acceptance is undone only by overtaken requests or account deletions | owner and 2 users, 2 requests at once, 3 in all |
| `shipping_overlap` | No event mislaid, none in two hands, copies at most one per attempt, the ring is drained unless an exception took the flush thread | 1 file, ring 3, batches of 2, threshold 2, 1 retry, 4 events, 2 sessions at once |
| `shipping_compressed` (violated) | Is a batch that was taken from the ring stored when nothing fails? | 3 events, no faults |
| `registers` | Case file: nothing outlives its incident, every answer is on record. Register: the board overcounts by what was born meanwhile at most; controls stay single or doubled; only stale edits tear score from status. Views: the pages agree within 25, 5 and 20 points. Schema: every history can be upgraded to head, and downgraded from below 012 as far as 006 or, without keyless evidence, to nothing | 2 files, 1 note, 3 sessions, 3 requests; 2 records; 1 control, 2 rows, 2 editors, 4 edits; 4 incidents, 3 records, 6 users; 2 people, 3 writes, all 14 revisions |
| `migrations_roles` (violated) | Can a super admin be stored after revision 010? | 2 people, 3 writes |
| `front_door` | Refusals leave no trace; role changes are audited; the last super admin is not dismissed but by overlap; no window lets in more than the limit per process; streams are faithful within a process; keys and origins are sound; the sources of events - watcher and SDKs - yield in order and tell the truth | 2 people, 2 sessions, 3 requests; 2 processes; 1 client, limit 2, window 2, purge 3, 5 s; 2 projects, 1 viewer, 2 senders, queue of 1, 2 events; 1 project, 1 incident, 2 managers, 2 feeds, 4 sessions of managers; 2 files of 3 half-lines; 1 retry, batches up to 2 and one too large |

Why the bounds are enough to be interesting: two clients and a worker are three
sessions on one row, the fewest in which a message's handler and two requests
overtake each other; two receives let a message be delivered twice and then
redriven; two notifications put one message behind another; four requests create, move,
close and reopen an incident, with two classifications in between. In
`membership_overlap` two admins besides the owner and an account deletion reach
a project with two admins and no owner, from which both can go. Four events on a
ring of three overwrite the oldest, a full batch and a single event are both
shipped, a thread retries while the session of its first attempt is still at
work, and both threads have requests out at once. In `registers` three sessions are
an upload, a reader and a deletion at once; two editors double a control, and the
remaining edits then fail on it or tear a row; four incidents reach the cap of
three of the score's deductions (45, 24, 10), and three records and six users those of the
others (15, 20); the schema's state space is complete but for the three writes, enough for
an upload, its deletion and a second upload. In
`front_door` one clock of five seconds holds a full window, its expiry to the
second, and a purge; a client goes round two
processes, and a viewer is connected to one of them while both take events; a queue of
one drops with two events; four sessions
are enough for two rotations and a deletion, or an archival, to overlap; two files
of a line and a half are rotated between any two steps of the tailer and read in
pieces; one retry makes two sessions store the same batch, and a batch of two has an
event before and after the one that is refused. Deadlock is not
checked: all these systems may rest (no request, nothing to ship, an agent that
stopped).

Symmetry is used in `notification_overlap` (clients), `incident_table` (workers),
`membership_overlap`, `registers` and `front_door`, whose properties are invariants,
action properties and refinements of safety specifications and name no member of a
symmetric set.

### Fairness

Weak fairness of `SessionStep`, `Poll`, `Redrive` (notifications, incidents): a
started coroutine is resumed (the mail call has a timeout of 15 s), the poll
loop never ends (`workers/main.py`, `main`) and SQS applies the redrive policy.
Weak fairness of the agent's threads: the flush thread wakes after its interval, an
attempt ends (`urlopen` has a timeout) and the server works on its sessions - as long as
the thread lives, and `RingIsDrained` names its death as the other way out.
Nobody is obliged to send a request, stop the agent, crash or not crash.
The liveness properties hold in spite of faults, or name the dead-letter queue as
the other way out. The modules of `registers` and `front_door` state no fairness and
no liveness: each of their sessions is a request that may also fail.

### What the violated runs show

* **A failed mail is not retried** (`notification_retry`): `send()` turns the error
  into a status and returns, and nothing sends the notification again: on the queues
  deployed no worker knows of it, and on a FIFO queue its message is deleted.
  README.md:195 promises "retry logic (max 3 retries via SQS)".
* **An approved notification is not sent** (`notification_lost`): the post of its message
  is refused for the `None` of the two FIFO parameters, the error is swallowed, and the
  notification stays approved until somebody calls `send`.
  LBRO_PROJECT_DOCUMENTATION.md:898 has the worker send approved notifications.
* **Compressed batches are never stored** (`shipping_compressed`): nothing in the
  backend undoes the compression; with the defaults every batch of 50 events
  and more gets 400 for each attempt and is dropped.
* **No super admin fits the CHECK on roles** (`migrations_roles`): revision 010 says
  "Add super_admin to the users.role CHECK constraint (PostgreSQL)" and does not
  touch it.

Other divergences met while modelling, which no run pursues:

* On a FIFO queue a message may be received before the commit that makes it true
  (`notification_service.py:201`, `incident_service.py:71`): the worker skips it and it is
  deleted. `ApprovalIsActedOn` and `WaitingIsClassified` state what holds, of messages that
  wait.
* A row may be marked sent, with a `sent_at`, whose mail was only logged
  (`notification_service.py:228-231`): `RegisterIsTruthful` counts it as such (`logged`).
* One exception that `_ship_batch` does not catch ends the shipping of an agent that runs
  on (`lbro_agent.py:342-345`, `:373-406`): `FlusherDied`, and the batch among the `lost`.
* The rate limiter is one per process (`rate_limit.py:14`), and "Redis-backed in
  production" (`rate_limit.py:1`) is no code: `WindowNeverExceeded` bounds what all
  let in. The live stream misses what another process ingests (`events.py:357`):
  `Elsewhere` in `MissesAreExplained`.
* The downgrade of 006 fails on rows the application has written since
  (`006_evidence_postgres_storage.py:35-37`, `evidence_service.py:42-43`): `HistoryHolds`
  has downgrades end there.
* PATCH passes the transition table, against "enforced transitions"
  (LBRO_FINAL_AUDIT_REPORT.md:326): `OnlyStaleSessionsLeaveTheTable` leaves PATCH out.
* Two project admins can remove each other, and two super admins disable each
  other, in spite of the checks against it: `OnlyRacesTakeTheLastAdmin`,
  `LastSuperAdminIsNotDismissed` state what holds.
* LBRO_FINAL_AUDIT_REPORT.md:317 (a containment after closing leaves `closed_at`;
  `ClosedAtTracksUntilContained` states what holds instead), :1041 (no request clears
  the review flag), :1044 (closure is allowed from more states than `recovering`).
* LBRO_PROJECT_DOCUMENTATION.md:1599 ("exactly-once delivery").
* `ProjectService.delete` speaks of a cascade in the database, while
  `incidents.project_id` is ON DELETE SET NULL: incidents the deletion has not
  loaded stay without a project (`origin` "orphan" in ProjectLife).
* A rotated key is "immediately invalidated" only once the session commits, after
  the answer; requests that resolved the old key go on.
* `_quick_score` "mirrors" the score page within the 5 and 20 points of `PagesAgree`.
* What is flushed before the exception that answers a request is rolled back: the
  count of failed logins and the lock (`auth_service.py:101`), the audit row of a 403
  (`dependencies.py:220`), the status `expired` of an invitation
  (`invitation_service.py:163`).
* "Partial success is possible — invalid events are skipped" (`events.py:137`) holds for
  unknown types and severities. One event the database refuses takes the whole batch
  with it, although the answer is 202 and counts the events before it as accepted
  (`AcceptedIsKept` has them among the `voided`).
* `tail_file` promises "new lines" and "Follows log rotation": a line is yielded in two
  pieces when its second half is late, and what is written before a new file is
  opened, or after the old one was last read, is passed over (`OnlyOpeningsSkip`).
* The Node SDK documents "Max retries on 5xx/network error" and retries every status but
  401 and 422; the Go and Java SDKs do not compile.
* `IncidentAction` in `incident_worker.py:67` is built with a keyword its column does not
  have, so its details are dropped.

## The proofs

`tlapm` checks every leaf. Assumptions are the named `ASSUME`s of the modules (sets of
clients and workers are disjoint, bounds are natural numbers, a ring and a batch hold
at least one event, the sessions of a case or of the notifications, the processes of
the API and the rows of a register are finite sets, no project is called "gone",
Nobody is not one of the people) and nothing else: no bound on users, sessions, events
or retries is used beyond its type.

**NotificationDeliveryProofs**
* `TypeCorrect`.
* `RegisterCorrect` (`RegisterIsTruthful`). It is not inductive: a commit writes what
  a session computed earlier. `RegisterHonest` says the same of every session's row in
  hand (`SessionHonest`); the row a commit leaves mixes columns of two rows, and
  `WrittenHonest` shows that honesty survives the mixture.
* `SessionsFollowLifecycle` (`FollowsLifecycle`): the refinement, with sessions that
  overlap. `Decided` is the invariant: the row a session read is one the notification has
  had, and what it holds at each stage is a decision on that row (`StageHonest`). A
  commit is then `Decide` or `Overtake`, as the row it read is the present one or not.
* `MailsCorrect` (`MailsAreExact`), with overlap, faults and processes without a mail
  server. `Accounted` says of every notification that its mails less those that are open
  (`Open`: `unrecorded`, and the sessions of `Recording`) are on record, and are one at
  most while nobody overtook it, since its row then has the status `sent` (`AccountOf`), which
  neither requests nor the worker send again. Each step moves a mail from one of these to
  another: the cardinality of `Recording` changes by one.
* `DeliveriesAreKept` (`DeliveriesStayOnRecord`) and `OnlyOverlapReopens`
  (`OnlyStaleSessionsReopen`): every handler refuses what it reads as sent
  (`SentIsRefused`), so a commit that reopens a notification read it before the
  delivery, and `Flushed` leaves a `sent_at` its session did not touch.

**IncidentStateMachineProofs**, **IncidentHandlingProofs**
* `TableTracksClosure` of the abstract machine, PATCH, containment and overtaking
  included: what is neither overtaken nor amended keeps `closed_at` in step with the
  status (`InStep`).
* `TypeCorrect`; `IsolationCorrect` (`IsolationHasCause`, by `EverythingCaused`, the same
  statement for rows in hand).
* `SessionsDecide`, the invariant behind the rest: a session has in hand a decision on a
  row the incident has had, it holds the lock between flush and commit, and the verdict
  it is about to write is one prediction's unless it read an incident that had been
  overtaken. `VerdictsAreWhole` (`VerdictIsWhole`) is a part of it.
  `HandlingFollowsStateMachine` (`FollowsStateMachine`) is the refinement, where
  `CommitFollows` makes a commit a `Move`, `Contain`, `Amend` or `Overtake`;
  `ContainmentAloneBreaksClosure` (`ClosedAtTracksUntilContained`) is `TableTracksClosure`
  carried over by it.
* `OnlyStaleSessionsBreakTheTable` (`OnlyStaleSessionsLeaveTheTable`): what a session decided
  is a step of the table from the status it read, so a commit that leaves the table
  replaces another status than that.

**ProjectMembershipProofs**
* `TypeCorrect`; `OwnerCorrect` (`OwnerKeepsAdmin`, by `OwnerIsSafe`: no request in
  progress that would change or remove the owner); `LastAdminIsLostToRaces`
  (`OnlyRacesTakeTheLastAdmin`, an action property, by `RowsAreHeld`).
* `InvitationsAreUnique` (`OnePendingInvitation`), by `AddressesAreHeld`: a flushed
  invitation holds the key of its address until its session ends.
* `AcceptanceIsLostToRaces` (`OnlyRacesUndoAcceptance`): a second acceptance writes
  what is there, and a cancellation reads the status first.

**EventShippingProofs**
* `TypeCorrect`, by `Drained`: what is in hand or at the API has left the ring.
* `HandsAreDisjoint` (`NoEventInTwoHands`): only `Drain` puts events into a hand.
* `NothingIsMislaid` (`EventsAreAccountedFor`). The difficult step is an answer,
  after which the thread forgets its batch: `Requested` says that the session
  it waits for holds that very batch and has not answered, that sessions are
  told apart, and that no two threads wait for one; `IdleHands` that a drain
  overwrites no batch. A thread that dies (`Dies`) leaves its batch to the `lost`.
* `CopiesAreCounted` (`CopiesAreAttempts`), by `SentByAttempts`: the copies of an event
  and the sessions that still hold it are together no more than the attempts its
  batch has had - a finite set that loses a session for each copy it gains.

**TrafficProofs** is about the four components without a database.
* `LimiterTypeCorrect` and `WindowCorrect` (`WindowNeverExceeded`), for every limit,
  window and number of processes. `LimiterInv` says that a queue is a suffix of all
  times let in, and that whatever the suffix leaves out has left the window
  (`Latest`); and that of those times any two that are `Limit` apart in order are more
  than a window apart in time (`Spread`), from which the count in any window follows
  by placing it between two of them (`WindowIsShort`). What all processes let in is a
  union of as many sets of at most `Limit` (`EvenShares`).
* `StreamTypeCorrect` and `StreamCorrect` (`StreamIsFaithful`), for every queue size and
  number of processes, viewers and senders. `ViewersSound` says that what a viewer has been sent
  and what waits in its queue are together, in increasing order, exactly what it is
  due (`InOrder`), and that the history it listed misses only events in flight or
  of another process since (`Known`, `Elsewhere`).
* `CallTypeCorrect` and `CallsCorrect` (`CallersAreToldTheTruth`, the SDKs' half of
  `SourcesAreFaithful`) for every number of retries. `CallInv`: an attempt is unheard,
  waiting or heard (`CallPaced`); copies and open sessions are attempts (`CopiesCounted`);
  every session that answered gave the same answer, as validation depends on the
  events alone (`AnswersAgree`); events are stored together or not at all (`RowsAgree`).
* `TailTypeCorrect`, and `TailCorrect` (`TailIsFaithful`, the watcher's half) by
  `TailInv`: no piece lies beyond the tailer's position, nor beyond what is written,
  so that reopening the same file at its end is harmless (`BehindTheTailer`); and the
  position is an opening or the end of a piece (`AtAnEnd`).

**RegistersProofs**
* `CaseTypeCorrect`; `NothingOutlives` and `AnswersAreAccountedFor`, both from
  `CaseInv`. A deletion empties the tables at its commit, so what must be excluded
  is a session that commits later: `DeletionIsAlone` (a deletion that has flushed is
  the only session that has) and `HoldSound` (who has flushed found its parent,
  except for the erasure of a note, which needs none). The count of answers moves
  from the sessions (`Unwritten`, a finite set) to the chain by one, which for an
  upload needs the chain to be empty before: `UploadSound` and `ChainsNeedFiles`.
* `RegisterTypeCorrect`. `EditSound`, the invariant of the sessions, says that an
  update has a row to write, which never goes away, and that without a given
  score it holds a torn row only if it read one.
* `ControlsCorrect` (`ControlsStayAsTheyAre`): a session that would double a settled
  control must have looked for it when there was none.
* `SplitRowsAreStale` (`OnlyStaleEditsSplitRows`): on the row it read, `Rewritten`
  leaves exactly what the session holds.
* `BoardCorrect` (`BoardNeverOvercounts`), by `BoardInv`: while the parts are still to be
  counted, the records present are the total that was read and those born since.
* `PostureTypeCorrect`, by `PostureInv` (the counts add up to what the scope holds), and
  `PagesCorrect` (`PagesAgree`): the agreement of the views needs nothing but the types,
  and is arithmetic on the deductions, each with its cap (`DeductionFacts`).
* `MigrationsTypeCorrect` and `HistoryCorrect` (`HistoryHolds`), for any users and any
  number of writes and commands. `InOrder` says of a database that its CHECK and its
  rows are those of its revision's number, that the keys are hashed from 012 on and
  owners are members from 013 on, and that it is either *clean* - tables, keys and key
  form are exactly those its number stands for - or *spoilt*: `create_all` has built
  `project_invitations`, which revision 014 never passes. One revision up or down
  keeps this (`UpInOrder`, `DownInOrder`; `UploadInOrder` for evidence) and finds a
  clean database open (`UpOpen`, `DownOpen`), which for the downgrade of 006 takes
  evidence with keys, so that `CleanDescent` ends at 0 or at 6; `Born` turns tables
  into numbers, so that "what refers to it came with it or later" is a comparison
  (`KeyFacts`). A command is a recursive function over the revisions. That it exists,
  and that a shorter run is a part of a longer one, is proved by least counterexample
  (`Upwards`, `Downwards`), not taken from the library, whose induction theorems take
  operators; this is what makes `UpgradedSteps` and `DowngradedSteps` usable.
* `PartsImplemented` and `TypeCorrect` of MCRegisters, as below.

**FrontDoorProofs**
* `AccountTypeCorrect`; `RefusalsAreForgotten` (`RefusalsLeaveNoTrace`, by `SessionSound`:
  no session holds a count or a lock either); `RoleChangesCorrect`
  (`RoleChangesAreAudited`: where no role is audited, `Flushed` leaves the role alone).
* `DismissalsNeedAChange` (`LastSuperAdminIsNotDismissed`): nobody may disable or delete
  themselves on the platform's pages, so as long as the actor's row is the one that
  authenticated them, they remain. Requests that manage users or change roles, and actors
  whose row has changed since, are excused by the property.
* `ProjectTypeCorrect`; `ProjectsCorrect` (`ProjectsAreSound`), by `ProjectInv`: at most one
  session has flushed on a project (`OneHolder`), a rotation that has holds the key
  that was shown last (`WorkSound`), and the project of a request that has inserted
  lives and is not being re-keyed or deleted (`FeedSound`).
* `PartsImplemented`: every behaviour of MCFrontDoor is one of each component's own
  specification, since a step of the whole is a step of one part and a stutter of the
  others. With it what is proved of the components holds where TLC checks them:
  `TypeCorrect` (`TypeOK`) and `SourcesCorrect` (`SourcesAreFaithful`).

**Only model-checked**: the liveness properties, as fairness and ENABLED are out of the
prover's reach: `ApprovalIsActedOn`, `WaitingIsClassified`, `RingIsDrained`. Every
invariant, every action property and both refinements of the passing runs have a
theorem, for sessions that overlap and, where the module has them, for faults.

## Not modelled

Inside the modelled components: templates and PDF rendering, list queries and
free-text columns, access checks for incidents, names and slugs (a PATCH of a
project's name always makes a new slug), expiry of invitations (no clock), the
hashes of evidence (a file has bytes or none), passwords and signatures,
truncation of a log in place and the reuse of an inode, the configuration of the
agent, and incidents created from events. Columns, defaults
and indexes of the schema that no revision stumbles over.

Components left out, with their reasons, are in `PROJECT.json`: the classifier and
its training are numeric code; `core/rate_limit.py` is imported by nothing;
the legacy worker is started by one test only; the Go and Java SDKs do not
compile; frontend, infrastructure and deployment hold no state the server
relies on.

## Plan

What would come next, most important first:

1. **Incidents from events**: the classification and the incident an ingested event
   may open, composing `EventShipping` with `IncidentHandling` and `ProjectLife`.
2. **Expiry**: invitations and tokens over a bounded clock.
3. **Proofs**: the enabling conditions behind the three liveness properties as
   invariants (a waiting message has a consumer that is not stuck, a batch in hand has
   a next step).
4. **Liveness of sessions** in `CaseFile` and `ProjectLife` under fair commits: a
   deletion that waits is answered in the end.
