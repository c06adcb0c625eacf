------------------------------ MODULE SdkCalls ------------------------------
(***************************************************************************)
(* One call of a client library that sends events: the Python and Node     *)
(* SDKs (sdk/python, sdk/nodejs), which check events before they send them *)
(* and retry, and the client the dashboard generates for a project         *)
(* (app/services/sdk_generator.py), which does neither.  The other end is  *)
(* POST /events and POST /events/batch (app/routers/events.py): a request  *)
(* has a session of its own, which commits after the answer was sent, so   *)
(* the attempts of one call may be at work at once.                        *)
(*                                                                         *)
(* Calls share nothing with each other, so one of them is modelled.        *)
(***************************************************************************)
EXTENDS Naturals, Sequences

CONSTANTS
    CallRetries,   \* max_retries of the SDKs
    BatchLimit     \* events a batch may hold, 1000

ASSUME CallLimits == CallRetries \in Nat /\ BatchLimit \in Nat \ {0}

VARIABLES
    library,    \* the client library of the call
    batched,    \* is it a batch?
    body,       \* the events, by what becomes of them
    call,       \* "new", "ready", "waiting", "told" or "failed"
    attempts,   \* attempts so far
    unheard,    \* attempts the caller got no answer to
    counted,    \* indices the answer called accepted
    served,     \* sessions of the API at work on an attempt
    rows,       \* rows[i]: rows of the table that hold event i
    voided      \* indices answered as accepted and rolled back

callVars == <<library, batched, body, call, attempts, unheard, counted,
              served, rows, voided>>
request == <<library, batched, body>>
stored == <<rows, voided>>

Libraries == {"python", "nodejs", "generated"}

(* An event is as the API wants it, of a type or severity it does not      *)
(* know, or holds a value its column does not take.                        *)
Events == {"fine", "unknown", "oversized"}

Indices == DOMAIN body

Bodies == UNION {[1..n -> Events] : n \in 0 .. BatchLimit + 1}

-----------------------------------------------------------------------------
CallInit ==
    /\ library \in Libraries
    /\ batched \in BOOLEAN
    /\ body \in Bodies
    /\ ~batched => Len(body) = 1
    /\ call = "new"
    /\ attempts = 0
    /\ unheard = 0
    /\ counted = {}
    /\ served = {}
    /\ rows = [i \in Indices |-> 0]
    /\ voided = {}

(* The SDKs refuse what they know the API will, and answer an empty batch  *)
(* themselves.                                                             *)
Validates == library # "generated"

Unsendable ==
    \/ Len(body) > BatchLimit
    \/ \E i \in Indices : body[i] = "unknown"

Begin ==
    /\ call = "new"
    /\ call' = IF Validates /\ Len(body) = 0 THEN "told"
               ELSE IF Validates /\ Unsendable THEN "failed"
               ELSE "ready"
    /\ UNCHANGED <<request, attempts, unheard, counted, served, stored>>

(* What an SDK tries again.  Node does so for every status but these two,  *)
(* Python for those of 500 and more.                                       *)
Retried(status) ==
    CASE library = "python"    -> status \in {"500", "network"}
      [] library = "nodejs"    -> status \notin {"401", "422"}
      [] library = "generated" -> FALSE

(* An attempt, the n-th, came to nothing.                                  *)
Settle(status, n) ==
    call' = IF Retried(status) /\ n <= CallRetries THEN "ready" ELSE "failed"

Send ==
    /\ call = "ready"
    /\ attempts' = attempts + 1
    /\ served' = served \cup
          {[attempt |-> attempts', answered |-> FALSE, accepted |-> {}]}
    /\ call' = "waiting"
    /\ UNCHANGED <<request, unheard, counted, stored>>

(* No connection, a key that was rotated, or the rate limiter.             *)
TurnedAway ==
    /\ call = "ready"
    /\ attempts' = attempts + 1
    /\ \E status \in {"network", "401", "429"} : Settle(status, attempts')
    /\ UNCHANGED <<request, unheard, counted, served, stored>>

(* No answer in time, or a broken one - which Python's SDK does not retry  *)
(* when it breaks off in the middle - while the API may still be at work.  *)
HearNothing ==
    /\ call = "waiting"
    /\ unheard' = unheard + 1
    /\ Settle("network", attempts) \/ (library = "python" /\ call' = "failed")
    /\ UNCHANGED <<request, attempts, counted, served, stored>>

-----------------------------------------------------------------------------
Awaited(s) == call = "waiting" /\ s.attempt = attempts

(* The handler raised, or the schema refused the request: the session was  *)
(* rolled back before the answer.                                          *)
Refuse(s, status) ==
    /\ served' = served \ {s}
    /\ IF Awaited(s) THEN Settle(status, attempts) ELSE UNCHANGED call
    /\ UNCHANGED <<request, attempts, unheard, counted, stored>>

(* The first event the database refuses breaks the session, and all that   *)
(* come after it fail with it.                                             *)
Sound(i) == \A j \in 1..i : body[j] # "oversized"

(* Events of a batch the endpoint reports as accepted.                     *)
AcceptedOf == {i \in Indices : body[i] = "fine" /\ Sound(i)}

AcceptedSize == Len(body) \in 1..BatchLimit

Answer(s) ==
    /\ ~s.answered
    /\ AcceptedSize
    /\ batched \/ body[1] = "fine"
    /\ served' = (served \ {s}) \cup
          {[s EXCEPT !.answered = TRUE, !.accepted = AcceptedOf]}
    /\ IF Awaited(s) THEN call' = "told" /\ counted' = AcceptedOf
                     ELSE UNCHANGED <<call, counted>>
    /\ UNCHANGED <<request, attempts, unheard, stored>>

Reject(s) ==
    /\ ~s.answered
    /\ \/ ~AcceptedSize /\ Refuse(s, "422")
       \/ /\ ~batched
          /\ \/ body[1] = "unknown" /\ Refuse(s, "422")
             \/ body[1] = "oversized" /\ Refuse(s, "500")

(* The database, or the process, fails before the answer.                  *)
Break(s) == ~s.answered /\ Refuse(s, "500")

(* Mutant of StoreBatch: a broken session keeps what it held.              *)
StoreRest(s) ==
    /\ s.answered
    /\ rows' = [i \in Indices |->
                  IF i \in s.accepted THEN rows[i] + 1 ELSE rows[i]]
    /\ served' = served \ {s}
    /\ UNCHANGED <<request, call, attempts, unheard, counted, voided>>

(* get_db commits, if no event has broken the session.                     *)
StoreBatch(s) ==
    /\ s.answered
    /\ Sound(Len(body))
    /\ rows' = [i \in Indices |->
                  IF i \in s.accepted THEN rows[i] + 1 ELSE rows[i]]
    /\ served' = served \ {s}
    /\ UNCHANGED <<request, call, attempts, unheard, counted, voided>>

(* The commit fails, of a broken session always.                           *)
VoidBatch(s) ==
    /\ s.answered
    /\ voided' = voided \cup s.accepted
    /\ served' = served \ {s}
    /\ UNCHANGED <<request, call, attempts, unheard, counted, rows>>

CallNext ==
    \/ Begin \/ Send \/ TurnedAway \/ HearNothing
    \/ \E s \in served : \/ Answer(s) \/ Reject(s) \/ Break(s)
                         \/ StoreBatch(s) \/ VoidBatch(s)

CallSpec == CallInit /\ [][CallNext]_callVars

-----------------------------------------------------------------------------
CallTypeOK ==
    /\ library \in Libraries /\ batched \in BOOLEAN
    /\ body \in Seq(Events)
    /\ call \in {"new", "ready", "waiting", "told", "failed"}
    /\ attempts \in 0 .. CallRetries + 1
    /\ unheard \in 0 .. attempts
    /\ counted \subseteq Indices /\ voided \subseteq Indices
    /\ served \subseteq [attempt : 1..attempts, answered : BOOLEAN,
                         accepted : SUBSET Indices]
    /\ rows \in [Indices -> Nat]

(* What the caller was told is accepted is stored, about to be, or was     *)
(* rolled back after the answer (events.py, ingest_event_batch).           *)
AcceptedIsKept ==
    \A i \in counted :
        \/ rows[i] > 0
        \/ i \in voided
        \/ \E s \in served : s.answered /\ i \in s.accepted

(* The valid events of a request are stored together, and not at all with  *)
(* an event the database refuses among them.                               *)
StoredTogether ==
    \A i \in Indices :
        rows[i] > 0 => /\ body[i] = "fine"
                       /\ \A j \in Indices :
                             /\ body[j] # "oversized"
                             /\ body[j] = "fine" => rows[j] = rows[i]

(* An event is stored more than once only for attempts the caller got no   *)
(* answer to, so that an error the caller does see never hides a copy      *)
(* (lbro_sdk.py and lbro-sdk.js, _request).                                *)
CopiesAreUnheard == \A i \in Indices : rows[i] <= unheard + 1

CallersAreToldTheTruth == AcceptedIsKept /\ StoredTogether /\ CopiesAreUnheard
=============================================================================
