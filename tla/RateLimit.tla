------------------------------ MODULE RateLimit ------------------------------
(***************************************************************************)
(* The sliding window of app/middleware/rate_limit.py: per client and path *)
(* a queue of the times at which requests were let in, changed under one   *)
(* lock, read once more without it when the response is ready.  Queues and *)
(* lock are a process's own: nothing is shared by the processes of the API, *)
(* and each lets in as much as if it were the only one.                    *)
(***************************************************************************)
EXTENDS ApiProcesses, Naturals, Sequences

CONSTANTS
    Clients,         \* client and path
    Limit,           \* requests let in per window
    Window,          \* 60 s
    PurgeInterval,   \* 300 s
    MaxClock         \* bound: seconds in a behaviour

ASSUME WindowLimits ==
    Limit \in Nat \ {0} /\ {Window, PurgeInterval, MaxClock} \subseteq Nat

(* A client's requests at one of the processes.                            *)
Keys == Processes \X Clients

VARIABLES
    clock,      \* time.monotonic()
    windows,    \* windows[k]: the queue of k; keys come as they are used
    purged,     \* purged[p]: when the last purge of process p ran
    letIn,      \* letIn[k]: every time a request of k was let in
    advised     \* advised[k]: X-RateLimit-Remaining of the latest answer

limiterVars == <<clock, windows, purged, letIn, advised>>

LimiterInit ==
    /\ clock = 0
    /\ windows = << >>
    /\ purged = [p \in Processes |-> 0]
    /\ letIn = [k \in Keys |-> <<>>]
    /\ advised = [k \in Keys |-> Limit]

Tick ==
    /\ clock < MaxClock
    /\ clock' = clock + 1
    /\ UNCHANGED <<windows, purged, letIn, advised>>

Queue(k) == IF k \in DOMAIN windows THEN windows[k] ELSE <<>>

(* Mutant of Recent: what is exactly one window old is dropped.            *)
RecentOpen(q) ==
    LET Old(i) == clock - q[i] >= Window
        n == CHOOSE n \in 0..Len(q) : /\ \A i \in 1..n : Old(i)
                                      /\ n < Len(q) => ~Old(n + 1)
    IN SubSeq(q, n + 1, Len(q))

(* The queue once the times outside the window are popped from its left,   *)
(* up to the first that is inside it.                                      *)
Recent(q) ==
    LET Old(i) == clock - q[i] > Window
        n == CHOOSE n \in 0..Len(q) : /\ \A i \in 1..n : Old(i)
                                      /\ n < Len(q) => ~Old(n + 1)
    IN SubSeq(q, n + 1, Len(q))

(* The keys a purge of process p deletes: those with an empty queue.       *)
Stale(p, ws) == {k \in DOMAIN ws : k[1] = p /\ ws[k] = <<>>}

Kept(p, ws) == [k \in DOMAIN ws \ Stale(p, ws) |-> ws[k]]

(* dispatch of a request of k that is let in, up to call_next.             *)
LetIn(k) ==
    LET q == Recent(Queue(k))
        ws == [j \in DOMAIN windows \cup {k} |->
                  IF j = k THEN Append(q, clock) ELSE windows[j]]
        due == clock - purged[k[1]] > PurgeInterval
    IN /\ Len(q) < Limit
       /\ windows' = IF due THEN Kept(k[1], ws) ELSE ws
       /\ purged' = IF due THEN [purged EXCEPT ![k[1]] = clock] ELSE purged
       /\ letIn' = [letIn EXCEPT ![k] = Append(@, clock)]
       /\ UNCHANGED <<clock, advised>>

(* 429: the expired times are dropped all the same.                        *)
TurnAway(k) ==
    /\ Len(Recent(Queue(k))) >= Limit
    /\ windows' = [j \in DOMAIN windows \cup {k} |->
                      IF j = k THEN Recent(Queue(k)) ELSE windows[j]]
    /\ UNCHANGED <<clock, purged, letIn, advised>>

(* The response of a request that was let in; the queue may have grown.    *)
Respond(k) ==
    /\ k \in DOMAIN windows
    /\ advised' = [advised EXCEPT ![k] =
                      IF Len(windows[k]) < Limit THEN Limit - Len(windows[k]) ELSE 0]
    /\ UNCHANGED <<clock, windows, purged, letIn>>

LimiterNext ==
    \/ Tick
    \/ \E k \in Keys : LetIn(k) \/ TurnAway(k) \/ Respond(k)

LimiterSpec == LimiterInit /\ [][LimiterNext]_limiterVars

-----------------------------------------------------------------------------
LimiterTypeOK ==
    /\ clock \in 0..MaxClock
    /\ DOMAIN windows \subseteq Keys
    /\ \A k \in DOMAIN windows : windows[k] \in Seq(0..clock)
    /\ purged \in [Processes -> 0..clock]
    /\ letIn \in [Keys -> Seq(0..clock)]
    /\ advised \in [Keys -> 0..Limit]

(* The requests of k let in within 60 s from t on, ends included: the      *)
(* places of their times; and those of a client at any process.            *)
WithinOne(k, t) ==
    {i \in DOMAIN letIn[k] : t <= letIn[k][i] /\ letIn[k][i] <= t + Window}

Within(c, t) ==
    UNION {{<<p, i>> : i \in WithinOne(<<p, c>>, t)} : p \in Processes}

(* No window of 60 s, wherever it starts and whether or not a purge or a    *)
(* refusal dropped times in between, sees more than the limit of a client   *)
(* let in by one process - nor, by all of them, more than that limit times  *)
(* the number of processes, for nothing keeps a client from going round     *)
(* (RateLimitMiddleware.dispatch, _windows).                                *)
WindowNeverExceeded ==
    \A c \in Clients, t \in 0..clock :
        /\ \A p \in Processes : Cardinality(WithinOne(<<p, c>>, t)) <= Limit
        /\ Cardinality(Within(c, t)) <= Cardinality(Processes) * Limit
=============================================================================
