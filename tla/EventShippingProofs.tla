------------------------- MODULE EventShippingProofs -------------------------
(***************************************************************************)
(* Proofs about module EventShipping: its type invariant, that no event is *)
(* in two hands, that every event is accounted for, and that an event has  *)
(* no more rows than attempts were made at it.                             *)
(***************************************************************************)
EXTENDS EventShipping, FiniteSetTheorems, TLAPS

Pc == {"idle", "ready", "awaiting", "done"}

(* What is in hand or at the API has left the ring.                        *)
Drained ==
    /\ first <= next /\ next <= MaxEvents + 1
    /\ \A t \in Shippers : In(batch[t]) \subseteq 1 .. first - 1
    /\ \A g \in ingests : In(g.events) \subseteq 1 .. first - 1

(* A thread between two batches has none, and waits for nothing.           *)
IdleHands ==
    \A t \in Shippers :
        pc[t] = "idle" => batch[t] = NoBatch /\ awaited[t] = 0

(* What a thread waits for is its own request, not answered yet.           *)
Awaits(t) ==
    \E g \in ingests : /\ g.id = awaited[t]
                       /\ g.events = batch[t]
                       /\ ~g.answered

Requested ==
    /\ \A g, h \in ingests : g.id = h.id => g = h
    /\ \A t, u \in Shippers :
          awaited[t] # 0 /\ awaited[t] = awaited[u] => t = u
    /\ Running => \A t \in Shippers : awaited[t] = 0 \/ Awaits(t)

-----------------------------------------------------------------------------
(* How an attempt ends, for the thread that made it. *)

LEMMA NoBatchHoldsNothing == NoBatch \in Batch /\ In(NoBatch) = {}
  BY DEF NoBatch, Batch, In

LEMMA OverEffect ==
    ASSUME TypeOK, NEW t \in Shippers, Over(t) \/ Dies(t)
    PROVE  /\ pc' \in [Shippers -> Pc]
           /\ batch' = [batch EXCEPT ![t] = NoBatch]
           /\ batch' \in [Shippers -> Batch]
           /\ tries' \in [Shippers -> 0 .. MaxRetries]
           /\ awaited' = [awaited EXCEPT ![t] = 0]
           /\ awaited' \in [Shippers -> Sessions \cup {0}]
  BY NoBatchHoldsNothing, Sizes DEF Sizes, Over, Dies, TypeOK, Pc

LEMMA FailedEffect ==
    ASSUME TypeOK, NEW t \in Shippers, Failed(t)
    PROVE  /\ pc' \in [Shippers -> Pc]
           /\ \/ batch' = batch /\ lost' = lost
              \/ /\ batch' = [batch EXCEPT ![t] = NoBatch]
                 /\ lost' = lost \cup In(batch[t])
           /\ batch' \in [Shippers -> Batch]
           /\ tries' \in [Shippers -> 0 .. MaxRetries]
           /\ awaited' = [awaited EXCEPT ![t] = 0]
           /\ awaited' \in [Shippers -> Sessions \cup {0}]
<1>1. CASE tries[t] < MaxRetries
  BY <1>1, Sizes DEF Sizes, Failed, TypeOK, Pc
<1>2. CASE ~(tries[t] < MaxRetries)
  BY <1>2, OverEffect DEF Failed
<1> QED
  BY <1>1, <1>2

(* A thread's batch, after another one's is replaced.                      *)
LEMMA HandsAfter ==
    ASSUME TypeOK, NEW t \in Shippers, NEW b, batch' = [batch EXCEPT ![t] = b]
    PROVE  \A u \in Shippers : batch'[u] = IF u = t THEN b ELSE batch[u]
  BY DEF TypeOK

LEMMA CommitTypes ==
    ASSUME TypeOK, NEW g \in ingests, Commit(g)
    PROVE  copies' \in [Events -> Nat]
<1>1. \A e \in Events : copies[e] \in Nat
  BY DEF TypeOK
<1> QED
  BY <1>1 DEF Commit

LEMMA AnswerTypes ==
    ASSUME TypeOK, NEW g \in ingests, Answer(g)
    PROVE  /\ ingests' \subseteq Ingest
           /\ \A h \in ingests' : \/ h \in ingests
                                  \/ /\ h.id = g.id
                                     /\ h.events = g.events
                                     /\ h.answered = TRUE
<1>1. g \in Ingest
  BY DEF TypeOK
<1>2. [g EXCEPT !.answered = TRUE] \in Ingest
  BY <1>1 DEF Ingest
<1>3. /\ [g EXCEPT !.answered = TRUE].id = g.id
      /\ [g EXCEPT !.answered = TRUE].events = g.events
      /\ [g EXCEPT !.answered = TRUE].answered = TRUE
  BY <1>1 DEF Ingest
<1> QED
  BY <1>2, <1>3 DEF Answer, TypeOK

-----------------------------------------------------------------------------
(* Types: numbers of events stay between 1 and the last one pushed, because *)
(* only what has left the ring is ever in hand, at the API or lost.         *)

TypeInv == TypeOK /\ Drained

LEMMA TypeInductive == TypeInv /\ [Next]_vars => TypeInv'
<1> SUFFICES ASSUME TypeInv, [Next]_vars PROVE TypeInv'
  OBVIOUS
<1> USE Sizes DEF Sizes
<1>a. TypeOK /\ Drained
  BY DEF TypeInv
<1>c. /\ first \in Nat \ {0} /\ next \in Nat \ {0} /\ MaxEvents \in Nat
      /\ first <= next /\ next <= MaxEvents + 1
  BY <1>a DEF Drained, TypeOK
<1>b. ASSUME NEW t \in Shippers PROVE In(batch[t]) \subseteq Events
  BY <1>a DEF Drained, TypeOK, Events
<1>1. CASE Stop
  BY <1>1, <1>a DEF Stop, TypeInv, TypeOK, Drained, shipping, server
<1>2. ASSUME NEW f \in Files, Push(f) PROVE TypeInv'
  <2>a. ASSUME next - first < Capacity PROVE lost' \subseteq Events
    BY <1>2, <1>a, <2>a DEF Push, TypeOK
  <2>b. ASSUME ~(next - first < Capacity) PROVE lost' \subseteq Events
    <3>1. first \in Events
      BY <1>c, <1>2, <2>b DEF Push, Events
    <3> QED
      BY <1>2, <1>a, <2>b, <3>1 DEF Push, TypeOK
  <2>0. lost' \subseteq Events
    BY <2>a, <2>b
  <2>1. TypeOK'
    BY <1>2, <1>a, <2>0 DEF Push, TypeOK, shipping, server
  <2>2. first' >= first /\ first' <= next' /\ next' <= MaxEvents + 1
    BY <1>2, <1>a DEF Push, TypeOK, Drained, Events
  <2>3. Drained'
    BY <1>2, <1>a, <2>2 DEF Push, TypeOK, Drained, shipping, server
  <2> QED
    BY <2>1, <2>3 DEF TypeInv
<1>3. ASSUME NEW t \in Shippers, Drain(t) PROVE TypeInv'
  <2> DEFINE upto == IF first + BatchSize < next
                     THEN first + BatchSize ELSE next
  <2>1. /\ upto \in Nat \ {0} /\ first <= upto /\ upto <= next
        /\ first' = upto
    BY <1>3, <1>a DEF Drain, TypeOK
  <2>2. /\ batch' = [batch EXCEPT ![t] = [from |-> first, upto |-> upto]]
        /\ pc' = [pc EXCEPT ![t] = "ready"]
        /\ UNCHANGED <<stopped, late, next, tries, awaited, server, lost>>
    BY <1>3 DEF Drain
  <2>3. [from |-> first, upto |-> upto] \in Batch
    BY <2>1, <1>a DEF Batch, TypeOK
  <2>4. TypeOK'
    BY <1>a, <2>1, <2>2, <2>3 DEF TypeOK, server
  <2>5. In([from |-> first, upto |-> upto]) \subseteq 1 .. upto - 1
    BY <2>1, <1>a DEF In, TypeOK
  <2>6. \A u \in Shippers :
           batch'[u] = IF u = t THEN [from |-> first, upto |-> upto]
                       ELSE batch[u]
    BY <2>2, <1>a DEF TypeOK
  <2> HIDE DEF upto
  <2>7. \A u \in Shippers : In(batch'[u]) \subseteq 1 .. first' - 1
    BY <2>1, <2>5, <2>6, <1>a DEF Drained, TypeOK
  <2>8. Drained'
    BY <2>1, <2>2, <2>7, <1>a DEF Drained, TypeOK, server
  <2> QED
    BY <2>4, <2>8 DEF TypeInv
<1>4. ASSUME NEW t \in Shippers, Leave(t) PROVE TypeInv'
  BY <1>4, <1>a DEF Leave, TypeInv, TypeOK, Drained, server
<1>5. ASSUME NEW t \in Shippers, Post(t) PROVE TypeInv'
  <2>1. PICK i \in Sessions :
           /\ ingests' = ingests \cup
                 {[id |-> i, events |-> batch[t], answered |-> FALSE]}
           /\ awaited' = [awaited EXCEPT ![t] = i]
    BY <1>5 DEF Post
  <2>2. [id |-> i, events |-> batch[t], answered |-> FALSE] \in Ingest
    BY <1>a DEF TypeOK, Ingest
  <2>3. TypeOK'
    BY <1>5, <1>a, <2>1, <2>2 DEF Post, TypeOK, agentRest
  <2>4. Drained'
    BY <1>5, <1>a, <2>1 DEF Post, Drained, agentRest
  <2> QED
    BY <2>3, <2>4 DEF TypeInv
<1>6. ASSUME NEW t \in Shippers, Failed(t), UNCHANGED <<agentRest, copies>>,
             ingests' \subseteq ingests
      PROVE  TypeInv'
  <2>1. TypeOK'
    BY <1>6, <1>a, <1>b, FailedEffect DEF TypeOK, Pc, agentRest
  <2>2. \A u \in Shippers : batch'[u] = batch[u] \/ batch'[u] = NoBatch
    BY <1>6, <1>a, FailedEffect, HandsAfter
  <2>3. Drained'
    BY <1>6, <1>a, <2>2, NoBatchHoldsNothing DEF Drained, agentRest
  <2> QED
    BY <2>1, <2>3 DEF TypeInv
<1>7. ASSUME NEW t \in Shippers, Over(t) \/ Dies(t), UNCHANGED agentRest,
             lost' \subseteq Events, copies' \in [Events -> Nat],
             ingests' \subseteq Ingest,
             \A h \in ingests' : \E g \in ingests : h.events = g.events
      PROVE  TypeInv'
  <2>1. TypeOK'
    BY <1>7, <1>a, OverEffect DEF TypeOK, Pc, agentRest
  <2>2. \A u \in Shippers : batch'[u] = batch[u] \/ batch'[u] = NoBatch
    BY <1>7, <1>a, OverEffect, HandsAfter
  <2>3. Drained'
    BY <1>7, <1>a, <2>2, NoBatchHoldsNothing DEF Drained, agentRest
  <2> QED
    BY <2>1, <2>3 DEF TypeInv
<1>8. ASSUME NEW t \in Shippers, PostCompressed(t) \/ NetworkFails(t)
      PROVE  TypeInv'
  BY <1>6, <1>8 DEF PostCompressed, NetworkFails, server
<1>9. ASSUME NEW t \in Shippers, Refused(t) \/ Dies(t) PROVE TypeInv'
  <2>1. lost' \subseteq Events /\ copies' \in [Events -> Nat]
    BY <1>9, <1>a, <1>b DEF Refused, Dies, TypeOK, server
  <2>2. ingests' = ingests /\ ingests \subseteq Ingest
    BY <1>9, <1>a DEF Refused, Dies, TypeOK, server
  <2>3. Over(t) \/ Dies(t)
    BY <1>9 DEF Refused
  <2>4. UNCHANGED agentRest
    BY <1>9 DEF Refused, Dies
  <2> QED
    BY <1>7, <2>1, <2>2, <2>3, <2>4
<1>10. ASSUME NEW g \in ingests, Answer(g) PROVE TypeInv'
  <2>1. /\ ingests' \subseteq Ingest
        /\ \A h \in ingests' : \E k \in ingests : h.events = k.events
    BY <1>10, <1>a, AnswerTypes
  <2>2. lost' \subseteq Events /\ copies' \in [Events -> Nat]
    BY <1>10, <1>a DEF Answer, TypeOK
  <2>3. CASE \E t \in Shippers : Over(t)
    BY <1>7, <1>10, <2>1, <2>2, <2>3 DEF Answer
  <2>4. CASE UNCHANGED shipping
    BY <1>10, <1>a, <2>1, <2>4
       DEF Answer, TypeInv, TypeOK, Drained, shipping, agentRest
  <2> QED
    BY <1>10, <2>3, <2>4 DEF Answer
<1>11. ASSUME NEW g \in ingests, Commit(g) PROVE TypeInv'
  BY <1>11, <1>a, CommitTypes
     DEF Commit, TypeInv, TypeOK, Drained, shipping, agentRest
<1>12. ASSUME NEW g \in ingests, Rollback(g) PROVE TypeInv'
  <2>1. CASE \E t \in Shippers : Failed(t)
    BY <1>6, <1>12, <2>1 DEF Rollback
  <2>2. CASE /\ UNCHANGED shipping
             /\ lost' = IF g.answered THEN lost \cup In(g.events) ELSE lost
    <3>1. In(g.events) \subseteq 1 .. first - 1
      BY <1>a DEF Drained
    <3>2. In(g.events) \subseteq Events
      BY <3>1, <1>c DEF Events
    <3> QED
      BY <1>12, <1>a, <2>2, <3>2
         DEF Rollback, TypeInv, TypeOK, Drained, shipping, agentRest
  <2> QED
    BY <1>12, <2>1, <2>2 DEF Rollback
<1>13. CASE UNCHANGED vars
  BY <1>13, <1>a
     DEF vars, TypeInv, TypeOK, Drained
<1> QED
  BY <1>1, <1>2, <1>3, <1>4, <1>5, <1>8, <1>9, <1>10, <1>11, <1>12, <1>13
     DEF Next, Attempt, Serve

LEMMA TypeInitial == Init => TypeInv
<1> SUFFICES ASSUME Init PROVE TypeInv
  OBVIOUS
<1> USE Sizes DEF Sizes
<1>1. \A t \in Shippers : batch[t] = NoBatch
  BY DEF Init
<1>2. TypeOK
  <2>1. batch \in [Shippers -> Batch]
    BY NoBatchHoldsNothing DEF Init
  <2>2. pc \in [Shippers -> Pc] /\ tries \in [Shippers -> 0 .. MaxRetries]
    BY DEF Init, Pc
  <2>3. copies \in [Events -> Nat]
    BY DEF Init
  <2>4. awaited \in [Shippers -> Sessions \cup {0}]
    BY DEF Init
  <2>5. ingests \subseteq Ingest /\ lost \subseteq Events /\ late \subseteq Files
    BY DEF Init
  <2>6. first \in Nat \ {0} /\ next \in Nat \ {0}
    BY DEF Init
  <2>7. stopped \in BOOLEAN
    BY DEF Init
  <2> QED
    BY <2>1, <2>2, <2>3, <2>4, <2>5, <2>6, <2>7 DEF TypeOK, Pc
<1>3. Drained
  BY <1>1, NoBatchHoldsNothing DEF Init, Drained
<1> QED
  BY <1>2, <1>3 DEF TypeInv

(* Every reachable state is well typed, whatever the sizes of the ring and *)
(* of a batch.                                                             *)
THEOREM TypeCorrect == Spec => []TypeOK
<1>1. TypeInv => TypeOK
  BY DEF TypeInv
<1> QED
  BY TypeInitial, TypeInductive, <1>1, PTL DEF Spec

-----------------------------------------------------------------------------
(* No event in two hands: only Drain puts events into a hand, and it takes *)
(* them from the ring.                                                     *)

LEMMA OnlyDrainsTake ==
    ASSUME TypeOK, [Next]_vars, \A t \in Shippers : ~Drain(t)
    PROVE  \A u \in Shippers : batch'[u] = batch[u] \/ batch'[u] = NoBatch
<1> DEFINE Goal == \A u \in Shippers :
                      batch'[u] = batch[u] \/ batch'[u] = NoBatch
<1> SUFFICES Goal
  OBVIOUS
<1>1. ASSUME batch' = batch PROVE Goal
  BY <1>1
<1>2. ASSUME NEW t \in Shippers, Over(t) \/ Dies(t) PROVE Goal
  BY <1>2, OverEffect, HandsAfter
<1>3. ASSUME NEW t \in Shippers, Failed(t) PROVE Goal
  BY <1>3, FailedEffect, HandsAfter
<1> HIDE DEF Goal
<1>4. CASE Stop
  BY <1>1, <1>4 DEF Stop, shipping
<1>5. ASSUME NEW f \in Files, Push(f) PROVE Goal
  BY <1>1, <1>5 DEF Push, shipping
<1>6. ASSUME NEW t \in Shippers, Leave(t) \/ Post(t) PROVE Goal
  BY <1>1, <1>6 DEF Leave, Post
<1>7. ASSUME NEW t \in Shippers, PostCompressed(t) \/ NetworkFails(t)
      PROVE  Goal
  BY <1>3, <1>7 DEF PostCompressed, NetworkFails
<1>8. ASSUME NEW t \in Shippers, Refused(t) \/ Dies(t) PROVE Goal
  BY <1>2, <1>8 DEF Refused
<1>9. ASSUME NEW g \in ingests, Answer(g) PROVE Goal
  BY <1>1, <1>2, <1>9 DEF Answer, shipping
<1>10. ASSUME NEW g \in ingests, Commit(g) PROVE Goal
  BY <1>1, <1>10 DEF Commit, shipping
<1>11. ASSUME NEW g \in ingests, Rollback(g) PROVE Goal
  BY <1>1, <1>3, <1>11 DEF Rollback, shipping
<1>12. CASE UNCHANGED vars
  BY <1>1, <1>12 DEF vars
<1> QED
  BY <1>4, <1>5, <1>6, <1>7, <1>8, <1>9, <1>10, <1>11, <1>12
     DEF Next, Attempt, Serve

LEMMA HandsInductive ==
    TypeInv /\ NoEventInTwoHands /\ [Next]_vars => NoEventInTwoHands'
<1> SUFFICES ASSUME TypeInv, NoEventInTwoHands, [Next]_vars
             PROVE  NoEventInTwoHands'
  OBVIOUS
<1>a. TypeInv' /\ TypeOK /\ Drained
  BY TypeInductive DEF TypeInv
<1>b. \A t \in Shippers : (In(batch[t]) \cap (first .. next - 1))' = {}
  BY <1>a DEF TypeInv, Drained, TypeOK
<1>1. ASSUME NEW t \in Shippers, Drain(t)
      PROVE  In(batch'["flusher"]) \cap In(batch'["main"]) = {}
  <2> DEFINE upto == IF first + BatchSize < next
                     THEN first + BatchSize ELSE next
  <2>1. batch' = [batch EXCEPT ![t] = [from |-> first, upto |-> upto]]
    BY <1>1 DEF Drain
  <2>2. \A e \in In([from |-> first, upto |-> upto]) : first <= e
    BY DEF In
  <2> HIDE DEF upto
  <2>3. \A u \in Shippers :
           batch'[u] = IF u = t THEN [from |-> first, upto |-> upto]
                       ELSE batch[u]
    BY <2>1, <1>a DEF TypeOK
  <2>4. \A u \in Shippers : \A e \in In(batch[u]) : e \in Int /\ e < first
    BY <1>a DEF Drained, TypeOK
  <2>5. CASE t = "main"
    BY <2>2, <2>3, <2>4, <2>5, <1>a DEF Shippers, TypeOK
  <2>6. CASE t = "flusher"
    BY <2>2, <2>3, <2>4, <2>6, <1>a DEF Shippers, TypeOK
  <2> QED
    BY <2>5, <2>6 DEF Shippers
<1>2. ASSUME \A t \in Shippers : ~Drain(t)
      PROVE  In(batch'["flusher"]) \cap In(batch'["main"]) = {}
  <2>1. \A u \in Shippers : batch'[u] = batch[u] \/ batch'[u] = NoBatch
    BY <1>2, <1>a, OnlyDrainsTake
  <2> QED
    BY <2>1, NoBatchHoldsNothing DEF NoEventInTwoHands, Shippers
<1>3. (In(batch["flusher"]) \cap In(batch["main"]))' = {}
  BY <1>1, <1>2
<1> QED
  BY <1>b, <1>3 DEF NoEventInTwoHands

(* The last flush of the main thread and the flush thread's retries never  *)
(* hold the same event, however the drains and pushes interleave.          *)
THEOREM HandsAreDisjoint == Spec => []NoEventInTwoHands
<1>1. Init => NoEventInTwoHands
  <2> SUFFICES ASSUME Init PROVE NoEventInTwoHands
    OBVIOUS
  <2>1. \A t \in Shippers : In(batch[t]) = {}
    BY NoBatchHoldsNothing DEF Init
  <2> QED
    BY <2>1 DEF NoEventInTwoHands, Shippers
<1> QED
  BY TypeInitial, TypeInductive, HandsInductive, <1>1, PTL DEF Spec

-----------------------------------------------------------------------------
(* Requests: which session a thread waits for. *)

RequestInv == TypeInv /\ IdleHands /\ Requested

LEMMA OverIdle ==
    ASSUME TypeOK, IdleHands, NEW t \in Shippers, Over(t) \/ Dies(t)
    PROVE  IdleHands'
<1>1. \A u \in Shippers : /\ batch'[u] = IF u = t THEN NoBatch ELSE batch[u]
                          /\ awaited'[u] = IF u = t THEN 0 ELSE awaited[u]
                          /\ u # t => pc'[u] = pc[u]
  BY DEF Over, Dies, TypeOK
<1> QED
  BY <1>1 DEF IdleHands

LEMMA FailedIdle ==
    ASSUME TypeOK, IdleHands, NEW t \in Shippers, Failed(t)
    PROVE  IdleHands'
<1>1. CASE tries[t] < MaxRetries
  <2>1. \A u \in Shippers : /\ batch'[u] = batch[u]
                            /\ awaited'[u] = IF u = t THEN 0 ELSE awaited[u]
                            /\ pc'[u] = IF u = t THEN "ready" ELSE pc[u]
    BY <1>1 DEF Failed, TypeOK
  <2> QED
    BY <2>1 DEF IdleHands
<1>2. CASE ~(tries[t] < MaxRetries)
  BY <1>2, OverIdle DEF Failed
<1> QED
  BY <1>1, <1>2

LEMMA IdleInductive == TypeOK /\ IdleHands /\ [Next]_vars => IdleHands'
<1> SUFFICES ASSUME TypeOK, IdleHands, [Next]_vars PROVE IdleHands'
  OBVIOUS
<1>1. CASE UNCHANGED shipping
  BY <1>1 DEF shipping, IdleHands
<1>2. ASSUME NEW t \in Shippers, Drain(t) PROVE IdleHands'
  <2>1. \A u \in Shippers :
           /\ pc'[u] = IF u = t THEN "ready" ELSE pc[u]
           /\ u # t => batch'[u] = batch[u]
           /\ awaited'[u] = awaited[u]
    BY <1>2 DEF Drain, TypeOK
  <2> QED
    BY <2>1 DEF IdleHands
<1>3. ASSUME NEW t \in Shippers, Leave(t) PROVE IdleHands'
  <2>1. \A u \in Shippers : pc'[u] = IF u = t THEN "done" ELSE pc[u]
    BY <1>3 DEF Leave, TypeOK
  <2>2. batch' = batch /\ awaited' = awaited
    BY <1>3 DEF Leave
  <2> QED
    BY <2>1, <2>2 DEF IdleHands
<1>4. ASSUME NEW t \in Shippers, Post(t) PROVE IdleHands'
  <2>1. PICK i \in Sessions : awaited' = [awaited EXCEPT ![t] = i]
    BY <1>4 DEF Post
  <2>2. \A u \in Shippers :
           /\ pc'[u] = IF u = t THEN "awaiting" ELSE pc[u]
           /\ batch'[u] = batch[u]
           /\ awaited'[u] = IF u = t THEN i ELSE awaited[u]
    BY <1>4, <2>1 DEF Post, TypeOK
  <2> QED
    BY <2>2 DEF IdleHands
<1>5. ASSUME NEW t \in Shippers, PostCompressed(t) \/ NetworkFails(t)
      PROVE  IdleHands'
  BY <1>5, FailedIdle DEF PostCompressed, NetworkFails
<1>6. ASSUME NEW t \in Shippers, Refused(t) \/ Dies(t) PROVE IdleHands'
  BY <1>6, OverIdle DEF Refused
<1>7. ASSUME NEW g \in ingests, Answer(g) PROVE IdleHands'
  BY <1>1, <1>7, OverIdle DEF Answer
<1>8. ASSUME NEW g \in ingests, Rollback(g) PROVE IdleHands'
  BY <1>1, <1>8, FailedIdle DEF Rollback
<1>9. CASE Stop
  BY <1>1, <1>9 DEF Stop
<1>10. ASSUME NEW f \in Files, Push(f) PROVE IdleHands'
  BY <1>1, <1>10 DEF Push
<1>11. ASSUME NEW g \in ingests, Commit(g) PROVE IdleHands'
  BY <1>1, <1>11 DEF Commit
<1>12. CASE UNCHANGED vars
  BY <1>1, <1>12 DEF vars, shipping
<1> QED
  BY <1>2, <1>3, <1>4, <1>5, <1>6, <1>7, <1>8, <1>9, <1>10, <1>11, <1>12
     DEF Next, Attempt, Serve

(* A stopped process stays stopped.                                        *)
LEMMA StaysDone ==
    ASSUME TypeOK, [Next]_vars, Running'
    PROVE  Running
<1> SUFFICES ASSUME ~Running PROVE FALSE
  OBVIOUS
<1>1. pc' = pc
  BY DEF Next, vars, Stop, Push, Drain, Leave, Attempt, Post, PostCompressed,
         NetworkFails, Refused, Dies, Serve, Answer, Commit, Rollback, shipping
<1> QED
  BY <1>1 DEF Running

(* A thread stops waiting; the sessions the other thread may wait for stay. *)
LEMMA ReleaseKeeps ==
    ASSUME TypeOK, Requested, NEW t \in Shippers,
           awaited' = [awaited EXCEPT ![t] = 0],
           \A u \in Shippers : u # t => batch'[u] = batch[u],
           \A u \in Shippers : \A g \in ingests :
               u # t /\ g.id = awaited[u] => g \in ingests'
    PROVE  /\ \A u, w \in Shippers :
                 awaited'[u] # 0 /\ awaited'[u] = awaited'[w] => u = w
           /\ Running => \A u \in Shippers : awaited'[u] = 0 \/ Awaits(u)'
<1>1. \A u \in Shippers : awaited'[u] = IF u = t THEN 0 ELSE awaited[u]
  BY DEF TypeOK
<1>2. ASSUME Running, NEW u \in Shippers, awaited'[u] # 0 PROVE Awaits(u)'
  <2>1. u # t /\ awaited'[u] = awaited[u] /\ batch'[u] = batch[u]
    BY <1>1, <1>2
  <2>2. PICK g \in ingests : /\ g.id = awaited[u] /\ g.events = batch[u]
                             /\ ~g.answered
    BY <1>2, <2>1 DEF Requested, Awaits
  <2>3. g \in ingests'
    BY <2>1, <2>2
  <2> QED
    BY <2>1, <2>2, <2>3 DEF Awaits
<1> QED
  BY <1>1, <1>2 DEF Requested

LEMMA OverReleases ==
    ASSUME TypeOK, NEW t \in Shippers, Over(t) \/ Dies(t) \/ Failed(t)
    PROVE  /\ awaited' = [awaited EXCEPT ![t] = 0]
           /\ \A u \in Shippers : u # t => batch'[u] = batch[u]
<1>1. CASE Over(t) \/ Dies(t)
  BY <1>1, OverEffect, HandsAfter
<1>2. CASE Failed(t)
  BY <1>2, FailedEffect, HandsAfter
<1> QED
  BY <1>1, <1>2

(* Nobody else waits for the session another thread waits for.             *)
LEMMA OthersStay ==
    ASSUME TypeOK, Requested, NEW t \in Shippers, NEW g \in ingests,
           awaited[t] = g.id, ingests \ {g} \subseteq ingests'
    PROVE  \A u \in Shippers : \A h \in ingests :
               u # t /\ h.id = awaited[u] => h \in ingests'
<1>1. g.id # 0
  BY DEF TypeOK, Ingest, Sessions
<1> QED
  BY <1>1 DEF Requested

LEMMA RequestedInductive == RequestInv /\ [Next]_vars => Requested'
<1> SUFFICES ASSUME RequestInv, [Next]_vars PROVE Requested'
  OBVIOUS
<1>a. TypeOK /\ IdleHands /\ Requested
  BY DEF RequestInv, TypeInv
<1>b. Running' => Running
  BY <1>a, StaysDone
<1> DEFINE Unique == \A g, h \in ingests' : g.id = h.id => g = h
<1> DEFINE Waits == /\ \A u, w \in Shippers :
                          awaited'[u] # 0 /\ awaited'[u] = awaited'[w] => u = w
                    /\ Running =>
                          \A u \in Shippers : awaited'[u] = 0 \/ Awaits(u)'
<1>c. Unique /\ Waits => Requested'
  BY <1>b DEF Requested
<1>d. ingests' \subseteq ingests => Unique
  BY <1>a DEF Requested
<1>1. ASSUME UNCHANGED <<awaited, batch, ingests>> PROVE Waits
  BY <1>1, <1>a DEF Requested, Awaits
<1>2. ASSUME NEW t \in Shippers, Over(t) \/ Dies(t) \/ Failed(t), ingests' = ingests
      PROVE  Waits
  BY <1>2, <1>a, OverReleases, ReleaseKeeps
<1>3. ASSUME NEW t \in Shippers, NEW g \in ingests, awaited[t] = g.id,
             Over(t) \/ Dies(t) \/ Failed(t), ingests \ {g} \subseteq ingests'
      PROVE  Waits
  BY <1>3, <1>a, OverReleases, OthersStay, ReleaseKeeps
<1>4. ASSUME NEW g \in ingests, UNCHANGED <<awaited, batch>>,
             ingests \ {g} \subseteq ingests',
             Running => g.answered \/ \A t \in Shippers : awaited[t] # g.id
      PROVE  Waits
  <2>1. ASSUME Running, NEW u \in Shippers, awaited[u] # 0 PROVE Awaits(u)'
    <3>1. PICK h \in ingests : /\ h.id = awaited[u] /\ h.events = batch[u]
                               /\ ~h.answered
      BY <2>1, <1>a DEF Requested, Awaits
    <3>2. h # g
      BY <3>1, <2>1, <1>4
    <3>3. h \in ingests'
      BY <3>2, <1>4
    <3> QED
      BY <1>4, <3>1, <3>3 DEF Awaits
  <2> QED
    BY <1>4, <1>a, <2>1 DEF Requested
<1> HIDE DEF Unique, Waits
<1>5. CASE Stop
  BY <1>5, <1>1, <1>c, <1>d DEF Stop, shipping, server
<1>6. ASSUME NEW f \in Files, Push(f) PROVE Requested'
  BY <1>6, <1>1, <1>c, <1>d DEF Push, shipping, server
<1>7. ASSUME NEW t \in Shippers, Drain(t) PROVE Requested'
  <2>1. Unique
    BY <1>7, <1>d DEF Drain, server
  <2>2. awaited' = awaited /\ ingests' = ingests /\ awaited[t] = 0
    BY <1>7, <1>a DEF Drain, server, IdleHands
  <2>3. \A u \in Shippers : u # t => batch'[u] = batch[u]
    BY <1>7, <1>a DEF Drain, TypeOK
  <2>4. Waits
    BY <2>2, <2>3, <1>a DEF Waits, Requested, Awaits
  <2> QED
    BY <2>1, <2>4, <1>c
<1>8. ASSUME NEW t \in Shippers, Leave(t) PROVE Requested'
  BY <1>8, <1>1, <1>c, <1>d DEF Leave, server
<1>9. ASSUME NEW t \in Shippers, Post(t) PROVE Requested'
  <2> DEFINE g(i) == [id |-> i, events |-> batch[t], answered |-> FALSE]
  <2>1. PICK i \in Sessions : /\ Unused(i)
                              /\ ingests' = ingests \cup {g(i)}
                              /\ awaited' = [awaited EXCEPT ![t] = i]
    BY <1>9 DEF Post
  <2>2. /\ g(i).id = i /\ g(i).events = batch[t]
        /\ ~g(i).answered /\ g(i) \in ingests'
    BY <2>1
  <2> HIDE DEF g
  <2>3. \A h \in ingests : h.id # i
    BY <2>1 DEF Unused
  <2>4. Unique
    BY <2>1, <2>2, <2>3, <1>a DEF Unique, Requested
  <2>5. \A u \in Shippers : awaited'[u] = IF u = t THEN i ELSE awaited[u]
    BY <2>1, <1>a DEF TypeOK
  <2>6. Running /\ batch' = batch
    BY <1>9 DEF Post
  <2>7. \A u \in Shippers : awaited[u] # i
    <3>1. i # 0
      BY DEF Sessions
    <3> QED
      BY <3>1, <2>3, <2>6, <1>a DEF Requested, Awaits
  <2>8. \A u \in Shippers : awaited'[u] = 0 \/ Awaits(u)'
    BY <2>1, <2>2, <2>5, <2>6, <1>a DEF Requested, Awaits
  <2>9. Waits
    BY <2>5, <2>7, <2>8, <1>a DEF Waits, Requested
  <2> QED
    BY <2>4, <2>9, <1>c
<1>10. ASSUME NEW t \in Shippers,
              \/ PostCompressed(t) \/ NetworkFails(t)
              \/ Refused(t) \/ Dies(t)
       PROVE  Requested'
  <2>1. ingests' = ingests
    BY <1>10 DEF PostCompressed, NetworkFails, Refused, Dies, server
  <2>2. Over(t) \/ Dies(t) \/ Failed(t)
    BY <1>10 DEF PostCompressed, NetworkFails, Refused
  <2> QED
    BY <2>1, <2>2, <1>2, <1>c, <1>d
<1>11. ASSUME NEW g \in ingests, Answer(g) PROVE Requested'
  <2>1. Unique
    <3>1. \A h \in ingests' : \/ h \in ingests \ {g}
                              \/ h.id = g.id /\ h = [g EXCEPT !.answered = TRUE]
      BY <1>11, <1>a DEF Answer, TypeOK, Ingest
    <3> QED
      BY <3>1, <1>a DEF Unique, Requested
  <2>2. ingests \ {g} \subseteq ingests'
    BY <1>11 DEF Answer
  <2>3. Waits
    <3>1. CASE \E t \in Shippers : Running /\ awaited[t] = g.id
      <4>1. PICK t \in Shippers : awaited[t] = g.id /\ Over(t)
        BY <1>11, <3>1 DEF Answer
      <4> QED
        BY <4>1, <2>2, <1>3
    <3>2. CASE ~\E t \in Shippers : Running /\ awaited[t] = g.id
      BY <1>11, <1>4, <2>2, <3>2 DEF Answer, shipping
    <3> QED
      BY <3>1, <3>2
  <2> QED
    BY <2>1, <2>3, <1>c
<1>12. ASSUME NEW g \in ingests, Commit(g) PROVE Requested'
  <2>1. ingests' = ingests \ {g} /\ g.answered /\ UNCHANGED <<awaited, batch>>
    BY <1>12 DEF Commit, shipping
  <2>2. Unique
    BY <2>1, <1>d
  <2>3. Waits
    BY <2>1, <1>4
  <2> QED
    BY <2>2, <2>3, <1>c
<1>13. ASSUME NEW g \in ingests, Rollback(g) PROVE Requested'
  <2>1. ingests' = ingests \ {g}
    BY <1>13 DEF Rollback
  <2>2. Unique
    BY <2>1, <1>d
  <2>3. Waits
    <3>1. CASE \E t \in Shippers : Running /\ awaited[t] = g.id
      <4>1. PICK t \in Shippers : awaited[t] = g.id /\ Failed(t)
        BY <1>13, <3>1 DEF Rollback
      <4> QED
        BY <4>1, <2>1, <1>3
    <3>2. CASE ~\E t \in Shippers : Running /\ awaited[t] = g.id
      BY <1>13, <1>4, <2>1, <3>2 DEF Rollback, shipping
    <3> QED
      BY <3>1, <3>2
  <2> QED
    BY <2>2, <2>3, <1>c
<1>14. CASE UNCHANGED vars
  BY <1>14, <1>1, <1>c, <1>d DEF vars
<1> QED
  BY <1>5, <1>6, <1>7, <1>8, <1>9, <1>10, <1>11, <1>12, <1>13, <1>14
     DEF Next, Attempt, Serve

-----------------------------------------------------------------------------
(* Every event is accounted for. *)

Kept(e) ==
    \/ e \in first .. next - 1
    \/ \E t \in Shippers : e \in In(batch[t])
    \/ \E g \in ingests : g.answered /\ e \in In(g.events)
    \/ copies[e] > 0
    \/ e \in lost

(* A thread lets go of its batch: what it held is lost, or was answered.   *)
LEMMA LettingGoKeeps ==
    ASSUME TypeOK, NEW t \in Shippers, Over(t) \/ Dies(t) \/ Failed(t),
           UNCHANGED <<first, next, copies>>, lost \subseteq lost',
           \A h \in ingests : h.answered => h \in ingests',
           \A e \in In(batch[t]) :
               \/ e \in lost'
               \/ batch' = batch
               \/ \E h \in ingests' : h.answered /\ e \in In(h.events),
           NEW e, Kept(e)
    PROVE  Kept(e)'
<1>1. \A u \in Shippers : u # t => batch'[u] = batch[u]
  BY OverReleases
<1> QED
  BY <1>1 DEF Kept

LEMMA FailedKeeps ==
    ASSUME TypeOK, NEW t \in Shippers, Failed(t),
           UNCHANGED <<first, next, copies>>,
           \A h \in ingests : h.answered => h \in ingests',
           NEW e, Kept(e)
    PROVE  Kept(e)'
<1>1. \/ batch' = batch /\ lost' = lost
      \/ lost' = lost \cup In(batch[t])
  BY FailedEffect
<1> QED
  BY <1>1, LettingGoKeeps

LEMMA StepKeeps ==
    ASSUME RequestInv, [Next]_vars, NEW e \in 1 .. next - 1, Kept(e)
    PROVE  Kept(e)'
<1>a. /\ TypeOK /\ Drained /\ IdleHands /\ Requested
      /\ first \in Nat /\ next \in Nat /\ e \in Nat
  BY DEF RequestInv, TypeInv, TypeOK
<1>1. ASSUME UNCHANGED <<first, next, batch, copies, lost>>,
             \A h \in ingests : h.answered => h \in ingests'
      PROVE  Kept(e)'
  BY <1>1 DEF Kept
<1>2. CASE Stop
  BY <1>1, <1>2 DEF Stop, shipping, server
<1>3. ASSUME NEW f \in Files, Push(f) PROVE Kept(e)'
  <2>1. CASE e = first /\ lost' = lost \cup {first}
    BY <2>1 DEF Kept
  <2>2. CASE ~(e = first /\ lost' = lost \cup {first})
    <3>1. e \in first .. next - 1 => e \in first' .. next' - 1
      BY <1>3, <1>a, <2>2 DEF Push
    <3>2. lost \subseteq lost' /\ UNCHANGED <<batch, ingests, copies>>
      BY <1>3 DEF Push, shipping, server
    <3> QED
      BY <3>1, <3>2 DEF Kept
  <2> QED
    BY <2>1, <2>2
<1>4. ASSUME NEW t \in Shippers, Drain(t) PROVE Kept(e)'
  <2> DEFINE upto == IF first + BatchSize < next
                     THEN first + BatchSize ELSE next
  <2>1. batch' = [batch EXCEPT ![t] = [from |-> first, upto |-> upto]]
    BY <1>4 DEF Drain
  <2>2. /\ first' = upto /\ upto \in Int
        /\ UNCHANGED <<next, ingests, copies, lost>>
    BY <1>4, <1>a, Sizes DEF Drain, server, Sizes
  <2>3. In([from |-> first, upto |-> upto]) = first .. upto - 1
    BY DEF In
  <2> HIDE DEF upto
  <2>4. \A u \in Shippers :
           batch'[u] = IF u = t THEN [from |-> first, upto |-> upto]
                       ELSE batch[u]
    BY <2>1, <1>a DEF TypeOK
  <2>5. In(batch[t]) = {}
    BY <1>4, <1>a, NoBatchHoldsNothing DEF Drain, IdleHands
  <2>6. CASE e \in first .. next - 1
    <3>1. e \in first .. upto - 1 \/ e \in first' .. next' - 1
      BY <2>2, <2>6, <1>a
    <3> QED
      BY <2>3, <2>4, <3>1 DEF Kept
  <2>7. CASE \E u \in Shippers : e \in In(batch[u])
    BY <2>4, <2>5, <2>7 DEF Kept
  <2> QED
    BY <2>2, <2>6, <2>7 DEF Kept
<1>5. ASSUME NEW t \in Shippers, Leave(t) PROVE Kept(e)'
  BY <1>1, <1>5 DEF Leave, server
<1>6. ASSUME NEW t \in Shippers, Post(t) PROVE Kept(e)'
  BY <1>1, <1>6 DEF Post, agentRest
<1>7. ASSUME NEW t \in Shippers, PostCompressed(t) \/ NetworkFails(t)
      PROVE  Kept(e)'
  BY <1>7, <1>a, FailedKeeps DEF PostCompressed, NetworkFails, agentRest, server
<1>8. ASSUME NEW t \in Shippers, Refused(t) \/ Dies(t) PROVE Kept(e)'
  <2>1. /\ UNCHANGED <<first, next, copies, ingests>>
        /\ lost' = lost \cup In(batch[t])
    BY <1>8 DEF Refused, Dies, agentRest, server
  <2>2. Over(t) \/ Dies(t)
    BY <1>8 DEF Refused
  <2> QED
    BY <2>1, <2>2, <1>a, LettingGoKeeps
<1>9. ASSUME NEW g \in ingests, Answer(g) PROVE Kept(e)'
  <2>1. /\ ~g.answered /\ UNCHANGED <<first, next, copies, lost>>
        /\ \A h \in ingests : h.answered => h \in ingests'
    BY <1>9 DEF Answer, agentRest
  <2>2. CASE \E t \in Shippers : Running /\ awaited[t] = g.id
    <3>1. PICK t \in Shippers : Running /\ awaited[t] = g.id /\ Over(t)
      BY <1>9, <2>2 DEF Answer
    <3>2. g.id # 0
      BY <1>a DEF TypeOK, Ingest, Sessions
    <3>3. g.events = batch[t]
      BY <3>1, <3>2, <1>a DEF Requested, Awaits
    <3>4. PICK h \in ingests' : h.answered /\ h.events = g.events
      <4>1. g \in Ingest
        BY <1>a DEF TypeOK
      <4>2. /\ [g EXCEPT !.answered = TRUE].answered = TRUE
            /\ [g EXCEPT !.answered = TRUE].events = g.events
        BY <4>1 DEF Ingest
      <4>3. [g EXCEPT !.answered = TRUE] \in ingests'
        BY <1>9 DEF Answer
      <4> QED
        BY <4>2, <4>3
    <3> QED
      BY <1>a, <2>1, <3>1, <3>3, <3>4, LettingGoKeeps
  <2>3. CASE ~\E t \in Shippers : Running /\ awaited[t] = g.id
    BY <1>1, <1>9, <2>1, <2>3 DEF Answer, shipping
  <2> QED
    BY <2>2, <2>3
<1>10. ASSUME NEW g \in ingests, Commit(g) PROVE Kept(e)'
  <2>1. /\ UNCHANGED <<first, next, batch, lost>>
        /\ ingests' = ingests \ {g}
    BY <1>10 DEF Commit, agentRest, shipping
  <2>2. e \in Events /\ copies[e] \in Nat
    BY <1>a, Sizes DEF Drained, Events, TypeOK, Sizes
  <2>3. copies'[e] = IF e \in In(g.events) THEN copies[e] + 1 ELSE copies[e]
    BY <1>10, <2>2 DEF Commit
  <2>4. CASE copies[e] > 0 \/ e \in In(g.events)
    <3>1. copies'[e] > 0
      BY <2>2, <2>3, <2>4
    <3> QED
      BY <3>1 DEF Kept
  <2>5. CASE ~(copies[e] > 0 \/ e \in In(g.events))
    BY <2>1, <2>5 DEF Kept
  <2> QED
    BY <2>4, <2>5
<1>11. ASSUME NEW g \in ingests, Rollback(g) PROVE Kept(e)'
  <2>1. ingests' = ingests \ {g} /\ UNCHANGED <<first, next, copies>>
    BY <1>11 DEF Rollback, agentRest
  <2>2. CASE \E t \in Shippers : Running /\ awaited[t] = g.id
    <3>1. PICK t \in Shippers : Running /\ awaited[t] = g.id /\ Failed(t)
      BY <1>11, <2>2 DEF Rollback
    <3>2. g.id # 0
      BY <1>a DEF TypeOK, Ingest, Sessions
    <3>3. ~g.answered
      BY <3>1, <3>2, <1>a DEF Requested, Awaits
    <3> QED
      BY <1>a, <2>1, <3>1, <3>3, FailedKeeps
  <2>3. CASE ~\E t \in Shippers : Running /\ awaited[t] = g.id
    <3>1. /\ lost' = IF g.answered THEN lost \cup In(g.events) ELSE lost
          /\ batch' = batch
      BY <1>11, <2>3 DEF Rollback, shipping
    <3> QED
      BY <2>1, <3>1 DEF Kept
  <2> QED
    BY <2>2, <2>3
<1>12. CASE UNCHANGED vars
  BY <1>1, <1>12 DEF vars
<1> QED
  BY <1>2, <1>3, <1>4, <1>5, <1>6, <1>7, <1>8, <1>9, <1>10, <1>11, <1>12
     DEF Next, Attempt, Serve

(* However pushes, drains, retries, late answers and rollbacks interleave,  *)
(* an event that was pushed is in the ring, in hand, answered, stored, or   *)
(* lost for one of the reasons the code names.                              *)
THEOREM NothingIsMislaid == Spec => []EventsAreAccountedFor
<1> DEFINE Inv == RequestInv /\ EventsAreAccountedFor
<1>1. Init => Inv
  <2> SUFFICES ASSUME Init PROVE Inv
    OBVIOUS
  <2>1. IdleHands
    BY DEF Init, IdleHands
  <2>2. Requested
    BY DEF Init, Requested
  <2>3. EventsAreAccountedFor
    BY DEF Init, EventsAreAccountedFor
  <2> QED
    BY <2>1, <2>2, <2>3, TypeInitial DEF RequestInv
<1>2. Inv /\ [Next]_vars => Inv'
  <2> SUFFICES ASSUME Inv, [Next]_vars PROVE Inv'
    OBVIOUS
  <2>1. TypeInv' /\ IdleHands' /\ Requested'
    BY TypeInductive, IdleInductive, RequestedInductive DEF RequestInv, TypeInv
  <2>2. ASSUME NEW e \in 1 .. next' - 1 PROVE Kept(e)'
    <3>1. CASE e \in 1 .. next - 1
      BY <3>1, StepKeeps DEF EventsAreAccountedFor, Kept
    <3>2. CASE e \notin 1 .. next - 1
      <4>1. first \in Nat /\ next \in Nat /\ first <= next
        BY DEF RequestInv, TypeInv, TypeOK, Drained
      <4>2. next' # next
        BY <3>2
      <4>3. PICK f \in Files : Push(f)
        BY <4>2 DEF Next, vars, Stop, Drain, Leave, Attempt, Post,
           PostCompressed, NetworkFails, Refused, Dies, Serve, Answer,
           Commit, Rollback, agentRest
      <4>4. next' = next + 1 /\ first' \in Nat /\ (first' = first \/
               (first' = first + 1 /\ ~(next - first < Capacity)))
        BY <4>1, <4>3 DEF Push
      <4>5. first' <= next
        BY <4>1, <4>4, Sizes DEF Sizes
      <4>6. e \in first' .. next' - 1
        BY <3>2, <4>1, <4>4, <4>5
      <4> QED
        BY <4>6 DEF Kept
    <3> QED
      BY <3>1, <3>2
  <2>3. EventsAreAccountedFor'
    BY <2>2 DEF EventsAreAccountedFor, Kept
  <2> QED
    BY <2>1, <2>3 DEF RequestInv
<1>3. Inv => EventsAreAccountedFor
  OBVIOUS
<1> QED
  BY <1>1, <1>2, <1>3, PTL DEF Spec

-----------------------------------------------------------------------------
(* How often an event was sent: the rows it has, and the sessions at work   *)
(* on it, each of which may still add one.                                  *)

Uncommitted(e) ==
    {i \in Sessions : \E g \in ingests : g.id = i /\ e \in In(g.events)}

Sent(e) == copies[e] + Cardinality(Uncommitted(e))

(* The attempts a thread has made at its batch.                            *)
Attempts(t) == tries[t] + (IF pc[t] = "awaiting" THEN 1 ELSE 0)

SentByAttempts ==
    \A e \in Events :
        /\ Sent(e) <= MaxRetries + 1
        /\ \A t \in Shippers : e \in In(batch[t]) => Sent(e) <= Attempts(t)
        /\ first <= e => Sent(e) = 0

LEMMA SentIsCounted ==
    ASSUME TypeOK, NEW e \in Events
    PROVE  /\ IsFiniteSet(Uncommitted(e))
           /\ Cardinality(Uncommitted(e)) \in Nat
           /\ copies[e] \in Nat
           /\ Sent(e) \in Nat
<1>1. IsFiniteSet(Sessions)
  BY FS_Interval, Sizes DEF Sessions, Sizes
<1>2. IsFiniteSet(Uncommitted(e))
  BY <1>1, FS_Subset DEF Uncommitted
<1>3. Cardinality(Uncommitted(e)) \in Nat
  BY <1>2, FS_CardinalityType
<1>4. copies[e] \in Nat
  BY DEF TypeOK
<1> QED
  BY <1>2, <1>3, <1>4 DEF Sent

(* Sessions that end, or only change their answer, add nothing.            *)
LEMMA FewerSent ==
    ASSUME TypeOK, TypeOK', NEW e \in Events, copies' = copies,
           \A h \in ingests' :
               \E g \in ingests : g.id = h.id /\ g.events = h.events
    PROVE  Sent(e)' <= Sent(e)
<1>1. Uncommitted(e)' \subseteq Uncommitted(e)
  BY DEF Uncommitted
<1>2. Cardinality(Uncommitted(e)') <= Cardinality(Uncommitted(e))
  BY <1>1, SentIsCounted, FS_Subset
<1>3. Cardinality(Uncommitted(e)') \in Nat
  <2>1. IsFiniteSet(Uncommitted(e)')
    BY <1>1, SentIsCounted, FS_Subset
  <2> QED
    BY <2>1, FS_CardinalityType
<1>4. copies'[e] = copies[e] /\ copies[e] \in Nat
  BY SentIsCounted
<1> QED
  BY <1>2, <1>3, <1>4, SentIsCounted DEF Sent

(* A commit trades a session for a row.                                    *)
LEMMA CommitKeepsSent ==
    ASSUME TypeOK, Requested, NEW g \in ingests, Commit(g), NEW e \in Events
    PROVE  Sent(e)' = Sent(e)
<1>1. g.id \in Sessions
  BY DEF TypeOK, Ingest
<1>2. Uncommitted(e)' = Uncommitted(e) \ {g.id}
  BY DEF Commit, Uncommitted, Requested
<1>3. Cardinality(Uncommitted(e)') =
        IF g.id \in Uncommitted(e) THEN Cardinality(Uncommitted(e)) - 1
        ELSE Cardinality(Uncommitted(e))
  BY <1>2, SentIsCounted, FS_RemoveElement
<1>4. g.id \in Uncommitted(e) <=> e \in In(g.events)
  BY <1>1 DEF Uncommitted, Requested
<1>5. copies'[e] = IF e \in In(g.events) THEN copies[e] + 1 ELSE copies[e]
  BY DEF Commit
<1> QED
  BY <1>3, <1>4, <1>5, SentIsCounted DEF Sent

(* A request adds one to the events of its batch.                          *)
LEMMA PostSends ==
    ASSUME TypeOK, NEW t \in Shippers, Post(t), NEW e \in Events
    PROVE  Sent(e)' = IF e \in In(batch[t]) THEN Sent(e) + 1 ELSE Sent(e)
<1> DEFINE r(i) == [id |-> i, events |-> batch[t], answered |-> FALSE]
<1>1. PICK i \in Sessions : Unused(i) /\ ingests' = ingests \cup {r(i)}
  BY DEF Post
<1>2. r(i).id = i /\ r(i).events = batch[t]
  OBVIOUS
<1> HIDE DEF r
<1>3. i \notin Uncommitted(e)
  BY <1>1 DEF Unused, Uncommitted
<1>4. Uncommitted(e)' = IF e \in In(batch[t]) THEN Uncommitted(e) \cup {i}
                        ELSE Uncommitted(e)
  BY <1>1, <1>2 DEF Uncommitted
<1>5. copies' = copies
  BY DEF Post
<1>6. CASE e \in In(batch[t])
  <2>1. Cardinality(Uncommitted(e)') = Cardinality(Uncommitted(e)) + 1
    BY <1>3, <1>4, <1>6, SentIsCounted, FS_AddElement
  <2> QED
    BY <1>5, <1>6, <2>1, SentIsCounted DEF Sent
<1>7. CASE e \notin In(batch[t])
  BY <1>4, <1>5, <1>7 DEF Sent
<1> QED
  BY <1>6, <1>7

LEMMA OnlyPostsSend ==
    ASSUME RequestInv, [Next]_vars, NEW e \in Events
    PROVE  \/ Sent(e)' <= Sent(e)
           \/ \E t \in Shippers : /\ Post(t) /\ e \in In(batch[t])
                                  /\ Sent(e)' = Sent(e) + 1
<1>a. TypeOK /\ Requested /\ TypeOK' /\ Sent(e) \in Nat
  BY TypeInductive, SentIsCounted DEF RequestInv, TypeInv
<1>1. ASSUME copies' = copies, ingests' \subseteq ingests
      PROVE  Sent(e)' <= Sent(e)
  BY <1>1, <1>a, FewerSent
<1>2. CASE Stop
  BY <1>1, <1>2 DEF Stop, server
<1>3. ASSUME NEW f \in Files, Push(f) PROVE Sent(e)' <= Sent(e)
  BY <1>1, <1>3 DEF Push, server
<1>4. ASSUME NEW t \in Shippers, Drain(t) \/ Leave(t)
      PROVE  Sent(e)' <= Sent(e)
  BY <1>1, <1>4 DEF Drain, Leave, server
<1>5. ASSUME NEW t \in Shippers, Post(t)
      PROVE  \/ Sent(e)' <= Sent(e)
             \/ e \in In(batch[t]) /\ Sent(e)' = Sent(e) + 1
  BY <1>5, <1>a, PostSends
<1>6. ASSUME NEW t \in Shippers,
             \/ PostCompressed(t) \/ NetworkFails(t)
             \/ Refused(t) \/ Dies(t)
      PROVE  Sent(e)' <= Sent(e)
  BY <1>1, <1>6 DEF PostCompressed, NetworkFails, Refused, Dies, server
<1>7. ASSUME NEW g \in ingests, Answer(g) PROVE Sent(e)' <= Sent(e)
  <2>1. \A h \in ingests' :
           \E k \in ingests : k.id = h.id /\ k.events = h.events
    BY <1>7, <1>a, AnswerTypes
  <2> QED
    BY <1>7, <1>a, <2>1, FewerSent DEF Answer
<1>8. ASSUME NEW g \in ingests, Commit(g) PROVE Sent(e)' <= Sent(e)
  BY <1>8, <1>a, CommitKeepsSent
<1>9. ASSUME NEW g \in ingests, Rollback(g) PROVE Sent(e)' <= Sent(e)
  BY <1>1, <1>9 DEF Rollback
<1>10. CASE UNCHANGED vars
  BY <1>1, <1>10 DEF vars
<1> QED
  BY <1>2, <1>3, <1>4, <1>5, <1>6, <1>7, <1>8, <1>9, <1>10
     DEF Next, Attempt, Serve

(* A thread keeps its batch only along with the attempts made at it.       *)
LEMMA AttemptsAreCounted ==
    ASSUME TypeOK, IdleHands, [Next]_vars, NEW u \in Shippers
    PROVE  \/ In(batch'[u]) = {}
           \/ Drain(u)
           \/ /\ batch'[u] = batch[u]
              /\ Attempts(u)' >= Attempts(u)
              /\ Post(u) => Attempts(u)' = Attempts(u) + 1
<1> DEFINE Counted == /\ batch'[u] = batch[u]
                      /\ Attempts(u)' >= Attempts(u)
                      /\ Post(u) => Attempts(u)' = Attempts(u) + 1
<1> DEFINE Goal == In(batch'[u]) = {} \/ Drain(u) \/ Counted
<1> SUFFICES Goal
  OBVIOUS
<1>a. tries[u] \in Nat /\ MaxRetries \in Nat
  BY Sizes DEF TypeOK, Sizes
<1>0. ASSUME batch'[u] = batch[u], tries'[u] = tries[u], pc'[u] = pc[u]
      PROVE  Goal
  <2>1. ~Post(u)
    BY <1>0 DEF Post, TypeOK
  <2>2. Attempts(u)' = Attempts(u)
    BY <1>0 DEF Attempts
  <2>3. Attempts(u) \in Int
    BY <1>a DEF Attempts
  <2> QED
    BY <1>0, <2>1, <2>2, <2>3
<1>1. ASSUME NEW t \in Shippers, Over(t) \/ Dies(t) PROVE Goal
  <2>1. /\ u = t => batch'[u] = NoBatch
        /\ u # t => /\ batch'[u] = batch[u] /\ tries'[u] = tries[u]
                    /\ pc'[u] = pc[u]
    BY <1>1 DEF Over, Dies, TypeOK
  <2> QED
    BY <2>1, <1>0, NoBatchHoldsNothing
<1>2. ASSUME NEW t \in Shippers, Failed(t) PROVE Goal
  <2>1. CASE tries[t] < MaxRetries
    <3>1. /\ batch' = batch
          /\ u = t => tries'[u] = tries[u] + 1 /\ pc'[u] = "ready"
          /\ u # t => tries'[u] = tries[u] /\ pc'[u] = pc[u]
      BY <1>2, <2>1 DEF Failed, TypeOK
    <3>2. CASE u = t
      <4>1. ~Post(u)
        BY <3>1, <3>2 DEF Post, TypeOK
      <4>2. Attempts(u)' >= Attempts(u)
        BY <3>1, <3>2, <1>a DEF Attempts
      <4> QED
        BY <3>1, <4>1, <4>2
    <3> QED
      BY <3>1, <3>2, <1>0
  <2>2. CASE ~(tries[t] < MaxRetries)
    BY <1>1, <1>2, <2>2 DEF Failed
  <2> QED
    BY <2>1, <2>2
<1>3. ASSUME UNCHANGED <<pc, batch, tries>> PROVE Goal
  BY <1>0, <1>3
<1>4. ASSUME NEW t \in Shippers, Drain(t) PROVE Goal
  <2>1. u # t => /\ batch'[u] = batch[u] /\ tries'[u] = tries[u]
                 /\ pc'[u] = pc[u]
    BY <1>4 DEF Drain, TypeOK
  <2> QED
    BY <2>1, <1>0, <1>4
<1>5. ASSUME NEW t \in Shippers, Leave(t) PROVE Goal
  <2>1. CASE u = t
    BY <1>5, <2>1, NoBatchHoldsNothing DEF Leave, IdleHands
  <2>2. CASE u # t
    <3>1. batch'[u] = batch[u] /\ tries'[u] = tries[u] /\ pc'[u] = pc[u]
      BY <1>5, <2>2 DEF Leave, TypeOK
    <3> QED
      BY <3>1, <1>0
  <2> QED
    BY <2>1, <2>2
<1>6. ASSUME NEW t \in Shippers, Post(t) PROVE Goal
  <2>1. /\ batch' = batch /\ tries' = tries /\ pc[t] = "ready"
        /\ pc' = [pc EXCEPT ![t] = "awaiting"]
    BY <1>6 DEF Post
  <2>2. CASE u = t
    <3>1. Attempts(u)' = Attempts(u) + 1
      BY <2>1, <2>2, <1>a DEF Attempts, TypeOK
    <3>2. Attempts(u) \in Int
      BY <1>a DEF Attempts
    <3> QED
      BY <2>1, <3>1, <3>2
  <2>3. CASE u # t
    <3>1. pc'[u] = pc[u]
      BY <2>1, <2>3 DEF TypeOK
    <3> QED
      BY <2>1, <3>1, <1>0
  <2> QED
    BY <2>2, <2>3
<1> HIDE DEF Goal
<1>7. CASE Stop
  BY <1>3, <1>7 DEF Stop, shipping
<1>8. ASSUME NEW f \in Files, Push(f) PROVE Goal
  BY <1>3, <1>8 DEF Push, shipping
<1>9. ASSUME NEW t \in Shippers,
             \/ PostCompressed(t) \/ NetworkFails(t)
             \/ Refused(t) \/ Dies(t)
      PROVE  Goal
  BY <1>1, <1>2, <1>9 DEF PostCompressed, NetworkFails, Refused
<1>10. ASSUME NEW g \in ingests, Answer(g) \/ Commit(g) \/ Rollback(g)
       PROVE  Goal
  BY <1>1, <1>2, <1>3, <1>10 DEF Answer, Commit, Rollback, shipping
<1>11. CASE UNCHANGED vars
  BY <1>3, <1>11 DEF vars
<1> QED
  BY <1>4, <1>5, <1>6, <1>7, <1>8, <1>9, <1>10, <1>11 DEF Next, Attempt, Serve

LEMMA SentInductive ==
    RequestInv /\ NoEventInTwoHands /\ SentByAttempts /\ [Next]_vars
        => SentByAttempts'
<1> SUFFICES ASSUME RequestInv, NoEventInTwoHands, SentByAttempts,
                    [Next]_vars, NEW e \in Events
             PROVE  /\ Sent(e)' <= MaxRetries + 1
                    /\ \A t \in Shippers :
                          e \in In(batch'[t]) => Sent(e)' <= Attempts(t)'
                    /\ first' <= e => Sent(e)' = 0
  BY DEF SentByAttempts
<1>a. /\ TypeOK /\ Drained /\ IdleHands /\ TypeOK' /\ MaxRetries \in Nat
      /\ Sent(e) \in Nat /\ Sent(e)' \in Nat /\ e \in Nat
      /\ first \in Nat /\ first' \in Nat
      /\ \A t \in Shippers : Attempts(t) \in Nat /\ Attempts(t)' \in Nat
                             /\ tries[t] \in 0 .. MaxRetries
  <2>1. TypeOK /\ Drained /\ IdleHands /\ TypeOK' /\ MaxRetries \in Nat
    BY TypeInductive, Sizes DEF RequestInv, TypeInv, Sizes
  <2>2. Sent(e) \in Nat
    BY <2>1, SentIsCounted
  <2>3. Sent(e)' \in Nat
    <3>0. IsFiniteSet(Sessions) /\ Uncommitted(e)' \subseteq Sessions
      BY FS_Interval, Sizes DEF Uncommitted, Sessions, Sizes
    <3>1. IsFiniteSet(Uncommitted(e)')
      BY <3>0, FS_Subset
    <3>2. Cardinality(Uncommitted(e)') \in Nat
      BY <3>1, FS_CardinalityType
    <3>3. copies'[e] \in Nat
      BY <2>1 DEF TypeOK
    <3> QED
      BY <3>2, <3>3 DEF Sent
  <2>4. \A t \in Shippers : Attempts(t) \in Nat /\ Attempts(t)' \in Nat
                            /\ tries[t] \in 0 .. MaxRetries
    BY <2>1 DEF TypeOK, Attempts
  <2> QED
    BY <2>1, <2>2, <2>3, <2>4 DEF TypeOK, Events
<1>b. first <= first'
  BY <1>a, Sizes DEF Next, vars, Stop, Push, Drain, Leave, Attempt, Post,
     PostCompressed, NetworkFails, Refused, Dies, Serve, Answer, Commit,
     Rollback, agentRest, Sizes, TypeOK, Drained
<1>1. ASSUME NEW t \in Shippers, Post(t), e \in In(batch[t])
      PROVE  Sent(e) <= tries[t]
  <2>1. Attempts(t) = tries[t]
    BY <1>1, <1>a DEF Post, Attempts
  <2> QED
    BY <1>1, <2>1 DEF SentByAttempts
<1>2. Sent(e)' <= MaxRetries + 1
  <2>1. Sent(e) <= MaxRetries + 1
    BY DEF SentByAttempts
  <2> QED
    BY <2>1, <1>1, <1>a, OnlyPostsSend
<1>3. ASSUME first' <= e PROVE Sent(e)' = 0
  <2>1. first <= e /\ Sent(e) = 0
    BY <1>3, <1>a, <1>b DEF SentByAttempts
  <2>2. \A t \in Shippers : e \notin In(batch[t])
    BY <2>1, <1>a DEF Drained
  <2> QED
    BY <2>1, <2>2, <1>a, OnlyPostsSend
<1>4. ASSUME NEW u \in Shippers, e \in In(batch'[u])
      PROVE  Sent(e)' <= Attempts(u)'
  <2>1. CASE Drain(u)
    <3> DEFINE upto == IF first + BatchSize < next
                       THEN first + BatchSize ELSE next
    <3>1. batch'[u] = [from |-> first, upto |-> upto]
      BY <2>1, <1>a DEF Drain, TypeOK
    <3>2. first <= e
      BY <3>1, <1>4 DEF In
    <3>3. Sent(e) = 0
      BY <3>2 DEF SentByAttempts
    <3>4. \A t \in Shippers : e \notin In(batch[t])
      BY <3>2, <1>a DEF Drained
    <3> QED
      BY <3>3, <3>4, <1>a, OnlyPostsSend
  <2>2. CASE /\ batch'[u] = batch[u]
             /\ Attempts(u)' >= Attempts(u)
             /\ Post(u) => Attempts(u)' = Attempts(u) + 1
    <3>1. Sent(e) <= Attempts(u)
      BY <2>2, <1>4 DEF SentByAttempts
    <3>2. \A t \in Shippers : e \in In(batch[t]) => t = u
      BY <2>2, <1>4 DEF NoEventInTwoHands, Shippers
    <3> QED
      BY <3>1, <3>2, <2>2, <1>a, OnlyPostsSend
  <2> QED
    BY <2>1, <2>2, <1>4, <1>a, AttemptsAreCounted
<1> QED
  BY <1>2, <1>3, <1>4

(* An event has at most one row for each attempt at its batch, whatever     *)
(* answers are lost or late, whatever sessions fail and however the two     *)
(* threads take turns (lbro_agent.py, _ship_batch; events.py,               *)
(* ingest_event_batch).                                                     *)
THEOREM CopiesAreCounted == Spec => []CopiesAreAttempts
<1> DEFINE Inv == RequestInv /\ NoEventInTwoHands /\ SentByAttempts
<1>1. Init => Inv
  <2> SUFFICES ASSUME Init PROVE Inv
    OBVIOUS
  <2>1. RequestInv
    BY TypeInitial DEF Init, IdleHands, Requested, RequestInv
  <2>2. \A t \in Shippers : In(batch[t]) = {}
    BY NoBatchHoldsNothing DEF Init
  <2>3. NoEventInTwoHands
    BY <2>2 DEF NoEventInTwoHands, Shippers
  <2>4. ASSUME NEW e \in Events PROVE Sent(e) = 0
    <3>1. Uncommitted(e) = {} /\ copies[e] = 0
      BY DEF Init, Uncommitted
    <3> QED
      BY <3>1, FS_EmptySet DEF Sent
  <2>5. SentByAttempts
    BY <2>2, <2>4, Sizes DEF SentByAttempts, Sizes
  <2> QED
    BY <2>1, <2>3, <2>5
<1>2. Inv /\ [Next]_vars => Inv'
  BY TypeInductive, IdleInductive, RequestedInductive, HandsInductive,
     SentInductive DEF RequestInv, TypeInv
<1>3. Inv => CopiesAreAttempts
  <2> SUFFICES ASSUME Inv, NEW e \in Events PROVE copies[e] <= MaxRetries + 1
    BY DEF CopiesAreAttempts
  <2>1. Sent(e) <= MaxRetries + 1
    BY DEF SentByAttempts
  <2>2. TypeOK /\ MaxRetries \in Nat
    BY Sizes DEF RequestInv, TypeInv, Sizes
  <2> QED
    BY <2>1, <2>2, SentIsCounted DEF Sent
<1> QED
  BY <1>1, <1>2, <1>3, PTL DEF Spec

=============================================================================
