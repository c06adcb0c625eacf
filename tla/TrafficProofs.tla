---------------------------- MODULE TrafficProofs ----------------------------
(***************************************************************************)
(* Proofs about what lets requests and events in and out, modules          *)
(* RateLimit, LiveStream, SdkCalls and LogTail: that no window of time     *)
(* sees more requests than the limit at any of the API's processes, that a *)
(* viewer of the live stream misses only what its queue dropped, what was  *)
(* in flight and what other processes published, that a caller of an SDK   *)
(* is told what becomes of its events, and that a watcher yields the text  *)
(* of its files in order, once and without a gap but at an opening.        *)
(***************************************************************************)
EXTENDS RateLimit, LiveStream, SdkCalls, LogTail, FiniteSetTheorems,
        SequenceTheorems, WellFoundedInduction, TLAPS

(* Sets of natural numbers have a least element.                           *)
LEMMA LeastNumber ==
    ASSUME NEW S \in SUBSET Nat, S # {}
    PROVE  \E n \in S : \A m \in S : n <= m
<1> DEFINE R == OpToRel(<, Nat)
<1>1. R = {ss \in Nat \X Nat : ss[1] < ss[2]}
  BY DEF OpToRel
<1>2. \E x \in S : \A y \in S : ~ (<<y, x>> \in R)
  BY NatLessThanWellFounded, WFMin
<1> HIDE DEF R
<1>3. PICK n \in S : \A m \in S : ~ (<<m, n>> \in R)
  BY <1>2
<1>4. ASSUME NEW m \in S, m < n PROVE FALSE
  <2>1. <<m, n>> \in Nat \X Nat /\ <<m, n>>[1] < <<m, n>>[2]
    BY <1>4
  <2> QED
    BY <2>1, <1>1, <1>3
<1> QED
  BY <1>4

-----------------------------------------------------------------------------
(* RateLimit. *)

(* The queue holds the latest of the times let in, and all of those that   *)
(* are inside the window.                                                  *)
Latest(q, times) ==
    /\ Len(q) <= Len(times)
    /\ \A i \in 1..Len(q) : q[i] = times[Len(times) - Len(q) + i]
    /\ \A i \in 1 .. Len(times) - Len(q) : times[i] + Window < clock

(* Times let in, one after the other, and more than a window apart once    *)
(* the limit of them lie in between.                                       *)
Spread(times) ==
    /\ \A i, j \in DOMAIN times : i < j => times[i] <= times[j]
    /\ \A i \in DOMAIN times :
          i + Limit <= Len(times) => times[i] + Window < times[i + Limit]

LimiterInv ==
    /\ LimiterTypeOK
    /\ \A k \in Keys : Latest(Queue(k), letIn[k]) /\ Spread(letIn[k])

LEMMA LimiterNumbers ==
    /\ Limit \in Nat /\ Limit > 0
    /\ Window \in Nat /\ PurgeInterval \in Nat /\ MaxClock \in Nat
  BY WindowLimits

LEMMA QueueType ==
    ASSUME LimiterTypeOK, NEW k \in Keys
    PROVE  /\ Queue(k) \in Seq(0..clock)
           /\ letIn[k] \in Seq(0..clock)
           /\ clock \in Nat
<1>1. <<>> \in Seq(0..clock)
  BY EmptySeq
<1>2. Queue(k) \in Seq(0..clock)
  BY <1>1 DEF LimiterTypeOK, Queue
<1> QED
  BY <1>2, LimiterNumbers DEF LimiterTypeOK

LEMMA RecentFacts ==
    ASSUME clock \in Nat, NEW q \in Seq(0..clock)
    PROVE  \E n \in 0..Len(q) :
              /\ Recent(q) = SubSeq(q, n + 1, Len(q))
              /\ \A i \in 1..n : q[i] + Window < clock
<1> DEFINE Old(i) == clock - q[i] > Window
           Exit(n) == /\ \A i \in 1..n : Old(i)
                      /\ n < Len(q) => ~Old(n + 1)
           Stops == {n \in 0..Len(q) : n < Len(q) => ~Old(n + 1)}
<1>1. Len(q) \in Nat /\ DOMAIN q = 1..Len(q)
  BY LenProperties
<1>2. PICK n \in Stops : \A m \in Stops : n <= m
  <2>1. Len(q) \in Stops /\ Stops \subseteq Nat
    BY <1>1
  <2> QED
    BY <2>1, LeastNumber
<1>3. Exit(n)
  <2>1. ASSUME NEW i \in 1..n PROVE Old(i)
    <3>1. i \in Nat /\ i > 0 /\ i <= n /\ n <= Len(q) /\ (i - 1) + 1 = i
      BY <1>1, <1>2
    <3>2. i - 1 \in 0..Len(q) /\ i - 1 < Len(q)
      BY <1>1, <3>1
    <3>3. i - 1 \notin Stops
      BY <1>1, <1>2, <3>1, <3>2
    <3>4. ~(i - 1 < Len(q) => ~Old((i - 1) + 1))
      BY <3>2, <3>3
    <3> QED
      BY <3>1, <3>4
  <2> QED
    BY <2>1, <1>2
<1> DEFINE c == CHOOSE m \in 0..Len(q) : Exit(m)
<1>4. /\ c \in 0..Len(q) /\ Exit(c)
      /\ Recent(q) = SubSeq(q, c + 1, Len(q))
  <2>1. \E m \in 0..Len(q) : Exit(m)
    BY <1>2, <1>3
  <2>2. c \in 0..Len(q) /\ Exit(c)
    BY <2>1
  <2>3. Recent(q) = SubSeq(q, c + 1, Len(q))
    BY DEF Recent
  <2> QED
    BY <2>2, <2>3
<1> HIDE DEF c
<1>5. ASSUME NEW i \in 1..c PROVE q[i] + Window < clock
  <2>1. q[i] \in 0..clock /\ clock - q[i] > Window
    BY <1>1, <1>4, ElementOfSeq
  <2> QED
    BY <2>1, LimiterNumbers
<1> QED
  BY <1>4, <1>5

LEMMA RecentKeepsLatest ==
    ASSUME clock \in Nat, NEW q \in Seq(0..clock), NEW times \in Seq(0..clock),
           Latest(q, times)
    PROVE  /\ Recent(q) \in Seq(0..clock)
           /\ Latest(Recent(q), times)
<1> DEFINE r == Recent(q)
           d == Len(times) - Len(q)
<1>1. PICK n \in 0..Len(q) : /\ r = SubSeq(q, n + 1, Len(q))
                             /\ \A i \in 1..n : q[i] + Window < clock
  BY RecentFacts
<1>2. Len(q) \in Nat /\ Len(times) \in Nat /\ DOMAIN q = 1..Len(q)
  BY LenProperties
<1>3. /\ r \in Seq(0..clock)
      /\ Len(r) = Len(q) - n
      /\ \A i \in 1 .. Len(q) - n : r[i] = q[n + i]
  <2>1. \A i \in n + 1 .. Len(q) : q[i] \in 0..clock
    BY <1>2, ElementOfSeq
  <2>2. /\ SubSeq(q, n + 1, Len(q)) \in Seq(0..clock)
        /\ Len(SubSeq(q, n + 1, Len(q))) =
              IF n + 1 <= Len(q) THEN Len(q) - (n + 1) + 1 ELSE 0
        /\ \A i \in 1 .. Len(q) - (n + 1) + 1 :
              SubSeq(q, n + 1, Len(q))[i] = q[(n + 1) + i - 1]
    BY <1>2, <2>1, SubSeqProperties
  <2>3. Len(r) = Len(q) - n
    <3>1. Len(r) = IF n + 1 <= Len(q) THEN Len(q) - (n + 1) + 1 ELSE 0
      BY <1>1, <2>2
    <3>2. n \in Int /\ Len(q) \in Int /\ n <= Len(q)
      BY <1>2
    <3> QED
      BY <3>1, <3>2
  <2>4. \A i \in 1 .. Len(q) - n :
           i \in 1 .. Len(q) - (n + 1) + 1 /\ (n + 1) + i - 1 = n + i
    BY <1>2
  <2>5. \A i \in 1 .. Len(q) - n : r[i] = q[n + i]
    BY <1>1, <2>2, <2>4
  <2> QED
    BY <1>1, <2>2, <2>3, <2>5
<1> HIDE DEF r
<1>4. \A i \in 1 .. Len(r) : r[i] = times[Len(times) - Len(r) + i]
  <2> SUFFICES ASSUME NEW i \in 1 .. Len(r)
               PROVE  r[i] = times[Len(times) - Len(r) + i]
    OBVIOUS
  <2>1. n + i \in 1..Len(q) /\ r[i] = q[n + i]
        /\ d + (n + i) = Len(times) - Len(r) + i
    BY <1>2, <1>3
  <2> QED
    BY <2>1 DEF Latest
<1>5. ASSUME NEW i \in 1 .. Len(times) - Len(r)
      PROVE  times[i] + Window < clock
  <2>1. CASE i <= d
    BY <1>2, <1>3, <1>5, <2>1 DEF Latest
  <2>2. CASE ~(i <= d)
    <3>1. i - d \in 1..n /\ i - d \in 1..Len(q) /\ d + (i - d) = i
      BY <1>2, <1>3, <1>5, <2>2 DEF Latest
    <3>2. q[i - d] = times[d + (i - d)]
      BY <3>1 DEF Latest
    <3> QED
      BY <1>1, <3>1, <3>2
  <2> QED
    BY <2>1, <2>2
<1> QED
  BY <1>2, <1>3, <1>4, <1>5 DEF Latest, r

(* A request is let in: one more time, the latest of all.                  *)
LEMMA LetInSpreads ==
    ASSUME clock \in Nat, NEW q \in Seq(0..clock), NEW times \in Seq(0..clock),
           Latest(q, times), Spread(times), Len(q) < Limit
    PROVE  /\ Append(q, clock) \in Seq(0..clock)
           /\ Append(times, clock) \in Seq(0..clock)
           /\ Latest(Append(q, clock), Append(times, clock))
           /\ Spread(Append(times, clock))
<1> DEFINE n == Len(times)
           more == Append(times, clock)
           longer == Append(q, clock)
<1>1. /\ n \in Nat /\ Len(q) \in Nat /\ clock \in 0..clock
      /\ \A i \in 1..n : times[i] \in 0..clock
      /\ DOMAIN times = 1..n
  BY LenProperties, ElementOfSeq
<1>2. /\ more \in Seq(0..clock) /\ Len(more) = n + 1
      /\ \A i \in 1..n : more[i] = times[i]
      /\ more[n + 1] = clock /\ DOMAIN more = 1 .. n + 1
  BY <1>1, AppendProperties, LenProperties
<1>3. /\ longer \in Seq(0..clock) /\ Len(longer) = Len(q) + 1
      /\ \A i \in 1..Len(q) : longer[i] = q[i]
      /\ longer[Len(q) + 1] = clock
  BY <1>1, AppendProperties
<1> HIDE DEF n, more, longer
<1>4. Latest(longer, more)
  <2>1. ASSUME NEW i \in 1 .. Len(q) + 1
        PROVE  longer[i] = more[n - Len(q) + i]
    <3>1. CASE i = Len(q) + 1
      <4>1. n - Len(q) + i = n + 1
        BY <1>1, <3>1
      <4> QED
        BY <1>2, <1>3, <3>1, <4>1
    <3>2. CASE i # Len(q) + 1
      <4>1. i \in 1..Len(q) /\ n - Len(q) + i \in 1..n
        BY <1>1, <2>1, <3>2 DEF Latest, n
      <4> QED
        BY <1>2, <1>3, <4>1 DEF Latest, n
    <3> QED
      BY <3>1, <3>2
  <2>2. \A i \in 1 .. n - Len(q) : more[i] + Window < clock
    BY <1>1, <1>2 DEF Latest, n
  <2>3. /\ Len(more) - Len(longer) = n - Len(q)
        /\ Len(longer) <= Len(more)
    BY <1>1, <1>2, <1>3 DEF Latest, n
  <2> QED
    BY <1>3, <2>1, <2>2, <2>3 DEF Latest
<1>5. Spread(more)
  <2>1. ASSUME NEW i \in 1 .. n + 1, NEW j \in 1 .. n + 1, i < j
        PROVE  more[i] <= more[j]
    <3>1. CASE j = n + 1
      BY <1>1, <1>2, <2>1, <3>1
    <3>2. CASE j # n + 1
      <4>1. i \in 1..n /\ j \in 1..n
        BY <1>1, <2>1, <3>2
      <4>2. times[i] <= times[j]
        BY <1>1, <2>1, <4>1 DEF Spread
      <4> QED
        BY <1>2, <4>1, <4>2
    <3> QED
      BY <3>1, <3>2
  <2>2. ASSUME NEW i \in 1 .. n + 1, i + Limit <= n + 1
        PROVE  more[i] + Window < more[i + Limit]
    <3>1. CASE i + Limit = n + 1
      <4>1. i \in 1 .. n - Len(q)
        BY <1>1, <2>2, <3>1, LimiterNumbers DEF Latest, n
      <4>2. times[i] + Window < clock
        BY <4>1 DEF Latest, n
      <4>3. i \in 1..n
        BY <1>1, <2>2, <3>1, LimiterNumbers
      <4> QED
        BY <1>2, <3>1, <4>2, <4>3
    <3>2. CASE i + Limit # n + 1
      <4>1. i \in 1..n /\ i + Limit \in 1..n
        BY <1>1, <2>2, <3>2, LimiterNumbers
      <4>2. i + Limit <= Len(times)
        BY <1>1, <4>1 DEF n
      <4>3. times[i] + Window < times[i + Limit]
        BY <1>1, <4>1, <4>2 DEF Spread
      <4> QED
        BY <1>2, <4>1, <4>3
    <3> QED
      BY <3>1, <3>2
  <2> QED
    BY <1>2, <2>1, <2>2 DEF Spread
<1> QED
  BY <1>2, <1>3, <1>4, <1>5 DEF more, longer

(* What the queues are after a request.                                    *)
LEMMA QueuesAfterLetIn ==
    ASSUME LimiterTypeOK, NEW k \in Keys, LetIn(k)
    PROVE  /\ DOMAIN windows' \subseteq Keys
           /\ \A j \in Keys :
                 Queue(j)' = IF j = k THEN Append(Recent(Queue(k)), clock)
                             ELSE Queue(j)
           /\ \A j \in DOMAIN windows' : windows'[j] = Queue(j)'
<1> DEFINE more == Append(Recent(Queue(k)), clock)
           ws == [j \in DOMAIN windows \cup {k} |->
                     IF j = k THEN more ELSE windows[j]]
<1>1. windows' = ws \/ windows' = [j \in DOMAIN ws \ Stale(k[1], ws) |-> ws[j]]
  BY DEF LetIn, Kept
<1>2. DOMAIN ws = DOMAIN windows \cup {k} /\ DOMAIN windows \subseteq Keys
  BY DEF LimiterTypeOK
<1>3. more # <<>>
  <2>1. /\ Queue(k) \in Seq(0..clock) /\ clock \in Nat
    BY QueueType
  <2>2. Recent(Queue(k)) \in Seq(0..clock)
    <3>1. Len(Queue(k)) \in Nat /\ DOMAIN Queue(k) = 1..Len(Queue(k))
      BY <2>1, LenProperties
    <3>2. PICK n \in 0..Len(Queue(k)) :
             Recent(Queue(k)) = SubSeq(Queue(k), n + 1, Len(Queue(k)))
      BY <2>1, RecentFacts
    <3>3. \A i \in n + 1 .. Len(Queue(k)) : Queue(k)[i] \in 0..clock
      BY <2>1, <3>1, ElementOfSeq
    <3> QED
      BY <3>1, <3>2, <3>3, SubSeqProperties
  <2>3. Len(more) = Len(Recent(Queue(k))) + 1 /\ Len(Recent(Queue(k))) \in Nat
    BY <2>1, <2>2, AppendProperties, LenProperties
  <2> QED
    BY <2>3, EmptySeq
<1> HIDE DEF more
<1>4. ASSUME NEW j \in Keys
      PROVE  Queue(j)' = IF j = k THEN more ELSE Queue(j)
  <2>1. CASE windows' = ws
    BY <1>2, <2>1 DEF Queue
  <2>2. CASE windows' = [i \in DOMAIN ws \ Stale(k[1], ws) |-> ws[i]]
    BY <1>2, <1>3, <2>2 DEF Queue, Stale
  <2> QED
    BY <1>1, <2>1, <2>2
<1>5. DOMAIN windows' \subseteq Keys
  BY <1>1, <1>2
<1>6. \A j \in DOMAIN windows' : windows'[j] = Queue(j)'
  BY DEF Queue
<1> QED
  BY <1>4, <1>5, <1>6 DEF more

LEMMA TickTypes == LimiterTypeOK /\ Tick => LimiterTypeOK'
<1> SUFFICES ASSUME LimiterTypeOK, Tick PROVE LimiterTypeOK'
  OBVIOUS
<1>1. clock' = clock + 1 /\ UNCHANGED <<windows, purged, letIn, advised>>
      /\ clock \in Nat /\ clock' \in 0..MaxClock
  BY LimiterNumbers DEF Tick, LimiterTypeOK
<1>2. 0..clock \subseteq 0..clock' /\ Seq(0..clock) \subseteq Seq(0..clock')
  <2>1. 0..clock \subseteq 0..clock'
    BY <1>1
  <2>2. ASSUME NEW s \in Seq(0..clock) PROVE s \in Seq(0..clock')
    BY <2>1, SeqMonotonic
  <2> QED
    BY <2>1, <2>2
<1>3. letIn' \in [Keys -> Seq(0..clock')]
  BY <1>1, <1>2 DEF LimiterTypeOK
<1>4. \A k \in DOMAIN windows' : windows'[k] \in Seq(0..clock')
  BY <1>1, <1>2 DEF LimiterTypeOK
<1>5. purged' \in [Processes -> 0..clock']
  BY <1>1, <1>2 DEF LimiterTypeOK
<1>6. DOMAIN windows' \subseteq Keys /\ advised' \in [Keys -> 0..Limit]
  BY <1>1 DEF LimiterTypeOK
<1> QED
  BY <1>1, <1>3, <1>4, <1>5, <1>6 DEF LimiterTypeOK

LEMMA LimiterStep == LimiterInv /\ [LimiterNext]_limiterVars => LimiterInv'
<1> SUFFICES ASSUME LimiterInv, [LimiterNext]_limiterVars PROVE LimiterInv'
  OBVIOUS
<1>a. /\ LimiterTypeOK
      /\ \A k \in Keys : Latest(Queue(k), letIn[k]) /\ Spread(letIn[k])
  BY DEF LimiterInv
<1>b. /\ clock \in 0..MaxClock /\ clock \in Nat
      /\ purged \in [Processes -> 0..clock]
      /\ letIn \in [Keys -> Seq(0..clock)] /\ DOMAIN windows \subseteq Keys
      /\ \A k \in DOMAIN windows : windows[k] \in Seq(0..clock)
      /\ advised \in [Keys -> 0..Limit]
  BY <1>a, LimiterNumbers DEF LimiterTypeOK
<1>c. \A k \in Keys : Queue(k) \in Seq(0..clock) /\ letIn[k] \in Seq(0..clock)
  BY <1>a, QueueType
<1>1. CASE Tick
  <2>1. clock' = clock + 1 /\ UNCHANGED <<windows, purged, letIn, advised>>
        /\ clock' \in 0..MaxClock
    BY <1>1, <1>b, LimiterNumbers DEF Tick
  <2>2. 0..clock \subseteq 0..clock' /\ clock <= clock' /\ clock' \in Nat
    BY <2>1, <1>b
  <2>3. ASSUME NEW s \in Seq(0..clock) PROVE s \in Seq(0..clock')
    BY <2>2, SeqMonotonic
  <2>4. LimiterTypeOK'
    BY <1>1, <1>a, TickTypes
  <2>5. ASSUME NEW k \in Keys PROVE Latest(Queue(k), letIn[k])'
    <3>1. Len(Queue(k)) \in Nat
      BY <1>c, LenProperties
    <3>2. Latest(Queue(k), letIn[k])
      BY <1>a
    <3>3. Queue(k)' = Queue(k) /\ letIn' = letIn
      BY <2>1 DEF Queue
    <3>4. letIn[k] \in Seq(0..clock)
      BY <1>c
    <3>5. \A i \in 1 .. Len(letIn[k]) - Len(Queue(k)) :
             letIn[k][i] + Window < clock'
      <4>1. Len(letIn[k]) \in Nat
        BY <3>4, LenProperties
      <4> SUFFICES ASSUME NEW i \in 1 .. Len(letIn[k]) - Len(Queue(k))
                   PROVE  letIn[k][i] + Window < clock'
        OBVIOUS
      <4>2. i \in 1..Len(letIn[k])
        BY <3>1, <4>1
      <4>3. letIn[k][i] \in 0..clock /\ letIn[k][i] + Window < clock
        BY <3>2, <3>4, <4>2, ElementOfSeq DEF Latest
      <4> QED
        BY <1>b, <2>1, <4>3, LimiterNumbers
    <3> QED
      BY <3>2, <3>3, <3>5 DEF Latest
  <2> QED
    BY <2>1, <2>4, <2>5, <1>a DEF LimiterInv, Spread
<1>2. ASSUME NEW k \in Keys, LetIn(k) PROVE LimiterInv'
  <2> DEFINE r == Recent(Queue(k))
  <2>1. /\ r \in Seq(0..clock) /\ Latest(r, letIn[k])
    BY <1>a, <1>b, <1>c, RecentKeepsLatest
  <2>2. /\ Len(r) < Limit /\ clock' = clock /\ advised' = advised
        /\ letIn' = [letIn EXCEPT ![k] = Append(@, clock)]
        /\ purged' \in {purged, [purged EXCEPT ![k[1]] = clock]}
    BY <1>2 DEF LetIn
  <2>3. /\ Append(r, clock) \in Seq(0..clock)
        /\ Append(letIn[k], clock) \in Seq(0..clock)
        /\ Latest(Append(r, clock), Append(letIn[k], clock))
        /\ Spread(Append(letIn[k], clock))
    BY <1>a, <1>b, <1>c, <2>1, <2>2, LetInSpreads
  <2>4. /\ DOMAIN windows' \subseteq Keys
        /\ \A j \in Keys : Queue(j)' = IF j = k THEN Append(r, clock)
                                       ELSE Queue(j)
        /\ \A j \in DOMAIN windows' : windows'[j] = Queue(j)'
    BY <1>2, <1>a, QueuesAfterLetIn
  <2> HIDE DEF r
  <2>5. \A j \in Keys : letIn'[j] = IF j = k THEN Append(letIn[k], clock)
                                    ELSE letIn[j]
    BY <1>b, <2>2
  <2>6. LimiterTypeOK'
    <3>1. letIn' \in [Keys -> Seq(0..clock)]
      BY <1>b, <2>2, <2>3
    <3>2. \A j \in DOMAIN windows' : windows'[j] \in Seq(0..clock)
      BY <1>c, <2>3, <2>4
    <3>3. purged' \in [Processes -> 0..clock]
      <4>1. clock \in 0..clock
        BY <1>b
      <4> QED
        BY <1>b, <2>2, <4>1
    <3> QED
      BY <1>b, <2>2, <2>4, <3>1, <3>2, <3>3 DEF LimiterTypeOK
  <2>7. ASSUME NEW j \in Keys
        PROVE  Latest(Queue(j), letIn[j])' /\ Spread(letIn'[j])
    <3>1. CASE j = k
      <4>1. Queue(j)' = Append(r, clock) /\ letIn'[j] = Append(letIn[k], clock)
        BY <2>4, <2>5, <3>1
      <4> QED
        BY <2>2, <2>3, <4>1 DEF Latest
    <3>2. CASE j # k
      <4>1. Queue(j)' = Queue(j) /\ letIn'[j] = letIn[j]
        BY <2>4, <2>5, <3>2
      <4>2. Latest(Queue(j), letIn[j]) /\ Spread(letIn[j])
        BY <1>a
      <4> QED
        BY <2>2, <4>1, <4>2 DEF Latest
    <3> QED
      BY <3>1, <3>2
  <2> QED
    BY <2>6, <2>7 DEF LimiterInv, Spread
<1>3. ASSUME NEW k \in Keys, TurnAway(k) PROVE LimiterInv'
  <2> DEFINE r == Recent(Queue(k))
  <2>1. /\ r \in Seq(0..clock) /\ Latest(r, letIn[k])
    BY <1>a, <1>b, <1>c, RecentKeepsLatest
  <2>2. /\ windows' = [j \in DOMAIN windows \cup {k} |->
                          IF j = k THEN r ELSE windows[j]]
        /\ UNCHANGED <<clock, purged, letIn, advised>>
    BY <1>3 DEF TurnAway
  <2> HIDE DEF r
  <2>3. /\ DOMAIN windows' \subseteq Keys
        /\ \A j \in Keys : Queue(j)' = IF j = k THEN r ELSE Queue(j)
        /\ \A j \in DOMAIN windows' : windows'[j] \in Seq(0..clock)
    BY <1>b, <2>1, <2>2 DEF Queue
  <2>4. LimiterTypeOK'
    BY <1>b, <2>2, <2>3 DEF LimiterTypeOK
  <2>5. ASSUME NEW j \in Keys PROVE Latest(Queue(j), letIn[j])'
    <3>1. Latest(Queue(j), letIn[j]) /\ Latest(r, letIn[k])
      BY <1>a, <2>1
    <3>2. Queue(j)' = (IF j = k THEN r ELSE Queue(j))
      BY <2>3
    <3> QED
      BY <2>2, <3>1, <3>2 DEF Latest
  <2> QED
    BY <1>a, <2>2, <2>4, <2>5 DEF LimiterInv, Spread
<1>4. ASSUME NEW k \in Keys, Respond(k) PROVE LimiterInv'
  <2>1. windows[k] \in Seq(0..clock)
    BY <1>4, <1>b DEF Respond
  <2>2. Len(windows[k]) \in Nat
    BY <2>1, LenProperties
  <2>3. advised' \in [Keys -> 0..Limit]
    BY <1>4, <1>b, <2>2, LimiterNumbers DEF Respond
  <2>4. UNCHANGED <<clock, windows, purged, letIn>>
    BY <1>4 DEF Respond
  <2> QED
    BY <1>a, <1>b, <2>3, <2>4 DEF LimiterInv, LimiterTypeOK, Queue, Latest, Spread
<1>5. CASE UNCHANGED limiterVars
  BY <1>5, <1>a
  DEF limiterVars, LimiterInv, LimiterTypeOK, Queue, Latest, Spread
<1> QED
  BY <1>1, <1>2, <1>3, <1>4, <1>5 DEF LimiterNext

LEMMA LimiterInitial == LimiterInit => LimiterInv
<1> SUFFICES ASSUME LimiterInit PROVE LimiterInv
  OBVIOUS
<1>1. /\ DOMAIN windows = {} /\ <<>> \in Seq(0..clock) /\ Len(<<>>) = 0
      /\ DOMAIN <<>> = {}
  BY EmptySeq DEF LimiterInit
<1>2. LimiterTypeOK
  BY <1>1, LimiterNumbers DEF LimiterInit, LimiterTypeOK
<1>3. \A k \in Keys : Queue(k) = <<>> /\ letIn[k] = <<>>
  BY <1>1 DEF LimiterInit, Queue
<1>4. Latest(<<>>, <<>>) /\ Spread(<<>>)
  BY <1>1 DEF Latest, Spread
<1> QED
  BY <1>2, <1>3, <1>4 DEF LimiterInv

(* Every reachable state of the limiter is well typed.                     *)
THEOREM LimiterTypeCorrect == LimiterSpec => []LimiterTypeOK
<1>1. LimiterInv => LimiterTypeOK
  BY DEF LimiterInv
<1> QED
  BY <1>1, LimiterInitial, LimiterStep, PTL DEF LimiterSpec

(* Two times in one window are less than the limit apart in the order of   *)
(* the requests.                                                           *)
LEMMA WindowIsShort ==
    ASSUME NEW times \in Seq(Nat), Spread(times), NEW t \in Nat
    PROVE  \E f \in Nat :
              {i \in DOMAIN times : t <= times[i] /\ times[i] <= t + Window}
                  \subseteq f .. f + Limit - 1
<1> DEFINE S == {i \in DOMAIN times : t <= times[i] /\ times[i] <= t + Window}
<1>1. Len(times) \in Nat /\ DOMAIN times = 1..Len(times)
      /\ \A i \in 1..Len(times) : times[i] \in Nat
  BY LenProperties, ElementOfSeq
<1>2. CASE S = {}
  <2>1. 0 \in Nat /\ S \subseteq 0 .. 0 + Limit - 1
    BY <1>2
  <2> QED
    BY <2>1
<1>3. CASE S # {}
  <2>1. S \subseteq Nat
    BY <1>1
  <2>2. PICK f \in S : \A i \in S : f <= i
    BY <1>3, <2>1, LeastNumber
  <2>3. ASSUME NEW i \in S PROVE i \in f .. f + Limit - 1
    <3>1. f \in Nat /\ i \in Nat /\ f <= i /\ i <= Len(times)
      BY <1>1, <2>2
    <3>2. ASSUME f + Limit <= i PROVE FALSE
      <4>1. /\ f \in DOMAIN times /\ f + Limit \in DOMAIN times
            /\ i \in DOMAIN times /\ f + Limit <= Len(times)
        BY <1>1, <3>1, <3>2, LimiterNumbers
      <4>2. times[f] + Window < times[f + Limit]
        BY <4>1 DEF Spread
      <4>3. f + Limit = i \/ times[f + Limit] <= times[i]
        BY <3>1, <3>2, <4>1, LimiterNumbers DEF Spread
      <4>4. t <= times[f] /\ times[i] <= t + Window
        BY <2>2
      <4>5. /\ times[f] \in Nat /\ times[f + Limit] \in Nat /\ times[i] \in Nat
        BY <1>1, <4>1
      <4>6. times[f + Limit] <= times[i]
        BY <4>3, <4>5
      <4> QED
        BY <4>2, <4>4, <4>5, <4>6, LimiterNumbers
    <3> QED
      BY <3>1, <3>2, LimiterNumbers
  <2> QED
    BY <2>1, <2>2, <2>3
<1> QED
  BY <1>2, <1>3

(* Stretches of n numbers each, one for every member of P, hold no more    *)
(* than n times as many numbers as P has members.                          *)
LEMMA EvenShares ==
    ASSUME NEW P, IsFiniteSet(P), NEW n \in Nat, NEW from \in [P -> Nat], NEW T,
           \A x \in T : \E p \in P : \E i \in from[p] .. from[p] + n - 1 :
               x = <<p, i>>
    PROVE  Cardinality(T) <= Cardinality(P) * n
<1> DEFINE D == P \X (0 .. n - 1)
           f == [x \in T |-> <<x[1], x[2] - from[x[1]]>>]
<1>1. ASSUME NEW x \in T
      PROVE  /\ x = <<x[1], x[2]>> /\ x[1] \in P
             /\ x[2] \in Nat /\ from[x[1]] \in Nat
             /\ x[2] - from[x[1]] \in 0 .. n - 1
  <2>1. PICK p \in P : \E i \in from[p] .. from[p] + n - 1 : x = <<p, i>>
    OBVIOUS
  <2>2. PICK i \in from[p] .. from[p] + n - 1 : x = <<p, i>>
    BY <2>1
  <2>3. from[p] \in Nat
    OBVIOUS
  <2> QED
    BY <2>2, <2>3
<1>2. f \in [T -> D]
  BY <1>1
<1>3. ASSUME NEW x \in T, NEW y \in T, f[x] = f[y] PROVE x = y
  <2>1. x[1] = y[1] /\ x[2] - from[x[1]] = y[2] - from[y[1]]
    BY <1>3
  <2>2. x[2] = y[2]
    BY <1>1, <2>1
  <2> QED
    BY <1>1, <2>1, <2>2
<1>4. f \in Injection(T, D)
  BY <1>2, <1>3 DEF Injection, IsInjective
<1>5. IsFiniteSet(0 .. n - 1) /\ Cardinality(0 .. n - 1) = n
  BY FS_Interval
<1>6. IsFiniteSet(D) /\ Cardinality(D) = Cardinality(P) * n
  BY <1>5, FS_Product
<1> HIDE DEF D, f
<1> QED
  BY <1>4, <1>6, FS_Injection

(* No window of time sees more than the limit of a client let in by one    *)
(* process, nor more than that times the number of processes by all, for   *)
(* every limit, length of the window and number of processes, wherever it  *)
(* starts and whatever is dropped by refusals and purges in between        *)
(* (RateLimitMiddleware.dispatch).                                         *)
THEOREM WindowCorrect == LimiterSpec => []WindowNeverExceeded
<1>1. LimiterInv => WindowNeverExceeded
  <2> SUFFICES ASSUME LimiterInv, NEW c \in Clients, NEW t \in 0..clock
               PROVE  /\ \A p \in Processes :
                            Cardinality(WithinOne(<<p, c>>, t)) <= Limit
                      /\ Cardinality(Within(c, t))
                            <= Cardinality(Processes) * Limit
    BY DEF WindowNeverExceeded
  <2>1. ASSUME NEW p \in Processes
        PROVE  \E f \in Nat : WithinOne(<<p, c>>, t) \subseteq f .. f + Limit - 1
    <3>1. <<p, c>> \in Keys
      BY DEF Keys
    <3>2. /\ letIn[<<p, c>>] \in Seq(0..clock) /\ clock \in Nat
          /\ Spread(letIn[<<p, c>>])
      BY <3>1, QueueType DEF LimiterInv
    <3>3. letIn[<<p, c>>] \in Seq(Nat) /\ t \in Nat
      BY <3>2, SeqMonotonic
    <3> QED
      BY <3>2, <3>3, WindowIsShort DEF WithinOne
  <2>2. ASSUME NEW p \in Processes
        PROVE  Cardinality(WithinOne(<<p, c>>, t)) <= Limit
    <3>1. PICK f \in Nat : WithinOne(<<p, c>>, t) \subseteq f .. f + Limit - 1
      BY <2>1
    <3>2. /\ IsFiniteSet(f .. f + Limit - 1)
          /\ Cardinality(f .. f + Limit - 1) = Limit
      <4>1. f \in Int /\ f + Limit - 1 \in Int /\ ~(f > f + Limit - 1)
            /\ (f + Limit - 1) - f + 1 = Limit
        BY LimiterNumbers
      <4> QED
        BY <4>1, FS_Interval
    <3> QED
      BY <3>1, <3>2, FS_Subset
  <2> DEFINE from == [p \in Processes |-> CHOOSE f \in Nat :
                        WithinOne(<<p, c>>, t) \subseteq f .. f + Limit - 1]
  <2>3. ASSUME NEW p \in Processes
        PROVE  /\ from[p] \in Nat
               /\ WithinOne(<<p, c>>, t) \subseteq from[p] .. from[p] + Limit - 1
    BY <2>1
  <2>4. from \in [Processes -> Nat]
    BY <2>3
  <2> HIDE DEF from
  <2>5. ASSUME NEW x \in Within(c, t)
        PROVE  \E p \in Processes : \E i \in from[p] .. from[p] + Limit - 1 :
                  x = <<p, i>>
    BY <2>3 DEF Within
  <2>6. Cardinality(Within(c, t)) <= Cardinality(Processes) * Limit
    BY <2>4, <2>5, SomeProcesses, LimiterNumbers, EvenShares
  <2> QED
    BY <2>2, <2>6
<1> QED
  BY <1>1, LimiterInitial, LimiterStep, PTL DEF LimiterSpec

-----------------------------------------------------------------------------
(* LiveStream. *)

Entry == [bucket : Buckets, by : Senders]
Fates == {"open", "stored", "undone"}
ViewerOf == [stage : {"away", "told", "open"},
             bucket : Buckets \cup {Nowhere}, since : Nat]

(* What the viewers hold, of the events with these numbers.                *)
ListingOf(numbers) == [done : BOOLEAN, upto : Nat, stored : SUBSET numbers,
                       open : SUBSET numbers]

HoldingsTyped(numbers) ==
    /\ listing \in [Viewers -> ListingOf(numbers)]
    /\ queue \in [Viewers -> Seq(numbers)]
    /\ \A v \in Viewers : Len(queue[v]) <= QueueSize
    /\ seen \in [Viewers -> Seq(numbers)]
    /\ dropped \in [Viewers -> SUBSET numbers]

LEMMA StreamTyping ==
    StreamTypeOK <=> /\ log \in Seq(Entry)
                     /\ fate \in [DOMAIN log -> Fates]
                     /\ sender \in [Senders -> Buckets \cup {Nowhere}]
                     /\ viewer \in [Viewers -> ViewerOf]
                     /\ HoldingsTyped(DOMAIN log)
  BY DEF StreamTypeOK, Entry, Fates, ViewerOf, HoldingsTyped, ListingOf

LEMMA EmptyHands ==
    ASSUME NEW numbers
    PROVE  /\ NotListed \in ListingOf(numbers)
           /\ <<>> \in Seq(numbers) /\ Len(<<>>) = 0
           /\ Away \in ViewerOf
  BY EmptySeq DEF NotListed, Away, ViewerOf, ListingOf

(* One more event in the log.                                              *)
LEMMA LogGrows ==
    ASSUME NEW w \in Senders, log \in Seq(Entry), fate \in [DOMAIN log -> Fates],
           sender \in [Senders -> Buckets \cup {Nowhere}], Publish(w)
    PROVE  /\ Len(log) \in Nat /\ DOMAIN log = 1..Len(log)
           /\ log' \in Seq(Entry) /\ Len(log') = Len(log) + 1
           /\ DOMAIN log' = 1 .. Len(log) + 1
           /\ log'[Len(log) + 1].bucket = sender[w]
           /\ \A n \in DOMAIN log : log'[n] = log[n] /\ fate'[n] = fate[n]
           /\ fate' \in [DOMAIN log' -> Fates] /\ fate'[Len(log) + 1] = "open"
<1> DEFINE e == [bucket |-> sender[w], by |-> w]
<1>1. e \in Entry /\ log' = Append(log, e) /\ fate' = Append(fate, "open")
  BY DEF Publish, Entry
<1>2. Len(log) \in Nat /\ DOMAIN log = 1..Len(log)
  BY LenProperties
<1>3. fate \in Seq(Fates) /\ Len(fate) = Len(log)
  <2>1. fate \in Seq(Fates)
    BY <1>2, SeqDef
  <2>2. Len(fate) \in Nat /\ DOMAIN fate = 1..Len(fate)
    BY <2>1, LenProperties
  <2>3. DOMAIN fate = 1..Len(log)
    BY <1>2
  <2> QED
    BY <1>2, <2>1, <2>2, <2>3
<1>4. /\ log' \in Seq(Entry) /\ Len(log') = Len(log) + 1
      /\ \A n \in 1..Len(log) : log'[n] = log[n]
      /\ log'[Len(log) + 1] = e
  BY <1>1, AppendProperties
<1>5. /\ fate' \in Seq(Fates) /\ Len(fate') = Len(log) + 1
      /\ \A n \in 1..Len(log) : fate'[n] = fate[n]
      /\ fate'[Len(log) + 1] = "open"
  <2>1. "open" \in Fates
    BY DEF Fates
  <2> QED
    BY <1>1, <1>3, <2>1, AppendProperties
<1>6. DOMAIN log' = 1 .. Len(log) + 1
  BY <1>4, LenProperties
<1>7. fate' \in [1 .. Len(log) + 1 -> Fates]
  BY <1>5, LenProperties
<1>8. log'[Len(log) + 1].bucket = sender[w]
  BY <1>4
<1> QED
  BY <1>2, <1>4, <1>5, <1>6, <1>7, <1>8

LEMMA WiderHands ==
    ASSUME NEW few, NEW many, few \subseteq many, HoldingsTyped(few)
    PROVE  HoldingsTyped(many)
<1>1. Seq(few) \subseteq Seq(many)
  BY SeqMonotonic
<1>2. ListingOf(few) \subseteq ListingOf(many)
  BY DEF ListingOf
<1> QED
  BY <1>1, <1>2 DEF HoldingsTyped

LEMMA PublishHandsOut ==
    ASSUME NEW w \in Senders, Publish(w), Len(log) \in Nat,
           Len(log') = Len(log) + 1, HoldingsTyped(1..Len(log))
    PROVE  HoldingsTyped(1 .. Len(log))'
<1> DEFINE n == Len(log) + 1
           more == 1..n
<1>1. HoldingsTyped(more) /\ n \in more
  <2>1. 1..Len(log) \subseteq more
    OBVIOUS
  <2> QED
    BY <2>1, WiderHands
<1>2. /\ queue' = [v \in Viewers |-> IF v \in Listening(sender[w])
                                     THEN Waiting(v, n) ELSE queue[v]]
      /\ dropped' = [v \in Viewers |-> IF v \in Listening(sender[w]) /\ Full(v)
                                       THEN dropped[v] \cup {n} ELSE dropped[v]]
      /\ UNCHANGED <<listing, seen>>
  BY DEF Publish
<1> HIDE DEF n
<1>3. ASSUME NEW v \in Viewers
      PROVE  Waiting(v, n) \in Seq(more) /\ Len(Waiting(v, n)) <= QueueSize
  <2>1. queue[v] \in Seq(more) /\ Len(queue[v]) <= QueueSize
    BY <1>1 DEF HoldingsTyped
  <2>2. /\ Append(queue[v], n) \in Seq(more)
        /\ Len(Append(queue[v], n)) = Len(queue[v]) + 1
    BY <1>1, <2>1, AppendProperties
  <2>3. Len(queue[v]) \in Nat /\ QueueSize \in Nat
    BY <2>1, LenProperties, StreamLimits
  <2>4. CASE Full(v)
    BY <2>1, <2>4 DEF Waiting
  <2>5. CASE ~Full(v)
    <3>1. Len(Append(queue[v], n)) <= QueueSize
      BY <2>2, <2>3, <2>5 DEF Full
    <3> QED
      BY <2>2, <2>5, <3>1 DEF Waiting
  <2> QED
    BY <2>4, <2>5
<1>4. queue' \in [Viewers -> Seq(more)]
      /\ \A v \in Viewers : Len(queue'[v]) <= QueueSize
  BY <1>1, <1>2, <1>3 DEF HoldingsTyped
<1>5. dropped' \in [Viewers -> SUBSET more]
  BY <1>1, <1>2 DEF HoldingsTyped
<1> QED
  BY <1>1, <1>2, <1>4, <1>5 DEF HoldingsTyped, n

LEMMA StreamTypeStep == StreamTypeOK /\ [StreamNext]_streamVars => StreamTypeOK'
<1> SUFFICES ASSUME StreamTypeOK, [StreamNext]_streamVars PROVE StreamTypeOK'
  OBVIOUS
<1>a. /\ log \in Seq(Entry) /\ fate \in [DOMAIN log -> Fates]
      /\ sender \in [Senders -> Buckets \cup {Nowhere}]
      /\ viewer \in [Viewers -> ViewerOf]
      /\ HoldingsTyped(DOMAIN log)
      /\ Len(log) \in Nat /\ DOMAIN log = 1..Len(log)
  BY StreamTyping, LenProperties
<1>b. /\ log' \in Seq(Entry) /\ fate' \in [DOMAIN log' -> Fates]
      /\ sender' \in [Senders -> Buckets \cup {Nowhere}]
      /\ viewer' \in [Viewers -> ViewerOf]
      /\ HoldingsTyped(DOMAIN log)'
      => StreamTypeOK'
  BY DEF StreamTypeOK, Entry, Fates, ViewerOf, HoldingsTyped, ListingOf
<1>1. ASSUME NEW w \in Senders, NEW b \in Buckets, BeginIngest(w, b)
      PROVE  StreamTypeOK'
  <2>1. sender' \in [Senders -> Buckets \cup {Nowhere}]
        /\ UNCHANGED <<log, fate, viewer, listing, queue, seen, dropped>>
    BY <1>1, <1>a DEF BeginIngest
  <2> QED
    BY <1>a, <1>b, <2>1 DEF HoldingsTyped
<1>2. ASSUME NEW w \in Senders, Publish(w) PROVE StreamTypeOK'
  <2>1. /\ log' \in Seq(Entry) /\ fate' \in [DOMAIN log' -> Fates]
        /\ DOMAIN log' = 1 .. Len(log) + 1
    BY <1>2, <1>a, LogGrows
  <2>4. Len(log') = Len(log) + 1
    BY <1>2, <1>a, LogGrows
  <2>2. HoldingsTyped(1..Len(log))'
    BY <1>2, <1>a, <2>4, PublishHandsOut
  <2>3. UNCHANGED <<sender, viewer>>
    BY <1>2 DEF Publish
  <2>5. HoldingsTyped(DOMAIN log)'
    BY <2>1, <2>2, <2>4 DEF HoldingsTyped
  <2> QED
    BY <1>a, <1>b, <2>1, <2>3, <2>5
<1>3. ASSUME NEW w \in Senders, NEW outcome \in {"stored", "undone"},
             EndIngest(w, outcome)
      PROVE  StreamTypeOK'
  <2>1. /\ sender' \in [Senders -> Buckets \cup {Nowhere}]
        /\ fate' \in [DOMAIN log -> Fates]
        /\ UNCHANGED <<log, viewer, listing, queue, seen, dropped>>
    BY <1>3, <1>a DEF EndIngest, Fates
  <2> QED
    BY <1>a, <1>b, <2>1 DEF HoldingsTyped
<1>4. ASSUME NEW v \in Viewers, NEW b \in Buckets, Connect(v, b)
      PROVE  StreamTypeOK'
  <2>1. [stage |-> "told", bucket |-> b, since |-> Len(log) + 1] \in ViewerOf
    BY <1>a DEF ViewerOf
  <2>2. /\ viewer' \in [Viewers -> ViewerOf]
        /\ UNCHANGED <<log, fate, sender, listing, queue, seen, dropped>>
    BY <1>4, <1>a, <2>1 DEF Connect
  <2> QED
    BY <1>a, <1>b, <2>2 DEF HoldingsTyped
<1>5. ASSUME NEW v \in Viewers, Subscribe(v) PROVE StreamTypeOK'
  <2> DEFINE open == [stage |-> "open", bucket |-> viewer[v].bucket,
                      since |-> Len(log) + 1]
  <2>1. open \in ViewerOf
    BY <1>a DEF ViewerOf
  <2>2. viewer' = [viewer EXCEPT ![v] = open]
        /\ UNCHANGED <<log, fate, sender, listing, queue, seen, dropped>>
    BY <1>5 DEF Subscribe
  <2> HIDE DEF open
  <2>3. viewer' \in [Viewers -> ViewerOf]
    BY <1>a, <2>1, <2>2
  <2> QED
    BY <1>a, <1>b, <2>2, <2>3 DEF HoldingsTyped
<1>6. ASSUME NEW v \in Viewers, List(v) PROVE StreamTypeOK'
  <2>1. UNCHANGED <<log, fate, sender, viewer, queue, seen, dropped>>
    BY <1>6 DEF List
  <2>2. listing' \in [Viewers -> ListingOf(DOMAIN log)]
    BY <1>6, <1>a DEF List, ListingOf, Numbered, HoldingsTyped
  <2> QED
    BY <1>a, <1>b, <2>1, <2>2 DEF HoldingsTyped
<1>7. ASSUME NEW v \in Viewers, Deliver(v) PROVE StreamTypeOK'
  <2>1. UNCHANGED <<log, fate, sender, viewer, listing, dropped>>
    BY <1>7 DEF Deliver
  <2>2. queue[v] \in Seq(DOMAIN log) /\ queue[v] # <<>>
        /\ seen[v] \in Seq(DOMAIN log) /\ Len(queue[v]) <= QueueSize
    BY <1>7, <1>a DEF Deliver, HoldingsTyped
  <2>3. /\ Head(queue[v]) \in DOMAIN log /\ Tail(queue[v]) \in Seq(DOMAIN log)
        /\ Len(Tail(queue[v])) <= QueueSize
    <3>1. Len(queue[v]) \in Nat /\ QueueSize \in Nat
      BY <2>2, LenProperties, StreamLimits
    <3>2. Len(Tail(queue[v])) = Len(queue[v]) - 1
      BY <2>2, HeadTailProperties
    <3>3. Len(Tail(queue[v])) <= QueueSize
      BY <2>2, <3>1, <3>2
    <3> QED
      BY <2>2, <3>3, HeadTailProperties
  <2>4. Append(seen[v], Head(queue[v])) \in Seq(DOMAIN log)
    BY <2>2, <2>3, AppendProperties
  <2>5. /\ seen' \in [Viewers -> Seq(DOMAIN log)]
        /\ queue' \in [Viewers -> Seq(DOMAIN log)]
        /\ \A u \in Viewers : Len(queue'[u]) <= QueueSize
    BY <1>7, <1>a, <2>3, <2>4 DEF Deliver, HoldingsTyped
  <2> QED
    BY <1>a, <1>b, <2>1, <2>5 DEF HoldingsTyped
<1>8. ASSUME NEW v \in Viewers, Disconnect(v) PROVE StreamTypeOK'
  <2>1. /\ UNCHANGED <<log, fate, sender>>
        /\ viewer' \in [Viewers -> ViewerOf]
    BY <1>8, <1>a, EmptyHands DEF Disconnect
  <2>2. NotListed \in ListingOf(DOMAIN log) /\ <<>> \in Seq(DOMAIN log)
        /\ Len(<<>>) = 0 /\ 0 <= QueueSize
    BY EmptyHands, StreamLimits
  <2>3. /\ listing' \in [Viewers -> ListingOf(DOMAIN log)]
        /\ seen' \in [Viewers -> Seq(DOMAIN log)]
        /\ queue' \in [Viewers -> Seq(DOMAIN log)]
        /\ \A u \in Viewers : Len(queue'[u]) <= QueueSize
        /\ dropped' \in [Viewers -> SUBSET DOMAIN log]
    BY <1>8, <1>a, <2>2 DEF Disconnect, HoldingsTyped
  <2> QED
    BY <1>a, <1>b, <2>1, <2>3 DEF HoldingsTyped
<1>9. CASE UNCHANGED streamVars
  BY <1>9, <1>a, <1>b DEF streamVars, HoldingsTyped
<1> QED
  BY <1>1, <1>2, <1>3, <1>4, <1>5, <1>6, <1>7, <1>8, <1>9 DEF StreamNext

LEMMA StreamTypeInitial == StreamInit => StreamTypeOK
<1> SUFFICES ASSUME StreamInit PROVE StreamTypeOK
  OBVIOUS
<1>1. /\ log = <<>> /\ log \in Seq(Entry) /\ DOMAIN log = {} /\ fate = <<>>
  BY EmptySeq DEF StreamInit
<1>2. fate \in [DOMAIN log -> Fates]
  BY <1>1
<1>3. HoldingsTyped(DOMAIN log)
  BY EmptyHands, StreamLimits DEF StreamInit, HoldingsTyped
<1> QED
  BY <1>1, <1>2, <1>3, StreamTyping, EmptyHands DEF StreamInit
(* Sequences of numbers of events. *)
Increasing(s) == \A i, j \in DOMAIN s : i < j => s[i] < s[j]

LEMMA AddLatest ==
    ASSUME NEW n \in Nat, NEW s \in Seq(1..n), Increasing(s)
    PROVE  /\ Increasing(Append(s, n + 1))
           /\ Range(Append(s, n + 1)) = Range(s) \cup {n + 1}
<1> DEFINE longer == Append(s, n + 1)
<1>1. /\ Len(s) \in Nat /\ DOMAIN s = 1..Len(s)
      /\ \A i \in 1..Len(s) : s[i] \in 1..n
  BY LenProperties, ElementOfSeq
<1>2. /\ Len(longer) = Len(s) + 1 /\ DOMAIN longer = 1 .. Len(s) + 1
      /\ \A i \in 1..Len(s) : longer[i] = s[i]
      /\ longer[Len(s) + 1] = n + 1
  <2>1. s \in Seq(1 .. n + 1)
    <3>1. 1..n \subseteq 1 .. n + 1
      OBVIOUS
    <3> QED
      BY <3>1, SeqMonotonic
  <2>2. n + 1 \in 1 .. n + 1
    OBVIOUS
  <2>3. longer \in Seq(1 .. n + 1) /\ Len(longer) = Len(s) + 1
        /\ \A i \in 1..Len(s) : longer[i] = s[i]
        /\ longer[Len(s) + 1] = n + 1
    BY <2>1, <2>2, AppendProperties
  <2>4. DOMAIN longer = 1 .. Len(longer)
    BY <2>3, LenProperties
  <2> QED
    BY <2>3, <2>4
<1> HIDE DEF longer
<1>3. ASSUME NEW i \in 1 .. Len(s) + 1, NEW j \in 1 .. Len(s) + 1, i < j
      PROVE  longer[i] < longer[j]
  <2>1. i \in 1..Len(s)
    BY <1>1, <1>3
  <2>2. CASE j = Len(s) + 1
    BY <1>1, <1>2, <2>1, <2>2
  <2>3. CASE j # Len(s) + 1
    <3>1. j \in 1..Len(s)
      BY <1>1, <2>3
    <3>2. s[i] < s[j]
      BY <1>1, <1>3, <2>1, <3>1 DEF Increasing
    <3> QED
      BY <1>2, <2>1, <3>1, <3>2
  <2> QED
    BY <2>2, <2>3
<1>4. Range(longer) = Range(s) \cup {n + 1}
  <2>1. 1 .. Len(s) + 1 = 1..Len(s) \cup {Len(s) + 1}
    BY <1>1
  <2>2. Range(longer) = {longer[i] : i \in 1 .. Len(s) + 1}
    BY <1>2 DEF Range
  <2>3. Range(s) = {s[i] : i \in 1..Len(s)}
    BY <1>1 DEF Range
  <2>4. \A i \in 1 .. Len(s) + 1 : longer[i] \in Range(s) \cup {n + 1}
    BY <1>2, <2>1, <2>3
  <2>5. \A i \in 1..Len(s) : s[i] \in Range(longer)
    <3>1. \A i \in 1..Len(s) : i \in 1 .. Len(s) + 1 /\ longer[i] = s[i]
      BY <1>2, <2>1
    <3> QED
      BY <2>2, <3>1
  <2>6. n + 1 \in Range(longer)
    BY <1>2, <2>1, <2>2
  <2> QED
    BY <2>2, <2>3, <2>4, <2>5, <2>6
<1> QED
  BY <1>2, <1>3, <1>4 DEF Increasing, longer

LEMMA ConcatAppend ==
    ASSUME NEW S, NEW s \in Seq(S), NEW q \in Seq(S), NEW e \in S
    PROVE  s \o Append(q, e) = Append(s \o q, e)
<1>1. <<e>> \in Seq(S) /\ s \o q \in Seq(S)
  BY ConcatProperties
<1>2. Append(q, e) = q \o <<e>> /\ Append(s \o q, e) = (s \o q) \o <<e>>
  BY <1>1, AppendIsConcat
<1> QED
  BY <1>1, <1>2, ConcatAssociative

(* An element that moves from the head of one sequence to the end of the   *)
(* other one.                                                              *)
LEMMA HandOver ==
    ASSUME NEW S, NEW s \in Seq(S), NEW q \in Seq(S), q # <<>>
    PROVE  Append(s, Head(q)) \o Tail(q) = s \o q
<1>1. Head(q) \in S /\ Tail(q) \in Seq(S) /\ <<Head(q)>> \in Seq(S)
  BY HeadTailProperties
<1>2. Append(s, Head(q)) = s \o <<Head(q)>>
  BY <1>1, AppendIsConcat
<1>3. q = <<Head(q)>> \o Tail(q)
  <2>1. Len(q) \in Nat /\ 1 \in 1..Len(q) /\ Len(q) \in 1..Len(q)
    <3>1. Len(q) \in Nat \ {0}
      BY EmptySeq
    <3> QED
      BY <3>1
  <2>2. SubSeq(q, 1, Len(q)) = <<q[1]>> \o SubSeq(q, 2, Len(q))
    BY <2>1, SubSeqRecursiveFirst
  <2>3. SubSeq(q, 1, Len(q)) = q /\ SubSeq(q, 2, Len(q)) = Tail(q)
    BY SubSeqFull, TailIsSubSeq
  <2>4. Head(q) = q[1]
    OBVIOUS
  <2> QED
    BY <2>2, <2>3, <2>4
<1> QED
  BY <1>1, <1>2, <1>3, ConcatAssociative

-----------------------------------------------------------------------------
(* Of the events there were when a viewer listed, its project's are undone *)
(* or listed, as stored or in flight; it subscribed before.                *)
Known(v) ==
    /\ viewer[v].since <= listing[v].upto + 1
    /\ \A n \in DOMAIN log :
          /\ n <= listing[v].upto
          /\ ProjectOf(log[n].bucket) = ProjectOf(viewer[v].bucket)
          => fate[n] = "undone" \/ n \in listing[v].stored \cup listing[v].open

EmptyHanded(v) ==
    listing[v] = NotListed /\ queue[v] = <<>> /\ seen[v] = <<>> /\ dropped[v] = {}

InOrder(v) == Range(Sent(v)) = Due(v) /\ Increasing(Sent(v))

ViewerSound(v) ==
    /\ viewer[v].since <= Len(log) + 1
    /\ viewer[v].stage # "open" => EmptyHanded(v)
    /\ viewer[v].stage = "open" => InOrder(v)
    /\ listing[v].done => Known(v) /\ listing[v].upto <= Len(log)

ViewersSound == \A v \in Viewers : ViewerSound(v)

(* What the type invariant says of the viewers, one by one.                *)
LEMMA StreamTypes ==
    ASSUME StreamTypeOK
    PROVE  /\ log \in Seq(Entry) /\ Len(log) \in Nat /\ DOMAIN log = 1..Len(log)
           /\ fate \in [DOMAIN log -> Fates]
           /\ sender \in [Senders -> Buckets \cup {Nowhere}]
           /\ viewer \in [Viewers -> ViewerOf]
           /\ listing \in [Viewers -> ListingOf(DOMAIN log)]
           /\ queue \in [Viewers -> Seq(DOMAIN log)]
           /\ seen \in [Viewers -> Seq(DOMAIN log)]
           /\ dropped \in [Viewers -> SUBSET DOMAIN log]
           /\ \A v \in Viewers : Sent(v) \in Seq(DOMAIN log)
<1>1. /\ log \in Seq(Entry)
      /\ fate \in [DOMAIN log -> Fates]
      /\ sender \in [Senders -> Buckets \cup {Nowhere}]
      /\ viewer \in [Viewers -> ViewerOf]
      /\ HoldingsTyped(DOMAIN log)
  BY StreamTyping
<1>2. Len(log) \in Nat /\ DOMAIN log = 1..Len(log)
  BY <1>1, LenProperties
<1>3. \A v \in Viewers : Sent(v) \in Seq(DOMAIN log)
  BY <1>1, ConcatProperties DEF HoldingsTyped, Sent
<1> QED
  BY <1>1, <1>2, <1>3 DEF HoldingsTyped

(* A viewer whose part of the state stays is as sound as before.           *)
LEMMA OthersStaySound ==
    ASSUME NEW v, ViewerSound(v), UNCHANGED <<log, fate>>,
           viewer'[v] = viewer[v], listing'[v] = listing[v],
           queue'[v] = queue[v], seen'[v] = seen[v], dropped'[v] = dropped[v]
    PROVE  ViewerSound(v)'
<1>1. Sent(v)' = Sent(v) /\ Due(v)' = Due(v)
  BY DEF Sent, Due
<1> QED
  BY <1>1 DEF ViewerSound, EmptyHanded, InOrder, Known

LEMMA PublishKeepsSound ==
    ASSUME StreamTypeOK, NEW w \in Senders, Publish(w),
           NEW v \in Viewers, ViewerSound(v)
    PROVE  ViewerSound(v)'
<1> DEFINE n == Len(log) + 1
<1>a. /\ Len(log) \in Nat /\ DOMAIN log = 1..Len(log)
      /\ viewer \in [Viewers -> ViewerOf]
      /\ queue[v] \in Seq(DOMAIN log) /\ seen[v] \in Seq(DOMAIN log)
      /\ Sent(v) \in Seq(DOMAIN log) /\ dropped[v] \subseteq DOMAIN log
      /\ viewer[v].since \in Nat /\ viewer[v].since <= n
  BY StreamTypes DEF ViewerSound, ViewerOf
<1>1. /\ Len(log') = n /\ DOMAIN log' = 1..n
      /\ log'[n].bucket = sender[w] /\ fate'[n] = "open"
      /\ \A m \in DOMAIN log : log'[m] = log[m] /\ fate'[m] = fate[m]
  BY StreamTypes, LogGrows
<1>2. UNCHANGED <<sender, viewer, listing, seen>>
  BY DEF Publish
<1>3. /\ queue'[v] = IF v \in Listening(sender[w]) THEN Waiting(v, n) ELSE queue[v]
      /\ dropped'[v] = IF v \in Listening(sender[w]) /\ Full(v)
                       THEN dropped[v] \cup {n} ELSE dropped[v]
  BY DEF Publish
<1>4. viewer[v].stage # "open" => v \notin Listening(sender[w])
  BY DEF Listening
<1> HIDE DEF n
<1>n. n = Len(log) + 1 /\ n \in Nat /\ DOMAIN log' = DOMAIN log \cup {n}
      /\ n \notin DOMAIN log
  BY <1>a, <1>1 DEF n
<1>5. viewer'[v].since <= Len(log') + 1
  BY <1>a, <1>1, <1>2, <1>n
<1>6. (viewer[v].stage # "open" => EmptyHanded(v))'
  BY <1>2, <1>3, <1>4 DEF ViewerSound, EmptyHanded
<1>7. (listing[v].done => Known(v) /\ listing[v].upto <= Len(log))'
  <2> SUFFICES ASSUME listing[v].done
               PROVE  Known(v)' /\ listing[v].upto <= Len(log')
    BY <1>2
  <2>1. /\ Known(v) /\ listing[v].upto <= Len(log) /\ listing[v].upto \in Nat
    BY StreamTypes DEF ViewerSound, ListingOf
  <2>2. ASSUME NEW m \in DOMAIN log', m <= listing[v].upto,
               ProjectOf(log'[m].bucket) = ProjectOf(viewer[v].bucket)
        PROVE  \/ fate'[m] = "undone"
               \/ m \in listing[v].stored \cup listing[v].open
    <3>1. m # n /\ m \in DOMAIN log
      BY <1>a, <1>n, <2>1, <2>2
    <3> QED
      BY <1>1, <2>1, <2>2, <3>1 DEF Known
  <2>3. listing[v].upto <= Len(log')
    BY <1>a, <1>1, <1>n, <2>1
  <2> QED
    BY <1>2, <2>1, <2>2, <2>3 DEF Known
<1>8. ASSUME viewer[v].stage = "open" PROVE InOrder(v)'
  <2>1. /\ Range(Sent(v)) = Due(v) /\ Increasing(Sent(v))
    BY <1>8 DEF ViewerSound, InOrder
  <2>2. v \in Listening(sender[w]) <=> viewer[v].bucket = sender[w]
    BY <1>8 DEF Listening
  <2>3. CASE v \notin Listening(sender[w])
    <3>1. Sent(v)' = Sent(v)
      BY <1>2, <1>3, <2>3 DEF Sent
    <3>2. Due(v)' = Due(v)
      BY <1>1, <1>2, <1>3, <1>n, <2>2, <2>3 DEF Due
    <3> QED
      BY <2>1, <3>1, <3>2 DEF InOrder
  <2>4. CASE v \in Listening(sender[w]) /\ Full(v)
    <3>1. Sent(v)' = Sent(v)
      BY <1>2, <1>3, <2>4 DEF Sent, Waiting
    <3>2. Due(v)' = Due(v)
      BY <1>1, <1>2, <1>3, <1>n, <2>4 DEF Due
    <3> QED
      BY <2>1, <3>1, <3>2 DEF InOrder
  <2>5. CASE v \in Listening(sender[w]) /\ ~Full(v)
    <3>1. Sent(v)' = Append(Sent(v), n)
      <4>1. seen'[v] = seen[v] /\ queue'[v] = Append(queue[v], n)
        BY <1>2, <1>3, <2>5 DEF Waiting
      <4> DEFINE numbers == 1..n
      <4>2. seen[v] \in Seq(numbers) /\ queue[v] \in Seq(numbers) /\ n \in numbers
        <5>1. DOMAIN log \subseteq numbers /\ n \in numbers
          BY <1>1, <1>n
        <5> QED
          BY <1>a, <5>1, SeqMonotonic
      <4> HIDE DEF numbers
      <4>3. \A s, q \in Seq(numbers) : \A e \in numbers :
               s \o Append(q, e) = Append(s \o q, e)
        BY ConcatAppend
      <4>4. seen[v] \o Append(queue[v], n) = Append(seen[v] \o queue[v], n)
        BY <4>2, <4>3, Zenon
      <4> QED
        BY <4>1, <4>4 DEF Sent
    <3>2. Due(v)' = Due(v) \cup {n}
      <4>1. n \in Due(v)'
        BY <1>a, <1>1, <1>2, <1>3, <1>n, <2>2, <2>5 DEF Due
      <4> QED
        BY <1>1, <1>2, <1>3, <1>n, <2>5, <4>1 DEF Due
    <3>3. /\ Increasing(Append(Sent(v), n))
          /\ Range(Append(Sent(v), n)) = Range(Sent(v)) \cup {n}
      BY <1>a, <1>n, <2>1, AddLatest
    <3> QED
      BY <2>1, <3>1, <3>2, <3>3 DEF InOrder
  <2> QED
    BY <2>3, <2>4, <2>5
<1> QED
  BY <1>2, <1>5, <1>6, <1>7, <1>8 DEF ViewerSound

LEMMA StreamStep ==
    StreamTypeOK /\ ViewersSound /\ [StreamNext]_streamVars => ViewersSound'
<1> SUFFICES ASSUME StreamTypeOK, [StreamNext]_streamVars,
                    NEW u \in Viewers, ViewerSound(u)
             PROVE  ViewerSound(u)'
  BY DEF ViewersSound
<1>a. /\ Len(log) \in Nat /\ DOMAIN log = 1..Len(log)
      /\ fate \in [DOMAIN log -> Fates]
      /\ viewer \in [Viewers -> ViewerOf]
      /\ listing \in [Viewers -> ListingOf(DOMAIN log)]
      /\ queue \in [Viewers -> Seq(DOMAIN log)]
      /\ seen \in [Viewers -> Seq(DOMAIN log)]
      /\ dropped \in [Viewers -> SUBSET DOMAIN log]
  BY StreamTypes
<1>1. ASSUME NEW w \in Senders, NEW b \in Buckets, BeginIngest(w, b)
      PROVE  ViewerSound(u)'
  BY <1>1, OthersStaySound DEF BeginIngest
<1>2. ASSUME NEW w \in Senders, Publish(w) PROVE ViewerSound(u)'
  BY <1>2, PublishKeepsSound
<1>3. ASSUME NEW w \in Senders, NEW outcome \in {"stored", "undone"},
             EndIngest(w, outcome)
      PROVE  ViewerSound(u)'
  <2>1. /\ UNCHANGED <<log, viewer, listing, queue, seen, dropped>>
        /\ \A n \in DOMAIN log : fate[n] = "undone" => fate'[n] = "undone"
    BY <1>3 DEF EndIngest
  <2>2. Sent(u)' = Sent(u) /\ Due(u)' = Due(u)
    BY <2>1 DEF Sent, Due
  <2>3. Known(u) => Known(u)'
    BY <2>1 DEF Known
  <2> QED
    BY <2>1, <2>2, <2>3 DEF ViewerSound, EmptyHanded, InOrder
<1>4. ASSUME NEW v \in Viewers, NEW b \in Buckets, Connect(v, b)
      PROVE  ViewerSound(u)'
  <2>1. CASE u # v
    BY <1>4, <1>a, <2>1, OthersStaySound DEF Connect
  <2>2. CASE u = v
    <3>1. /\ viewer[u].stage = "away" /\ viewer'[u].stage = "told"
          /\ viewer'[u].since = Len(log) + 1
          /\ UNCHANGED <<log, fate, sender, listing, queue, seen, dropped>>
      BY <1>4, <1>a, <2>2 DEF Connect
    <3>2. EmptyHanded(u) /\ EmptyHanded(u)'
      BY <3>1 DEF ViewerSound, EmptyHanded
    <3> QED
      BY <1>a, <3>1, <3>2 DEF ViewerSound, EmptyHanded, NotListed
  <2> QED
    BY <2>1, <2>2
<1>5. ASSUME NEW v \in Viewers, Subscribe(v) PROVE ViewerSound(u)'
  <2>1. CASE u # v
    BY <1>5, <1>a, <2>1, OthersStaySound DEF Subscribe
  <2>2. CASE u = v
    <3>1. /\ viewer[u].stage = "told" /\ viewer'[u].stage = "open"
          /\ viewer'[u].since = Len(log) + 1
          /\ UNCHANGED <<log, fate, sender, listing, queue, seen, dropped>>
      BY <1>5, <1>a, <2>2 DEF Subscribe
    <3>2. EmptyHanded(u)
      BY <3>1 DEF ViewerSound
    <3>3. Sent(u)' = <<>>
      <4>1. <<>> \o <<>> = <<>>
        BY EmptySeq, ConcatEmptySeq
      <4> QED
        BY <3>1, <3>2, <4>1 DEF Sent, EmptyHanded
    <3>4. Due(u)' = {}
      BY <1>a, <3>1 DEF Due
    <3>5. InOrder(u)'
      BY <3>3, <3>4 DEF InOrder, Range, Increasing
    <3> QED
      BY <1>a, <3>1, <3>2, <3>5 DEF ViewerSound, EmptyHanded, NotListed
  <2> QED
    BY <2>1, <2>2
<1>6. ASSUME NEW v \in Viewers, List(v) PROVE ViewerSound(u)'
  <2>1. CASE u # v
    BY <1>6, <1>a, <2>1, OthersStaySound DEF List
  <2>2. CASE u = v
    <3>1. /\ viewer[u].stage = "open"
          /\ UNCHANGED <<log, fate, sender, viewer, queue, seen, dropped>>
          /\ listing'[u].upto = Len(log)
          /\ listing'[u].stored = Numbered(u, "stored")
          /\ listing'[u].open = Numbered(u, "open")
      BY <1>6, <1>a, <2>2 DEF List
    <3>2. Known(u)' /\ listing'[u].upto <= Len(log')
      BY <1>a, <3>1 DEF Known, Numbered, Fates, ViewerSound
    <3>3. Sent(u)' = Sent(u) /\ Due(u)' = Due(u)
      BY <3>1 DEF Sent, Due
    <3> QED
      BY <3>1, <3>2, <3>3 DEF ViewerSound, InOrder
  <2> QED
    BY <2>1, <2>2
<1>7. ASSUME NEW v \in Viewers, Deliver(v) PROVE ViewerSound(u)'
  <2>1. CASE u # v
    BY <1>7, <1>a, <2>1, OthersStaySound DEF Deliver
  <2>2. CASE u = v
    <3>1. /\ viewer[u].stage = "open" /\ queue[u] # <<>>
          /\ UNCHANGED <<log, fate, sender, viewer, listing, dropped>>
          /\ seen'[u] = Append(seen[u], Head(queue[u]))
          /\ queue'[u] = Tail(queue[u])
      BY <1>7, <1>a, <2>2 DEF Deliver
    <3>2. Sent(u)' = Sent(u)
      <4>1. seen[u] \in Seq(DOMAIN log) /\ queue[u] \in Seq(DOMAIN log)
        BY <1>a
      <4> QED
        BY <3>1, <4>1, HandOver DEF Sent
    <3>3. Due(u)' = Due(u)
      BY <3>1 DEF Due
    <3> QED
      BY <3>1, <3>2, <3>3 DEF ViewerSound, InOrder, Known
  <2> QED
    BY <2>1, <2>2
<1>8. ASSUME NEW v \in Viewers, Disconnect(v) PROVE ViewerSound(u)'
  <2>1. CASE u # v
    BY <1>8, <1>a, <2>1, OthersStaySound DEF Disconnect
  <2>2. CASE u = v
    <3>1. /\ viewer'[u] = Away /\ EmptyHanded(u)' /\ log' = log
      BY <1>8, <1>a, <2>2 DEF Disconnect, EmptyHanded
    <3> QED
      BY <1>a, <3>1 DEF ViewerSound, EmptyHanded, NotListed, Away
  <2> QED
    BY <2>1, <2>2
<1>9. CASE UNCHANGED streamVars
  BY <1>9, OthersStaySound DEF streamVars
<1> QED
  BY <1>1, <1>2, <1>3, <1>4, <1>5, <1>6, <1>7, <1>8, <1>9 DEF StreamNext

LEMMA StreamInitial == StreamInit => ViewersSound
<1> SUFFICES ASSUME StreamInit, NEW v \in Viewers PROVE ViewerSound(v)
  BY DEF ViewersSound
<1>1. /\ viewer[v] = Away /\ EmptyHanded(v) /\ Len(log) \in Nat
  BY EmptySeq DEF StreamInit, EmptyHanded
<1> QED
  BY <1>1 DEF ViewerSound, EmptyHanded, NotListed, Away

(* Every reachable state of the live stream is well typed, and no queue is *)
(* longer than its size, whatever the number of viewers and of events.     *)
THEOREM StreamTypeCorrect == StreamSpec => []StreamTypeOK
  BY StreamTypeInitial, StreamTypeStep, PTL DEF StreamSpec

LEMMA SoundIsFaithful == StreamTypeOK /\ ViewersSound => StreamIsFaithful
<1> SUFFICES ASSUME StreamTypeOK, ViewersSound PROVE StreamIsFaithful
  OBVIOUS
<1>1. StreamIsTheLogLessDrops
  BY DEF StreamIsTheLogLessDrops, ViewersSound, ViewerSound, InOrder, Increasing
<1>2. ASSUME NEW v \in Viewers, listing[v].done,
             NEW n \in Numbered(v, "stored")
      PROVE  n \in UNION {Range(seen[v]), Range(queue[v]), dropped[v],
                          listing[v].stored, listing[v].open, Elsewhere(v)}
  <2>1. /\ n \in DOMAIN log
        /\ ProjectOf(log[n].bucket) = ProjectOf(viewer[v].bucket)
        /\ fate[n] = "stored"
    BY <1>2 DEF Numbered
  <2>2. /\ ViewerSound(v) /\ viewer[v].since \in Nat /\ n \in Nat
        /\ listing[v].upto \in Nat /\ Known(v)
    BY <1>2, <2>1, StreamTypes DEF ViewersSound, ViewerSound, ViewerOf, ListingOf
  <2>3. CASE n <= listing[v].upto
    BY <1>2, <2>1, <2>2, <2>3 DEF Known
  <2>4. CASE n > listing[v].upto /\ log[n].bucket # viewer[v].bucket
    <3>1. ProcessOf(log[n].bucket) # ProcessOf(viewer[v].bucket)
      <4>1. /\ log[n].bucket \in Buckets
            /\ viewer[v].bucket \in Buckets \cup {Nowhere}
        <5>1. log \in Seq(Entry) /\ n \in 1..Len(log)
          BY <2>1, StreamTypes
        <5>2. log[n] \in Entry
          BY <5>1, ElementOfSeq
        <5>3. viewer[v] \in ViewerOf
          BY StreamTypes
        <5> QED
          BY <5>2, <5>3 DEF Entry, ViewerOf
      <4>2. \A x \in Buckets \cup {Nowhere} : x = <<ProcessOf(x), ProjectOf(x)>>
        BY DEF Buckets, Nowhere, ProcessOf, ProjectOf
      <4> QED
        BY <2>1, <2>4, <4>1, <4>2
    <3> QED
      BY <2>1, <2>4, <3>1 DEF Elsewhere
  <2>5. CASE n > listing[v].upto /\ log[n].bucket = viewer[v].bucket
    <3>1. viewer[v].stage = "open"
      BY <1>2, <2>2 DEF ViewerSound, EmptyHanded, NotListed
    <3>2. Range(Sent(v)) = Range(seen[v]) \cup Range(queue[v])
      BY StreamTypes, RangeConcatenation DEF Sent
    <3>3. n >= viewer[v].since
      BY <2>2, <2>5 DEF Known
    <3>4. n \in Due(v) \cup dropped[v]
      BY <2>1, <2>5, <3>3 DEF Due
    <3> QED
      BY <2>2, <3>1, <3>2, <3>4 DEF ViewerSound, InOrder
  <2> QED
    BY <2>2, <2>3, <2>4, <2>5
<1> QED
  BY <1>1, <1>2 DEF StreamIsFaithful, MissesAreExplained

(* However requests, subscriptions, listings and deliveries interleave at  *)
(* any number of processes, a viewer gets the events its own process       *)
(* publishes for its project in order and once each, but for those its     *)
(* queue dropped, and of all the stored ones it misses only those, what    *)
(* was in flight when it listed, and what other processes published later  *)
(* (_event_bus, _bus_publish, _bus_subscribe, _ingest_single).             *)
THEOREM StreamCorrect == StreamSpec => []StreamIsFaithful
<1>1. StreamTypeOK /\ ViewersSound /\ [StreamNext]_streamVars
      => StreamTypeOK' /\ ViewersSound'
  BY StreamTypeStep, StreamStep
<1> QED
  BY <1>1, StreamTypeInitial, StreamInitial, SoundIsFaithful, PTL DEF StreamSpec

-----------------------------------------------------------------------------
(* SdkCalls. *)

SessionOf(n) == [attempt : 1..n, answered : BOOLEAN, accepted : SUBSET Indices]

(* A call has an attempt left when it is ready for one, and none that it   *)
(* waits for is given up yet.                                              *)
CallPaced ==
    /\ call = "new" => attempts = 0
    /\ call = "ready" => attempts <= CallRetries
    /\ call = "waiting" => unheard < attempts

(* The rows of an event, and what may still become one, are the attempts   *)
(* nothing was heard of, and the one that is waited for or was answered.   *)
Pending(c) == IF c \in {"waiting", "told"} THEN 1 ELSE 0

CopiesCounted ==
    /\ IsFiniteSet(served)
    /\ \A i \in Indices : rows[i] + Cardinality(served) <= unheard + Pending(call)

(* Sessions store what their answer said, all of it or nothing.            *)
AnswersAgree == \A s \in served : s.answered => s.accepted = AcceptedOf

RowsAgree ==
    \A i \in Indices :
        /\ rows[i] > 0 => body[i] = "fine" /\ Sound(Len(body))
        /\ \A j \in Indices :
              body[i] = "fine" /\ body[j] = "fine" => rows[i] = rows[j]

CallInv ==
    /\ CallTypeOK /\ CallPaced /\ CopiesCounted /\ AnswersAgree /\ RowsAgree
    /\ AcceptedIsKept

LEMMA CallNumbers ==
    ASSUME CallTypeOK
    PROVE  /\ CallRetries \in Nat
           /\ Len(body) \in Nat /\ Indices = 1..Len(body)
           /\ attempts \in Nat /\ attempts <= CallRetries + 1
           /\ unheard \in Nat /\ unheard <= attempts
           /\ served \subseteq SessionOf(attempts)
           /\ AcceptedOf \subseteq Indices
           /\ rows \in [Indices -> Nat]
<1>1. body \in Seq(Events) /\ CallRetries \in Nat
  BY CallLimits DEF CallTypeOK
<1>2. Len(body) \in Nat /\ Indices = 1..Len(body)
  BY <1>1, LenProperties DEF Indices
<1> QED
  BY <1>1, <1>2 DEF CallTypeOK, SessionOf, AcceptedOf

LEMMA SettleFacts ==
    ASSUME NEW status, NEW n, Settle(status, n)
    PROVE  call' \in {"ready", "failed"} /\ (call' = "ready" => n <= CallRetries)
  BY DEF Settle

(* An attempt that comes to nothing at the API.                            *)
LEMMA RefuseFacts ==
    ASSUME NEW s \in served, Reject(s) \/ Break(s)
    PROVE  /\ ~s.answered /\ served' = served \ {s}
           /\ UNCHANGED <<library, batched, body, attempts, unheard, counted,
                          rows, voided>>
           /\ \/ call' = call
              \/ /\ call = "waiting" /\ call' \in {"ready", "failed"}
                 /\ call' = "ready" => attempts <= CallRetries
<1>1. ~s.answered /\ \E status : Refuse(s, status)
  BY DEF Reject, Break
<1>2. PICK status : Refuse(s, status)
  BY <1>1
<1>3. /\ served' = served \ {s}
      /\ UNCHANGED <<library, batched, body, attempts, unheard, counted,
                     rows, voided>>
  BY <1>2 DEF Refuse, request, stored
<1>4. CASE Awaited(s)
  <2>1. Settle(status, attempts) /\ call = "waiting"
    BY <1>2, <1>4 DEF Refuse, Awaited
  <2> QED
    BY <1>1, <1>3, <2>1, SettleFacts
<1>5. CASE ~Awaited(s)
  BY <1>1, <1>2, <1>3, <1>5 DEF Refuse
<1> QED
  BY <1>4, <1>5

(* The attempts of the caller's side.                                      *)
LEMMA CallerFacts ==
    ASSUME CallTypeOK, CallPaced, Begin \/ TurnedAway \/ HearNothing
    PROVE  /\ UNCHANGED <<library, batched, body, counted, served, rows, voided>>
           /\ call' \in {"new", "ready", "waiting", "told", "failed"}
           /\ attempts' \in 0 .. CallRetries + 1 /\ attempts <= attempts'
           /\ unheard' \in 0 .. attempts'
           /\ CallPaced'
           /\ unheard + Pending(call) <= unheard' + Pending(call')
<1>1. CASE Begin
  BY <1>1, CallNumbers DEF Begin, request, stored, CallPaced, Pending, CallTypeOK
<1>2. CASE TurnedAway
  <2>1. /\ UNCHANGED <<library, batched, body, counted, served, rows, voided>>
        /\ attempts' = attempts + 1 /\ call = "ready" /\ unheard' = unheard
        /\ \E status : Settle(status, attempts')
    BY <1>2 DEF TurnedAway, request, stored
  <2>2. call' \in {"ready", "failed"} /\ (call' = "ready" => attempts' <= CallRetries)
    BY <2>1, SettleFacts
  <2> QED
    BY <2>1, <2>2, CallNumbers DEF CallPaced, Pending
<1>3. CASE HearNothing
  <2>1. /\ UNCHANGED <<library, batched, body, counted, served, rows, voided>>
        /\ attempts' = attempts /\ call = "waiting" /\ unheard' = unheard + 1
        /\ Settle("network", attempts) \/ call' = "failed"
    BY <1>3 DEF HearNothing, request, stored
  <2>2. call' \in {"ready", "failed"} /\ (call' = "ready" => attempts <= CallRetries)
    BY <2>1, SettleFacts
  <2> QED
    BY <2>1, <2>2, CallNumbers DEF CallPaced, Pending
<1> QED
  BY <1>1, <1>2, <1>3

(* A session stays finite in number, and one less without s.               *)
LEMMA OneServedLess ==
    ASSUME IsFiniteSet(served), NEW s \in served
    PROVE  /\ IsFiniteSet(served \ {s})
           /\ Cardinality(served) \in Nat
           /\ Cardinality(served \ {s}) \in Nat
           /\ Cardinality(served \ {s}) = Cardinality(served) - 1
<1>1. IsFiniteSet(served \ {s})
      /\ Cardinality(served \ {s}) = Cardinality(served) - 1
  BY FS_RemoveElement
<1> QED
  BY <1>1, FS_CardinalityType

LEMMA CallStep == CallInv /\ [CallNext]_callVars => CallInv'
<1> SUFFICES ASSUME CallInv, [CallNext]_callVars PROVE CallInv'
  OBVIOUS
<1>a. /\ CallTypeOK /\ CallPaced /\ CopiesCounted /\ AnswersAgree /\ RowsAgree
      /\ AcceptedIsKept
  BY DEF CallInv
<1>b. /\ CallRetries \in Nat
      /\ Len(body) \in Nat /\ Indices = 1..Len(body)
      /\ attempts \in Nat /\ attempts <= CallRetries + 1
      /\ unheard \in Nat /\ unheard <= attempts
      /\ served \subseteq SessionOf(attempts)
      /\ AcceptedOf \subseteq Indices
      /\ rows \in [Indices -> Nat]
  BY <1>a, CallNumbers
<1>c. IsFiniteSet(served) /\ Cardinality(served) \in Nat
  BY <1>a, FS_CardinalityType DEF CopiesCounted
<1>1. CASE Begin \/ TurnedAway \/ HearNothing
  <2>1. /\ UNCHANGED <<library, batched, body, counted, served, rows, voided>>
        /\ call' \in {"new", "ready", "waiting", "told", "failed"}
        /\ attempts' \in 0 .. CallRetries + 1 /\ attempts <= attempts'
        /\ unheard' \in 0 .. attempts'
        /\ CallPaced'
        /\ unheard + Pending(call) <= unheard' + Pending(call')
    BY <1>1, <1>a, CallerFacts
  <2>2. Indices' = Indices /\ AcceptedOf' = AcceptedOf /\ Sound(Len(body))' = Sound(Len(body))
    BY <2>1 DEF Indices, AcceptedOf, Sound
  <2>3. CallTypeOK'
    <3>1. served \subseteq SessionOf(attempts')
      BY <1>b, <2>1 DEF SessionOf
    <3> QED
      BY <1>a, <2>1, <2>2, <3>1 DEF CallTypeOK, SessionOf
  <2>4. CopiesCounted'
    <3>1. ASSUME NEW i \in Indices
          PROVE  rows[i] + Cardinality(served) <= unheard' + Pending(call')
      <4>1. /\ rows[i] + Cardinality(served) <= unheard + Pending(call)
            /\ rows[i] \in Nat /\ Pending(call) \in Nat /\ Pending(call') \in Nat
        BY <1>a, <1>b DEF CopiesCounted, Pending
      <4>2. /\ unheard + Pending(call) <= unheard' + Pending(call')
            /\ unheard \in Nat /\ unheard' \in Nat
        BY <1>b, <2>1
      <4> QED
        BY <1>c, <4>1, <4>2
    <3> QED
      BY <1>c, <2>1, <2>2, <3>1 DEF CopiesCounted
  <2>5. AnswersAgree' /\ RowsAgree' /\ AcceptedIsKept'
    BY <1>a, <2>1, <2>2 DEF AnswersAgree, RowsAgree, AcceptedIsKept
  <2> QED
    BY <2>1, <2>3, <2>4, <2>5 DEF CallInv
<1>2. CASE Send
  <2> DEFINE s == [attempt |-> attempts', answered |-> FALSE, accepted |-> {}]
  <2>1. /\ UNCHANGED <<library, batched, body, unheard, counted, rows, voided>>
        /\ attempts' = attempts + 1 /\ served' = served \cup {s}
        /\ call = "ready" /\ call' = "waiting"
    BY <1>2 DEF Send, request, stored
  <2>2. Indices' = Indices /\ AcceptedOf' = AcceptedOf /\ Sound(Len(body))' = Sound(Len(body))
    BY <2>1 DEF Indices, AcceptedOf, Sound
  <2>3. attempts + 1 <= CallRetries + 1
    BY <1>a, <1>b, <2>1 DEF CallPaced
  <2>4. CallTypeOK'
    <3>1. served \cup {s} \subseteq SessionOf(attempts')
      <4>1. s \in SessionOf(attempts')
        BY <1>b, <2>1 DEF SessionOf
      <4>2. SessionOf(attempts) \subseteq SessionOf(attempts')
        BY <1>b, <2>1 DEF SessionOf
      <4> QED
        BY <1>b, <4>1, <4>2
    <3>2. attempts' \in 0 .. CallRetries + 1 /\ unheard' \in 0..attempts'
      BY <1>b, <2>1, <2>3
    <3> QED
      BY <1>a, <2>1, <2>2, <3>1, <3>2 DEF CallTypeOK, SessionOf
  <2>5. CopiesCounted'
    <3>1. /\ IsFiniteSet(served \cup {s})
          /\ Cardinality(served \cup {s}) \in Nat
          /\ Cardinality(served \cup {s}) <= Cardinality(served) + 1
      <4>1. IsFiniteSet(served \cup {s}) /\
            Cardinality(served \cup {s}) =
              IF s \in served THEN Cardinality(served) ELSE Cardinality(served) + 1
        BY <1>c, FS_AddElement
      <4> QED
        BY <1>c, <4>1
    <3>2. Pending(call) = 0 /\ Pending(call') = 1
      BY <2>1 DEF Pending
    <3>3. ASSUME NEW i \in Indices
          PROVE  rows[i] + Cardinality(served \cup {s}) <= unheard + 1
      <4>1. rows[i] + Cardinality(served) <= unheard + 0 /\ rows[i] \in Nat
        BY <1>a, <1>b, <3>2 DEF CopiesCounted
      <4> HIDE DEF s
      <4> QED
        BY <1>b, <1>c, <3>1, <4>1
    <3> QED
      BY <2>1, <2>2, <3>1, <3>2, <3>3 DEF CopiesCounted
  <2>6. AnswersAgree' /\ RowsAgree' /\ AcceptedIsKept'
    BY <1>a, <2>1, <2>2 DEF AnswersAgree, RowsAgree, AcceptedIsKept
  <2>7. CallPaced'
    BY <1>b, <2>1 DEF CallPaced
  <2> QED
    BY <2>4, <2>5, <2>6, <2>7 DEF CallInv
<1>3. ASSUME NEW s \in served, Reject(s) \/ Break(s) PROVE CallInv'
  <2>1. /\ ~s.answered /\ served' = served \ {s}
        /\ UNCHANGED <<library, batched, body, attempts, unheard, counted,
                       rows, voided>>
        /\ \/ call' = call
           \/ /\ call = "waiting" /\ call' \in {"ready", "failed"}
              /\ call' = "ready" => attempts <= CallRetries
    BY <1>3, RefuseFacts
  <2>2. Indices' = Indices /\ AcceptedOf' = AcceptedOf /\ Sound(Len(body))' = Sound(Len(body))
    BY <2>1 DEF Indices, AcceptedOf, Sound
  <2>3. CallTypeOK' /\ CallPaced'
    BY <1>a, <2>1, <2>2 DEF CallTypeOK, CallPaced
  <2>4. CopiesCounted'
    <3>1. /\ IsFiniteSet(served \ {s})
          /\ Cardinality(served \ {s}) \in Nat
          /\ Cardinality(served \ {s}) = Cardinality(served) - 1
      BY <1>c, OneServedLess
    <3>2. Pending(call) <= Pending(call') + 1 /\ Pending(call) \in Nat /\ Pending(call') \in Nat
      BY DEF Pending
    <3>3. ASSUME NEW i \in Indices
          PROVE  rows[i] + Cardinality(served \ {s}) <= unheard + Pending(call')
      <4>1. /\ rows[i] + Cardinality(served) <= unheard + Pending(call)
            /\ rows[i] \in Nat /\ unheard \in Nat
        BY <1>a, <1>b DEF CopiesCounted
      <4> QED
        BY <1>c, <3>1, <3>2, <4>1
    <3> QED
      BY <2>1, <2>2, <3>1, <3>3 DEF CopiesCounted
  <2>5. AnswersAgree' /\ RowsAgree' /\ AcceptedIsKept'
    BY <1>a, <2>1, <2>2 DEF AnswersAgree, RowsAgree, AcceptedIsKept
  <2> QED
    BY <2>3, <2>4, <2>5 DEF CallInv
<1>4. ASSUME NEW s \in served, Answer(s) PROVE CallInv'
  <2> DEFINE t == [s EXCEPT !.answered = TRUE, !.accepted = AcceptedOf]
  <2>1. /\ ~s.answered /\ served' = (served \ {s}) \cup {t}
        /\ UNCHANGED <<library, batched, body, attempts, unheard, rows, voided>>
        /\ \/ call' = "told" /\ counted' = AcceptedOf /\ call = "waiting"
           \/ call' = call /\ counted' = counted
    BY <1>4 DEF Answer, request, stored, Awaited
  <2>2. Indices' = Indices /\ AcceptedOf' = AcceptedOf /\ Sound(Len(body))' = Sound(Len(body))
    BY <2>1 DEF Indices, AcceptedOf, Sound
  <2>3. /\ t \in SessionOf(attempts) /\ t.answered /\ t.accepted = AcceptedOf
    BY <1>b DEF SessionOf
  <2> HIDE DEF t
  <2>4. CallTypeOK'
    <3>1. served' \subseteq SessionOf(attempts)
      BY <1>b, <2>1, <2>3
    <3> QED
      BY <1>a, <1>b, <2>1, <2>2, <3>1 DEF CallTypeOK, SessionOf
  <2>5. CallPaced'
    BY <1>a, <2>1 DEF CallPaced
  <2>6. CopiesCounted'
    <3>1. /\ IsFiniteSet(served \ {s})
          /\ Cardinality(served \ {s}) \in Nat
          /\ Cardinality(served \ {s}) = Cardinality(served) - 1
      BY <1>c, OneServedLess
    <3>2. /\ IsFiniteSet(served') /\ Cardinality(served') \in Nat
          /\ Cardinality(served') <= Cardinality(served)
      <4>1. IsFiniteSet(served') /\
            Cardinality(served') =
              IF t \in served \ {s} THEN Cardinality(served \ {s})
                                    ELSE Cardinality(served \ {s}) + 1
        BY <2>1, <3>1, FS_AddElement
      <4> QED
        BY <1>c, <3>1, <4>1
    <3>3. Pending(call') = Pending(call)
      BY <2>1 DEF Pending
    <3>4. ASSUME NEW i \in Indices
          PROVE  rows[i] + Cardinality(served') <= unheard + Pending(call)
      <4>1. /\ rows[i] + Cardinality(served) <= unheard + Pending(call)
            /\ rows[i] \in Nat /\ Pending(call) \in Nat
        BY <1>a, <1>b DEF CopiesCounted, Pending
      <4> QED
        BY <1>b, <1>c, <3>2, <4>1
    <3> QED
      BY <2>1, <2>2, <3>2, <3>3, <3>4 DEF CopiesCounted
  <2>7. AnswersAgree' /\ RowsAgree'
    BY <1>a, <2>1, <2>2, <2>3 DEF AnswersAgree, RowsAgree
  <2>8. AcceptedIsKept'
    BY <1>a, <2>1, <2>3 DEF AcceptedIsKept
  <2> QED
    BY <2>4, <2>5, <2>6, <2>7, <2>8 DEF CallInv
<1>5. ASSUME NEW s \in served, StoreBatch(s) \/ VoidBatch(s) PROVE CallInv'
  <2>1. /\ s.answered /\ served' = served \ {s}
        /\ UNCHANGED <<library, batched, body, call, attempts, unheard, counted>>
        /\ \/ /\ Sound(Len(body)) /\ voided' = voided
              /\ rows' = [i \in Indices |->
                             IF i \in s.accepted THEN rows[i] + 1 ELSE rows[i]]
           \/ voided' = voided \cup s.accepted /\ rows' = rows
    BY <1>5 DEF StoreBatch, VoidBatch, request, stored
  <2>2. Indices' = Indices /\ AcceptedOf' = AcceptedOf /\ Sound(Len(body))' = Sound(Len(body))
    BY <2>1 DEF Indices, AcceptedOf, Sound
  <2>3. s.accepted = AcceptedOf
    BY <1>a, <2>1 DEF AnswersAgree
  <2>4. /\ rows' \in [Indices -> Nat]
        /\ \A i \in Indices : rows'[i] \in {rows[i], rows[i] + 1}
    BY <1>b, <2>1
  <2>5. CallTypeOK' /\ CallPaced'
    BY <1>a, <1>b, <2>1, <2>2, <2>3, <2>4 DEF CallTypeOK, CallPaced
  <2>6. CopiesCounted'
    <3>1. /\ IsFiniteSet(served \ {s})
          /\ Cardinality(served \ {s}) \in Nat
          /\ Cardinality(served \ {s}) = Cardinality(served) - 1
      BY <1>c, OneServedLess
    <3>2. Pending(call') = Pending(call) /\ Pending(call) \in Nat
      BY <2>1 DEF Pending
    <3>3. ASSUME NEW i \in Indices
          PROVE  rows'[i] + Cardinality(served \ {s}) <= unheard + Pending(call)
      <4>1. rows[i] + Cardinality(served) <= unheard + Pending(call) /\ rows[i] \in Nat
        BY <1>a, <1>b DEF CopiesCounted
      <4>2. rows'[i] \in {rows[i], rows[i] + 1}
        BY <2>4
      <4> QED
        BY <1>b, <1>c, <3>1, <3>2, <4>1, <4>2
    <3> QED
      BY <2>1, <2>2, <3>1, <3>2, <3>3 DEF CopiesCounted
  <2>7. AnswersAgree'
    BY <1>a, <2>1, <2>2 DEF AnswersAgree
  <2>8. RowsAgree'
    <3>1. CASE rows' = rows
      BY <1>a, <2>1, <2>2, <3>1 DEF RowsAgree
    <3>2. CASE rows' # rows
      <4>1. Sound(Len(body)) /\
            rows' = [i \in Indices |-> IF i \in AcceptedOf THEN rows[i] + 1
                                                            ELSE rows[i]]
        BY <2>1, <2>3, <3>2
      <4>2. \A i \in Indices : i \in AcceptedOf <=> body[i] = "fine"
        <5>1. \A i \in Indices : Sound(i)
          BY <1>b, <4>1 DEF Sound
        <5> QED
          BY <5>1 DEF AcceptedOf
      <4>3. \A i \in Indices : rows'[i] = IF body[i] = "fine" THEN rows[i] + 1
                                                              ELSE rows[i]
        BY <4>1, <4>2
      <4> QED
        BY <1>a, <1>b, <2>1, <2>2, <4>1, <4>3 DEF RowsAgree
    <3> QED
      BY <3>1, <3>2
  <2>9. AcceptedIsKept'
    <3> SUFFICES ASSUME NEW i \in counted
                 PROVE  \/ rows'[i] > 0
                        \/ i \in voided'
                        \/ \E r \in served' : r.answered /\ i \in r.accepted
      BY <2>1 DEF AcceptedIsKept
    <3>1. i \in Indices
      BY <1>a DEF CallTypeOK
    <3>2. CASE i \in s.accepted
      BY <1>b, <2>1, <3>1, <3>2
    <3>3. CASE i \notin s.accepted
      <4>1. voided \subseteq voided' /\ (rows[i] > 0 => rows'[i] > 0)
        BY <1>b, <2>1, <2>4, <3>1
      <4> QED
        BY <1>a, <2>1, <3>3, <4>1 DEF AcceptedIsKept
    <3> QED
      BY <3>2, <3>3
  <2> QED
    BY <2>5, <2>6, <2>7, <2>8, <2>9 DEF CallInv
<1>6. CASE UNCHANGED callVars
  <2>1. UNCHANGED <<library, batched, body, call, attempts, unheard, counted,
                    served, rows, voided>>
    BY <1>6 DEF callVars
  <2>2. Indices' = Indices /\ AcceptedOf' = AcceptedOf
        /\ Sound(Len(body))' = Sound(Len(body)) /\ Pending(call') = Pending(call)
    BY <2>1 DEF Indices, AcceptedOf, Sound, Pending
  <2> QED
    BY <1>a, <2>1, <2>2
    DEF CallInv, CallTypeOK, CallPaced, CopiesCounted, AnswersAgree, RowsAgree,
        AcceptedIsKept
<1> QED
  BY <1>1, <1>2, <1>3, <1>4, <1>5, <1>6 DEF CallNext

LEMMA CallInitial == CallInit => CallInv
<1> SUFFICES ASSUME CallInit PROVE CallInv
  OBVIOUS
<1>1. body \in Seq(Events)
  <2>1. PICK n \in 0 .. BatchLimit + 1 : body \in [1..n -> Events]
    BY DEF CallInit, Bodies
  <2>2. n \in Nat
    BY CallLimits
  <2> QED
    BY <2>1, <2>2, SeqDef
<1>2. CallTypeOK
  BY <1>1, CallLimits DEF CallInit, CallTypeOK
<1>3. CopiesCounted
  BY FS_EmptySet DEF CallInit, CopiesCounted, Pending
<1> QED
  BY <1>2, <1>3
  DEF CallInit, CallInv, CallPaced, AnswersAgree, RowsAgree, AcceptedIsKept

(* Every reachable state of a call is well typed: in particular there are  *)
(* no more attempts than retries allow.                                    *)
THEOREM CallTypeCorrect == CallSpec => []CallTypeOK
<1>1. CallInv => CallTypeOK
  BY DEF CallInv
<1> QED
  BY <1>1, CallInitial, CallStep, PTL DEF CallSpec

(* However attempts, late answers, failures and rollbacks interleave, the  *)
(* caller's "accepted" is a row, will be one, or was rolled back after the *)
(* answer; valid events are stored together; and copies are attempts that  *)
(* nothing was heard of (_request, ingest_event_batch).                    *)
THEOREM CallsCorrect == CallSpec => []CallersAreToldTheTruth
<1>1. CallInv => CallersAreToldTheTruth
  <2> SUFFICES ASSUME CallInv PROVE CallersAreToldTheTruth
    OBVIOUS
  <2>a. /\ CallTypeOK /\ CopiesCounted /\ RowsAgree /\ AcceptedIsKept
    BY DEF CallInv
  <2>1. CopiesAreUnheard
    <3> SUFFICES ASSUME NEW i \in Indices PROVE rows[i] <= unheard + 1
      BY DEF CopiesAreUnheard
    <3>1. /\ rows[i] + Cardinality(served) <= unheard + Pending(call)
          /\ Cardinality(served) \in Nat /\ Pending(call) \in 0..1
      BY <2>a, FS_CardinalityType DEF CopiesCounted, Pending
    <3> QED
      BY <2>a, <3>1, CallNumbers
  <2>2. StoredTogether
    <3> SUFFICES ASSUME NEW i \in Indices, rows[i] > 0
                 PROVE  /\ body[i] = "fine"
                        /\ \A j \in Indices :
                              /\ body[j] # "oversized"
                              /\ body[j] = "fine" => rows[j] = rows[i]
      BY DEF StoredTogether
    <3>1. body[i] = "fine" /\ Sound(Len(body))
      BY <2>a DEF RowsAgree
    <3>2. \A j \in Indices : body[j] # "oversized"
      BY <2>a, <3>1, CallNumbers DEF Sound
    <3> QED
      BY <2>a, <3>1, <3>2 DEF RowsAgree
  <2> QED
    BY <2>a, <2>1, <2>2 DEF CallersAreToldTheTruth
<1> QED
  BY <1>1, CallInitial, CallStep, PTL DEF CallSpec

-----------------------------------------------------------------------------
(* LogTail: what was yielded lies behind the tailer's position, in files   *)
(* made so far and within their text, and the position is where the file   *)
(* was opened or the latest piece ended.                                   *)
BehindTheTailer ==
    \A j \in DOMAIN pieces :
        /\ pieces[j].file <= made
        /\ pieces[j].upto <= text[pieces[j].file]
        /\ fh.file # 0 => \/ pieces[j].file < fh.file
                          \/ /\ pieces[j].file = fh.file
                             /\ pieces[j].upto <= fh.at

AtAnEnd ==
    fh.file # 0 => \/ fh \in openings
                   \/ \E j \in DOMAIN pieces : /\ pieces[j].file = fh.file
                                              /\ pieces[j].upto = fh.at

TailInv ==
    /\ TailTypeOK
    /\ fh.file <= made
    /\ fh.file # 0 => fh.at <= text[fh.file]
    /\ fh.file = 0 => fh = None
    /\ step = "read" => fh.file # 0
    /\ BehindTheTailer
    /\ AtAnEnd
    /\ YieldedInOrder
    /\ OnlyOpeningsSkip
    /\ EventsAreAcceptable

LEMMA LineEndFacts ==
    ASSUME TailInv, step = "read", fh.at < text[fh.file]
    PROVE  /\ fh.file \in FileNumbers
           /\ LineEnd \in 0..MaxText
           /\ fh.at < LineEnd /\ LineEnd <= text[fh.file]
<1>1. /\ fh.file \in FileNumbers /\ fh.at \in Nat
      /\ text[fh.file] \in 0..MaxText /\ MaxText \in Nat
  BY TailLimits DEF TailInv, TailTypeOK, Positions, FileNumbers
<1> DEFINE whole == fh.at + 2 - (fh.at % 2)
<1>2. whole \in Nat /\ fh.at < whole
  BY <1>1
<1>3. LineEnd = IF whole <= text[fh.file] THEN whole ELSE text[fh.file]
  BY DEF LineEnd
<1> HIDE DEF whole
<1> QED
  BY <1>1, <1>2, <1>3

LEMMA EventFacts ==
    ASSUME NEW q \in Parsers, NEW k \in LineKinds
    PROVE  EventOf(q, k) = NoEvent
             \/ EventOf(q, k) \in AcceptedTypes \X AcceptedSeverities
  BY DEF Parsers, LineKinds, EventOf, NginxEvent, ApacheEvent, SyslogEvent,
         NoEvent, AcceptedTypes, AcceptedSeverities

LEMMA TailStep == TailInv /\ [TailNext]_tailVars => TailInv'
<1> SUFFICES ASSUME TailInv, [TailNext]_tailVars PROVE TailInv'
  OBVIOUS
<1> USE TailLimits DEF tailer, logFiles
<1>1. ASSUME NEW i \in FileNumbers, WriteText(i) PROVE TailInv'
  <2>1. /\ text' \in [FileNumbers -> 0..MaxText]
        /\ \A n \in FileNumbers : text[n] <= text'[n]
    BY <1>1 DEF WriteText, TailInv, TailTypeOK
  <2>2. TailTypeOK'
    BY <1>1, <2>1 DEF WriteText, TailInv, TailTypeOK
  <2>3. BehindTheTailer'
    <3> SUFFICES ASSUME NEW j \in DOMAIN pieces
                 PROVE  pieces[j].upto <= text'[pieces[j].file]
      BY <1>1 DEF WriteText, TailInv, BehindTheTailer
    <3>1. /\ pieces[j] \in Piece /\ pieces[j].upto <= text[pieces[j].file]
      BY DEF TailInv, TailTypeOK, BehindTheTailer
    <3> QED
      BY <2>1, <3>1 DEF Piece, TailInv, TailTypeOK
  <2>4. fh.file # 0 => fh.at <= text'[fh.file]
    BY <2>1 DEF TailInv, TailTypeOK, Positions, FileNumbers
  <2> QED
    BY <1>1, <2>2, <2>3, <2>4
    DEF WriteText, TailInv, AtAnEnd, YieldedInOrder, OnlyOpeningsSkip,
        EventsAreAcceptable
<1>2. CASE MoveAway \/ EndOfFile \/ OpenFails
  <2>1. /\ UNCHANGED <<format, made, text, noted, inode, fh, openings, pieces,
                       pushed>>
        /\ present' \in {present, 0} /\ step' \in {"stat", step}
    BY <1>2 DEF MoveAway, EndOfFile, OpenFails
  <2> QED
    BY <2>1 DEF TailInv, TailTypeOK, BehindTheTailer, AtAnEnd, YieldedInOrder,
                OnlyOpeningsSkip, EventsAreAcceptable
<1>3. CASE MakeFile
  <2>1. /\ made' = made + 1 /\ present' = made' /\ made' \in 0..MaxFiles
        /\ UNCHANGED <<format, text, tailer>>
    BY <1>3 DEF MakeFile, TailInv, TailTypeOK
  <2>2. BehindTheTailer'
    <3>1. \A j \in DOMAIN pieces : pieces[j] \in Piece
      BY DEF TailInv, TailTypeOK
    <3>2. \A j \in DOMAIN pieces : pieces[j].file <= made + 1
      BY <3>1 DEF TailInv, TailTypeOK, BehindTheTailer, Piece, FileNumbers
    <3> QED
      BY <2>1, <3>2 DEF TailInv, BehindTheTailer
  <2>3. TailTypeOK' /\ fh.file <= made'
    BY <2>1 DEF TailInv, TailTypeOK, Positions
  <2> QED
    BY <2>1, <2>2, <2>3 DEF TailInv, AtAnEnd, YieldedInOrder,
                OnlyOpeningsSkip, EventsAreAcceptable
<1>4. CASE Stat
  <2>1. /\ UNCHANGED <<logFiles, inode, openings, pieces, pushed>>
        /\ noted' = present /\ fh' \in {None, fh}
        /\ step' = IF fh' = None THEN "open" ELSE "read"
    BY <1>4 DEF Stat
  <2>2. None \in Positions /\ None.file = 0
    BY DEF None, Positions
  <2>3. TailTypeOK' /\ (step' = "read" => fh'.file # 0)
    BY <2>1, <2>2 DEF TailInv, TailTypeOK
  <2>4. CASE fh' = None
    BY <2>1, <2>2, <2>3, <2>4
    DEF TailInv, TailTypeOK, BehindTheTailer, AtAnEnd, YieldedInOrder,
        OnlyOpeningsSkip, EventsAreAcceptable
  <2>5. CASE fh' = fh
    BY <2>1, <2>3, <2>5
    DEF TailInv, BehindTheTailer, AtAnEnd, YieldedInOrder,
        OnlyOpeningsSkip, EventsAreAcceptable
  <2> QED
    BY <2>1, <2>4, <2>5
<1>5. CASE OpenAtEnd
  <2>1. /\ present \in FileNumbers /\ present = made
        /\ text[present] \in 0..MaxText
    BY <1>5 DEF OpenAtEnd, TailInv, TailTypeOK, FileNumbers
  <2>2. /\ fh' = [file |-> present, at |-> text[present]]
        /\ openings' = openings \cup {fh'} /\ inode' = noted
        /\ step' = "read"
        /\ UNCHANGED <<logFiles, noted, pieces, pushed>>
    BY <1>5 DEF OpenAtEnd
  <2>3. fh' \in Positions /\ fh'.file # 0
    BY <2>1, <2>2 DEF Positions, FileNumbers
  <2>4. TailTypeOK'
    BY <2>2, <2>3 DEF TailInv, TailTypeOK
  <2>5. BehindTheTailer'
    <3> SUFFICES ASSUME NEW j \in DOMAIN pieces
                 PROVE  \/ pieces[j].file < present
                        \/ /\ pieces[j].file = present
                           /\ pieces[j].upto <= text[present]
      BY <2>2 DEF TailInv, BehindTheTailer
    <3>1. /\ pieces[j] \in Piece /\ pieces[j].file <= present
          /\ pieces[j].upto <= text[pieces[j].file]
      BY <2>1 DEF TailInv, TailTypeOK, BehindTheTailer
    <3> QED
      BY <2>1, <3>1 DEF Piece, FileNumbers
  <2>6. OnlyOpeningsSkip'
    BY <2>2 DEF TailInv, OnlyOpeningsSkip
  <2>7. AtAnEnd'
    BY <2>2 DEF AtAnEnd
  <2> QED
    BY <2>1, <2>2, <2>3, <2>4, <2>5, <2>6, <2>7
    DEF TailInv, YieldedInOrder, EventsAreAcceptable, FileNumbers
<1>6. CASE ReadLine
  <2> DEFINE p == [file |-> fh.file, from |-> fh.at, upto |-> LineEnd]
  <2>1. /\ fh.file \in FileNumbers /\ LineEnd \in 0..MaxText
        /\ fh.at < LineEnd /\ LineEnd <= text[fh.file]
    BY <1>6, LineEndFacts DEF ReadLine
  <2>2. /\ pieces' = Append(pieces, p) /\ fh' = [fh EXCEPT !.at = LineEnd]
        /\ UNCHANGED <<logFiles, step, noted, inode, openings>>
        /\ \E k \in LineKinds : pushed' = EventOf(format, k)
    BY <1>6 DEF ReadLine
  <2>3. /\ fh \in Positions /\ p \in Piece /\ pieces \in Seq(Piece)
        /\ fh' = [file |-> fh.file, at |-> LineEnd]
    <3>1. fh \in Positions /\ pieces \in Seq(Piece)
      BY DEF TailInv, TailTypeOK
    <3>2. fh' = [file |-> fh.file, at |-> LineEnd]
      BY <2>2, <3>1 DEF Positions
    <3>3. fh.at \in 0..MaxText /\ p \in Piece
      BY <2>1, <3>1 DEF Positions, Piece
    <3> QED
      BY <3>1, <3>2, <3>3
  <2> DEFINE n == Len(pieces)
  <2>4. /\ n \in Nat /\ DOMAIN pieces = 1..n /\ DOMAIN pieces' = 1 .. n + 1
        /\ \A j \in 1..n : pieces'[j] = pieces[j] /\ pieces[j] \in Piece
        /\ pieces'[n + 1] = p
    BY <2>2, <2>3
  <2>5. EventsAreAcceptable'
    <3>1. PICK k \in LineKinds : pushed' = EventOf(format, k)
      BY <2>2
    <3>2. format \in Parsers
      BY DEF TailInv, TailTypeOK
    <3>3. pushed' = NoEvent
            \/ pushed' \in AcceptedTypes \X AcceptedSeverities
      BY <3>1, <3>2, EventFacts
    <3> QED
      BY <3>3 DEF EventsAreAcceptable
  <2>6. TailTypeOK'
    <3>1. format \in Parsers
      BY DEF TailInv, TailTypeOK
    <3>2. pieces' \in Seq(Piece) /\ fh' \in Positions
      BY <2>1, <2>2, <2>3 DEF Positions
    <3> QED
      BY <2>2, <3>1, <3>2 DEF TailInv, TailTypeOK
  <2>7. \A j \in 1..n : \/ pieces[j].file < fh.file
                        \/ /\ pieces[j].file = fh.file
                           /\ pieces[j].upto <= fh.at
    BY <2>1, <2>4 DEF TailInv, BehindTheTailer, FileNumbers
  <2> HIDE DEF n, p
  <2>8. BehindTheTailer'
    <3> SUFFICES ASSUME NEW j \in 1 .. n + 1
                 PROVE  /\ pieces'[j].file <= made
                        /\ pieces'[j].upto <= text[pieces'[j].file]
                        /\ \/ pieces'[j].file < fh.file
                           \/ /\ pieces'[j].file = fh.file
                              /\ pieces'[j].upto <= LineEnd
      BY <2>2, <2>3, <2>4 DEF BehindTheTailer
    <3>1. CASE j = n + 1
      BY <2>1, <2>4, <3>1 DEF TailInv, p
    <3>2. CASE j \in 1..n
      <4>1. /\ pieces'[j] = pieces[j] /\ pieces[j] \in Piece
            /\ pieces[j].file <= made
            /\ pieces[j].upto <= text[pieces[j].file]
        BY <2>4, <3>2 DEF TailInv, BehindTheTailer
      <4> QED
        BY <2>1, <2>3, <2>7, <3>2, <4>1 DEF Piece, Positions
    <3> QED
      BY <2>4, <3>1, <3>2
  <2>9. AtAnEnd'
    <3>1. /\ n + 1 \in DOMAIN pieces' /\ pieces'[n + 1].file = fh'.file
          /\ pieces'[n + 1].upto = fh'.at
      BY <2>3, <2>4 DEF p
    <3> QED
      BY <3>1 DEF AtAnEnd
  <2>10. YieldedInOrder'
    <3> SUFFICES ASSUME NEW i \in 1 .. n + 1, NEW j \in 1 .. n + 1, i < j
                 PROVE  \/ pieces'[i].file < pieces'[j].file
                        \/ /\ pieces'[i].file = pieces'[j].file
                           /\ pieces'[i].upto <= pieces'[j].from
      BY <2>4 DEF YieldedInOrder
    <3>1. CASE j = n + 1
      <4>1. i \in 1..n
        BY <2>4, <3>1
      <4> QED
        BY <2>4, <2>7, <3>1, <4>1 DEF p
    <3>2. CASE j \in 1..n
      <4>1. i \in 1..n
        BY <2>4, <3>2
      <4> QED
        BY <2>4, <3>2, <4>1 DEF TailInv, YieldedInOrder
    <3> QED
      BY <2>4, <3>1, <3>2
  <2>11. OnlyOpeningsSkip'
    <3> SUFFICES ASSUME NEW j \in 1 .. n + 1
                 PROVE  \/ [file |-> pieces'[j].file, at |-> pieces'[j].from]
                              \in openings
                        \/ \E i \in 1 .. j - 1 :
                              /\ pieces'[i].file = pieces'[j].file
                              /\ pieces'[i].upto = pieces'[j].from
      BY <2>2, <2>4 DEF OnlyOpeningsSkip
    <3>1. CASE j = n + 1
      <4>1. fh = [file |-> fh.file, at |-> fh.at]
        BY <2>3 DEF Positions
      <4>2. \/ fh \in openings
            \/ \E i \in 1..n : /\ pieces[i].file = fh.file
                               /\ pieces[i].upto = fh.at
        BY <2>1, <2>4 DEF TailInv, AtAnEnd, FileNumbers
      <4> QED
        BY <2>4, <3>1, <4>1, <4>2 DEF p
    <3>2. CASE j \in 1..n
      <4>1. \/ [file |-> pieces[j].file, at |-> pieces[j].from] \in openings
            \/ \E i \in 1 .. j - 1 : /\ pieces[i].file = pieces[j].file
                                     /\ pieces[i].upto = pieces[j].from
        BY <2>4, <3>2 DEF TailInv, OnlyOpeningsSkip
      <4>2. \A i \in 1 .. j - 1 : i \in 1..n
        BY <2>4, <3>2
      <4> QED
        BY <2>4, <3>2, <4>1, <4>2
    <3> QED
      BY <2>4, <3>1, <3>2
  <2> QED
    BY <2>1, <2>2, <2>3, <2>5, <2>6, <2>8, <2>9, <2>10, <2>11
    DEF TailInv, FileNumbers, Positions
<1>7. CASE UNCHANGED tailVars
  BY <1>7
  DEF tailVars, TailInv, TailTypeOK, BehindTheTailer, AtAnEnd,
      YieldedInOrder, OnlyOpeningsSkip, EventsAreAcceptable
<1> QED
  BY <1>1, <1>2, <1>3, <1>4, <1>5, <1>6, <1>7 DEF TailNext

LEMMA TailInitial == TailInit => TailInv
  BY TailLimits
  DEF TailInit, TailInv, TailTypeOK, BehindTheTailer, AtAnEnd, YieldedInOrder,
      OnlyOpeningsSkip, EventsAreAcceptable, None, Positions, FileNumbers

(* The tailer's handle, its position and what it yielded are well typed    *)
(* for every number of files and amount of text (lbro_agent.py,            *)
(* tail_file).                                                             *)
THEOREM TailTypeCorrect == TailSpec => []TailTypeOK
<1>1. TailInv => TailTypeOK
  BY DEF TailInv
<1>2. QED
  BY <1>1, TailInitial, TailStep, PTL DEF TailSpec

(* A watcher yields the text of the files in order, none of it twice and   *)
(* without a gap but at an opening, and pushes only events the API takes,  *)
(* for every number of rotations (lbro_agent.py, tail_file).               *)
THEOREM TailCorrect == TailSpec => []TailIsFaithful
<1>1. TailInv => TailIsFaithful
  BY DEF TailInv, TailIsFaithful
<1>2. QED
  BY <1>1, TailInitial, TailStep, PTL DEF TailSpec

=============================================================================
