---------------------- MODULE NotificationDeliveryProofs ----------------------
(***************************************************************************)
(* Proofs about NotificationDelivery for every set of notifications,       *)
(* clients and workers and every bound.                                    *)
(***************************************************************************)
EXTENDS NotificationDelivery, FiniteSetTheorems, TLAPS

USE DEF Row, Lifecycle!Row, Lifecycle!Status, Message, MessageAbout, Posted,
        Received, Deleted

(* The rows the abstract life cycle builds are rows.                       *)
LEMMA RowFacts ==
    /\ Lifecycle!Fresh \in Row
    /\ \A r \in Row :
         /\ Lifecycle!Approved(r) \in Row
         /\ Lifecycle!Approved(r).status = "approved"
         /\ Lifecycle!Approved(r).sentAt = r.sentAt
         /\ Lifecycle!Approved(r).retries = r.retries
         /\ Lifecycle!Delivered(r) \in Row
         /\ Lifecycle!Delivered(r).status = "sent"
         /\ Lifecycle!Delivered(r).sentAt = TRUE
         /\ Lifecycle!Delivered(r).retries = r.retries
         /\ Lifecycle!Bounced(r) \in Row
         /\ Lifecycle!Bounced(r).status = "failed"
         /\ Lifecycle!Bounced(r).sentAt = r.sentAt
         /\ Lifecycle!Bounced(r).retries = r.retries + 1
<1>1. Lifecycle!Fresh \in Row
  BY DEF Lifecycle!Fresh
<1> SUFFICES ASSUME NEW r \in Row
             PROVE  /\ Lifecycle!Approved(r) \in Row
                    /\ Lifecycle!Approved(r).status = "approved"
                    /\ Lifecycle!Approved(r).sentAt = r.sentAt
                    /\ Lifecycle!Approved(r).retries = r.retries
                    /\ Lifecycle!Delivered(r) \in Row
                    /\ Lifecycle!Delivered(r).status = "sent"
                    /\ Lifecycle!Delivered(r).sentAt = TRUE
                    /\ Lifecycle!Delivered(r).retries = r.retries
                    /\ Lifecycle!Bounced(r) \in Row
                    /\ Lifecycle!Bounced(r).status = "failed"
                    /\ Lifecycle!Bounced(r).sentAt = r.sentAt
                    /\ Lifecycle!Bounced(r).retries = r.retries + 1
  BY <1>1
<1>2. /\ Lifecycle!Approved(r) \in Row
      /\ Lifecycle!Approved(r).status = "approved"
      /\ Lifecycle!Approved(r).sentAt = r.sentAt
      /\ Lifecycle!Approved(r).retries = r.retries
  BY DEF Lifecycle!Approved
<1>3. Lifecycle!Delivered(r) \in Row
  BY DEF Lifecycle!Delivered
<1>4. /\ Lifecycle!Delivered(r).status = "sent"
      /\ Lifecycle!Delivered(r).sentAt = TRUE
      /\ Lifecycle!Delivered(r).retries = r.retries
  BY DEF Lifecycle!Delivered
<1>5. Lifecycle!Bounced(r) \in Row
  BY DEF Lifecycle!Bounced
<1>6. /\ Lifecycle!Bounced(r).status = "failed"
      /\ Lifecycle!Bounced(r).sentAt = r.sentAt
      /\ Lifecycle!Bounced(r).retries = r.retries + 1
  BY DEF Lifecycle!Bounced
<1> QED
  BY <1>2, <1>3, <1>4, <1>5, <1>6

(* Merging rows yields a row.                                              *)
LEMMA WrittenIsRow ==
    \A cur, read, new \in Row : Written(cur, read, new) \in Row
  BY DEF Written, Lifecycle!Merged, Lifecycle!Flushed

(* Receiving a message keeps the queue well formed.                        *)
LEMMA ReceiveFacts ==
    ASSUME TypeOK, NEW w \in Workers, NEW m \in queue, Receive(w, m)
    PROVE  /\ m.subject \in Notifications
           /\ queue' \subseteq Message
           /\ held' \in [Workers -> Nat]
<1>1. m \in Message
  BY DEF TypeOK
<1>2. [m EXCEPT !.receives = @ + 1] \in Message
  BY <1>1
<1> QED
  BY <1>1, <1>2 DEF Receive, TypeOK

(* Every reachable state is well typed (the model of the notifications     *)
(* table, its sessions and its queue).                                     *)
THEOREM TypeCorrect == Spec => []TypeOK
<1>1. Init => TypeOK
  BY RowFacts DEF Init, TypeOK, Lifecycle!Init, Stages
<1>2. TypeOK /\ [Next]_vars => TypeOK'
  <2> SUFFICES ASSUME TypeOK, [Next]_vars PROVE TypeOK'
    OBVIOUS
  <2> USE DEF TypeOK, Stages, sessionVars, queueVars, mailVars, rowVars
  <2>1. ASSUME NEW c \in Clients, NEW n \in Notifications, NEW st \in Stages,
               Request(c, n, st)
        PROVE  TypeOK'
    BY <2>1 DEF Request, Load, Sessions
  <2>2. ASSUME NEW c \in Clients, FlushApproval(c) PROVE TypeOK'
    <3>1. c \in Sessions /\ Lifecycle!Approved(mine[c]) \in Row
      BY RowFacts DEF Sessions
    <3>2. mine' \in [Sessions -> Row]
      BY <2>2, <3>1 DEF FlushApproval
    <3>3. queue' \subseteq Message /\ nextId' \in Nat
      BY <2>2, <3>1 DEF FlushApproval
    <3>4. /\ pc' \in [Sessions -> Stages]
          /\ lock' \in [Notifications -> SUBSET Sessions]
      BY <2>2, <3>1 DEF FlushApproval
    <3> QED
      BY <2>2, <3>2, <3>3, <3>4 DEF FlushApproval
  <2>3. ASSUME NEW s \in Sessions, NEW r \in Row, MailEnds(s, r),
               emails' \in [Notifications -> Nat],
               logged' \in [Notifications -> Nat],
               failures' \in [Notifications -> Nat],
               unrecorded' \in [Notifications -> Nat]
        PROVE  TypeOK'
    BY <2>3 DEF MailEnds
  <2>4. ASSUME NEW s \in Sessions,
               MailAccepted(s) \/ MailLogged(s) \/ MailRaised(s)
        PROVE  TypeOK'
    <3>1. /\ mine[s] \in Row
          /\ Lifecycle!Delivered(mine[s]) \in Row
          /\ Lifecycle!Bounced(mine[s]) \in Row
      BY RowFacts
    <3>2. CASE MailAccepted(s)
      <4>1. emails' \in [Notifications -> Nat]
        BY <3>2 DEF MailAccepted
      <4>2. /\ MailEnds(s, Lifecycle!Delivered(mine[s]))
            /\ UNCHANGED <<logged, failures, unrecorded>>
        BY <3>2 DEF MailAccepted
      <4> QED
        BY <2>3, <3>1, <4>1, <4>2
    <3>3. CASE MailLogged(s)
      <4>1. logged' \in [Notifications -> Nat]
        BY <3>3 DEF MailLogged
      <4>2. /\ MailEnds(s, Lifecycle!Delivered(mine[s]))
            /\ UNCHANGED <<emails, failures, unrecorded>>
        BY <3>3 DEF MailLogged
      <4> QED
        BY <2>3, <3>1, <4>1, <4>2
    <3>4. CASE MailRaised(s)
      <4>1. /\ emails' \in [Notifications -> Nat]
            /\ unrecorded' \in [Notifications -> Nat]
        <5>1. CASE UNCHANGED <<emails, unrecorded>>
          BY <5>1
        <5>2. CASE /\ emails' = [emails EXCEPT ![on[s]] = @ + 1]
                   /\ unrecorded' = [unrecorded EXCEPT ![on[s]] = @ + 1]
          BY <5>2
        <5> QED
          BY <3>4, <5>1, <5>2 DEF MailRaised
      <4>2. /\ MailEnds(s, Lifecycle!Bounced(mine[s]))
            /\ logged' = logged
        BY <3>4 DEF MailRaised
      <4>3. failures' \in [Notifications -> Nat]
        BY <3>4 DEF MailRaised
      <4> QED
        BY <2>3, <3>1, <4>1, <4>2, <4>3
    <3> QED
      BY <2>4, <3>2, <3>3, <3>4
  <2>5. ASSUME NEW s \in Sessions, FlushSend(s) PROVE TypeOK'
    BY <2>5 DEF FlushSend
  <2>6. ASSUME NEW s \in Sessions, Commit(s) PROVE TypeOK'
    <3>1. Written(db[on[s]], loaded[s], mine[s]) \in Row
      BY WrittenIsRow
    <3>2. /\ db' \in [Notifications -> Row]
          /\ past' \in [Notifications -> SUBSET Row]
          /\ overtaken' \subseteq Notifications
      BY <2>6, <3>1 DEF Commit
    <3>3. /\ pc' \in [Sessions -> Stages]
          /\ lock' \in [Notifications -> SUBSET Sessions]
      BY <2>6 DEF Commit, Close
    <3>4. loaded' \in [Sessions -> Row] /\ mine' \in [Sessions -> Row]
      BY <2>6, RowFacts DEF Commit, Close
    <3> QED
      BY <2>6, <3>2, <3>3, <3>4 DEF Commit, Close
  <2>7. ASSUME NEW s \in Sessions, Abort(s) PROVE TypeOK'
    <3>1. loaded' \in [Sessions -> Row] /\ mine' \in [Sessions -> Row]
      BY <2>7, RowFacts DEF Abort, Close
    <3>2. /\ pc' \in [Sessions -> Stages]
          /\ lock' \in [Notifications -> SUBSET Sessions]
      BY <2>7 DEF Abort, Close
    <3>3. unrecorded' \in [Notifications -> Nat]
      BY <2>7 DEF Abort
    <3> QED
      BY <2>7, <3>1, <3>2, <3>3 DEF Abort, Close
  <2>8. ASSUME NEW w \in Workers, NEW m \in queue, WorkerTakes(w, m)
        PROVE  TypeOK'
    BY <2>8, ReceiveFacts DEF WorkerTakes, Receive, Load, Sessions
  <2>9. ASSUME NEW w \in Workers, NEW m \in queue, WorkerSkips(w, m)
        PROVE  TypeOK'
    BY <2>9, ReceiveFacts DEF WorkerSkips, Receive, Sessions
  <2>10. ASSUME NEW w \in Workers, DeleteMessage(w) PROVE TypeOK'
    BY <2>10 DEF DeleteMessage, Sessions
  <2>11. ASSUME NEW m \in queue, Redrive(m) PROVE TypeOK'
    BY <2>11 DEF Redrive
  <2>12. CASE UNCHANGED vars
    BY <2>12 DEF vars
  <2> QED
    BY <2>1, <2>2, <2>3, <2>4, <2>5, <2>6, <2>7, <2>8, <2>9, <2>10, <2>11,
       <2>12
    DEF Next, SessionStep, Poll, BeginApprove, BeginDispatch, BeginSend
<1>3. QED
  BY <1>1, <1>2, PTL DEF Spec
-----------------------------------------------------------------------------
(* What a session may hold: the inductive part of the two register         *)
(* invariants.  A session that read a delivery keeps it, an attempt counts *)
(* once, and only a finished attempt changes the counter.                  *)
SessionHonest(s) ==
    /\ loaded[s].sentAt => db[on[s]].sentAt
    /\ loaded[s].sentAt => mine[s].sentAt
    /\ mine[s].sentAt => Mails(on[s]) > 0
    /\ mine[s].status = "sent" => mine[s].sentAt
    /\ mine[s].retries <= failures[on[s]]
    /\ mine[s].retries \in {loaded[s].retries, loaded[s].retries + 1}
    /\ pc[s] \notin {"flushing", "committing"}
         => mine[s].retries = loaded[s].retries
    /\ mine[s].status = "failed" /\ loaded[s].status # "failed"
         => mine[s].retries = loaded[s].retries + 1

RegisterHonest ==
    /\ SentWasMailed
    /\ RetriesAreFailures
    /\ \A s \in Sessions : SessionHonest(s)

(* The merge of a session's write with the committed row keeps the row     *)
(* honest, whatever others committed since the session read.               *)
LEMMA WrittenHonest ==
    ASSUME NEW cur \in Row, NEW read \in Row, NEW new \in Row,
           NEW e \in Nat, NEW f \in Nat,
           cur.status = "sent" => cur.sentAt,
           cur.sentAt => e > 0,
           cur.retries <= f,
           cur.status = "failed" => cur.retries > 0,
           read.sentAt => cur.sentAt,
           read.sentAt => new.sentAt,
           new.sentAt => e > 0,
           new.status = "sent" => new.sentAt,
           new.retries <= f,
           new.retries \in {read.retries, read.retries + 1},
           new.status = "failed" /\ read.status # "failed"
             => new.retries = read.retries + 1
    PROVE  LET r == Written(cur, read, new)
           IN  /\ r.status = "sent" => r.sentAt
               /\ r.sentAt => e > 0
               /\ r.retries <= f
               /\ r.status = "failed" => r.retries > 0
               /\ cur.sentAt => r.sentAt
  BY DEF Written, Lifecycle!Merged, Lifecycle!Flushed

(* A step of session s leaves another session alone as long as deliveries, *)
(* mails and failures only grow.                                           *)
LEMMA OthersStayHonest ==
    ASSUME TypeOK, TypeOK', NEW t \in Sessions, SessionHonest(t),
           UNCHANGED <<pc[t], on[t], loaded[t], mine[t]>>,
           db[on[t]].sentAt => db'[on[t]].sentAt,
           Mails(on[t]) <= Mails(on[t])',
           failures[on[t]] <= failures'[on[t]]
    PROVE  SessionHonest(t)'
<1>1. /\ Mails(on[t]) \in Nat /\ Mails(on[t])' \in Nat
      /\ failures[on[t]] \in Nat /\ failures'[on[t]] \in Nat
      /\ mine[t].retries \in Nat
  BY DEF TypeOK, Mails
<1> QED
  BY <1>1 DEF SessionHonest

(* A session that just read row n holds what the table holds.              *)
LEMMA LoadedIsHonest ==
    ASSUME TypeOK, RegisterHonest, NEW s \in Sessions,
           NEW n \in Notifications, NEW st \in {"approving", "dispatching",
           "mailing"}, Load(s, n, st), UNCHANGED <<db, mailVars>>
    PROVE  RegisterHonest'
<1>1. SentWasMailed' /\ RetriesAreFailures'
  BY DEF RegisterHonest, SentWasMailed, RetriesAreFailures, mailVars, Mails
<1>2. SessionHonest(s)'
  <2>1. /\ loaded'[s] = db[n] /\ mine'[s] = db[n] /\ on'[s] = n
        /\ pc'[s] \notin {"flushing", "committing"}
    BY DEF Load, TypeOK
  <2>2. db[n] \in Row /\ failures[n] \in Nat
    BY DEF TypeOK
  <2> QED
    BY <2>1, <2>2
    DEF RegisterHonest, SentWasMailed, RetriesAreFailures, SessionHonest,
        mailVars, Mails
<1>3. ASSUME NEW t \in Sessions, t # s PROVE SessionHonest(t)'
  <2>1. UNCHANGED <<pc[t], on[t], loaded[t], mine[t]>>
    BY <1>3 DEF Load, TypeOK
  <2> QED
    BY <2>1 DEF RegisterHonest, SessionHonest, mailVars, Mails
<1> QED
  BY <1>1, <1>2, <1>3 DEF RegisterHonest

(* A closed session holds nothing.                                         *)
LEMMA ClosedIsHonest ==
    ASSUME TypeOK, TypeOK', NEW s \in Sessions, NEW st \in {"idle", "acking"},
           Close(s, st)
    PROVE  SessionHonest(s)'
<1>1. /\ loaded'[s] = Lifecycle!Fresh /\ mine'[s] = Lifecycle!Fresh
      /\ pc'[s] = st /\ on'[s] \in Notifications
  BY DEF Close, TypeOK
<1>2. failures'[on'[s]] \in Nat
  BY <1>1 DEF TypeOK
<1> QED
  BY <1>1, <1>2 DEF SessionHonest, Lifecycle!Fresh

(* Each step keeps the register and the sessions honest.                   *)
LEMMA HonestyInductive ==
    TypeOK /\ TypeOK' /\ RegisterHonest /\ [Next]_vars => RegisterHonest'
  <2> SUFFICES ASSUME TypeOK, TypeOK', RegisterHonest, [Next]_vars
               PROVE  RegisterHonest'
    OBVIOUS
  <2> USE DEF sessionVars, queueVars, mailVars, rowVars
  <2>0. ASSUME NEW s \in Sessions,
               UNCHANGED <<db, emails, logged, failures>>,
               \A t \in Sessions \ {s} :
                  UNCHANGED <<pc[t], on[t], loaded[t], mine[t]>>,
               SessionHonest(s)'
        PROVE  RegisterHonest'
    <3>1. SentWasMailed' /\ RetriesAreFailures'
      BY <2>0 DEF RegisterHonest, SentWasMailed, RetriesAreFailures, Mails
    <3>2. ASSUME NEW t \in Sessions \ {s} PROVE SessionHonest(t)'
      BY <2>0, <3>2 DEF RegisterHonest, SessionHonest, Mails
    <3> QED
      BY <2>0, <3>1, <3>2 DEF RegisterHonest
  <2>1. ASSUME NEW c \in Clients, NEW n \in Notifications,
               NEW st \in {"approving", "dispatching", "mailing"},
               Request(c, n, st)
        PROVE  RegisterHonest'
    BY <2>1, LoadedIsHonest DEF Request, Sessions
  <2>2. ASSUME NEW c \in Clients, FlushApproval(c) PROVE RegisterHonest'
    <3> DEFINE s == c
    <3>1. s \in Sessions
      BY DEF Sessions
    <3>2. /\ loaded'[s] = loaded[s] /\ on'[s] = on[s]
          /\ mine'[s] = Lifecycle!Approved(mine[s])
          /\ pc[s] \notin {"flushing", "committing"}
      BY <2>2, <3>1 DEF FlushApproval, TypeOK
    <3>3. /\ mine[s] \in Row
          /\ mine'[s].status = "approved"
          /\ mine'[s].sentAt = mine[s].sentAt
          /\ mine'[s].retries = mine[s].retries
      BY <3>1, <3>2, RowFacts DEF TypeOK
    <3>4. SessionHonest(s)
      BY <3>1 DEF RegisterHonest
    <3>5. UNCHANGED <<db, emails, logged, failures>>
      BY <2>2 DEF FlushApproval
    <3>6. SessionHonest(s)'
      BY <3>2, <3>3, <3>4, <3>5 DEF SessionHonest, Mails
    <3> QED
      BY <2>0, <2>2, <3>1, <3>5, <3>6 DEF FlushApproval, TypeOK
  <2>3. ASSUME NEW s \in Sessions, NEW r \in Row, MailEnds(s, r),
               r.status \in {"sent", "failed"},
               r.status = "sent" => r.sentAt /\ r.retries = mine[s].retries,
               r.status = "failed"
                 => /\ r.sentAt = mine[s].sentAt
                    /\ r.retries = mine[s].retries + 1
                    /\ failures'[on[s]] = failures[on[s]] + 1,
               \A n \in Notifications :
                  /\ Mails(n) <= Mails(n)'
                  /\ r.status = "sent" /\ n = on[s]
                       => Mails(n)' = Mails(n) + 1
                  /\ failures[n] <= failures'[n]
        PROVE  RegisterHonest'
    <3>1. /\ mine'[s] = r /\ loaded'[s] = loaded[s] /\ on' = on /\ db' = db
          /\ pc[s] = "mailing" /\ pc'[s] = "flushing"
      BY <2>3 DEF MailEnds, TypeOK
    <3>2. /\ mine[s] \in Row /\ loaded[s] \in Row
          /\ on[s] \in Notifications
          /\ \A n \in Notifications :
               /\ Mails(n) \in Nat /\ Mails(n)' \in Nat
               /\ failures[n] \in Nat /\ failures'[n] \in Nat
               /\ db[n] \in Row
      BY DEF TypeOK, Mails
    <3>3. SessionHonest(s) /\ mine[s].retries = loaded[s].retries
      BY <3>1 DEF RegisterHonest, SessionHonest
    <3>4. PICK n \in Notifications : n = on[s]
      BY <3>2
    <3>5. SessionHonest(s)'
      <4>1. mine'[s].sentAt => Mails(n)' > 0
        <5>1. mine[s].sentAt => Mails(n) > 0
          BY <3>3, <3>4 DEF SessionHonest
        <5>2. /\ Mails(n) \in Nat /\ Mails(n)' \in Nat
              /\ Mails(n) <= Mails(n)'
              /\ r.status = "sent" => Mails(n)' = Mails(n) + 1
          BY <2>3, <3>2, <3>4
        <5>3. CASE r.status = "sent"
          BY <5>2, <5>3
        <5>4. CASE r.status = "failed"
          <6>1. mine'[s].sentAt = mine[s].sentAt
            BY <2>3, <3>1, <5>4
          <6> QED
            BY <5>1, <5>2, <6>1
        <5> QED
          BY <2>3, <5>3, <5>4
      <4>2. /\ loaded'[s].sentAt => db'[on'[s]].sentAt
            /\ loaded'[s].sentAt => mine'[s].sentAt
            /\ mine'[s].status = "sent" => mine'[s].sentAt
        BY <2>3, <3>1, <3>3 DEF SessionHonest
      <4>3. /\ mine'[s].retries <= failures'[on'[s]]
            /\ mine'[s].retries
                 \in {loaded'[s].retries, loaded'[s].retries + 1}
            /\ mine'[s].status = "failed" /\ loaded'[s].status # "failed"
                 => mine'[s].retries = loaded'[s].retries + 1
        <5>1. mine[s].retries <= failures[n]
          BY <3>3, <3>4 DEF SessionHonest
        <5> QED
          BY <2>3, <3>1, <3>2, <3>3, <3>4, <5>1
      <4>4. Mails(on[s])' = Mails(n)'
        BY <3>1, <3>4 DEF Mails
      <4> QED
        BY <3>1, <4>1, <4>2, <4>3, <4>4 DEF SessionHonest
    <3>6. ASSUME NEW t \in Sessions, t # s PROVE SessionHonest(t)'
      <4>1. /\ UNCHANGED <<pc[t], on[t], loaded[t], mine[t]>>
            /\ on[t] \in Notifications
        BY <2>3, <3>6 DEF MailEnds, TypeOK
      <4> QED
        BY <2>3, <3>1, <4>1, OthersStayHonest DEF RegisterHonest
    <3>7. SentWasMailed' /\ RetriesAreFailures'
      BY <2>3, <3>1, <3>2
      DEF RegisterHonest, SentWasMailed, RetriesAreFailures
    <3> QED
      BY <3>5, <3>6, <3>7 DEF RegisterHonest
  <2>4. ASSUME NEW s \in Sessions,
               MailAccepted(s) \/ MailLogged(s) \/ MailRaised(s)
        PROVE  RegisterHonest'
    <3>1. mine[s] \in Row /\ on[s] \in Notifications
      BY DEF TypeOK
    <3>2. CASE MailAccepted(s)
      <4>1. /\ MailEnds(s, Lifecycle!Delivered(mine[s]))
            /\ emails' = [emails EXCEPT ![on[s]] = @ + 1]
            /\ logged' = logged /\ failures' = failures
        BY <3>2 DEF MailAccepted
      <4>2. \A n \in Notifications :
               /\ Mails(n) <= Mails(n)'
               /\ n = on[s] => Mails(n)' = Mails(n) + 1
               /\ failures[n] <= failures'[n]
        <5> TAKE n \in Notifications
        <5>1. emails[n] \in Nat /\ logged[n] \in Nat /\ failures[n] \in Nat
          BY DEF TypeOK
        <5>2. emails'[n] = IF n = on[s] THEN emails[n] + 1 ELSE emails[n]
          BY <3>1, <4>1 DEF TypeOK
        <5> QED
          BY <4>1, <5>1, <5>2 DEF Mails
      <4> DEFINE r == Lifecycle!Delivered(mine[s])
      <4>3. /\ r \in Row /\ r.status = "sent" /\ r.sentAt
            /\ r.retries = mine[s].retries
        BY <3>1, RowFacts
      <4> HIDE DEF r
      <4> QED
        BY <2>3, <4>1, <4>2, <4>3 DEF r
    <3>3. CASE MailLogged(s)
      <4>1. /\ MailEnds(s, Lifecycle!Delivered(mine[s]))
            /\ logged' = [logged EXCEPT ![on[s]] = @ + 1]
            /\ emails' = emails /\ failures' = failures
        BY <3>3 DEF MailLogged
      <4>2. \A n \in Notifications :
               /\ Mails(n) <= Mails(n)'
               /\ n = on[s] => Mails(n)' = Mails(n) + 1
               /\ failures[n] <= failures'[n]
        <5> TAKE n \in Notifications
        <5>1. emails[n] \in Nat /\ logged[n] \in Nat /\ failures[n] \in Nat
          BY DEF TypeOK
        <5>2. logged'[n] = IF n = on[s] THEN logged[n] + 1 ELSE logged[n]
          BY <3>1, <4>1 DEF TypeOK
        <5> QED
          BY <4>1, <5>1, <5>2 DEF Mails
      <4> DEFINE r == Lifecycle!Delivered(mine[s])
      <4>3. /\ r \in Row /\ r.status = "sent" /\ r.sentAt
            /\ r.retries = mine[s].retries
        BY <3>1, RowFacts
      <4> HIDE DEF r
      <4> QED
        BY <2>3, <4>1, <4>2, <4>3 DEF r
    <3>4. CASE MailRaised(s)
      <4>1. /\ MailEnds(s, Lifecycle!Bounced(mine[s]))
            /\ failures' = [failures EXCEPT ![on[s]] = @ + 1]
            /\ logged' = logged
            /\ \/ emails' = emails
               \/ emails' = [emails EXCEPT ![on[s]] = @ + 1]
        BY <3>4 DEF MailRaised
      <4>2. \A n \in Notifications : Mails(n) <= Mails(n)'
        <5> TAKE n \in Notifications
        <5>1. emails[n] \in Nat /\ logged[n] \in Nat
          BY DEF TypeOK
        <5>2. emails'[n] \in {emails[n], emails[n] + 1}
          BY <3>1, <4>1 DEF TypeOK
        <5> QED
          BY <4>1, <5>1, <5>2 DEF Mails
      <4>3. /\ failures'[on[s]] = failures[on[s]] + 1
            /\ \A n \in Notifications : failures[n] <= failures'[n]
        BY <3>1, <4>1 DEF TypeOK
      <4> QED
        BY <2>3, <3>1, <4>1, <4>2, <4>3, RowFacts
    <3> QED
      BY <2>4, <3>2, <3>3, <3>4
  <2>5. ASSUME NEW s \in Sessions, FlushSend(s) PROVE RegisterHonest'
    <3>1. SessionHonest(s)'
      BY <2>5 DEF FlushSend, RegisterHonest, SessionHonest, Mails, TypeOK
    <3> QED
      BY <2>0, <2>5, <3>1 DEF FlushSend, TypeOK
  <2>6. ASSUME NEW s \in Sessions, Commit(s) PROVE RegisterHonest'
    <3> DEFINE n == on[s]
               r == Written(db[n], loaded[s], mine[s])
    <3>1. /\ n \in Notifications /\ db[n] \in Row /\ loaded[s] \in Row
          /\ mine[s] \in Row /\ Mails(n) \in Nat /\ failures[n] \in Nat
      BY DEF TypeOK, Mails
    <3>2. /\ db' = [db EXCEPT ![n] = r]
          /\ UNCHANGED <<on, emails, logged, failures>>
          /\ \A k : Mails(k)' = Mails(k)
      BY <2>6 DEF Commit, Close, Mails
    <3>3. /\ r.status = "sent" => r.sentAt
          /\ r.sentAt => Mails(n) > 0
          /\ r.retries <= failures[n]
          /\ r.status = "failed" => r.retries > 0
          /\ db[n].sentAt => r.sentAt
      <4>1. SessionHonest(s) /\ SentWasMailed /\ RetriesAreFailures
        BY DEF RegisterHonest
      <4>2. /\ db[n].status = "sent" => db[n].sentAt
            /\ db[n].sentAt => Mails(n) > 0
            /\ db[n].retries <= failures[n]
            /\ db[n].status = "failed" => db[n].retries > 0
        BY <3>1, <4>1 DEF SentWasMailed, RetriesAreFailures
      <4> QED
        BY <3>1, <4>1, <4>2, WrittenHonest DEF SessionHonest
    <3>4. SentWasMailed' /\ RetriesAreFailures'
      BY <3>1, <3>2, <3>3
      DEF RegisterHonest, SentWasMailed, RetriesAreFailures, TypeOK
    <3>5. SessionHonest(s)'
      BY <2>6, ClosedIsHonest DEF Commit
    <3>6. ASSUME NEW t \in Sessions, t # s PROVE SessionHonest(t)'
      <4>1. /\ UNCHANGED <<pc[t], on[t], loaded[t], mine[t]>>
            /\ on[t] \in Notifications /\ Mails(on[t]) \in Nat
            /\ failures[on[t]] \in Nat
        BY <2>6, <3>6 DEF Commit, Close, Mails, TypeOK
      <4>2. db[on[t]].sentAt => db'[on[t]].sentAt
        BY <3>2, <3>3, <4>1 DEF TypeOK
      <4> QED
        BY <3>2, <4>1, <4>2, OthersStayHonest DEF RegisterHonest
    <3> QED
      BY <3>4, <3>5, <3>6 DEF RegisterHonest
  <2>7. ASSUME NEW s \in Sessions, Abort(s) PROVE RegisterHonest'
    <3>1. SessionHonest(s)'
      BY <2>7, ClosedIsHonest DEF Abort
    <3> QED
      BY <2>0, <2>7, <3>1 DEF Abort, Close, TypeOK
  <2>8. ASSUME NEW w \in Workers, NEW m \in queue, WorkerTakes(w, m)
        PROVE  RegisterHonest'
    BY <2>8, ReceiveFacts, LoadedIsHonest
    DEF WorkerTakes, Receive, Sessions
  <2>9. ASSUME NEW s \in Sessions,
               pc[s] \notin {"flushing", "committing"},
               pc' = [pc EXCEPT ![s] = "acking"]
                 \/ pc' = [pc EXCEPT ![s] = "idle"],
               UNCHANGED <<db, on, loaded, mine, mailVars>>
        PROVE  RegisterHonest'
    <3>1. SessionHonest(s)'
      BY <2>9 DEF RegisterHonest, SessionHonest, Mails, TypeOK
    <3> QED
      BY <2>0, <2>9, <3>1 DEF TypeOK
  <2>10. ASSUME NEW w \in Workers, NEW m \in queue, WorkerSkips(w, m)
         PROVE  RegisterHonest'
    BY <2>9, <2>10 DEF WorkerSkips, Receive, Sessions
  <2>11. ASSUME NEW w \in Workers, DeleteMessage(w) PROVE RegisterHonest'
    BY <2>9, <2>11 DEF DeleteMessage, Sessions
  <2>12. ASSUME UNCHANGED <<db, pc, on, loaded, mine, mailVars>>
         PROVE  RegisterHonest'
    BY <2>12
    DEF RegisterHonest, SentWasMailed, RetriesAreFailures, SessionHonest,
        Mails
  <2> QED
    BY <2>1, <2>2, <2>4, <2>5, <2>6, <2>7, <2>8, <2>10, <2>11, <2>12
    DEF Next, SessionStep, Poll, BeginApprove, BeginDispatch, BeginSend,
        Redrive, vars

(* RegisterIsTruthful holds in every reachable state: the register claims  *)
(* no delivery and counts no failure that did not happen                   *)
(* (notification_service.py, send), however sessions overlap and abort.    *)
THEOREM RegisterCorrect == Spec => []RegisterIsTruthful
<1>1. Init => RegisterHonest
  BY DEF Init, Lifecycle!Init, Lifecycle!Fresh, RegisterHonest, SentWasMailed,
         RetriesAreFailures, SessionHonest, Mails
<1>2. TypeOK /\ TypeOK' /\ RegisterHonest /\ [Next]_vars => RegisterHonest'
  BY HonestyInductive
<1>3. RegisterHonest => RegisterIsTruthful
  BY DEF RegisterHonest, RegisterIsTruthful
<1>4. QED
  BY <1>1, <1>2, <1>3, TypeCorrect, PTL DEF Spec
-----------------------------------------------------------------------------
(* What sessions decide on.                                                *)
Busy(s) == pc[s] \notin {"idle", "acking"}

LEMMA OutcomesAre ==
    \A r, new :
        new \in Lifecycle!Outcomes(r)
        <=> \/ r.status = "pending" /\ new = Lifecycle!Approved(r)
            \/ /\ r.status # "sent"
               /\ new \in {Lifecycle!Delivered(r), Lifecycle!Bounced(r)}
  BY DEF Lifecycle!Outcomes

(* What a session holds at each stage: a decision on the row it read.      *)
StageHonest(s) ==
    /\ pc[s] \in {"approving", "dispatching"}
         => mine[s] = loaded[s] /\ loaded[s].status = "pending"
    /\ pc[s] = "mailing"
         => loaded[s].status # "sent" /\ mine[s].retries = loaded[s].retries
              /\ mine[s].sentAt = loaded[s].sentAt
    /\ pc[s] = "flushing"
         => loaded[s].status # "sent"
              /\ mine[s] \in {Lifecycle!Delivered(loaded[s]),
                              Lifecycle!Bounced(loaded[s])}
    /\ pc[s] = "committing" => mine[s] \in Lifecycle!Outcomes(loaded[s])

(* Sessions decide on rows their notifications have had.                   *)
Decided ==
    /\ \A n \in Notifications : db[n] \in past[n]
    /\ \A s \in Sessions : Busy(s) => loaded[s] \in past[on[s]]
    /\ \A s \in Sessions : StageHonest(s)

(* A write into the row the session read is the session's row.             *)
LEMMA WrittenUndisturbed ==
    \A r, new \in Row : Written(r, r, new) = new
  BY DEF Written, Lifecycle!Merged, Lifecycle!Flushed

(* No step lets a session decide on anything but a row that was.           *)
LEMMA DecidedStep == TypeOK /\ TypeOK' /\ Decided /\ [Next]_vars => Decided'
  <2> SUFFICES ASSUME TypeOK, TypeOK', Decided, [Next]_vars
               PROVE  Decided'
    OBVIOUS
  <2> USE DEF sessionVars, queueVars, mailVars, rowVars
  <2>1. ASSUME NEW s \in Sessions, NEW n \in Notifications,
               NEW st \in {"approving", "dispatching", "mailing"},
               Load(s, n, st), UNCHANGED <<db, past>>,
               st \in {"approving", "dispatching"}
                 => db[n].status = "pending",
               st = "mailing" => db[n].status # "sent"
        PROVE  Decided'
    <3>1. /\ pc'[s] = st /\ on'[s] = n /\ loaded'[s] = db[n]
          /\ mine'[s] = db[n]
          /\ \A t \in Sessions \ {s} :
               UNCHANGED <<pc[t], on[t], loaded[t], mine[t]>>
      BY <2>1 DEF Load, TypeOK
    <3>2. StageHonest(s)'
      BY <2>1, <3>1 DEF StageHonest
    <3>3. \A t \in Sessions \ {s} : StageHonest(t)'
      BY <3>1 DEF Decided, StageHonest
    <3>4. \A t \in Sessions : Busy(t)' => loaded'[t] \in past'[on'[t]]
      BY <2>1, <3>1 DEF Decided, Busy
    <3> QED
      BY <2>1, <3>2, <3>3, <3>4 DEF Decided
  <2>2. ASSUME NEW s \in Sessions, Busy(s),
               UNCHANGED <<db, past, on, loaded>>,
               \A t \in Sessions \ {s} : UNCHANGED <<pc[t], mine[t]>>,
               StageHonest(s)'
        PROVE  Decided'
    <3>1. \A t \in Sessions \ {s} : StageHonest(t)'
      BY <2>2 DEF Decided, StageHonest
    <3> QED
      BY <2>2, <3>1 DEF Decided, Busy
  <2>3. ASSUME NEW c \in Clients, FlushApproval(c) PROVE Decided'
    <3>1. c \in Sessions /\ StageHonest(c) /\ loaded[c] \in Row
      BY DEF Sessions, Decided, TypeOK
    <3>2. /\ mine'[c] = Lifecycle!Approved(loaded[c])
          /\ loaded' = loaded /\ on' = on /\ db' = db /\ past' = past
          /\ loaded[c].status = "pending"
          /\ pc[c] \in {"approving", "dispatching"}
          /\ pc'[c] \in {"committing", "mailing"}
      BY <2>3, <3>1 DEF FlushApproval, TypeOK, StageHonest
    <3>3. mine'[c] \in Lifecycle!Outcomes(loaded'[c])
      BY <3>2, OutcomesAre
    <3>4. StageHonest(c)'
      <4>1. /\ mine'[c].retries = loaded'[c].retries
            /\ mine'[c].sentAt = loaded'[c].sentAt
            /\ loaded'[c].status # "sent"
        <5>1. /\ Lifecycle!Approved(loaded[c]).retries = loaded[c].retries
              /\ Lifecycle!Approved(loaded[c]).sentAt = loaded[c].sentAt
          BY <3>1, RowFacts
        <5> QED
          BY <3>2, <5>1
      <4> QED
        BY <3>2, <3>3, <4>1 DEF StageHonest
    <3> QED
      BY <2>2, <2>3, <3>1, <3>2, <3>4 DEF FlushApproval, Busy, TypeOK
  <2>4. ASSUME NEW s \in Sessions, NEW r, MailEnds(s, r),
               r \in {Lifecycle!Delivered(mine[s]), Lifecycle!Bounced(mine[s])}
        PROVE  Decided'
    <3>1. /\ mine'[s] = r
          /\ loaded' = loaded /\ on' = on /\ db' = db /\ past' = past
          /\ pc[s] = "mailing" /\ pc'[s] = "flushing"
          /\ \A t \in Sessions \ {s} : UNCHANGED <<pc[t], mine[t]>>
      BY <2>4 DEF MailEnds, TypeOK
    <3>2. /\ Lifecycle!Delivered(mine[s]) = Lifecycle!Delivered(loaded[s])
          /\ Lifecycle!Bounced(mine[s]) = Lifecycle!Bounced(loaded[s])
      BY <3>1
      DEF Decided, StageHonest, Lifecycle!Delivered, Lifecycle!Bounced
    <3>3. StageHonest(s)'
      BY <2>4, <3>1, <3>2 DEF Decided, StageHonest
    <3> QED
      BY <2>2, <3>1, <3>3 DEF Busy
  <2>5. ASSUME NEW s \in Sessions,
               MailAccepted(s) \/ MailLogged(s) \/ MailRaised(s)
        PROVE  Decided'
    BY <2>4, <2>5 DEF MailAccepted, MailLogged, MailRaised
  <2>6. ASSUME NEW s \in Sessions, FlushSend(s) PROVE Decided'
    <3>1. /\ pc[s] = "flushing" /\ pc'[s] = "committing"
          /\ UNCHANGED <<db, past, on, loaded, mine>>
          /\ \A t \in Sessions \ {s} : pc'[t] = pc[t]
      BY <2>6 DEF FlushSend, TypeOK
    <3>2. mine[s] \in Lifecycle!Outcomes(loaded[s])
      BY <3>1, OutcomesAre DEF Decided, StageHonest
    <3>3. StageHonest(s)'
      BY <3>1, <3>2 DEF StageHonest
    <3> QED
      BY <2>2, <3>1, <3>3 DEF Busy
  <2>7. ASSUME NEW s \in Sessions, NEW st \in {"idle", "acking"},
               Close(s, st),
               \A n \in Notifications : db'[n] \in past'[n],
               \A n \in Notifications : past[n] \subseteq past'[n]
        PROVE  Decided'
    <3>1. /\ pc'[s] = st /\ on' = on
          /\ \A t \in Sessions \ {s} :
               UNCHANGED <<pc[t], loaded[t], mine[t]>>
          /\ \A t \in Sessions : on[t] \in Notifications
      BY <2>7 DEF Close, TypeOK
    <3>2. \A t \in Sessions : StageHonest(t)'
      BY <3>1 DEF Decided, StageHonest
    <3> QED
      BY <2>7, <3>1, <3>2 DEF Decided, Busy
  <2>8. ASSUME NEW s \in Sessions, Commit(s) PROVE Decided'
    <3>1. /\ \A n \in Notifications : db'[n] \in past'[n]
          /\ \A n \in Notifications : past[n] \subseteq past'[n]
      BY <2>8 DEF Commit, Decided, TypeOK
    <3> QED
      BY <2>7, <2>8, <3>1 DEF Commit
  <2>9. ASSUME NEW s \in Sessions, Abort(s) PROVE Decided'
    BY <2>7, <2>9 DEF Abort, Decided
  <2>10. ASSUME NEW w \in Workers, NEW m \in queue, WorkerTakes(w, m)
         PROVE  Decided'
    <3>1. /\ w \in Sessions /\ m.subject \in Notifications
          /\ db' = db /\ past' = past
      BY <2>10, ReceiveFacts DEF WorkerTakes, Receive, Sessions
    <3> QED
      BY <2>1, <2>10, <3>1 DEF WorkerTakes, WorthSending, Sendable
  <2>11. ASSUME NEW s \in Sessions, ~Busy(s),
                pc' = [pc EXCEPT ![s] = "acking"]
                  \/ pc' = [pc EXCEPT ![s] = "idle"],
                UNCHANGED <<db, past, on, loaded, mine>>
         PROVE  Decided'
    <3>1. /\ pc'[s] \in {"idle", "acking"}
          /\ \A t \in Sessions \ {s} : pc'[t] = pc[t]
      BY <2>11 DEF TypeOK
    <3>2. \A t \in Sessions : StageHonest(t)'
      BY <2>11, <3>1 DEF Decided, StageHonest
    <3> QED
      BY <2>11, <3>1, <3>2 DEF Decided, Busy
  <2>12. ASSUME NEW w \in Workers, NEW m \in queue, WorkerSkips(w, m)
         PROVE  Decided'
    BY <2>11, <2>12 DEF WorkerSkips, Receive, Sessions, Busy
  <2>13. ASSUME NEW w \in Workers, DeleteMessage(w) PROVE Decided'
    BY <2>11, <2>13 DEF DeleteMessage, Sessions, Busy
  <2>14. ASSUME NEW c \in Clients, NEW n \in Notifications,
                BeginApprove(c, n) \/ BeginDispatch(c, n) \/ BeginSend(c, n)
         PROVE  Decided'
    <3>1. c \in Sessions /\ db' = db /\ past' = past
      BY <2>14
      DEF Sessions, BeginApprove, BeginDispatch, BeginSend, Request
    <3> QED
      BY <2>1, <2>14, <3>1
      DEF BeginApprove, BeginDispatch, BeginSend, Request, Sendable
  <2>15. ASSUME UNCHANGED <<db, past, pc, on, loaded, mine>> PROVE Decided'
    BY <2>15 DEF Decided, Busy, StageHonest
  <2> QED
    BY <2>3, <2>5, <2>6, <2>8, <2>9, <2>10, <2>12, <2>13, <2>14, <2>15
    DEF Next, SessionStep, Poll, Redrive, vars

(* However sessions overlap and fail, each commit is an approval, a        *)
(* delivery or a failure decided on a row the notification has had, merged *)
(* column by column where that row is no longer the present one            *)
(* (notification_service.py, approve and send; database.py).               *)
THEOREM SessionsFollowLifecycle == Spec => FollowsLifecycle
<1>1. Init => Lifecycle!Init /\ Decided
  BY DEF Init, Lifecycle!Init, Decided, Busy, StageHonest
<1>2. TypeOK /\ TypeOK' /\ Decided /\ [Next]_vars => Decided'
  BY DecidedStep
<1>3. TypeOK /\ Decided /\ [Next]_vars => [Lifecycle!Next]_(Lifecycle!vars)
  <2> SUFFICES ASSUME TypeOK, Decided, [Next]_vars
               PROVE  [Lifecycle!Next]_(Lifecycle!vars)
    OBVIOUS
  <2>1. ASSUME NEW s \in Sessions, Commit(s) PROVE Lifecycle!Next
    <3> DEFINE n == on[s]
               r == Written(db[n], loaded[s], mine[s])
    <3>1. /\ n \in Notifications /\ db[n] \in Row /\ mine[s] \in Row
          /\ loaded[s] \in Row /\ loaded[s] \in past[n]
          /\ mine[s] \in Lifecycle!Outcomes(loaded[s])
      BY <2>1 DEF Commit, Decided, StageHonest, Busy, TypeOK
    <3>2. Lifecycle!Become(n, r)
      BY <2>1, <3>1 DEF Commit, Lifecycle!Become, TypeOK
    <3>3. r = Lifecycle!Merged(db[n], loaded[s], mine[s])
      BY DEF Written
    <3>4. CASE loaded[s] = db[n]
      <4>1. r = mine[s]
        BY <3>1, <3>4, WrittenUndisturbed
      <4>2. overtaken' = overtaken
        BY <2>1, <3>4 DEF Commit
      <4>3. Lifecycle!Decide(n)
        BY <3>1, <3>2, <3>4, <4>1, <4>2 DEF Lifecycle!Decide
      <4> QED
        BY <3>1, <4>3 DEF Lifecycle!Next
    <3>5. CASE loaded[s] # db[n]
      <4>1. overtaken' = overtaken \cup {n}
        BY <2>1, <3>5 DEF Commit
      <4> HIDE DEF r
      <4>2. Lifecycle!Overtake(n)
        BY <3>1, <3>2, <3>3, <3>5, <4>1 DEF Lifecycle!Overtake
      <4> QED
        BY <3>1, <4>2 DEF Lifecycle!Next
    <3> QED
      BY <3>4, <3>5
  <2>2. ASSUME UNCHANGED rowVars PROVE [Lifecycle!Next]_(Lifecycle!vars)
    BY <2>2 DEF rowVars, Lifecycle!vars
  <2> QED
    BY <2>1, <2>2
    DEF Next, SessionStep, Poll, BeginApprove, BeginDispatch, BeginSend,
        Request, FlushApproval, MailEnds, MailAccepted, MailLogged,
        MailRaised, FlushSend, Abort, DeleteMessage, WorkerTakes,
        WorkerSkips, Receive, Redrive, vars, rowVars
<1>4. QED
  BY <1>1, <1>2, <1>3, TypeCorrect, PTL
  DEF Spec, FollowsLifecycle, Lifecycle!Spec
-----------------------------------------------------------------------------
(* The sessions whose mail is not on record yet can be counted.            *)
LEMMA RecordersAreFinite ==
    /\ IsFiniteSet(Sessions)
    /\ \A n : /\ Recording(n) \subseteq Sessions
              /\ IsFiniteSet(Recording(n))
              /\ Cardinality(Recording(n)) \in Nat
<1>1. IsFiniteSet(Sessions)
  BY SessionKinds, FS_Union DEF Sessions
<1>2. ASSUME NEW n
      PROVE  /\ Recording(n) \subseteq Sessions
             /\ IsFiniteSet(Recording(n))
             /\ Cardinality(Recording(n)) \in Nat
  <2>1. Recording(n) \subseteq Sessions
    BY DEF Recording
  <2> QED
    BY <1>1, <2>1, FS_Subset, FS_CardinalityType
<1> QED
  BY <1>1, <1>2

(* Mails of n not on record.                                               *)
Open(n) == unrecorded[n] + Cardinality(Recording(n))

(* The account of n: what MailsAreExact says, and that what only sessions  *)
(* with the present row wrote is on record exactly when it is sent.        *)
AccountOf(n) ==
    /\ Mails(n) >= Open(n)
    /\ Mails(n) > Open(n) <=> db[n].sentAt
    /\ n \notin overtaken => Mails(n) <= Open(n) + 1
    /\ n \notin overtaken /\ db[n].sentAt => db[n].status = "sent"

Accounted == \A n \in Notifications : AccountOf(n)

(* An account whose figures stand still, or both grow by one, stays right. *)
LEMMA AccountStays ==
    ASSUME TypeOK, TypeOK', Accounted, NEW n \in Notifications,
           NEW d \in {0, 1},
           Mails(n)' = Mails(n) + d, Open(n)' = Open(n) + d,
           db'[n] = db[n], n \in overtaken <=> n \in overtaken'
    PROVE  AccountOf(n)'
<1>1. /\ Mails(n) \in Nat /\ unrecorded[n] \in Nat
      /\ Cardinality(Recording(n)) \in Nat
  BY RecordersAreFinite DEF TypeOK, Mails
<1>2. Open(n) \in Nat
  BY <1>1 DEF Open
<1>3. AccountOf(n)
  BY DEF Accounted
<1> QED
  BY <1>1, <1>2, <1>3 DEF AccountOf

(* A step of s leaves the recorders of other notifications alone.          *)
LEMMA RecordersKept ==
    ASSUME TypeOK, TypeOK', NEW s \in Sessions, on' = on,
           \A t \in Sessions \ {s} : UNCHANGED <<pc[t], mine[t]>>,
           NEW n \in Notifications
    PROVE  /\ n # on[s] => Recording(n)' = Recording(n)
           /\ s \in Recording(n) /\ s \in Recording(n)'
                => Recording(n)' = Recording(n)
           /\ s \notin Recording(n) /\ s \notin Recording(n)'
                => Recording(n)' = Recording(n)
           /\ s \in Recording(n) /\ s \notin Recording(n)'
                => Cardinality(Recording(n)') = Cardinality(Recording(n)) - 1
           /\ s \notin Recording(n) /\ s \in Recording(n)'
                => Cardinality(Recording(n)') = Cardinality(Recording(n)) + 1
<1>1. \A t \in Sessions \ {s} : t \in Recording(n)' <=> t \in Recording(n)
  BY DEF Recording
<1>2. /\ Recording(n) \subseteq Sessions /\ Recording(n)' \subseteq Sessions
      /\ n # on[s] => s \notin Recording(n) /\ s \notin Recording(n)'
  BY DEF Recording
<1>3. IsFiniteSet(Recording(n))
  BY RecordersAreFinite
<1>4. ASSUME s \in Recording(n), s \notin Recording(n)'
      PROVE  Cardinality(Recording(n)') = Cardinality(Recording(n)) - 1
  <2>1. Recording(n)' = Recording(n) \ {s}
    BY <1>1, <1>2, <1>4
  <2> QED
    BY <1>3, <1>4, <2>1, FS_RemoveElement
<1>5. ASSUME s \notin Recording(n), s \in Recording(n)'
      PROVE  Cardinality(Recording(n)') = Cardinality(Recording(n)) + 1
  <2>1. Recording(n)' = Recording(n) \cup {s}
    BY <1>1, <1>2, <1>5
  <2> QED
    BY <1>3, <1>5, <2>1, FS_AddElement
<1> QED
  BY <1>1, <1>2, <1>4, <1>5

(* Each step keeps the accounts.                                           *)
LEMMA AccountedStep ==
    TypeOK /\ TypeOK' /\ RegisterHonest /\ Decided /\ Accounted /\ [Next]_vars
      => Accounted'
  <2> SUFFICES ASSUME TypeOK, TypeOK', RegisterHonest, Decided, Accounted,
                      [Next]_vars
               PROVE  Accounted'
    OBVIOUS
  <2> USE DEF sessionVars, queueVars, mailVars, rowVars
  <2>0. \A n \in Notifications :
           /\ Mails(n) \in Nat /\ unrecorded[n] \in Nat
           /\ Cardinality(Recording(n)) \in Nat /\ Open(n) \in Nat
           /\ db[n] \in Row /\ AccountOf(n)
    BY RecordersAreFinite DEF TypeOK, Mails, Open, Accounted
  <2>1. ASSUME UNCHANGED <<rowVars, mailVars>>,
               \A n \in Notifications : Recording(n)' = Recording(n)
        PROVE  Accounted'
    <3>1. \A n \in Notifications :
            /\ Mails(n)' = Mails(n) + 0 /\ Open(n)' = Open(n) + 0
            /\ AccountOf(n)
      BY <2>0, <2>1 DEF Mails, Open
    <3> QED
      BY <2>1, <3>1, AccountStays DEF Accounted
  <2>2. ASSUME NEW s \in Sessions, NEW st \in Stages,
               pc' = [pc EXCEPT ![s] = st],
               pc[s] \notin {"flushing", "committing"},
               st \notin {"flushing", "committing"},
               UNCHANGED <<rowVars, mailVars>>,
               \A t \in Sessions \ {s} : UNCHANGED <<on[t], mine[t]>>
        PROVE  Accounted'
    <3>1. \A n \in Notifications : Recording(n)' = Recording(n)
      BY <2>2 DEF Recording, TypeOK
    <3> QED
      BY <2>1, <2>2, <3>1
  <2>3. ASSUME NEW s \in Sessions, NEW n \in Notifications, NEW st \in Stages,
               Load(s, n, st), st \notin {"flushing", "committing"},
               pc[s] = "idle", UNCHANGED <<rowVars, mailVars>>
        PROVE  Accounted'
    BY <2>2, <2>3 DEF Load, TypeOK
  <2>4. ASSUME NEW c \in Clients, FlushApproval(c) PROVE Accounted'
    <3>1. /\ c \in Sessions /\ mine[c] \in Row
          /\ pc[c] \in {"approving", "dispatching"}
      BY <2>4 DEF FlushApproval, Sessions, TypeOK
    <3>2. /\ mine'[c].status = "approved" /\ on' = on
          /\ \A t \in Sessions \ {c} : UNCHANGED <<pc[t], mine[t]>>
      BY <2>4, <3>1, RowFacts DEF FlushApproval, TypeOK
    <3>3. \A n \in Notifications :
            c \notin Recording(n) /\ c \notin Recording(n)'
      BY <3>1, <3>2 DEF Recording
    <3>4. \A n \in Notifications : Recording(n)' = Recording(n)
      BY <3>1, <3>2, <3>3, RecordersKept
    <3> QED
      BY <2>1, <2>4, <3>4 DEF FlushApproval
  <2>5. ASSUME NEW s \in Sessions, NEW r \in Row, MailEnds(s, r),
               r.status \in {"sent", "failed"},
               NEW d \in {0, 1},
               \A n \in Notifications :
                 /\ n # on[s] => /\ Mails(n)' = Mails(n)
                                 /\ unrecorded'[n] = unrecorded[n]
                 /\ n = on[s] => /\ Mails(n)' = Mails(n) + d
                                 /\ r.status = "sent"
                                      => d = 1 /\ unrecorded'[n] = unrecorded[n]
                                 /\ r.status = "failed"
                                      => unrecorded'[n] = unrecorded[n] + d
        PROVE  Accounted'
    <3>1. /\ mine'[s] = r /\ on' = on
          /\ pc[s] = "mailing" /\ pc'[s] = "flushing"
          /\ \A t \in Sessions \ {s} : UNCHANGED <<pc[t], mine[t]>>
          /\ UNCHANGED rowVars
      BY <2>5 DEF MailEnds, TypeOK
    <3> SUFFICES ASSUME NEW n \in Notifications PROVE AccountOf(n)'
      BY DEF Accounted
    <3>2. /\ s \notin Recording(n)
          /\ s \in Recording(n)' <=> n = on[s] /\ r.status = "sent"
      BY <3>1 DEF Recording
    <3>3. CASE n # on[s]
      <4>1. Recording(n)' = Recording(n)
        BY <3>1, <3>3, RecordersKept
      <4>2. Mails(n)' = Mails(n) + 0 /\ Open(n)' = Open(n) + 0
        BY <2>0, <2>5, <3>3, <4>1 DEF Open
      <4> QED
        BY <3>1, <4>2, AccountStays
    <3>4. CASE n = on[s] /\ r.status = "sent"
      <4>1. Cardinality(Recording(n)') = Cardinality(Recording(n)) + 1
        BY <3>1, <3>2, <3>4, RecordersKept
      <4>2. Mails(n)' = Mails(n) + 1 /\ Open(n)' = Open(n) + 1
        BY <2>0, <2>5, <3>4, <4>1 DEF Open
      <4> QED
        BY <3>1, <4>2, AccountStays
    <3>5. CASE n = on[s] /\ r.status = "failed"
      <4>1. Recording(n)' = Recording(n)
        BY <3>1, <3>2, <3>5, RecordersKept
      <4>2. Mails(n)' = Mails(n) + d /\ Open(n)' = Open(n) + d
        BY <2>0, <2>5, <3>5, <4>1 DEF Open
      <4> QED
        BY <3>1, <4>2, AccountStays
    <3> QED
      BY <2>5, <3>3, <3>4, <3>5
  <2>6. ASSUME NEW s \in Sessions, MailAccepted(s) \/ MailLogged(s)
        PROVE  Accounted'
    <3> DEFINE r == Lifecycle!Delivered(mine[s])
    <3>1. MailEnds(s, r) /\ unrecorded' = unrecorded
      BY <2>6 DEF MailAccepted, MailLogged
    <3>2. r \in Row /\ r.status = "sent"
      BY RowFacts DEF TypeOK
    <3>3. ASSUME NEW n \in Notifications
          PROVE  /\ n # on[s] => Mails(n)' = Mails(n)
                 /\ n = on[s] => Mails(n)' = Mails(n) + 1
      <4>1. emails[n] \in Nat /\ logged[n] \in Nat
        BY DEF TypeOK
      <4>2. CASE MailAccepted(s)
        BY <4>1, <4>2 DEF MailAccepted, Mails, TypeOK
      <4>3. CASE MailLogged(s)
        BY <4>1, <4>3 DEF MailLogged, Mails, TypeOK
      <4> QED
        BY <2>6, <4>2, <4>3
    <3> HIDE DEF r
    <3> QED
      BY <2>5, <3>1, <3>2, <3>3
  <2>7. ASSUME NEW s \in Sessions, MailRaised(s) PROVE Accounted'
    <3> DEFINE r == Lifecycle!Bounced(mine[s])
    <3>1. MailEnds(s, r)
      BY <2>7 DEF MailRaised
    <3>2. r \in Row /\ r.status = "failed"
      BY RowFacts DEF TypeOK
    <3>3. PICK d \in {0, 1} :
            \A n \in Notifications :
              /\ n # on[s] => /\ Mails(n)' = Mails(n)
                              /\ unrecorded'[n] = unrecorded[n]
              /\ n = on[s] => /\ Mails(n)' = Mails(n) + d
                              /\ unrecorded'[n] = unrecorded[n] + d
      <4>1. \A n \in Notifications :
               emails[n] \in Nat /\ logged[n] \in Nat /\ unrecorded[n] \in Nat
        BY DEF TypeOK
      <4>2. CASE UNCHANGED <<emails, unrecorded, logged>>
        <5> WITNESS 0 \in {0, 1}
        <5> QED
          BY <4>1, <4>2 DEF Mails
      <4>3. CASE /\ emails' = [emails EXCEPT ![on[s]] = @ + 1]
                 /\ unrecorded' = [unrecorded EXCEPT ![on[s]] = @ + 1]
                 /\ logged' = logged
        <5> WITNESS 1 \in {0, 1}
        <5> QED
          BY <4>1, <4>3 DEF Mails, TypeOK
      <4> QED
        BY <2>7, <4>2, <4>3 DEF MailRaised
    <3> HIDE DEF r
    <3> QED
      BY <2>5, <3>1, <3>2, <3>3
  <2>8. ASSUME NEW s \in Sessions, FlushSend(s) PROVE Accounted'
    <3>1. \A n \in Notifications : Recording(n)' = Recording(n)
      BY <2>8 DEF FlushSend, Recording, TypeOK
    <3> QED
      BY <2>1, <2>8, <3>1 DEF FlushSend
  <2>9. ASSUME NEW s \in Sessions, Commit(s) PROVE Accounted'
    <3> DEFINE c == on[s]
               r == Written(db[c], loaded[s], mine[s])
    <3>1. /\ c \in Notifications /\ mine[s] \in Row /\ loaded[s] \in Row
          /\ db[c] \in Row /\ pc[s] = "committing" /\ SessionHonest(s)
          /\ mine[s] \in Lifecycle!Outcomes(loaded[s])
      BY <2>9 DEF Commit, TypeOK, RegisterHonest, Decided, StageHonest
    <3>2. /\ on' = on /\ mailVars' = mailVars
          /\ pc'[s] \in {"idle", "acking"}
          /\ db' = [db EXCEPT ![c] = r]
          /\ overtaken \subseteq overtaken'
          /\ overtaken' \subseteq overtaken \cup {c}
          /\ c \notin overtaken' => loaded[s] = db[c]
          /\ \A t \in Sessions \ {s} : UNCHANGED <<pc[t], mine[t]>>
      BY <2>9 DEF Commit, Close, TypeOK
    <3>3. ASSUME NEW n \in Notifications, n # c PROVE AccountOf(n)'
      <4>1. Recording(n)' = Recording(n)
        BY <3>2, <3>3, RecordersKept
      <4>2. Mails(n)' = Mails(n) + 0 /\ Open(n)' = Open(n) + 0
        BY <2>0, <3>2, <4>1 DEF Mails, Open
      <4>3. db'[n] = db[n] /\ (n \in overtaken <=> n \in overtaken')
        BY <3>2, <3>3 DEF TypeOK
      <4> QED
        BY <4>2, <4>3, AccountStays
    <3>4. PICK n \in Notifications : n = c
      BY <3>1
    <3>5. /\ Mails(n)' = Mails(n) /\ unrecorded'[n] = unrecorded[n]
          /\ s \notin Recording(n)'
          /\ s \in Recording(n) <=> mine[s].status = "sent"
          /\ db'[n] = r
      BY <3>1, <3>2, <3>4 DEF Mails, Recording, TypeOK
    <3>6. /\ mine[s].status = "sent" => mine[s].sentAt
          /\ mine[s].status # "sent" => mine[s].sentAt = loaded[s].sentAt
          /\ loaded[s].status # "sent"
          /\ loaded[s].sentAt => db[n].sentAt
      <4>1. loaded[s].sentAt => db[n].sentAt
        BY <3>1, <3>4 DEF SessionHonest
      <4>2. \/ /\ loaded[s].status = "pending"
               /\ mine[s] = Lifecycle!Approved(loaded[s])
            \/ /\ loaded[s].status # "sent"
               /\ mine[s] \in {Lifecycle!Delivered(loaded[s]),
                               Lifecycle!Bounced(loaded[s])}
        BY <3>1, OutcomesAre
      <4>3. CASE mine[s] = Lifecycle!Approved(loaded[s])
        <5>1. loaded[s] \in Row
          BY <3>1
        <5>2. mine[s].status = "approved" /\ mine[s].sentAt = loaded[s].sentAt
          BY <4>3, <5>1 DEF Lifecycle!Approved
        <5> QED
          BY <4>1, <4>2, <5>2
      <4>4. CASE mine[s] = Lifecycle!Delivered(loaded[s])
        <5>1. loaded[s] \in Row
          BY <3>1
        <5>2. mine[s].status = "sent" /\ mine[s].sentAt = TRUE
          BY <4>4, <5>1 DEF Lifecycle!Delivered
        <5> QED
          BY <4>1, <4>2, <5>2
      <4>5. CASE mine[s] = Lifecycle!Bounced(loaded[s])
        <5>1. loaded[s] \in Row
          BY <3>1
        <5>2. mine[s].status = "failed" /\ mine[s].sentAt = loaded[s].sentAt
          BY <4>5, <5>1 DEF Lifecycle!Bounced
        <5> QED
          BY <4>1, <4>2, <5>2
      <4> QED
        BY <4>2, <4>3, <4>4, <4>5
    <3>7. /\ mine[s].status = "sent" => r.sentAt
          /\ mine[s].status # "sent" => r.sentAt = db[n].sentAt
          /\ loaded[s] = db[n] => r = mine[s]
      BY <3>1, <3>4, <3>6
      DEF Written, Lifecycle!Merged, Lifecycle!Flushed
    <3> HIDE DEF r
    <3>8. AccountOf(n)'
      <4>1. AccountOf(n) /\ Mails(n) \in Nat /\ Open(n) \in Nat
        BY <2>0
      <4>2. CASE mine[s].status = "sent"
        <5>1. Cardinality(Recording(n)') = Cardinality(Recording(n)) - 1
          BY <3>2, <3>5, <4>2, RecordersKept
        <5>2. Open(n)' = Open(n) - 1
          BY <2>0, <3>5, <5>1 DEF Open
        <5>3. n \notin overtaken' => ~db[n].sentAt /\ n \notin overtaken
          <6>1. ASSUME n \notin overtaken' PROVE n \notin overtaken
            BY <3>2, <6>1
          <6>2. ASSUME n \notin overtaken' PROVE db[n].status # "sent"
            BY <3>2, <3>4, <3>6, <6>2
          <6> QED
            BY <4>1, <6>1, <6>2 DEF AccountOf
        <5>4. n \notin overtaken' => r = mine[s]
          BY <3>2, <3>4, <3>7
        <5> QED
          BY <3>5, <3>7, <4>1, <4>2, <5>2, <5>3, <5>4 DEF AccountOf
      <4>3. CASE mine[s].status # "sent"
        <5>1. Recording(n)' = Recording(n)
          BY <3>2, <3>5, <4>3, RecordersKept
        <5>2. Open(n)' = Open(n)
          BY <3>5, <5>1 DEF Open
        <5>3. n \notin overtaken' => ~db[n].sentAt /\ n \notin overtaken
          <6>1. ASSUME n \notin overtaken' PROVE n \notin overtaken
            BY <3>2, <6>1
          <6>2. ASSUME n \notin overtaken' PROVE db[n].status # "sent"
            BY <3>2, <3>4, <3>6, <6>2
          <6> QED
            BY <4>1, <6>1, <6>2 DEF AccountOf
        <5> QED
          BY <3>5, <3>7, <4>1, <4>3, <5>2, <5>3 DEF AccountOf
      <4> QED
        BY <4>2, <4>3
    <3> QED
      BY <3>3, <3>4, <3>8 DEF Accounted
  <2>10. ASSUME NEW s \in Sessions, Abort(s) PROVE Accounted'
    <3>1. /\ on' = on /\ UNCHANGED <<emails, logged, rowVars>>
          /\ pc'[s] = "idle" /\ on[s] \in Notifications
          /\ \A t \in Sessions \ {s} : UNCHANGED <<pc[t], mine[t]>>
      BY <2>10 DEF Abort, Close, TypeOK
    <3> SUFFICES ASSUME NEW n \in Notifications PROVE AccountOf(n)'
      BY DEF Accounted
    <3>2. s \notin Recording(n)'
      BY <3>1 DEF Recording
    <3>3. Mails(n)' = Mails(n) + 0
      BY <2>0, <3>1 DEF Mails
    <3>4. CASE s \in Recording(n)
      <4>1. n = on[s]
        BY <3>4 DEF Recording
      <4>2. Cardinality(Recording(n)') = Cardinality(Recording(n)) - 1
        BY <3>1, <3>2, <3>4, RecordersKept
      <4>3. unrecorded'[n] = unrecorded[n] + 1
        BY <2>10, <3>4, <4>1 DEF Abort, TypeOK
      <4>4. Open(n)' = Open(n) + 0
        BY <2>0, <4>2, <4>3 DEF Open
      <4> QED
        BY <3>1, <3>3, <4>4, AccountStays
    <3>5. CASE s \notin Recording(n)
      <4>1. Recording(n)' = Recording(n)
        BY <3>1, <3>2, <3>5, RecordersKept
      <4>2. unrecorded'[n] = unrecorded[n]
        BY <2>10, <3>5 DEF Abort, TypeOK
      <4>3. Open(n)' = Open(n) + 0
        BY <2>0, <4>1, <4>2 DEF Open
      <4> QED
        BY <3>1, <3>3, <4>3, AccountStays
    <3> QED
      BY <3>4, <3>5
  <2>11. ASSUME NEW c \in Clients, NEW n \in Notifications,
                BeginApprove(c, n) \/ BeginDispatch(c, n) \/ BeginSend(c, n)
         PROVE  Accounted'
    BY <2>3, <2>11
    DEF BeginApprove, BeginDispatch, BeginSend, Request, Sessions, Stages
  <2>12. ASSUME NEW w \in Workers, NEW m \in queue, WorkerTakes(w, m)
         PROVE  Accounted'
    BY <2>3, <2>12, ReceiveFacts DEF WorkerTakes, Receive, Sessions, Stages
  <2>13. ASSUME NEW w \in Workers, NEW m \in queue, WorkerSkips(w, m)
         PROVE  Accounted'
    BY <2>2, <2>13 DEF WorkerSkips, Receive, Sessions, Stages
  <2>14. ASSUME NEW w \in Workers, DeleteMessage(w) PROVE Accounted'
    BY <2>2, <2>14 DEF DeleteMessage, Sessions, Stages
  <2>15. ASSUME UNCHANGED <<sessionVars, rowVars, mailVars>> PROVE Accounted'
    BY <2>1, <2>15 DEF Recording
  <2> QED
    BY <2>4, <2>6, <2>7, <2>8, <2>9, <2>10, <2>11, <2>12, <2>13, <2>14, <2>15
    DEF Next, SessionStep, Poll, Redrive, vars

(* Every mail is accounted for, with overlapping sessions, errors that     *)
(* hide a delivery, sessions that end before their commit and messages     *)
(* received again, for every number of clients, workers and notifications  *)
(* (notification_service.py, send; notification_worker.py).                *)
THEOREM MailsCorrect == Spec => []MailsAreExact
<1>1. Init => RegisterHonest /\ Decided /\ Accounted
  <2> SUFFICES ASSUME Init PROVE RegisterHonest /\ Decided /\ Accounted
    OBVIOUS
  <2>1. RegisterHonest
    BY DEF Init, Lifecycle!Init, Lifecycle!Fresh, RegisterHonest,
           SentWasMailed, RetriesAreFailures, SessionHonest, Mails
  <2>2. Decided
    BY DEF Init, Lifecycle!Init, Decided, Busy, StageHonest
  <2>3. \A n : Recording(n) = {}
    BY DEF Init, Recording
  <2>4. Cardinality({}) = 0
    BY FS_EmptySet
  <2>5. \A n \in Notifications : Open(n) = 0 /\ Mails(n) = 0
    BY <2>3, <2>4 DEF Open, Mails, Init
  <2>6. Accounted
    BY <2>5 DEF Init, Lifecycle!Init, Lifecycle!Fresh, Accounted, AccountOf
  <2> QED
    BY <2>1, <2>2, <2>6
<1>2. TypeOK /\ TypeOK' /\ RegisterHonest /\ [Next]_vars => RegisterHonest'
  BY HonestyInductive
<1>3. TypeOK /\ TypeOK' /\ Decided /\ [Next]_vars => Decided'
  BY DecidedStep
<1>4. TypeOK /\ TypeOK' /\ RegisterHonest /\ Decided /\ Accounted
        /\ [Next]_vars => Accounted'
  BY AccountedStep
<1>5. Accounted => MailsAreExact
  BY DEF Accounted, AccountOf, Open, MailsAreExact
<1>6. QED
  BY <1>1, <1>2, <1>3, <1>4, <1>5, TypeCorrect, PTL DEF Spec
-----------------------------------------------------------------------------
(* A delivery once on record stays on record, however sessions overlap and *)
(* fail: an UPDATE leaves out the sent_at its session did not change       *)
(* (notification_service.py, send).                                        *)
THEOREM DeliveriesAreKept == Spec => DeliveriesStayOnRecord
<1> DEFINE Kept == \A n \in Notifications : db[n].sentAt => db'[n].sentAt
<1>1. Init => RegisterHonest
  BY DEF Init, Lifecycle!Init, Lifecycle!Fresh, RegisterHonest, SentWasMailed,
         RetriesAreFailures, SessionHonest, Mails
<1>2. TypeOK /\ TypeOK' /\ RegisterHonest /\ [Next]_vars => RegisterHonest'
  BY HonestyInductive
<1>3. TypeOK /\ RegisterHonest /\ [Next]_vars => [Kept]_vars
  <2> SUFFICES ASSUME TypeOK, RegisterHonest, [Next]_vars PROVE Kept
    OBVIOUS
  <2>1. ASSUME NEW s \in Sessions, Commit(s) PROVE Kept
    <3>1. SessionHonest(s)
      BY DEF RegisterHonest
    <3>2. db[on[s]].sentAt => Written(db[on[s]], loaded[s], mine[s]).sentAt
      BY <3>1
      DEF SessionHonest, Written, Lifecycle!Merged, Lifecycle!Flushed, TypeOK
    <3> QED
      BY <2>1, <3>2 DEF Commit, TypeOK
  <2>2. CASE db' = db
    BY <2>2
  <2> HIDE DEF Kept
  <2> QED
    BY <2>1, <2>2
    DEF Next, SessionStep, Poll, BeginApprove, BeginDispatch, BeginSend,
        Request, FlushApproval, MailEnds, MailAccepted, MailLogged,
        MailRaised, FlushSend, Abort, DeleteMessage, WorkerTakes,
        WorkerSkips, Receive, Redrive, vars, rowVars
<1>4. QED
  BY <1>1, <1>2, <1>3, TypeCorrect, PTL DEF Spec, DeliveriesStayOnRecord

(* No handler goes on with a row it read as sent.                          *)
SentIsRefused == \A s \in Sessions : Busy(s) => loaded[s].status # "sent"

(* A sent notification is reopened only by a session that read it before   *)
(* the delivery was committed: every handler refuses what it reads as sent *)
(* (notification_service.py, approve and send; notification_worker.py).    *)
THEOREM OnlyOverlapReopens == Spec => OnlyStaleSessionsReopen
<1> DEFINE Excused(n) ==
       db[n].status = "sent" /\ db'[n].status # "sent"
         => \E s \in Sessions : /\ pc[s] = "committing"
                                /\ on[s] = n
                                /\ loaded[s].status # "sent"
<1>1. Init => SentIsRefused
  BY DEF Init, SentIsRefused, Busy
<1>2. TypeOK /\ SentIsRefused /\ [Next]_vars => SentIsRefused'
  <2> SUFFICES ASSUME TypeOK, SentIsRefused, [Next]_vars PROVE SentIsRefused'
    OBVIOUS
  <2> USE DEF sessionVars
  <2>1. ASSUME NEW s \in Sessions, NEW n, NEW st, Load(s, n, st),
               db[n].status # "sent"
        PROVE  SentIsRefused'
    BY <2>1 DEF Load, SentIsRefused, Busy, TypeOK
  <2>2. ASSUME NEW s \in Sessions, pc'[s] \in {"idle", "acking"},
               \A t \in Sessions \ {s} :
                  pc'[t] = pc[t] /\ loaded'[t] = loaded[t]
        PROVE  SentIsRefused'
    BY <2>2 DEF SentIsRefused, Busy
  <2>3. ASSUME NEW s \in Sessions, Busy(s), loaded' = loaded,
               \A t \in Sessions \ {s} : pc'[t] = pc[t]
        PROVE  SentIsRefused'
    BY <2>3 DEF SentIsRefused, Busy
  <2>4. ASSUME NEW c \in Clients, NEW n \in Notifications,
               BeginApprove(c, n) \/ BeginDispatch(c, n) \/ BeginSend(c, n)
        PROVE  SentIsRefused'
    BY <2>1, <2>4
    DEF BeginApprove, BeginDispatch, BeginSend, Request, Sendable, Sessions
  <2>5. ASSUME NEW c \in Clients, FlushApproval(c) PROVE SentIsRefused'
    BY <2>3, <2>5 DEF FlushApproval, Busy, Sessions, TypeOK
  <2>6. ASSUME NEW s \in Sessions,
               MailAccepted(s) \/ MailLogged(s) \/ MailRaised(s)
                 \/ FlushSend(s)
        PROVE  SentIsRefused'
    BY <2>3, <2>6 DEF MailAccepted, MailLogged, MailRaised, MailEnds, FlushSend,
                    Busy, TypeOK
  <2>7. ASSUME NEW s \in Sessions, Commit(s) \/ Abort(s)
        PROVE  SentIsRefused'
    BY <2>2, <2>7 DEF Commit, Abort, Close, TypeOK
  <2>8. ASSUME NEW w \in Workers, NEW m \in queue, WorkerTakes(w, m)
        PROVE  SentIsRefused'
    BY <2>1, <2>8 DEF WorkerTakes, WorthSending, Sendable, Sessions
  <2>9. ASSUME NEW w \in Workers, NEW m \in queue, WorkerSkips(w, m)
        PROVE  SentIsRefused'
    BY <2>2, <2>9 DEF WorkerSkips, Sessions, TypeOK
  <2>10. ASSUME NEW w \in Workers, DeleteMessage(w) PROVE SentIsRefused'
    BY <2>2, <2>10 DEF DeleteMessage, Sessions, TypeOK
  <2>11. ASSUME UNCHANGED <<pc, loaded>> PROVE SentIsRefused'
    BY <2>11 DEF SentIsRefused, Busy
  <2> QED
    BY <2>4, <2>5, <2>6, <2>7, <2>8, <2>9, <2>10, <2>11
    DEF Next, SessionStep, Poll, Redrive, vars
<1>3. TypeOK /\ SentIsRefused /\ [Next]_vars
        => [\A n \in Notifications : Excused(n)]_vars
  <2> SUFFICES ASSUME TypeOK, SentIsRefused, [Next]_vars,
                      NEW n \in Notifications
               PROVE  Excused(n)
    OBVIOUS
  <2>1. ASSUME NEW s \in Sessions, Commit(s) PROVE Excused(n)
    <3>1. pc[s] = "committing" /\ loaded[s].status # "sent"
      BY <2>1 DEF Commit, SentIsRefused, Busy
    <3>2. on[s] # n => db'[n] = db[n]
      BY <2>1 DEF Commit, TypeOK
    <3> QED
      BY <3>1, <3>2
  <2>2. CASE db' = db
    BY <2>2
  <2> HIDE DEF Excused
  <2> QED
    BY <2>1, <2>2
    DEF Next, SessionStep, Poll, BeginApprove, BeginDispatch, BeginSend,
        Request, FlushApproval, MailEnds, MailAccepted, MailLogged,
        MailRaised, FlushSend, Abort, DeleteMessage, WorkerTakes,
        WorkerSkips, Receive, Redrive, vars, rowVars
<1>4. QED
  BY <1>1, <1>2, <1>3, TypeCorrect, PTL DEF Spec, OnlyStaleSessionsReopen
=============================================================================
