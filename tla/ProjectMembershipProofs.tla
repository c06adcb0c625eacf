----------------------- MODULE ProjectMembershipProofs -----------------------
(***************************************************************************)
(* Proofs about module ProjectMembership: its type invariant, that the     *)
(* owner stays an admin, and that only requests which overtook each other  *)
(* take the last admin or duplicate a pending invitation.                  *)
(***************************************************************************)
EXTENDS ProjectMembership, TLAPS

-----------------------------------------------------------------------------
(* Types. *)

LEMMA NoJobType == NoJob \in Job
  BY OwnerIsUser DEF NoJob, Job, Kinds, Roles, Row

LEMMA RowAfterType ==
    ASSUME TypeOK, NEW j \in Job
    PROVE  RowAfter(j) \in Row
<1>1. member[j.user] \in Row /\ j.role \in Roles
  BY DEF TypeOK, Job
<1>2. CASE j.kind \in {"add", "accept"}
  BY <1>1, <1>2 DEF RowAfter, Row
<1>3. CASE j.kind = "change"
  BY <1>1, <1>3 DEF RowAfter, Row
<1>4. CASE j.kind = "remove"
  BY <1>1, <1>4 DEF RowAfter, Row
<1>5. CASE j.kind \in {"invite", "cancel"}
  BY <1>1, <1>5 DEF RowAfter, Row
<1>6. QED
  BY <1>2, <1>3, <1>4, <1>5 DEF Job, Kinds

(* Every reachable state is well typed. *)
THEOREM TypeCorrect == Spec => []TypeOK
<1>1. Init => TypeOK
  <2> SUFFICES ASSUME Init PROVE TypeOK
    OBVIOUS
  <2>1. member \in [Users -> Row]
    BY DEF Init, Row, Roles
  <2>2. invitation \in [Invitations -> Invitation]
    BY OwnerIsUser DEF Init, Invitation, Roles
  <2>3. job \in [Requests -> Job]
    BY NoJobType DEF Init
  <2> QED
    BY <2>1, <2>2, <2>3 DEF Init, TypeOK, Stages
<1>2. TypeOK /\ [Next]_vars => TypeOK'
  <2> SUFFICES ASSUME TypeOK, [Next]_vars PROVE TypeOK'
    OBVIOUS
  <2>1. ASSUME NEW s \in Requests, NEW stage \in Stages, NEW kind \in Kinds,
               NEW u \in Users, NEW r \in Roles, NEW i \in Nat,
               Start(s, stage, kind, u, r, i), nextId' \in Nat
        PROVE  TypeOK'
    <3>1. [kind |-> kind, user |-> u, role |-> r, inv |-> i,
           read |-> member[u]] \in Job
      BY DEF Job, TypeOK
    <3>2. job' \in [Requests -> Job]
      BY <2>1, <3>1 DEF Start, TypeOK
    <3> QED
      BY <2>1, <3>2 DEF Start, TypeOK, tables
  <2>2. ASSUME NEW s \in Requests, Ask(s) PROVE TypeOK'
    <3> USE DEF Stages, Kinds
    <3>1. ASSUME NEW u \in Users, NEW r \in Roles, AskAdd(s, u, r)
          PROVE  TypeOK'
      BY <2>1, <3>1 DEF AskAdd, TypeOK
    <3>2. ASSUME NEW u \in Users, NEW r \in Roles, AskChange(s, u, r)
          PROVE  TypeOK'
      BY <2>1, <3>2 DEF AskChange, TypeOK, Scrutiny
    <3>3. ASSUME NEW u \in Users, NEW r \in Roles, AskInvite(s, u, r)
          PROVE  TypeOK'
      <4>1. nextId \in Nat
        BY DEF TypeOK
      <4>2. Start(s, "checking", "invite", u, r, nextId) /\ nextId' \in Nat
        BY <3>3, <4>1 DEF AskInvite
      <4> QED
        BY <2>1, <4>1, <4>2
    <3>4. ASSUME NEW u \in Users, AskAssign(s, u)
          PROVE  TypeOK'
      <4>1. "admin" \in Roles
        BY DEF Roles
      <4>2. PICK k \in Kinds : k = IF IsMember(u) THEN "change" ELSE "add"
        OBVIOUS
      <4>3. Start(s, "flushing", k, u, "admin", 0) /\ nextId' \in Nat
        BY <3>4, <4>2 DEF AskAssign, TypeOK
      <4> QED
        BY <2>1, <4>1, <4>3
    <3>5. ASSUME NEW u \in Users, AskRemove(s, u)
          PROVE  TypeOK'
      BY <2>1, <3>5 DEF AskRemove, TypeOK, Scrutiny, Roles
    <3>6. ASSUME NEW i \in Invitations, AskCancel(s, i)
          PROVE  TypeOK'
      <4>1. PICK v \in Users, r \in Roles :
               v = invitation[i].user /\ r = invitation[i].role
        BY DEF TypeOK, Invitation
      <4>2. i \in Nat
        BY DEF Invitations
      <4>3. Start(s, "flushing", "cancel", v, r, i) /\ nextId' \in Nat
        BY <3>6, <4>1 DEF AskCancel, TypeOK
      <4> QED
        BY <2>1, <4>2, <4>3
    <3>7. ASSUME NEW i \in Invitations, AskAccept(s, i)
          PROVE  TypeOK'
      <4>1. PICK v \in Users, r \in Roles :
               v = invitation[i].user /\ r = invitation[i].role
        BY DEF TypeOK, Invitation
      <4>2. i \in Nat
        BY DEF Invitations
      <4>3. Start(s, "checking", "accept", v, r, i) /\ nextId' \in Nat
        BY <3>7, <4>1 DEF AskAccept, TypeOK
      <4> QED
        BY <2>1, <4>2, <4>3
    <3> QED
      BY <2>2, <3>1, <3>2, <3>3, <3>4, <3>5, <3>6, <3>7 DEF Ask
  <2>3. ASSUME NEW s \in Requests, Check(s) PROVE TypeOK'
    <3>1. Admins \subseteq Users
      BY DEF Admins
    <3> QED
      BY <2>3, <3>1 DEF Check, TypeOK, tables, Stages
  <2>4. ASSUME NEW s \in Requests, Flush(s) PROVE TypeOK'
    BY <2>4 DEF Flush, TypeOK, tables, Stages
  <2>5. ASSUME NEW s \in Requests, Commit(s) PROVE TypeOK'
    <3>1. job[s] \in Job
      BY DEF TypeOK
    <3>2. member' \in [Users -> Row]
      BY <2>5, <3>1, RowAfterType DEF Commit, TypeOK
    <3>3. InvitationAfter(job[s]) \in Invitation
      BY <3>1 DEF InvitationAfter, Invitation, Job
    <3>4. invitation' \in [Invitations -> Invitation]
      BY <2>5, <3>3 DEF Commit, TypeOK
    <3> QED
      BY <2>5, <3>2, <3>4, NoJobType
      DEF Commit, Finish, TypeOK, Stages
  <2>6. ASSUME NEW s \in Requests, Abort(s) PROVE TypeOK'
    BY <2>6, NoJobType DEF Abort, Finish, TypeOK, Stages, tables
  <2>7. ASSUME NEW u \in Users, DeleteAccount(u) PROVE TypeOK'
    BY <2>7 DEF DeleteAccount, TypeOK, Row
  <2>8. CASE UNCHANGED vars
    BY <2>8 DEF vars, TypeOK
  <2> QED
    BY <2>2, <2>3, <2>4, <2>5, <2>6, <2>7, <2>8 DEF Next
<1>3. QED
  BY <1>1, <1>2, PTL DEF Spec

-----------------------------------------------------------------------------
(* What every way of starting a request guarantees. *)

Started(s, stage, kind, u, r, i) ==
    /\ Start(s, stage, kind, u, r, i)
    /\ stage = "flushing" \/ stage = "checking"
    /\ (IsOwner(u) /\ member[u].role = "admin")
       => \/ kind \in {"invite", "cancel"}
          \/ kind = "accept" /\ stage = "checking"
    /\ kind \in {"change", "remove"} /\ member[u].role = "admin"
       => stage = "checking"
    /\ kind \in {"invite", "accept"} => stage = "checking"
    /\ kind = "invite" => i = nextId /\ nextId' = nextId + 1
    /\ kind # "invite" => nextId' = nextId
    /\ kind \in {"cancel", "accept"} =>
          /\ i \in Invitations /\ Pending(i)
          /\ u = invitation[i].user /\ r = invitation[i].role

LEMMA AskStarts ==
    ASSUME TypeOK, NEW s \in Requests, Ask(s)
    PROVE  \E stage \in Stages, kind \in Kinds, u \in Users, r \in Roles,
              i \in Nat : Started(s, stage, kind, u, r, i)
<1> USE DEF Stages, Kinds
<1>1. ASSUME NEW u \in Users, NEW r \in Roles, AskAdd(s, u, r)
      PROVE  Started(s, "flushing", "add", u, r, 0)
  BY <1>1 DEF AskAdd, Started, IsMember
<1>2. ASSUME NEW u \in Users, NEW r \in Roles, AskChange(s, u, r)
      PROVE  Started(s, Scrutiny(u), "change", u, r, 0)
  BY <1>2 DEF AskChange, Started, Scrutiny
<1>3. ASSUME NEW u \in Users, NEW r \in Roles, AskInvite(s, u, r)
      PROVE  Started(s, "checking", "invite", u, r, nextId)
  BY <1>3 DEF AskInvite, Started
<1>4. ASSUME NEW u \in Users, AskAssign(s, u)
      PROVE  Started(s, "flushing", IF IsMember(u) THEN "change" ELSE "add",
                     u, "admin", 0)
  BY <1>4 DEF AskAssign, Started
<1>5. ASSUME NEW u \in Users, AskRemove(s, u)
      PROVE  Started(s, Scrutiny(u), "remove", u, "viewer", 0)
  BY <1>5 DEF AskRemove, Started, Scrutiny
<1>6. ASSUME NEW i \in Invitations, AskCancel(s, i)
      PROVE  Started(s, "flushing", "cancel", invitation[i].user,
                     invitation[i].role, i)
  BY <1>6 DEF AskCancel, Started
<1>7. ASSUME NEW i \in Invitations, AskAccept(s, i)
      PROVE  Started(s, "checking", "accept", invitation[i].user,
                     invitation[i].role, i)
  BY <1>7 DEF AskAccept, Started
<1>8. "admin" \in Roles /\ "viewer" \in Roles /\ nextId \in Nat
  BY DEF Roles, TypeOK
<1>9. \A i \in Invitations :
         /\ i \in Nat
         /\ invitation[i].user \in Users
         /\ invitation[i].role \in Roles
  BY DEF TypeOK, Invitation, Invitations
<1>10. \A u \in Users : Scrutiny(u) \in Stages
  BY DEF Scrutiny
<1>11. CASE \E u \in Users, r \in Roles : AskAdd(s, u, r)
  BY <1>11, <1>1
<1>12. CASE \E u \in Users, r \in Roles : AskChange(s, u, r)
  BY <1>12, <1>2, <1>10
<1>13. CASE \E u \in Users, r \in Roles : AskInvite(s, u, r)
  BY <1>13, <1>3, <1>8
<1>14. CASE \E u \in Users : AskAssign(s, u)
  <2>1. PICK u \in Users : AskAssign(s, u)
    BY <1>14
  <2>2. PICK k \in Kinds : k = IF IsMember(u) THEN "change" ELSE "add"
    OBVIOUS
  <2>3. Started(s, "flushing", k, u, "admin", 0)
    BY <2>1, <2>2, <1>4
  <2> QED
    BY <2>3, <1>8
<1>15. CASE \E u \in Users : AskRemove(s, u)
  BY <1>15, <1>5, <1>8, <1>10
<1>16. CASE \E i \in Invitations : AskCancel(s, i)
  BY <1>16, <1>6, <1>9
<1>17. CASE \E i \in Invitations : AskAccept(s, i)
  BY <1>17, <1>7, <1>9
<1>18. QED
  BY <1>11, <1>12, <1>13, <1>14, <1>15, <1>16, <1>17 DEF Ask

-----------------------------------------------------------------------------
(* The owner. *)

(* While the owner's account exists no request about to write may touch    *)
(* the owner's row.                                                        *)
OwnerIsSafe ==
    Owner \in accounts =>
        /\ member[Owner].role = "admin"
        /\ \A s \in Requests :
              (pc[s] # "idle" /\ WritesMember(job[s]) /\ job[s].user = Owner)
              => pc[s] = "checking" /\ job[s].kind = "accept"

LEMMA OwnerIsSafeInductive ==
    ASSUME TypeOK, OwnerIsSafe, [Next]_vars
    PROVE  OwnerIsSafe'
<1>1. ASSUME NEW s \in Requests, Ask(s) PROVE OwnerIsSafe'
  <2>1. PICK stage \in Stages, kind \in Kinds, u \in Users, r \in Roles,
             i \in Nat : Started(s, stage, kind, u, r, i)
    BY <1>1, AskStarts
  <2>2. /\ accounts' = accounts /\ member' = member
        /\ pc'[s] = stage /\ job'[s].kind = kind /\ job'[s].user = u
        /\ \A t \in Requests \ {s} : pc'[t] = pc[t] /\ job'[t] = job[t]
    BY <2>1 DEF Started, Start, tables, TypeOK
  <2>3. (Owner \in accounts /\ u = Owner)
        => \/ kind \in {"invite", "cancel"}
           \/ kind = "accept" /\ stage = "checking"
    BY <2>1 DEF Started, OwnerIsSafe, IsOwner
  <2> QED
    BY <2>2, <2>3 DEF OwnerIsSafe, WritesMember
<1>2. ASSUME NEW s \in Requests, Check(s) PROVE OwnerIsSafe'
  <2>1. /\ accounts' = accounts /\ member' = member /\ job' = job
        /\ \A t \in Requests \ {s} : pc'[t] = pc[t]
    BY <1>2 DEF Check, tables, TypeOK
  <2>2. Owner \in accounts /\ job[s].kind = "accept" => job[s].user # Owner
    BY <1>2 DEF Check, Checks, IsMember, OwnerIsSafe
  <2> QED
    BY <1>2, <2>1, <2>2 DEF Check, OwnerIsSafe, WritesMember
<1>3. ASSUME NEW s \in Requests, Flush(s) PROVE OwnerIsSafe'
  BY <1>3 DEF Flush, tables, OwnerIsSafe, WritesMember, TypeOK
<1>4. ASSUME NEW s \in Requests, Commit(s) PROVE OwnerIsSafe'
  <2>1. /\ accounts' = accounts /\ pc'[s] = "idle"
        /\ \A t \in Requests \ {s} : pc'[t] = pc[t] /\ job'[t] = job[t]
    BY <1>4 DEF Commit, Finish, TypeOK
  <2>2. ASSUME Owner \in accounts PROVE member'[Owner].role = "admin"
    <3>1. member[Owner].role = "admin"
      BY <2>2 DEF OwnerIsSafe
    <3>2. CASE job[s].user = Owner
      <4>1. job[s].kind \in {"invite", "cancel"}
        BY <1>4, <2>2, <3>2
        DEF Commit, OwnerIsSafe, WritesMember, TypeOK, Job, Kinds
      <4>2. RowAfter(job[s]) = member[Owner]
        BY <3>2, <4>1 DEF RowAfter
      <4> QED
        BY <1>4, <3>1, <3>2, <4>2, OwnerIsUser DEF Commit, TypeOK
    <3>3. CASE job[s].user # Owner
      BY <1>4, <3>1, <3>3 DEF Commit, TypeOK
    <3> QED
      BY <3>2, <3>3
  <2> QED
    BY <2>1, <2>2 DEF OwnerIsSafe, WritesMember
<1>5. ASSUME NEW s \in Requests, Abort(s) PROVE OwnerIsSafe'
  BY <1>5 DEF Abort, Finish, tables, OwnerIsSafe, WritesMember, TypeOK
<1>6. ASSUME NEW u \in Users, DeleteAccount(u) PROVE OwnerIsSafe'
  BY <1>6 DEF DeleteAccount, OwnerIsSafe, WritesMember, TypeOK
<1>7. CASE UNCHANGED vars
  BY <1>7 DEF vars, OwnerIsSafe, WritesMember
<1>8. QED
  BY <1>1, <1>2, <1>3, <1>4, <1>5, <1>6, <1>7 DEF Next

(* The owner stays an admin while the account exists, for every number of  *)
(* users and requests and however they overlap (project_service.py,        *)
(* update_member_role and remove_member).                                  *)
THEOREM OwnerCorrect == Spec => []OwnerKeepsAdmin
<1>1. Init => OwnerIsSafe
  BY DEF Init, OwnerIsSafe
<1>2. OwnerIsSafe => OwnerKeepsAdmin
  BY DEF OwnerIsSafe, OwnerKeepsAdmin
<1>3. QED
  BY <1>1, <1>2, TypeCorrect, OwnerIsSafeInductive, PTL DEF Spec

-----------------------------------------------------------------------------
(* The last admin. *)

(* Flushed requests hold their rows, and one that takes the admin role     *)
(* from a row it read has counted two admins.                              *)
RowsAreHeld ==
    /\ \A s, t \in Requests :
          (pc[s] = "committing" /\ pc[t] = "committing" /\ s # t)
          => ~Collide(job[s], job[t])
    /\ \A s \in Requests :
          (pc[s] = "committing" /\ job[s].kind \in {"add", "accept"})
          => member[job[s].user].role = "none"
    /\ \A s \in Requests :
          (/\ pc[s] \in {"flushing", "committing"}
           /\ job[s].kind \in {"change", "remove"}
           /\ job[s].read.role = "admin")
          => \E a, b \in seen[s] : a # b

LEMMA RowsAreHeldInductive ==
    ASSUME TypeOK, RowsAreHeld, [Next]_vars
    PROVE  RowsAreHeld'
<1> USE DEF Collide, WritesMember, WritesInvitation
<1>1. ASSUME NEW s \in Requests, Ask(s) PROVE RowsAreHeld'
  <2>1. PICK stage \in Stages, kind \in Kinds, u \in Users, r \in Roles,
             i \in Nat : Started(s, stage, kind, u, r, i)
    BY <1>1, AskStarts
  <2>2. /\ member' = member /\ seen' = seen
        /\ pc'[s] = stage /\ job'[s].kind = kind
        /\ job'[s].read = member[u]
        /\ \A t \in Requests \ {s} : pc'[t] = pc[t] /\ job'[t] = job[t]
    BY <2>1 DEF Started, Start, tables, TypeOK
  <2>3. /\ stage # "committing"
        /\ kind \in {"change", "remove"} /\ member[u].role = "admin"
           => stage = "checking"
    BY <2>1 DEF Started
  <2> QED
    BY <2>2, <2>3 DEF RowsAreHeld
<1>2. ASSUME NEW s \in Requests, Check(s) PROVE RowsAreHeld'
  <2>1. /\ member' = member /\ job' = job /\ pc'[s] = "flushing"
        /\ seen'[s] = Admins
        /\ \A t \in Requests \ {s} : pc'[t] = pc[t] /\ seen'[t] = seen[t]
    BY <1>2 DEF Check, tables, TypeOK
  <2>2. job[s].kind \in {"change", "remove"} => \E a, b \in Admins : a # b
    BY <1>2 DEF Check, Checks
  <2> QED
    BY <2>1, <2>2 DEF RowsAreHeld
<1>3. ASSUME NEW s \in Requests, Flush(s) PROVE RowsAreHeld'
  <2>1. /\ member' = member /\ job' = job /\ seen' = seen
        /\ pc[s] = "flushing" /\ pc'[s] = "committing"
        /\ \A t \in Requests \ {s} : pc'[t] = pc[t]
    BY <1>3 DEF Flush, tables, TypeOK
  <2>2. /\ \A t \in Requests : pc[t] = "committing"
                                => ~Collide(job[s], job[t])
        /\ job[s].kind \in {"add", "accept"}
           => member[job[s].user].role = "none"
    BY <1>3 DEF Flush, Applies, IsMember
  <2> QED
    BY <2>1, <2>2 DEF RowsAreHeld
<1>4. ASSUME NEW s \in Requests, Commit(s) PROVE RowsAreHeld'
  <2>1. /\ pc[s] = "committing" /\ pc'[s] = "idle"
        /\ \A t \in Requests \ {s} : /\ pc'[t] = pc[t] /\ job'[t] = job[t]
                                     /\ seen'[t] = seen[t]
    BY <1>4 DEF Commit, Finish, TypeOK
  <2>2. \A v \in Users :
           (v # job[s].user \/ job[s].kind \in {"invite", "cancel"})
           => member'[v] = member[v]
    BY <1>4 DEF Commit, RowAfter, TypeOK
  <2>3. \A t \in Requests : job[t].user \in Users /\ job[t].kind \in Kinds
    BY DEF TypeOK, Job
  <2>4. ASSUME NEW t \in Requests, t # s, pc[t] = "committing",
               job[t].kind \in {"add", "accept"}
        PROVE  member'[job[t].user].role = "none"
    <3>1. ~Collide(job[s], job[t]) /\ member[job[t].user].role = "none"
      BY <2>1, <2>4 DEF RowsAreHeld
    <3> QED
      BY <2>2, <2>3, <2>4, <3>1 DEF Kinds
  <2> QED
    BY <2>1, <2>4 DEF RowsAreHeld
<1>5. ASSUME NEW s \in Requests, Abort(s) PROVE RowsAreHeld'
  <2>1. /\ member' = member /\ pc'[s] = "idle"
        /\ \A t \in Requests \ {s} : /\ pc'[t] = pc[t] /\ job'[t] = job[t]
                                     /\ seen'[t] = seen[t]
    BY <1>5 DEF Abort, Finish, tables, TypeOK
  <2> QED
    BY <2>1 DEF RowsAreHeld
<1>6. ASSUME NEW u \in Users, DeleteAccount(u) PROVE RowsAreHeld'
  BY <1>6 DEF DeleteAccount, RowsAreHeld, TypeOK
<1>7. CASE UNCHANGED vars
  BY <1>7 DEF vars, RowsAreHeld
<1>8. QED
  BY <1>1, <1>2, <1>3, <1>4, <1>5, <1>6, <1>7 DEF Next

(* Only an account deletion or a request that another one overtook takes   *)
(* the last admin, for every number of users and requests                  *)
(* (project_service.py, count_project_admins).                             *)
THEOREM LastAdminIsLostToRaces == Spec => OnlyRacesTakeTheLastAdmin
<1>1. Init => RowsAreHeld
  BY DEF Init, RowsAreHeld
<1>2. ASSUME TypeOK, RowsAreHeld, [Next]_vars,
             Admins # {}, Admins' = {}, accounts' = accounts
      PROVE  \E s \in Requests :
                /\ pc[s] = "committing"
                /\ \/ job[s].read # member[job[s].user]
                   \/ seen[s] \notin {{}, Admins}
  <2>1. /\ member' # member
        /\ \A u \in Users : member[u].role = "admin" \/ IsOwner(u)
                            => u \in Admins
        /\ \A u \in Users : member'[u].role # "admin" /\ ~IsOwner(u)
    BY <1>2 DEF Admins, IsOwner
  <2>2. PICK s \in Requests : Commit(s)
    <3>1. ASSUME NEW s \in Requests, Ask(s) PROVE member' = member
      <4>1. PICK stage \in Stages, kind \in Kinds, u \in Users, r \in Roles,
                 i \in Nat : Started(s, stage, kind, u, r, i)
        BY <1>2, <3>1, AskStarts
      <4> QED
        BY <4>1 DEF Started, Start, tables
    <3>2. ASSUME NEW u \in Users PROVE ~DeleteAccount(u)
      BY <1>2 DEF DeleteAccount
    <3> QED
      BY <1>2, <2>1, <3>1, <3>2
      DEF Next, vars, Check, Flush, Abort, tables
  <2> DEFINE j == job[s]
  <2>3. /\ pc[s] = "committing"
        /\ j \in Job
        /\ member' = [member EXCEPT ![j.user] = RowAfter(j)]
    BY <1>2, <2>2 DEF Commit, TypeOK
  <2>4. \A u \in Users : u # j.user => member'[u] = member[u]
    BY <1>2, <2>3 DEF TypeOK
  <2>5. Admins = {j.user} /\ member[j.user].role = "admin"
    BY <1>2, <2>1, <2>4 DEF Admins
  <2>6. member'[j.user] = RowAfter(j)
    BY <1>2, <2>3 DEF TypeOK, Job
  <2>7. j.kind \notin {"invite", "cancel"}
    BY <2>1, <2>3, <2>5, <2>6 DEF RowAfter, Job
  <2>8. j.kind \notin {"add", "accept"}
    BY <1>2, <2>3, <2>5 DEF RowsAreHeld
  <2>9. CASE j.read = member[j.user]
    <3>1. PICK a, b \in seen[s] : a # b
      BY <1>2, <2>3, <2>5, <2>7, <2>8, <2>9 DEF RowsAreHeld, Job, Kinds
    <3> QED
      BY <2>3, <2>5, <3>1
  <2> QED
    BY <2>3, <2>9
<1>3. TypeOK /\ RowsAreHeld /\ [Next]_vars
      => ((Admins # {} /\ Admins' = {})
          => \/ accounts' # accounts
             \/ \E s \in Requests :
                   /\ pc[s] = "committing"
                   /\ \/ job[s].read # member[job[s].user]
                      \/ seen[s] \notin {{}, Admins})
  BY <1>2
<1>4. QED
  BY <1>1, <1>3, TypeCorrect, RowsAreHeldInductive, PTL
  DEF Spec, OnlyRacesTakeTheLastAdmin

-----------------------------------------------------------------------------
(* The pending invitations of an address. *)

(* An INSERT that has flushed still finds no other pending invitation.     *)
AddressesAreHeld ==
    /\ OnePendingInvitation
    /\ \A s \in Requests :
          (pc[s] = "committing" /\ job[s].kind = "invite")
          => \A i \in Invitations :
                Pending(i) => invitation[i].user # job[s].user

LEMMA AddressesAreHeldInductive ==
    ASSUME TypeOK, RowsAreHeld, AddressesAreHeld, [Next]_vars
    PROVE  AddressesAreHeld'
<1> USE DEF AddressesAreHeld, OnePendingInvitation, Pending
<1>1. ASSUME NEW s \in Requests, Ask(s) PROVE AddressesAreHeld'
  <2>1. PICK stage \in Stages, kind \in Kinds, u \in Users, r \in Roles,
             i \in Nat : Started(s, stage, kind, u, r, i)
    BY <1>1, AskStarts
  <2>2. /\ invitation' = invitation
        /\ pc'[s] # "committing"
        /\ \A t \in Requests \ {s} : pc'[t] = pc[t] /\ job'[t] = job[t]
    BY <2>1 DEF Started, Start, tables, TypeOK
  <2> QED
    BY <2>2
<1>2. ASSUME NEW s \in Requests, Check(s) PROVE AddressesAreHeld'
  <2>1. /\ invitation' = invitation /\ job' = job /\ pc'[s] = "flushing"
        /\ \A t \in Requests \ {s} : pc'[t] = pc[t]
    BY <1>2 DEF Check, tables, TypeOK
  <2> QED
    BY <2>1
<1>3. ASSUME NEW s \in Requests, Flush(s) PROVE AddressesAreHeld'
  <2>1. /\ invitation' = invitation /\ job' = job
        /\ \A t \in Requests \ {s} : pc'[t] = pc[t]
    BY <1>3 DEF Flush, tables, TypeOK
  <2>2. job[s].kind = "invite"
        => \A i \in Invitations : Pending(i) => invitation[i].user # job[s].user
    BY <1>3 DEF Flush, Applies
  <2> QED
    BY <2>1, <2>2
<1>4. ASSUME NEW s \in Requests, Commit(s) PROVE AddressesAreHeld'
  <2> DEFINE j == job[s]
  <2>1. /\ pc[s] = "committing" /\ pc'[s] = "idle"
        /\ \A t \in Requests \ {s} : pc'[t] = pc[t] /\ job'[t] = job[t]
    BY <1>4 DEF Commit, Finish, TypeOK
  <2>2. \A i \in Invitations :
           \/ invitation'[i] = invitation[i]
           \/ invitation'[i].status # "pending"
           \/ /\ j.kind = "invite"
              /\ i = j.inv /\ invitation'[i].user = j.user
    <3>1. invitation' = [i \in Invitations |->
              IF WritesInvitation(j) /\ i = j.inv THEN InvitationAfter(j)
              ELSE invitation[i]]
      BY <1>4 DEF Commit
    <3>2. InvitationAfter(j).user = j.user
      BY DEF InvitationAfter
    <3>3. ASSUME j.kind # "invite" PROVE InvitationAfter(j).status # "pending"
      <4>1. CASE j.kind = "cancel"
        BY <4>1 DEF InvitationAfter
      <4>2. CASE j.kind # "cancel"
        BY <3>3, <4>2 DEF InvitationAfter
      <4> QED
        BY <4>1, <4>2
    <3>4. ASSUME NEW i \in Invitations
          PROVE  \/ invitation'[i] = invitation[i]
                 \/ invitation'[i] = InvitationAfter(j) /\ i = j.inv
      BY <3>1
    <3> HIDE DEF j
    <3> QED
      BY <3>2, <3>3, <3>4
  <2>3. \A t \in Requests \ {s} :
           pc[t] = "committing" /\ job[t].kind = "invite" /\ j.kind = "invite"
           => job[t].user # j.user
    BY <2>1 DEF RowsAreHeld, Collide, WritesInvitation
  <2>4. OnePendingInvitation'
    BY <2>1, <2>2
  <2>5. ASSUME NEW t \in Requests, pc'[t] = "committing",
               job'[t].kind = "invite", NEW i \in Invitations, Pending(i)'
        PROVE  invitation'[i].user # job'[t].user
    BY <2>1, <2>2, <2>3, <2>5
  <2> QED
    BY <2>4, <2>5
<1>5. ASSUME NEW s \in Requests, Abort(s) PROVE AddressesAreHeld'
  <2>1. /\ invitation' = invitation /\ pc'[s] = "idle"
        /\ \A t \in Requests \ {s} : pc'[t] = pc[t] /\ job'[t] = job[t]
    BY <1>5 DEF Abort, Finish, tables, TypeOK
  <2> QED
    BY <2>1
<1>6. ASSUME NEW u \in Users, DeleteAccount(u) PROVE AddressesAreHeld'
  BY <1>6 DEF DeleteAccount
<1>7. CASE UNCHANGED vars
  BY <1>7 DEF vars
<1>8. QED
  BY <1>1, <1>2, <1>3, <1>4, <1>5, <1>6, <1>7 DEF Next

(* However requests overlap, the index of migration 014 and the wait on    *)
(* its key leave an address one pending invitation at most.                *)
THEOREM InvitationsAreUnique == Spec => []OnePendingInvitation
<1>1. Init => RowsAreHeld /\ AddressesAreHeld
  BY DEF Init, RowsAreHeld, AddressesAreHeld, OnePendingInvitation, Pending
<1>2. AddressesAreHeld => OnePendingInvitation
  BY DEF AddressesAreHeld
<1>3. QED
  BY <1>1, <1>2, TypeCorrect, RowsAreHeldInductive, AddressesAreHeldInductive,
     PTL DEF Spec
-----------------------------------------------------------------------------
(* Accepted invitations. *)

(* What job j, under way, is about: the rows of its user only gain ids;    *)
(* the invitation it inserts is not there yet, the one it answers is that  *)
(* of its user and role; and if that one has been accepted since a cancel  *)
(* read it as pending, its user has had another row since.                 *)
Tracked(j) ==
    /\ j.read.id <= member[j.user].id
    /\ j.kind = "invite" =>
          /\ j.inv < nextId
          /\ j.inv \in Invitations => invitation[j.inv].status = "absent"
    /\ j.kind \in {"cancel", "accept"} =>
          /\ j.inv \in Invitations
          /\ invitation[j.inv].status # "absent"
          /\ invitation[j.inv].user = j.user
          /\ invitation[j.inv].role = j.role
    /\ j.kind = "cancel" /\ invitation[j.inv].status = "accepted"
       => j.read.id < member[j.user].id

InvitationsAreTracked ==
    /\ \A i \in Invitations : i >= nextId => invitation[i].status = "absent"
    /\ \A s \in Requests : pc[s] # "idle" => Tracked(job[s])
    /\ \A s, t \in Requests :
          /\ pc[s] # "idle" /\ job[s].kind = "invite"
          /\ pc[t] # "idle" /\ job[t].kind = "invite"
          /\ job[s].inv = job[t].inv
          => s = t

(* Rows gain ids, an acceptance one more.                                  *)
LEMMA RowAfterIds ==
    ASSUME TypeOK, NEW j \in Job
    PROVE  /\ member[j.user].id <= RowAfter(j).id
           /\ j.kind = "accept" => member[j.user].id < RowAfter(j).id
<1>1. member[j.user].id \in Nat
  BY DEF TypeOK, Job, Row
<1>2. CASE j.kind \in {"add", "accept"}
  BY <1>1, <1>2 DEF RowAfter
<1>3. CASE j.kind = "change"
  BY <1>1, <1>3 DEF RowAfter
<1>4. CASE j.kind = "remove"
  BY <1>1, <1>4 DEF RowAfter
<1>5. CASE j.kind \in {"invite", "cancel"}
  BY <1>1, <1>5 DEF RowAfter
<1>6. QED
  BY <1>2, <1>3, <1>4, <1>5 DEF Job, Kinds

LEMMA InvitationsAreTrackedInductive ==
    ASSUME TypeOK, TypeOK', InvitationsAreTracked, [Next]_vars
    PROVE  InvitationsAreTracked'
<1> USE DEF InvitationsAreTracked, Pending
<1>0. /\ nextId \in Nat
      /\ \A u \in Users : member[u].id \in Nat
      /\ \A s \in Requests : /\ job[s] \in Job /\ job[s].user \in Users
                             /\ job[s].read.id \in Nat
                             /\ job[s].inv \in Nat
  BY DEF TypeOK, Job, Row
<1>1. ASSUME NEW s \in Requests, Ask(s) PROVE InvitationsAreTracked'
  <2>1. PICK stage \in Stages, kind \in Kinds, u \in Users, r \in Roles,
             i \in Nat : Started(s, stage, kind, u, r, i)
    BY <1>1, AskStarts
  <2>2. /\ invitation' = invitation /\ member' = member
        /\ job'[s] = [kind |-> kind, user |-> u, role |-> r, inv |-> i,
                      read |-> member[u]]
        /\ \A t \in Requests \ {s} : pc'[t] = pc[t] /\ job'[t] = job[t]
    BY <2>1 DEF Started, Start, tables, TypeOK
  <2>3. nextId' \in {nextId, nextId + 1}
    BY <2>1 DEF Started
  <2>4. ASSUME NEW t \in Requests \ {s}, pc[t] # "idle"
        PROVE  /\ Tracked(job[t])'
               /\ kind = "invite" /\ job[t].kind = "invite"
                  => job[t].inv # i
    <3>1. Tracked(job[t])
      BY <2>4
    <3>2. job'[t] = job[t]
      BY <2>2
    <3> QED
      BY <1>0, <2>1, <2>2, <2>3, <3>1, <3>2 DEF Tracked, Started
  <2>5. Tracked(job[s])'
    <3>1. kind = "invite" /\ i \in Invitations
          => invitation[i].status = "absent"
      BY <1>0, <2>1 DEF Started
    <3> QED
      BY <1>0, <2>1, <2>2, <3>1 DEF Tracked, Started
  <2>6. \A k \in Invitations :
           k >= nextId' => invitation'[k].status = "absent"
    BY <1>0, <2>2, <2>3 DEF Invitations
  <2>7. \A t \in Requests : pc'[t] # "idle" => Tracked(job[t])'
    BY <2>2, <2>4, <2>5
  <2>8. \A t \in Requests \ {s} :
           /\ pc'[t] # "idle" /\ job'[t].kind = "invite"
           /\ job'[s].kind = "invite"
           => job'[t].inv # job'[s].inv
    BY <2>2, <2>4
  <2> QED
    BY <2>2, <2>6, <2>7, <2>8
<1>2. ASSUME NEW s \in Requests, pc[s] # "idle",
             UNCHANGED <<member, invitation, nextId, job>>,
             \A t \in Requests \ {s} : pc'[t] = pc[t]
      PROVE  InvitationsAreTracked'
  BY <1>2 DEF Tracked
<1>3. ASSUME NEW s \in Requests, Commit(s) PROVE InvitationsAreTracked'
  <2> DEFINE j == job[s]
             writes(i) == WritesInvitation(j) /\ i = j.inv
  <2>1. /\ pc[s] = "committing" /\ pc'[s] = "idle" /\ nextId' = nextId
        /\ \A t \in Requests \ {s} : pc'[t] = pc[t] /\ job'[t] = job[t]
    BY <1>3 DEF Commit, Finish, TypeOK
  <2>2. j \in Job /\ j.user \in Users /\ Tracked(j) /\ j.kind \in Kinds
    BY <1>0, <2>1 DEF Job
  <2>3. /\ \A v \in Users : member'[v].id \in Nat
        /\ \A v \in Users : member[v].id <= member'[v].id
        /\ j.kind = "accept" => member[j.user].id < member'[j.user].id
    <3>1. member' = [member EXCEPT ![j.user] = RowAfter(j)]
      BY <1>3 DEF Commit
    <3>2. RowAfter(j) \in Row
      BY <2>2, RowAfterType
    <3>3. /\ member[j.user].id <= RowAfter(j).id
          /\ j.kind = "accept" => member[j.user].id < RowAfter(j).id
      BY <2>2, RowAfterIds
    <3> HIDE DEF j
    <3> QED
      BY <1>0, <2>2, <3>1, <3>2, <3>3 DEF TypeOK, Row
  <2>4. \A i \in Invitations :
           invitation'[i] = IF writes(i) THEN InvitationAfter(j)
                            ELSE invitation[i]
    BY <1>3 DEF Commit
  <2>5. /\ InvitationAfter(j).user = j.user
        /\ InvitationAfter(j).role = j.role
        /\ InvitationAfter(j).status # "absent"
        /\ InvitationAfter(j).status = "accepted"
           => j.kind \notin {"invite", "cancel"}
    BY DEF InvitationAfter
  <2>6. \A i \in Invitations : writes(i) => i < nextId
    <3>1. ASSUME NEW i \in Invitations, writes(i), ~(i < nextId)
          PROVE  FALSE
      <4>1. i >= nextId
        BY <1>0, <3>1 DEF Invitations
      <4>2. invitation[i].status = "absent" /\ j.kind # "invite"
        BY <1>0, <2>2, <3>1, <4>1 DEF Tracked
      <4> QED
        BY <2>2, <3>1, <4>2 DEF Tracked, WritesInvitation
    <3> QED
      BY <3>1
  <2>7. ASSUME NEW t \in Requests \ {s}, pc[t] # "idle"
        PROVE  Tracked(job[t])'
    <3> DEFINE k == job[t]
    <3>1. /\ Tracked(k) /\ job'[t] = k /\ k \in Job /\ k.user \in Users
          /\ k.read.id \in Nat
      BY <1>0, <2>1, <2>7
    <3> HIDE DEF j, k
    <3>2. k.read.id <= member'[k.user].id
      BY <1>0, <2>3, <3>1 DEF Tracked
    <3>3. CASE k.kind = "invite"
      <4>1. k.inv \in Invitations => ~writes(k.inv)
        BY <2>1, <2>2, <2>7, <3>1, <3>3 DEF Tracked, WritesInvitation, j, k
      <4> QED
        BY <2>1, <2>4, <3>1, <3>2, <3>3, <4>1 DEF Tracked, k
    <3>4. CASE k.kind \in {"cancel", "accept"}
      <4> DEFINE i == k.inv
      <4>1. /\ i \in Invitations /\ invitation[i].status # "absent"
            /\ invitation[i].user = k.user /\ invitation[i].role = k.role
        BY <3>1, <3>4 DEF Tracked
      <4>2. CASE ~writes(i)
        <5>1. invitation'[i] = invitation[i]
          BY <2>4, <4>1, <4>2
        <5>2. k.read.id <= member[k.user].id
              /\ member[k.user].id <= member'[k.user].id
              /\ member[k.user].id \in Nat /\ member'[k.user].id \in Nat
          BY <1>0, <2>3, <3>1 DEF Tracked
        <5>3. k.kind = "cancel" /\ invitation'[i].status = "accepted"
              => k.read.id < member'[k.user].id
          BY <3>1, <5>1, <5>2 DEF Tracked
        <5> QED
          BY <3>1, <3>2, <3>4, <4>1, <5>1, <5>3 DEF Tracked, k
      <4>3. CASE writes(i)
        <5>1. invitation'[i] = InvitationAfter(j) /\ j.inv = i
          BY <2>4, <4>1, <4>3
        <5>2. j.kind \in {"cancel", "accept"}
          BY <2>2, <4>1, <4>3, <5>1 DEF Tracked, WritesInvitation
        <5>3. j.user = k.user /\ j.role = k.role
          BY <2>2, <4>1, <5>1, <5>2 DEF Tracked
        <5>4. invitation'[i].status = "accepted"
              => k.read.id < member'[k.user].id
          <6>1. ASSUME invitation'[i].status = "accepted"
                PROVE  k.read.id < member'[k.user].id
            <7>1. j.kind = "accept"
              BY <2>5, <5>1, <5>2, <6>1
            <7>2. member[k.user].id < member'[k.user].id
              BY <2>3, <5>3, <7>1
            <7>3. k.read.id <= member[k.user].id
              BY <3>1 DEF Tracked
            <7> QED
              BY <1>0, <2>3, <3>1, <7>2, <7>3
          <6> QED
            BY <6>1
        <5> QED
          BY <2>5, <3>1, <3>2, <3>4, <4>1, <5>1, <5>3, <5>4
          DEF Tracked, k
      <4> QED
        BY <4>2, <4>3
    <3>5. CASE k.kind \notin {"invite", "cancel", "accept"}
      BY <3>1, <3>2, <3>5 DEF Tracked, k
    <3> QED
      BY <3>3, <3>4, <3>5
  <2>8. \A i \in Invitations :
           i >= nextId' => invitation'[i].status = "absent"
    BY <1>0, <2>1, <2>4, <2>6 DEF Invitations
  <2>9. \A t \in Requests : pc'[t] # "idle" => Tracked(job[t])'
    BY <2>1, <2>7
  <2> QED
    BY <2>1, <2>8, <2>9
<1>4. ASSUME NEW s \in Requests, Abort(s) PROVE InvitationsAreTracked'
  <2>1. /\ UNCHANGED <<member, invitation, nextId>> /\ pc'[s] = "idle"
        /\ \A t \in Requests \ {s} : pc'[t] = pc[t] /\ job'[t] = job[t]
    BY <1>4 DEF Abort, Finish, tables, TypeOK
  <2> QED
    BY <2>1 DEF Tracked
<1>5. ASSUME NEW u \in Users, DeleteAccount(u) PROVE InvitationsAreTracked'
  <2>1. /\ UNCHANGED <<invitation, nextId, pc, job>>
        /\ \A v \in Users : member'[v].id = member[v].id
    BY <1>5 DEF DeleteAccount, TypeOK, Row
  <2> QED
    BY <1>0, <2>1 DEF Tracked
<1>6. CASE UNCHANGED vars
  BY <1>6 DEF vars, Tracked
<1>7. ASSUME NEW s \in Requests, Check(s) \/ Flush(s)
      PROVE  InvitationsAreTracked'
  <2>1. /\ pc[s] # "idle" /\ UNCHANGED <<member, invitation, nextId, job>>
        /\ \A t \in Requests \ {s} : pc'[t] = pc[t]
    BY <1>7 DEF Check, Flush, tables, TypeOK
  <2> QED
    BY <1>2, <2>1
<1>8. QED
  BY <1>1, <1>3, <1>4, <1>5, <1>6, <1>7 DEF Next

(* An accepted invitation is rewritten only by a cancellation or a refusal *)
(* that had read it, and the member's row, before the acceptance committed *)
(* (invitation_service.py, cancel and decline against _accept_invitation): *)
(* a second acceptance writes what is there.                               *)
THEOREM AcceptanceIsLostToRaces == Spec => OnlyRacesUndoAcceptance
<1> DEFINE Excused(i) ==
       (invitation[i].status = "accepted" /\ invitation'[i] # invitation[i])
       => \E s \in Requests :
             /\ pc[s] = "committing"
             /\ job[s].kind = "cancel" /\ job[s].inv = i
             /\ job[s].read.id # member[job[s].user].id
<1>1. Init => InvitationsAreTracked
  BY DEF Init, InvitationsAreTracked
<1>2. TypeOK /\ TypeOK' /\ InvitationsAreTracked /\ [Next]_vars
      => InvitationsAreTracked'
  BY InvitationsAreTrackedInductive
<1>3. TypeOK /\ InvitationsAreTracked /\ [Next]_vars
      => [\A i \in Invitations : Excused(i)]_vars
  <2> SUFFICES ASSUME TypeOK, InvitationsAreTracked, [Next]_vars,
                      NEW i \in Invitations
               PROVE  Excused(i)
    OBVIOUS
  <2>1. ASSUME NEW s \in Requests, Commit(s) PROVE Excused(i)
    <3> DEFINE j == job[s]
    <3>1. /\ pc[s] = "committing" /\ Tracked(j) /\ j \in Job
          /\ j.kind \in Kinds /\ j.read.id \in Nat
          /\ member[j.user].id \in Nat
      BY <2>1 DEF Commit, InvitationsAreTracked, TypeOK, Job, Row
    <3>2. CASE ~(WritesInvitation(j) /\ i = j.inv)
      BY <2>1, <3>2 DEF Commit
    <3>3. CASE WritesInvitation(j) /\ i = j.inv /\ j.kind = "accept"
      <4>1. InvitationAfter(j)
              = [status |-> "accepted", user |-> j.user, role |-> j.role]
        BY <3>3 DEF InvitationAfter
      <4>2. invitation'[i] = InvitationAfter(j)
        BY <2>1, <3>3 DEF Commit
      <4>3. invitation[i].user = j.user /\ invitation[i].role = j.role
        BY <3>1, <3>3 DEF Tracked
      <4>4. invitation[i] \in Invitation
        BY DEF TypeOK
      <4> QED
        BY <4>1, <4>2, <4>3, <4>4 DEF Invitation
    <3>4. CASE WritesInvitation(j) /\ i = j.inv /\ j.kind = "invite"
      BY <3>1, <3>4 DEF Tracked
    <3>5. CASE WritesInvitation(j) /\ i = j.inv /\ j.kind = "cancel"
      <4>1. invitation[i].status = "accepted"
            => j.read.id < member[j.user].id
        BY <3>1, <3>5 DEF Tracked
      <4> QED
        BY <3>1, <3>5, <4>1
    <3> QED
      BY <3>2, <3>3, <3>4, <3>5 DEF WritesInvitation
  <2>2. CASE invitation' = invitation
    BY <2>2
  <2>3. ASSUME NEW s \in Requests, Ask(s) PROVE invitation' = invitation
    <3>1. PICK stage \in Stages, kind \in Kinds, u \in Users, r \in Roles,
               k \in Nat : Started(s, stage, kind, u, r, k)
      BY <2>3, AskStarts
    <3> QED
      BY <3>1 DEF Started, Start, tables
  <2> HIDE DEF Excused
  <2> QED
    BY <2>1, <2>2, <2>3
    DEF Next, Check, Flush, Abort, DeleteAccount, tables, vars
<1>4. QED
  BY <1>1, <1>2, <1>3, TypeCorrect, PTL DEF Spec, OnlyRacesUndoAcceptance
=============================================================================
