-------------------------- MODULE ProjectMembership --------------------------
(***************************************************************************)
(* Who belongs to a project, and the invitations that bring people in:     *)
(* the requests of app/routers/projects.py, app/routers/invitations.py and *)
(* app/routers/platform.py on app/services/project_service.py and          *)
(* app/services/invitation_service.py.                                     *)
(*                                                                         *)
(* A request reads rows in one or two SELECTs, flushes - waiting for the   *)
(* locks on the rows it writes - and commits.  Nothing is locked while it  *)
(* decides.  A request that is refused (wrong token, expired invitation,   *)
(* archived project, last admin, ...) or that fails rolls back; the status *)
(* that accept writes before it refuses is rolled back with it, so no      *)
(* invitation ever becomes "expired".                                      *)
(***************************************************************************)
EXTENDS Naturals

CONSTANTS
    Users,        \* accounts, each with one e-mail address
    Owner,        \* who created the project
    Requests,     \* requests that can be in progress at a time
    Operators,    \* are there platform administrators?
    MaxRequests   \* bound: requests in a behaviour

ASSUME OwnerIsUser == Owner \in Users
ASSUME Limits == MaxRequests \in Nat /\ Operators \in BOOLEAN

VARIABLES
    accounts,    \* the users whose account exists
    member,      \* member[u]: the membership row of u
    invitation,  \* invitation[i]: the i-th invitation
    nextId,      \* number of the next invitation
    pc,          \* where each request stands
    job,         \* what each request is about, with the row it read
    seen,        \* the admins the second SELECT of each request counted
    requests     \* requests so far

vars == <<accounts, member, invitation, nextId, pc, job, seen, requests>>

tables == <<accounts, member, invitation>>

Invitations == 1 .. MaxRequests

Roles == {"admin", "analyst", "viewer"}

(* `id` numbers the rows a user has had; without a row the role is "none". *)
Row == [role : Roles \cup {"none"}, id : Nat]

Invitation == [status : {"absent", "pending", "accepted", "cancelled"},
               user : Users, role : Roles]

(* An "add" inserts a row, a "change" updates and a "remove" deletes one.  *)
Kinds == {"add", "change", "remove", "invite", "cancel", "accept"}

Job == [kind : Kinds, user : Users, role : Roles, inv : Nat, read : Row]

Stages == {"idle", "checking", "flushing", "committing"}

NoJob == [kind |-> "remove", user |-> Owner, role |-> "viewer", inv |-> 0,
          read |-> [role |-> "none", id |-> 0]]

(* The owner's account may be gone (owner_id is SET NULL).                 *)
IsOwner(u) == u = Owner /\ u \in accounts

IsMember(u) == member[u].role # "none"

(* Whom count_project_admins counts, the owner with or without a row.      *)
Admins == {u \in Users : member[u].role = "admin" \/ IsOwner(u)}

(* assert_project_admin lets someone manage the project.                   *)
Managed == Operators \/ Admins # {}

Pending(i) == invitation[i].status = "pending"

-----------------------------------------------------------------------------
(* The project starts with its owner and may have gained others.           *)
Init ==
    /\ accounts = Users
    /\ member \in [Users -> {[role |-> r, id |-> 1] : r \in Roles}
                              \cup {[role |-> "none", id |-> 0]}]
    /\ member[Owner].role = "admin"
    /\ invitation = [i \in Invitations |->
          [status |-> "absent", user |-> Owner, role |-> "viewer"]]
    /\ nextId = 1
    /\ pc = [s \in Requests |-> "idle"]
    /\ job = [s \in Requests |-> NoJob]
    /\ seen = [s \in Requests |-> {}]
    /\ requests = 0

(* A request for `kind` on user u that has done its first SELECT.          *)
Start(s, stage, kind, u, r, i) ==
    /\ pc[s] = "idle"
    /\ requests < MaxRequests
    /\ requests' = requests + 1
    /\ pc' = [pc EXCEPT ![s] = stage]
    /\ job' = [job EXCEPT ![s] = [kind |-> kind, user |-> u, role |-> r,
                                  inv |-> i, read |-> member[u]]]
    /\ UNCHANGED <<tables, seen>>

AskAdd(s, u, r) ==
    /\ Managed
    /\ u \in accounts
    /\ ~IsMember(u)
    /\ Start(s, "flushing", "add", u, r, 0)
    /\ UNCHANGED nextId

(* A platform operator makes u an admin, with or without a row before.     *)
AskAssign(s, u) ==
    /\ Operators
    /\ u \in accounts
    /\ member[u].role # "admin"
    /\ Start(s, "flushing", IF IsMember(u) THEN "change" ELSE "add",
             u, "admin", 0)
    /\ UNCHANGED nextId

(* Taking the admin role from somebody needs a look at the other admins.   *)
Scrutiny(u) == IF member[u].role = "admin" THEN "checking" ELSE "flushing"

(* Mutants of AskChange: the owner may be demoted; the number of admins is *)
(* not looked at.                                                          *)
AskChangeOwner(s, u, r) ==
    /\ Managed
    /\ IsMember(u)
    /\ r # member[u].role
    /\ Start(s, Scrutiny(u), "change", u, r, 0)
    /\ UNCHANGED nextId

AskChangeUnchecked(s, u, r) ==
    /\ Managed
    /\ IsMember(u)
    /\ r # member[u].role
    /\ ~IsOwner(u)
    /\ Start(s, "flushing", "change", u, r, 0)
    /\ UNCHANGED nextId

(* The owner, who is an admin, cannot be demoted; a role the member has    *)
(* already makes no UPDATE.                                                *)
AskChange(s, u, r) ==
    /\ Managed
    /\ IsMember(u)
    /\ r # member[u].role
    /\ ~IsOwner(u) \/ r = "admin"
    /\ Start(s, Scrutiny(u), "change", u, r, 0)
    /\ UNCHANGED nextId

AskRemove(s, u) ==
    /\ Managed
    /\ IsMember(u)
    /\ ~IsOwner(u)
    /\ Start(s, Scrutiny(u), "remove", u, "viewer", 0)
    /\ UNCHANGED nextId

(* Anybody's address may be invited, with or without an account.           *)
AskInvite(s, u, r) ==
    /\ Managed
    /\ ~IsMember(u)
    /\ Start(s, "checking", "invite", u, r, nextId)
    /\ nextId' = nextId + 1

(* Mutant of AskCancel: the status is not looked at.                       *)
AskCancelAny(s, i) ==
    /\ invitation[i].status # "absent"
    /\ Start(s, "flushing", "cancel", invitation[i].user, invitation[i].role, i)
    /\ UNCHANGED nextId

(* An admin cancels, or the invitee declines.                              *)
AskCancel(s, i) ==
    /\ Pending(i)
    /\ Start(s, "flushing", "cancel", invitation[i].user, invitation[i].role, i)
    /\ UNCHANGED nextId

AskAccept(s, i) ==
    /\ Pending(i)
    /\ invitation[i].user \in accounts
    /\ Start(s, "checking", "accept", invitation[i].user,
             invitation[i].role, i)
    /\ UNCHANGED nextId

-----------------------------------------------------------------------------
(* The second SELECT: more than one admin, no pending invitation for the   *)
(* address, or no membership yet.                                          *)
Checks(j) ==
    CASE j.kind \in {"change", "remove"} -> \E a, b \in Admins : a # b
      [] j.kind = "invite" ->
            ~\E i \in Invitations : Pending(i) /\ invitation[i].user = j.user
      [] OTHER -> ~IsMember(j.user)

Check(s) ==
    /\ pc[s] = "checking"
    /\ Checks(job[s])
    /\ seen' = [seen EXCEPT ![s] = Admins]
    /\ pc' = [pc EXCEPT ![s] = "flushing"]
    /\ UNCHANGED <<tables, nextId, job, requests>>

WritesMember(j) == j.kind \in {"add", "change", "remove", "accept"}
WritesInvitation(j) == j.kind \in {"invite", "cancel", "accept"}

(* Two jobs that lock the same row, or the same key of a unique index:     *)
(* uq_project_member, or uq_project_invitation_pending with the pending    *)
(* invitations of one address.                                             *)
Collide(j, k) ==
    \/ WritesMember(j) /\ WritesMember(k) /\ j.user = k.user
    \/ WritesInvitation(j) /\ WritesInvitation(k) /\ j.inv = k.inv
    \/ /\ WritesInvitation(j) /\ WritesInvitation(k)
       /\ "invite" \in {j.kind, k.kind}
       /\ j.user = k.user

(* Mutant of Applies: the index on pending invitations is missing.         *)
AppliesUnindexed(j) ==
    /\ j.kind \in {"add", "accept"} => ~IsMember(j.user)
    /\ j.kind = "change" => IsMember(j.user) /\ member[j.user].id = j.read.id

(* The statements go through: an INSERT finds no row of the user and no    *)
(* pending invitation of the address, an UPDATE the row that was read.  A  *)
(* DELETE of a row that is gone only warns.                                *)
Applies(j) ==
    /\ j.kind \in {"add", "accept"} => ~IsMember(j.user)
    /\ j.kind = "invite" =>
          \A i \in Invitations : Pending(i) => invitation[i].user # j.user
    /\ j.kind = "change" => IsMember(j.user) /\ member[j.user].id = j.read.id

Flush(s) ==
    /\ pc[s] = "flushing"
    /\ \A t \in Requests : pc[t] = "committing" => ~Collide(job[s], job[t])
    /\ Applies(job[s])
    /\ pc' = [pc EXCEPT ![s] = "committing"]
    /\ UNCHANGED <<tables, nextId, job, seen, requests>>

(* The membership row of j's user once j is committed. *)
RowAfter(j) ==
    LET row == member[j.user]
    IN  CASE j.kind \in {"add", "accept"} ->
                [role |-> j.role, id |-> row.id + 1]
          [] j.kind = "change" -> [role |-> j.role, id |-> row.id]
          [] j.kind = "remove" /\ row.id = j.read.id ->
                [role |-> "none", id |-> row.id]
          [] OTHER -> row

(* Mutant of InvitationAfter: the "expired" that accept writes is kept.    *)
InvitationAfterExpiring(j) ==
    [status |-> CASE j.kind = "invite" -> "pending"
                  [] j.kind = "cancel" -> "expired"
                  [] OTHER -> "accepted",
     user   |-> j.user,
     role   |-> j.role]

(* The invitation of j once j is committed. *)
InvitationAfter(j) ==
    [status |-> CASE j.kind = "invite" -> "pending"
                  [] j.kind = "cancel" -> "cancelled"
                  [] OTHER -> "accepted",
     user   |-> j.user,
     role   |-> j.role]

Finish(s) ==
    /\ pc' = [pc EXCEPT ![s] = "idle"]
    /\ job' = [job EXCEPT ![s] = NoJob]
    /\ seen' = [seen EXCEPT ![s] = {}]

Commit(s) ==
    LET j == job[s]
    IN  /\ pc[s] = "committing"
        /\ member' = [member EXCEPT ![j.user] = RowAfter(j)]
        /\ invitation' = [i \in Invitations |->
              IF WritesInvitation(j) /\ i = j.inv THEN InvitationAfter(j)
              ELSE invitation[i]]
        /\ Finish(s)
        /\ UNCHANGED <<accounts, nextId, requests>>

(* The request is refused or fails, and rolls back.                        *)
Abort(s) ==
    /\ pc[s] # "idle"
    /\ Finish(s)
    /\ UNCHANGED <<tables, nextId, requests>>

(* DELETE of a user: the membership goes with it, owner_id becomes NULL.   *)
(* Only between requests: a request of, or about, an account that is being *)
(* deleted is not modelled.                                                *)
DeleteAccount(u) ==
    /\ u \in accounts
    /\ \A s \in Requests : pc[s] = "idle"
    /\ accounts' = accounts \ {u}
    /\ member' = [member EXCEPT ![u].role = "none"]
    /\ UNCHANGED <<invitation, nextId, pc, job, seen, requests>>

-----------------------------------------------------------------------------
Ask(s) ==
    \/ \E u \in Users, r \in Roles :
          AskAdd(s, u, r) \/ AskChange(s, u, r) \/ AskInvite(s, u, r)
    \/ \E u \in Users : AskAssign(s, u) \/ AskRemove(s, u)
    \/ \E i \in Invitations : AskCancel(s, i) \/ AskAccept(s, i)

Next ==
    \/ \E s \in Requests :
          Ask(s) \/ Check(s) \/ Flush(s) \/ Commit(s) \/ Abort(s)
    \/ \E u \in Users : DeleteAccount(u)

Spec == Init /\ [][Next]_vars

-----------------------------------------------------------------------------
TypeOK ==
    /\ accounts \subseteq Users
    /\ member \in [Users -> Row]
    /\ invitation \in [Invitations -> Invitation]
    /\ nextId \in Nat
    /\ pc \in [Requests -> Stages]
    /\ job \in [Requests -> Job]
    /\ seen \in [Requests -> SUBSET Users]
    /\ requests \in Nat

(* While the owner's account exists the owner has a row and it says admin, *)
(* whatever requests overlap and however often the owner's role was named  *)
(* in one (project_service.py, update_member_role and remove_member).      *)
OwnerKeepsAdmin == Owner \in accounts => member[Owner].role = "admin"

(* The last admin is lost only with an account, or to a request that       *)
(* another one overtook: the row of the member is not the one it read, or  *)
(* it counted admins and they are not those there are when it commits      *)
(* (project_service.py, count_project_admins).                             *)
OnlyRacesTakeTheLastAdmin ==
    [][(Admins # {} /\ Admins' = {})
       => \/ accounts' # accounts
          \/ \E s \in Requests :
                /\ pc[s] = "committing"
                /\ \/ job[s].read # member[job[s].user]
                   \/ seen[s] \notin {{}, Admins}]_vars

(* An address has one pending invitation at most, although create looks    *)
(* for one and inserts in two steps: the partial index of migration 014    *)
(* holds back the request that looked too early, and create's              *)
(* scalar_one_or_none never meets two rows.                                *)
OnePendingInvitation ==
    \A i, j \in Invitations :
        (Pending(i) /\ Pending(j) /\ invitation[i].user = invitation[j].user)
        => i = j

(* An accepted invitation is changed afterwards only by a cancellation or  *)
(* a refusal that had read it, and the member's row, before the acceptance *)
(* committed; the member stays (invitation_service.py, cancel and decline  *)
(* against _accept_invitation).                                            *)
OnlyRacesUndoAcceptance ==
    [][\A i \in Invitations :
          (invitation[i].status = "accepted" /\ invitation'[i] # invitation[i])
          => \E s \in Requests :
                /\ pc[s] = "committing"
                /\ job[s].kind = "cancel" /\ job[s].inv = i
                /\ job[s].read.id # member[job[s].user].id]_vars

=============================================================================
