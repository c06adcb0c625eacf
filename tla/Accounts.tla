------------------------------ MODULE Accounts ------------------------------
(***************************************************************************)
(* Accounts, their sign-on and their administration: auth_service.py       *)
(* behind routers/auth.py, the checks of dependencies.py, and the two      *)
(* routers that administer users (users.py for whoever manages users,      *)
(* platform.py for super admins).                                          *)
(*                                                                         *)
(* A session authenticates and reads its rows, decides, flushes, writes an *)
(* audit row and commits.  What an exception interrupts is rolled back, by *)
(* get_db, whatever was flushed; an audit row that fails is logged and     *)
(* ignored, but the session it broke cannot commit any more.               *)
(***************************************************************************)
EXTENDS Naturals, FiniteSets, Rbac, UnitOfWork

CONSTANTS
    People,               \* identities (email and username); one account each
    Sessions,             \* requests that can be in progress at a time
    MaxLoginAttempts,
    MaxBearers,           \* bound: live access tokens of a person
    Founders,             \* the roles people may have at the start
    MaxAccountRequests    \* bound: requests and expiries in a behaviour

ASSUME FoundersReign ==
    Founders \subseteq {f \in [People -> Roles \cup {"none"}] :
                           \E u \in People : f[u] = "super_admin"}
ASSUME AccountLimits ==
    /\ People # {}
    /\ MaxLoginAttempts \in Nat \ {0} /\ MaxBearers \in Nat
    /\ MaxAccountRequests \in Nat

VARIABLES
    account,      \* account[u]: the row of u as committed
    bearer,       \* bearer[u]: access tokens neither expired nor revoked
    refreshable,  \* people who hold a refresh token
    session,      \* session[s]: what s has read and will write
    named,        \* named[u][r]: audit rows that give u the role r
    deniedRows,   \* audit rows of 403s
    requests      \* requests so far

accountVars == <<account, bearer, refreshable, session, named, deniedRows,
                 requests>>
tokens == <<bearer, refreshable>>

(* key is the number of the request that made it, 0 for none: its prefix   *)
(* and its hash are written together.                                      *)
Accounts == [role : Roles \cup {"none", "gone"}, active : BOOLEAN, key : Nat,
             failed : Nat, locked : BOOLEAN]

Fresh(role) == [role |-> role, active |-> TRUE, key |-> 0, failed |-> 0,
                locked |-> FALSE]

NoAccount == [Fresh("none") EXCEPT !.active = FALSE]

Gone == [Fresh("gone") EXCEPT !.active = FALSE]

Exists(row) == row.role \in Roles

IsAccount(u) == Exists(account[u])

NoSession == [op |-> "none", actor |-> CHOOSE u \in People : TRUE,
              target |-> CHOOSE u \in People : TRUE, authority |-> NoAccount,
              read |-> NoAccount, mine |-> NoAccount]

Managing == {"create", "update", "remove"}
Platform == {"enroll", "disable", "erase", "rerole", "reset"}

SessionsOf == [op : Managing \cup Platform \cup {"none", "rotate"},
               actor : People, target : People, authority : Accounts,
               read : Accounts, mine : Accounts]

(* Mutant of AfterException: the session commits what it flushed.          *)
AfterExceptionKept(kept, flushed) == flushed

(* What a commit keeps of what a session flushed when an exception answers *)
(* the request.                                                            *)
AfterException(kept, flushed) == kept

-----------------------------------------------------------------------------
(* A platform with its first accounts, signed on.                          *)
AccountInit ==
    /\ \E f \in Founders :
          account = [u \in People |-> IF f[u] = "none" THEN NoAccount ELSE Fresh(f[u])]
    /\ bearer = [u \in People |-> IF IsAccount(u) THEN 1 ELSE 0]
    /\ refreshable = {u \in People : IsAccount(u)}
    /\ session = [s \in Sessions |-> NoSession]
    /\ named = [u \in People |-> [r \in Roles |-> 0]]
    /\ deniedRows = 0
    /\ requests = 0

Asked == requests < MaxAccountRequests /\ requests' = requests + 1

Issue(u) == bearer' = [bearer EXCEPT ![u] = IF @ < MaxBearers THEN @ + 1 ELSE @]

(* register: an analyst, signed on at once.                                *)
Register(u) ==
    /\ Asked
    /\ account[u] = NoAccount
    /\ account' = [account EXCEPT ![u] = Fresh("analyst")]
    /\ Issue(u)
    /\ refreshable' = refreshable \cup {u}
    /\ UNCHANGED <<session, named, deniedRows>>

Login(u) ==
    /\ Asked
    /\ IsAccount(u) /\ account[u].active /\ ~account[u].locked
    /\ account' = [account EXCEPT ![u].failed = 0, ![u].locked = FALSE]
    /\ Issue(u)
    /\ refreshable' = refreshable \cup {u}
    /\ UNCHANGED <<session, named, deniedRows>>

Failed(row) == [row EXCEPT !.failed = @ + 1,
                           !.locked = @ \/ row.failed + 1 >= MaxLoginAttempts]

(* A wrong password: the count is flushed, then 401 is raised.             *)
LoginFails(u) ==
    /\ Asked
    /\ IsAccount(u) /\ ~account[u].locked
    /\ account' = [account EXCEPT ![u] = AfterException(@, Failed(@))]
    /\ UNCHANGED <<tokens, session, named, deniedRows>>

(* refresh: the same refresh token serves until it expires.                *)
Refresh(u) ==
    /\ Asked
    /\ u \in refreshable
    /\ IsAccount(u) /\ account[u].active
    /\ Issue(u)
    /\ UNCHANGED <<account, refreshable, session, named, deniedRows>>

(* The bearer's row, by token or by key; then get_current_active_user.     *)
Authenticates(u) ==
    /\ IsAccount(u) /\ account[u].active
    /\ bearer[u] > 0 \/ account[u].key > 0

(* logout: the access token is revoked, the refresh token is not; that the *)
(* commit may fail is swallowed, and the answer is 204 all the same.       *)
Logout(u) ==
    /\ Asked
    /\ Authenticates(u) /\ bearer[u] > 0
    /\ \E committed \in {0, 1} : bearer' = [bearer EXCEPT ![u] = @ - committed]
    /\ UNCHANGED <<account, refreshable, session, named, deniedRows>>

(* An access token expires; refresh tokens outlive the behaviours.         *)
Expire(u) ==
    /\ Asked
    /\ bearer[u] > 0
    /\ bearer' = [bearer EXCEPT ![u] = @ - 1]
    /\ UNCHANGED <<account, refreshable, session, named, deniedRows>>

-----------------------------------------------------------------------------
Demand(op) == IF op \in Managing THEN "user:manage" ELSE "super_admin"

(* A 403: the audit row is flushed, then the exception is raised.          *)
Deny(u, op) ==
    /\ Asked
    /\ Authenticates(u)
    /\ ~Allowed(account[u].role, Demand(op))
    /\ deniedRows' = AfterException(deniedRows, deniedRows + 1)
    /\ UNCHANGED <<account, tokens, session, named>>

Enter(s, op, a, u, mine) ==
    /\ Asked
    /\ session[s] = NoSession
    /\ Authenticates(a)
    /\ op # "rotate" => Allowed(account[a].role, Demand(op))
    /\ session' = [session EXCEPT ![s] =
                     [op |-> op, actor |-> a, target |-> u,
                      authority |-> account[a], read |-> account[u],
                      mine |-> mine]]
    /\ UNCHANGED <<account, tokens, named, deniedRows>>

(* users.create_user and update_user know no super admin as a new role.    *)
Create(s, a, u, r) ==
    account[u] = NoAccount /\ ~IsSuperAdmin(r) /\ Enter(s, "create", a, u, Fresh(r))

Update(s, a, u, r, active) ==
    /\ IsAccount(u)
    /\ r = account[u].role \/ ~IsSuperAdmin(r)
    /\ Enter(s, "update", a, u, [account[u] EXCEPT !.role = r, !.active = active])

DeleteUser(s, a, u) == IsAccount(u) /\ u # a /\ Enter(s, "remove", a, u, Gone)

(* platform_create_user, _disable_, _delete_, _change_role, _reset_.       *)
Enroll(s, a, u, r) == account[u] = NoAccount /\ Enter(s, "enroll", a, u, Fresh(r))

(* Mutant of Disable: super admins may disable themselves.                 *)
DisableAny(s, a, u) ==
    IsAccount(u) /\ Enter(s, "disable", a, u, [account[u] EXCEPT !.active = FALSE])

Disable(s, a, u) ==
    /\ IsAccount(u) /\ u # a
    /\ Enter(s, "disable", a, u, [account[u] EXCEPT !.active = FALSE])

Erase(s, a, u) == IsAccount(u) /\ u # a /\ Enter(s, "erase", a, u, Gone)

Rerole(s, a, u, r) ==
    IsAccount(u) /\ Enter(s, "rerole", a, u, [account[u] EXCEPT !.role = r])

Reset(s, a, u) ==
    /\ IsAccount(u)
    /\ Enter(s, "reset", a, u, [account[u] EXCEPT !.failed = 0, !.locked = FALSE])

(* rotate_api_key: one's own, with no permission asked.                    *)
Rotate(s, a) == Enter(s, "rotate", a, a, [account[a] EXCEPT !.key = requests + 1])

-----------------------------------------------------------------------------
(* The super admin's access is on the audit log before the handler runs:   *)
(* the row refers to the actor's, which cannot be deleted until the        *)
(* session ends.                                                           *)
Pinned(u, s) ==
    \E t \in Sessions \ {s} : /\ session[t].op \notin {"none", "rotate"}
                              /\ session[t].actor = u
                              /\ IsSuperAdmin(session[t].authority.role)

(* Whether the statement of x succeeds: a new row needs its identity free, *)
(* an UPDATE needs its row; a DELETE that finds none is a warning.         *)
Succeeds(x) ==
    CASE x.op \in {"create", "enroll"} -> account[x.target] = NoAccount
      [] x.op \in {"remove", "erase"} -> TRUE
      [] OTHER -> x.mine = x.read \/ IsAccount(x.target)

Written(x) ==
    LET cur == account[x.target]
    IN IF x.op \in {"create", "enroll", "remove", "erase"} THEN x.mine
       ELSE IF ~Exists(cur) THEN cur
       ELSE [role |-> Flushed(cur.role, x.read.role, x.mine.role),
             active |-> Flushed(cur.active, x.read.active, x.mine.active),
             key |-> Flushed(cur.key, x.read.key, x.mine.key),
             failed |-> Flushed(cur.failed, x.read.failed, x.mine.failed),
             locked |-> Flushed(cur.locked, x.read.locked, x.mine.locked)]

(* Mutant of Audited: users.update_user compares the role as set.          *)
AuditedLate(x) == x.op \in {"enroll", "rerole"}

(* The commits whose audit row names a role.                               *)
Audited(x) == \/ x.op \in {"enroll", "rerole"}
              \/ x.op = "update" /\ x.read.role # x.mine.role

(* An audit row needs the actor's row.                                     *)
Auditable(x) == x.op \in Platform \/ Audited(x) => IsAccount(x.actor)

CommitSession(s) ==
    LET x == session[s]
    IN /\ x.op # "none"
       /\ x.op \in {"remove", "erase"} => ~Pinned(x.target, s)
       /\ Succeeds(x) /\ Auditable(x)
       /\ account' = [account EXCEPT ![x.target] = Written(x)]
       /\ named' = IF Audited(x)
                   THEN [named EXCEPT ![x.target][x.mine.role] = @ + 1] ELSE named
       /\ session' = [session EXCEPT ![s] = NoSession]
       /\ UNCHANGED <<tokens, deniedRows, requests>>

(* A statement, an audit row or the commit fails, or a deadlock is broken. *)
FailSession(s) ==
    /\ session[s].op # "none"
    /\ session' = [session EXCEPT ![s] = NoSession]
    /\ UNCHANGED <<account, tokens, named, deniedRows, requests>>

SignOn(u) ==
    \/ Register(u) \/ Login(u) \/ LoginFails(u) \/ Refresh(u) \/ Logout(u)
    \/ Expire(u)
    \/ \E op \in Managing \cup Platform : Deny(u, op)

Administer(s, a) ==
    \/ \E u \in People, r \in Roles : \/ Create(s, a, u, r) \/ Enroll(s, a, u, r)
                                      \/ Rerole(s, a, u, r)
    \/ \E u \in People, r \in Roles, b \in BOOLEAN : Update(s, a, u, r, b)
    \/ \E u \in People : DeleteUser(s, a, u) \/ Disable(s, a, u) \/ Erase(s, a, u)
                         \/ Reset(s, a, u)
    \/ Rotate(s, a)

AccountNext ==
    \/ \E u \in People : SignOn(u)
    \/ \E s \in Sessions, a \in People : Administer(s, a)
    \/ \E s \in Sessions : CommitSession(s) \/ FailSession(s)

AccountSpec == AccountInit /\ [][AccountNext]_accountVars

-----------------------------------------------------------------------------
AccountTypeOK ==
    /\ account \in [People -> Accounts]
    /\ bearer \in [People -> Nat]
    /\ refreshable \subseteq People
    /\ session \in [Sessions -> SessionsOf]
    /\ named \in [People -> [Roles -> Nat]]
    /\ deniedRows \in Nat /\ requests \in Nat

(* What a request flushed before its exception is not on record: no count  *)
(* of failed sign-ons, no lock and no audit row of a 403 ever is           *)
(* (auth_service.login, dependencies._audit_authz_failure, get_db).        *)
RefusalsLeaveNoTrace ==
    /\ deniedRows = 0
    /\ \A u \in People : account[u].failed = 0 /\ ~account[u].locked

(* The role of an account changes only in a transaction that adds an audit *)
(* row naming the new role, whichever router, failure or overlap           *)
(* (users.update_user, platform_change_user_role).                         *)
RoleChangesAreAudited ==
    [][\A u \in People :
          Exists(account[u]) /\ Exists(account'[u])
            /\ account'[u].role # account[u].role =>
                named'[u][account'[u].role] = named[u][account'[u].role] + 1]_accountVars

Reigns(row) == IsSuperAdmin(row.role) /\ row.active

SomeoneReigns == \E u \in People : Reigns(account[u])

(* Nothing keeps a super admin on the platform but that they cannot        *)
(* disable or delete themselves: the last one goes when somebody manages   *)
(* users or roles, or when the one who acts has changed since they were    *)
(* authenticated (platform_disable_user, platform_delete_user).            *)
LastSuperAdminIsNotDismissed ==
    [][SomeoneReigns /\ ~SomeoneReigns' =>
          \E s \in Sessions :
             LET x == session[s]
             IN /\ x.op # "none" /\ session'[s] = NoSession
                /\ \/ x.op \in Managing \cup {"rerole"}
                   \/ account[x.actor] # x.authority]_accountVars
=============================================================================
