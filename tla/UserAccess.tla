----------------------------- MODULE UserAccess -----------------------------
(***************************************************************************)
(* Users, roles and access tokens: signing up, logging in, refreshing a    *)
(* token, and the management of users and roles, as concurrent handlers    *)
(* that take one step per statement.                                       *)
(*                                                                         *)
(* A role is its set of permissions (a glob pattern stands for what it     *)
(* matches), a password a number.  A token is the JWT an AuthToken is      *)
(* encoded to: nobody alters one, and it is refused once expired.          *)
(***************************************************************************)
EXTENDS Integers, FiniteSets

CONSTANTS
    Names,          \* usernames
    RolePerms,      \* permission sets that are given to roles
    Workers,        \* handlers that can run at the same time
    Ttl,            \* validity of a token, in clock ticks: 15 minutes
    MaxTime,        \* bound: the clock stops here
    MaxRequests,    \* bound: requests; each is numbered
    MaxFaults       \* bound: failing statements

Permissions == {"user/create", "user/write", "user/delete", "role/write", "role/delete", "role/assign"}

ASSUME RolePermsAssumption == RolePerms \subseteq SUBSET Permissions
ASSUME UserBounds == Ttl \in Nat /\ MaxTime \in Nat /\ MaxRequests \in Nat /\ MaxFaults \in Nat

VARIABLES
    users, name, pw,    \* the table users
    nextUser,           \* AUTOINCREMENT
    roles, perm,        \* the table roles
    nextRole,
    grants,             \* the table users_roles; a double row counts once
    tokens,             \* the valid tokens
    worker, now, requests, faults,
    account,        \* history: the request an id of a user was created by
    lost,           \* history: when a user last lost a permission
    ackedPw,        \* history: the password last stored on request
    racedPw,        \* history: ids of which another handler had a copy then
    selfMade,       \* history: users that became admin by being the first
    interrupted,    \* history: a user was inserted while another handler was between
                    \* its INSERT and its count or first role, or one ended there
    dismissed       \* history: an admin was removed on request

tables == <<users, name, pw, nextUser, roles, perm, nextRole, grants>>
tokenHistory == <<account, lost>>
pwHistory == <<ackedPw, racedPw>>
adminHistory == <<selfMade, interrupted, dismissed>>
vars == <<tables, tokens, worker, now, requests, faults, tokenHistory, pwHistory, adminHistory>>

ROLE_ID_ADMIN == 0
ROLE_ID_GUEST == 1
UserIds == 1..MaxRequests
RoleIds == 0..(MaxRequests + 1)
NoName == "none"
Never == -1

Token == [sub: UserIds, perms: SUBSET Permissions, exp: Nat, account: Nat, asked: Nat]

Idle == [op |-> "none", pc |-> "idle", id |-> 0, name |-> NoName, pw |-> 0, old |-> 0, perms |-> {}, todo |-> {},
         account |-> 0, asked |-> 0]

WorkerStates ==
    [op: {"none", "signup", "create", "login", "refresh", "rename", "password", "edit"},
     pc: {"idle", "insert", "count", "admin", "roles", "conflict", "find", "permissions", "issue", "write"},
     id: UserIds \cup {0}, name: Names \cup {NoName}, pw: Nat, old: Nat, perms: SUBSET Permissions,
     todo: SUBSET RoleIds, account: Nat, asked: Nat]

(* Every variable holds a value of its kind, and a row of users_roles refers
   to a user and a role that exist. *)
UserTypeOK ==
    /\ users \subseteq UserIds /\ nextUser \in Nat /\ roles \subseteq RoleIds /\ nextRole \in Nat
    /\ name \in [UserIds -> Names \cup {NoName}] /\ pw \in [UserIds -> Nat]
    /\ perm \in [RoleIds -> SUBSET Permissions]
    /\ grants \subseteq users \X roles
    /\ tokens \subseteq Token
    /\ worker \in [Workers -> WorkerStates]
    /\ now \in 0..MaxTime /\ requests \in Nat /\ faults \in Nat
    /\ account \in [UserIds -> Nat]
    /\ lost \in [UserIds -> [Permissions -> Nat \cup {Never}]]
    /\ ackedPw \in [UserIds -> Nat] /\ racedPw \subseteq UserIds
    /\ selfMade \subseteq UserIds /\ interrupted \in BOOLEAN /\ dismissed \in BOOLEAN

(* The migrations create the roles admin and reader; reader may change
   nothing. *)
Init ==
    /\ users = {} /\ nextUser = 1
    /\ name = [u \in UserIds |-> NoName] /\ pw = [u \in UserIds |-> 0]
    /\ roles = {ROLE_ID_ADMIN, ROLE_ID_GUEST} /\ nextRole = 2
    /\ perm = [r \in RoleIds |-> IF r = ROLE_ID_ADMIN THEN Permissions ELSE {}]
    /\ grants = {} /\ tokens = {}
    /\ worker = [w \in Workers |-> Idle]
    /\ now = 0 /\ requests = 0 /\ faults = 0
    /\ account = [u \in UserIds |-> 0]
    /\ lost = [u \in UserIds |-> [p \in Permissions |-> Never]]
    /\ ackedPw = [u \in UserIds |-> 0] /\ racedPw = {}
    /\ selfMade = {} /\ interrupted = FALSE /\ dismissed = FALSE

-----------------------------------------------------------------------------
(* Helpers. *)

Request ==
    /\ requests < MaxRequests
    /\ requests' = requests + 1

(* with_roles: what user u may do. *)
PermissionsOf(u) == UNION {perm[r] : r \in {q \in roles : <<u, q>> \in grants}}

(* What this step takes away from somebody was lost now. *)
NoteLost ==
    lost' = [u \in UserIds |-> [p \in Permissions |->
                IF p \in PermissionsOf(u) \ PermissionsOf(u)' THEN now ELSE lost[u][p]]]

(* UNIQUE username. *)
NameFree(u, n) == \A x \in users \ {u} : name[x] # n

(* from_request: a token that is not expired; require_permission looks at the
   token only, never at the tables. *)
require_permission(tok, p) == p \in tok.perms

Return(w) == worker' = [worker EXCEPT ![w] = Idle]
Goto(w, p) == worker' = [worker EXCEPT ![w].pc = p]

(* A request begins a handler of kind op at step p. *)
Begin(w, op, p, id, n, password, todo) ==
    /\ worker[w].pc = "idle"
    /\ Request
    /\ worker' = [worker EXCEPT ![w] = [Idle EXCEPT !.op = op, !.pc = p, !.id = id, !.name = n,
                                                    !.pw = password, !.todo = todo, !.asked = now]]
    /\ UNCHANGED <<tables, tokens, now, faults, tokenHistory, pwHistory, adminHistory>>

NewPassword == requests + 1

-----------------------------------------------------------------------------
(* Creating users. *)

Signup(w, n) == Begin(w, "signup", "insert", 0, n, NewPassword, {})

(* POST /management/users; the roles of the request count only if the token
   may assign roles. *)
CreateUser(w, tok, n, rs) ==
    /\ require_permission(tok, "user/create")
    /\ Begin(w, "create", "insert", 0, n, NewPassword,
             IF require_permission(tok, "role/assign") THEN rs ELSE {})

(* Mutant: ids are used again. *)
M_last_insert_rowid == CHOOSE u \in UserIds : u \notin users /\ \A v \in users : v < u

(* The id of the row that is inserted next. *)
last_insert_rowid == nextUser

(* user_service::insert, the INSERT. *)
InsertUser(w) ==
    LET u == last_insert_rowid
    IN  /\ worker[w].pc = "insert"
        /\ IF NameFree(0, worker[w].name)
           THEN /\ users' = users \cup {u}
                /\ name' = [name EXCEPT ![u] = worker[w].name]
                /\ pw' = [pw EXCEPT ![u] = worker[w].pw]
                /\ nextUser' = u + 1
                /\ account' = [account EXCEPT ![u] = worker[w].pw]
                /\ ackedPw' = [ackedPw EXCEPT ![u] = worker[w].pw]
                /\ interrupted' = (interrupted \/ \E x \in Workers : worker[x].pc \in {"count", "admin"})
                /\ worker' = [worker EXCEPT ![w].pc = "count", ![w].id = u]
           ELSE Return(w) /\ UNCHANGED <<users, name, pw, nextUser, account, ackedPw, interrupted>>
        /\ UNCHANGED <<roles, perm, nextRole, grants, tokens, now, requests, faults, lost, racedPw,
                       selfMade, dismissed>>

(* Mutants: an off-by-one in each direction. *)
M_IsFirstUserLate == Cardinality(users) <= 2
M_IsFirstUserEarly == Cardinality(users) = 0

(* The SELECT COUNT: an only user becomes admin. *)
IsFirstUser == Cardinality(users) = 1

CountUsers(w) ==
    /\ worker[w].pc = "count"
    /\ Goto(w, IF IsFirstUser THEN "admin" ELSE "roles")
    /\ UNCHANGED <<tables, tokens, now, requests, faults, tokenHistory, pwHistory, adminHistory>>

(* add_role_to_user: both foreign keys must hold. *)
AddRole(u, r) ==
    IF u \in users /\ r \in roles THEN grants' = grants \cup {<<u, r>>} ELSE UNCHANGED grants

MakeAdmin(w) ==
    LET u == worker[w].id
    IN  /\ worker[w].pc = "admin"
        /\ AddRole(u, ROLE_ID_ADMIN)
        /\ IF u \in users /\ ROLE_ID_ADMIN \in roles
           THEN Goto(w, "roles") /\ selfMade' = selfMade \cup {u}
           ELSE Return(w) /\ UNCHANGED selfMade
        /\ UNCHANGED <<users, name, pw, nextUser, roles, perm, nextRole, tokens, now, requests, faults,
                       tokenHistory, pwHistory, interrupted, dismissed>>

(* The next role of the request, an error if it cannot be added, or the end. *)
AddRequestedRole(w) ==
    /\ worker[w].pc = "roles"
    /\ IF worker[w].todo = {}
       THEN Return(w) /\ UNCHANGED grants
       ELSE \E r \in worker[w].todo :
              /\ AddRole(worker[w].id, r)
              /\ IF worker[w].id \in users /\ r \in roles
                 THEN worker' = [worker EXCEPT ![w].todo = @ \ {r}]
                 ELSE Return(w)
    /\ UNCHANGED <<users, name, pw, nextUser, roles, perm, nextRole, tokens, now, requests, faults,
                   tokenHistory, pwHistory, adminHistory>>

-----------------------------------------------------------------------------
(* Tokens. *)

(* Somebody who knows the current password of u logs in. *)
Login(w, u) == Begin(w, "login", "find", u, name[u], pw[u], {})

(* Mutant: the permissions of the old token are carried over. *)
M_RefreshToken(w, tok) ==
    /\ worker[w].pc = "idle"
    /\ Request
    /\ worker' = [worker EXCEPT ![w] = [Idle EXCEPT !.op = "refresh", !.pc = "issue", !.id = tok.sub,
                     !.perms = tok.perms, !.account = tok.account, !.asked = now]]
    /\ UNCHANGED <<tables, tokens, now, faults, tokenHistory, pwHistory, adminHistory>>

RefreshToken(w, tok) == Begin(w, "refresh", "find", tok.sub, NoName, 0, {})

(* find_by_username, find_by_id: the row of the user.  A login is refused if
   the password does not match it. *)
FindRow(w) ==
    IF worker[w].op = "login" THEN {u \in users : name[u] = worker[w].name /\ pw[u] = worker[w].pw}
    ELSE users \cap {worker[w].id}

FindForToken(w) ==
    /\ worker[w].pc = "find" /\ worker[w].op \in {"login", "refresh"}
    /\ IF FindRow(w) = {} THEN Return(w)
       ELSE \E u \in FindRow(w) :
              worker' = [worker EXCEPT ![w].pc = "permissions", ![w].id = u, ![w].account = account[u]]
    /\ UNCHANGED <<tables, tokens, now, requests, faults, tokenHistory, pwHistory, adminHistory>>

LoadPermissions(w) ==
    /\ worker[w].pc = "permissions"
    /\ worker' = [worker EXCEPT ![w].pc = "issue", ![w].perms = PermissionsOf(worker[w].id)]
    /\ UNCHANGED <<tables, tokens, now, requests, faults, tokenHistory, pwHistory, adminHistory>>

(* generate_access_token. *)
IssueToken(w) ==
    /\ worker[w].pc = "issue"
    /\ tokens' = tokens \cup {[sub |-> worker[w].id, perms |-> worker[w].perms, exp |-> now + Ttl,
                               account |-> worker[w].account, asked |-> worker[w].asked]}
    /\ Return(w)
    /\ UNCHANGED <<tables, now, requests, faults, tokenHistory, pwHistory, adminHistory>>

-----------------------------------------------------------------------------
(* Changing users. *)

(* Handler w stored password new for u on request, if new is not 0. *)
NotePassword(w, u, new) ==
    IF new = 0 THEN UNCHANGED pwHistory
    ELSE /\ ackedPw' = [ackedPw EXCEPT ![u] = new]
         /\ racedPw' = IF \E x \in Workers \ {w} : worker[x].pc = "write" /\ worker[x].id = u
                       THEN racedPw \cup {u} ELSE racedPw \ {u}

(* Mutant: the row is not read before it is written. *)
M_UpdateMe(w, tok, n) == Begin(w, "rename", "write", tok.sub, n, 0, {})

(* PUT /users/me, POST /users/password, PUT /management/users: the handler
   knows the number of a new password, or 0 to keep the old one. *)
UpdateMe(w, tok, n) == Begin(w, "rename", "find", tok.sub, n, 0, {})
UpdatePassword(w, tok) == Begin(w, "password", "find", tok.sub, NoName, NewPassword, {})
UpdateUser(w, tok, u, n, password) ==
    /\ require_permission(tok, "user/write")
    /\ Begin(w, "edit", "conflict", u, n, password, {})

CheckConflict(w) ==
    /\ worker[w].pc = "conflict"
    /\ IF NameFree(worker[w].id, worker[w].name) THEN Goto(w, "find") ELSE Return(w)
    /\ UNCHANGED <<tables, tokens, now, requests, faults, tokenHistory, pwHistory, adminHistory>>

(* find_by_id: the handler goes on with its copy of the row.  A change of the
   password is refused when the old one in the request is wrong. *)
FindForUpdate(w) ==
    LET u == worker[w].id
    IN  /\ worker[w].pc = "find" /\ worker[w].op \in {"rename", "password", "edit"}
        /\ \/ u \in users /\ worker' = [worker EXCEPT ![w].pc = "write", ![w].old = pw[u]]
           \/ (u \notin users \/ worker[w].op = "password") /\ Return(w)
        /\ UNCHANGED <<tables, tokens, now, requests, faults, tokenHistory, pwHistory, adminHistory>>

(* user_service::update writes username and password, update_password only
   the password; a missing row is no error, a name in use is one. *)
WriteUser(w) ==
    LET u == worker[w].id
        new == worker[w].pw
    IN  /\ worker[w].pc = "write"
        /\ IF u \in users /\ (worker[w].op = "password" \/ NameFree(u, worker[w].name))
           THEN /\ name' = [name EXCEPT ![u] = IF worker[w].op = "password" THEN @ ELSE worker[w].name]
                /\ pw' = [pw EXCEPT ![u] = IF new = 0 THEN worker[w].old ELSE new]
                /\ NotePassword(w, u, new)
           ELSE UNCHANGED <<name, pw, pwHistory>>
        /\ Return(w)
        /\ UNCHANGED <<users, nextUser, roles, perm, nextRole, grants, tokens, now, requests, faults,
                       tokenHistory, adminHistory>>

(* Mutant: no ON DELETE CASCADE. *)
M_DeleteUser(tok, u) ==
    /\ require_permission(tok, "user/delete")
    /\ Request
    /\ users' = users \ {u}
    /\ dismissed' = (users' # {} /\ (dismissed \/ <<u, ROLE_ID_ADMIN>> \in grants))
    /\ UNCHANGED <<name, pw, nextUser, roles, perm, nextRole, grants, tokens, worker, now, faults,
                   account, pwHistory, selfMade, interrupted>>
    /\ NoteLost

(* DELETE /management/users: users_roles is cascaded. *)
DeleteUser(tok, u) ==
    /\ require_permission(tok, "user/delete")
    /\ Request
    /\ users' = users \ {u}
    /\ grants' = {g \in grants : g[1] # u}
    /\ dismissed' = (users' # {} /\ (dismissed \/ <<u, ROLE_ID_ADMIN>> \in grants))
    /\ UNCHANGED <<name, pw, nextUser, roles, perm, nextRole, tokens, worker, now, faults, account,
                   pwHistory, selfMade, interrupted>>
    /\ NoteLost

-----------------------------------------------------------------------------
(* Roles. *)

AssignRole(tok, u, r) ==
    /\ require_permission(tok, "role/assign")
    /\ Request
    /\ AddRole(u, r)
    /\ UNCHANGED <<users, name, pw, nextUser, roles, perm, nextRole, tokens, worker, now, faults,
                   tokenHistory, pwHistory, adminHistory>>

UnassignRole(tok, u, r) ==
    /\ require_permission(tok, "role/assign")
    /\ r \in roles
    /\ Request
    /\ grants' = grants \ {<<u, r>>}
    /\ dismissed' = (dismissed \/ r = ROLE_ID_ADMIN)
    /\ UNCHANGED <<users, name, pw, nextUser, roles, perm, nextRole, tokens, worker, now, faults,
                   account, pwHistory, selfMade, interrupted>>
    /\ NoteLost

CreateRole(tok, ps) ==
    /\ require_permission(tok, "role/write")
    /\ Request
    /\ roles' = roles \cup {nextRole}
    /\ perm' = [perm EXCEPT ![nextRole] = ps]
    /\ nextRole' = nextRole + 1
    /\ UNCHANGED <<users, name, pw, nextUser, grants, tokens, worker, now, faults, tokenHistory, pwHistory,
                   adminHistory>>

EditRole(tok, r, ps) ==
    /\ require_permission(tok, "role/write")
    /\ r \in roles
    /\ Request
    /\ perm' = [perm EXCEPT ![r] = ps]
    /\ UNCHANGED <<users, name, pw, nextUser, roles, nextRole, grants, tokens, worker, now, faults,
                   account, pwHistory, adminHistory>>
    /\ NoteLost

(* The foreign key of users_roles refuses to delete a role somebody has. *)
DeleteRole(tok, r) ==
    /\ require_permission(tok, "role/delete")
    /\ \A g \in grants : g[2] # r
    /\ Request
    /\ roles' = roles \ {r}
    /\ UNCHANGED <<users, name, pw, nextUser, perm, nextRole, grants, tokens, worker, now, faults,
                   tokenHistory, pwHistory, adminHistory>>

-----------------------------------------------------------------------------
(* The environment. *)

HandlerFails(w) ==
    /\ worker[w].pc # "idle"
    /\ faults < MaxFaults
    /\ faults' = faults + 1
    /\ interrupted' = (interrupted \/ worker[w].pc \in {"count", "admin"})
    /\ Return(w)
    /\ UNCHANGED <<tables, tokens, now, requests, tokenHistory, pwHistory, selfMade, dismissed>>

(* jsonwebtoken accepts a token up to and including its exp. *)
Tick ==
    /\ now < MaxTime
    /\ now' = now + 1
    /\ tokens' = {tok \in tokens : tok.exp >= now + 1}
    /\ UNCHANGED <<tables, worker, requests, faults, tokenHistory, pwHistory, adminHistory>>

(* GET requests change nothing but last_interaction. *)
GetUsers == UNCHANGED vars

Authorized(tok) ==
    \/ \E w \in Workers :
          \/ RefreshToken(w, tok) \/ UpdatePassword(w, tok)
          \/ \E n \in Names : UpdateMe(w, tok, n) \/ \E r \in roles : CreateUser(w, tok, n, {r})
          \/ \E n \in Names, u \in users, p \in {0, NewPassword} : UpdateUser(w, tok, u, n, p)
    \/ \E u \in users : DeleteUser(tok, u) \/ \E r \in roles : AssignRole(tok, u, r) \/ UnassignRole(tok, u, r)
    \/ \E ps \in RolePerms : CreateRole(tok, ps) \/ \E r \in roles : EditRole(tok, r, ps)
    \/ \E r \in roles : DeleteRole(tok, r)

WorkerStep(w) ==
    \/ InsertUser(w) \/ CountUsers(w) \/ MakeAdmin(w) \/ AddRequestedRole(w)
    \/ FindForToken(w) \/ LoadPermissions(w) \/ IssueToken(w)
    \/ CheckConflict(w) \/ FindForUpdate(w) \/ WriteUser(w)

Next ==
    \/ \E w \in Workers : \/ WorkerStep(w) \/ HandlerFails(w)
                          \/ \E n \in Names : Signup(w, n)
                          \/ \E u \in users : Login(w, u)
    \/ \E tok \in tokens : Authorized(tok)
    \/ Tick \/ GetUsers

Spec == Init /\ [][Next]_vars

-----------------------------------------------------------------------------
(* require_permission trusts the list in the token.  It is out of date by no
   more than the token's own lifetime: whatever was revoked, deleted or edited
   meanwhile, the user had every permission of a token at or after the moment
   the login or refresh that issued it began. *)
TokenPermissionsHeld ==
    \A tok \in tokens : \A p \in tok.perms :
        p \in PermissionsOf(tok.sub) \/ lost[tok.sub][p] >= tok.asked

(* A token outlives the row of its user, and handlers find the user by sub: it
   never becomes the token of somebody who signed up later. *)
TokenNamesItsUser ==
    \A tok \in tokens : tok.sub \in users => account[tok.sub] = tok.account

(* insert counts after inserting, in another statement: there is never a
   second user who became admin by being the first. *)
OneSelfMadeAdmin == Cardinality(selfMade \cap users) <= 1

(* There are users, nobody is between INSERT and COUNT, and neither the role
   admin nor the last admin was removed on request. *)
SetUp ==
    /\ users # {} /\ ROLE_ID_ADMIN \in roles /\ ~dismissed
    /\ \A w \in Workers : worker[w].pc \notin {"count", "admin"}

(* Once setup_required is false, somebody is admin, unless the first signups
   overlapped or one failed halfway. *)
AdminUnlessInterrupted ==
    SetUp /\ ~interrupted => \E u \in users : <<u, ROLE_ID_ADMIN>> \in grants

(* The same when the first signups may overlap. *)
SetupMakesAdmin ==
    SetUp => \E u \in users : <<u, ROLE_ID_ADMIN>> \in grants

(* A password that was changed stays changed, although the other updates write
   the whole row back: only a handler that had a copy of the row at that moment
   brings the old one back. *)
PasswordKeptUnlessRaced ==
    \A u \in users \ racedPw : pw[u] = ackedPw[u]
=============================================================================
