-------------------------- MODULE UserAccessProofs --------------------------
(***************************************************************************)
(* Proofs about UserAccess, for every set of names, roles and handlers and  *)
(* every bound.                                                             *)
(***************************************************************************)
EXTENDS UserAccess, FiniteSetTheorems, TLAPS

(* Handlers that are going to take an id.  Each stands for a request that has
   not got one yet, so the ids never run out of UserIds. *)
Inserting == {w \in Workers : worker[w].pc = "insert"}
Counted ==
    /\ IsFiniteSet(Inserting)
    /\ nextUser - 1 + Cardinality(Inserting) <= requests
    /\ requests <= MaxRequests /\ nextRole <= requests + 2

(* AUTOINCREMENT: nobody knows an id that has not been given out. *)
Fresh ==
    /\ nextUser >= 1 /\ nextRole >= 2
    /\ \A u \in users \cup selfMade : u < nextUser
    /\ \A r \in roles : r < nextRole
    /\ \A w \in Workers : worker[w].id < nextUser
    /\ \A tok \in tokens : tok.sub < nextUser

(* Whoever is going to issue a token has found a user. *)
FoundUser == \A w \in Workers : worker[w].pc \in {"permissions", "issue"} => worker[w].id # 0

TypeInv == UserTypeOK /\ Counted /\ Fresh /\ FoundUser

LEMMA IdleType == Idle \in WorkerStates /\ Idle.pc = "idle" /\ Idle.id = 0
BY DEF Idle, WorkerStates, NoName

LEMMA PermissionsType ==
    ASSUME UserTypeOK, NEW u PROVE PermissionsOf(u) \in SUBSET Permissions
<1>1. \A r \in roles : perm[r] \in SUBSET Permissions
    BY DEF UserTypeOK
<1> QED BY <1>1, Zenon DEF PermissionsOf

LEMMA NoteLostType ==
    ASSUME UserTypeOK, NoteLost PROVE lost' \in [UserIds -> [Permissions -> Nat \cup {Never}]]
<1> DEFINE Entry(u, p) == IF p \in PermissionsOf(u) \ PermissionsOf(u)' THEN now ELSE lost[u][p]
<1>1. lost' = [u \in UserIds |-> [p \in Permissions |-> Entry(u, p)]]
    BY DEF NoteLost
<1>2. \A u \in UserIds, p \in Permissions : Entry(u, p) \in Nat \cup {Never}
    BY UserBounds DEF UserTypeOK
<1> HIDE DEF Entry
<1> QED BY <1>1, <1>2

(* The handler of w goes on in state s. *)
LEMMA MoveType ==
    ASSUME TypeInv, NEW w \in Workers, NEW s \in WorkerStates, worker' = [worker EXCEPT ![w] = s],
           nextUser' \in Nat, nextUser <= nextUser', s.id < nextUser',
           s.pc \in {"permissions", "issue"} => s.id # 0
    PROVE  /\ worker' \in [Workers -> WorkerStates] /\ FoundUser'
           /\ \A x \in Workers : worker'[x].id < nextUser'
<1>1. worker \in [Workers -> WorkerStates] /\ nextUser \in Nat
    BY DEF TypeInv, UserTypeOK
<1>2. worker' \in [Workers -> WorkerStates] /\ FoundUser'
    BY <1>1 DEF TypeInv, FoundUser
<1>3. ASSUME NEW x \in Workers PROVE worker'[x].id < nextUser'
    <2>1. CASE x = w
        BY <1>1, <2>1
    <2>2. CASE x # w
        <3>1. worker'[x] = worker[x] /\ worker[x].id \in Int
            BY <1>1, <2>2 DEF WorkerStates, UserIds
        <3>2. worker[x].id < nextUser
            BY DEF TypeInv, Fresh
        <3> QED BY <1>1, <3>1, <3>2
    <2> QED BY <2>1, <2>2
<1> QED BY <1>2, <1>3

(* How the number of handlers that wait for an id changes. *)
LEMMA MoveCount ==
    ASSUME TypeInv, NEW w \in Workers, NEW s, worker' = [worker EXCEPT ![w] = s]
    PROVE  /\ IsFiniteSet(Inserting') /\ Cardinality(Inserting) \in Nat /\ Cardinality(Inserting') \in Nat
           /\ Cardinality(Inserting') <= Cardinality(Inserting) + 1
           /\ s.pc # "insert" => Cardinality(Inserting') <= Cardinality(Inserting)
           /\ s.pc # "insert" /\ worker[w].pc = "insert" => Cardinality(Inserting') = Cardinality(Inserting) - 1
<1>1. worker \in [Workers -> WorkerStates] /\ IsFiniteSet(Inserting)
    BY DEF TypeInv, UserTypeOK, Counted
<1>2. Inserting' = IF s.pc = "insert" THEN Inserting \cup {w} ELSE Inserting \ {w}
    BY <1>1 DEF Inserting
<1>3. w \in Inserting <=> worker[w].pc = "insert"
    BY DEF Inserting
<1>4. /\ IsFiniteSet(Inserting \cup {w}) /\ IsFiniteSet(Inserting \ {w})
      /\ Cardinality(Inserting \cup {w}) = IF w \in Inserting THEN Cardinality(Inserting) ELSE Cardinality(Inserting) + 1
      /\ Cardinality(Inserting \ {w}) = IF w \in Inserting THEN Cardinality(Inserting) - 1 ELSE Cardinality(Inserting)
    BY <1>1, FS_AddElement, FS_RemoveElement
<1>5. Cardinality(Inserting) \in Nat /\ IsFiniteSet(Inserting')
    BY <1>1, <1>2, <1>4, FS_CardinalityType
<1>6. Cardinality(Inserting') \in Nat
    BY <1>5, FS_CardinalityType
<1>7. CASE s.pc = "insert"
    BY <1>2, <1>3, <1>4, <1>5, <1>6, <1>7
<1>8. CASE s.pc # "insert"
    BY <1>2, <1>3, <1>4, <1>5, <1>6, <1>8
<1> QED BY <1>7, <1>8

(* A handler moves on and waits for no id; no row is added. *)
LEMMA StepType ==
    ASSUME TypeInv, NEW w \in Workers, NEW s \in WorkerStates, worker' = [worker EXCEPT ![w] = s],
           s.pc # "insert", s.id < nextUser, s.pc \in {"permissions", "issue"} => s.id # 0,
           UNCHANGED <<nextUser, nextRole, requests>>
    PROVE  worker' \in [Workers -> WorkerStates] /\ FoundUser' /\ Counted'
           /\ \A x \in Workers : worker'[x].id < nextUser'
<1>1. /\ nextUser \in Nat /\ requests \in Nat /\ nextRole \in Nat
      /\ nextUser' \in Nat /\ nextUser <= nextUser' /\ s.id < nextUser'
    BY DEF TypeInv, UserTypeOK
<1>2. worker' \in [Workers -> WorkerStates] /\ FoundUser' /\ \A x \in Workers : worker'[x].id < nextUser'
    BY <1>1, MoveType
<1>3. Counted'
    <2>1. /\ IsFiniteSet(Inserting') /\ Cardinality(Inserting) \in Nat /\ Cardinality(Inserting') \in Nat
          /\ Cardinality(Inserting') <= Cardinality(Inserting)
        BY MoveCount
    <2> QED BY <1>1, <2>1, UserBounds DEF TypeInv, Counted
<1> QED BY <1>2, <1>3

LEMMA ReturnType ==
    ASSUME TypeInv, NEW w \in Workers, Return(w), UNCHANGED <<nextUser, nextRole, requests>>
    PROVE  worker' \in [Workers -> WorkerStates] /\ FoundUser' /\ Counted'
           /\ \A x \in Workers : worker'[x].id < nextUser'
<1>1. Idle.pc # "insert" /\ Idle.id < nextUser /\ Idle.pc \notin {"permissions", "issue"}
    BY IdleType DEF TypeInv, UserTypeOK, Fresh
<1> QED BY <1>1, IdleType, StepType DEF Return

LEMMA GotoType ==
    ASSUME TypeInv, NEW w \in Workers, NEW p \in {"admin", "roles", "find"}, Goto(w, p),
           UNCHANGED <<nextUser, nextRole, requests>>
    PROVE  worker' \in [Workers -> WorkerStates] /\ FoundUser' /\ Counted'
           /\ \A x \in Workers : worker'[x].id < nextUser'
<1>1. worker[w] \in WorkerStates /\ worker[w].id < nextUser
    BY DEF TypeInv, UserTypeOK, Fresh
<1> DEFINE s == [worker[w] EXCEPT !.pc = p]
<1>2. s \in WorkerStates /\ s.pc = p /\ s.id = worker[w].id
    BY <1>1 DEF WorkerStates
<1>3. worker' = [worker EXCEPT ![w] = s]
    BY DEF Goto
<1> QED BY <1>1, <1>2, <1>3, StepType

(* The start of every handler. *)
LEMMA BeginType ==
    ASSUME TypeInv, NEW w \in Workers,
           NEW op \in {"signup", "create", "login", "refresh", "rename", "password", "edit"},
           NEW p \in {"insert", "find", "conflict"}, NEW id \in UserIds \cup {0}, id < nextUser,
           NEW n \in Names \cup {NoName}, NEW password \in Nat, NEW todo \in SUBSET RoleIds,
           Begin(w, op, p, id, n, password, todo)
    PROVE  TypeInv'
<1> DEFINE s == [Idle EXCEPT !.op = op, !.pc = p, !.id = id, !.name = n,
                             !.pw = password, !.todo = todo, !.asked = now]
<1>1. worker' = [worker EXCEPT ![w] = s]
    BY DEF Begin
<1>2. now \in Nat /\ nextUser \in Nat /\ requests \in Nat /\ nextRole \in Nat
    BY UserBounds DEF TypeInv, UserTypeOK
<1>3. s \in WorkerStates /\ s.pc = p /\ s.id = id
    BY <1>2, IdleType DEF WorkerStates, Idle
<1>4. UNCHANGED <<tables, tokens, now, faults, tokenHistory, pwHistory, adminHistory>>
    BY DEF Begin
<1>5. requests < MaxRequests /\ requests' = requests + 1
    BY DEF Begin, Request
<1>6. worker' \in [Workers -> WorkerStates] /\ FoundUser' /\ \A x \in Workers : worker'[x].id < nextUser'
    <2>1. nextUser' \in Nat /\ nextUser <= nextUser' /\ s.id < nextUser'
        BY <1>2, <1>3, <1>4 DEF tables
    <2>2. s.pc \notin {"permissions", "issue"}
        BY <1>3
    <2> HIDE DEF s
    <2> QED BY <1>1, <1>3, <2>1, <2>2, MoveType
<1>7. Counted'
    <2>1. /\ IsFiniteSet(Inserting') /\ Cardinality(Inserting) \in Nat /\ Cardinality(Inserting') \in Nat
          /\ Cardinality(Inserting') <= Cardinality(Inserting) + 1
        BY <1>1, MoveCount
    <2> QED BY <1>2, <1>4, <1>5, <2>1, UserBounds DEF TypeInv, Counted, tables
<1>8. UserTypeOK'
    BY <1>2, <1>4, <1>5, <1>6 DEF TypeInv, UserTypeOK, tables, tokenHistory, pwHistory, adminHistory
<1>9. Fresh'
    BY <1>4, <1>6 DEF TypeInv, Fresh, tables, adminHistory
<1> QED BY <1>6, <1>7, <1>8, <1>9 DEF TypeInv

(* A handler's step that adds no user and no role, and issues no token. *)
LEMMA WorkerStepType ==
    ASSUME TypeInv, NEW w \in Workers, NEW s \in WorkerStates, worker' = [worker EXCEPT ![w] = s],
           s.pc # "insert", s.id < nextUser, s.pc \in {"permissions", "issue"} => s.id # 0,
           UNCHANGED <<users, nextUser, roles, perm, nextRole, tokens, now, requests, tokenHistory>>,
           name' \in [UserIds -> Names \cup {NoName}], pw' \in [UserIds -> Nat],
           grants' \subseteq users \X roles, faults' \in Nat,
           ackedPw' \in [UserIds -> Nat], racedPw' \subseteq UserIds,
           selfMade' \subseteq selfMade \cup users, interrupted' \in BOOLEAN, dismissed' \in BOOLEAN
    PROVE  TypeInv'
<1>1. worker' \in [Workers -> WorkerStates] /\ FoundUser' /\ Counted'
      /\ \A x \in Workers : worker'[x].id < nextUser'
    BY StepType
<1>2. UserTypeOK'
    BY <1>1 DEF TypeInv, UserTypeOK, tokenHistory
<1>3. Fresh'
    BY <1>1 DEF TypeInv, Fresh
<1> QED BY <1>1, <1>2, <1>3 DEF TypeInv

(* The same when only the handler moves. *)
LEMMA QuietStepType ==
    ASSUME TypeInv, NEW w \in Workers, NEW s \in WorkerStates, worker' = [worker EXCEPT ![w] = s],
           s.pc # "insert", s.id < nextUser, s.pc \in {"permissions", "issue"} => s.id # 0,
           UNCHANGED <<tables, tokens, now, requests, faults, tokenHistory, pwHistory, adminHistory>>
    PROVE  TypeInv'
<1>1. UNCHANGED <<users, nextUser, roles, perm, nextRole, tokens, now, requests, tokenHistory>>
    BY DEF tables
<1>2. /\ name' \in [UserIds -> Names \cup {NoName}] /\ pw' \in [UserIds -> Nat]
      /\ grants' \subseteq users \X roles /\ faults' \in Nat
      /\ ackedPw' \in [UserIds -> Nat] /\ racedPw' \subseteq UserIds
      /\ selfMade' \subseteq selfMade \cup users /\ interrupted' \in BOOLEAN /\ dismissed' \in BOOLEAN
    BY DEF TypeInv, UserTypeOK, tables, pwHistory, adminHistory
<1> QED BY <1>1, <1>2, WorkerStepType

(* INSERT takes the next id: there is one, because this request counts. *)
LEMMA InsertType == ASSUME TypeInv, NEW w \in Workers, InsertUser(w) PROVE TypeInv'
<1>0. worker[w] \in WorkerStates /\ worker[w].pc = "insert"
    BY DEF TypeInv, UserTypeOK, InsertUser
<1>1. CASE ~NameFree(0, worker[w].name)
    <2>1. UNCHANGED <<tables, tokens, now, requests, faults, tokenHistory, pwHistory, adminHistory>> /\ Return(w)
        BY <1>1 DEF InsertUser, tables, tokenHistory, pwHistory, adminHistory
    <2>2. Idle.pc # "insert" /\ Idle.id < nextUser /\ Idle.pc \notin {"permissions", "issue"}
        BY IdleType DEF TypeInv, UserTypeOK, Fresh
    <2> QED BY <2>1, <2>2, IdleType, QuietStepType DEF Return
<1>2. CASE NameFree(0, worker[w].name)
    <2> DEFINE s == [worker[w] EXCEPT !.pc = "count", !.id = nextUser]
    <2>1. nextUser \in Nat /\ nextUser >= 1 /\ requests \in Nat /\ requests <= MaxRequests /\ MaxRequests \in Nat
        BY UserBounds DEF TypeInv, UserTypeOK, Counted, Fresh
    <2>2. worker' = [worker EXCEPT ![w] = s] /\ s.pc = "count" /\ s.id = nextUser
        BY <1>0, <1>2 DEF InsertUser, last_insert_rowid, WorkerStates
    <2>3. /\ IsFiniteSet(Inserting') /\ Cardinality(Inserting) \in Nat /\ Cardinality(Inserting') \in Nat
          /\ Cardinality(Inserting') = Cardinality(Inserting) - 1
        BY <1>0, <2>2, MoveCount
    <2>4. nextUser \in UserIds
        BY <2>1, <2>3 DEF TypeInv, Counted, UserIds
    <2>5. nextUser' = nextUser + 1 /\ users' = users \cup {nextUser}
        BY <1>2 DEF InsertUser, last_insert_rowid
    <2>6. s \in WorkerStates
        BY <1>0, <2>4 DEF WorkerStates
    <2>7. worker' \in [Workers -> WorkerStates] /\ FoundUser' /\ \A x \in Workers : worker'[x].id < nextUser'
        <3>1. nextUser' \in Nat /\ nextUser <= nextUser' /\ s.id < nextUser'
            BY <2>1, <2>2, <2>5
        <3>2. s.pc \notin {"permissions", "issue"}
            BY <2>2
        <3> HIDE DEF s
        <3> QED BY <2>2, <2>6, <3>1, <3>2, MoveType
    <2>8. UNCHANGED <<roles, perm, nextRole, grants, tokens, now, requests, faults, lost, racedPw, selfMade, dismissed>>
        BY DEF InsertUser
    <2>9. Counted'
        BY <2>1, <2>3, <2>5, <2>8 DEF TypeInv, Counted
    <2>10. Fresh'
        <3>1. \A u \in users' \cup selfMade' : u < nextUser'
            BY <2>1, <2>5, <2>8 DEF TypeInv, UserTypeOK, Fresh, UserIds
        <3>2. \A tok \in tokens' : tok.sub < nextUser'
            BY <2>1, <2>5, <2>8 DEF TypeInv, UserTypeOK, Fresh, Token, UserIds
        <3> QED BY <2>1, <2>5, <2>7, <2>8, <3>1, <3>2 DEF TypeInv, Fresh
    <2>11. worker[w].name \in Names \cup {NoName} /\ worker[w].pw \in Nat
        BY <1>0 DEF WorkerStates
    <2>12. /\ name' \in [UserIds -> Names \cup {NoName}] /\ pw' \in [UserIds -> Nat]
           /\ account' \in [UserIds -> Nat] /\ ackedPw' \in [UserIds -> Nat]
        BY <1>2, <2>4, <2>11 DEF InsertUser, last_insert_rowid, TypeInv, UserTypeOK
    <2>13. interrupted' \in BOOLEAN
        BY <1>2 DEF InsertUser
    <2>14. UserTypeOK'
        BY <2>1, <2>4, <2>5, <2>7, <2>8, <2>12, <2>13 DEF TypeInv, UserTypeOK
    <2> QED BY <2>7, <2>9, <2>10, <2>14 DEF TypeInv
<1> QED BY <1>1, <1>2

LEMMA AddRoleType ==
    ASSUME TypeInv, NEW u, NEW r, AddRole(u, r) PROVE grants' \subseteq users \X roles
BY DEF AddRole, TypeInv, UserTypeOK

(* What the handlers of w can do after their first statement. *)
LEMMA WorkerType == ASSUME TypeInv, NEW w \in Workers, WorkerStep(w) PROVE TypeInv'
<1>0. /\ worker[w] \in WorkerStates /\ worker[w].id < nextUser /\ nextUser \in Nat
      /\ worker[w].pc \in {"permissions", "issue"} => worker[w].id # 0
    BY DEF TypeInv, UserTypeOK, Fresh, FoundUser
<1>01. Idle.pc # "insert" /\ Idle.id < nextUser /\ Idle.pc \notin {"permissions", "issue"}
    BY IdleType DEF TypeInv, UserTypeOK, Fresh
<1> DEFINE Quiet == UNCHANGED <<tables, tokens, now, requests, faults, tokenHistory, pwHistory, adminHistory>>
           At(p) == [worker[w] EXCEPT !.pc = p]
<1>02. ASSUME Quiet, Return(w) PROVE TypeInv'
    BY <1>01, <1>02, IdleType, QuietStepType DEF Return
<1>03. ASSUME NEW p \in {"admin", "roles", "find"}
       PROVE  At(p) \in WorkerStates /\ At(p).pc = p /\ At(p).id = worker[w].id
    BY <1>0 DEF WorkerStates
<1>04. ASSUME NEW p \in {"admin", "roles", "find"}, Quiet, Goto(w, p) PROVE TypeInv'
    <2>1. At(p) \in WorkerStates /\ At(p).pc = p /\ At(p).id = worker[w].id /\ worker' = [worker EXCEPT ![w] = At(p)]
        BY <1>03, <1>04 DEF Goto
    <2>2. At(p).pc # "insert" /\ At(p).pc \notin {"permissions", "issue"} /\ At(p).id < nextUser
        BY <1>0, <2>1
    <2> HIDE DEF At
    <2> QED BY <1>04, <2>1, <2>2, QuietStepType
<1>1. CASE InsertUser(w)
    BY <1>1, InsertType
<1>2. CASE CountUsers(w)
    BY <1>2, <1>04 DEF CountUsers
<1>3. CASE MakeAdmin(w)
    <2>1. PICK s \in WorkerStates : /\ worker' = [worker EXCEPT ![w] = s] /\ s.pc # "insert" /\ s.id < nextUser
                                    /\ s.pc \notin {"permissions", "issue"}
        <3>1. CASE Return(w)
            BY <1>01, <3>1, IdleType DEF Return
        <3>2. CASE Goto(w, "roles")
            <4>1. At("roles") \in WorkerStates /\ At("roles").pc = "roles" /\ At("roles").id = worker[w].id
                BY <1>03
            <4>2. worker' = [worker EXCEPT ![w] = At("roles")]
                BY <3>2 DEF Goto
            <4> HIDE DEF At
            <4> QED BY <1>0, <4>1, <4>2
        <3> QED BY <1>3, <3>1, <3>2 DEF MakeAdmin
    <2>2. grants' \subseteq users \X roles
        BY <1>3, AddRoleType DEF MakeAdmin
    <2>3. selfMade' \subseteq selfMade \cup users
        BY <1>3 DEF MakeAdmin
    <2>4. UNCHANGED <<users, name, pw, nextUser, roles, perm, nextRole, tokens, now, requests, faults,
                      tokenHistory, pwHistory, interrupted, dismissed>>
        BY <1>3 DEF MakeAdmin
    <2>5. /\ name' \in [UserIds -> Names \cup {NoName}] /\ pw' \in [UserIds -> Nat] /\ faults' \in Nat
          /\ ackedPw' \in [UserIds -> Nat] /\ racedPw' \subseteq UserIds
          /\ interrupted' \in BOOLEAN /\ dismissed' \in BOOLEAN
        BY <2>4 DEF TypeInv, UserTypeOK, pwHistory
    <2> QED BY <2>1, <2>2, <2>3, <2>4, <2>5, WorkerStepType
<1>4. CASE AddRequestedRole(w)
    <2>1. PICK s \in WorkerStates : /\ worker' = [worker EXCEPT ![w] = s] /\ s.pc # "insert" /\ s.id < nextUser
                                    /\ s.pc \notin {"permissions", "issue"}
        <3>1. CASE Return(w)
            BY <1>01, <3>1, IdleType DEF Return
        <3>2. ASSUME NEW r, worker' = [worker EXCEPT ![w].todo = @ \ {r}]
              PROVE  \E s \in WorkerStates : /\ worker' = [worker EXCEPT ![w] = s] /\ s.pc # "insert"
                                             /\ s.id < nextUser /\ s.pc \notin {"permissions", "issue"}
            <4> DEFINE s == [worker[w] EXCEPT !.todo = @ \ {r}]
            <4>1. s \in WorkerStates /\ s.pc = worker[w].pc /\ s.id = worker[w].id
                BY <1>0 DEF WorkerStates
            <4>2. worker' = [worker EXCEPT ![w] = s] /\ worker[w].pc = "roles"
                BY <1>4, <3>2 DEF AddRequestedRole
            <4> HIDE DEF s
            <4> QED BY <1>0, <4>1, <4>2
        <3> QED BY <1>4, <3>1, <3>2 DEF AddRequestedRole
    <2>2. grants' \subseteq users \X roles
        BY <1>4, AddRoleType DEF AddRequestedRole, TypeInv, UserTypeOK
    <2>3. UNCHANGED <<users, name, pw, nextUser, roles, perm, nextRole, tokens, now, requests, faults,
                      tokenHistory, pwHistory, selfMade, interrupted, dismissed>>
        BY <1>4 DEF AddRequestedRole, adminHistory
    <2>4. /\ name' \in [UserIds -> Names \cup {NoName}] /\ pw' \in [UserIds -> Nat] /\ faults' \in Nat
          /\ ackedPw' \in [UserIds -> Nat] /\ racedPw' \subseteq UserIds
          /\ selfMade' \subseteq selfMade \cup users /\ interrupted' \in BOOLEAN /\ dismissed' \in BOOLEAN
        BY <2>3 DEF TypeInv, UserTypeOK, pwHistory
    <2> QED BY <2>1, <2>2, <2>3, <2>4, WorkerStepType
<1>5. CASE FindForToken(w)
    <2>1. ASSUME NEW u \in FindRow(w),
                 worker' = [worker EXCEPT ![w].pc = "permissions", ![w].id = u, ![w].account = account[u]]
          PROVE  TypeInv'
        <3> DEFINE s == [worker[w] EXCEPT !.pc = "permissions", !.id = u, !.account = account[u]]
        <3>1. u \in users /\ u \in UserIds /\ u < nextUser /\ u # 0 /\ account[u] \in Nat
            BY DEF FindRow, TypeInv, UserTypeOK, Fresh, UserIds
        <3>2. s \in WorkerStates /\ s.pc = "permissions" /\ s.id = u
            BY <1>0, <3>1 DEF WorkerStates
        <3>3. worker' = [worker EXCEPT ![w] = s]
            BY <2>1
        <3> HIDE DEF s
        <3> QED BY <1>5, <3>1, <3>2, <3>3, QuietStepType DEF FindForToken
    <2> QED BY <1>5, <1>02, <2>1 DEF FindForToken
<1>6. CASE LoadPermissions(w)
    <2> DEFINE s == [worker[w] EXCEPT !.pc = "issue", !.perms = PermissionsOf(worker[w].id)]
    <2>1. PermissionsOf(worker[w].id) \in SUBSET Permissions /\ worker[w].id # 0
        BY <1>0, <1>6, PermissionsType DEF TypeInv, LoadPermissions
    <2>2. s \in WorkerStates /\ s.pc = "issue" /\ s.id = worker[w].id
        BY <1>0, <2>1 DEF WorkerStates
    <2>3. worker' = [worker EXCEPT ![w] = s]
        BY <1>6 DEF LoadPermissions
    <2> HIDE DEF s
    <2> QED BY <1>0, <1>6, <2>1, <2>2, <2>3, QuietStepType DEF LoadPermissions
<1>7. CASE IssueToken(w)
    <2> DEFINE tk == [sub |-> worker[w].id, perms |-> worker[w].perms, exp |-> now + Ttl,
                      account |-> worker[w].account, asked |-> worker[w].asked]
    <2>1. tokens' = tokens \cup {tk} /\ Return(w)
        BY <1>7 DEF IssueToken
    <2>2. UNCHANGED <<tables, now, requests, faults, tokenHistory, pwHistory, adminHistory>>
        BY <1>7 DEF IssueToken
    <2>3. tk \in Token /\ tk.sub < nextUser
        BY <1>0, <1>7, UserBounds DEF IssueToken, WorkerStates, Token, TypeInv, UserTypeOK
    <2>4. worker' \in [Workers -> WorkerStates] /\ FoundUser' /\ Counted'
          /\ \A x \in Workers : worker'[x].id < nextUser'
        BY <2>1, <2>2, ReturnType DEF tables
    <2> HIDE DEF tk
    <2>5. UserTypeOK'
        BY <2>1, <2>2, <2>3, <2>4 DEF TypeInv, UserTypeOK, tables, tokenHistory, pwHistory, adminHistory
    <2>6. Fresh'
        BY <2>1, <2>2, <2>3, <2>4 DEF TypeInv, Fresh, tables, adminHistory
    <2> QED BY <2>4, <2>5, <2>6 DEF TypeInv
<1>8. CASE CheckConflict(w)
    BY <1>8, <1>02, <1>04 DEF CheckConflict
<1>9. CASE FindForUpdate(w)
    <2>1. ASSUME worker[w].id \in users, worker' = [worker EXCEPT ![w].pc = "write", ![w].old = pw[worker[w].id]]
          PROVE  TypeInv'
        <3> DEFINE s == [worker[w] EXCEPT !.pc = "write", !.old = pw[worker[w].id]]
        <3>1. pw[worker[w].id] \in Nat
            BY <2>1 DEF TypeInv, UserTypeOK
        <3>2. s \in WorkerStates /\ s.pc = "write" /\ s.id = worker[w].id
            BY <1>0, <3>1 DEF WorkerStates
        <3>3. worker' = [worker EXCEPT ![w] = s]
            BY <2>1
        <3> HIDE DEF s
        <3> QED BY <1>0, <1>9, <3>2, <3>3, QuietStepType DEF FindForUpdate
    <2> QED BY <1>9, <1>02, <2>1 DEF FindForUpdate
<1>10. CASE WriteUser(w)
    <2> DEFINE u == worker[w].id
               new == worker[w].pw
    <2>1. Return(w)
        BY <1>10 DEF WriteUser
    <2>2. UNCHANGED <<users, nextUser, roles, perm, nextRole, grants, tokens, now, requests, faults,
                      tokenHistory, selfMade, interrupted, dismissed>>
        BY <1>10 DEF WriteUser, adminHistory
    <2>3. /\ name' \in [UserIds -> Names \cup {NoName}] /\ pw' \in [UserIds -> Nat]
          /\ ackedPw' \in [UserIds -> Nat] /\ racedPw' \subseteq UserIds
        <3>0. /\ name \in [UserIds -> Names \cup {NoName}] /\ pw \in [UserIds -> Nat]
              /\ ackedPw \in [UserIds -> Nat] /\ racedPw \subseteq UserIds /\ users \subseteq UserIds
            BY DEF TypeInv, UserTypeOK
        <3>1. CASE u \in users /\ (worker[w].op = "password" \/ NameFree(u, worker[w].name))
            <4>1. u \in UserIds /\ new \in Nat /\ worker[w].old \in Nat /\ worker[w].name \in Names \cup {NoName}
                BY <1>0, <3>0, <3>1 DEF WorkerStates
            <4>2. /\ name' = [name EXCEPT ![u] = IF worker[w].op = "password" THEN @ ELSE worker[w].name]
                  /\ pw' = [pw EXCEPT ![u] = IF new = 0 THEN worker[w].old ELSE new]
                  /\ NotePassword(w, u, new)
                BY <1>10, <3>1 DEF WriteUser
            <4>3. ackedPw' \in [UserIds -> Nat] /\ racedPw' \subseteq UserIds
                BY <3>0, <4>1, <4>2 DEF NotePassword, pwHistory
            <4> QED BY <3>0, <4>1, <4>2, <4>3
        <3>2. CASE ~(u \in users /\ (worker[w].op = "password" \/ NameFree(u, worker[w].name)))
            BY <1>10, <3>0, <3>2 DEF WriteUser, pwHistory
        <3> QED BY <3>1, <3>2
    <2>4. /\ grants' \subseteq users \X roles /\ faults' \in Nat
          /\ selfMade' \subseteq selfMade \cup users /\ interrupted' \in BOOLEAN /\ dismissed' \in BOOLEAN
        BY <2>2 DEF TypeInv, UserTypeOK
    <2> QED BY <1>01, <2>1, <2>2, <2>3, <2>4, IdleType, WorkerStepType DEF Return
<1> QED BY <1>1, <1>2, <1>3, <1>4, <1>5, <1>6, <1>7, <1>8, <1>9, <1>10 DEF WorkerStep

(* A request that changes the tables at once. *)
LEMMA TableStepType ==
    ASSUME TypeInv, Request, UNCHANGED <<name, pw, nextUser, tokens, worker, now, faults, account, pwHistory,
                                         selfMade, interrupted>>,
           users' \subseteq users, roles' \subseteq roles \/ roles' = roles \cup {nextRole},
           nextRole' \in {nextRole, nextRole + 1}, roles' \subseteq roles \/ nextRole' = nextRole + 1,
           roles' \subseteq RoleIds,
           perm' \in [RoleIds -> SUBSET Permissions], grants' \subseteq users' \X roles',
           lost' \in [UserIds -> [Permissions -> Nat \cup {Never}]], dismissed' \in BOOLEAN
    PROVE  TypeInv'
<1>1. nextUser \in Nat /\ nextRole \in Nat /\ requests \in Nat /\ MaxRequests \in Nat
    BY UserBounds DEF TypeInv, UserTypeOK
<1>2. UserTypeOK'
    BY <1>1 DEF TypeInv, UserTypeOK, Request, pwHistory
<1>3. Fresh'
    <2>1. \A r \in roles : r \in Int /\ r < nextRole
        BY DEF TypeInv, UserTypeOK, Fresh, RoleIds
    <2>2. \A r \in roles' : r < nextRole'
        BY <1>1, <2>1
    <2>3. nextUser' >= 1 /\ nextRole' >= 2
        BY <1>1 DEF TypeInv, Fresh
    <2>4. /\ \A u \in users' \cup selfMade' : u < nextUser'
          /\ \A w \in Workers : worker'[w].id < nextUser'
          /\ \A tok \in tokens' : tok.sub < nextUser'
        BY DEF TypeInv, Fresh
    <2> QED BY <2>2, <2>3, <2>4 DEF Fresh
<1>4. Inserting' = Inserting
    BY DEF Inserting
<1>5. Cardinality(Inserting) \in Nat
    BY FS_CardinalityType DEF TypeInv, Counted
<1>6. Counted'
    BY <1>1, <1>4, <1>5 DEF TypeInv, Counted, Request
<1>7. FoundUser'
    BY DEF TypeInv, FoundUser
<1> QED BY <1>2, <1>3, <1>6, <1>7 DEF TypeInv

LEMMA AuthorizedType == ASSUME TypeInv, NEW tok \in tokens, Authorized(tok) PROVE TypeInv'
<1>0. /\ tok.sub \in UserIds /\ tok.sub < nextUser /\ NewPassword \in Nat /\ 0 \in Nat
      /\ users \subseteq UserIds /\ roles \subseteq RoleIds
      /\ \A u \in users : u < nextUser
      /\ grants \subseteq users \X roles /\ perm \in [RoleIds -> SUBSET Permissions]
      /\ lost \in [UserIds -> [Permissions -> Nat \cup {Never}]] /\ dismissed \in BOOLEAN
    BY DEF TypeInv, UserTypeOK, Fresh, Token, NewPassword
<1>01. NoName \in Names \cup {NoName} /\ tok.sub \in UserIds \cup {0} /\ {} \in SUBSET RoleIds
    BY <1>0
<1>1. ASSUME NEW w \in Workers, RefreshToken(w, tok) \/ UpdatePassword(w, tok) PROVE TypeInv'
    <2>1. CASE RefreshToken(w, tok)
        <3>1. Begin(w, "refresh", "find", tok.sub, NoName, 0, {})
            BY <2>1 DEF RefreshToken
        <3> QED BY <1>0, <1>01, <3>1, BeginType
    <2>2. CASE UpdatePassword(w, tok)
        <3>1. Begin(w, "password", "find", tok.sub, NoName, NewPassword, {})
            BY <2>2 DEF UpdatePassword
        <3> QED BY <1>0, <1>01, <3>1, BeginType
    <2> QED BY <1>1, <2>1, <2>2
<1>2. ASSUME NEW w \in Workers, NEW n \in Names, UpdateMe(w, tok, n) PROVE TypeInv'
    BY <1>0, <1>2, BeginType DEF UpdateMe
<1>3. ASSUME NEW w \in Workers, NEW n \in Names, NEW r \in roles, CreateUser(w, tok, n, {r}) PROVE TypeInv'
    <2> DEFINE todo == IF require_permission(tok, "role/assign") THEN {r} ELSE {}
    <2>1. todo \in SUBSET RoleIds /\ 0 < nextUser
        BY <1>0 DEF TypeInv, UserTypeOK, Fresh
    <2>2. Begin(w, "create", "insert", 0, n, NewPassword, todo)
        BY <1>3 DEF CreateUser
    <2> HIDE DEF todo
    <2> QED BY <1>0, <2>1, <2>2, BeginType
<1>4. ASSUME NEW w \in Workers, NEW n \in Names, NEW u \in users, NEW p \in {0, NewPassword},
             UpdateUser(w, tok, u, n, p)
      PROVE  TypeInv'
    BY <1>0, <1>4, BeginType DEF UpdateUser
<1>5. ASSUME NEW u \in users, DeleteUser(tok, u) PROVE TypeInv'
    <2>1. lost' \in [UserIds -> [Permissions -> Nat \cup {Never}]]
        BY <1>5, NoteLostType DEF DeleteUser, TypeInv
    <2>2. /\ users' \subseteq users /\ grants' \subseteq users' \X roles' /\ dismissed' \in BOOLEAN
          /\ roles' = roles /\ perm' = perm /\ nextRole' = nextRole
        BY <1>0, <1>5 DEF DeleteUser
    <2> QED BY <1>0, <1>5, <2>1, <2>2, TableStepType DEF DeleteUser
<1>6. ASSUME NEW u \in users, NEW r \in roles, AssignRole(tok, u, r) PROVE TypeInv'
    <2>1. grants' \subseteq users' \X roles'
        BY <1>6, AddRoleType DEF AssignRole
    <2> QED BY <1>0, <1>6, <2>1, TableStepType DEF AssignRole, tokenHistory, adminHistory
<1>7. ASSUME NEW u \in users, NEW r \in roles, UnassignRole(tok, u, r) PROVE TypeInv'
    <2>1. lost' \in [UserIds -> [Permissions -> Nat \cup {Never}]]
        BY <1>7, NoteLostType DEF UnassignRole, TypeInv
    <2>2. grants' \subseteq users' \X roles' /\ dismissed' \in BOOLEAN
        BY <1>0, <1>7 DEF UnassignRole
    <2> QED BY <1>0, <1>7, <2>1, <2>2, TableStepType DEF UnassignRole
<1>8. ASSUME NEW ps \in RolePerms, CreateRole(tok, ps) PROVE TypeInv'
    <2>1. nextRole \in RoleIds
        BY <1>8, UserBounds DEF CreateRole, Request, TypeInv, UserTypeOK, Counted, RoleIds
    <2>2. perm' \in [RoleIds -> SUBSET Permissions] /\ roles' \subseteq RoleIds /\ roles' = roles \cup {nextRole}
        BY <1>0, <1>8, <2>1, RolePermsAssumption DEF CreateRole
    <2>3. grants' \subseteq users' \X roles'
        BY <1>0, <1>8, <2>2 DEF CreateRole
    <2> QED BY <1>0, <1>8, <2>2, <2>3, TableStepType DEF CreateRole, tokenHistory, adminHistory
<1>9. ASSUME NEW ps \in RolePerms, NEW r \in roles, EditRole(tok, r, ps) PROVE TypeInv'
    <2>1. lost' \in [UserIds -> [Permissions -> Nat \cup {Never}]]
        BY <1>9, NoteLostType DEF EditRole, TypeInv
    <2>2. perm' \in [RoleIds -> SUBSET Permissions]
        BY <1>0, <1>9, RolePermsAssumption DEF EditRole
    <2> QED BY <1>0, <1>9, <2>1, <2>2, TableStepType DEF EditRole, adminHistory
<1>10. ASSUME NEW r \in roles, DeleteRole(tok, r) PROVE TypeInv'
    <2>1. grants' \subseteq users' \X roles'
        BY <1>0, <1>10 DEF DeleteRole
    <2>2. roles' \subseteq roles
        BY <1>10 DEF DeleteRole
    <2> QED BY <1>0, <1>10, <2>1, <2>2, TableStepType DEF DeleteRole, tokenHistory, adminHistory
<1> QED BY <1>1, <1>2, <1>3, <1>4, <1>5, <1>6, <1>7, <1>8, <1>9, <1>10 DEF Authorized

LEMMA TypeInvStep == TypeInv /\ [Next]_vars => TypeInv'
<1> SUFFICES ASSUME TypeInv, [Next]_vars PROVE TypeInv'
    OBVIOUS
<1>0. /\ 0 < nextUser /\ NewPassword \in Nat /\ users \subseteq UserIds /\ {} \in SUBSET RoleIds
      /\ name \in [UserIds -> Names \cup {NoName}] /\ pw \in [UserIds -> Nat]
      /\ \A u \in users : u < nextUser
    BY DEF TypeInv, UserTypeOK, Fresh, NewPassword
<1>1. ASSUME NEW w \in Workers, WorkerStep(w) PROVE TypeInv'
    BY <1>1, WorkerType
<1>2. ASSUME NEW w \in Workers, HandlerFails(w) PROVE TypeInv'
    <2>1. Idle.pc # "insert" /\ Idle.id < nextUser /\ Idle.pc \notin {"permissions", "issue"}
        BY <1>0, IdleType
    <2>2. UNCHANGED <<tables, tokens, now, requests, tokenHistory, pwHistory, selfMade, dismissed>> /\ Return(w)
        BY <1>2 DEF HandlerFails
    <2>3. /\ name' \in [UserIds -> Names \cup {NoName}] /\ pw' \in [UserIds -> Nat]
          /\ grants' \subseteq users \X roles /\ faults' \in Nat
          /\ ackedPw' \in [UserIds -> Nat] /\ racedPw' \subseteq UserIds
          /\ selfMade' \subseteq selfMade \cup users /\ interrupted' \in BOOLEAN /\ dismissed' \in BOOLEAN
        BY <1>2, <2>2 DEF HandlerFails, TypeInv, UserTypeOK, tables, pwHistory
    <2>4. UNCHANGED <<users, nextUser, roles, perm, nextRole, tokens, now, requests, tokenHistory>>
        BY <2>2 DEF tables
    <2> QED BY <2>1, <2>2, <2>3, <2>4, IdleType, WorkerStepType DEF Return
<1>3. ASSUME NEW w \in Workers, NEW n \in Names, Signup(w, n) PROVE TypeInv'
    BY <1>0, <1>3, BeginType DEF Signup
<1>4. ASSUME NEW w \in Workers, NEW u \in users, Login(w, u) PROVE TypeInv'
    <2>1. u \in UserIds /\ u < nextUser /\ name[u] \in Names \cup {NoName} /\ pw[u] \in Nat
        BY <1>0
    <2> QED BY <1>0, <1>4, <2>1, BeginType DEF Login
<1>5. ASSUME NEW tok \in tokens, Authorized(tok) PROVE TypeInv'
    BY <1>5, AuthorizedType
<1>6. CASE Tick
    <2>1. tokens' \subseteq tokens /\ now' \in 0..MaxTime
        BY <1>6, UserBounds DEF Tick, TypeInv, UserTypeOK
    <2>2. UNCHANGED <<tables, worker, requests, faults, tokenHistory, pwHistory, adminHistory>>
        BY <1>6 DEF Tick
    <2> QED BY <2>1, <2>2 DEF TypeInv, UserTypeOK, Counted, Inserting, Fresh, FoundUser,
                              tables, tokenHistory, pwHistory, adminHistory
<1>7. CASE UNCHANGED vars
    BY <1>7 DEF vars, TypeInv, UserTypeOK, Counted, Inserting, Fresh, FoundUser,
                tables, tokenHistory, pwHistory, adminHistory
<1> QED BY <1>1, <1>2, <1>3, <1>4, <1>5, <1>6, <1>7 DEF Next, GetUsers

LEMMA InitTypeInv == Init => TypeInv
<1> SUFFICES ASSUME Init PROVE TypeInv
    OBVIOUS
<1>1. Inserting = {}
    BY IdleType DEF Init, Inserting
<1>2. Counted
    BY <1>1, FS_EmptySet, UserBounds DEF Init, Counted
<1>3. UserTypeOK
    <2>1. worker \in [Workers -> WorkerStates] /\ perm \in [RoleIds -> SUBSET Permissions]
        BY IdleType DEF Init
    <2>2. roles \subseteq RoleIds /\ now \in 0..MaxTime
        BY UserBounds DEF Init, RoleIds, ROLE_ID_ADMIN, ROLE_ID_GUEST
    <2>3. /\ lost \in [UserIds -> [Permissions -> Nat \cup {Never}]]
          /\ name \in [UserIds -> Names \cup {NoName}] /\ pw \in [UserIds -> Nat]
          /\ account \in [UserIds -> Nat] /\ ackedPw \in [UserIds -> Nat]
        BY DEF Init
    <2> QED BY <2>1, <2>2, <2>3 DEF Init, UserTypeOK
<1>4. Fresh /\ FoundUser
    BY IdleType DEF Init, Fresh, FoundUser, ROLE_ID_ADMIN, ROLE_ID_GUEST
<1> QED BY <1>2, <1>3, <1>4 DEF TypeInv

(* Every handler, fault and clock tick leaves the tables, the tokens and the
   running handlers well formed: ids stay in range although they are never used
   again, and users_roles refers to rows that exist. *)
THEOREM UserTypeCorrect == Spec => []UserTypeOK
<1>1. TypeInv => UserTypeOK
    BY DEF TypeInv
<1> QED BY <1>1, InitTypeInv, TypeInvStep, PTL DEF Spec

-----------------------------------------------------------------------------
(* What all requests that start a handler have in common. *)
Starts(w) ==
    /\ worker'[w].pc \in {"insert", "find", "conflict"} /\ worker'[w].asked = now
    /\ \A x \in Workers \ {w} : worker'[x] = worker[x]
    /\ worker[w].pc = "idle"
    /\ UNCHANGED <<tables, tokens, now, faults, tokenHistory, pwHistory, adminHistory>>

LEMMA BeginStarts ==
    ASSUME TypeInv, NEW w \in Workers, NEW op, NEW p \in {"insert", "find", "conflict"}, NEW id, NEW n,
           NEW password, NEW todo, Begin(w, op, p, id, n, password, todo)
    PROVE  Starts(w)
<1> DEFINE s == [Idle EXCEPT !.op = op, !.pc = p, !.id = id, !.name = n,
                             !.pw = password, !.todo = todo, !.asked = now]
<1>1. s.pc = p /\ s.asked = now
    BY DEF Idle
<1>2. worker' = [worker EXCEPT ![w] = s] /\ worker \in [Workers -> WorkerStates]
    BY DEF Begin, TypeInv, UserTypeOK
<1> HIDE DEF s
<1> QED BY <1>1, <1>2 DEF Begin, Starts

(* The steps of the system, the starts of handlers taken together. *)
LEMMA Steps ==
    ASSUME TypeInv, [Next]_vars
    PROVE  \/ \E w \in Workers : Starts(w) \/ WorkerStep(w) \/ HandlerFails(w)
           \/ \E tok \in tokens, u \in users : DeleteUser(tok, u)
           \/ \E tok \in tokens, u \in users, r \in roles : AssignRole(tok, u, r) \/ UnassignRole(tok, u, r)
           \/ \E tok \in tokens, ps \in RolePerms : CreateRole(tok, ps)
           \/ \E tok \in tokens, ps \in RolePerms, r \in roles : EditRole(tok, r, ps)
           \/ \E tok \in tokens, r \in roles : DeleteRole(tok, r)
           \/ Tick \/ UNCHANGED vars
<1>1. ASSUME NEW w \in Workers, NEW n \in Names, Signup(w, n) PROVE Starts(w)
    BY <1>1, BeginStarts DEF Signup
<1>2. ASSUME NEW w \in Workers, NEW u \in users, Login(w, u) PROVE Starts(w)
    BY <1>2, BeginStarts DEF Login
<1>3. ASSUME NEW w \in Workers, NEW tok \in tokens, RefreshToken(w, tok) PROVE Starts(w)
    BY <1>3, BeginStarts DEF RefreshToken
<1>4. ASSUME NEW w \in Workers, NEW tok \in tokens, UpdatePassword(w, tok) PROVE Starts(w)
    BY <1>4, BeginStarts DEF UpdatePassword
<1>5. ASSUME NEW w \in Workers, NEW tok \in tokens, NEW n \in Names, UpdateMe(w, tok, n) PROVE Starts(w)
    BY <1>5, BeginStarts DEF UpdateMe
<1>6. ASSUME NEW w \in Workers, NEW tok \in tokens, NEW n \in Names, NEW r \in roles, CreateUser(w, tok, n, {r})
      PROVE  Starts(w)
    BY <1>6, BeginStarts DEF CreateUser
<1>7. ASSUME NEW w \in Workers, NEW tok \in tokens, NEW u \in users, NEW n \in Names, NEW p \in {0, NewPassword},
             UpdateUser(w, tok, u, n, p)
      PROVE  Starts(w)
    BY <1>7, BeginStarts DEF UpdateUser
<1> QED BY <1>1, <1>2, <1>3, <1>4, <1>5, <1>6, <1>7 DEF Next, Authorized, GetUsers

-----------------------------------------------------------------------------
(* Tokens.  A permission is held by u, or was since a. *)
Held(u, p, a) == p \in PermissionsOf(u) \/ lost[u][p] >= a

(* A token, and a handler that is going to issue one, names a user by the id it
   was created with and lists what the user may do or could do when asked. *)
TokenOK(tok) ==
    /\ tok.asked <= now /\ account[tok.sub] = tok.account
    /\ \A p \in tok.perms : Held(tok.sub, p, tok.asked)
IssuerOK(s) ==
    /\ s.asked <= now
    /\ s.pc \in {"permissions", "issue"} => account[s.id] = s.account
    /\ s.pc = "issue" => \A p \in s.perms : Held(s.id, p, s.asked)

TokenInv == (\A tok \in tokens : TokenOK(tok)) /\ \A w \in Workers : IssuerOK(worker[w])

(* Nobody loses a permission without a trace: when permissions only grow, ... *)
LEMMA GrowKept ==
    ASSUME TypeInv, lost' = lost, \A u \in UserIds : PermissionsOf(u) \subseteq PermissionsOf(u)'
    PROVE  \A u \in UserIds, p \in Permissions, a \in Nat : a <= now /\ Held(u, p, a) => Held(u, p, a)'
BY DEF Held

(* ... and when the step notes what it takes away. *)
LEMMA LostKept ==
    ASSUME TypeInv, NoteLost
    PROVE  \A u \in UserIds, p \in Permissions, a \in Nat : a <= now /\ Held(u, p, a) => Held(u, p, a)'
<1> SUFFICES ASSUME NEW u \in UserIds, NEW p \in Permissions, NEW a \in Nat, a <= now, Held(u, p, a)
             PROVE  Held(u, p, a)'
    OBVIOUS
<1>1. lost'[u][p] = IF p \in PermissionsOf(u) \ PermissionsOf(u)' THEN now ELSE lost[u][p]
    BY DEF NoteLost
<1>2. now \in Nat
    BY UserBounds DEF TypeInv, UserTypeOK
<1>3. CASE p \in PermissionsOf(u) \ PermissionsOf(u)'
    BY <1>1, <1>2, <1>3 DEF Held
<1>4. CASE p \notin PermissionsOf(u) \ PermissionsOf(u)'
    BY <1>1, <1>4 DEF Held
<1> QED BY <1>3, <1>4

(* What a step must leave alone, and what it must establish. *)
LEMMA TokenFrame ==
    ASSUME TypeInv, TokenInv, now' \in Nat, now <= now',
           \A u \in UserIds, p \in Permissions, a \in Nat : a <= now /\ Held(u, p, a) => Held(u, p, a)',
           \A u \in UserIds : u < nextUser => account'[u] = account[u],
           \A tok \in tokens' : tok \in tokens \/ TokenOK(tok)',
           \A w \in Workers : worker'[w] = worker[w] \/ IssuerOK(worker[w])'
    PROVE  TokenInv'
<1>0. now \in Nat
    BY UserBounds DEF TypeInv, UserTypeOK
<1>1. ASSUME NEW tok \in tokens' PROVE TokenOK(tok)'
    <2>1. CASE tok \in tokens
        <3>1. /\ tok.sub \in UserIds /\ tok.sub < nextUser /\ tok.asked \in Nat
              /\ tok.perms \in SUBSET Permissions /\ TokenOK(tok)
            BY <2>1 DEF TypeInv, UserTypeOK, Fresh, Token, TokenInv
        <3>2. tok.asked <= now' /\ account'[tok.sub] = tok.account
            BY <1>0, <3>1 DEF TokenOK
        <3>3. \A p \in tok.perms : Held(tok.sub, p, tok.asked)'
            BY <3>1 DEF TokenOK
        <3> QED BY <3>2, <3>3 DEF TokenOK
    <2> QED BY <1>1, <2>1
<1>2. ASSUME NEW w \in Workers PROVE IssuerOK(worker[w])'
    <2>1. CASE worker'[w] = worker[w]
        <3>0. PICK s : s = worker[w]
            OBVIOUS
        <3>1. /\ s.id \in UserIds \cup {0} /\ s.id < nextUser /\ s.asked \in Nat
              /\ s.perms \in SUBSET Permissions /\ IssuerOK(s) /\ (s.pc \in {"permissions", "issue"} => s.id # 0)
            BY <3>0 DEF TypeInv, UserTypeOK, Fresh, FoundUser, WorkerStates, TokenInv
        <3>2. s.asked <= now'
            BY <1>0, <3>1 DEF IssuerOK
        <3>3. s.pc \in {"permissions", "issue"} => account'[s.id] = s.account
            BY <3>1 DEF IssuerOK
        <3>4. s.pc = "issue" => \A p \in s.perms : Held(s.id, p, s.asked)'
            BY <3>1 DEF IssuerOK
        <3> QED BY <2>1, <3>0, <3>2, <3>3, <3>4 DEF IssuerOK
    <2> QED BY <1>2, <2>1
<1> QED BY <1>1, <1>2 DEF TokenInv

(* A handler moves while the clock, the tokens and everybody's permissions
   stay, or grow. *)
LEMMA TokenMove ==
    ASSUME TypeInv, TokenInv, NEW w \in Workers, NEW s, worker' = [worker EXCEPT ![w] = s],
           now' = now, lost' = lost, \A u \in UserIds : PermissionsOf(u) \subseteq PermissionsOf(u)',
           \A u \in UserIds : u < nextUser => account'[u] = account[u],
           \A tok \in tokens' : tok \in tokens \/ TokenOK(tok)',
           s.asked <= now, s.pc \notin {"permissions", "issue"}
    PROVE  TokenInv'
<1>1. \A u \in UserIds, p \in Permissions, a \in Nat : a <= now /\ Held(u, p, a) => Held(u, p, a)'
    BY GrowKept
<1>2. now \in Nat /\ worker \in [Workers -> WorkerStates]
    BY UserBounds DEF TypeInv, UserTypeOK
<1>3. \A x \in Workers : worker'[x] = worker[x] \/ IssuerOK(worker[x])'
    BY <1>2 DEF IssuerOK
<1> QED BY <1>1, <1>2, <1>3, TokenFrame

LEMMA SamePermissions ==
    ASSUME UNCHANGED <<roles, perm>>, grants \subseteq grants'
    PROVE  \A u \in UserIds : PermissionsOf(u) \subseteq PermissionsOf(u)'
BY Zenon DEF PermissionsOf

LEMMA TokenStarts == ASSUME TypeInv, TokenInv, NEW w \in Workers, Starts(w) PROVE TokenInv'
<1>1. UNCHANGED <<roles, perm, grants, lost, now, account, tokens>> /\ now \in Nat
    BY UserBounds DEF Starts, tables, tokenHistory, TypeInv, UserTypeOK
<1>2. \A u \in UserIds : PermissionsOf(u) \subseteq PermissionsOf(u)'
    BY <1>1, SamePermissions
<1>3. \A x \in Workers : worker'[x] = worker[x] \/ IssuerOK(worker[x])'
    BY <1>1 DEF Starts, IssuerOK
<1> QED BY <1>1, <1>2, <1>3, GrowKept, TokenFrame

LEMMA TokenWorker == ASSUME TypeInv, TokenInv, NEW w \in Workers, WorkerStep(w) \/ HandlerFails(w) PROVE TokenInv'
<1>0. /\ worker \in [Workers -> WorkerStates] /\ worker[w] \in WorkerStates /\ now \in Nat
      /\ IssuerOK(worker[w]) /\ worker[w].asked <= now
    BY UserBounds DEF TypeInv, UserTypeOK, TokenInv, IssuerOK
<1>01. Idle.asked <= now /\ Idle.pc \notin {"permissions", "issue"}
    BY <1>0 DEF Idle
(* The steps that end the handler or take it nowhere near a token. *)
<1>02. ASSUME Return(w), UNCHANGED <<roles, perm, tokens, now, account, lost>>, grants \subseteq grants'
       PROVE  TokenInv'
    BY <1>01, <1>02, SamePermissions, TokenMove DEF Return
<1>03. ASSUME NEW p \in {"count", "admin", "roles", "find", "write"},
              NEW s, worker' = [worker EXCEPT ![w] = s], s.pc = p, s.asked = worker[w].asked,
              UNCHANGED <<roles, perm, tokens, now, lost>>, grants \subseteq grants',
              \A u \in UserIds : u < nextUser => account'[u] = account[u]
       PROVE  TokenInv'
    BY <1>0, <1>03, SamePermissions, TokenMove
<1>04. ASSUME NEW p \in {"admin", "roles", "find"}, Goto(w, p),
              UNCHANGED <<roles, perm, tokens, now, account, lost>>, grants \subseteq grants'
       PROVE  TokenInv'
    <2> DEFINE s == [worker[w] EXCEPT !.pc = p]
    <2>1. s.pc = p /\ s.asked = worker[w].asked
        BY <1>0 DEF WorkerStates
    <2>2. worker' = [worker EXCEPT ![w] = s]
        BY <1>04 DEF Goto
    <2> HIDE DEF s
    <2> QED BY <1>03, <1>04, <2>1, <2>2
<1>1. CASE InsertUser(w)
    <2>1. CASE ~NameFree(0, worker[w].name)
        BY <1>1, <1>02, <2>1 DEF InsertUser
    <2>2. CASE NameFree(0, worker[w].name)
        <3> DEFINE s == [worker[w] EXCEPT !.pc = "count", !.id = nextUser]
        <3>1. worker' = [worker EXCEPT ![w] = s]
            BY <1>1, <2>2 DEF InsertUser, last_insert_rowid
        <3>2. s.pc = "count" /\ s.asked = worker[w].asked
            BY <1>0 DEF WorkerStates
        <3>3. \A u \in UserIds : u < nextUser => account'[u] = account[u]
            BY <1>1, <2>2 DEF InsertUser, last_insert_rowid, TypeInv, UserTypeOK
        <3>4. UNCHANGED <<roles, perm, tokens, now, lost>> /\ grants \subseteq grants'
            BY <1>1 DEF InsertUser
        <3> HIDE DEF s
        <3> QED BY <1>03, <3>1, <3>2, <3>3, <3>4
    <2> QED BY <2>1, <2>2
<1>2. CASE CountUsers(w)
    BY <1>2, <1>04 DEF CountUsers, tables, tokenHistory
<1>3. CASE MakeAdmin(w)
    <2>1. grants \subseteq grants' /\ UNCHANGED <<roles, perm, tokens, now, account, lost>>
        BY <1>3 DEF MakeAdmin, AddRole, tokenHistory
    <2> QED BY <1>3, <1>02, <1>04, <2>1 DEF MakeAdmin
<1>4. CASE AddRequestedRole(w)
    <2>1. grants \subseteq grants' /\ UNCHANGED <<roles, perm, tokens, now, account, lost>>
        BY <1>4 DEF AddRequestedRole, AddRole, tokenHistory
    <2>2. ASSUME NEW r, worker' = [worker EXCEPT ![w].todo = @ \ {r}] PROVE TokenInv'
        <3> DEFINE s == [worker[w] EXCEPT !.todo = @ \ {r}]
        <3>1. s.pc = "roles" /\ s.asked = worker[w].asked
            BY <1>0, <1>4 DEF WorkerStates, AddRequestedRole
        <3>2. worker' = [worker EXCEPT ![w] = s]
            BY <2>2
        <3> HIDE DEF s
        <3> QED BY <1>03, <2>1, <3>1, <3>2
    <2> QED BY <1>4, <1>02, <2>1, <2>2 DEF AddRequestedRole
<1>5. CASE FindForToken(w)
    <2>1. UNCHANGED <<roles, perm, grants, tokens, now, account, lost>>
        BY <1>5 DEF FindForToken, tables, tokenHistory
    <2>2. ASSUME NEW u \in FindRow(w),
                 worker' = [worker EXCEPT ![w].pc = "permissions", ![w].id = u, ![w].account = account[u]]
          PROVE  TokenInv'
        <3> DEFINE s == [worker[w] EXCEPT !.pc = "permissions", !.id = u, !.account = account[u]]
        <3>1. worker' = [worker EXCEPT ![w] = s] /\ s.pc = "permissions" /\ s.id = u /\ s.account = account[u]
              /\ s.asked = worker[w].asked
            BY <1>0, <2>2 DEF WorkerStates
        <3>2. \A x \in Workers : worker'[x] = worker[x] \/ IssuerOK(worker[x])'
            <4> HIDE DEF s
            <4>1. worker'[w] = s /\ \A x \in Workers \ {w} : worker'[x] = worker[x]
                BY <1>0, <3>1
            <4> QED BY <1>0, <2>1, <3>1, <4>1 DEF IssuerOK
        <3>3. \A x \in UserIds : PermissionsOf(x) \subseteq PermissionsOf(x)'
            BY <2>1, SamePermissions
        <3> QED BY <1>0, <2>1, <3>2, <3>3, GrowKept, TokenFrame
    <2> QED BY <1>5, <1>02, <2>1, <2>2 DEF FindForToken
<1>6. CASE LoadPermissions(w)
    <2>0. PICK s : s = [worker[w] EXCEPT !.pc = "issue", !.perms = PermissionsOf(worker[w].id)]
        OBVIOUS
    <2>1. UNCHANGED <<roles, perm, grants, tokens, now, account, lost>>
        BY <1>6 DEF LoadPermissions, tables, tokenHistory
    <2>2. worker' = [worker EXCEPT ![w] = s] /\ s.pc = "issue" /\ s.id = worker[w].id
          /\ s.account = worker[w].account /\ s.perms = PermissionsOf(s.id) /\ s.asked = worker[w].asked
        BY <1>0, <1>6, <2>0 DEF WorkerStates, LoadPermissions
    <2>3. account[s.id] = s.account
        BY <1>0, <1>6, <2>2 DEF LoadPermissions, IssuerOK
    <2>4. \A x \in Workers : worker'[x] = worker[x] \/ IssuerOK(worker[x])'
        <3>1. worker'[w] = s /\ \A x \in Workers \ {w} : worker'[x] = worker[x]
            BY <1>0, <2>2
        <3>2. PermissionsOf(s.id)' = PermissionsOf(s.id)
            BY <2>1 DEF PermissionsOf
        <3>3. \A p \in s.perms : Held(s.id, p, s.asked)'
            BY <2>1, <2>2, <3>2 DEF Held
        <3> QED BY <1>0, <2>1, <2>2, <2>3, <3>1, <3>3 DEF IssuerOK
    <2>5. \A x \in UserIds : PermissionsOf(x) \subseteq PermissionsOf(x)'
        BY <2>1, SamePermissions
    <2> QED BY <1>0, <2>1, <2>4, <2>5, GrowKept, TokenFrame
<1>7. CASE IssueToken(w)
    <2>0. PICK tk : tk = [sub |-> worker[w].id, perms |-> worker[w].perms, exp |-> now + Ttl,
                          account |-> worker[w].account, asked |-> worker[w].asked]
        OBVIOUS
    <2>1. UNCHANGED <<roles, perm, grants, now, account, lost>> /\ Return(w) /\ tokens' = tokens \cup {tk}
        BY <1>7, <2>0 DEF IssueToken, tables, tokenHistory
    <2>2. TokenOK(tk)
        BY <1>0, <1>7, <2>0 DEF IssueToken, IssuerOK, TokenOK
    <2>3. TokenOK(tk)'
        BY <2>1, <2>2 DEF TokenOK, Held, PermissionsOf
    <2>4. \A u \in UserIds : PermissionsOf(u) \subseteq PermissionsOf(u)'
        BY <2>1, SamePermissions
    <2>5. worker' = [worker EXCEPT ![w] = Idle] /\ \A tok \in tokens' : tok \in tokens \/ TokenOK(tok)'
        BY <2>1, <2>3 DEF Return
    <2> QED BY <1>01, <2>1, <2>4, <2>5, TokenMove
<1>8. CASE CheckConflict(w)
    BY <1>8, <1>02, <1>04 DEF CheckConflict, tables, tokenHistory
<1>9. CASE FindForUpdate(w)
    <2>1. UNCHANGED <<roles, perm, grants, tokens, now, account, lost>>
        BY <1>9 DEF FindForUpdate, tables, tokenHistory
    <2>2. ASSUME worker' = [worker EXCEPT ![w].pc = "write", ![w].old = pw[worker[w].id]] PROVE TokenInv'
        <3> DEFINE s == [worker[w] EXCEPT !.pc = "write", !.old = pw[worker[w].id]]
        <3>1. s.pc = "write" /\ s.asked = worker[w].asked
            BY <1>0 DEF WorkerStates
        <3>2. worker' = [worker EXCEPT ![w] = s]
            BY <2>2
        <3> HIDE DEF s
        <3> QED BY <1>03, <2>1, <3>1, <3>2
    <2> QED BY <1>9, <1>02, <2>1, <2>2 DEF FindForUpdate
<1>10. CASE WriteUser(w)
    BY <1>10, <1>02 DEF WriteUser, tokenHistory
<1>11. CASE HandlerFails(w)
    BY <1>11, <1>02 DEF HandlerFails, tables, tokenHistory
<1> QED BY <1>1, <1>2, <1>3, <1>4, <1>5, <1>6, <1>7, <1>8, <1>9, <1>10, <1>11 DEF WorkerStep

LEMMA TokenStep == TypeInv /\ TokenInv /\ [Next]_vars => TokenInv'
<1> SUFFICES ASSUME TypeInv, TokenInv, [Next]_vars PROVE TokenInv'
    OBVIOUS
<1>0. now \in Nat
    BY UserBounds DEF TypeInv, UserTypeOK
<1> DEFINE Kept == \A u \in UserIds, p \in Permissions, a \in Nat : a <= now /\ Held(u, p, a) => Held(u, p, a)'
(* A request that changes the tables at once issues no token. *)
<1>01. ASSUME Kept, UNCHANGED <<worker, tokens, now, account>> PROVE TokenInv'
    BY <1>0, <1>01, TokenFrame
<1>1. ASSUME NEW w \in Workers, Starts(w) \/ WorkerStep(w) \/ HandlerFails(w) PROVE TokenInv'
    BY <1>1, TokenStarts, TokenWorker
<1>2. ASSUME NEW tok \in tokens, NEW u \in users, DeleteUser(tok, u) PROVE TokenInv'
    BY <1>2, <1>01, LostKept DEF DeleteUser
<1>3. ASSUME NEW tok \in tokens, NEW u \in users, NEW r \in roles, AssignRole(tok, u, r) PROVE TokenInv'
    <2>1. grants \subseteq grants' /\ UNCHANGED <<roles, perm, lost>>
        BY <1>3 DEF AssignRole, AddRole, tokenHistory
    <2>2. Kept
        BY <2>1, SamePermissions, GrowKept
    <2> QED BY <1>3, <1>01, <2>2 DEF AssignRole, tokenHistory
<1>4. ASSUME NEW tok \in tokens, NEW u \in users, NEW r \in roles, UnassignRole(tok, u, r) PROVE TokenInv'
    BY <1>4, <1>01, LostKept DEF UnassignRole
<1>5. ASSUME NEW tok \in tokens, NEW ps \in RolePerms, CreateRole(tok, ps) PROVE TokenInv'
    <2>1. \A r \in roles : r \in RoleIds /\ r # nextRole
        BY DEF TypeInv, UserTypeOK, Fresh, RoleIds
    <2>2. \A r \in roles : perm'[r] = perm[r] /\ r \in roles'
        BY <1>5, <2>1 DEF CreateRole, TypeInv, UserTypeOK
    <2>3. grants' = grants /\ lost' = lost
        BY <1>5 DEF CreateRole, tokenHistory
    <2>4. \A u \in UserIds : PermissionsOf(u) \subseteq PermissionsOf(u)'
        BY <2>2, <2>3, Zenon DEF PermissionsOf
    <2>5. Kept
        BY <2>3, <2>4, GrowKept
    <2> QED BY <1>5, <1>01, <2>5 DEF CreateRole, tokenHistory
<1>6. ASSUME NEW tok \in tokens, NEW ps \in RolePerms, NEW r \in roles, EditRole(tok, r, ps) PROVE TokenInv'
    BY <1>6, <1>01, LostKept DEF EditRole
<1>7. ASSUME NEW tok \in tokens, NEW r \in roles, DeleteRole(tok, r) PROVE TokenInv'
    <2>1. \A u \in UserIds, q \in roles : <<u, q>> \in grants => q \in roles'
        BY <1>7 DEF DeleteRole
    <2>2. grants' = grants /\ lost' = lost /\ perm' = perm
        BY <1>7 DEF DeleteRole, tokenHistory
    <2>3. \A u \in UserIds : PermissionsOf(u) \subseteq PermissionsOf(u)'
        BY <2>1, <2>2, Zenon DEF PermissionsOf
    <2>4. Kept
        BY <2>2, <2>3, GrowKept
    <2> QED BY <1>7, <1>01, <2>4 DEF DeleteRole, tokenHistory
<1>8. CASE Tick
    <2>1. UNCHANGED <<roles, perm, grants, lost, account, worker>> /\ now' \in Nat /\ now <= now' /\ tokens' \subseteq tokens
        BY <1>0, <1>8 DEF Tick, tables, tokenHistory
    <2>2. Kept
        BY <2>1, SamePermissions, GrowKept
    <2> QED BY <2>1, <2>2, TokenFrame
<1>9. CASE UNCHANGED vars
    BY <1>9 DEF vars, TokenInv, TokenOK, IssuerOK, Held, PermissionsOf, tables, tokenHistory
<1> QED BY <1>1, <1>2, <1>3, <1>4, <1>5, <1>6, <1>7, <1>8, <1>9, Steps

LEMMA TokenInvariant == Spec => []TokenInv
<1>1. Init => TokenInv
    BY DEF Init, Idle, TokenInv, TokenOK, IssuerOK
<1> QED BY <1>1, InitTypeInv, TypeInvStep, TokenStep, PTL DEF Spec

(* The permissions in a token are at most as old as the login or refresh that
   issued it, whatever was revoked, edited or deleted in between. *)
THEOREM TokensHeld == Spec => []TokenPermissionsHeld
<1>1. TokenInv => TokenPermissionsHeld
    BY DEF TokenInv, TokenOK, Held, TokenPermissionsHeld
<1> QED BY <1>1, TokenInvariant, PTL

(* A token never becomes the token of another account, because ids are not used
   again. *)
THEOREM TokensNameTheirUsers == Spec => []TokenNamesItsUser
<1>1. TokenInv => TokenNamesItsUser
    BY DEF TokenInv, TokenOK, TokenNamesItsUser
<1> QED BY <1>1, TokenInvariant, PTL

-----------------------------------------------------------------------------
(* Passwords.  The copy of a row a handler is going to write back has the
   password last stored on request, unless somebody stored one meanwhile. *)
CopyCurrent ==
    \A w \in Workers : worker[w].pc = "write" /\ worker[w].id \in users \ racedPw
                          => worker[w].old = ackedPw[worker[w].id]

PwInv == PasswordKeptUnlessRaced /\ CopyCurrent

(* A step that stores no password and hands out no copy. *)
LEMMA PwQuiet ==
    ASSUME TypeInv, PwInv, users' \subseteq users, UNCHANGED <<pw, pwHistory>>,
           \A w \in Workers : worker'[w] = worker[w] \/ worker'[w].pc # "write"
    PROVE  PwInv'
BY DEF PwInv, PasswordKeptUnlessRaced, CopyCurrent, pwHistory

LEMMA PwWorker == ASSUME TypeInv, PwInv, NEW w \in Workers, WorkerStep(w) \/ HandlerFails(w) PROVE PwInv'
<1>0. /\ worker \in [Workers -> WorkerStates] /\ worker[w] \in WorkerStates
      /\ users \subseteq UserIds /\ pw \in [UserIds -> Nat] /\ ackedPw \in [UserIds -> Nat]
    BY DEF TypeInv, UserTypeOK
<1>01. ASSUME Return(w) PROVE \A x \in Workers : worker'[x] = worker[x] \/ worker'[x].pc # "write"
    BY <1>0, <1>01, IdleType DEF Return
<1>02. ASSUME NEW p \in {"admin", "roles", "find"}, Goto(w, p)
       PROVE  \A x \in Workers : worker'[x] = worker[x] \/ worker'[x].pc # "write"
    BY <1>0, <1>02 DEF Goto, WorkerStates
<1>1. CASE InsertUser(w)
    <2>1. CASE ~NameFree(0, worker[w].name)
        BY <1>1, <1>01, <2>1, PwQuiet DEF InsertUser, pwHistory
    <2>2. CASE NameFree(0, worker[w].name)
        <3>1. /\ users' = users \cup {nextUser} /\ racedPw' = racedPw
              /\ pw' = [pw EXCEPT ![nextUser] = worker[w].pw]
              /\ ackedPw' = [ackedPw EXCEPT ![nextUser] = worker[w].pw]
            BY <1>1, <2>2 DEF InsertUser, last_insert_rowid
        <3>2. \A x \in Workers : worker'[x] = worker[x] \/ worker'[x].pc # "write"
            BY <1>0, <1>1, <2>2 DEF InsertUser, WorkerStates
        <3>0. nextUser \in UserIds
            BY <1>1, <3>1, InsertType DEF TypeInv, UserTypeOK
        <3>3. PasswordKeptUnlessRaced'
            BY <1>0, <3>0, <3>1 DEF PwInv, PasswordKeptUnlessRaced
        <3>4. \A x \in Workers : worker[x].id # nextUser
            BY DEF TypeInv, UserTypeOK, Fresh
        <3>5. CopyCurrent'
            BY <1>0, <3>1, <3>2, <3>4 DEF PwInv, CopyCurrent
        <3> QED BY <3>3, <3>5 DEF PwInv
    <2> QED BY <2>1, <2>2
<1>2. CASE CountUsers(w)
    BY <1>2, <1>02, PwQuiet DEF CountUsers, tables
<1>3. CASE MakeAdmin(w)
    BY <1>3, <1>01, <1>02, PwQuiet DEF MakeAdmin
<1>4. CASE AddRequestedRole(w)
    <2>1. \A x \in Workers : worker'[x] = worker[x] \/ worker'[x].pc # "write"
        BY <1>0, <1>4, <1>01 DEF AddRequestedRole, WorkerStates
    <2> QED BY <1>4, <2>1, PwQuiet DEF AddRequestedRole
<1>5. CASE FindForToken(w)
    <2>1. \A x \in Workers : worker'[x] = worker[x] \/ worker'[x].pc # "write"
        <3>1. ASSUME NEW u, worker' = [worker EXCEPT ![w].pc = "permissions", ![w].id = u, ![w].account = account[u]]
              PROVE  \A x \in Workers : worker'[x] = worker[x] \/ worker'[x].pc # "write"
            BY <1>0, <3>1 DEF WorkerStates
        <3> QED BY <1>5, <1>01, <3>1 DEF FindForToken
    <2> QED BY <1>5, <2>1, PwQuiet DEF FindForToken, tables
<1>6. CASE LoadPermissions(w)
    <2>1. \A x \in Workers : worker'[x] = worker[x] \/ worker'[x].pc # "write"
        BY <1>0, <1>6 DEF LoadPermissions, WorkerStates
    <2> QED BY <1>6, <2>1, PwQuiet DEF LoadPermissions, tables
<1>7. CASE IssueToken(w)
    BY <1>7, <1>01, PwQuiet DEF IssueToken, tables
<1>8. CASE CheckConflict(w)
    BY <1>8, <1>01, <1>02, PwQuiet DEF CheckConflict, tables
<1>9. CASE FindForUpdate(w)
    <2>1. UNCHANGED <<users, pw, ackedPw, racedPw>>
        BY <1>9 DEF FindForUpdate, tables, pwHistory
    <2>2. ASSUME worker[w].id \in users, worker' = [worker EXCEPT ![w].pc = "write", ![w].old = pw[worker[w].id]]
          PROVE  PwInv'
        <3>1. /\ worker'[w].id = worker[w].id /\ worker'[w].old = pw[worker[w].id]
              /\ \A x \in Workers \ {w} : worker'[x] = worker[x]
            BY <1>0, <2>2 DEF WorkerStates
        <3>2. PasswordKeptUnlessRaced'
            BY <2>1 DEF PwInv, PasswordKeptUnlessRaced
        <3>3. worker'[w].id \in users \ racedPw => worker'[w].old = ackedPw[worker'[w].id]
            BY <3>1 DEF PwInv, PasswordKeptUnlessRaced
        <3>4. CopyCurrent'
            BY <2>1, <3>1, <3>3 DEF PwInv, CopyCurrent
        <3> QED BY <3>2, <3>4 DEF PwInv
    <2> QED BY <1>9, <1>01, <2>1, <2>2, PwQuiet DEF FindForUpdate, pwHistory
<1>10. CASE WriteUser(w)
    <2> DEFINE u == worker[w].id
               new == worker[w].pw
    <2>1. users' = users /\ Return(w) /\ worker[w].pc = "write"
        BY <1>10 DEF WriteUser
    <2>2. CASE ~(u \in users /\ (worker[w].op = "password" \/ NameFree(u, worker[w].name)))
        BY <1>10, <1>01, <2>1, <2>2, PwQuiet DEF WriteUser
    <2>3. CASE u \in users /\ (worker[w].op = "password" \/ NameFree(u, worker[w].name))
        <3>1. pw' = [pw EXCEPT ![u] = IF new = 0 THEN worker[w].old ELSE new] /\ NotePassword(w, u, new)
            BY <1>10, <2>3 DEF WriteUser
        <3>2. \A x \in Workers : x = w \/ worker'[x] = worker[x]
            BY <1>0, <2>1 DEF Return
        <3>3. worker'[w].pc # "write"
            BY <1>0, <2>1, IdleType DEF Return
        <3>4. CASE new = 0
            <4>1. ackedPw' = ackedPw /\ racedPw' = racedPw
                BY <3>1, <3>4 DEF NotePassword, pwHistory
            <4>2. u \notin racedPw => worker[w].old = ackedPw[u]
                BY <2>1, <2>3 DEF PwInv, CopyCurrent
            <4>3. PasswordKeptUnlessRaced'
                BY <1>0, <2>1, <2>3, <3>1, <3>4, <4>1, <4>2 DEF PwInv, PasswordKeptUnlessRaced
            <4>4. CopyCurrent'
                BY <2>1, <3>2, <3>3, <4>1 DEF PwInv, CopyCurrent
            <4> QED BY <4>3, <4>4 DEF PwInv
        <3>5. CASE new # 0
            <4>1. /\ ackedPw' = [ackedPw EXCEPT ![u] = new]
                  /\ \A x \in UserIds \ {u} : x \in racedPw' <=> x \in racedPw
                  /\ (\E x \in Workers \ {w} : worker[x].pc = "write" /\ worker[x].id = u) => u \in racedPw'
                BY <3>1, <3>5 DEF NotePassword
            <4>2. PasswordKeptUnlessRaced'
                BY <1>0, <2>1, <2>3, <3>1, <3>5, <4>1 DEF PwInv, PasswordKeptUnlessRaced
            <4>3. CopyCurrent'
                BY <1>0, <2>1, <2>3, <3>2, <3>3, <4>1 DEF PwInv, CopyCurrent
            <4> QED BY <4>2, <4>3 DEF PwInv
        <3> QED BY <3>4, <3>5
    <2> QED BY <2>2, <2>3
<1>11. CASE HandlerFails(w)
    BY <1>11, <1>01, PwQuiet DEF HandlerFails, tables
<1> QED BY <1>1, <1>2, <1>3, <1>4, <1>5, <1>6, <1>7, <1>8, <1>9, <1>10, <1>11 DEF WorkerStep

LEMMA PwStep == TypeInv /\ PwInv /\ [Next]_vars => PwInv'
<1> SUFFICES ASSUME TypeInv, PwInv, [Next]_vars PROVE PwInv'
    OBVIOUS
<1>1. ASSUME NEW w \in Workers, WorkerStep(w) \/ HandlerFails(w) PROVE PwInv'
    BY <1>1, PwWorker
<1>2. ASSUME NEW w \in Workers, Starts(w) PROVE PwInv'
    BY <1>2, PwQuiet DEF Starts, tables
<1>3. ASSUME users' \subseteq users, UNCHANGED <<pw, pwHistory, worker>> PROVE PwInv'
    BY <1>3, PwQuiet
<1>5. ASSUME NEW tok \in tokens, NEW u \in users, DeleteUser(tok, u) PROVE PwInv'
    BY <1>3, <1>5 DEF DeleteUser
<1>6. ASSUME NEW tok \in tokens, NEW u \in users, NEW r \in roles, AssignRole(tok, u, r) \/ UnassignRole(tok, u, r)
      PROVE  PwInv'
    BY <1>3, <1>6 DEF AssignRole, UnassignRole
<1>7. ASSUME NEW tok \in tokens, NEW ps \in RolePerms, CreateRole(tok, ps) PROVE PwInv'
    BY <1>3, <1>7 DEF CreateRole
<1>8. ASSUME NEW tok \in tokens, NEW ps \in RolePerms, NEW r \in roles, EditRole(tok, r, ps) PROVE PwInv'
    BY <1>3, <1>8 DEF EditRole
<1>9. ASSUME NEW tok \in tokens, NEW r \in roles, DeleteRole(tok, r) PROVE PwInv'
    BY <1>3, <1>9 DEF DeleteRole
<1>10. CASE Tick \/ UNCHANGED vars
    BY <1>3, <1>10 DEF Tick, vars, tables
<1> QED BY <1>1, <1>2, <1>5, <1>6, <1>7, <1>8, <1>9, <1>10, Steps

(* A stored password survives every later write of the row by a handler that
   read it afterwards. *)
THEOREM PasswordsKept == Spec => []PasswordKeptUnlessRaced
<1>1. Init => PwInv
    BY IdleType DEF Init, PwInv, PasswordKeptUnlessRaced, CopyCurrent
<1>2. PwInv => PasswordKeptUnlessRaced
    BY DEF PwInv
<1> QED BY <1>1, <1>2, InitTypeInv, TypeInvStep, PwStep, PTL DEF Spec

-----------------------------------------------------------------------------
(* The first admin.  Of the users that still exist, at most one became admin by
   being the first, and whoever is about to be made one by MakeAdmin is that
   one, because COUNT saw nobody else. *)
OneSelfMade == \A x, y \in selfMade \cap users : x = y
About(w) == worker[w].pc = "admin" /\ worker[w].id \in users
CountedAlone ==
    \A w \in Workers : About(w) =>
        /\ \A x \in selfMade \cap users : x = worker[w].id
        /\ \A v \in Workers : About(v) => worker[v].id = worker[w].id

(* While there is no admin, the only user is still being inserted. *)
HasAdmin == \E u \in users : <<u, ROLE_ID_ADMIN>> \in grants
Promoting(w) == worker[w].pc \in {"count", "admin"} /\ users = {worker[w].id}
FirstIsPromoted ==
    users # {} /\ ROLE_ID_ADMIN \in roles /\ ~dismissed /\ ~interrupted
        => HasAdmin \/ \E w \in Workers : Promoting(w)

AdminInv == OneSelfMade /\ CountedAlone /\ FirstIsPromoted

LEMMA SelfMadeQuiet ==
    ASSUME OneSelfMade, CountedAlone, users' \subseteq users, selfMade' = selfMade,
           \A w \in Workers : worker'[w] = worker[w] \/ worker'[w].pc # "admin"
    PROVE  OneSelfMade' /\ CountedAlone'
BY DEF OneSelfMade, CountedAlone, About

LEMMA PromotedQuiet ==
    ASSUME FirstIsPromoted, users' = users, ROLE_ID_ADMIN \in roles' => ROLE_ID_ADMIN \in roles,
           \A u \in users : <<u, ROLE_ID_ADMIN>> \in grants => <<u, ROLE_ID_ADMIN>> \in grants' \/ dismissed',
           dismissed => dismissed', interrupted => interrupted',
           \A w \in Workers : worker[w].pc \in {"count", "admin"} =>
               worker'[w] = worker[w] \/ interrupted' \/ HasAdmin'
    PROVE  FirstIsPromoted'
<1> SUFFICES ASSUME users' # {}, ROLE_ID_ADMIN \in roles', ~dismissed', ~interrupted'
             PROVE  HasAdmin' \/ \E w \in Workers : Promoting(w)'
    BY DEF FirstIsPromoted
<1>1. HasAdmin \/ \E w \in Workers : Promoting(w)
    BY DEF FirstIsPromoted
<1>2. CASE HasAdmin
    BY <1>2 DEF HasAdmin
<1>3. ASSUME NEW w \in Workers, Promoting(w) PROVE HasAdmin' \/ Promoting(w)'
    BY <1>3 DEF Promoting
<1> QED BY <1>1, <1>2, <1>3

(* A step in which neither the handlers between INSERT and "admin" nor the
   tables they depend on take part. *)
LEMMA AdminQuiet ==
    ASSUME AdminInv, UNCHANGED <<users, roles, grants, adminHistory>>,
           \A w \in Workers : worker'[w] = worker[w] \/
               (worker[w].pc \notin {"count", "admin"} /\ worker'[w].pc # "admin")
    PROVE  AdminInv'
<1>1. UNCHANGED <<selfMade, interrupted, dismissed>>
    BY DEF adminHistory
<1>2. OneSelfMade' /\ CountedAlone'
    BY <1>1, SelfMadeQuiet DEF AdminInv
<1>3. FirstIsPromoted'
    BY <1>1, PromotedQuiet DEF AdminInv
<1> QED BY <1>2, <1>3 DEF AdminInv

LEMMA AdminInsert == ASSUME TypeInv, AdminInv, NEW w \in Workers, InsertUser(w) PROVE AdminInv'
<1>0. worker \in [Workers -> WorkerStates] /\ worker[w] \in WorkerStates /\ worker[w].pc = "insert"
    BY DEF TypeInv, UserTypeOK, InsertUser
<1>1. CASE ~NameFree(0, worker[w].name)
    <2>1. UNCHANGED <<users, roles, grants, adminHistory>> /\ Return(w)
        BY <1>1 DEF InsertUser, adminHistory
    <2> QED BY <1>0, <2>1, IdleType, AdminQuiet DEF Return
<1>2. CASE NameFree(0, worker[w].name)
    <2>1. /\ users' = users \cup {nextUser} /\ UNCHANGED <<roles, grants, selfMade, dismissed>>
          /\ interrupted' = (interrupted \/ \E x \in Workers : worker[x].pc \in {"count", "admin"})
        BY <1>2 DEF InsertUser, last_insert_rowid
    <2>2. worker'[w].pc = "count" /\ worker'[w].id = nextUser /\ \A x \in Workers \ {w} : worker'[x] = worker[x]
        BY <1>0, <1>2 DEF InsertUser, last_insert_rowid, WorkerStates
    <2>3. \A u \in users \cup selfMade : u # nextUser
        BY DEF TypeInv, UserTypeOK, Fresh
    <2>4. \A x \in Workers : worker[x].id # nextUser
        BY DEF TypeInv, UserTypeOK, Fresh
    <2>5. selfMade' \cap users' = selfMade \cap users
        BY <2>1, <2>3
    <2>6. \A x \in Workers : About(x)' => x # w /\ About(x) /\ worker'[x] = worker[x]
        BY <2>1, <2>2, <2>4 DEF About
    <2>7. OneSelfMade' /\ CountedAlone'
        BY <2>5, <2>6 DEF AdminInv, OneSelfMade, CountedAlone
    <2>8. FirstIsPromoted'
        <3> SUFFICES ASSUME ROLE_ID_ADMIN \in roles, ~dismissed, ~interrupted'
                     PROVE  HasAdmin' \/ \E x \in Workers : Promoting(x)'
            BY <2>1 DEF FirstIsPromoted
        <3>1. ~interrupted /\ \A x \in Workers : worker[x].pc \notin {"count", "admin"}
            BY <2>1
        <3>2. CASE users = {}
            BY <2>1, <2>2, <3>2 DEF Promoting
        <3>3. CASE users # {}
            <4>1. HasAdmin
                BY <3>1, <3>3 DEF AdminInv, FirstIsPromoted, Promoting
            <4> QED BY <2>1, <4>1 DEF HasAdmin
        <3> QED BY <3>2, <3>3
    <2> QED BY <2>7, <2>8 DEF AdminInv
<1> QED BY <1>1, <1>2

LEMMA AdminCount == ASSUME TypeInv, AdminInv, NEW w \in Workers, CountUsers(w) PROVE AdminInv'
<1>0. worker \in [Workers -> WorkerStates] /\ worker[w] \in WorkerStates /\ worker[w].pc = "count"
    BY DEF TypeInv, UserTypeOK, CountUsers
<1>1. IsFiniteSet(users)
    <2>1. IsFiniteSet(UserIds)
        BY FS_Interval, UserBounds DEF UserIds
    <2>2. users \in SUBSET UserIds
        BY DEF TypeInv, UserTypeOK
    <2> QED BY <2>1, <2>2, FS_Subset
<1>2. UNCHANGED <<users, roles, grants, selfMade, interrupted, dismissed>>
    BY DEF CountUsers, tables, adminHistory
<1>3. /\ worker'[w].pc = IF IsFirstUser THEN "admin" ELSE "roles"
      /\ worker'[w].id = worker[w].id /\ \A x \in Workers \ {w} : worker'[x] = worker[x]
    BY <1>0 DEF CountUsers, Goto, WorkerStates
<1>4. CASE IsFirstUser
    <2>1. PICK y : users = {y}
        BY <1>1, <1>4, FS_Singleton DEF IsFirstUser
    <2>2. OneSelfMade' /\ CountedAlone'
        BY <1>2, <2>1 DEF AdminInv, OneSelfMade, CountedAlone, About
    <2>3. ASSUME NEW x \in Workers, Promoting(x) PROVE Promoting(x)'
        BY <1>2, <1>3, <1>4, <2>3 DEF Promoting
    <2>4. HasAdmin' <=> HasAdmin
        BY <1>2 DEF HasAdmin
    <2>5. FirstIsPromoted'
        BY <1>2, <2>3, <2>4 DEF AdminInv, FirstIsPromoted
    <2> QED BY <2>2, <2>5 DEF AdminInv
<1>5. CASE ~IsFirstUser
    <2>1. OneSelfMade' /\ CountedAlone'
        BY <1>2, <1>3, <1>5, SelfMadeQuiet DEF AdminInv
    <2>2. users # {worker[w].id}
        BY <1>5, FS_Singleton DEF IsFirstUser
    <2>3. ASSUME NEW x \in Workers, Promoting(x) PROVE Promoting(x)'
        BY <1>2, <1>3, <2>2, <2>3 DEF Promoting
    <2>4. HasAdmin' <=> HasAdmin
        BY <1>2 DEF HasAdmin
    <2>5. FirstIsPromoted'
        BY <1>2, <2>3, <2>4 DEF AdminInv, FirstIsPromoted
    <2> QED BY <2>1, <2>5 DEF AdminInv
<1> QED BY <1>4, <1>5

LEMMA AdminMake == ASSUME TypeInv, AdminInv, NEW w \in Workers, MakeAdmin(w) PROVE AdminInv'
<1> DEFINE u == worker[w].id
<1>0. worker \in [Workers -> WorkerStates] /\ worker[w] \in WorkerStates /\ worker[w].pc = "admin"
    BY DEF TypeInv, UserTypeOK, MakeAdmin
<1>1. UNCHANGED <<users, roles, interrupted, dismissed>>
    BY DEF MakeAdmin
<1>2. worker'[w].pc # "admin" /\ \A x \in Workers \ {w} : worker'[x] = worker[x]
    BY <1>0, IdleType DEF MakeAdmin, Goto, Return, WorkerStates
<1>3. CASE u \in users /\ ROLE_ID_ADMIN \in roles
    <2>1. grants' = grants \cup {<<u, ROLE_ID_ADMIN>>} /\ selfMade' = selfMade \cup {u}
        BY <1>3 DEF MakeAdmin, AddRole
    <2>2. About(w)
        BY <1>0, <1>3 DEF About
    <2>3. \A x \in selfMade \cap users : x = u
        BY <2>2 DEF AdminInv, CountedAlone
    <2>4. \A v \in Workers : About(v)' => worker'[v].id = u
        BY <1>1, <1>2, <2>2 DEF AdminInv, CountedAlone, About
    <2>5. \A x \in selfMade' \cap users' : x = u
        BY <1>1, <2>1, <2>3
    <2>6. OneSelfMade'
        BY <2>5 DEF OneSelfMade
    <2>7. CountedAlone'
        BY <2>4, <2>5 DEF CountedAlone
    <2>8. FirstIsPromoted'
        BY <1>1, <1>3, <2>1 DEF FirstIsPromoted, HasAdmin
    <2> QED BY <2>6, <2>7, <2>8 DEF AdminInv
<1>4. CASE ~(u \in users /\ ROLE_ID_ADMIN \in roles)
    <2>1. grants' = grants /\ selfMade' = selfMade
        BY <1>4 DEF MakeAdmin, AddRole
    <2>2. OneSelfMade' /\ CountedAlone'
        BY <1>1, <1>2, <2>1, SelfMadeQuiet DEF AdminInv
    <2>3. ROLE_ID_ADMIN \in roles => \A x \in Workers : Promoting(x) => Promoting(x)'
        BY <1>1, <1>2, <1>4 DEF Promoting
    <2>4. HasAdmin' <=> HasAdmin
        BY <1>1, <2>1 DEF HasAdmin
    <2>5. FirstIsPromoted'
        BY <1>1, <2>3, <2>4 DEF AdminInv, FirstIsPromoted
    <2> QED BY <2>2, <2>5 DEF AdminInv
<1> QED BY <1>3, <1>4

LEMMA AdminWorker == ASSUME TypeInv, AdminInv, NEW w \in Workers, WorkerStep(w) \/ HandlerFails(w) PROVE AdminInv'
<1>0. worker \in [Workers -> WorkerStates] /\ worker[w] \in WorkerStates
    BY DEF TypeInv, UserTypeOK
<1> DEFINE Aside == \A x \in Workers : worker'[x] = worker[x] \/
                        (worker[x].pc \notin {"count", "admin"} /\ worker'[x].pc # "admin")
<1>01. ASSUME worker[w].pc \notin {"count", "admin"}, Return(w) PROVE Aside
    BY <1>0, <1>01, IdleType DEF Return
<1>1. CASE InsertUser(w) \/ CountUsers(w) \/ MakeAdmin(w)
    BY <1>1, AdminInsert, AdminCount, AdminMake
<1>2. CASE AddRequestedRole(w)
    <2>1. UNCHANGED <<users, roles, selfMade, interrupted, dismissed>> /\ grants \subseteq grants'
        BY <1>2 DEF AddRequestedRole, AddRole, adminHistory
    <2>2. Aside
        BY <1>0, <1>01, <1>2 DEF AddRequestedRole, WorkerStates
    <2>3. OneSelfMade' /\ CountedAlone'
        BY <2>1, <2>2, SelfMadeQuiet DEF AdminInv
    <2>4. FirstIsPromoted'
        BY <2>1, <2>2, PromotedQuiet DEF AdminInv
    <2> QED BY <2>3, <2>4 DEF AdminInv
<1>3. CASE FindForToken(w)
    <2>1. ASSUME NEW u, worker' = [worker EXCEPT ![w].pc = "permissions", ![w].id = u, ![w].account = account[u]]
          PROVE  Aside
        BY <1>0, <1>3, <2>1 DEF FindForToken, WorkerStates
    <2>2. Aside
        BY <1>3, <1>01, <2>1 DEF FindForToken
    <2> QED BY <1>3, <2>2, AdminQuiet DEF FindForToken, tables
<1>4. CASE LoadPermissions(w)
    <2>1. Aside
        BY <1>0, <1>4 DEF LoadPermissions, WorkerStates
    <2> QED BY <1>4, <2>1, AdminQuiet DEF LoadPermissions, tables
<1>5. CASE IssueToken(w)
    BY <1>5, <1>01, AdminQuiet DEF IssueToken, tables
<1>6. CASE CheckConflict(w)
    <2>1. Aside
        BY <1>0, <1>01, <1>6 DEF CheckConflict, Goto, WorkerStates
    <2> QED BY <1>6, <2>1, AdminQuiet DEF CheckConflict, tables
<1>7. CASE FindForUpdate(w)
    <2>1. Aside
        BY <1>0, <1>01, <1>7 DEF FindForUpdate, WorkerStates
    <2> QED BY <1>7, <2>1, AdminQuiet DEF FindForUpdate, tables
<1>8. CASE WriteUser(w)
    BY <1>8, <1>01, AdminQuiet DEF WriteUser
<1>9. CASE HandlerFails(w)
    <2>1. /\ UNCHANGED <<users, roles, grants, selfMade, dismissed>> /\ Return(w)
          /\ interrupted' = (interrupted \/ worker[w].pc \in {"count", "admin"})
        BY <1>9 DEF HandlerFails, tables
    <2>2. worker'[w].pc # "admin" /\ \A x \in Workers \ {w} : worker'[x] = worker[x]
        BY <1>0, <2>1, IdleType DEF Return
    <2>3. OneSelfMade' /\ CountedAlone'
        BY <2>1, <2>2, SelfMadeQuiet DEF AdminInv
    <2>4. FirstIsPromoted'
        BY <2>1, <2>2, PromotedQuiet DEF AdminInv
    <2> QED BY <2>3, <2>4 DEF AdminInv
<1> QED BY <1>1, <1>2, <1>3, <1>4, <1>5, <1>6, <1>7, <1>8, <1>9 DEF WorkerStep

LEMMA AdminStep == TypeInv /\ AdminInv /\ [Next]_vars => AdminInv'
<1> SUFFICES ASSUME TypeInv, AdminInv, [Next]_vars PROVE AdminInv'
    OBVIOUS
<1>1. ASSUME NEW w \in Workers, WorkerStep(w) \/ HandlerFails(w) PROVE AdminInv'
    BY <1>1, AdminWorker
<1>2. ASSUME NEW w \in Workers, Starts(w) PROVE AdminInv'
    BY <1>2, AdminQuiet DEF Starts, tables
(* A request that changes the tables at once. *)
<1>3. ASSUME UNCHANGED <<users, selfMade, interrupted, worker>>, dismissed => dismissed',
             ROLE_ID_ADMIN \in roles' => ROLE_ID_ADMIN \in roles,
             \A u \in users : <<u, ROLE_ID_ADMIN>> \in grants => <<u, ROLE_ID_ADMIN>> \in grants' \/ dismissed'
      PROVE  AdminInv'
    <2>1. OneSelfMade' /\ CountedAlone'
        BY <1>3, SelfMadeQuiet DEF AdminInv
    <2>2. FirstIsPromoted'
        BY <1>3, PromotedQuiet DEF AdminInv
    <2> QED BY <2>1, <2>2 DEF AdminInv
<1>4. ASSUME NEW tok \in tokens, NEW u \in users, DeleteUser(tok, u) PROVE AdminInv'
    <2>1. /\ users' = users \ {u} /\ grants' = {g \in grants : g[1] # u}
          /\ dismissed' = (users' # {} /\ (dismissed \/ <<u, ROLE_ID_ADMIN>> \in grants))
          /\ UNCHANGED <<roles, worker, selfMade, interrupted>>
        BY <1>4 DEF DeleteUser
    <2>2. OneSelfMade' /\ CountedAlone'
        BY <2>1, SelfMadeQuiet DEF AdminInv
    <2>3. FirstIsPromoted'
        <3> SUFFICES ASSUME users' # {}, ROLE_ID_ADMIN \in roles, ~dismissed', ~interrupted PROVE HasAdmin'
            BY <2>1 DEF FirstIsPromoted
        <3>1. ~dismissed /\ <<u, ROLE_ID_ADMIN>> \notin grants
            BY <2>1
        <3>2. \A w \in Workers : ~Promoting(w)
            BY <2>1 DEF Promoting
        <3>3. HasAdmin
            BY <3>1, <3>2 DEF AdminInv, FirstIsPromoted
        <3>4. PICK v \in users : <<v, ROLE_ID_ADMIN>> \in grants
            BY <3>3 DEF HasAdmin
        <3>5. v \in users' /\ <<v, ROLE_ID_ADMIN>> \in grants'
            BY <2>1, <3>1, <3>4
        <3> QED BY <3>5 DEF HasAdmin
    <2> QED BY <2>2, <2>3 DEF AdminInv
<1>5. ASSUME NEW tok \in tokens, NEW u \in users, NEW r \in roles, AssignRole(tok, u, r) PROVE AdminInv'
    BY <1>3, <1>5 DEF AssignRole, AddRole, adminHistory
<1>6. ASSUME NEW tok \in tokens, NEW u \in users, NEW r \in roles, UnassignRole(tok, u, r) PROVE AdminInv'
    BY <1>3, <1>6 DEF UnassignRole
<1>7. ASSUME NEW tok \in tokens, NEW ps \in RolePerms, CreateRole(tok, ps) PROVE AdminInv'
    <2>1. nextRole # ROLE_ID_ADMIN
        BY DEF TypeInv, Fresh, ROLE_ID_ADMIN
    <2> QED BY <1>3, <1>7, <2>1 DEF CreateRole, adminHistory
<1>8. ASSUME NEW tok \in tokens, NEW ps \in RolePerms, NEW r \in roles, EditRole(tok, r, ps) PROVE AdminInv'
    BY <1>3, <1>8 DEF EditRole, adminHistory
<1>9. ASSUME NEW tok \in tokens, NEW r \in roles, DeleteRole(tok, r) PROVE AdminInv'
    BY <1>3, <1>9 DEF DeleteRole, adminHistory
<1>10. CASE Tick \/ UNCHANGED vars
    BY <1>3, <1>10 DEF Tick, vars, tables, adminHistory
<1> QED BY <1>1, <1>2, <1>4, <1>5, <1>6, <1>7, <1>8, <1>9, <1>10, Steps

LEMMA AdminInvariant == Spec => []AdminInv
<1>1. Init => AdminInv
    BY DEF Init, AdminInv, OneSelfMade, CountedAlone, About, FirstIsPromoted
<1> QED BY <1>1, InitTypeInv, TypeInvStep, AdminStep, PTL DEF Spec

(* However the signups overlap, insert makes at most one of the existing users
   admin for being the first. *)
THEOREM SelfMadeAdminUnique == Spec => []OneSelfMadeAdmin
<1>1. AdminInv => OneSelfMadeAdmin
    <2> SUFFICES ASSUME AdminInv PROVE Cardinality(selfMade \cap users) <= 1
        BY DEF OneSelfMadeAdmin
    <2>1. CASE selfMade \cap users = {}
        BY <2>1, FS_EmptySet
    <2>2. CASE selfMade \cap users # {}
        <3>1. PICK x : selfMade \cap users = {x}
            BY <2>2 DEF AdminInv, OneSelfMade
        <3> QED BY <3>1, FS_Singleton
    <2> QED BY <2>1, <2>2
<1> QED BY <1>1, AdminInvariant, PTL

(* After a setup in which no two first signups overlapped and none failed
   halfway, there is an admin until one is removed on request. *)
THEOREM SetupLeavesAdmin == Spec => []AdminUnlessInterrupted
<1>1. AdminInv => AdminUnlessInterrupted
    BY DEF AdminInv, FirstIsPromoted, Promoting, HasAdmin, AdminUnlessInterrupted, SetUp
<1> QED BY <1>1, AdminInvariant, PTL
=============================================================================
