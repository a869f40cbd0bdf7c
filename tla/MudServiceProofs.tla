-------------------------- MODULE MudServiceProofs --------------------------
(***************************************************************************)
(* Proofs about MudService, for every set of profiles and tasks and every  *)
(* bound.                                                                  *)
(***************************************************************************)
EXTENDS MudService, TLAPS

(* A task that works on a profile knows which; needed to type the writes. *)
HasUrl == \A t \in Tasks : task[t].pc \notin {"idle", "next", "bump"} => task[t].url \in Urls

TypeInv == MudTypeOK /\ HasUrl

LEMMA EmptyRowType == EmptyRow \in MudRow
BY DEF EmptyRow, MudRow, NoRevision, NoOverride

LEMMA IdleTaskType == IdleTask \in TaskStates /\ IdleTask.pc = "idle"
BY EmptyRowType DEF IdleTask, TaskStates, Ops, NoOverride

LEMMA UpsertType ==
    ASSUME MudTypeOK, NEW u \in Urls, NEW r \in MudRow, UpsertMud(u, r)
    PROVE  /\ present' \subseteq Urls /\ unannounced' \subseteq Urls
           /\ mud' \in [Urls -> MudRow]
BY DEF UpsertMud, MudTypeOK

LEMMA AcknowledgeType ==
    ASSUME MudTypeOK, NEW u \in Urls, NEW o \in Nat, NEW t \in Tasks, Acknowledge(t, u, o)
    PROVE  acked' \in [Urls -> Nat] /\ raced' \subseteq Urls /\ forgotten' \subseteq Urls
BY DEF Acknowledge, MudTypeOK

(* What the steps do to the task that takes them. *)
LEMMA MoveType ==
    ASSUME MudTypeOK, HasUrl, NEW t \in Tasks,
           NEW s \in TaskStates, task' = [task EXCEPT ![t] = s],
           s.pc \notin {"idle", "next", "bump"} => s.url \in Urls
    PROVE  task' \in [Tasks -> TaskStates] /\ HasUrl'
BY DEF MudTypeOK, HasUrl

LEMMA ReturnType ==
    ASSUME MudTypeOK, HasUrl, NEW t \in Tasks, Done(t) \/ Fail(t)
    PROVE  task' \in [Tasks -> TaskStates] /\ HasUrl'
<1>1. CASE task' = [task EXCEPT ![t] = IdleTask]
    BY <1>1, IdleTaskType, MoveType
<1>2. CASE Goto(t, "next")
    <2>1. task[t] \in TaskStates
        BY DEF MudTypeOK
    <2>2. [task[t] EXCEPT !.pc = "next"] \in TaskStates /\ [task[t] EXCEPT !.pc = "next"].pc = "next"
        BY <2>1 DEF TaskStates
    <2>3. task' = [task EXCEPT ![t] = [task[t] EXCEPT !.pc = "next"]]
        BY <1>2 DEF Goto
    <2> QED BY <2>2, <2>3, MoveType
<1> QED BY <1>1, <1>2 DEF Done, Fail

LEMMA GotoType ==
    ASSUME MudTypeOK, HasUrl, NEW t \in Tasks,
           NEW p \in {"lookup", "insert", "bump", "delete"}, Goto(t, p), task[t].url \in Urls \/ p = "bump"
    PROVE  task' \in [Tasks -> TaskStates] /\ HasUrl'
<1>1. task[t] \in TaskStates
    BY DEF MudTypeOK
<1> DEFINE s == [task[t] EXCEPT !.pc = p]
<1>2. s \in TaskStates /\ s.pc = p /\ s.url = task[t].url
    BY <1>1 DEF TaskStates
<1>3. task' = [task EXCEPT ![t] = s]
    BY DEF Goto
<1> QED BY <1>2, <1>3, MoveType

-----------------------------------------------------------------------------
LEMMA TypeInvStep == TypeInv /\ [Next]_vars => TypeInv'
<1> SUFFICES ASSUME MudTypeOK, HasUrl, [Next]_vars PROVE TypeInv'
    BY DEF TypeInv
<1> USE DEF TypeInv
<1>0. \A t \in Tasks : task[t] \in TaskStates
    BY DEF MudTypeOK
<1>1. ASSUME NEW t \in Tasks, NEW op \in Ops \ {"job"}, NEW u \in Urls, Begin(t, op, u) PROVE TypeInv'
    <2> DEFINE s == [IdleTask EXCEPT !.op = op, !.pc = FirstStep(op), !.url = u, !.ovr = requests + 1]
    <2>2. FirstStep(op) \in {"lookup", "exists", "get"}
        BY DEF FirstStep, Ops
    <2>3. requests + 1 \in Nat
        BY DEF MudTypeOK
    <2>4. s \in TaskStates /\ s.url = u
        BY <2>2, <2>3, IdleTaskType DEF TaskStates
    <2>5. task' = [task EXCEPT ![t] = s]
        BY <1>1 DEF Begin
    <2>1. task' \in [Tasks -> TaskStates] /\ HasUrl'
        BY <2>4, <2>5, MoveType
    <2> QED BY <1>1, <2>1 DEF Begin, MudTypeOK, rowsVars, env, history
<1>2. ASSUME NEW t \in Tasks, StartJob(t) PROVE TypeInv'
    <2> DEFINE s == [IdleTask EXCEPT !.op = "job", !.pc = "next", !.todo = Outdated]
    <2>2. Outdated \subseteq Urls
        BY DEF Outdated, MudTypeOK
    <2>3. s \in TaskStates /\ s.pc = "next"
        BY <2>2, IdleTaskType DEF TaskStates, Ops
    <2>4. task' = [task EXCEPT ![t] = s]
        BY <1>2 DEF StartJob
    <2>1. task' \in [Tasks -> TaskStates] /\ HasUrl'
        BY <2>3, <2>4, MoveType
    <2> QED BY <1>2, <2>1 DEF StartJob, MudTypeOK, rowsVars, env, history
<1>3. ASSUME NEW t \in Tasks, JobNext(t) PROVE TypeInv'
    <2>1. task' \in [Tasks -> TaskStates] /\ HasUrl'
        <3>1. CASE Goto(t, "bump")
            BY <3>1, GotoType
        <3>2. ASSUME NEW u \in task[t].todo,
                     task' = [task EXCEPT ![t].pc = "lookup", ![t].url = u, ![t].todo = @ \ {u}]
              PROVE  task' \in [Tasks -> TaskStates] /\ HasUrl'
            <4> DEFINE s == [task[t] EXCEPT !.pc = "lookup", !.url = u, !.todo = @ \ {u}]
            <4>1. s \in TaskStates /\ s.url \in Urls
                BY <1>0 DEF TaskStates
            <4>2. task' = [task EXCEPT ![t] = s]
                BY <3>2
            <4> QED BY <4>1, <4>2, MoveType
        <3> QED BY <1>3, <3>1, <3>2 DEF JobNext
    <2> QED BY <1>3, <2>1 DEF JobNext, MudTypeOK, rowsVars, env, history
<1>4. ASSUME NEW t \in Tasks, Lookup(t) PROVE TypeInv'
    <2>1. task' \in [Tasks -> TaskStates] /\ HasUrl'
        <3>0. task[t].url \in Urls
            BY <1>4 DEF Lookup, HasUrl
        <3>1. CASE Done(t) \/ Fail(t)
            BY <3>1, ReturnType
        <3>2. ASSUME NEW b \in BOOLEAN,
                     task' = [task EXCEPT ![t].pc = "fetch", ![t].had = b, ![t].row = mud[task[t].url]]
              PROVE  task' \in [Tasks -> TaskStates] /\ HasUrl'
            <4> DEFINE s == [task[t] EXCEPT !.pc = "fetch", !.had = b, !.row = mud[task[t].url]]
            <4>1. s \in TaskStates /\ s.url = task[t].url
                BY <1>0, <3>0 DEF TaskStates, MudTypeOK
            <4>2. task' = [task EXCEPT ![t] = s]
                BY <3>2
            <4> QED BY <3>0, <4>1, <4>2, MoveType
        <3>3. (task[t].url \in present) \in BOOLEAN
            OBVIOUS
        <3> QED BY <1>4, <3>1, <3>2, <3>3 DEF Lookup, LookupRow
    <2> QED BY <1>4, <2>1 DEF Lookup, MudTypeOK, rowsVars, env, history
<1>5. ASSUME NEW t \in Tasks, LookupFails(t) PROVE TypeInv'
    <2>1. task' \in [Tasks -> TaskStates] /\ HasUrl'
        <3>0. task[t].url \in Urls
            BY <1>5 DEF LookupFails, HasUrl
        <3>1. CASE Done(t) \/ Fail(t)
            BY <3>1, ReturnType
        <3>2. ASSUME NEW b \in BOOLEAN,
                     task' = [task EXCEPT ![t].pc = "fetch", ![t].had = b, ![t].row = mud[task[t].url]]
              PROVE  task' \in [Tasks -> TaskStates] /\ HasUrl'
            <4> DEFINE s == [task[t] EXCEPT !.pc = "fetch", !.had = b, !.row = mud[task[t].url]]
            <4>1. s \in TaskStates /\ s.url = task[t].url
                BY <1>0, <3>0 DEF TaskStates, MudTypeOK
            <4>2. task' = [task EXCEPT ![t] = s]
                BY <3>2
            <4> QED BY <3>0, <4>1, <4>2, MoveType
        <3> QED BY <1>5, <3>1, <3>2 DEF LookupFails, LookupRow
    <2>2. forgotten' \subseteq Urls
        BY <1>5 DEF LookupFails, HasUrl, MudTypeOK
    <2> QED BY <1>5, <2>1, <2>2 DEF LookupFails, Fault, MudTypeOK, rowsVars, env, history
<1>6. ASSUME NEW t \in Tasks, Fetch(t) PROVE TypeInv'
    <2> DEFINE r == [rev |-> published, ovr |-> IF task[t].had THEN task[t].row.ovr ELSE NoOverride,
                     exp |-> now + Validity]
               s == [task[t] EXCEPT !.pc = "store", !.row = r]
    <2>2. task[t].row.ovr \in Nat
        BY <1>0 DEF TaskStates, MudRow
    <2>3. r \in MudRow
        BY <2>2, TimeAssumption DEF MudRow, MudTypeOK, NoOverride
    <2>4. s \in TaskStates /\ s.url = task[t].url
        BY <1>0, <2>3 DEF TaskStates
    <2>5. task' = [task EXCEPT ![t] = s] /\ task[t].url \in Urls
        BY <1>6 DEF Fetch, HasUrl
    <2>1. task' \in [Tasks -> TaskStates] /\ HasUrl'
        BY <2>4, <2>5, MoveType
    <2> QED BY <1>6, <2>1 DEF Fetch, MudTypeOK, rowsVars, env, history
<1>7. ASSUME NEW t \in Tasks, FetchFails(t) PROVE TypeInv'
    <2>1. task' \in [Tasks -> TaskStates] /\ HasUrl'
        BY <1>7, ReturnType DEF FetchFails
    <2> QED BY <1>7, <2>1 DEF FetchFails, MudTypeOK, rowsVars, env, history
<1>8. ASSUME NEW t \in Tasks, Store(t) PROVE TypeInv'
    <2>1. task' \in [Tasks -> TaskStates] /\ HasUrl'
        BY <1>8, ReturnType DEF Store
    <2>2. task[t].url \in Urls /\ task[t].row \in MudRow
        BY <1>0, <1>8 DEF Store, HasUrl, TaskStates
    <2>3. present' \subseteq Urls /\ unannounced' \subseteq Urls /\ mud' \in [Urls -> MudRow]
        BY <1>8, <2>2, UpsertType DEF Store
    <2> QED BY <1>8, <2>1, <2>3 DEF Store, MudTypeOK, rowsVars, env, history
<1>9. ASSUME NEW t \in Tasks, CreateExists(t) PROVE TypeInv'
    <2>1. task' \in [Tasks -> TaskStates] /\ HasUrl'
        <3>1. task[t].url \in Urls
            BY <1>9 DEF CreateExists, HasUrl
        <3> QED BY <1>9, <3>1, ReturnType, GotoType DEF CreateExists
    <2> QED BY <1>9, <2>1 DEF CreateExists, MudTypeOK, rowsVars, env, history
<1>10. ASSUME NEW t \in Tasks, CreateInsert(t) PROVE TypeInv'
    <2>1. task' \in [Tasks -> TaskStates] /\ HasUrl'
        BY <1>10, ReturnType DEF CreateInsert
    <2> DEFINE u == task[t].url
               r == [rev |-> NoRevision, ovr |-> task[t].ovr, exp |-> Forever]
    <2>2. u \in Urls /\ task[t].ovr \in Nat
        BY <1>0, <1>10 DEF CreateInsert, HasUrl, TaskStates
    <2>3. r \in MudRow
        BY <2>2, TimeAssumption DEF MudRow, NoRevision, Forever
    <2>4. CASE u \in present
        BY <1>10, <2>1, <2>4 DEF CreateInsert, MudTypeOK, rowsVars, env, history
    <2>5. CASE u \notin present
        <3>1. UpsertMud(u, r) /\ Acknowledge(t, u, task[t].ovr)
            BY <1>10, <2>5 DEF CreateInsert
        <3>2. present' \subseteq Urls /\ unannounced' \subseteq Urls /\ mud' \in [Urls -> MudRow]
            BY <2>2, <2>3, <3>1, UpsertType
        <3>3. acked' \in [Urls -> Nat] /\ raced' \subseteq Urls /\ forgotten' \subseteq Urls
            BY <2>2, <3>1, AcknowledgeType
        <3>4. gone' = gone
            BY <1>10, <2>5 DEF CreateInsert
        <3> QED BY <1>10, <2>1, <3>2, <3>3, <3>4 DEF CreateInsert, MudTypeOK, env
    <2> QED BY <2>4, <2>5
<1>11. ASSUME NEW t \in Tasks, Get(t) PROVE TypeInv'
    <2>1. task' \in [Tasks -> TaskStates] /\ HasUrl'
        <3>0. task[t].url \in Urls
            BY <1>11 DEF Get, HasUrl
        <3>1. CASE Fail(t)
            BY <3>1, ReturnType
        <3>2. CASE ~Fail(t)
            <4> DEFINE q == IF task[t].op = "update" THEN "put" ELSE "used"
                       r == [mud[task[t].url] EXCEPT !.ovr = task[t].ovr]
                       s == [task[t] EXCEPT !.pc = q, !.row = r]
            <4>1. r \in MudRow
                BY <1>0, <3>0 DEF TaskStates, MudTypeOK, MudRow
            <4>2. s \in TaskStates /\ s.url = task[t].url
                BY <1>0, <4>1 DEF TaskStates
            <4>3. task' = [task EXCEPT ![t] = s]
                BY <1>11, <3>2 DEF Get
            <4> QED BY <3>0, <4>2, <4>3, MoveType
        <3> QED BY <3>1, <3>2
    <2> QED BY <1>11, <2>1 DEF Get, MudTypeOK, rowsVars, env, history
<1>12. ASSUME NEW t \in Tasks, Put(t) PROVE TypeInv'
    <2>1. task' \in [Tasks -> TaskStates] /\ HasUrl'
        BY <1>12, GotoType DEF Put
    <2>2. task[t].url \in Urls /\ task[t].row \in MudRow
        BY <1>0, <1>12 DEF Put, HasUrl, TaskStates
    <2>3. present' \subseteq Urls /\ unannounced' \subseteq Urls /\ mud' \in [Urls -> MudRow]
        BY <1>12, <2>2, UpsertType DEF Put
    <2>4. acked' \in [Urls -> Nat] /\ raced' \subseteq Urls /\ forgotten' \subseteq Urls
        <3>1. task[t].row.ovr \in Nat
            BY <2>2 DEF MudRow
        <3> QED BY <1>12, <2>2, <3>1, AcknowledgeType DEF Put
    <2> QED BY <1>12, <2>1, <2>3, <2>4 DEF Put, MudTypeOK, rowsVars, env, history
<1>13. ASSUME NEW t \in Tasks, Bump(t) PROVE TypeInv'
    <2>1. task' \in [Tasks -> TaskStates] /\ HasUrl'
        BY <1>13, ReturnType DEF Bump
    <2> QED BY <1>13, <2>1 DEF Bump, MudTypeOK, rowsVars, env, history
<1>14. ASSUME NEW t \in Tasks, IsMudUsed(t) PROVE TypeInv'
    <2>1. task' \in [Tasks -> TaskStates] /\ HasUrl'
        <3>1. task[t].url \in Urls
            BY <1>14 DEF IsMudUsed, HasUrl
        <3> QED BY <1>14, <3>1, ReturnType, GotoType DEF IsMudUsed
    <2> QED BY <1>14, <2>1 DEF IsMudUsed, MudTypeOK, rowsVars, env, history
<1>15. ASSUME NEW t \in Tasks, Delete(t) PROVE TypeInv'
    <2>1. task' \in [Tasks -> TaskStates] /\ HasUrl'
        BY <1>15, ReturnType DEF Delete
    <2>2. task[t].url \in Urls /\ 0 \in Nat
        BY <1>15 DEF Delete, HasUrl
    <2>3. CASE task[t].url \in used
        BY <1>15, <2>1, <2>3 DEF Delete, MudTypeOK, env, history
    <2>4. CASE task[t].url \notin used
        <3>1. acked' \in [Urls -> Nat] /\ raced' \subseteq Urls /\ forgotten' \subseteq Urls
            BY <1>15, <2>2, <2>4, AcknowledgeType DEF Delete, NoOverride
        <3>2. gone' \subseteq Urls
            BY <1>15, <2>2, <2>4 DEF Delete, MudTypeOK
        <3> QED BY <1>15, <2>1, <2>4, <3>1, <3>2 DEF Delete, MudTypeOK, env
    <2> QED BY <2>3, <2>4
<1>16. ASSUME NEW u \in Urls, Use(u) PROVE TypeInv'
    BY <1>16 DEF Use, MudTypeOK, HasUrl, rowsVars, env, history
<1>17. CASE Tick
    BY <1>17, TimeAssumption DEF Tick, MudTypeOK, HasUrl, rowsVars, history
<1>18. CASE Publish
    BY <1>18 DEF Publish, MudTypeOK, HasUrl, rowsVars, history
<1>19. CASE Outage
    BY <1>19 DEF Outage, MudTypeOK, HasUrl, rowsVars, history
<1>20. CASE UNCHANGED vars
    BY <1>20 DEF vars, MudTypeOK, HasUrl
<1>21. ASSUME NEW t \in Tasks, CreateExistsFails(t) PROVE TypeInv'
    <2>1. task' \in [Tasks -> TaskStates] /\ HasUrl'
        <3>1. task[t].url \in Urls
            BY <1>21 DEF CreateExistsFails, HasUrl
        <3> QED BY <1>21, <3>1, GotoType DEF CreateExistsFails
    <2> QED BY <1>21, <2>1 DEF CreateExistsFails, Fault, MudTypeOK, rowsVars, env, history
<1>22. ASSUME NEW t \in Tasks, StatementFails(t) PROVE TypeInv'
    <2>1. task' \in [Tasks -> TaskStates] /\ HasUrl'
        BY <1>22, ReturnType DEF StatementFails
    <2> QED BY <1>22, <2>1 DEF StatementFails, Fault, MudTypeOK, rowsVars, env, history
<1> QED
    BY <1>1, <1>2, <1>3, <1>4, <1>5, <1>6, <1>7, <1>8, <1>9, <1>10, <1>11, <1>12, <1>13, <1>14, <1>15, <1>16, <1>17, <1>18, <1>19, <1>20, <1>21, <1>22
       DEF Next, TaskStep, JobFindsNothing

LEMMA InitTypeInv == Init => TypeInv
BY EmptyRowType, IdleTaskType, TimeAssumption
   DEF Init, TypeInv, MudTypeOK, HasUrl, NoOverride

(* Every handler, download, fault and clock tick leaves the table mud_data and
   the running tasks well formed. *)
THEOREM MudTypeCorrect == Spec => []MudTypeOK
<1>1. TypeInv => MudTypeOK
    BY DEF TypeInv
<1> QED BY <1>1, InitTypeInv, TypeInvStep, PTL DEF Spec

-----------------------------------------------------------------------------
(* The override a refresh is going to store. *)
Carried(t) == IF task[t].pc = "store" \/ task[t].had THEN task[t].row.ovr ELSE NoOverride

(* o is what the user last said of the override of u, or nothing because a
   lookup of u failed. *)
Kept(u, o) == o = acked[u] \/ (u \in forgotten /\ o = NoOverride)

(* OverrideKeptUnlessRaced is inductive only together with what the refreshes
   under way carry and with what an absent row stands for. *)
AbsentHasNoOverride == \A u \in Urls \ present : u \notin raced => acked[u] = NoOverride
RefreshCarriesOverride ==
    \A t \in Tasks, u \in Urls : Refreshing(t, u) /\ u \notin raced => Kept(u, Carried(t))

OverrideInv == OverrideKeptUnlessRaced /\ AbsentHasNoOverride /\ RefreshCarriesOverride

(* A step that leaves the rows and the history alone. *)
LEMMA RowsCarry ==
    ASSUME TypeInv, OverrideInv, UNCHANGED <<rowsVars, acked>>, raced \subseteq raced',
           forgotten \subseteq forgotten',
           \A t \in Tasks, u \in Urls : Refreshing(t, u)' /\ u \notin raced' =>
                \/ Refreshing(t, u) /\ Carried(t)' = Carried(t)
                \/ Kept(u, Carried(t))'
    PROVE  OverrideInv'
BY DEF TypeInv, MudTypeOK, OverrideInv, OverrideKeptUnlessRaced, AbsentHasNoOverride,
       RefreshCarriesOverride, Kept, rowsVars

(* A task that is not refreshing after its step. *)
LEMMA QuietCarry ==
    ASSUME TypeInv, OverrideInv, UNCHANGED <<rowsVars, acked>>, raced \subseteq raced',
           forgotten \subseteq forgotten',
           NEW t \in Tasks, \A s \in Tasks \ {t} : task'[s] = task[s],
           task'[t].pc \notin {"fetch", "store"}
    PROVE  OverrideInv'
<1>1. ASSUME NEW s \in Tasks, NEW u \in Urls, Refreshing(s, u)'
      PROVE  Refreshing(s, u) /\ Carried(s)' = Carried(s)
    <2>1. s # t
        BY <1>1 DEF Refreshing
    <2> QED BY <1>1, <2>1 DEF Refreshing, Carried
<1> QED BY <1>1, RowsCarry

(* After a return the task is not refreshing. *)
LEMMA ReturnQuiet ==
    ASSUME TypeInv, NEW t \in Tasks, Done(t) \/ Fail(t) \/ \E p \in {"lookup", "insert", "delete", "bump"} : Goto(t, p)
    PROVE  task'[t].pc \notin {"fetch", "store"} /\ \A s \in Tasks \ {t} : task'[s] = task[s]
<1>1. task[t] \in TaskStates /\ task \in [Tasks -> TaskStates]
    BY DEF TypeInv, MudTypeOK
<1> QED BY <1>1, IdleTaskType DEF Done, Fail, Goto, TaskStates

(* A user's write of the override of u, or the removal of the row. *)
LEMMA AcknowledgeCarry ==
    ASSUME TypeInv, OverrideInv, NEW t \in Tasks, NEW u \in Urls, NEW o \in Nat,
           Acknowledge(t, u, o), \A s \in Tasks \ {t} : task'[s] = task[s],
           task'[t].pc \notin {"fetch", "store"},
           \A x \in Urls \ {u} : mud'[x] = mud[x] /\ (x \in present' <=> x \in present),
           present' \subseteq Urls,
           u \in present' => mud'[u].ovr = o,
           u \notin present' => o = NoOverride
    PROVE  OverrideInv'
<1> USE DEF TypeInv, MudTypeOK
<1>1. /\ acked'[u] = o
      /\ \A x \in Urls \ {u} : 
            /\ acked'[x] = acked[x] /\ (x \in raced' <=> x \in raced)
            /\ x \in forgotten' <=> x \in forgotten
    BY DEF Acknowledge
<1>2. OverrideKeptUnlessRaced'
    BY <1>1 DEF OverrideInv, OverrideKeptUnlessRaced
<1>3. AbsentHasNoOverride'
    BY <1>1 DEF OverrideInv, AbsentHasNoOverride
<1>4. ASSUME NEW s \in Tasks, NEW x \in Urls, Refreshing(s, x)', x \notin raced'
      PROVE  Kept(x, Carried(s))'
    <2>1. s # t
        BY <1>4 DEF Refreshing
    <2>2. Refreshing(s, x) /\ Carried(s)' = Carried(s)
        BY <1>4, <2>1 DEF Refreshing, Carried
    <2>3. CASE x = u
        BY <1>4, <2>1, <2>2, <2>3 DEF Acknowledge
    <2>4. CASE x # u
        BY <1>1, <1>4, <2>2, <2>4 DEF OverrideInv, RefreshCarriesOverride, Kept
    <2> QED BY <2>3, <2>4
<1>5. RefreshCarriesOverride'
    BY <1>4 DEF RefreshCarriesOverride
<1> QED BY <1>2, <1>3, <1>5 DEF OverrideInv

LEMMA OverrideStep == TypeInv /\ OverrideInv /\ [Next]_vars => OverrideInv'
<1> SUFFICES ASSUME TypeInv, OverrideInv, [Next]_vars PROVE OverrideInv'
    OBVIOUS
<1>0. \A t \in Tasks : task[t] \in TaskStates
    BY DEF TypeInv, MudTypeOK
<1>01. task \in [Tasks -> TaskStates]
    BY DEF TypeInv, MudTypeOK
<1>1. ASSUME NEW t \in Tasks, NEW op \in Ops \ {"job"}, NEW u \in Urls, Begin(t, op, u) PROVE OverrideInv'
    <2>1. task'[t].pc \notin {"fetch", "store"} /\ \A s \in Tasks \ {t} : task'[s] = task[s]
        <3>1. FirstStep(op) \in {"lookup", "exists", "get"}
            BY DEF FirstStep, Ops
        <3> QED BY <1>01, <1>1, <3>1 DEF Begin, IdleTask
    <2> QED BY <1>1, <2>1, QuietCarry DEF Begin, rowsVars, history
<1>2. ASSUME NEW t \in Tasks, StartJob(t) PROVE OverrideInv'
    <2>1. task'[t].pc \notin {"fetch", "store"} /\ \A s \in Tasks \ {t} : task'[s] = task[s]
        BY <1>01, <1>2 DEF StartJob, IdleTask
    <2> QED BY <1>2, <2>1, QuietCarry DEF StartJob, rowsVars, history
<1>3. ASSUME NEW t \in Tasks, JobNext(t) PROVE OverrideInv'
    <2>1. task'[t].pc \notin {"fetch", "store"} /\ \A s \in Tasks \ {t} : task'[s] = task[s]
        <3>1. task[t] \in TaskStates
            BY <1>0
        <3>2. CASE Goto(t, "bump")
            BY <3>2, ReturnQuiet
        <3>3. ASSUME NEW u \in task[t].todo,
                     task' = [task EXCEPT ![t].pc = "lookup", ![t].url = u, ![t].todo = @ \ {u}]
              PROVE  task'[t].pc = "lookup" /\ \A s \in Tasks \ {t} : task'[s] = task[s]
            BY <1>01, <3>1, <3>3 DEF TaskStates
        <3> QED BY <1>3, <3>2, <3>3 DEF JobNext
    <2> QED BY <1>3, <2>1, QuietCarry DEF JobNext, rowsVars, history
<1>4. ASSUME NEW t \in Tasks, Lookup(t) PROVE OverrideInv'
    <2> DEFINE u0 == task[t].url
    <2>1. u0 \in Urls
        BY <1>4 DEF Lookup, TypeInv, HasUrl
    <2>2. CASE Done(t) \/ Fail(t)
        BY <1>4, <2>2, ReturnQuiet, QuietCarry DEF Lookup, rowsVars, history
    <2>3. CASE ~(Done(t) \/ Fail(t))
        <3>1. task' = [task EXCEPT ![t].pc = "fetch", ![t].had = (u0 \in present), ![t].row = mud[u0]]
            BY <1>4, <2>3 DEF Lookup, LookupRow
        <3>2. \A s \in Tasks \ {t} : task'[s] = task[s]
            BY <1>01, <3>1
        <3>3. task'[t].url = u0 /\ task'[t].pc = "fetch" /\ task'[t].row = mud[u0]
            BY <1>0, <1>01, <3>1 DEF TaskStates
        <3>4. task'[t].had <=> u0 \in present
            BY <1>0, <1>01, <3>1 DEF TaskStates
        <3>5. ASSUME NEW s \in Tasks, NEW u \in Urls, Refreshing(s, u)', u \notin raced'
              PROVE  (Refreshing(s, u) /\ Carried(s)' = Carried(s)) \/ Kept(u, Carried(s))'
            <4>1. CASE s # t
                BY <3>2, <3>5, <4>1 DEF Refreshing, Carried
            <4>2. CASE s = t
                <5>1. u = u0
                    BY <3>3, <3>5, <4>2 DEF Refreshing
                <5>2. u \notin raced
                    BY <1>4, <3>5 DEF Lookup, history
                <5>3. CASE u0 \in present
                    <6>1. Carried(s)' = mud[u0].ovr
                        BY <3>3, <3>4, <4>2, <5>3 DEF Carried
                    <6>2. Kept(u0, mud[u0].ovr)
                        BY <5>1, <5>2, <5>3 DEF Kept, OverrideInv, OverrideKeptUnlessRaced
                    <6>3. acked' = acked /\ forgotten' = forgotten
                        BY <1>4 DEF Lookup, history
                    <6> QED BY <5>1, <6>1, <6>2, <6>3 DEF Kept
                <5>4. CASE u0 \notin present
                    BY <1>4, <2>1, <3>3, <3>4, <4>2, <5>1, <5>2, <5>4
                       DEF Carried, Kept, Lookup, history, OverrideInv, AbsentHasNoOverride
                <5> QED BY <5>3, <5>4
            <4> QED BY <4>1, <4>2
        <3>6. UNCHANGED <<rowsVars, acked>> /\ raced \subseteq raced' /\ forgotten \subseteq forgotten'
            BY <1>4 DEF Lookup, rowsVars, history
        <3> QED BY <3>5, <3>6, RowsCarry
    <2> QED BY <2>2, <2>3
<1>5. ASSUME NEW t \in Tasks, LookupFails(t) PROVE OverrideInv'
    <2> DEFINE u0 == task[t].url
    <2>1. u0 \in Urls
        BY <1>5 DEF LookupFails, TypeInv, HasUrl
    <2>2. CASE Done(t) \/ Fail(t)
        BY <1>5, <2>2, ReturnQuiet, QuietCarry DEF LookupFails, rowsVars, history
    <2>3. CASE ~(Done(t) \/ Fail(t))
        <3>1. task' = [task EXCEPT ![t].pc = "fetch", ![t].had = FALSE, ![t].row = mud[u0]]
            BY <1>5, <2>3 DEF LookupFails, LookupRow
        <3>2. \A s \in Tasks \ {t} : task'[s] = task[s]
            BY <1>01, <3>1
        <3>3. task'[t].url = u0 /\ task'[t].pc = "fetch" /\ task'[t].row = mud[u0]
            BY <1>0, <1>01, <3>1 DEF TaskStates
        <3>4. task'[t].had <=> FALSE
            BY <1>0, <1>01, <3>1 DEF TaskStates
        <3>5. ASSUME NEW s \in Tasks, NEW u \in Urls, Refreshing(s, u)', u \notin raced'
              PROVE  (Refreshing(s, u) /\ Carried(s)' = Carried(s)) \/ Kept(u, Carried(s))'
            <4>1. CASE s # t
                BY <3>2, <3>5, <4>1 DEF Refreshing, Carried
            <4>2. CASE s = t
                <5>1. u = u0
                    BY <3>3, <3>5, <4>2 DEF Refreshing
                <5>2. Carried(s)' = NoOverride /\ acked' = acked /\ u \notin raced
                    BY <1>5, <3>3, <3>4, <3>5, <4>2 DEF Carried, LookupFails
                <5>3. CASE u0 \in present
                    BY <1>5, <5>1, <5>2, <5>3 DEF LookupFails, Kept
                <5>4. CASE u0 \notin present
                    BY <2>1, <5>1, <5>2, <5>4 DEF Kept, OverrideInv, AbsentHasNoOverride
                <5> QED BY <5>3, <5>4
            <4> QED BY <4>1, <4>2
        <3>6. UNCHANGED <<rowsVars, acked>> /\ raced \subseteq raced' /\ forgotten \subseteq forgotten'
            BY <1>5 DEF LookupFails, rowsVars, history
        <3> QED BY <3>5, <3>6, RowsCarry
    <2> QED BY <2>2, <2>3
<1>6. ASSUME NEW t \in Tasks, Fetch(t) PROVE OverrideInv'
    <2>1. \A s \in Tasks \ {t} : task'[s] = task[s]
        BY <1>01, <1>6 DEF Fetch
    <2>2. /\ task'[t].url = task[t].url /\ task'[t].pc = "store"
          /\ task'[t].row.ovr = Carried(t)
        BY <1>0, <1>01, <1>6 DEF Fetch, TaskStates, Carried
    <2>3. ASSUME NEW s \in Tasks, NEW u \in Urls, Refreshing(s, u)'
          PROVE  Refreshing(s, u) /\ Carried(s)' = Carried(s)
        <3>1. CASE s # t
            BY <2>1, <2>3, <3>1 DEF Refreshing, Carried
        <3>2. CASE s = t
            BY <1>6, <2>2, <2>3, <3>2 DEF Refreshing, Carried, Fetch
        <3> QED BY <3>1, <3>2
    <2> QED BY <1>6, <2>3, RowsCarry DEF Fetch, rowsVars, history
<1>7. ASSUME NEW t \in Tasks, FetchFails(t) PROVE OverrideInv'
    <2>1. task'[t].pc \notin {"fetch", "store"} /\ \A s \in Tasks \ {t} : task'[s] = task[s]
        BY <1>7, ReturnQuiet DEF FetchFails
    <2> QED BY <1>7, <2>1, QuietCarry DEF FetchFails, rowsVars, history
<1>8. ASSUME NEW t \in Tasks, Store(t) PROVE OverrideInv'
    <2> DEFINE u0 == task[t].url
    <2>1. u0 \in Urls /\ task[t].row \in MudRow /\ Refreshing(t, u0) /\ Carried(t) = task[t].row.ovr
        BY <1>0, <1>8 DEF Store, TypeInv, HasUrl, TaskStates, Refreshing, Carried
    <2>2. task'[t].pc \notin {"fetch", "store"} /\ \A s \in Tasks \ {t} : task'[s] = task[s]
        BY <1>8, ReturnQuiet DEF Store
    <2>3. /\ present' = present \cup {u0} /\ acked' = acked /\ raced' = raced /\ forgotten' = forgotten
          /\ mud'[u0] = task[t].row /\ \A x \in Urls \ {u0} : mud'[x] = mud[x]
        BY <1>8, <2>1 DEF Store, UpsertMud, history, TypeInv, MudTypeOK
    <2>4. u0 \notin raced => Kept(u0, mud'[u0].ovr)
        BY <2>1, <2>3 DEF OverrideInv, RefreshCarriesOverride
    <2>5. OverrideKeptUnlessRaced'
        BY <2>3, <2>4 DEF OverrideInv, OverrideKeptUnlessRaced, Kept, TypeInv, MudTypeOK
    <2>6. AbsentHasNoOverride'
        BY <2>3 DEF OverrideInv, AbsentHasNoOverride
    <2>7. ASSUME NEW s \in Tasks, NEW u \in Urls, Refreshing(s, u)'
          PROVE  Refreshing(s, u) /\ Carried(s)' = Carried(s)
        <3>1. s # t
            BY <2>2, <2>7 DEF Refreshing
        <3> QED BY <2>2, <2>7, <3>1 DEF Refreshing, Carried
    <2>8. RefreshCarriesOverride'
        BY <2>3, <2>7 DEF OverrideInv, RefreshCarriesOverride, Kept
    <2> QED BY <2>5, <2>6, <2>8 DEF OverrideInv
<1>9. ASSUME NEW t \in Tasks, CreateExists(t) PROVE OverrideInv'
    <2>1. task'[t].pc \notin {"fetch", "store"} /\ \A s \in Tasks \ {t} : task'[s] = task[s]
        BY <1>9, ReturnQuiet DEF CreateExists
    <2> QED BY <1>9, <2>1, QuietCarry DEF CreateExists, rowsVars, history
<1>10. ASSUME NEW t \in Tasks, CreateInsert(t) PROVE OverrideInv'
    <2> DEFINE u0 == task[t].url
    <2>1. u0 \in Urls /\ task[t].ovr \in Nat
        BY <1>0, <1>10 DEF CreateInsert, TypeInv, HasUrl, TaskStates
    <2>2. task'[t].pc \notin {"fetch", "store"} /\ \A s \in Tasks \ {t} : task'[s] = task[s]
        BY <1>10, ReturnQuiet DEF CreateInsert
    <2>3. CASE u0 \in present
        BY <1>10, <2>2, <2>3, QuietCarry DEF CreateInsert, rowsVars, history
    <2>4. CASE u0 \notin present
        <3>1. /\ present' = present \cup {u0} /\ mud'[u0].ovr = task[t].ovr
              /\ \A x \in Urls \ {u0} : mud'[x] = mud[x]
            BY <1>10, <2>1, <2>4 DEF CreateInsert, UpsertMud, TypeInv, MudTypeOK
        <3>2. Acknowledge(t, u0, task[t].ovr)
            BY <1>10, <2>4 DEF CreateInsert
        <3>3. present' \subseteq Urls
            BY <2>1, <3>1 DEF TypeInv, MudTypeOK
        <3> QED BY <2>1, <2>2, <3>1, <3>2, <3>3, AcknowledgeCarry
    <2> QED BY <2>3, <2>4
<1>11. ASSUME NEW t \in Tasks, Get(t) PROVE OverrideInv'
    <2>1. task'[t].pc \notin {"fetch", "store"} /\ \A s \in Tasks \ {t} : task'[s] = task[s]
        <3>1. CASE Fail(t)
            BY <3>1, ReturnQuiet
        <3>2. CASE ~Fail(t)
            BY <1>0, <1>01, <1>11, <3>2 DEF Get, TaskStates
        <3> QED BY <3>1, <3>2
    <2> QED BY <1>11, <2>1, QuietCarry DEF Get, rowsVars, history
<1>12. ASSUME NEW t \in Tasks, Put(t) PROVE OverrideInv'
    <2> DEFINE u0 == task[t].url
    <2>1. u0 \in Urls /\ task[t].row \in MudRow /\ task[t].row.ovr \in Nat
        BY <1>0, <1>12 DEF Put, TypeInv, HasUrl, TaskStates, MudRow
    <2>2. task'[t].pc \notin {"fetch", "store"} /\ \A s \in Tasks \ {t} : task'[s] = task[s]
        BY <1>12, ReturnQuiet DEF Put
    <2>3. /\ present' = present \cup {u0} /\ mud'[u0].ovr = task[t].row.ovr
          /\ \A x \in Urls \ {u0} : mud'[x] = mud[x]
        BY <1>12, <2>1 DEF Put, UpsertMud, TypeInv, MudTypeOK
    <2>4. Acknowledge(t, u0, task[t].row.ovr)
        BY <1>12 DEF Put
    <2>5. present' \subseteq Urls
        BY <2>1, <2>3 DEF TypeInv, MudTypeOK
    <2> QED BY <2>1, <2>2, <2>3, <2>4, <2>5, AcknowledgeCarry
<1>13. ASSUME NEW t \in Tasks, Bump(t) PROVE OverrideInv'
    <2>1. task'[t].pc \notin {"fetch", "store"} /\ \A s \in Tasks \ {t} : task'[s] = task[s]
        BY <1>13, ReturnQuiet DEF Bump
    <2>2. present' = present /\ mud' = mud /\ acked' = acked /\ raced' = raced /\ forgotten' = forgotten
        BY <1>13 DEF Bump, history
    <2>3. ASSUME NEW s \in Tasks, NEW u \in Urls, Refreshing(s, u)'
          PROVE  Refreshing(s, u) /\ Carried(s)' = Carried(s)
        <3>1. s # t
            BY <2>1, <2>3 DEF Refreshing
        <3> QED BY <2>1, <2>3, <3>1 DEF Refreshing, Carried
    <2> QED BY <2>2, <2>3 DEF OverrideInv, OverrideKeptUnlessRaced, AbsentHasNoOverride,
                               RefreshCarriesOverride, Kept
<1>14. ASSUME NEW t \in Tasks, IsMudUsed(t) PROVE OverrideInv'
    <2>1. task'[t].pc \notin {"fetch", "store"} /\ \A s \in Tasks \ {t} : task'[s] = task[s]
        BY <1>14, ReturnQuiet DEF IsMudUsed
    <2> QED BY <1>14, <2>1, QuietCarry DEF IsMudUsed, rowsVars, history
<1>15. ASSUME NEW t \in Tasks, Delete(t) PROVE OverrideInv'
    <2> DEFINE u0 == task[t].url
    <2>1. u0 \in Urls
        BY <1>15 DEF Delete, TypeInv, HasUrl
    <2>2. task'[t].pc \notin {"fetch", "store"} /\ \A s \in Tasks \ {t} : task'[s] = task[s]
        BY <1>15, ReturnQuiet DEF Delete
    <2>3. CASE u0 \in used
        BY <1>15, <2>2, <2>3, QuietCarry DEF Delete, rowsVars, history
    <2>4. CASE u0 \notin used
        <3>1. present' = present \ {u0} /\ mud' = mud /\ Acknowledge(t, u0, NoOverride)
            BY <1>15, <2>4 DEF Delete
        <3>2. present' \subseteq Urls /\ NoOverride \in Nat
            BY <3>1 DEF TypeInv, MudTypeOK, NoOverride
        <3> QED BY <2>1, <2>2, <3>1, <3>2, AcknowledgeCarry
    <2> QED BY <2>3, <2>4
<1>16. ASSUME UNCHANGED <<rowsVars, task, history>> PROVE OverrideInv'
    BY <1>16, RowsCarry DEF history, Refreshing, Carried
<1>17. ASSUME NEW u \in Urls, Use(u) PROVE OverrideInv'
    BY <1>16, <1>17 DEF Use
<1>18. CASE Tick \/ Publish \/ Outage
    BY <1>16, <1>18 DEF Tick, Publish, Outage
<1>19. CASE UNCHANGED vars
    BY <1>16, <1>19 DEF vars, rowsVars, history
<1>20. ASSUME NEW t \in Tasks, CreateExistsFails(t) PROVE OverrideInv'
    <2>1. task'[t].pc \notin {"fetch", "store"} /\ \A s \in Tasks \ {t} : task'[s] = task[s]
        BY <1>01, <1>0, <1>20 DEF CreateExistsFails, Goto, TaskStates
    <2> QED BY <1>20, <2>1, QuietCarry DEF CreateExistsFails, rowsVars, history
<1>21. ASSUME NEW t \in Tasks, StatementFails(t) PROVE OverrideInv'
    <2>1. task'[t].pc \notin {"fetch", "store"} /\ \A s \in Tasks \ {t} : task'[s] = task[s]
        BY <1>21, ReturnQuiet DEF StatementFails
    <2> QED BY <1>21, <2>1, QuietCarry DEF StatementFails, rowsVars, history
<1> QED
    BY <1>1, <1>2, <1>3, <1>4, <1>5, <1>6, <1>7, <1>8, <1>9, <1>10, <1>11, <1>12, <1>13, <1>14, <1>15, <1>17, <1>18, <1>19, <1>20, <1>21
       DEF Next, TaskStep, JobFindsNothing

(* The override a user stored survives every refresh that looked the profile
   up after it was stored, but for one case: if the lookup itself failed
   (get_mud drops the database's error), the refresh may leave the profile
   without an override, never with another one. *)
THEOREM OverrideSafe == Spec => []OverrideKeptUnlessRaced
<1>1. Init => OverrideInv
    BY IdleTaskType DEF Init, OverrideInv, OverrideKeptUnlessRaced, AbsentHasNoOverride,
                        RefreshCarriesOverride, Refreshing
<1>2. OverrideInv => OverrideKeptUnlessRaced
    BY DEF OverrideInv
<1> QED BY <1>1, <1>2, InitTypeInv, TypeInvStep, OverrideStep, PTL DEF Spec

-----------------------------------------------------------------------------
(* What a row of u looks like: one of a URL came from a file and expires, any
   other is a local profile and does not. *)
RowFits(u, r) ==
    IF u \in Web THEN r.rev # NoRevision /\ r.exp # Forever
    ELSE u \in Custom /\ r.rev = NoRevision /\ r.exp = Forever

(* What a handler in state s is going to write fits too: only URLs are
   downloaded, only other names inserted, and PUT writes back what it read. *)
WritesFit(s) ==
    /\ s.pc \in {"fetch", "store"} => s.url \in Web
    /\ s.pc \in {"store", "put"} => RowFits(s.url, s.row)
    /\ s.pc = "insert" => s.url \in Custom

LocalInv == LocalProfilesStayLocal /\ published # NoRevision /\ \A t \in Tasks : WritesFit(task[t])

(* A task moves to a state whose write fits. *)
LEMMA MoveFits ==
    ASSUME TypeInv, LocalInv, NEW t \in Tasks, NEW s, task' = [task EXCEPT ![t] = s], WritesFit(s)
    PROVE  \A x \in Tasks : WritesFit(task'[x])
BY DEF TypeInv, MudTypeOK, LocalInv

LEMMA GotoFits ==
    ASSUME TypeInv, LocalInv, NEW t \in Tasks, NEW p, Goto(t, p),
           p \in {"lookup", "delete", "bump", "next"} \/ (p = "insert" /\ task[t].url \in Custom)
    PROVE  \A x \in Tasks : WritesFit(task'[x])
<1>1. task[t] \in TaskStates
    BY DEF TypeInv, MudTypeOK
<1> DEFINE s == [task[t] EXCEPT !.pc = p]
<1>2. s.pc = p /\ s.url = task[t].url
    BY <1>1 DEF TaskStates
<1>3. WritesFit(s) /\ task' = [task EXCEPT ![t] = s]
    BY <1>2 DEF WritesFit, Goto
<1> QED BY <1>3, MoveFits

LEMMA ReturnFits ==
    ASSUME TypeInv, LocalInv, NEW t \in Tasks, Done(t) \/ Fail(t)
    PROVE  \A x \in Tasks : WritesFit(task'[x])
<1>1. WritesFit(IdleTask)
    BY IdleTaskType DEF WritesFit
<1> QED BY <1>1, MoveFits, GotoFits DEF Done, Fail

LEMMA UpsertFits ==
    ASSUME TypeInv, LocalInv, NEW u \in Urls, NEW r, UpsertMud(u, r), RowFits(u, r)
    PROVE  LocalProfilesStayLocal'
BY DEF TypeInv, MudTypeOK, LocalInv, LocalProfilesStayLocal, UpsertMud, RowFits

(* The lookup sends only URLs on to the download. *)
LEMMA LookupFits ==
    ASSUME TypeInv, LocalInv, NEW t \in Tasks, NEW b \in BOOLEAN, LookupRow(t, b)
    PROVE  \A x \in Tasks : WritesFit(task'[x])
<1>1. CASE Done(t) \/ Fail(t)
    BY <1>1, ReturnFits
<1>2. CASE ~(Done(t) \/ Fail(t))
    <2> DEFINE s == [task[t] EXCEPT !.pc = "fetch", !.had = b, !.row = mud[task[t].url]]
    <2>1. task' = [task EXCEPT ![t] = s] /\ task[t].url \in Web
        BY <1>2 DEF LookupRow
    <2>2. task[t] \in TaskStates
        BY DEF TypeInv, MudTypeOK
    <2>3. s.pc = "fetch" /\ s.url = task[t].url
        BY <2>2 DEF TaskStates
    <2>4. WritesFit(s)
        BY <2>1, <2>3 DEF WritesFit
    <2> QED BY <2>1, <2>4, MoveFits
<1> QED BY <1>1, <1>2

LEMMA LocalStep == TypeInv /\ LocalInv /\ [Next]_vars => LocalInv'
<1> SUFFICES ASSUME TypeInv, LocalInv, [Next]_vars PROVE LocalInv'
    OBVIOUS
<1>0. \A t \in Tasks : task[t] \in TaskStates /\ WritesFit(task[t])
    BY DEF TypeInv, MudTypeOK, LocalInv
<1> DEFINE Fits == \A x \in Tasks : WritesFit(task'[x])
(* Most steps write no row and publish nothing. *)
<1>01. ASSUME Fits, UNCHANGED <<present, mud, published>> PROVE LocalInv'
    BY <1>01 DEF LocalInv, LocalProfilesStayLocal
<1>1. ASSUME NEW t \in Tasks, NEW op \in Ops \ {"job"}, NEW u \in Urls, Begin(t, op, u) PROVE LocalInv'
    <2> DEFINE s == [IdleTask EXCEPT !.op = op, !.pc = FirstStep(op), !.url = u, !.ovr = requests + 1]
    <2>1. FirstStep(op) \in {"lookup", "exists", "get"} /\ s.pc = FirstStep(op)
        BY DEF FirstStep, Ops, IdleTask
    <2>2. WritesFit(s) /\ task' = [task EXCEPT ![t] = s]
        BY <1>1, <2>1 DEF WritesFit, Begin
    <2>3. Fits
        BY <2>2, MoveFits
    <2> QED BY <1>1, <2>3, <1>01 DEF Begin, rowsVars, env
<1>2. ASSUME NEW t \in Tasks, StartJob(t) PROVE LocalInv'
    <2> DEFINE s == [IdleTask EXCEPT !.op = "job", !.pc = "next", !.todo = Outdated]
    <2>1. s.pc = "next"
        BY DEF IdleTask
    <2>2. WritesFit(s) /\ task' = [task EXCEPT ![t] = s]
        BY <1>2, <2>1 DEF WritesFit, StartJob
    <2>3. Fits
        BY <2>2, MoveFits
    <2> QED BY <1>2, <2>3, <1>01 DEF StartJob, rowsVars, env
<1>3. ASSUME NEW t \in Tasks, JobNext(t) PROVE LocalInv'
    <2>1. ASSUME NEW u \in task[t].todo,
                 task' = [task EXCEPT ![t].pc = "lookup", ![t].url = u, ![t].todo = @ \ {u}]
          PROVE  Fits
        <3> DEFINE s == [task[t] EXCEPT !.pc = "lookup", !.url = u, !.todo = @ \ {u}]
        <3>1. s.pc = "lookup"
            BY <1>0 DEF TaskStates
        <3>2. WritesFit(s) /\ task' = [task EXCEPT ![t] = s]
            BY <2>1, <3>1 DEF WritesFit
        <3> QED BY <3>2, MoveFits
    <2>2. Fits
        BY <1>3, <2>1, GotoFits DEF JobNext
    <2> QED BY <1>3, <2>2, <1>01 DEF JobNext, rowsVars, env
<1>4. ASSUME NEW t \in Tasks, Lookup(t) \/ LookupFails(t) PROVE LocalInv'
    <2>1. Fits
        <3>1. ASSUME NEW b \in BOOLEAN, LookupRow(t, b) PROVE Fits
            BY <3>1, LookupFits
        <3>2. (task[t].url \in present) \in BOOLEAN
            OBVIOUS
        <3>3. PICK b \in BOOLEAN : LookupRow(t, b)
            BY <1>4, <3>2, Zenon DEF Lookup, LookupFails
        <3> QED BY <3>1, <3>3
    <2> QED BY <1>4, <2>1, <1>01 DEF Lookup, LookupFails, rowsVars, env
<1>5. ASSUME NEW t \in Tasks, Fetch(t) PROVE LocalInv'
    <2> DEFINE r == [rev |-> published, ovr |-> IF task[t].had THEN task[t].row.ovr ELSE NoOverride,
                     exp |-> now + Validity]
               s == [task[t] EXCEPT !.pc = "store", !.row = r]
    <2>1. s.pc = "store" /\ s.url = task[t].url /\ s.row = r
        BY <1>0 DEF TaskStates
    <2>2. task[t].url \in Web
        BY <1>0, <1>5 DEF WritesFit, Fetch
    <2>3. r.rev # NoRevision /\ r.exp # Forever
        BY TimeAssumption DEF LocalInv, Forever, TypeInv, MudTypeOK
    <2>4. WritesFit(s)
        BY <2>1, <2>2, <2>3 DEF WritesFit, RowFits
    <2>5. task' = [task EXCEPT ![t] = s]
        BY <1>5 DEF Fetch
    <2>6. Fits
        BY <2>4, <2>5, MoveFits
    <2> QED BY <1>5, <2>6, <1>01 DEF Fetch, rowsVars, env
<1>6. ASSUME NEW t \in Tasks, FetchFails(t) PROVE LocalInv'
    BY <1>6, <1>01, ReturnFits DEF FetchFails, rowsVars, env
<1>7. ASSUME NEW t \in Tasks, Store(t) PROVE LocalInv'
    <2>1. task[t].url \in Urls /\ RowFits(task[t].url, task[t].row)
        BY <1>0, <1>7 DEF Store, TypeInv, HasUrl, WritesFit
    <2>2. LocalProfilesStayLocal'
        BY <1>7, <2>1, UpsertFits DEF Store
    <2>3. Fits
        BY <1>7, ReturnFits DEF Store
    <2> QED BY <1>7, <2>2, <2>3 DEF Store, env, LocalInv
<1>8. ASSUME NEW t \in Tasks, CreateExists(t) \/ CreateExistsFails(t) PROVE LocalInv'
    <2>1. Fits
        BY <1>8, ReturnFits, GotoFits DEF CreateExists, CreateExistsFails
    <2> QED BY <1>8, <2>1, <1>01 DEF CreateExists, CreateExistsFails, rowsVars, env
<1>9. ASSUME NEW t \in Tasks, CreateInsert(t) PROVE LocalInv'
    <2> DEFINE u == task[t].url
               r == [rev |-> NoRevision, ovr |-> task[t].ovr, exp |-> Forever]
    <2>1. Fits
        BY <1>9, ReturnFits DEF CreateInsert
    <2>2. u \in Urls /\ u \in Custom /\ u \notin Web
        BY <1>0, <1>9, UrlAssumption DEF CreateInsert, TypeInv, HasUrl, WritesFit
    <2>3. RowFits(u, r)
        BY <2>2 DEF RowFits
    <2>4. CASE u \in present
        BY <1>9, <1>01, <2>1, <2>4 DEF CreateInsert, rowsVars, env
    <2>5. CASE u \notin present
        <3>1. UpsertMud(u, r)
            BY <1>9, <2>5 DEF CreateInsert
        <3>2. LocalProfilesStayLocal'
            BY <2>2, <2>3, <3>1, UpsertFits
        <3> QED BY <1>9, <2>1, <3>2 DEF CreateInsert, env, LocalInv
    <2> QED BY <2>4, <2>5
<1>10. ASSUME NEW t \in Tasks, Get(t) PROVE LocalInv'
    <2> DEFINE u == task[t].url
               r == [mud[u] EXCEPT !.ovr = task[t].ovr]
               s == [task[t] EXCEPT !.pc = IF task[t].op = "update" THEN "put" ELSE "used", !.row = r]
    <2>1. CASE u \notin present
        BY <1>10, <1>01, <2>1, ReturnFits DEF Get, rowsVars, env
    <2>2. CASE u \in present
        <3>1. task' = [task EXCEPT ![t] = s]
            BY <1>10, <2>2 DEF Get
        <3>2. s.url = u /\ s.row = r /\ s.pc \in {"put", "used"}
            BY <1>0 DEF TaskStates
        <3>3. r.rev = mud[u].rev /\ r.exp = mud[u].exp
            BY <2>2 DEF TypeInv, MudTypeOK, MudRow
        <3>4. RowFits(u, r)
            BY <2>2, <3>3 DEF LocalInv, LocalProfilesStayLocal, RowFits
        <3>5. WritesFit(s)
            BY <3>2, <3>4 DEF WritesFit
        <3>6. Fits
            BY <3>1, <3>5, MoveFits
        <3> QED BY <1>10, <1>01, <3>6 DEF Get, rowsVars, env
    <2> QED BY <2>1, <2>2
<1>11. ASSUME NEW t \in Tasks, Put(t) PROVE LocalInv'
    <2>1. task[t].url \in Urls /\ RowFits(task[t].url, task[t].row)
        BY <1>0, <1>11 DEF Put, TypeInv, HasUrl, WritesFit
    <2>2. LocalProfilesStayLocal'
        BY <1>11, <2>1, UpsertFits DEF Put
    <2>3. Fits
        BY <1>11, GotoFits DEF Put
    <2> QED BY <1>11, <2>2, <2>3 DEF Put, env, LocalInv
<1>12. ASSUME NEW t \in Tasks, Bump(t) \/ StatementFails(t) PROVE LocalInv'
    BY <1>12, <1>01, ReturnFits DEF Bump, StatementFails, rowsVars, env
<1>13. ASSUME NEW t \in Tasks, IsMudUsed(t) PROVE LocalInv'
    BY <1>13, <1>01, ReturnFits, GotoFits DEF IsMudUsed, rowsVars, env
<1>14. ASSUME NEW t \in Tasks, Delete(t) PROVE LocalInv'
    <2>1. Fits
        BY <1>14, ReturnFits DEF Delete
    <2>2. present' \subseteq present /\ mud' = mud /\ published' = published
        BY <1>14 DEF Delete, env
    <2> QED BY <2>1, <2>2 DEF LocalInv, LocalProfilesStayLocal
<1>15. CASE Publish
    BY <1>15 DEF Publish, rowsVars, LocalInv, LocalProfilesStayLocal, TypeInv, MudTypeOK, NoRevision
<1>16. ASSUME UNCHANGED <<present, mud, published, task>> PROVE LocalInv'
    BY <1>0, <1>16, <1>01
<1>17. CASE Tick \/ Outage \/ (\E u \in Urls : Use(u)) \/ UNCHANGED vars
    BY <1>16, <1>17 DEF Tick, Outage, Use, vars, rowsVars, env
<1> QED
    BY <1>1, <1>2, <1>3, <1>4, <1>5, <1>6, <1>7, <1>8, <1>9, <1>10, <1>11, <1>12, <1>13, <1>14, <1>15, <1>17
       DEF Next, TaskStep, JobFindsNothing

(* get_or_fetch_mud never makes a local profile, create_mud never one of a
   URL, and no interleaving of lookups, downloads, POSTs and PUTs turns a
   profile of one kind into one of the other. *)
THEOREM LocalSafe == Spec => []LocalProfilesStayLocal
<1>1. Init => LocalInv
    BY IdleTaskType DEF Init, LocalInv, LocalProfilesStayLocal, WritesFit, NoRevision
<1>2. LocalInv => LocalProfilesStayLocal
    BY DEF LocalInv
<1> QED BY <1>1, <1>2, InitTypeInv, TypeInvStep, LocalStep, PTL DEF Spec

-----------------------------------------------------------------------------
(* DeletedStayGone is inductive once it says that nobody is about to write the
   profile either. *)
GoneInv == \A u \in gone : u \notin present /\ \A t \in Tasks : ~Reviving(t, u)

(* A step after which no task deals with a profile that none dealt with. *)
LEMMA GoneKept ==
    ASSUME TypeInv, GoneInv, gone' \subseteq gone, present' \subseteq present,
           \A t \in Tasks, u \in gone' : Reviving(t, u)' => Reviving(t, u)
    PROVE  GoneInv'
BY DEF GoneInv

(* The task t moves on, and what it deals with afterwards it dealt with before. *)
LEMMA GoneMove ==
    ASSUME TypeInv, NEW t \in Tasks, NEW s, task' = [task EXCEPT ![t] = s], NEW u,
           u \in s.todo => u \in task[t].todo,
           s.url = u /\ s.pc \in {"exists", "lookup", "fetch", "store", "insert", "put"} => Reviving(t, u)
    PROVE  \A x \in Tasks : Reviving(x, u)' => Reviving(x, u)
<1>1. task'[t] = s /\ \A x \in Tasks \ {t} : task'[x] = task[x]
    BY DEF TypeInv, MudTypeOK
<1> QED BY <1>1 DEF Reviving

LEMMA GoneReturn ==
    ASSUME TypeInv, NEW t \in Tasks, Done(t) \/ Fail(t), NEW u
    PROVE  \A x \in Tasks : Reviving(x, u)' => Reviving(x, u)
<1>1. CASE task' = [task EXCEPT ![t] = IdleTask]
    <2>1. IdleTask.todo = {} /\ IdleTask.pc = "idle"
        BY DEF IdleTask
    <2> QED BY <1>1, <2>1, GoneMove
<1>2. CASE Goto(t, "next")
    <2> DEFINE s == [task[t] EXCEPT !.pc = "next"]
    <2>1. s.pc = "next" /\ s.todo = task[t].todo
        BY DEF TypeInv, MudTypeOK, TaskStates
    <2>2. task' = [task EXCEPT ![t] = s]
        BY <1>2 DEF Goto
    <2> QED BY <2>1, <2>2, GoneMove
<1> QED BY <1>1, <1>2 DEF Done, Fail

LEMMA GoneGoto ==
    ASSUME TypeInv, NEW t \in Tasks, NEW p, Goto(t, p), NEW u,
           \/ p \in {"bump", "delete"}
           \/ task[t].pc \in {"exists", "lookup", "fetch", "store", "insert", "put"}
    PROVE  \A x \in Tasks : Reviving(x, u)' => Reviving(x, u)
<1> DEFINE s == [task[t] EXCEPT !.pc = p]
<1>1. s.pc = p /\ s.todo = task[t].todo /\ s.url = task[t].url
    BY DEF TypeInv, MudTypeOK, TaskStates
<1>2. task' = [task EXCEPT ![t] = s]
    BY DEF Goto
<1>3. s.url = u /\ s.pc \in {"exists", "lookup", "fetch", "store", "insert", "put"} => Reviving(t, u)
    BY <1>1 DEF Reviving
<1> QED BY <1>1, <1>2, <1>3, GoneMove

(* The row that is written is one the writer dealt with, so it is not gone. *)
LEMMA GoneWrite ==
    ASSUME TypeInv, GoneInv, NEW t \in Tasks, task[t].pc \in {"store", "insert", "put"},
           gone' \subseteq gone, present' \subseteq present \cup {task[t].url},
           \A x \in Tasks, u \in gone' : Reviving(x, u)' => Reviving(x, u)
    PROVE  GoneInv'
<1>1. task[t].url \notin gone
    BY DEF GoneInv, Reviving
<1> QED BY <1>1 DEF GoneInv

LEMMA GoneStep == TypeInv /\ GoneInv /\ [Next]_vars => GoneInv'
<1> SUFFICES ASSUME TypeInv, GoneInv, [Next]_vars PROVE GoneInv'
    OBVIOUS
<1>0. \A t \in Tasks : task[t] \in TaskStates
    BY DEF TypeInv, MudTypeOK
<1> DEFINE Same(u) == \A x \in Tasks : Reviving(x, u)' => Reviving(x, u)
<1>1. ASSUME NEW t \in Tasks, NEW op \in Ops \ {"job"}, NEW v \in Urls, Begin(t, op, v) PROVE GoneInv'
    <2> DEFINE s == [IdleTask EXCEPT !.op = op, !.pc = FirstStep(op), !.url = v, !.ovr = requests + 1]
    <2>1. s.todo = {} /\ s.url = v /\ s.pc = FirstStep(op)
        BY DEF IdleTask
    <2>2. op \in {"load", "create"} \/ FirstStep(op) = "get"
        BY DEF FirstStep, Ops
    <2>3. ASSUME NEW u \in gone' PROVE Same(u)
        <3>1. u # v \/ s.pc = "get"
            BY <1>1, <2>1, <2>2, <2>3 DEF Begin
        <3>2. task' = [task EXCEPT ![t] = s]
            BY <1>1 DEF Begin
        <3> QED BY <2>1, <3>1, <3>2, GoneMove
    <2> QED BY <1>1, <2>3, GoneKept DEF Begin, rowsVars
<1>2. ASSUME NEW t \in Tasks, StartJob(t) PROVE GoneInv'
    <2> DEFINE s == [IdleTask EXCEPT !.op = "job", !.pc = "next", !.todo = Outdated]
    <2>1. s.pc = "next" /\ s.todo = Outdated
        BY DEF IdleTask
    <2>2. task' = [task EXCEPT ![t] = s] /\ gone' = gone /\ present' = present
        BY <1>2 DEF StartJob, history, rowsVars
    <2>3. ASSUME NEW u \in gone' PROVE Same(u)
        <3>1. u \notin Outdated
            BY <2>2, <2>3 DEF GoneInv, Outdated
        <3> HIDE DEF s
        <3> QED BY <2>1, <2>2, <3>1, GoneMove
    <2> QED BY <2>2, <2>3, GoneKept
<1>3. ASSUME NEW t \in Tasks, JobNext(t) PROVE GoneInv'
    <2>1. ASSUME NEW v \in task[t].todo, NEW u,
                 task' = [task EXCEPT ![t].pc = "lookup", ![t].url = v, ![t].todo = @ \ {v}]
          PROVE  Same(u)
        <3> DEFINE s == [task[t] EXCEPT !.pc = "lookup", !.url = v, !.todo = @ \ {v}]
        <3>1. s.url = v /\ s.todo = task[t].todo \ {v} /\ task' = [task EXCEPT ![t] = s]
            BY <1>0, <2>1 DEF TaskStates
        <3>2. v = u => Reviving(t, u)
            BY DEF Reviving
        <3> QED BY <3>1, <3>2, GoneMove
    <2>2. ASSUME NEW u PROVE Same(u)
        BY <1>3, <2>1, GoneGoto DEF JobNext
    <2> QED BY <1>3, <2>2, GoneKept DEF JobNext, rowsVars, history
<1>4. ASSUME NEW t \in Tasks, Lookup(t) \/ LookupFails(t) PROVE GoneInv'
    <2>1. ASSUME NEW u, NEW b \in BOOLEAN, LookupRow(t, b) PROVE Same(u)
        <3>1. CASE Done(t) \/ Fail(t)
            BY <3>1, GoneReturn
        <3>2. CASE ~(Done(t) \/ Fail(t))
            <4> DEFINE s == [task[t] EXCEPT !.pc = "fetch", !.had = b, !.row = mud[task[t].url]]
            <4>1. task' = [task EXCEPT ![t] = s]
                BY <2>1, <3>2 DEF LookupRow
            <4>2. s.url = task[t].url /\ s.todo = task[t].todo
                BY <1>0 DEF TaskStates
            <4>3. s.url = u => Reviving(t, u)
                BY <1>4, <4>2 DEF Reviving, Lookup, LookupFails
            <4> QED BY <4>1, <4>2, <4>3, GoneMove
        <3> QED BY <3>1, <3>2
    <2>2. (task[t].url \in present) \in BOOLEAN
        OBVIOUS
    <2>3. PICK b \in BOOLEAN : LookupRow(t, b)
        BY <1>4, <2>2, Zenon DEF Lookup, LookupFails
    <2>4. \A u : Same(u)
        BY <2>1, <2>3
    <2> QED BY <1>4, <2>4, GoneKept DEF Lookup, LookupFails, rowsVars, history
<1>5. ASSUME NEW t \in Tasks, Fetch(t) PROVE GoneInv'
    <2> DEFINE w == [rev |-> published, ovr |-> IF task[t].had THEN task[t].row.ovr ELSE NoOverride,
                     exp |-> now + Validity]
               s == [task[t] EXCEPT !.pc = "store", !.row = w]
    <2>1. task' = [task EXCEPT ![t] = s]
        BY <1>5 DEF Fetch
    <2>2. s.url = task[t].url /\ s.todo = task[t].todo
        BY <1>0 DEF TaskStates
    <2>3. ASSUME NEW u PROVE Same(u)
        <3>1. s.url = u => Reviving(t, u)
            BY <1>5, <2>2 DEF Reviving, Fetch
        <3> HIDE DEF s
        <3> QED BY <2>1, <2>2, <3>1, GoneMove
    <2> QED BY <1>5, <2>3, GoneKept DEF Fetch, rowsVars, history
<1>6. ASSUME NEW t \in Tasks, FetchFails(t) \/ Bump(t) \/ StatementFails(t) PROVE GoneInv'
    BY <1>6, GoneReturn, GoneKept DEF FetchFails, Bump, StatementFails, rowsVars, history
<1>7. ASSUME NEW t \in Tasks, Store(t) PROVE GoneInv'
    BY <1>7, GoneReturn, GoneWrite DEF Store, UpsertMud, history
<1>8. ASSUME NEW t \in Tasks, CreateExists(t) \/ CreateExistsFails(t) PROVE GoneInv'
    BY <1>8, GoneReturn, GoneGoto, GoneKept DEF CreateExists, CreateExistsFails, rowsVars, history
<1>9. ASSUME NEW t \in Tasks, CreateInsert(t) PROVE GoneInv'
    BY <1>9, GoneReturn, GoneWrite DEF CreateInsert, UpsertMud, rowsVars, history
<1>10. ASSUME NEW t \in Tasks, Get(t) PROVE GoneInv'
    <2> DEFINE v == task[t].url
               s == [task[t] EXCEPT !.pc = IF task[t].op = "update" THEN "put" ELSE "used",
                                    !.row = [mud[v] EXCEPT !.ovr = task[t].ovr]]
    <2>1. CASE v \notin present
        BY <1>10, <2>1, GoneReturn, GoneKept DEF Get, rowsVars, history
    <2>2. CASE v \in present
        <3>1. task' = [task EXCEPT ![t] = s]
            BY <1>10, <2>2 DEF Get
        <3>2. s.url = v /\ s.todo = task[t].todo
            BY <1>0 DEF TaskStates
        <3>3. ASSUME NEW u \in gone' PROVE Same(u)
            <4>1. u # v
                BY <1>10, <2>2, <3>3 DEF Get, history, GoneInv
            <4> QED BY <3>1, <3>2, <4>1, GoneMove
        <3> QED BY <1>10, <3>3, GoneKept DEF Get, rowsVars, history
    <2> QED BY <2>1, <2>2
<1>11. ASSUME NEW t \in Tasks, Put(t) PROVE GoneInv'
    BY <1>11, GoneGoto, GoneWrite DEF Put, UpsertMud
<1>12. ASSUME NEW t \in Tasks, IsMudUsed(t) PROVE GoneInv'
    BY <1>12, GoneReturn, GoneGoto, GoneKept DEF IsMudUsed, rowsVars, history
<1>13. ASSUME NEW t \in Tasks, Delete(t) PROVE GoneInv'
    <2>1. ASSUME NEW u PROVE Same(u)
        BY <1>13, GoneReturn DEF Delete
    <2>2. CASE task[t].url \in used
        BY <1>13, <2>1, <2>2, GoneKept DEF Delete, history
    <2>3. CASE task[t].url \notin used
        <3>1. present' = present \ {task[t].url}
            BY <1>13, <2>3 DEF Delete
        <3>2. CASE \E s \in Tasks : Reviving(s, task[t].url)
            <4>1. gone' = gone
                BY <1>13, <2>3, <3>2 DEF Delete
            <4> QED BY <2>1, <3>1, <4>1, GoneKept
        <3>3. CASE \A s \in Tasks : ~Reviving(s, task[t].url)
            <4>1. gone' = gone \cup {task[t].url}
                BY <1>13, <2>3, <3>3 DEF Delete
            <4> QED BY <2>1, <3>1, <3>3, <4>1 DEF GoneInv
        <3> QED BY <3>2, <3>3
    <2> QED BY <2>2, <2>3
<1>14. ASSUME UNCHANGED <<present, gone, task>> PROVE GoneInv'
    BY <1>14 DEF GoneInv, Reviving
<1>15. CASE Tick \/ Publish \/ Outage \/ (\E u \in Urls : Use(u)) \/ UNCHANGED vars
    BY <1>14, <1>15 DEF Tick, Publish, Outage, Use, vars, rowsVars, history
<1> QED
    BY <1>1, <1>2, <1>3, <1>4, <1>5, <1>6, <1>7, <1>8, <1>9, <1>10, <1>11, <1>12, <1>13, <1>15
       DEF Next, TaskStep, JobFindsNothing

(* A profile that was deleted while nobody dealt with it has no row until
   somebody looks it up or creates it: neither the list of the hourly job nor
   the copy of a row a PUT writes back brings it back. *)
THEOREM DeletedSafe == Spec => []DeletedStayGone
<1>1. Init => GoneInv
    BY DEF Init, GoneInv
<1>2. GoneInv => DeletedStayGone
    BY DEF GoneInv, DeletedStayGone
<1> QED BY <1>1, <1>2, InitTypeInv, TypeInvStep, GoneStep, PTL DEF Spec
=============================================================================
