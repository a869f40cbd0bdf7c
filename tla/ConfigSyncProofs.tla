-------------------------- MODULE ConfigSyncProofs --------------------------
(***************************************************************************)
(* Proofs about ConfigSync, for every set of rows, workers and enforcers,  *)
(* every modulus and every bound on requests and faults.                   *)
(***************************************************************************)
EXTENDS ConfigSync, TLAPS

(* Storing a version again stays within u64. *)
LEMMA WrapType == \A v \in Versions : /\ wrapping_add(v) \in Versions
                                      /\ \/ wrapping_add(v) = v + 1
                                         \/ wrapping_add(v) <= v
<1> SUFFICES ASSUME NEW v \in Versions
             PROVE  /\ wrapping_add(v) \in Versions
                    /\ wrapping_add(v) = v + 1 \/ wrapping_add(v) <= v
    OBVIOUS
<1>1. v \in Nat /\ (v <= Modulus - 1 \/ v = NoNumber) /\ Modulus \in Nat /\ Modulus > 1
    BY ModulusAssumption DEF Versions, NoNumber
<1>2. CASE v + 1 < Modulus
    <2>1. (v + 1) % Modulus = v + 1
        BY <1>1, <1>2
    <2> QED BY <1>1, <1>2, <2>1 DEF wrapping_add, Versions, NoNumber
<1>3. CASE v + 1 = Modulus
    <2>1. (v + 1) % Modulus = 0
        BY <1>1, <1>3
    <2> QED BY <1>1, <1>3, <2>1 DEF wrapping_add, Versions, NoNumber
<1>4. CASE v = NoNumber
    <2>1. 1 % Modulus = 1
        BY <1>1
    <2> QED BY <1>1, <1>4, <2>1 DEF wrapping_add, Versions, NoNumber
<1> QED BY <1>1, <1>2, <1>3, <1>4

LEMMA VersionsNat == \A v \in Versions : v \in Nat
BY ModulusAssumption DEF Versions, NoNumber

LEMMA ZeroVersion == 0 \in Versions /\ NoNumber \in Versions
BY ModulusAssumption DEF Versions

LEMMA IdleType == Idle \in WorkerStates
BY ZeroVersion DEF Idle, Ops, WorkerStates

LEMMA NoBeatType == /\ NoRows \in [Rows -> Nat]
                    /\ NoBeat \in BeatStates
                    /\ NoConfig \in Configs
<1>1. NoRows \in [Rows -> Nat]
    BY DEF NoRows
<1> QED BY <1>1 DEF NoBeat, NoConfig, BeatStates, Configs

-----------------------------------------------------------------------------
(* Every variable keeps its type: each handler step, heartbeat step, fault and
   expiration of the code leaves the tables and the u64 counter well formed. *)
THEOREM TypeCorrect == Spec => []TypeOK
<1>1. Init => TypeOK
    BY IdleType, NoBeatType, ZeroVersion DEF Init, TypeOK
<1>2. TypeOK /\ [Next]_vars => TypeOK'
    <2> SUFFICES ASSUME TypeOK, [Next]_vars PROVE TypeOK'
        OBVIOUS
    <2> USE DEF TypeOK
    <2>1. ASSUME NEW w \in Workers, NEW op \in Ops, NEW todo \in Loads(op), Start(w, op, todo)
          PROVE  TypeOK'
        <3>1. todo \subseteq Muds
            BY <2>1 DEF Loads, Ops
        <3>2. FirstStep(op) \in {"clear", "write", "load"}
            BY DEF FirstStep, Ops
        <3>3. [Idle EXCEPT !.op = op, !.pc = FirstStep(op), !.todo = todo] \in WorkerStates
            BY <3>1, <3>2, IdleType DEF WorkerStates
        <3> QED BY <2>1, <3>3 DEF Start, Request
    <2>2. ASSUME NEW w \in Workers, NEW d \in Devices, ClearIp(w, d)
          PROVE  TypeOK'
        BY <2>2 DEF ClearIp, WriteRow, WorkerStates, Rows
    <2>3. ASSUME NEW w \in Workers, ClearDone(w)
          PROVE  TypeOK'
        BY <2>3 DEF ClearDone, WorkerStates
    <2>4. ASSUME NEW w \in Workers, NEW m \in Muds, Load(w, m)
          PROVE  TypeOK'
        BY <2>4 DEF Load, WorkerStates
    <2>5. ASSUME NEW w \in Workers, NEW m \in Muds, Fetched(w, m)
          PROVE  TypeOK'
        <3>1. rows' \in [Rows -> Nat]
            BY <2>5 DEF Fetched, WriteRow, Rows
        <3>2. worker[w] \in WorkerStates
            OBVIOUS
        <3>3. worker'[w] \in WorkerStates
            BY <2>5, <3>2 DEF Fetched, WorkerStates, Rows
        <3>4. worker' \in [Workers -> WorkerStates]
            BY <2>5, <3>3 DEF Fetched
        <3>5. unannounced' \subseteq Rows
            BY <2>5 DEF Fetched, Rows
        <3> QED BY <2>5, <3>1, <3>4, <3>5 DEF Fetched
    <2>6. ASSUME NEW w \in Workers, FetchFails(w)
          PROVE  TypeOK'
        BY <2>6 DEF FetchFails, WorkerStates
    <2>7. ASSUME NEW w \in Workers, LoadDone(w)
          PROVE  TypeOK'
        BY <2>7, IdleType DEF LoadDone, Return, PendingRows, WorkerStates
    <2>8. ASSUME NEW w \in Workers, NEW r \in Rows, Write(w, r)
          PROVE  TypeOK'
        <3>1. rows' \in [Rows -> Nat]
            BY <2>8 DEF Write, WriteRow, Rows
        <3>2. worker[w] \in WorkerStates
            OBVIOUS
        <3>3. worker'[w] \in WorkerStates
            BY <2>8, <3>2 DEF Write, WorkerStates, Rows
        <3>4. worker' \in [Workers -> WorkerStates]
            BY <2>8, <3>3 DEF Write
        <3> QED BY <2>8, <3>1, <3>4 DEF Write
    <2>9. ASSUME NEW w \in Workers, WriteMisses(w)
          PROVE  TypeOK'
        BY <2>9 DEF WriteMisses, WorkerStates
    <2>10. ASSUME NEW w \in Workers, ReadVersion(w)
           PROVE  TypeOK'
        BY <2>10 DEF ReadVersion, WorkerStates
    <2>11. ASSUME NEW v \in Versions, NEW b \in BOOLEAN, StoreVersion(v, b)
           PROVE  /\ version' \in Versions /\ unannounced' \subseteq Rows
                  /\ beat' \in [Enforcers -> BeatStates] /\ enf' \in [Enforcers -> Configs]
        <3>1. ASSUME NEW e \in Enforcers
              PROVE  /\ [beat[e] EXCEPT !.outrun = @ \/ b] \in BeatStates
                     /\ [enf[e] EXCEPT !.outrun = @ \/ b] \in Configs
            <4>1. beat[e] \in BeatStates /\ enf[e] \in Configs
                OBVIOUS
            <4>2. (beat[e].outrun \/ b) \in BOOLEAN /\ (enf[e].outrun \/ b) \in BOOLEAN
                OBVIOUS
            <4> QED BY <4>1, <4>2 DEF BeatStates, Configs
        <3> QED BY <2>11, <3>1 DEF StoreVersion
    <2>12. ASSUME NEW w \in Workers, WriteVersion(w)
           PROVE  TypeOK'
        <3>1. worker[w].seen \in Versions
            BY DEF WorkerStates
        <3>2. wrapping_add(worker[w].seen) \in Versions
            BY <3>1, WrapType
        <3> DEFINE new == wrapping_add(worker[w].seen)
        <3>3. StoreVersion(new, new < version \/ new <= worker[w].seen)
            BY <2>12 DEF WriteVersion
        <3>4. (new < version \/ new <= worker[w].seen) \in BOOLEAN
            OBVIOUS
        <3> QED BY <2>11, <2>12, <3>2, <3>3, <3>4, IdleType DEF WriteVersion
    <2>13. ASSUME NEW w \in Workers, ReadVersionFails(w)
           PROVE  TypeOK'
        <3>2. worker[w] \in WorkerStates
            OBVIOUS
        <3>3. worker'[w] \in WorkerStates
            BY <2>13, <3>2, ZeroVersion DEF ReadVersionFails, WorkerStates, Rows
        <3>4. worker' \in [Workers -> WorkerStates]
            BY <2>13, <3>3 DEF ReadVersionFails
        <3>5. unannounced' \subseteq Rows /\ faults' \in Nat
            BY <2>13 DEF ReadVersionFails, PendingRows, Fault
        <3> QED BY <2>13, <3>4, <3>5 DEF ReadVersionFails
    <2>14. ASSUME NEW w \in Workers, HandlerFails(w)
           PROVE  TypeOK'
        BY <2>14, IdleType DEF HandlerFails, Fault, Return, PendingRows
    <2>15. ASSUME NEW e \in Enforcers, HeartbeatBegin(e)
           PROVE  TypeOK'
        <3>2. beat[e] \in BeatStates
            OBVIOUS
        <3>3. beat'[e] \in BeatStates
            BY <2>15, <3>2 DEF HeartbeatBegin, BeatStates, Rows
        <3>4. beat' \in [Enforcers -> BeatStates]
            BY <2>15, <3>3 DEF HeartbeatBegin
        <3> QED BY <2>15, <3>4 DEF HeartbeatBegin
    <2>16. ASSUME NEW e \in Enforcers, HeartbeatBeginFails(e)
           PROVE  TypeOK'
        <3>2. beat[e] \in BeatStates
            OBVIOUS
        <3>3. beat'[e] \in BeatStates
            BY <2>16, <3>2, ZeroVersion DEF HeartbeatBeginFails, BeatStates, Rows
        <3>4. beat' \in [Enforcers -> BeatStates]
            BY <2>16, <3>3 DEF HeartbeatBeginFails
        <3> QED BY <2>16, <3>4 DEF HeartbeatBeginFails, Fault
    <2>17. ASSUME NEW e \in Enforcers, HeartbeatDevices(e)
           PROVE  TypeOK'
        <3>2. beat[e] \in BeatStates
            OBVIOUS
        <3>3. beat'[e] \in BeatStates
            BY <2>17, <3>2 DEF HeartbeatDevices, BeatStates, Rows
        <3>4. beat' \in [Enforcers -> BeatStates]
            BY <2>17, <3>3 DEF HeartbeatDevices
        <3> QED BY <2>17, <3>4 DEF HeartbeatDevices
    <2>18. ASSUME NEW e \in Enforcers, NEW m \in Muds, HeartbeatLoad(e, m)
           PROVE  TypeOK'
        <3>2. beat[e] \in BeatStates
            OBVIOUS
        <3>3. beat'[e] \in BeatStates
            BY <2>18, <3>2 DEF HeartbeatLoad, BeatStates, Rows
        <3>4. beat' \in [Enforcers -> BeatStates]
            BY <2>18, <3>3 DEF HeartbeatLoad
        <3> QED BY <2>18, <3>4 DEF HeartbeatLoad
    <2>19. ASSUME NEW e \in Enforcers, NEW m \in Muds, HeartbeatFetched(e, m)
           PROVE  TypeOK'
        <3>1. rows' \in [Rows -> Nat]
            BY <2>19 DEF HeartbeatFetched, WriteRow, Rows
        <3>2. beat[e] \in BeatStates
            OBVIOUS
        <3>3. beat'[e] \in BeatStates
            <4>1. m \in Rows /\ rows[m] + 1 \in Nat
                BY DEF Rows
            <4>2. beat'[e] = [beat[e] EXCEPT !.fetching = {}, !.cfg = [@ EXCEPT ![m] = rows[m] + 1]]
                BY <2>19 DEF HeartbeatFetched
            <4>3. [beat[e].cfg EXCEPT ![m] = rows[m] + 1] \in [Rows -> Nat]
                BY <3>2, <4>1 DEF BeatStates
            <4> QED BY <3>2, <4>2, <4>3 DEF BeatStates
        <3>4. beat' \in [Enforcers -> BeatStates]
            BY <2>19, <3>3 DEF HeartbeatFetched
        <3>5. unannounced' \subseteq Rows
            BY <2>19 DEF HeartbeatFetched, Rows
        <3> QED BY <2>19, <3>1, <3>4, <3>5 DEF HeartbeatFetched
    <2>20. ASSUME NEW e \in Enforcers, HeartbeatFetchFails(e)
           PROVE  TypeOK'
        BY <2>20 DEF HeartbeatFetchFails, BeatStates
    <2>21. ASSUME NEW e \in Enforcers, HeartbeatReply(e)
           PROVE  TypeOK'
        BY <2>21, NoBeatType DEF HeartbeatReply, BeatStates, Configs
    <2>22. ASSUME NEW e \in Enforcers, HeartbeatLoadFails(e)
           PROVE  TypeOK'
        BY <2>22, NoBeatType DEF HeartbeatLoadFails, Fault, BeatStates, Configs
    <2>23. ASSUME NEW e \in Enforcers, ReplyLost(e) \/ EnforcerRestarts(e)
           PROVE  TypeOK'
        BY <2>23, NoBeatType DEF ReplyLost, EnforcerRestarts, Fault
    <2>24. ASSUME NEW v \in AdminVersions \cup {0, NoNumber}, AdminSetsVersion(v)
           PROVE  TypeOK'
        <3>1. v \in Versions
            BY AdminAssumption, ZeroVersion DEF Versions
        <3>2. StoreVersion(v, v < version)
            BY <2>24 DEF AdminSetsVersion
        <3>3. (v < version) \in BOOLEAN
            OBVIOUS
        <3>4. /\ version' \in Versions /\ unannounced' \subseteq Rows
              /\ beat' \in [Enforcers -> BeatStates] /\ enf' \in [Enforcers -> Configs]
            BY <2>11, <3>1, <3>2, <3>3
        <3> QED BY <2>24, <3>4 DEF AdminSetsVersion, Fault
    <2>25. CASE Crash
        BY <2>25, IdleType, NoBeatType DEF Crash, Fault
    <2>26. ASSUME NEW m \in Muds, Expire(m)
           PROVE  TypeOK'
        BY <2>26 DEF Expire, Request
    <2>27. ASSUME NEW e \in Enforcers, HeartbeatNone(e)
           PROVE  TypeOK'
        BY <2>27 DEF HeartbeatNone, vars
    <2>28. CASE UNCHANGED vars
        BY <2>28 DEF vars
    <2> QED
        BY <2>1, <2>2, <2>3, <2>4, <2>5, <2>6, <2>7, <2>8, <2>9, <2>10, <2>12, <2>13, <2>14,
           <2>15, <2>16, <2>17, <2>18, <2>19, <2>20, <2>21, <2>22, <2>23, <2>24, <2>25, <2>26,
           <2>27, <2>28 DEF Next, WorkerStep, HeartbeatStep
<1> QED BY <1>1, <1>2, PTL DEF Spec

-----------------------------------------------------------------------------
(* The inductive invariant.  SyncedOrExplained alone is not inductive: the
   config an enforcer receives is built over several steps, and a later bump
   must not reach a version that was already handed out. *)
Inv == NotAhead /\ SyncedOrExplained /\ BuildSyncedOrExplained

(* A step that leaves the counter and the configs alone keeps the invariant if
   every change it makes, and every change explained before it, is explained
   after it. *)
LEMMA Carry ==
    ASSUME TypeOK, Inv, UNCHANGED <<version, beat, enf>>,
           \A r \in Rows : Explained(r) => Explained(r)',
           \A r \in Rows : rows'[r] = rows[r] \/ Explained(r)'
    PROVE  Inv'
<1>1. NotAhead'
    BY DEF Inv, NotAhead
<1>2. SyncedOrExplained'
    BY DEF Inv, SyncedOrExplained
<1>3. BuildSyncedOrExplained'
    <2>1. \A e \in Enforcers : Read(e)' = Read(e)
        BY DEF Read
    <2>2. \A e \in Enforcers : Read(e) \subseteq Rows
        BY DEF Read
    <2> QED BY <2>1, <2>2 DEF Inv, BuildSyncedOrExplained
<1> QED BY <1>1, <1>2, <1>3 DEF Inv

(* A step of worker w keeps what the other workers explain. *)
LEMMA WorkerCarry ==
    ASSUME NEW w \in Workers, version' = version,
           \A x \in Workers \ {w} : worker'[x] = worker[x],
           unannounced \subseteq unannounced',
           \A r \in Rows : Pending(w, r) => Pending(w, r)' \/ r \in unannounced'
    PROVE  \A r \in Rows : Explained(r) => Explained(r)'
<1> SUFFICES ASSUME NEW r \in Rows, Explained(r) PROVE Explained(r)'
    OBVIOUS
<1>1. CASE r \in unannounced
    BY <1>1 DEF Explained
<1>2. ASSUME NEW x \in Workers, Pending(x, r) PROVE Explained(r)'
    <2>1. CASE x = w
        BY <1>2, <2>1 DEF Explained
    <2>2. CASE x # w
        BY <1>2, <2>2 DEF Pending, Explained
    <2> QED BY <2>1, <2>2
<1> QED BY <1>1, <1>2 DEF Explained

(* A step that stores a version keeps the invariant: a larger one is held by
   nobody, the same one explains what it explained before, and a smaller or
   wrapped one marks every config. *)
LEMMA StoreCarry ==
    ASSUME TypeOK, Inv, NEW v \in Versions, NEW b \in BOOLEAN, StoreVersion(v, b),
           v < version => b, rows' = rows,
           v = version /\ ~b => \A r \in Rows : Explained(r) => Explained(r)'
    PROVE  Inv'
<1> USE DEF TypeOK
<1>0. /\ \A e \in Enforcers : /\ beat[e] \in BeatStates /\ enf[e] \in Configs
                              /\ beat'[e] = [beat[e] EXCEPT !.outrun = @ \/ b]
                              /\ enf'[e] = [enf[e] EXCEPT !.outrun = @ \/ b]
      /\ version' = v
    BY DEF StoreVersion
<1>1. ASSUME NEW e \in Enforcers
      PROVE  /\ beat'[e].ver = beat[e].ver /\ beat'[e].cfg = beat[e].cfg
             /\ beat'[e].pc = beat[e].pc /\ beat'[e].todo = beat[e].todo
             /\ beat'[e].outrun <=> beat[e].outrun \/ b
             /\ enf'[e].ver = enf[e].ver /\ enf'[e].cfg = enf[e].cfg
             /\ enf'[e].blank = enf[e].blank
             /\ enf'[e].outrun <=> enf[e].outrun \/ b
    <2>1. beat[e] \in BeatStates /\ beat'[e] = [beat[e] EXCEPT !.outrun = beat[e].outrun \/ b]
        BY <1>0
    <2>2. enf[e] \in Configs /\ enf'[e] = [enf[e] EXCEPT !.outrun = enf[e].outrun \/ b]
        BY <1>0
    <2>3. /\ beat'[e].ver = beat[e].ver /\ beat'[e].cfg = beat[e].cfg
          /\ beat'[e].pc = beat[e].pc /\ beat'[e].todo = beat[e].todo
        BY <2>1 DEF BeatStates
    <2>4. beat'[e].outrun <=> beat[e].outrun \/ b
        BY <2>1 DEF BeatStates
    <2>5. enf'[e].ver = enf[e].ver /\ enf'[e].cfg = enf[e].cfg /\ enf'[e].blank = enf[e].blank
        BY <2>2 DEF Configs
    <2>6. enf'[e].outrun <=> enf[e].outrun \/ b
        BY <2>2 DEF Configs
    <2> QED BY <2>3, <2>4, <2>5, <2>6
<1>2. \A e \in Enforcers : Read(e)' = Read(e) /\ Read(e) \subseteq Rows
    BY <1>1 DEF Read
<1>3. CASE b
    BY <1>0, <1>1, <1>3 DEF Inv, NotAhead, SyncedOrExplained, BuildSyncedOrExplained
<1>4. CASE ~b /\ v > version
    <2>1. version \in Int /\ v \in Int
        BY VersionsNat DEF TypeOK
    <2>2. ASSUME NEW e \in Enforcers
          PROVE  /\ ~enf[e].outrun => enf[e].ver <= v /\ enf[e].ver # v
                 /\ ~beat[e].outrun => beat[e].ver <= v /\ beat[e].ver # v
        <3>1. enf[e].ver \in Int /\ beat[e].ver \in Int
            <4>1. enf[e].ver \in Versions \cup {NoVersion} /\ beat[e].ver \in Versions \cup {NoVersion}
                BY <1>0 DEF BeatStates, Configs
            <4> QED BY <4>1, VersionsNat DEF NoVersion
        <3>2. (~enf[e].outrun => enf[e].ver <= version) /\ (~beat[e].outrun => beat[e].ver <= version)
            BY DEF Inv, NotAhead
        <3> QED BY <1>4, <2>1, <3>1, <3>2
    <2> QED BY <1>0, <1>1, <1>4, <2>2
            DEF Inv, NotAhead, SyncedOrExplained, BuildSyncedOrExplained
<1>5. CASE ~b /\ v = version
    BY <1>0, <1>1, <1>2, <1>5 DEF Inv, NotAhead, SyncedOrExplained, BuildSyncedOrExplained
<1> QED BY <1>3, <1>4, <1>5 DEF Versions

(* A step of the heartbeat of enforcer e touches no other enforcer. *)
SyncedOf(e) ==
    enf[e].ver = version /\ ~enf[e].outrun /\ ~enf[e].blank
        => \A r \in Rows : enf[e].cfg[r] = rows[r] \/ Explained(r)
BuildOf(e) ==
    beat[e].ver = version /\ ~beat[e].outrun
        => \A r \in Read(e) : beat[e].cfg[r] = rows[r] \/ Explained(r)
NotAheadOf(e) == /\ ~enf[e].outrun => enf[e].ver <= version
                 /\ ~beat[e].outrun => beat[e].ver <= version

LEMMA HeartbeatCarry ==
    ASSUME TypeOK, Inv, NEW e \in Enforcers, version' = version, worker' = worker,
           unannounced \subseteq unannounced',
           \A r \in Rows : rows'[r] = rows[r] \/ r \in unannounced',
           \A x \in Enforcers \ {e} : beat'[x] = beat[x] /\ enf'[x] = enf[x],
           NotAheadOf(e)', SyncedOf(e)', BuildOf(e)'
    PROVE  Inv'
<1>1. \A r \in Rows : /\ Explained(r) => Explained(r)'
                      /\ rows'[r] = rows[r] \/ Explained(r)'
    BY DEF Explained, Pending
<1>2. ASSUME NEW x \in Enforcers PROVE NotAheadOf(x)' /\ SyncedOf(x)' /\ BuildOf(x)'
    <2>1. CASE x = e
        BY <2>1
    <2>2. CASE x # e
        <3>1. Read(x)' = Read(x) /\ Read(x) \subseteq Rows
            BY <2>2 DEF Read
        <3>2. NotAheadOf(x)'
            BY <2>2 DEF Inv, NotAhead, NotAheadOf
        <3>3. SyncedOf(x)'
            BY <1>1, <2>2 DEF Inv, SyncedOrExplained, SyncedOf
        <3>4. BuildOf(x)'
            BY <1>1, <2>2, <3>1 DEF Inv, BuildSyncedOrExplained, BuildOf
        <3> QED BY <3>2, <3>3, <3>4
    <2> QED BY <2>1, <2>2
<1> QED BY <1>2 DEF Inv, NotAhead, SyncedOrExplained, BuildSyncedOrExplained,
                    NotAheadOf, SyncedOf, BuildOf

(* A heartbeat that is not running holds no version. *)
LEMMA NoBeatCarry ==
    ASSUME TypeOK, NEW e \in Enforcers, beat'[e] = NoBeat, version' = version
    PROVE  /\ BuildOf(e)'
           /\ ~beat'[e].outrun => beat'[e].ver <= version'
<1>1. version \in Nat
    BY VersionsNat DEF TypeOK
<1>2. beat'[e].ver = -1 /\ beat'[e].pc = "idle"
    BY DEF NoBeat, NoVersion
<1> QED BY <1>1, <1>2 DEF BuildOf, Read

(* Every step keeps the invariant. *)
LEMMA InvStep == TypeOK /\ Inv /\ [Next]_vars => Inv'
<1> SUFFICES ASSUME TypeOK, Inv, [Next]_vars PROVE Inv'
    OBVIOUS
<1> USE DEF TypeOK
<1>0. \A w \in Workers : worker[w] \in WorkerStates
    OBVIOUS
<1>1. ASSUME NEW w \in Workers, NEW op \in Ops, NEW todo \in Loads(op), Start(w, op, todo)
      PROVE  Inv'
    <2>1. \A x \in Workers \ {w} : worker'[x] = worker[x]
        BY <1>1 DEF Start
    <2>2. \A r \in Rows : Pending(w, r) => Pending(w, r)' \/ r \in unannounced'
        BY <1>0, <1>1 DEF Start, Pending, WorkerStates, Versions
    <2>3. version' = version /\ beat' = beat /\ enf' = enf /\ unannounced \subseteq unannounced'
        BY <1>1 DEF Start
    <2>4. \A r \in Rows : Explained(r) => Explained(r)'
        BY <2>1, <2>2, <2>3, WorkerCarry
    <2>5. rows' = rows
        BY <1>1 DEF Start
    <2> QED BY <2>3, <2>4, <2>5, Carry
<1>2. ASSUME NEW w \in Workers, NEW d \in Devices, ClearIp(w, d)
      PROVE  Inv'
    <2>1. \A x \in Workers \ {w} : worker'[x] = worker[x]
        BY <1>2 DEF ClearIp
    <2>2. \A r \in Rows : Pending(w, r) => Pending(w, r)' \/ r \in unannounced'
        BY <1>0, <1>2 DEF ClearIp, Pending, WorkerStates, Versions
    <2>3. version' = version /\ beat' = beat /\ enf' = enf /\ unannounced \subseteq unannounced'
        BY <1>2 DEF ClearIp
    <2>4. \A r \in Rows : Explained(r) => Explained(r)'
        BY <2>1, <2>2, <2>3, WorkerCarry
    <2>5. \A r \in Rows : rows'[r] = rows[r] \/ Explained(r)'
        <3>1. \A r \in Rows : r # d => rows'[r] = rows[r]
            BY <1>2 DEF ClearIp, WriteRow
        <3>2. Pending(w, d)' \/ d \in unannounced'
            BY <1>0, <1>2 DEF ClearIp, Pending, WorkerStates
        <3> QED BY <3>1, <3>2 DEF Explained
    <2> QED BY <2>3, <2>4, <2>5, Carry
<1>3. ASSUME NEW w \in Workers, ClearDone(w)
      PROVE  Inv'
    <2>1. \A x \in Workers \ {w} : worker'[x] = worker[x]
        BY <1>3 DEF ClearDone
    <2>2. \A r \in Rows : Pending(w, r) => Pending(w, r)' \/ r \in unannounced'
        BY <1>0, <1>3 DEF ClearDone, Pending, WorkerStates, Versions
    <2>3. version' = version /\ beat' = beat /\ enf' = enf /\ unannounced \subseteq unannounced'
        BY <1>3 DEF ClearDone
    <2>4. \A r \in Rows : Explained(r) => Explained(r)'
        BY <2>1, <2>2, <2>3, WorkerCarry
    <2>5. rows' = rows
        BY <1>3 DEF ClearDone
    <2> QED BY <2>3, <2>4, <2>5, Carry
<1>4. ASSUME NEW w \in Workers, NEW m \in Muds, Load(w, m)
      PROVE  Inv'
    <2>1. \A x \in Workers \ {w} : worker'[x] = worker[x]
        BY <1>4 DEF Load
    <2>2. \A r \in Rows : Pending(w, r) => Pending(w, r)' \/ r \in unannounced'
        BY <1>0, <1>4 DEF Load, Pending, WorkerStates, Versions
    <2>3. version' = version /\ beat' = beat /\ enf' = enf /\ unannounced \subseteq unannounced'
        BY <1>4 DEF Load
    <2>4. \A r \in Rows : Explained(r) => Explained(r)'
        BY <2>1, <2>2, <2>3, WorkerCarry
    <2>5. rows' = rows
        BY <1>4 DEF Load
    <2> QED BY <2>3, <2>4, <2>5, Carry
<1>5. ASSUME NEW w \in Workers, NEW m \in Muds, Fetched(w, m)
      PROVE  Inv'
    <2>1. \A x \in Workers \ {w} : worker'[x] = worker[x]
        BY <1>5 DEF Fetched
    <2>2. \A r \in Rows : Pending(w, r) => Pending(w, r)' \/ r \in unannounced'
        BY <1>0, <1>5 DEF Fetched, Pending, WorkerStates, Versions
    <2>3. version' = version /\ beat' = beat /\ enf' = enf /\ unannounced \subseteq unannounced'
        BY <1>5 DEF Fetched
    <2>4. \A r \in Rows : Explained(r) => Explained(r)'
        BY <2>1, <2>2, <2>3, WorkerCarry
    <2>5. \A r \in Rows : rows'[r] = rows[r] \/ Explained(r)'
        <3>1. \A r \in Rows : r # m => rows'[r] = rows[r]
            BY <1>5 DEF Fetched, WriteRow
        <3>2. Pending(w, m)' \/ m \in unannounced'
            BY <1>0, <1>5 DEF Fetched, Pending, WorkerStates
        <3> QED BY <3>1, <3>2 DEF Explained
    <2> QED BY <2>3, <2>4, <2>5, Carry
<1>6. ASSUME NEW w \in Workers, FetchFails(w)
      PROVE  Inv'
    <2>1. \A x \in Workers \ {w} : worker'[x] = worker[x]
        BY <1>6 DEF FetchFails
    <2>2. \A r \in Rows : Pending(w, r) => Pending(w, r)' \/ r \in unannounced'
        BY <1>0, <1>6 DEF FetchFails, Pending, WorkerStates, Versions
    <2>3. version' = version /\ beat' = beat /\ enf' = enf /\ unannounced \subseteq unannounced'
        BY <1>6 DEF FetchFails
    <2>4. \A r \in Rows : Explained(r) => Explained(r)'
        BY <2>1, <2>2, <2>3, WorkerCarry
    <2>5. rows' = rows
        BY <1>6 DEF FetchFails
    <2> QED BY <2>3, <2>4, <2>5, Carry
<1>7. ASSUME NEW w \in Workers, LoadDone(w)
      PROVE  Inv'
    <2>1. \A x \in Workers \ {w} : worker'[x] = worker[x]
        BY <1>7 DEF LoadDone, Return, PendingRows
    <2>2. \A r \in Rows : Pending(w, r) => Pending(w, r)' \/ r \in unannounced'
        BY <1>0, <1>7 DEF LoadDone, Pending, WorkerStates, Versions, Return, PendingRows
    <2>3. version' = version /\ beat' = beat /\ enf' = enf /\ unannounced \subseteq unannounced'
        BY <1>7 DEF LoadDone, Return, PendingRows
    <2>4. \A r \in Rows : Explained(r) => Explained(r)'
        BY <2>1, <2>2, <2>3, WorkerCarry
    <2>5. rows' = rows
        BY <1>7 DEF LoadDone
    <2> QED BY <2>3, <2>4, <2>5, Carry
<1>8. ASSUME NEW w \in Workers, NEW r0 \in Rows, Write(w, r0)
      PROVE  Inv'
    <2>1. \A x \in Workers \ {w} : worker'[x] = worker[x]
        BY <1>8 DEF Write
    <2>2. \A r \in Rows : Pending(w, r) => Pending(w, r)' \/ r \in unannounced'
        BY <1>0, <1>8 DEF Write, Pending, WorkerStates, Versions
    <2>3. version' = version /\ beat' = beat /\ enf' = enf /\ unannounced \subseteq unannounced'
        BY <1>8 DEF Write
    <2>4. \A r \in Rows : Explained(r) => Explained(r)'
        BY <2>1, <2>2, <2>3, WorkerCarry
    <2>5. \A r \in Rows : rows'[r] = rows[r] \/ Explained(r)'
        <3>1. \A r \in Rows : r # r0 => rows'[r] = rows[r]
            BY <1>8 DEF Write, WriteRow
        <3>2. Pending(w, r0)' \/ r0 \in unannounced'
            BY <1>0, <1>8 DEF Write, Pending, WorkerStates
        <3> QED BY <3>1, <3>2 DEF Explained
    <2> QED BY <2>3, <2>4, <2>5, Carry
<1>9. ASSUME NEW w \in Workers, WriteMisses(w)
      PROVE  Inv'
    <2>1. \A x \in Workers \ {w} : worker'[x] = worker[x]
        BY <1>9 DEF WriteMisses
    <2>2. \A r \in Rows : Pending(w, r) => Pending(w, r)' \/ r \in unannounced'
        BY <1>0, <1>9 DEF WriteMisses, Pending, WorkerStates, Versions
    <2>3. version' = version /\ beat' = beat /\ enf' = enf /\ unannounced \subseteq unannounced'
        BY <1>9 DEF WriteMisses
    <2>4. \A r \in Rows : Explained(r) => Explained(r)'
        BY <2>1, <2>2, <2>3, WorkerCarry
    <2>5. rows' = rows
        BY <1>9 DEF WriteMisses
    <2> QED BY <2>3, <2>4, <2>5, Carry
<1>10. ASSUME NEW w \in Workers, ReadVersion(w)
      PROVE  Inv'
    <2>1. \A x \in Workers \ {w} : worker'[x] = worker[x]
        BY <1>10 DEF ReadVersion
    <2>2. \A r \in Rows : Pending(w, r) => Pending(w, r)' \/ r \in unannounced'
        BY VersionsNat, <1>0, <1>10 DEF ReadVersion, Pending, WorkerStates
    <2>3. version' = version /\ beat' = beat /\ enf' = enf /\ unannounced \subseteq unannounced'
        BY <1>10 DEF ReadVersion
    <2>4. \A r \in Rows : Explained(r) => Explained(r)'
        BY <2>1, <2>2, <2>3, WorkerCarry
    <2>5. rows' = rows
        BY <1>10 DEF ReadVersion
    <2> QED BY <2>3, <2>4, <2>5, Carry
<1>11. ASSUME NEW w \in Workers, ReadVersionFails(w)
      PROVE  Inv'
    <2>1. \A x \in Workers \ {w} : worker'[x] = worker[x]
        BY <1>11 DEF ReadVersionFails, PendingRows
    <2>2. \A r \in Rows : Pending(w, r) => Pending(w, r)' \/ r \in unannounced'
        BY <1>0, <1>11 DEF ReadVersionFails, Pending, WorkerStates, Versions, PendingRows
    <2>3. version' = version /\ beat' = beat /\ enf' = enf /\ unannounced \subseteq unannounced'
        BY <1>11 DEF ReadVersionFails, PendingRows
    <2>4. \A r \in Rows : Explained(r) => Explained(r)'
        BY <2>1, <2>2, <2>3, WorkerCarry
    <2>5. rows' = rows
        BY <1>11 DEF ReadVersionFails
    <2> QED BY <2>3, <2>4, <2>5, Carry
<1>12. ASSUME NEW w \in Workers, HandlerFails(w)
      PROVE  Inv'
    <2>1. \A x \in Workers \ {w} : worker'[x] = worker[x]
        BY <1>12 DEF HandlerFails, Return, PendingRows
    <2>2. \A r \in Rows : Pending(w, r) => Pending(w, r)' \/ r \in unannounced'
        BY <1>0, <1>12 DEF HandlerFails, Pending, WorkerStates, Versions, Return, PendingRows
    <2>3. version' = version /\ beat' = beat /\ enf' = enf /\ unannounced \subseteq unannounced'
        BY <1>12 DEF HandlerFails, Return, PendingRows
    <2>4. \A r \in Rows : Explained(r) => Explained(r)'
        BY <2>1, <2>2, <2>3, WorkerCarry
    <2>5. rows' = rows
        BY <1>12 DEF HandlerFails
    <2> QED BY <2>3, <2>4, <2>5, Carry
<1>13. ASSUME NEW w \in Workers, WriteVersion(w)
      PROVE  Inv'
    <2> DEFINE new == wrapping_add(worker[w].seen)
               b == new < version \/ new <= worker[w].seen
    <2>1. worker[w].seen \in Versions
        BY <1>0 DEF WorkerStates
    <2>2. new \in Versions /\ (new = worker[w].seen + 1 \/ new <= worker[w].seen)
        BY <2>1, WrapType
    <2>3. StoreVersion(new, b) /\ rows' = rows
        BY <1>13 DEF WriteVersion
    <2>4. b \in BOOLEAN /\ (new < version => b)
        OBVIOUS
    <2>5. ASSUME new = version, ~b PROVE \A r \in Rows : Explained(r) => Explained(r)'
        <3>1. worker[w].seen < version
            BY VersionsNat, <2>1, <2>2, <2>5 DEF TypeOK
        <3>2. \A r \in Rows : ~Pending(w, r)
            BY VersionsNat, <1>13, <2>1, <3>1 DEF WriteVersion, Pending, TypeOK
        <3>3. \A x \in Workers \ {w} : worker'[x] = worker[x]
            BY <1>13 DEF WriteVersion
        <3>4. version' = version /\ unannounced \subseteq unannounced'
            BY <2>3, <2>5 DEF StoreVersion, Versions
        <3> QED BY <3>2, <3>3, <3>4, WorkerCarry
    <2> HIDE DEF new, b
    <2> QED BY <2>2, <2>3, <2>4, <2>5, StoreCarry
<1>14. ASSUME NEW v \in AdminVersions \cup {0, NoNumber}, AdminSetsVersion(v)
      PROVE  Inv'
    <2>1. v \in Versions /\ (v < version) \in BOOLEAN
        BY AdminAssumption, ZeroVersion DEF Versions
    <2>2. StoreVersion(v, v < version) /\ rows' = rows /\ worker' = worker
        BY <1>14 DEF AdminSetsVersion
    <2>3. ASSUME v = version PROVE \A r \in Rows : Explained(r) => Explained(r)'
        <3>1. version' = version /\ unannounced' = unannounced
            BY VersionsNat, <2>2, <2>3 DEF StoreVersion
        <3> QED BY <2>2, <3>1 DEF Explained, Pending
    <2> QED BY <2>1, <2>2, <2>3, StoreCarry
<1>15. ASSUME NEW e \in Enforcers, HeartbeatBegin(e)
      PROVE  Inv'
    <2>0. /\ beat[e] \in BeatStates /\ enf[e] \in Configs /\ version \in Int
          /\ NotAheadOf(e) /\ SyncedOf(e) /\ BuildOf(e)
        BY DEF Inv, NotAhead, SyncedOrExplained, BuildSyncedOrExplained,
               NotAheadOf, SyncedOf, BuildOf, Versions
    <2>1. SyncedOf(e)'
        <3>1. \A r \in Rows : Explained(r) => Explained(r)'
            BY <1>15 DEF HeartbeatBegin, Explained, Pending
        <3> QED BY <1>15, <2>0, <3>1 DEF HeartbeatBegin, SyncedOf
    <2>2. beat'[e].pc = "devices" /\ beat'[e].ver <= version
        BY <1>15, <2>0 DEF HeartbeatBegin, BeatStates, Versions
    <2>3. NotAheadOf(e)' /\ BuildOf(e)'
        BY <1>15, <2>0, <2>2 DEF HeartbeatBegin, NotAheadOf, BuildOf, Read
    <2> QED BY <1>15, <2>1, <2>2, <2>3, HeartbeatCarry DEF HeartbeatBegin
<1>16. ASSUME NEW e \in Enforcers, HeartbeatBeginFails(e)
      PROVE  Inv'
    <2>0. /\ beat[e] \in BeatStates /\ enf[e] \in Configs /\ version \in Int
          /\ NotAheadOf(e) /\ SyncedOf(e) /\ BuildOf(e)
        BY DEF Inv, NotAhead, SyncedOrExplained, BuildSyncedOrExplained,
               NotAheadOf, SyncedOf, BuildOf, Versions
    <2>1. SyncedOf(e)'
        <3>1. \A r \in Rows : Explained(r) => Explained(r)'
            BY <1>16 DEF HeartbeatBeginFails, Explained, Pending
        <3> QED BY <1>16, <2>0, <3>1 DEF HeartbeatBeginFails, SyncedOf
    <2>2. beat'[e].pc = "devices" /\ beat'[e].ver <= version
        BY VersionsNat, <1>16, <2>0 DEF HeartbeatBeginFails, BeatStates
    <2>3. NotAheadOf(e)' /\ BuildOf(e)'
        BY <1>16, <2>0, <2>2 DEF HeartbeatBeginFails, NotAheadOf, BuildOf, Read
    <2> QED BY <1>16, <2>1, <2>2, <2>3, HeartbeatCarry DEF HeartbeatBeginFails
<1>17. ASSUME NEW e \in Enforcers, HeartbeatDevices(e)
      PROVE  Inv'
    <2>0. /\ beat[e] \in BeatStates /\ enf[e] \in Configs /\ version \in Int
          /\ NotAheadOf(e) /\ SyncedOf(e) /\ BuildOf(e)
        BY DEF Inv, NotAhead, SyncedOrExplained, BuildSyncedOrExplained,
               NotAheadOf, SyncedOf, BuildOf, Versions
    <2>1. SyncedOf(e)'
        <3>1. \A r \in Rows : Explained(r) => Explained(r)'
            BY <1>17 DEF HeartbeatDevices, Explained, Pending
        <3> QED BY <1>17, <2>0, <3>1 DEF HeartbeatDevices, SyncedOf
    <2>2. /\ beat'[e].ver = beat[e].ver /\ beat'[e].outrun = beat[e].outrun
          /\ \A r \in Read(e)' : beat'[e].cfg[r] = rows[r] \/ (r \in Read(e) /\ beat'[e].cfg[r] = beat[e].cfg[r])
        BY <1>17, <2>0, RowsAssumption DEF HeartbeatDevices, BeatStates, Read, Rows
    <2>3. NotAheadOf(e)' /\ BuildOf(e)'
        <3>1. \A r \in Rows : Explained(r) => Explained(r)'
            BY <1>17 DEF HeartbeatDevices, Explained, Pending
        <3>2. NotAheadOf(e)'
            BY <1>17, <2>0, <2>2 DEF HeartbeatDevices, NotAheadOf
        <3>3. Read(e) \subseteq Rows /\ rows' = rows /\ version' = version
            BY <1>17 DEF HeartbeatDevices, Read
        <3>4. BuildOf(e)'
            BY <2>0, <2>2, <3>1, <3>3 DEF BuildOf
        <3> QED BY <3>2, <3>4
    <2> QED BY <1>17, <2>1, <2>2, <2>3, HeartbeatCarry DEF HeartbeatDevices
<1>18. ASSUME NEW e \in Enforcers, NEW m \in Muds, HeartbeatLoad(e, m)
      PROVE  Inv'
    <2>0. /\ beat[e] \in BeatStates /\ enf[e] \in Configs /\ version \in Int
          /\ NotAheadOf(e) /\ SyncedOf(e) /\ BuildOf(e)
        BY VersionsNat DEF Inv, NotAhead, SyncedOrExplained, BuildSyncedOrExplained,
               NotAheadOf, SyncedOf, BuildOf, Versions
    <2>1. SyncedOf(e)'
        <3>1. \A r \in Rows : Explained(r) => Explained(r)'
            BY <1>18 DEF HeartbeatLoad, Explained, Pending
        <3> QED BY <1>18, <2>0, <3>1 DEF HeartbeatLoad, SyncedOf
    <2>2. /\ beat'[e].ver = beat[e].ver /\ beat'[e].outrun = beat[e].outrun
          /\ \A r \in Read(e)' : beat'[e].cfg[r] = rows[r] \/ (r \in Read(e) /\ beat'[e].cfg[r] = beat[e].cfg[r])
        BY <1>18, <2>0, RowsAssumption DEF HeartbeatLoad, BeatStates, Read, Rows
    <2>3. NotAheadOf(e)' /\ BuildOf(e)'
        <3>1. \A r \in Rows : Explained(r) => Explained(r)'
            BY <1>18 DEF HeartbeatLoad, Explained, Pending
        <3>2. NotAheadOf(e)'
            BY <1>18, <2>0, <2>2 DEF HeartbeatLoad, NotAheadOf
        <3>3. Read(e) \subseteq Rows /\ rows' = rows /\ version' = version
            BY <1>18 DEF HeartbeatLoad, Read
        <3>4. BuildOf(e)'
            BY <2>0, <2>2, <3>1, <3>3 DEF BuildOf
        <3> QED BY <3>2, <3>4
    <2> QED BY <1>18, <2>1, <2>2, <2>3, HeartbeatCarry DEF HeartbeatLoad
<1>19. ASSUME NEW e \in Enforcers, HeartbeatFetchFails(e)
      PROVE  Inv'
    <2>0. /\ beat[e] \in BeatStates /\ enf[e] \in Configs /\ version \in Int
          /\ NotAheadOf(e) /\ SyncedOf(e) /\ BuildOf(e)
        BY DEF Inv, NotAhead, SyncedOrExplained, BuildSyncedOrExplained,
               NotAheadOf, SyncedOf, BuildOf, Versions
    <2>1. SyncedOf(e)'
        <3>1. \A r \in Rows : Explained(r) => Explained(r)'
            BY <1>19 DEF HeartbeatFetchFails, Explained, Pending
        <3> QED BY <1>19, <2>0, <3>1 DEF HeartbeatFetchFails, SyncedOf
    <2>2. /\ beat'[e].ver = beat[e].ver /\ beat'[e].outrun = beat[e].outrun
          /\ \A r \in Read(e)' : beat'[e].cfg[r] = rows[r] \/ (r \in Read(e) /\ beat'[e].cfg[r] = beat[e].cfg[r])
        BY <1>19, <2>0, RowsAssumption DEF HeartbeatFetchFails, BeatStates, Read, Rows
    <2>3. NotAheadOf(e)' /\ BuildOf(e)'
        <3>1. \A r \in Rows : Explained(r) => Explained(r)'
            BY <1>19 DEF HeartbeatFetchFails, Explained, Pending
        <3>2. NotAheadOf(e)'
            BY <1>19, <2>0, <2>2 DEF HeartbeatFetchFails, NotAheadOf
        <3>3. Read(e) \subseteq Rows /\ rows' = rows /\ version' = version
            BY <1>19 DEF HeartbeatFetchFails, Read
        <3>4. BuildOf(e)'
            BY <2>0, <2>2, <3>1, <3>3 DEF BuildOf
        <3> QED BY <3>2, <3>4
    <2> QED BY <1>19, <2>1, <2>2, <2>3, HeartbeatCarry DEF HeartbeatFetchFails
<1>20. ASSUME NEW e \in Enforcers, NEW m \in Muds, HeartbeatFetched(e, m)
      PROVE  Inv'
    <2>0. /\ beat[e] \in BeatStates /\ enf[e] \in Configs /\ version \in Int
          /\ NotAheadOf(e) /\ SyncedOf(e) /\ BuildOf(e)
        BY VersionsNat DEF Inv, NotAhead, SyncedOrExplained, BuildSyncedOrExplained,
               NotAheadOf, SyncedOf, BuildOf, Versions
    <2>4. /\ m \in Rows /\ m \in unannounced' /\ version' = version /\ enf' = enf
          /\ \A r \in Rows : r # m => rows'[r] = rows[r]
          /\ \A r \in Rows : Explained(r) => Explained(r)'
        BY <1>20 DEF HeartbeatFetched, WriteRow, Explained, Pending, Rows
    <2>5. \A r \in Rows : rows'[r] = rows[r] \/ r \in unannounced'
        BY <2>4
    <2>1. SyncedOf(e)'
        BY <2>0, <2>4 DEF SyncedOf, Explained
    <2>6. /\ beat'[e].ver = beat[e].ver /\ beat'[e].outrun = beat[e].outrun
          /\ Read(e)' = Read(e) /\ Read(e) \subseteq Rows
          /\ \A r \in Rows : r # m => beat'[e].cfg[r] = beat[e].cfg[r]
        BY <1>20, <2>0 DEF HeartbeatFetched, BeatStates, Read
    <2>2. NotAheadOf(e)'
        BY <2>0, <2>4, <2>6 DEF NotAheadOf
    <2>3. BuildOf(e)'
        BY <2>0, <2>4, <2>6 DEF BuildOf, Explained
    <2> QED BY <1>20, <2>1, <2>2, <2>3, <2>5, HeartbeatCarry DEF HeartbeatFetched
<1>21. ASSUME NEW e \in Enforcers, HeartbeatReply(e)
      PROVE  Inv'
    <2>0. /\ beat[e] \in BeatStates /\ enf[e] \in Configs /\ version \in Int
          /\ NotAheadOf(e) /\ SyncedOf(e) /\ BuildOf(e)
        BY DEF Inv, NotAhead, SyncedOrExplained, BuildSyncedOrExplained,
               NotAheadOf, SyncedOf, BuildOf, Versions
    <2>1. SyncedOf(e)'
        <3>1. Read(e) = Rows /\ enf'[e].cfg = beat[e].cfg /\ enf'[e].ver = beat[e].ver
            BY <1>21 DEF HeartbeatReply, Read
        <3>2. enf'[e].outrun = beat[e].outrun /\ version' = version /\ rows' = rows
            BY <1>21 DEF HeartbeatReply
        <3>3. \A r \in Rows : Explained(r) => Explained(r)'
            BY <1>21 DEF HeartbeatReply, Explained, Pending
        <3> QED BY <2>0, <3>1, <3>2, <3>3 DEF BuildOf, SyncedOf
    <2>2. BuildOf(e)' /\ (~beat'[e].outrun => beat'[e].ver <= version')
        BY <1>21, NoBeatCarry DEF HeartbeatReply
    <2>3. NotAheadOf(e)'
        BY <1>21, <2>0, <2>2 DEF HeartbeatReply, NotAheadOf
    <2> QED BY <1>21, <2>1, <2>2, <2>3, HeartbeatCarry DEF HeartbeatReply
<1>22. ASSUME NEW e \in Enforcers, HeartbeatLoadFails(e)
      PROVE  Inv'
    <2>0. /\ beat[e] \in BeatStates /\ enf[e] \in Configs /\ version \in Int
          /\ NotAheadOf(e) /\ SyncedOf(e) /\ BuildOf(e)
        BY DEF Inv, NotAhead, SyncedOrExplained, BuildSyncedOrExplained,
               NotAheadOf, SyncedOf, BuildOf, Versions
    <2>1. SyncedOf(e)'
        BY <1>22 DEF HeartbeatLoadFails, SyncedOf
    <2>2. BuildOf(e)' /\ (~beat'[e].outrun => beat'[e].ver <= version')
        BY <1>22, NoBeatCarry DEF HeartbeatLoadFails
    <2>3. NotAheadOf(e)'
        BY <1>22, <2>0, <2>2 DEF HeartbeatLoadFails, NotAheadOf
    <2> QED BY <1>22, <2>1, <2>2, <2>3, HeartbeatCarry DEF HeartbeatLoadFails
<1>23. ASSUME NEW e \in Enforcers, ReplyLost(e)
      PROVE  Inv'
    <2>0. /\ beat[e] \in BeatStates /\ enf[e] \in Configs /\ version \in Int
          /\ NotAheadOf(e) /\ SyncedOf(e) /\ BuildOf(e)
        BY DEF Inv, NotAhead, SyncedOrExplained, BuildSyncedOrExplained,
               NotAheadOf, SyncedOf, BuildOf, Versions
    <2>1. SyncedOf(e)'
        <3>1. \A r \in Rows : Explained(r) => Explained(r)'
            BY <1>23 DEF ReplyLost, Explained, Pending
        <3> QED BY <1>23, <2>0, <3>1 DEF ReplyLost, SyncedOf
    <2>2. BuildOf(e)' /\ (~beat'[e].outrun => beat'[e].ver <= version')
        BY <1>23, NoBeatCarry DEF ReplyLost
    <2>3. NotAheadOf(e)'
        BY <1>23, <2>0, <2>2 DEF ReplyLost, NotAheadOf
    <2> QED BY <1>23, <2>1, <2>2, <2>3, HeartbeatCarry DEF ReplyLost
<1>24. ASSUME NEW e \in Enforcers, EnforcerRestarts(e)
      PROVE  Inv'
    <2>0. /\ beat[e] \in BeatStates /\ enf[e] \in Configs /\ version \in Int
          /\ NotAheadOf(e) /\ SyncedOf(e) /\ BuildOf(e)
        BY DEF Inv, NotAhead, SyncedOrExplained, BuildSyncedOrExplained,
               NotAheadOf, SyncedOf, BuildOf, Versions
    <2>4. enf'[e].ver = -1 /\ version' = version /\ version \in Nat
        BY VersionsNat, <1>24 DEF EnforcerRestarts, NoConfig, NoVersion
    <2>1. SyncedOf(e)'
        BY <2>4 DEF SyncedOf
    <2>2. BuildOf(e)' /\ (~beat'[e].outrun => beat'[e].ver <= version')
        BY <1>24, NoBeatCarry DEF EnforcerRestarts
    <2>3. NotAheadOf(e)'
        BY <2>2, <2>4 DEF NotAheadOf
    <2> QED BY <1>24, <2>1, <2>2, <2>3, HeartbeatCarry DEF EnforcerRestarts
<1>25. CASE Crash
    <2>1. \A e \in Enforcers : BuildOf(e)' /\ (~beat'[e].outrun => beat'[e].ver <= version')
        BY <1>25, NoBeatCarry DEF Crash
    <2>2. version' = version /\ rows' = rows /\ enf' = enf
        BY <1>25 DEF Crash
    <2>3. \A r \in Rows : Explained(r) => Explained(r)'
        BY <1>25 DEF Crash, Explained
    <2>4. NotAhead'
        BY <2>1, <2>2 DEF Inv, NotAhead
    <2>5. SyncedOrExplained'
        BY <2>2, <2>3 DEF Inv, SyncedOrExplained
    <2>6. BuildSyncedOrExplained'
        BY <2>1 DEF BuildOf, BuildSyncedOrExplained
    <2> QED BY <2>4, <2>5, <2>6 DEF Inv
<1>26. ASSUME NEW m \in Muds, Expire(m)
      PROVE  Inv'
    <2>1. \A r \in Rows : Explained(r) => Explained(r)'
        BY <1>26 DEF Expire, Explained, Pending
    <2> QED BY <1>26, <2>1, Carry DEF Expire
<1>27. CASE UNCHANGED vars
    <2>1. \A r \in Rows : Explained(r) => Explained(r)'
        BY <1>27 DEF vars, Explained, Pending
    <2> QED BY <1>27, <2>1, Carry DEF vars
<1>28. ASSUME NEW e \in Enforcers, HeartbeatNone(e) PROVE Inv'
    BY <1>27, <1>28 DEF HeartbeatNone
<1> QED
    BY <1>1, <1>2, <1>3, <1>4, <1>5, <1>6, <1>7, <1>8, <1>9, <1>10, <1>11, <1>12, <1>13,
       <1>14, <1>15, <1>16, <1>17, <1>18, <1>19, <1>20, <1>21, <1>22, <1>23, <1>24, <1>25,
       <1>26, <1>27, <1>28 DEF Next, WorkerStep, HeartbeatStep

(* An enforcer that holds the current version lacks a change only if its handler
   is still going to bump the counter or is one of those that never do; the
   counter moving backwards and failed loads are the only other ways. *)
THEOREM Synced == Spec => []SyncedOrExplained
<1>1. Init => Inv
    <2> SUFFICES ASSUME Init PROVE Inv
        OBVIOUS
    <2>1. version = 0 /\ \A e \in Enforcers : enf[e].ver = -1 /\ beat[e].ver = -1
        BY DEF Init, NoConfig, NoBeat, NoVersion
    <2> QED BY <2>1 DEF Inv, NotAhead, SyncedOrExplained, BuildSyncedOrExplained
<1>2. Inv => SyncedOrExplained
    BY DEF Inv
<1> QED BY <1>1, <1>2, TypeCorrect, InvStep, PTL DEF Spec

(***************************************************************************)
(* ConfigSync implements ConfigFeed.                                       *)
(***************************************************************************)

(* The inductive invariant: the rows a heartbeat has read are not older than
   what its enforcer holds nor newer than the rows, and its version is a new
   one for the enforcer. *)
Fed(e) ==
    /\ \A r \in Rows : enf[e].cfg[r] <= rows[r]
    /\ \A r \in Read(e) : enf[e].cfg[r] <= beat[e].cfg[r] /\ beat[e].cfg[r] <= rows[r]
    /\ beat[e].pc # "idle" => beat[e].ver \in Versions \ {enf[e].ver}

FeedInv == \A e \in Enforcers : Fed(e)

FeedNext == [Feed!Next]_<<rows, holds>>

(* Rows change one at a time, if at all. *)
RowsStep == rows' = rows \/ \E r \in Rows : WriteRow(r)

LEMMA RowsGrow ==
    ASSUME TypeOK, RowsStep
    PROVE  \A r \in Rows : rows[r] \in Nat /\ rows'[r] \in Nat /\ rows[r] <= rows'[r]
<1>1. CASE rows' = rows
    BY <1>1 DEF TypeOK
<1>2. ASSUME NEW x \in Rows, WriteRow(x)
      PROVE  \A r \in Rows : rows[r] \in Nat /\ rows'[r] \in Nat /\ rows[r] <= rows'[r]
    BY <1>2 DEF TypeOK, WriteRow
<1> QED BY <1>1, <1>2 DEF RowsStep

LEMMA ReadType ==
    ASSUME TypeOK, NEW e \in Enforcers
    PROVE  /\ Read(e) \subseteq Rows
           /\ \A r \in Rows : enf[e].cfg[r] \in Nat /\ beat[e].cfg[r] \in Nat
BY DEF TypeOK, Read, Configs, BeatStates

(* An enforcer that has no part in a step. *)
LEMMA FedCarry ==
    ASSUME TypeOK, RowsStep, NEW e \in Enforcers, Fed(e),
           enf'[e].cfg = enf[e].cfg, enf'[e].ver = enf[e].ver,
           beat'[e].pc = beat[e].pc, beat'[e].todo = beat[e].todo,
           beat'[e].cfg = beat[e].cfg, beat'[e].ver = beat[e].ver
    PROVE  Fed(e)'
<1>1. Read(e)' = Read(e)
    BY DEF Read
<1> QED BY <1>1, RowsGrow, ReadType DEF Fed

(* What ConfigFeed sees when the enforcers keep what they hold. *)
LEMMA KeepsFeed ==
    ASSUME RowsStep, holds' = holds
    PROVE  FeedNext
<1>1. CASE rows' = rows
    BY <1>1 DEF FeedNext
<1>2. ASSUME NEW r \in Rows, WriteRow(r) PROVE FeedNext
    BY <1>2 DEF FeedNext, WriteRow, Feed!Next, Feed!Change
<1> QED BY <1>1, <1>2 DEF RowsStep

(* A step of a handler. *)
LEMMA WriteFeed ==
    ASSUME TypeOK, FeedInv, RowsStep, UNCHANGED <<beat, enf>>
    PROVE  FeedInv' /\ FeedNext
<1>1. holds' = holds
    BY DEF holds
<1>2. FeedInv'
    BY FedCarry DEF FeedInv
<1> QED BY <1>1, <1>2, KeepsFeed

(* A step that stores a version marks configs and changes nothing else. *)
LEMMA StoreFeed ==
    ASSUME TypeOK, FeedInv, rows' = rows, NEW v, NEW b \in BOOLEAN, StoreVersion(v, b)
    PROVE  FeedInv' /\ FeedNext
<1>1. \A e \in Enforcers :
        /\ enf'[e].cfg = enf[e].cfg /\ enf'[e].ver = enf[e].ver /\ enf'[e].blank = enf[e].blank
        /\ beat'[e].pc = beat[e].pc /\ beat'[e].todo = beat[e].todo
        /\ beat'[e].cfg = beat[e].cfg /\ beat'[e].ver = beat[e].ver
    BY DEF StoreVersion, TypeOK, Configs, BeatStates
<1>2. holds' = holds
    BY <1>1 DEF holds
<1>3. RowsStep
    BY DEF RowsStep
<1>4. FeedInv'
    BY <1>1, <1>3, FedCarry DEF FeedInv
<1> QED BY <1>2, <1>3, <1>4, KeepsFeed

(* A step of the heartbeat of e before its reply. *)
LEMMA BeatFeed ==
    ASSUME TypeOK, FeedInv, RowsStep, enf' = enf, NEW e \in Enforcers, Fed(e)',
           \A x \in Enforcers \ {e} : beat'[x] = beat[x]
    PROVE  FeedInv' /\ FeedNext
<1>1. holds' = holds
    BY DEF holds
<1>2. ASSUME NEW x \in Enforcers \ {e} PROVE Fed(x)'
    BY <1>2, FedCarry DEF FeedInv
<1> QED BY <1>1, <1>2, KeepsFeed DEF FeedInv

(* Enforcer e gets a config or loses the one it had. *)
LEMMA HandFeed ==
    ASSUME TypeOK, FeedInv, rows' = rows, NEW e \in Enforcers, NEW c,
           enf' = [enf EXCEPT ![e] = c], beat' = [beat EXCEPT ![e] = NoBeat],
           \A r \in Rows : c.cfg[r] <= rows[r]
    PROVE  /\ FeedInv'
           /\ holds' = [holds EXCEPT ![e] = [ver |-> c.ver, cfg |-> c.cfg, blank |-> c.blank]]
<1>1. enf'[e] = c /\ beat'[e] = NoBeat
    BY DEF TypeOK
<1>2. Fed(e)'
    BY <1>1 DEF Fed, Read, NoBeat
<1>3. RowsStep
    BY DEF RowsStep
<1>4. ASSUME NEW x \in Enforcers \ {e} PROVE Fed(x)'
    BY <1>3, <1>4, FedCarry DEF FeedInv, TypeOK
<1>5. holds' = [holds EXCEPT ![e] = [ver |-> c.ver, cfg |-> c.cfg, blank |-> c.blank]]
    BY <1>1 DEF holds, TypeOK
<1> QED BY <1>2, <1>4, <1>5 DEF FeedInv

-----------------------------------------------------------------------------
(* Every step keeps the invariant and is a step of ConfigFeed or none. *)
LEMMA FeedStep == TypeOK /\ TypeOK' /\ FeedInv /\ [Next]_vars => FeedInv' /\ FeedNext
<1> SUFFICES ASSUME TypeOK, TypeOK', FeedInv, [Next]_vars PROVE FeedInv' /\ FeedNext
    OBVIOUS
<1>1. ASSUME UNCHANGED <<rows, beat, enf>> PROVE FeedInv' /\ FeedNext
    BY <1>1, WriteFeed DEF RowsStep
<1>2. ASSUME NEW w \in Workers,
             \/ \E op \in Ops : \E todo \in Loads(op) : Start(w, op, todo)
             \/ ClearDone(w) \/ FetchFails(w) \/ LoadDone(w) \/ WriteMisses(w) \/ ReadVersion(w)
             \/ ReadVersionFails(w) \/ HandlerFails(w) \/ \E m \in Muds : Load(w, m)
      PROVE  FeedInv' /\ FeedNext
    BY <1>1, <1>2 DEF Start, ClearDone, FetchFails, LoadDone, WriteMisses, ReadVersion,
                      ReadVersionFails, HandlerFails, Load
<1>3. ASSUME NEW w \in Workers,
             \/ \E d \in Devices : ClearIp(w, d)
             \/ \E m \in Muds : Fetched(w, m)
             \/ \E r \in Rows : Write(w, r)
      PROVE  FeedInv' /\ FeedNext
    <2>1. RowsStep /\ UNCHANGED <<beat, enf>>
        BY <1>3 DEF ClearIp, Fetched, Write, RowsStep, Rows
    <2> QED BY <2>1, WriteFeed
<1>4. ASSUME NEW w \in Workers, WriteVersion(w) PROVE FeedInv' /\ FeedNext
    <2> DEFINE new == wrapping_add(worker[w].seen)
               back == new < version \/ new <= worker[w].seen
    <2>1. StoreVersion(new, back) /\ rows' = rows
        BY <1>4 DEF WriteVersion
    <2>2. back \in BOOLEAN
        OBVIOUS
    <2> QED BY <2>1, <2>2, StoreFeed
<1>5. ASSUME NEW v \in AdminVersions \cup {0, NoNumber}, AdminSetsVersion(v) PROVE FeedInv' /\ FeedNext
    <2>1. StoreVersion(v, v < version) /\ rows' = rows /\ (v < version) \in BOOLEAN
        BY <1>5 DEF AdminSetsVersion
    <2> QED BY <2>1, StoreFeed
<1>6. ASSUME NEW e \in Enforcers, HeartbeatNone(e) PROVE FeedInv' /\ FeedNext
    BY <1>1, <1>6 DEF HeartbeatNone, vars
<1>7. ASSUME NEW e \in Enforcers, HeartbeatBegin(e) \/ HeartbeatBeginFails(e)
      PROVE  FeedInv' /\ FeedNext
    <2>1. /\ rows' = rows /\ enf' = enf
          /\ beat'[e].pc = "devices" /\ beat'[e].ver \in Versions \ {enf[e].ver}
          /\ \A x \in Enforcers \ {e} : beat'[x] = beat[x]
        BY <1>7, ZeroVersion DEF HeartbeatBegin, HeartbeatBeginFails, TypeOK, BeatStates
    <2>2. Fed(e)'
        BY <2>1 DEF Fed, Read, FeedInv
    <2> QED BY <2>1, <2>2, BeatFeed DEF RowsStep
<1>8. ASSUME NEW e \in Enforcers, HeartbeatDevices(e) PROVE FeedInv' /\ FeedNext
    <2>1. /\ rows' = rows /\ enf' = enf
          /\ beat'[e].pc = "load" /\ beat'[e].ver = beat[e].ver /\ beat'[e].todo = Muds
          /\ \A r \in Devices : beat'[e].cfg[r] = rows[r]
          /\ \A x \in Enforcers \ {e} : beat'[x] = beat[x]
        BY <1>8, RowsAssumption DEF HeartbeatDevices, TypeOK, BeatStates, Rows
    <2>2. Read(e)' \subseteq Devices /\ Devices \subseteq Rows
        BY <2>1 DEF Read, Rows
    <2>3. \A r \in Rows : enf[e].cfg[r] <= rows[r] /\ rows[r] \in Nat
        BY DEF FeedInv, Fed, TypeOK
    <2>4. Fed(e)'
        <3>1. \A r \in Rows : enf'[e].cfg[r] <= rows'[r]
            BY <2>1, <2>3
        <3>2. \A r \in Read(e)' : enf'[e].cfg[r] <= beat'[e].cfg[r] /\ beat'[e].cfg[r] <= rows'[r]
            BY <2>1, <2>2, <2>3
        <3>3. beat'[e].ver \in Versions \ {enf'[e].ver}
            BY <1>8, <2>1 DEF FeedInv, Fed, HeartbeatDevices
        <3> QED BY <3>1, <3>2, <3>3 DEF Fed
    <2> QED BY <2>1, <2>4, BeatFeed DEF RowsStep
<1>9. ASSUME NEW e \in Enforcers, NEW m \in Muds, HeartbeatLoad(e, m) PROVE FeedInv' /\ FeedNext
    <2>1. /\ rows' = rows /\ enf' = enf
          /\ beat'[e].pc = "load" /\ beat[e].pc = "load" /\ beat'[e].ver = beat[e].ver
          /\ beat'[e].todo = beat[e].todo \ {m}
          /\ \A r \in Rows : beat'[e].cfg[r] = IF r = m THEN rows[r] ELSE beat[e].cfg[r]
          /\ \A x \in Enforcers \ {e} : beat'[x] = beat[x]
        BY <1>9 DEF HeartbeatLoad, TypeOK, BeatStates, Rows
    <2>2. Read(e)' \subseteq Read(e) \cup {m} /\ Read(e) \subseteq Rows /\ m \in Rows
        BY <2>1 DEF Read, Rows
    <2>3. \A r \in Rows : enf[e].cfg[r] <= rows[r] /\ rows[r] \in Nat
        BY DEF FeedInv, Fed, TypeOK
    <2>4. Fed(e)'
        BY <2>1, <2>2, <2>3 DEF Fed, FeedInv
    <2> QED BY <2>1, <2>4, BeatFeed DEF RowsStep
<1>10. ASSUME NEW e \in Enforcers, NEW m \in Muds, HeartbeatFetched(e, m)
       PROVE  FeedInv' /\ FeedNext
    <2>1. /\ WriteRow(m) /\ enf' = enf
          /\ beat'[e].pc = "load" /\ beat[e].pc = "load" /\ beat'[e].ver = beat[e].ver
          /\ beat'[e].todo = beat[e].todo
          /\ \A r \in Rows : beat'[e].cfg[r] = IF r = m THEN rows[r] + 1 ELSE beat[e].cfg[r]
          /\ \A x \in Enforcers \ {e} : beat'[x] = beat[x]
        BY <1>10 DEF HeartbeatFetched, TypeOK, BeatStates, Rows
    <2>2. Read(e)' = Read(e) /\ Read(e) \subseteq Rows /\ m \in Rows
        BY <2>1 DEF Read, Rows
    <2>3. \A r \in Rows : enf[e].cfg[r] <= rows[r] /\ rows[r] \in Nat /\ enf[e].cfg[r] \in Nat
        BY ReadType DEF FeedInv, Fed, TypeOK
    <2>4. \A r \in Rows : rows'[r] = IF r = m THEN rows[r] + 1 ELSE rows[r]
        BY <2>1 DEF WriteRow, TypeOK
    <2>5. Fed(e)'
        BY <2>1, <2>2, <2>3, <2>4 DEF Fed, FeedInv
    <2> QED BY <2>1, <2>2, <2>5, BeatFeed DEF RowsStep
<1>11. ASSUME NEW e \in Enforcers, HeartbeatFetchFails(e) PROVE FeedInv' /\ FeedNext
    <2>1. /\ rows' = rows /\ enf' = enf
          /\ beat'[e].pc = beat[e].pc /\ beat'[e].ver = beat[e].ver
          /\ beat'[e].todo = beat[e].todo /\ beat'[e].cfg = beat[e].cfg
          /\ \A x \in Enforcers \ {e} : beat'[x] = beat[x]
        BY <1>11 DEF HeartbeatFetchFails, TypeOK, BeatStates
    <2>2. RowsStep /\ Fed(e)
        BY <2>1 DEF RowsStep, FeedInv
    <2>3. Fed(e)'
        BY <2>1, <2>2, FedCarry
    <2> QED BY <2>1, <2>2, <2>3, BeatFeed
<1>12. ASSUME NEW e \in Enforcers, HeartbeatReply(e) PROVE FeedInv' /\ FeedNext
    <2> DEFINE c == [ver |-> beat[e].ver, cfg |-> beat[e].cfg, outrun |-> beat[e].outrun, blank |-> FALSE]
    <2>1. Read(e) = Rows /\ Fed(e) /\ beat[e].pc # "idle" /\ beat[e] \in BeatStates
        BY <1>12 DEF HeartbeatReply, Read, FeedInv, TypeOK
    <2>2. FeedInv' /\ holds' = [holds EXCEPT ![e] = [ver |-> c.ver, cfg |-> c.cfg, blank |-> c.blank]]
        BY <1>12, <2>1, HandFeed DEF HeartbeatReply, Fed
    <2>3. holds[e] = [ver |-> enf[e].ver, cfg |-> enf[e].cfg, blank |-> enf[e].blank]
        BY DEF holds
    <2>4. holds'[e] = [ver |-> beat[e].ver, cfg |-> beat[e].cfg, blank |-> FALSE]
        BY <2>2 DEF holds
    <2>5. holds'[e] \in Feed!Held
        BY <2>1, <2>4 DEF Feed!Held, BeatStates
    <2>6. holds' = [holds EXCEPT ![e] = holds'[e]]
        BY <2>2, <2>4
    <2>7. Feed!Deliver(e)
        BY <1>12, <2>1, <2>3, <2>4, <2>5, <2>6 DEF HeartbeatReply, Feed!Deliver, Fed
    <2> QED BY <2>2, <2>7 DEF FeedNext, Feed!Next
<1>13. ASSUME NEW e \in Enforcers, HeartbeatLoadFails(e) PROVE FeedInv' /\ FeedNext
    <2> DEFINE c == [ver |-> beat[e].ver, cfg |-> NoRows, outrun |-> beat[e].outrun, blank |-> TRUE]
    <2>1. \A r \in Rows : c.cfg[r] <= rows[r]
        BY DEF NoRows, TypeOK
    <2>2. FeedInv' /\ holds' = [holds EXCEPT ![e] = [ver |-> c.ver, cfg |-> c.cfg, blank |-> c.blank]]
        BY <1>13, <2>1, HandFeed DEF HeartbeatLoadFails
    <2>3. holds[e].ver = enf[e].ver /\ beat[e].ver \in Versions \ {enf[e].ver}
        BY <1>13 DEF holds, FeedInv, Fed, HeartbeatLoadFails
    <2>4. Feed!DeliverBlank(e)
        BY <1>13, <2>2, <2>3 DEF Feed!DeliverBlank, Feed!Blank, NoRows, HeartbeatLoadFails
    <2> QED BY <2>2, <2>4 DEF FeedNext, Feed!Next
<1>14. ASSUME NEW e \in Enforcers, ReplyLost(e) PROVE FeedInv' /\ FeedNext
    <2>1. /\ rows' = rows /\ enf' = enf /\ beat'[e] = NoBeat
          /\ \A x \in Enforcers \ {e} : beat'[x] = beat[x]
        BY <1>14 DEF ReplyLost, TypeOK
    <2>2. Fed(e)'
        BY <2>1 DEF Fed, Read, NoBeat, FeedInv
    <2> QED BY <2>1, <2>2, BeatFeed DEF RowsStep
<1>15. ASSUME NEW e \in Enforcers, EnforcerRestarts(e) PROVE FeedInv' /\ FeedNext
    <2>1. \A r \in Rows : NoConfig.cfg[r] <= rows[r]
        BY DEF NoConfig, NoRows, TypeOK
    <2>2. /\ FeedInv'
          /\ holds' = [holds EXCEPT ![e] = [ver |-> NoConfig.ver, cfg |-> NoConfig.cfg,
                                            blank |-> NoConfig.blank]]
        BY <1>15, <2>1, HandFeed DEF EnforcerRestarts
    <2>3. Feed!Forget(e)
        BY <1>15, <2>2 DEF Feed!Forget, Feed!NoneHeld, Feed!Blank, NoConfig, NoRows, EnforcerRestarts
    <2> QED BY <2>2, <2>3 DEF FeedNext, Feed!Next
<1>16. CASE Crash
    <2>1. /\ rows' = rows /\ enf' = enf /\ \A e \in Enforcers : beat'[e] = NoBeat
        BY <1>16 DEF Crash
    <2>2. FeedInv'
        BY <2>1 DEF FeedInv, Fed, Read, NoBeat
    <2>3. holds' = holds
        BY <2>1 DEF holds
    <2> QED BY <2>1, <2>2, <2>3, KeepsFeed DEF RowsStep
<1>17. ASSUME NEW m \in Muds, Expire(m) PROVE FeedInv' /\ FeedNext
    BY <1>1, <1>17 DEF Expire
<1>18. CASE UNCHANGED vars
    BY <1>1, <1>18 DEF vars
<1> QED
    BY <1>2, <1>3, <1>4, <1>5, <1>6, <1>7, <1>8, <1>9, <1>10, <1>11, <1>12, <1>13, <1>14,
       <1>15, <1>16, <1>17, <1>18 DEF Next, WorkerStep, HeartbeatStep

(* No reply takes an enforcer back to an older state of a row, except to a
   config without devices, none shows a row that was not written yet, and none
   repeats the version the enforcer holds: the handlers, heartbeats and faults
   of the controller implement ConfigFeed. *)
THEOREM FeedImplemented == Spec => ImplementsFeed
<1>1. Init => Feed!Init
    BY DEF Init, Feed!Init, Feed!NoneHeld, Feed!Blank, NoRows, holds, NoConfig
<1>2. Init => FeedInv
    BY DEF Init, FeedInv, Fed, Read, NoConfig, NoBeat, NoRows
<1> QED BY <1>1, <1>2, TypeCorrect, FeedStep, PTL DEF Spec, ImplementsFeed, Feed!Spec, FeedNext
=============================================================================
