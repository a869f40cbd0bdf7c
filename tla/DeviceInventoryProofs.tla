----------------------- MODULE DeviceInventoryProofs ------------------------
(***************************************************************************)
(* Proofs about DeviceInventory, for every set of clients, addresses and   *)
(* handlers and every bound.                                               *)
(***************************************************************************)
EXTENDS DeviceInventory, FiniteSetTheorems, TLAPS

(* Handlers that may still add a row.  Each stands for a request that has not
   added one yet, so the ids never run out of Ids. *)
Running == {w \in Workers : worker[w].pc \notin {"idle", "bump"}}
Counted ==
    /\ IsFiniteSet(Running)
    /\ nextId - 1 + Cardinality(Running) <= requests
    /\ requests <= MaxRequests

(* AUTOINCREMENT: nobody knows an id that has not been given out. *)
Fresh ==
    /\ nextId >= 1
    /\ \A i \in devices : i < nextId
    /\ \A w \in Workers : worker[w].id < nextId

(* A REST handler has no lease. *)
LeaseOnly == \A w \in Workers : worker[w].op = "lease" \/ worker[w].lease = NoLease

TypeInv == DevicesTypeOK /\ Counted /\ Fresh /\ LeaseOnly

-----------------------------------------------------------------------------
(* The operators on rows. *)

LEMMA NoRowType == NoRow \in Rows /\ NoLease \notin Leases
BY ClientAssumption DEF NoRow, Rows, NoLease, Leases

LEMMA IdleType ==
    Idle \in HandlerStates /\ Idle.pc = "idle" /\ Idle.id = 0 /\ Idle.lease = NoLease
BY NoRowType DEF Idle, HandlerStates, NewDevice

LEMMA LeaseFields ==
    ASSUME NEW l \in Leases \cup {NoLease}
    PROVE  /\ l.mac \in Macs \cup {None} /\ l.duid \in Duids \cup {None}
           /\ l.v4 \in V4 \cup {None} /\ l.v6 \in V6 \cup {None}
BY DEF Leases, NoLease

(* What apply keeps and what it sets. *)
LEMMA ApplyRow ==
    ASSUME NEW r \in Rows, NEW l \in Leases \cup {NoLease}
    PROVE  /\ apply(r, l) \in Rows
           /\ apply(r, l).user = r.user
           /\ apply(r, l).mac = IF l.mac # None THEN l.mac ELSE r.mac
           /\ apply(r, l).duid = IF l.duid # None THEN l.duid ELSE r.duid
           /\ apply(r, l).v4 = IF l.v4 # None THEN l.v4 ELSE r.v4
           /\ apply(r, l).v6 = IF l.v6 # None THEN l.v6 ELSE r.v6
<1>1. /\ l.mac \in Macs \cup {None} /\ l.duid \in Duids \cup {None}
      /\ l.v4 \in V4 \cup {None} /\ l.v6 \in V6 \cup {None}
    BY LeaseFields
<1> QED BY <1>1 DEF Rows, apply

(* The same for the fields of a request, for a row stored with user fields n. *)
UserRow(r, b, n) == [apply_to(r, b) EXCEPT !.user = n]
LEMMA ApplyToRow ==
    ASSUME NEW r \in Rows, NEW b \in Bodies, NEW n \in Nat
    PROVE  /\ UserRow(r, b, n) \in Rows
           /\ UserRow(r, b, n).mac = IF b.mac # None THEN parsed(b.mac) ELSE r.mac
           /\ UserRow(r, b, n).duid = IF b.duid # None THEN parsed(b.duid) ELSE r.duid
           /\ UserRow(r, b, n).v4 = IF b.v4 # None THEN parsed(b.v4) ELSE r.v4
           /\ UserRow(r, b, n).v6 = IF b.v6 # None THEN parsed(b.v6) ELSE r.v6
<1>1. /\ parsed(b.mac) \in Macs \cup {None} /\ parsed(b.duid) \in Duids \cup {None}
      /\ parsed(b.v4) \in V4 \cup {None} /\ parsed(b.v6) \in V6 \cup {None}
    BY ClientAssumption DEF Bodies, parsed
<1>2. DOMAIN r = {"mac", "duid", "v4", "v6", "user"}
    BY DEF Rows
<1>3. apply_to(r, b) \in Rows
    BY <1>1, <1>2 DEF Rows, Bodies, apply_to
<1>4. /\ apply_to(r, b).mac = IF b.mac # None THEN parsed(b.mac) ELSE r.mac
      /\ apply_to(r, b).duid = IF b.duid # None THEN parsed(b.duid) ELSE r.duid
      /\ apply_to(r, b).v4 = IF b.v4 # None THEN parsed(b.v4) ELSE r.v4
      /\ apply_to(r, b).v6 = IF b.v6 # None THEN parsed(b.v6) ELSE r.v6
    BY <1>2 DEF Rows, Bodies, apply_to
<1> QED BY <1>3, <1>4 DEF Rows, UserRow

-----------------------------------------------------------------------------
(* How a step of the handler of w changes what is known of all handlers. *)

LEMMA MoveType ==
    ASSUME TypeInv, NEW w \in Workers, NEW s \in HandlerStates, worker' = [worker EXCEPT ![w] = s],
           nextId' \in Nat, nextId <= nextId', s.id < nextId',
           s.op = "lease" \/ s.lease = NoLease
    PROVE  /\ worker' \in [Workers -> HandlerStates] /\ LeaseOnly'
           /\ \A x \in Workers : worker'[x].id < nextId'
<1>1. worker \in [Workers -> HandlerStates] /\ nextId \in Nat
    BY DEF TypeInv, DevicesTypeOK
<1>2. worker' \in [Workers -> HandlerStates] /\ LeaseOnly'
    BY <1>1 DEF TypeInv, LeaseOnly
<1>3. ASSUME NEW x \in Workers PROVE worker'[x].id < nextId'
    <2>1. CASE x = w
        BY <1>1, <2>1
    <2>2. CASE x # w
        <3>1. worker'[x] = worker[x] /\ worker[x].id \in Int
            BY <1>1, <2>2 DEF HandlerStates, Ids, NewDevice
        <3>2. worker[x].id < nextId
            BY DEF TypeInv, Fresh
        <3> QED BY <1>1, <3>1, <3>2
    <2> QED BY <2>1, <2>2
<1> QED BY <1>2, <1>3

LEMMA MoveCount ==
    ASSUME TypeInv, NEW w \in Workers, NEW s, worker' = [worker EXCEPT ![w] = s]
    PROVE  /\ IsFiniteSet(Running') /\ Cardinality(Running) \in Nat /\ Cardinality(Running') \in Nat
           /\ Cardinality(Running') <= Cardinality(Running) + 1
           /\ s.pc \in {"idle", "bump"} \/ w \in Running => Cardinality(Running') <= Cardinality(Running)
           /\ s.pc \in {"idle", "bump"} /\ w \in Running => Cardinality(Running') = Cardinality(Running) - 1
<1>1. worker \in [Workers -> HandlerStates] /\ IsFiniteSet(Running)
    BY DEF TypeInv, DevicesTypeOK, Counted
<1>2. Running' = IF s.pc \in {"idle", "bump"} THEN Running \ {w} ELSE Running \cup {w}
    BY <1>1 DEF Running
<1>3. /\ IsFiniteSet(Running \cup {w}) /\ IsFiniteSet(Running \ {w})
      /\ Cardinality(Running \cup {w}) = IF w \in Running THEN Cardinality(Running) ELSE Cardinality(Running) + 1
      /\ Cardinality(Running \ {w}) = IF w \in Running THEN Cardinality(Running) - 1 ELSE Cardinality(Running)
    BY <1>1, FS_AddElement, FS_RemoveElement
<1>4. Cardinality(Running) \in Nat /\ IsFiniteSet(Running')
    BY <1>1, <1>2, <1>3, FS_CardinalityType
<1>5. Cardinality(Running') \in Nat
    BY <1>4, FS_CardinalityType
<1>6. CASE s.pc \in {"idle", "bump"}
    BY <1>2, <1>3, <1>4, <1>5, <1>6
<1>7. CASE s.pc \notin {"idle", "bump"}
    BY <1>2, <1>3, <1>4, <1>5, <1>7
<1> QED BY <1>6, <1>7

(* A handler's step after its first statement that gives out no id. *)
LEMMA StepType ==
    ASSUME TypeInv, NEW w \in Workers, NEW s \in HandlerStates, worker' = [worker EXCEPT ![w] = s],
           s.pc \in {"idle", "bump"} \/ worker[w].pc \notin {"idle", "bump"},
           s.id < nextId, s.op = "lease" \/ s.lease = NoLease,
           UNCHANGED <<nextId, requests>>, devices' \subseteq devices,
           dev' \in [Ids -> Rows], unannounced' \subseteq Ids, faults' \in Nat,
           owner' \in [Addresses -> Clients \cup {None}], disputed' \subseteq Addresses,
           overlapped' \subseteq Macs, acked' \in [Ids -> Nat], raced' \subseteq Ids
    PROVE  TypeInv'
<1>1. nextId \in Nat /\ requests \in Nat /\ devices \subseteq Ids /\ nextId <= nextId' /\ nextId' \in Nat
    BY DEF TypeInv, DevicesTypeOK
<1>2. /\ worker' \in [Workers -> HandlerStates] /\ LeaseOnly'
      /\ \A x \in Workers : worker'[x].id < nextId'
    BY <1>1, MoveType
<1>3. Counted'
    <2>1. /\ IsFiniteSet(Running') /\ Cardinality(Running) \in Nat /\ Cardinality(Running') \in Nat
          /\ Cardinality(Running') <= Cardinality(Running)
        BY MoveCount DEF Running
    <2> QED BY <1>1, <2>1, DeviceBounds DEF TypeInv, Counted
<1>4. Fresh'
    BY <1>1, <1>2 DEF TypeInv, Fresh
<1>5. DevicesTypeOK'
    BY <1>1, <1>2 DEF DevicesTypeOK
<1> QED BY <1>2, <1>3, <1>4, <1>5 DEF TypeInv

(* The first statement of a handler. *)
LEMMA BeginType ==
    ASSUME TypeInv, NEW w \in Workers, NEW s \in HandlerStates, worker' = [worker EXCEPT ![w] = s],
           s.id < nextId, s.op = "lease" \/ s.lease = NoLease,
           Request, UNCHANGED <<table, unannounced, faults, disputed, acked, raced>>,
           owner' \in [Addresses -> Clients \cup {None}], overlapped' \subseteq Macs
    PROVE  TypeInv'
<1>1. nextId \in Nat /\ requests \in Nat /\ nextId <= nextId' /\ nextId' = nextId /\ devices' = devices
    BY DEF TypeInv, DevicesTypeOK, table
<1>2. /\ worker' \in [Workers -> HandlerStates] /\ LeaseOnly'
      /\ \A x \in Workers : worker'[x].id < nextId'
    BY <1>1, MoveType
<1>3. Counted'
    <2>1. /\ IsFiniteSet(Running') /\ Cardinality(Running) \in Nat /\ Cardinality(Running') \in Nat
          /\ Cardinality(Running') <= Cardinality(Running) + 1
        BY MoveCount
    <2> QED BY <1>1, <2>1, DeviceBounds DEF TypeInv, Counted, Request
<1>4. Fresh'
    BY <1>1, <1>2 DEF TypeInv, Fresh
<1>5. DevicesTypeOK'
    BY <1>1, <1>2 DEF TypeInv, DevicesTypeOK, table, Request
<1> QED BY <1>2, <1>3, <1>4, <1>5 DEF TypeInv

-----------------------------------------------------------------------------
(* TypeInv is kept by every action. *)

LEMMA HandlerType ==
    ASSUME TypeInv, NEW w \in Workers
    PROVE  /\ worker[w] \in HandlerStates /\ worker[w].row \in Rows /\ worker[w].lease \in Leases \cup {NoLease}
           /\ worker[w].id \in Ids \cup {NewDevice} /\ worker[w].id < nextId
           /\ worker[w].op = "lease" \/ worker[w].lease = NoLease
BY DEF TypeInv, DevicesTypeOK, HandlerStates, Fresh, LeaseOnly

LEMMA TableType ==
    ASSUME TypeInv
    PROVE  /\ devices \subseteq Ids /\ dev \in [Ids -> Rows] /\ unannounced \subseteq Ids /\ faults \in Nat
           /\ owner \in [Addresses -> Clients \cup {None}] /\ disputed \subseteq Addresses
           /\ overlapped \subseteq Macs /\ acked \in [Ids -> Nat] /\ raced \subseteq Ids
           /\ \A i \in devices : dev[i] \in Rows
BY DEF TypeInv, DevicesTypeOK

(* The handler ends, after its first statement. *)
LEMMA ReturnType ==
    ASSUME TypeInv, NEW w \in Workers, Return(w), UNCHANGED <<table, requests, history>>,
           unannounced' \subseteq Ids, faults' \in Nat
    PROVE  TypeInv'
<1>1. Idle.id < nextId /\ Idle \in HandlerStates /\ Idle.pc = "idle" /\ Idle.lease = NoLease
    BY IdleType DEF TypeInv, DevicesTypeOK, Fresh
<1>2. worker' = [worker EXCEPT ![w] = Idle]
    BY DEF Return
<1> QED BY <1>1, <1>2, TableType, StepType DEF table, history

(* What a handler's state is after it moved on without taking a copy. *)
LEMMA GotoState ==
    ASSUME TypeInv, NEW w \in Workers, NEW p \in {"findduid", "clear6", "write", "delete", "bump"},
           NEW s, s = [worker[w] EXCEPT !.pc = p]
    PROVE  /\ s \in HandlerStates /\ s.pc = p /\ s.id < nextId /\ s.op = worker[w].op
           /\ s.row = worker[w].row /\ s.lease = worker[w].lease /\ s.id = worker[w].id
           /\ s.op = "lease" \/ s.lease = NoLease
BY HandlerType DEF HandlerStates

LEMMA FoundState ==
    ASSUME TypeInv, NEW w \in Workers, NEW i \in devices, Found(w, i)
    PROVE  \E s \in HandlerStates :
               /\ worker' = [worker EXCEPT ![w] = s] /\ s.pc = "clear4" /\ s.id = i /\ s.id < nextId
               /\ s.op = worker[w].op /\ s.lease = worker[w].lease
               /\ s.row = apply(dev[i], worker[w].lease)
<1> DEFINE s == [worker[w] EXCEPT !.pc = "clear4", !.id = i, !.row = apply(dev[i], worker[w].lease)]
<1>1. i \in Ids /\ i < nextId /\ dev[i] \in Rows
    BY TableType DEF TypeInv, Fresh
<1>2. worker[w] \in HandlerStates /\ apply(dev[i], worker[w].lease) \in Rows
    BY <1>1, HandlerType, ApplyRow
<1>3. /\ s \in HandlerStates /\ s.pc = "clear4" /\ s.id = i /\ s.op = worker[w].op /\ s.lease = worker[w].lease
      /\ s.row = apply(dev[i], worker[w].lease)
    BY <1>1, <1>2 DEF HandlerStates
<1>4. worker' = [worker EXCEPT ![w] = s]
    BY DEF Found
<1> HIDE DEF s
<1> QED BY <1>1, <1>3, <1>4

LEMMA NotFoundState ==
    ASSUME TypeInv, NEW w \in Workers, NotFound(w)
    PROVE  \E s \in HandlerStates :
               /\ worker' = [worker EXCEPT ![w] = s] /\ s.pc = "clear4" /\ s.id = NewDevice /\ s.id < nextId
               /\ s.op = worker[w].op /\ s.lease = worker[w].lease
               /\ s.row = apply(NoRow, worker[w].lease)
<1> DEFINE s == [worker[w] EXCEPT !.pc = "clear4", !.id = NewDevice, !.row = apply(NoRow, worker[w].lease)]
<1>1. NewDevice < nextId
    BY DEF TypeInv, DevicesTypeOK, Fresh, NewDevice
<1>2. worker[w] \in HandlerStates /\ apply(NoRow, worker[w].lease) \in Rows
    BY HandlerType, ApplyRow, NoRowType
<1>3. /\ s \in HandlerStates /\ s.pc = "clear4" /\ s.id = NewDevice /\ s.op = worker[w].op
      /\ s.lease = worker[w].lease /\ s.row = apply(NoRow, worker[w].lease)
    BY <1>2 DEF HandlerStates
<1>4. worker' = [worker EXCEPT ![w] = s]
    BY DEF NotFound
<1> HIDE DEF s
<1> QED BY <1>1, <1>3, <1>4

LEMMA NoteUserType ==
    ASSUME TypeInv, NEW r, NEW b, NoteUser(r, b)
    PROVE  owner' \in [Addresses -> Clients \cup {None}] /\ overlapped' \subseteq Macs
BY TableType DEF NoteUser

LEMMA FindByMacType == ASSUME TypeInv, NEW w \in Workers, FindByMac(w) PROVE TypeInv'
<1> DEFINE matching == {i \in devices : dev[i].mac = worker[w].lease.mac /\ dev[i].mac # None}
<1>1. worker[w].pc = "findmac" /\ UNCHANGED <<table, unannounced, requests, faults, disputed, overlapped, acked, raced>>
    BY DEF FindByMac
<1>2. CASE matching = {}
    <2> DEFINE s == [worker[w] EXCEPT !.pc = "findduid"]
    <2>1. worker' = [worker EXCEPT ![w] = s] /\ UNCHANGED owner
        BY <1>2 DEF FindByMac
    <2>2. s \in HandlerStates /\ s.id < nextId /\ (s.op = "lease" \/ s.lease = NoLease)
        BY GotoState
    <2> HIDE DEF s
    <2> QED BY <1>1, <2>1, <2>2, TableType, StepType DEF table
<1>3. CASE matching # {}
    <2>1. PICK i \in devices : Found(w, i)
        BY <1>3 DEF FindByMac
    <2>2. PICK s \in HandlerStates :
              /\ worker' = [worker EXCEPT ![w] = s] /\ s.pc = "clear4" /\ s.id < nextId
              /\ s.op = worker[w].op /\ s.lease = worker[w].lease
        BY <2>1, FoundState
    <2>3. owner' \in [Addresses -> Clients \cup {None}]
        BY <2>1, TableType DEF Found
    <2>4. s.op = "lease" \/ s.lease = NoLease
        BY <2>2, HandlerType
    <2> QED BY <1>1, <2>2, <2>3, <2>4, TableType, StepType DEF table
<1> QED BY <1>2, <1>3

LEMMA FindByDuidType == ASSUME TypeInv, NEW w \in Workers, FindByDuid(w) PROVE TypeInv'
<1> DEFINE matching == {i \in devices : dev[i].duid = worker[w].lease.duid /\ dev[i].duid # None}
<1>1. worker[w].pc = "findduid" /\ UNCHANGED <<table, unannounced, requests, faults, disputed, acked, raced>>
    BY DEF FindByDuid
<1>2. overlapped' \subseteq Macs
    <2>1. worker[w].lease.mac \in Macs \cup {None}
        BY HandlerType, LeaseFields
    <2> QED BY <2>1, TableType DEF FindByDuid, NoteOverlap
<1>3. PICK s \in HandlerStates :
          /\ worker' = [worker EXCEPT ![w] = s] /\ s.pc = "clear4" /\ s.id < nextId
          /\ s.op = worker[w].op /\ s.lease = worker[w].lease
    <2>1. CASE matching = {}
        BY <2>1, NotFoundState DEF FindByDuid
    <2>2. CASE matching # {}
        BY <2>2, FoundState DEF FindByDuid
    <2> QED BY <2>1, <2>2
<1>4. owner' \in [Addresses -> Clients \cup {None}]
    BY TableType DEF FindByDuid, Found, NotFound
<1>5. s.op = "lease" \/ s.lease = NoLease
    BY <1>3, HandlerType
<1> QED BY <1>1, <1>2, <1>3, <1>4, <1>5, TableType, StepType DEF table

LEMMA FindFailsType == ASSUME TypeInv, NEW w \in Workers, FindFails(w) PROVE TypeInv'
<1>1. /\ worker[w].pc \in {"findmac", "findduid"} /\ faults' = faults + 1 /\ UNCHANGED owner
      /\ UNCHANGED <<table, unannounced, requests, disputed, acked, raced>>
    BY DEF FindFails, NotFound
<1>2. overlapped' \subseteq Macs
    <2>1. worker[w].lease.mac \in Macs \cup {None}
        BY HandlerType, LeaseFields
    <2> QED BY <2>1, TableType DEF FindFails
<1>3. PICK s \in HandlerStates :
          /\ worker' = [worker EXCEPT ![w] = s] /\ s.pc = "clear4" /\ s.id < nextId
          /\ s.op = worker[w].op /\ s.lease = worker[w].lease
    BY NotFoundState DEF FindFails
<1>4. s.op = "lease" \/ s.lease = NoLease
    BY <1>3, HandlerType
<1>5. faults' \in Nat
    BY <1>1, TableType
<1> QED BY <1>1, <1>2, <1>3, <1>4, <1>5, TableType, StepType DEF table

LEMMA WithoutType ==
    ASSUME TypeInv, NEW f \in {"v4", "v6"}, NEW a
    PROVE  WithoutAddress(f, a) \in [Ids -> Rows]
<1>1. \A r \in Rows : [r EXCEPT ![f] = None] \in Rows
    BY DEF Rows
<1> QED BY <1>1, TableType DEF WithoutAddress

(* Without an address a row is still one, and only that field changed. *)
LEMMA WithoutRow ==
    ASSUME TypeInv, NEW f \in {"v4", "v6"}, NEW a, NEW i \in Ids
    PROVE  /\ WithoutAddress(f, a) \in [Ids -> Rows]
           /\ WithoutAddress(f, a)[i].mac = dev[i].mac /\ WithoutAddress(f, a)[i].duid = dev[i].duid
           /\ WithoutAddress(f, a)[i].user = dev[i].user
           /\ WithoutAddress(f, a)[i].v4 \in {dev[i].v4, None}
           /\ WithoutAddress(f, a)[i].v6 \in {dev[i].v6, None}
           /\ i \in devices /\ a # None => WithoutAddress(f, a)[i][f] # a
<1>1. dev \in [Ids -> Rows]
    BY TableType
<1>2. ASSUME NEW r \in Rows
      PROVE  /\ [r EXCEPT ![f] = None] \in Rows /\ [r EXCEPT ![f] = None].mac = r.mac
             /\ [r EXCEPT ![f] = None].duid = r.duid /\ [r EXCEPT ![f] = None].user = r.user
             /\ [r EXCEPT ![f] = None].v4 \in {r.v4, None} /\ [r EXCEPT ![f] = None].v6 \in {r.v6, None}
             /\ [r EXCEPT ![f] = None][f] = None
    BY <1>2 DEF Rows
<1>3. \A j \in Ids : WithoutAddress(f, a)[j] = IF j \in devices /\ dev[j][f] = a
                                               THEN [dev[j] EXCEPT ![f] = None] ELSE dev[j]
    BY DEF WithoutAddress
<1>4. WithoutAddress(f, a) \in [Ids -> Rows]
    BY WithoutType
<1>5. CASE i \in devices /\ dev[i][f] = a
    <2> DEFINE r == [dev[i] EXCEPT ![f] = None]
    <2>1. dev[i] \in Rows
        BY <1>1
    <2>2. /\ r.mac = dev[i].mac /\ r.duid = dev[i].duid /\ r.user = dev[i].user
          /\ r.v4 \in {dev[i].v4, None} /\ r.v6 \in {dev[i].v6, None} /\ r[f] = None
        BY <1>2, <2>1
    <2>3. WithoutAddress(f, a)[i] = r
        BY <1>3, <1>5
    <2> HIDE DEF r
    <2> QED BY <1>4, <2>2, <2>3
<1>6. CASE ~(i \in devices /\ dev[i][f] = a)
    BY <1>1, <1>3, <1>4, <1>6
<1> QED BY <1>5, <1>6

LEMMA RowAddress ==
    ASSUME NEW r \in Rows, NEW f \in {"v4", "v6"}
    PROVE  r[f] \in Addresses \cup {None}
BY DEF Rows, Addresses

(* After the step that clears family f: the state of the handler, and that a
   leased address changes hands. *)
LEMMA ClearType ==
    ASSUME TypeInv, NEW w \in Workers,
           NEW f \in {"v4", "v6"}, NEW pc \in {"clear4", "clear6"}, NEW next \in {"clear6", "write"},
           RemoveExistingIp(w, f, pc, next)
    PROVE  TypeInv'
<1> DEFINE a == worker[w].row[f]
           s == [worker[w] EXCEPT !.pc = next]
<1>1. worker[w].pc = pc /\ UNCHANGED <<devices, nextId, requests, faults, overlapped, acked, raced>>
    BY DEF RemoveExistingIp
<1>2. worker' = [worker EXCEPT ![w] = s]
    BY DEF RemoveExistingIp
<1>3. s \in HandlerStates /\ s.id < nextId /\ (s.op = "lease" \/ s.lease = NoLease)
    BY GotoState
<1>4. a \in Addresses \cup {None}
    BY HandlerType, RowAddress
<1>5. dev' \in [Ids -> Rows]
    <2>1. dev' \in {dev, WithoutAddress(f, a)}
        BY DEF RemoveExistingIp
    <2>2. WithoutAddress(f, a) \in [Ids -> Rows]
        BY WithoutType
    <2> QED BY <2>1, <2>2, TableType
<1>6. unannounced' \subseteq Ids
    BY TableType DEF RemoveExistingIp
<1>7. owner' \in [Addresses -> Clients \cup {None}] /\ disputed' \subseteq Addresses
    <2>1. LeaseClient(worker[w].lease) \in Clients \cup {None}
        BY HandlerType, LeaseFields DEF LeaseClient, Clients
    <2>2. CASE a = None
        BY <2>2, TableType DEF RemoveExistingIp
    <2>3. CASE a # None
        <3>1. NoteOwner(w, f, a) /\ a \in Addresses
            BY <1>4, <2>3 DEF RemoveExistingIp
        <3>2. /\ owner' = owner \/ owner' = [owner EXCEPT ![a] = LeaseClient(worker[w].lease)]
              /\ disputed' \subseteq disputed \cup {a}
            BY <3>1 DEF NoteOwner
        <3> HIDE DEF a
        <3> QED BY <2>1, <3>1, <3>2, TableType
    <2> QED BY <2>2, <2>3
<1> HIDE DEF s, a
<1> QED BY <1>1, <1>2, <1>3, <1>5, <1>6, <1>7, TableType, StepType

LEMMA BeginLeaseType ==
    ASSUME TypeInv, NEW w \in Workers, NEW l \in Leases, BeginLease(w, l) PROVE TypeInv'
<1> DEFINE s == [Idle EXCEPT !.op = "lease", !.pc = "findmac", !.lease = l]
<1>1. s \in HandlerStates /\ s.id = 0 /\ s.op = "lease"
    BY IdleType DEF HandlerStates
<1>2. worker' = [worker EXCEPT ![w] = s] /\ Request /\ UNCHANGED <<table, unannounced, faults, history>>
    BY DEF BeginLease
<1>3. s.id < nextId
    BY <1>1 DEF TypeInv, DevicesTypeOK, Fresh
<1> HIDE DEF s
<1> QED BY <1>1, <1>2, <1>3, TableType, BeginType DEF history

LEMMA BeginPutType ==
    ASSUME TypeInv, NEW w \in Workers, NEW i \in devices, BeginPut(w, i) PROVE TypeInv'
<1> DEFINE s == [Idle EXCEPT !.op = "put", !.pc = "find", !.id = i, !.row.user = requests + 1]
<1>1. requests + 1 \in Nat /\ i \in Ids /\ i < nextId
    BY DEF TypeInv, DevicesTypeOK, Fresh
<1>2. [Idle.row EXCEPT !.user = requests + 1] \in Rows
    BY <1>1, IdleType DEF HandlerStates, Rows
<1>3. s \in HandlerStates /\ s.id = i /\ s.lease = NoLease
    BY <1>1, <1>2, IdleType DEF HandlerStates
<1>4. worker' = [worker EXCEPT ![w] = s] /\ Request /\ UNCHANGED <<table, unannounced, faults, history>>
    BY DEF BeginPut
<1> HIDE DEF s
<1> QED BY <1>1, <1>3, <1>4, TableType, BeginType DEF history

LEMMA BeginDeleteType ==
    ASSUME TypeInv, NEW w \in Workers, NEW i \in devices, BeginDelete(w, i) PROVE TypeInv'
<1> DEFINE s == [Idle EXCEPT !.op = "delete", !.pc = "find", !.id = i]
<1>1. i \in Ids /\ i < nextId
    BY DEF TypeInv, DevicesTypeOK, Fresh
<1>2. s \in HandlerStates /\ s.id = i /\ s.lease = NoLease
    BY <1>1, IdleType DEF HandlerStates
<1>3. worker' = [worker EXCEPT ![w] = s] /\ Request /\ UNCHANGED <<table, unannounced, faults, history>>
    BY DEF BeginDelete
<1> HIDE DEF s
<1> QED BY <1>1, <1>2, <1>3, TableType, BeginType DEF history

(* The copy a PUT takes. *)
LEMMA PutState ==
    ASSUME TypeInv, NEW w \in Workers, NEW b \in Bodies, FindForPut(w, b), worker[w].id \in devices
    PROVE  \E s \in HandlerStates :
               /\ worker' = [worker EXCEPT ![w] = s] /\ s.pc = "write" /\ s.id = worker[w].id
               /\ s.op = "put" /\ s.lease = NoLease
               /\ s.row = UserRow(dev[worker[w].id], b, worker[w].row.user)
<1> DEFINE r == UserRow(dev[worker[w].id], b, worker[w].row.user)
           s == [worker[w] EXCEPT !.pc = "write", !.row = r]
<1>1. worker[w] \in HandlerStates /\ worker[w].row.user \in Nat /\ dev[worker[w].id] \in Rows
    BY HandlerType, TableType DEF Rows
<1>2. r \in Rows
    BY <1>1, ApplyToRow
<1>3. worker' = [worker EXCEPT ![w] = s] /\ worker[w].op = "put"
    BY DEF FindForPut, UserRow
<1>4. worker[w].lease = NoLease
    BY <1>3, HandlerType
<1>5. s \in HandlerStates /\ s.pc = "write" /\ s.id = worker[w].id /\ s.op = worker[w].op
      /\ s.lease = worker[w].lease /\ s.row = r
    BY <1>1, <1>2 DEF HandlerStates
<1> HIDE DEF s
<1> QED BY <1>3, <1>4, <1>5

LEMMA FindForPutType ==
    ASSUME TypeInv, NEW w \in Workers, NEW b \in Bodies, FindForPut(w, b) PROVE TypeInv'
<1>1. worker[w].pc = "find" /\ UNCHANGED <<table, unannounced, requests, faults, disputed, acked, raced>>
    BY DEF FindForPut
<1>2. CASE worker[w].id \notin devices
    BY <1>1, <1>2, ReturnType, TableType DEF FindForPut, history
<1>3. CASE worker[w].id \in devices
    <2>1. PICK s \in HandlerStates :
              worker' = [worker EXCEPT ![w] = s] /\ s.pc = "write" /\ s.id = worker[w].id /\ s.lease = NoLease
        BY <1>3, PutState
    <2>2. owner' \in [Addresses -> Clients \cup {None}] /\ overlapped' \subseteq Macs
        BY <1>3, NoteUserType DEF FindForPut
    <2>3. s.id < nextId
        BY <2>1, HandlerType
    <2> QED BY <1>1, <2>1, <2>2, <2>3, TableType, StepType DEF table
<1> QED BY <1>2, <1>3

LEMMA PostState ==
    ASSUME TypeInv, NEW w \in Workers, NEW b \in Bodies, Post(w, b)
    PROVE  \E s \in HandlerStates :
               /\ worker' = [worker EXCEPT ![w] = s] /\ s.pc = "write" /\ s.id = NewDevice
               /\ s.op = "post" /\ s.lease = NoLease
               /\ s.row = UserRow(NoRow, b, requests + 1)
<1> DEFINE r == UserRow(NoRow, b, requests + 1)
           s == [Idle EXCEPT !.op = "post", !.pc = "write", !.row = r]
<1>1. requests + 1 \in Nat
    BY DEF TypeInv, DevicesTypeOK
<1>2. r \in Rows
    BY <1>1, ApplyToRow, NoRowType
<1>3. worker' = [worker EXCEPT ![w] = s]
    BY DEF Post, UserRow
<1>4. s \in HandlerStates /\ s.pc = "write" /\ s.id = NewDevice /\ s.op = "post" /\ s.lease = NoLease /\ s.row = r
    BY <1>2, IdleType DEF HandlerStates, NewDevice
<1> HIDE DEF s
<1> QED BY <1>3, <1>4

LEMMA PostType ==
    ASSUME TypeInv, NEW w \in Workers, NEW b \in Bodies, Post(w, b) PROVE TypeInv'
<1>1. PICK s \in HandlerStates :
          worker' = [worker EXCEPT ![w] = s] /\ s.id = NewDevice /\ s.lease = NoLease
    BY PostState
<1>2. owner' \in [Addresses -> Clients \cup {None}] /\ overlapped' \subseteq Macs
    BY NoteUserType DEF Post
<1>3. s.id < nextId
    BY <1>1 DEF TypeInv, DevicesTypeOK, Fresh, NewDevice
<1>4. Request /\ UNCHANGED <<table, unannounced, faults, disputed, acked, raced>>
    BY DEF Post
<1> QED BY <1>1, <1>2, <1>3, <1>4, BeginType

(* INSERT takes the next id: there is one, because this request counts. *)
LEMMA InsertType == ASSUME TypeInv, NEW w \in Workers, InsertDevice(w) PROVE TypeInv'
<1>1. worker[w].pc = "write" /\ UNCHANGED <<requests, faults, owner, disputed, overlapped, raced>>
    BY DEF InsertDevice
<1>2. CASE ~Unique(nextId, worker[w].row)
    BY <1>1, <1>2, ReturnType, TableType DEF InsertDevice, history, table
<1>3. CASE Unique(nextId, worker[w].row)
    <2> DEFINE s == [worker[w] EXCEPT !.pc = "bump"]
    <2>1. worker' = [worker EXCEPT ![w] = s]
        BY <1>3 DEF InsertDevice
    <2>2. s \in HandlerStates /\ s.pc = "bump" /\ s.id < nextId /\ (s.op = "lease" \/ s.lease = NoLease)
        BY GotoState
    <2>3. /\ devices' = devices \cup {nextId} /\ dev' = [dev EXCEPT ![nextId] = worker[w].row]
          /\ nextId' = nextId + 1 /\ unannounced' = unannounced \cup {nextId}
          /\ acked' = [acked EXCEPT ![nextId] = worker[w].row.user]
        BY <1>3 DEF InsertDevice
    <2> HIDE DEF s
    <2>4. nextId \in Nat /\ nextId >= 1 /\ requests \in Nat /\ requests <= MaxRequests /\ MaxRequests \in Nat
        BY DeviceBounds DEF TypeInv, DevicesTypeOK, Counted, Fresh
    <2>5. /\ IsFiniteSet(Running') /\ Cardinality(Running) \in Nat /\ Cardinality(Running') \in Nat
          /\ Cardinality(Running') = Cardinality(Running) - 1
        BY <1>1, <2>1, <2>2, MoveCount DEF Running
    <2>6. nextId \in Ids
        BY <2>4, <2>5 DEF TypeInv, Counted, Ids
    <2>7. /\ worker' \in [Workers -> HandlerStates] /\ LeaseOnly'
          /\ \A x \in Workers : worker'[x].id < nextId'
        <3>1. s.id \in Int
            BY <2>2 DEF HandlerStates, Ids, NewDevice
        <3>2. nextId' \in Nat /\ nextId <= nextId' /\ s.id < nextId'
            BY <2>2, <2>3, <2>4, <3>1
        <3> QED BY <2>1, <2>2, <3>2, MoveType
    <2>8. Counted'
        BY <1>1, <2>3, <2>4, <2>5 DEF TypeInv, Counted
    <2>9. Fresh'
        <3>1. \A i \in devices : i \in Int /\ i < nextId
            BY TableType DEF TypeInv, Fresh, Ids
        <3>2. \A i \in devices' : i < nextId'
            BY <2>3, <2>4, <3>1
        <3> QED BY <2>3, <2>4, <2>7, <3>2 DEF Fresh
    <2>10. worker[w].row \in Rows /\ worker[w].row.user \in Nat
        BY HandlerType DEF Rows
    <2>11. DevicesTypeOK'
        <3>1. /\ dev' \in [Ids -> Rows] /\ acked' \in [Ids -> Nat]
              /\ devices' \subseteq Ids /\ unannounced' \subseteq Ids /\ nextId' \in Nat
            BY <2>3, <2>4, <2>6, <2>10, TableType
        <3> QED BY <1>1, <2>4, <2>7, <3>1, TableType DEF DevicesTypeOK
    <2> QED BY <2>7, <2>8, <2>9, <2>11 DEF TypeInv
<1> QED BY <1>2, <1>3

LEMMA UpdateType == ASSUME TypeInv, NEW w \in Workers, UpdateDevice(w) PROVE TypeInv'
<1> DEFINE i == worker[w].id
<1>1. /\ worker[w].pc = "write" /\ i # NewDevice
      /\ UNCHANGED <<devices, nextId, requests, faults, owner, disputed, overlapped>>
    BY DEF UpdateDevice
<1>2. CASE i \in devices /\ ~Unique(i, worker[w].row)
    BY <1>1, <1>2, ReturnType, TableType DEF UpdateDevice, history, table
<1>3. CASE ~(i \in devices /\ ~Unique(i, worker[w].row))
    <2> DEFINE s == [worker[w] EXCEPT !.pc = "bump"]
    <2>1. worker' = [worker EXCEPT ![w] = s]
        BY <1>3 DEF UpdateDevice
    <2>2. s \in HandlerStates /\ s.pc = "bump" /\ s.id < nextId /\ (s.op = "lease" \/ s.lease = NoLease)
        BY GotoState
    <2>3. worker[w].row \in Rows /\ worker[w].row.user \in Nat
        BY HandlerType DEF Rows
    <2>4. /\ dev' \in [Ids -> Rows] /\ unannounced' \subseteq Ids
          /\ acked' \in [Ids -> Nat] /\ raced' \subseteq Ids
        <3>1. CASE i \notin devices
            BY <1>3, <3>1, TableType DEF UpdateDevice
        <3>2. CASE i \in devices
            <4>1. /\ dev' = [dev EXCEPT ![i] = worker[w].row] /\ unannounced' = unannounced \cup {i}
                  /\ acked' = acked \/ acked' = [acked EXCEPT ![i] = worker[w].row.user]
                  /\ raced' \subseteq raced \cup {i}
                BY <1>3, <3>2 DEF UpdateDevice, Acknowledge
            <4> QED BY <2>3, <3>2, <4>1, TableType
        <3> QED BY <3>1, <3>2
    <2> HIDE DEF s
    <2> QED BY <1>1, <2>1, <2>2, <2>4, TableType, StepType
<1> QED BY <1>2, <1>3

LEMMA FindForDeleteType == ASSUME TypeInv, NEW w \in Workers, FindForDelete(w) PROVE TypeInv'
<1>1. worker[w].pc = "find" /\ UNCHANGED <<table, unannounced, requests, faults, history>>
    BY DEF FindForDelete
<1>2. CASE worker[w].id \notin devices
    BY <1>1, <1>2, ReturnType, TableType DEF FindForDelete
<1>3. CASE worker[w].id \in devices
    <2> DEFINE s == [worker[w] EXCEPT !.pc = "delete"]
    <2>1. worker' = [worker EXCEPT ![w] = s]
        BY <1>3 DEF FindForDelete
    <2>2. s \in HandlerStates /\ s.id < nextId /\ (s.op = "lease" \/ s.lease = NoLease)
        BY GotoState
    <2> HIDE DEF s
    <2> QED BY <1>1, <2>1, <2>2, TableType, StepType DEF table, history
<1> QED BY <1>2, <1>3

LEMMA DeleteType == ASSUME TypeInv, NEW w \in Workers, DeleteDevice(w) PROVE TypeInv'
<1> DEFINE s == [worker[w] EXCEPT !.pc = "bump"]
<1>1. /\ worker[w].pc = "delete" /\ UNCHANGED <<dev, nextId, requests, faults, history>>
      /\ devices' \subseteq devices /\ worker' = [worker EXCEPT ![w] = s]
    BY DEF DeleteDevice
<1>2. s \in HandlerStates /\ s.id < nextId /\ (s.op = "lease" \/ s.lease = NoLease)
    BY GotoState
<1>3. unannounced' \subseteq Ids
    BY TableType DEF DeleteDevice
<1> HIDE DEF s
<1> QED BY <1>1, <1>2, <1>3, TableType, StepType DEF history

LEMMA BumpType == ASSUME TypeInv, NEW w \in Workers, Bump(w) PROVE TypeInv'
BY TableType, ReturnType DEF Bump

LEMMA HandlerFailsType == ASSUME TypeInv, NEW w \in Workers, HandlerFails(w) PROVE TypeInv'
BY TableType, ReturnType DEF HandlerFails

LEMMA InitTypeInv == ASSUME Init PROVE TypeInv
<1>1. Running = {}
    BY DEF Init, Running, Idle
<1>2. IsFiniteSet(Running) /\ Cardinality(Running) = 0
    BY <1>1, FS_EmptySet
<1>3. Counted
    BY <1>2, DeviceBounds DEF Init, Counted
<1>4. DevicesTypeOK
    BY IdleType, NoRowType, DeviceBounds DEF Init, DevicesTypeOK
<1>5. Fresh /\ LeaseOnly
    BY IdleType DEF Init, Fresh, LeaseOnly
<1> QED BY <1>3, <1>4, <1>5 DEF TypeInv

LEMMA TypeStep == TypeInv /\ [Next]_vars => TypeInv'
<1> SUFFICES ASSUME TypeInv, [Next]_vars PROVE TypeInv'
    OBVIOUS
<1>1. CASE UNCHANGED vars
    BY <1>1 DEF vars, table, history, TypeInv, DevicesTypeOK, Counted, Fresh, LeaseOnly, Running
<1>2. ASSUME NEW w \in Workers, GetDevices(w) PROVE TypeInv'
    BY <1>2, <1>1 DEF GetDevices
<1>3. ASSUME NEW w \in Workers, NEW l \in Leases, BeginLease(w, l) PROVE TypeInv'
    BY <1>3, BeginLeaseType
<1>4. ASSUME NEW w \in Workers, FindByMac(w) \/ FindByDuid(w) \/ FindFails(w) PROVE TypeInv'
    BY <1>4, FindByMacType, FindByDuidType, FindFailsType
<1>5. ASSUME NEW w \in Workers, RemoveExistingIp(w, "v4", "clear4", "clear6") PROVE TypeInv'
    BY <1>5, ClearType
<1>6. ASSUME NEW w \in Workers, RemoveExistingIp(w, "v6", "clear6", "write") PROVE TypeInv'
    BY <1>6, ClearType
<1>7. ASSUME NEW w \in Workers, NEW i \in devices, BeginPut(w, i) \/ BeginDelete(w, i) PROVE TypeInv'
    BY <1>7, BeginPutType, BeginDeleteType
<1>8. ASSUME NEW w \in Workers, NEW b \in Bodies, FindForPut(w, b) \/ Post(w, b) PROVE TypeInv'
    BY <1>8, FindForPutType, PostType
<1>9. ASSUME NEW w \in Workers, InsertDevice(w) \/ UpdateDevice(w) PROVE TypeInv'
    BY <1>9, InsertType, UpdateType
<1>10. ASSUME NEW w \in Workers, FindForDelete(w) \/ DeleteDevice(w) \/ Bump(w) \/ HandlerFails(w) PROVE TypeInv'
    BY <1>10, FindForDeleteType, DeleteType, BumpType, HandlerFailsType
<1> QED BY <1>1, <1>2, <1>3, <1>4, <1>5, <1>6, <1>7, <1>8, <1>9, <1>10 DEF Next

LEMMA TypeAlways == Spec => []TypeInv
BY InitTypeInv, TypeStep, PTL DEF Spec

(* The table and the copies of the handlers hold values of their kind; in
   particular insert_device never runs out of ids, because every handler adds
   at most one row, and no string of a request that is no address is stored. *)
THEOREM DevicesTypeCorrect == Spec => []DevicesTypeOK
<1>1. TypeInv => DevicesTypeOK
    BY DEF TypeInv
<1> QED BY <1>1, TypeAlways, PTL

-----------------------------------------------------------------------------
(* Many steps take no copy of a row and write none; the rows and histories are
   what they were, but a row may be gone. *)

Copying == {"clear4", "clear6", "write"}
Stops(w) ==
    /\ \E s : worker' = [worker EXCEPT ![w] = s] /\ s.pc \notin Copying
    /\ devices' \subseteq devices /\ dev' = dev /\ UNCHANGED history

(* The steps that do take or write a copy. *)
FoundByMac(w, i) ==
    /\ dev[i].mac = worker[w].lease.mac /\ dev[i].mac # None
    /\ Found(w, i) /\ UNCHANGED <<devices, dev, disputed, overlapped, acked, raced>>
Inserts(w) == InsertDevice(w) /\ Unique(nextId, worker[w].row)
Updates(w) == UpdateDevice(w) /\ worker[w].id \in devices /\ Unique(worker[w].id, worker[w].row)
Copies(w) ==
    \/ \E i \in devices : FoundByMac(w, i)
    \/ FindByDuid(w) \/ FindFails(w)
    \/ RemoveExistingIp(w, "v4", "clear4", "clear6")
    \/ RemoveExistingIp(w, "v6", "clear6", "write")
    \/ \E b \in Bodies : (FindForPut(w, b) /\ worker[w].id \in devices) \/ Post(w, b)
    \/ Inserts(w) \/ Updates(w)

LEMMA ReturnStops ==
    ASSUME NEW w \in Workers, Return(w), UNCHANGED <<devices, dev, history>> PROVE Stops(w)
BY IdleType DEF Stops, Return, Copying

LEMMA GotoStops ==
    ASSUME TypeInv, NEW w \in Workers, NEW p \in {"findduid", "delete", "bump"},
           worker' = [worker EXCEPT ![w].pc = p],
           devices' \subseteq devices, dev' = dev, UNCHANGED history
    PROVE  Stops(w)
<1> DEFINE s == [worker[w] EXCEPT !.pc = p]
<1>1. worker' = [worker EXCEPT ![w] = s] /\ s.pc = p
    BY HandlerType DEF HandlerStates
<1> HIDE DEF s
<1> QED BY <1>1 DEF Stops, Copying

LEMMA BeginStops ==
    ASSUME NEW w \in Workers,
           \/ \E l \in Leases : BeginLease(w, l)
           \/ \E i \in devices : BeginPut(w, i) \/ BeginDelete(w, i)
    PROVE  Stops(w)
<1>1. devices' \subseteq devices /\ dev' = dev /\ UNCHANGED history
    BY DEF BeginLease, BeginPut, BeginDelete, table
<1>2. \E s : worker' = [worker EXCEPT ![w] = s] /\ s.pc \notin Copying
    <2>1. ASSUME NEW l \in Leases, BeginLease(w, l)
          PROVE  \E s : worker' = [worker EXCEPT ![w] = s] /\ s.pc \notin Copying
        <3> DEFINE s == [Idle EXCEPT !.op = "lease", !.pc = "findmac", !.lease = l]
        <3>1. worker' = [worker EXCEPT ![w] = s] /\ s.pc = "findmac"
            BY <2>1 DEF BeginLease, Idle
        <3> HIDE DEF s
        <3> QED BY <3>1 DEF Copying
    <2>2. ASSUME NEW i \in devices, BeginPut(w, i)
          PROVE  \E s : worker' = [worker EXCEPT ![w] = s] /\ s.pc \notin Copying
        <3> DEFINE s == [Idle EXCEPT !.op = "put", !.pc = "find", !.id = i, !.row.user = requests + 1]
        <3>1. worker' = [worker EXCEPT ![w] = s] /\ s.pc = "find"
            BY <2>2 DEF BeginPut, Idle
        <3> HIDE DEF s
        <3> QED BY <3>1 DEF Copying
    <2>3. ASSUME NEW i \in devices, BeginDelete(w, i)
          PROVE  \E s : worker' = [worker EXCEPT ![w] = s] /\ s.pc \notin Copying
        <3> DEFINE s == [Idle EXCEPT !.op = "delete", !.pc = "find", !.id = i]
        <3>1. worker' = [worker EXCEPT ![w] = s] /\ s.pc = "find"
            BY <2>3 DEF BeginDelete, Idle
        <3> HIDE DEF s
        <3> QED BY <3>1 DEF Copying
    <2> QED BY <2>1, <2>2, <2>3
<1> QED BY <1>1, <1>2 DEF Stops

LEMMA FindByMacCases ==
    ASSUME TypeInv, NEW w \in Workers, FindByMac(w)
    PROVE  Stops(w) \/ \E i \in devices : FoundByMac(w, i)
<1> DEFINE matching == {i \in devices : dev[i].mac = worker[w].lease.mac /\ dev[i].mac # None}
<1>1. UNCHANGED <<devices, dev, disputed, overlapped, acked, raced>>
    BY DEF FindByMac, table
<1>2. CASE matching = {}
    <2>1. worker' = [worker EXCEPT ![w].pc = "findduid"] /\ UNCHANGED history
        BY <1>1, <1>2 DEF FindByMac, history
    <2> QED BY <1>1, <2>1, GotoStops
<1>3. CASE matching # {}
    BY <1>1, <1>3 DEF FindByMac, FoundByMac
<1> QED BY <1>2, <1>3

LEMMA WriteCases ==
    ASSUME TypeInv, NEW w \in Workers, InsertDevice(w) \/ UpdateDevice(w)
    PROVE  Stops(w) \/ Inserts(w) \/ Updates(w)
<1>1. CASE InsertDevice(w) /\ ~Unique(nextId, worker[w].row)
    BY <1>1, ReturnStops DEF InsertDevice, table, history
<1>2. CASE UpdateDevice(w) /\ worker[w].id \in devices /\ ~Unique(worker[w].id, worker[w].row)
    BY <1>2, ReturnStops DEF UpdateDevice, history
<1>3. CASE UpdateDevice(w) /\ worker[w].id \notin devices
    <2>1. /\ worker' = [worker EXCEPT ![w].pc = "bump"]
          /\ devices' \subseteq devices /\ dev' = dev /\ UNCHANGED history
        BY <1>3 DEF UpdateDevice, history
    <2> QED BY <2>1, GotoStops
<1> QED BY <1>1, <1>2, <1>3 DEF Inserts, Updates

LEMMA StepCases ==
    ASSUME TypeInv, Next PROVE UNCHANGED vars \/ \E w \in Workers : Stops(w) \/ Copies(w)
<1>1. ASSUME NEW w \in Workers, NEW l \in Leases, BeginLease(w, l) PROVE Stops(w)
    BY <1>1, BeginStops
<1>2. ASSUME NEW w \in Workers, NEW i \in devices, BeginPut(w, i) \/ BeginDelete(w, i) PROVE Stops(w)
    BY <1>2, BeginStops
<1>3. ASSUME NEW w \in Workers, NEW b \in Bodies, FindForPut(w, b), worker[w].id \notin devices PROVE Stops(w)
    BY <1>3, ReturnStops DEF FindForPut, table, history
<1>4. ASSUME NEW w \in Workers, FindForDelete(w) PROVE Stops(w)
    <2>1. devices' \subseteq devices /\ dev' = dev /\ UNCHANGED <<devices, dev, history>>
        BY <1>4 DEF FindForDelete, table
    <2>2. Return(w) \/ worker' = [worker EXCEPT ![w].pc = "delete"]
        BY <1>4 DEF FindForDelete
    <2> QED BY <2>1, <2>2, ReturnStops, GotoStops
<1>5. ASSUME NEW w \in Workers, DeleteDevice(w) PROVE Stops(w)
    <2>1. /\ devices' \subseteq devices /\ dev' = dev /\ UNCHANGED history
          /\ worker' = [worker EXCEPT ![w].pc = "bump"]
        BY <1>5 DEF DeleteDevice
    <2> QED BY <2>1, GotoStops
<1>6. ASSUME NEW w \in Workers, Bump(w) \/ HandlerFails(w) PROVE Stops(w)
    BY <1>6, ReturnStops DEF Bump, HandlerFails, table
<1> QED BY <1>1, <1>2, <1>3, <1>4, <1>5, <1>6, FindByMacCases, WriteCases DEF Next, Copies, GetDevices

(* Whoever has a copy after w stopped had the same one before. *)
LEMMA StopsKeeps ==
    ASSUME TypeInv, NEW w \in Workers, Stops(w), NEW x \in Workers, HasCopy(x)'
    PROVE  HasCopy(x) /\ worker'[x] = worker[x] /\ x # w
BY DEF Stops, HasCopy, Copying, TypeInv, DevicesTypeOK

LEMMA OthersKeep ==
    ASSUME TypeInv, NEW w \in Workers, NEW s, worker' = [worker EXCEPT ![w] = s], NEW x \in Workers
    PROVE  worker'[x] = IF x = w THEN s ELSE worker[x]
BY DEF TypeInv, DevicesTypeOK

LEMMA MovesOn ==
    ASSUME TypeInv, NEW w \in Workers, NEW s, worker' = [worker EXCEPT ![w] = s], s.pc = "bump",
           NEW x \in Workers, HasCopy(x)'
    PROVE  x # w /\ worker'[x] = worker[x] /\ HasCopy(x)
<1>1. worker'[x] = IF x = w THEN s ELSE worker[x]
    BY OthersKeep
<1>2. worker'[x].pc \in {"clear4", "clear6", "write"}
    BY DEF HasCopy
<1> QED BY <1>1, <1>2 DEF HasCopy

-----------------------------------------------------------------------------
(* The user fields.  A lease writes back the user fields it has read, so its
   copy must agree with what the user stored last. *)

UserInv ==
    /\ UserFieldsKept
    /\ \A w \in Workers : HasCopy(w) /\ worker[w].op = "lease" /\ worker[w].id \in devices \ raced
                            => worker[w].row.user = acked[worker[w].id]

(* A copy is taken, or the handler goes on with the one it has; the user
   fields of the rows stay. *)
LEMMA UserCopy ==
    ASSUME TypeInv, UserInv, NEW w \in Workers, NEW s, worker' = [worker EXCEPT ![w] = s],
           UNCHANGED <<devices, acked, raced>>, \A i \in devices : dev'[i].user = dev[i].user,
           s.op = "lease" /\ s.id \in devices \ raced => s.row.user = acked[s.id]
    PROVE  UserInv'
<1>1. UserFieldsKept'
    BY DEF UserInv, UserFieldsKept
<1>2. ASSUME NEW x \in Workers, HasCopy(x)', worker'[x].op = "lease", worker'[x].id \in devices \ raced
      PROVE  worker'[x].row.user = acked[worker'[x].id]
    <2>1. worker'[x] = IF x = w THEN s ELSE worker[x]
        BY OthersKeep
    <2>2. CASE x = w
        BY <1>2, <2>1, <2>2
    <2>3. CASE x # w
        BY <1>2, <2>1, <2>3 DEF UserInv, HasCopy
    <2> QED BY <2>2, <2>3
<1> QED BY <1>1, <1>2 DEF UserInv

LEMMA UserFound ==
    ASSUME TypeInv, UserInv, NEW w \in Workers, NEW i \in devices, Found(w, i),
           UNCHANGED <<devices, dev, acked, raced>>
    PROVE  UserInv'
<1>1. PICK s \in HandlerStates :
          worker' = [worker EXCEPT ![w] = s] /\ s.id = i /\ s.row = apply(dev[i], worker[w].lease)
    BY FoundState
<1>2. s.row.user = dev[i].user
    BY <1>1, ApplyRow, HandlerType, TableType
<1>3. s.id \in devices \ raced => s.row.user = acked[s.id]
    BY <1>1, <1>2 DEF UserInv, UserFieldsKept
<1> QED BY <1>1, <1>3, UserCopy

LEMMA UserNotFound ==
    ASSUME TypeInv, UserInv, NEW w \in Workers, NotFound(w), UNCHANGED <<devices, dev, acked, raced>>
    PROVE  UserInv'
<1>1. PICK s \in HandlerStates : worker' = [worker EXCEPT ![w] = s] /\ s.id = NewDevice
    BY NotFoundState
<1>2. s.id \notin devices
    BY <1>1, TableType DEF Ids, NewDevice
<1> QED BY <1>1, <1>2, UserCopy

LEMMA UserClear ==
    ASSUME TypeInv, UserInv, NEW w \in Workers,
           NEW f \in {"v4", "v6"}, NEW pc \in {"clear4", "clear6"}, NEW next \in {"clear6", "write"},
           RemoveExistingIp(w, f, pc, next)
    PROVE  UserInv'
<1> DEFINE s == [worker[w] EXCEPT !.pc = next]
<1>1. worker' = [worker EXCEPT ![w] = s] /\ worker[w].pc = pc /\ UNCHANGED <<devices, acked, raced>>
    BY DEF RemoveExistingIp
<1>2. s.op = worker[w].op /\ s.id = worker[w].id /\ s.row = worker[w].row
    BY GotoState
<1>3. dev' = dev \/ dev' = WithoutAddress(f, worker[w].row[f])
    BY DEF RemoveExistingIp
<1>4. \A i \in devices : dev'[i].user = dev[i].user
    BY <1>3, TableType, WithoutRow
<1>5. s.op = "lease" /\ s.id \in devices \ raced => s.row.user = acked[s.id]
    BY <1>1, <1>2 DEF UserInv, HasCopy
<1> HIDE DEF s
<1> QED BY <1>1, <1>4, <1>5, UserCopy

LEMMA UserInserts == ASSUME TypeInv, UserInv, NEW w \in Workers, Inserts(w) PROVE UserInv'
<1> DEFINE s == [worker[w] EXCEPT !.pc = "bump"]
<1>1. /\ devices' = devices \cup {nextId} /\ dev' = [dev EXCEPT ![nextId] = worker[w].row]
      /\ acked' = [acked EXCEPT ![nextId] = worker[w].row.user] /\ raced' = raced
      /\ worker' = [worker EXCEPT ![w] = s]
    BY DEF Inserts, InsertDevice
<1>2. s.pc = "bump"
    BY GotoState
<1>3. nextId \in Ids /\ dev \in [Ids -> Rows] /\ acked \in [Ids -> Nat] /\ devices \subseteq Ids
    <2>1. TypeInv'
        BY InsertType DEF Inserts
    <2> QED BY <1>1, <2>1, TableType DEF TypeInv, DevicesTypeOK
<1>4. UserFieldsKept'
    <2>1. ASSUME NEW i \in devices' \ raced' PROVE dev'[i].user = acked'[i]
        <3>1. CASE i = nextId
            BY <1>1, <1>3, <3>1
        <3>2. CASE i # nextId
            <4>1. i \in devices \ raced /\ dev'[i] = dev[i] /\ acked'[i] = acked[i]
                BY <1>1, <1>3, <2>1, <3>2
            <4> QED BY <4>1 DEF UserInv, UserFieldsKept
        <3> QED BY <3>1, <3>2
    <2> QED BY <2>1 DEF UserFieldsKept
<1>5. ASSUME NEW x \in Workers, HasCopy(x)', worker'[x].op = "lease", worker'[x].id \in devices' \ raced'
      PROVE  worker'[x].row.user = acked'[worker'[x].id]
    <2>1. x # w /\ worker'[x] = worker[x] /\ HasCopy(x)
        BY <1>1, <1>2, <1>5, MovesOn
    <2>2. worker[x].id # nextId
        BY HandlerType DEF TypeInv, DevicesTypeOK
    <2>3. worker[x].id \in devices \ raced /\ acked'[worker[x].id] = acked[worker[x].id]
        BY <1>1, <1>3, <1>5, <2>1, <2>2
    <2> QED BY <1>5, <2>1, <2>3 DEF UserInv
<1> QED BY <1>4, <1>5 DEF UserInv

LEMMA UserUpdates == ASSUME TypeInv, UserInv, NEW w \in Workers, Updates(w) PROVE UserInv'
<1> DEFINE s == [worker[w] EXCEPT !.pc = "bump"]
           i == worker[w].id
<1>1. /\ devices' = devices /\ dev' = [dev EXCEPT ![i] = worker[w].row] /\ i \in devices
      /\ worker' = [worker EXCEPT ![w] = s] /\ Acknowledge(w, i) /\ HasCopy(w)
    BY DEF Updates, UpdateDevice, HasCopy
<1>2. s.pc = "bump"
    BY GotoState
<1>3. dev \in [Ids -> Rows] /\ acked \in [Ids -> Nat] /\ devices \subseteq Ids
    BY TableType
<1>4. ASSUME NEW x \in Workers, HasCopy(x)'
      PROVE  x # w /\ worker'[x] = worker[x] /\ HasCopy(x)
    BY <1>1, <1>2, <1>4, MovesOn
<1>5. CASE worker[w].op = "lease"
    <2>1. acked' = acked /\ raced' = raced
        BY <1>1, <1>5 DEF Acknowledge
    <2>2. i \notin raced => worker[w].row.user = acked[i]
        BY <1>1, <1>5 DEF UserInv
    <2>3. UserFieldsKept'
        BY <1>1, <1>3, <2>1, <2>2 DEF UserInv, UserFieldsKept
    <2>4. ASSUME NEW x \in Workers, HasCopy(x)', worker'[x].op = "lease", worker'[x].id \in devices' \ raced'
          PROVE  worker'[x].row.user = acked'[worker'[x].id]
        BY <1>1, <1>4, <2>1, <2>4 DEF UserInv
    <2> QED BY <2>3, <2>4 DEF UserInv
<1>6. CASE worker[w].op # "lease"
    <2>1. /\ acked' = [acked EXCEPT ![i] = worker[w].row.user]
          /\ raced' = IF \E x \in Workers \ {w} : HasCopy(x) /\ worker[x].id = i
                      THEN raced \cup {i} ELSE raced \ {i}
        BY <1>1, <1>6 DEF Acknowledge
    <2>2. \A j \in Ids \ {i} : j \notin raced' => j \notin raced
        BY <2>1
    <2>3. UserFieldsKept'
        <3>1. ASSUME NEW j \in devices' \ raced' PROVE dev'[j].user = acked'[j]
            <4>1. CASE j = i
                BY <1>1, <1>3, <2>1, <4>1
            <4>2. CASE j # i
                <5> HIDE DEF i
                <5>1. j \in devices \ raced /\ dev'[j] = dev[j] /\ acked'[j] = acked[j]
                    BY <1>1, <1>3, <2>1, <2>2, <3>1, <4>2
                <5> QED BY <5>1 DEF UserInv, UserFieldsKept
            <4> QED BY <4>1, <4>2
        <3> QED BY <3>1 DEF UserFieldsKept
    <2>4. ASSUME NEW x \in Workers, HasCopy(x)', worker'[x].op = "lease", worker'[x].id \in devices' \ raced'
          PROVE  worker'[x].row.user = acked'[worker'[x].id]
        <3>1. x # w /\ worker'[x] = worker[x] /\ HasCopy(x)
            BY <1>4, <2>4
        <3>2. worker[x].id # i
            <4> HIDE DEF i
            <4>1. worker[x].id \notin raced'
                BY <2>4, <3>1
            <4>2. worker[x].id = i => i \in raced'
                BY <2>1, <3>1
            <4> QED BY <4>1, <4>2
        <3>3. worker[x].id \in devices \ raced /\ acked'[worker[x].id] = acked[worker[x].id]
            BY <1>1, <1>3, <2>1, <2>2, <2>4, <3>1, <3>2
        <3> QED BY <2>4, <3>1, <3>3 DEF UserInv
    <2> QED BY <2>3, <2>4 DEF UserInv
<1> QED BY <1>5, <1>6

LEMMA UserStep == TypeInv /\ UserInv /\ [Next]_vars => UserInv'
<1> SUFFICES ASSUME TypeInv, UserInv, [Next]_vars PROVE UserInv'
    OBVIOUS
<1>1. CASE UNCHANGED vars
    BY <1>1 DEF vars, table, history, UserInv, UserFieldsKept, HasCopy
<1>2. ASSUME NEW w \in Workers, Stops(w) PROVE UserInv'
    <2>1. devices' \subseteq devices /\ dev' = dev /\ acked' = acked /\ raced' = raced
        BY <1>2 DEF Stops, history
    <2>2. \A x \in Workers : HasCopy(x)' => HasCopy(x) /\ worker'[x] = worker[x]
        BY <1>2, StopsKeeps
    <2> QED BY <2>1, <2>2 DEF UserInv, UserFieldsKept
<1>3. ASSUME NEW w \in Workers, NEW i \in devices, FoundByMac(w, i) PROVE UserInv'
    BY <1>3, UserFound DEF FoundByMac
<1>4. ASSUME NEW w \in Workers, FindByDuid(w) PROVE UserInv'
    <2>1. UNCHANGED <<devices, dev, acked, raced>> /\ (NotFound(w) \/ \E i \in devices : Found(w, i))
        BY <1>4 DEF FindByDuid, table
    <2> QED BY <2>1, UserFound, UserNotFound
<1>5. ASSUME NEW w \in Workers, FindFails(w) PROVE UserInv'
    BY <1>5, UserNotFound DEF FindFails, table
<1>6. ASSUME NEW w \in Workers, RemoveExistingIp(w, "v4", "clear4", "clear6") PROVE UserInv'
    BY <1>6, UserClear
<1>7. ASSUME NEW w \in Workers, RemoveExistingIp(w, "v6", "clear6", "write") PROVE UserInv'
    BY <1>7, UserClear
<1>8. ASSUME NEW w \in Workers, NEW b \in Bodies, (FindForPut(w, b) /\ worker[w].id \in devices) \/ Post(w, b)
      PROVE  UserInv'
    <2>1. PICK s \in HandlerStates : worker' = [worker EXCEPT ![w] = s] /\ s.op # "lease"
        BY <1>8, PutState, PostState
    <2>2. UNCHANGED <<devices, dev, acked, raced>>
        BY <1>8 DEF FindForPut, Post, table
    <2> QED BY <2>1, <2>2, UserCopy
<1>9. ASSUME NEW w \in Workers, Inserts(w) \/ Updates(w) PROVE UserInv'
    BY <1>9, UserInserts, UserUpdates
<1> QED BY <1>1, <1>2, <1>3, <1>4, <1>5, <1>6, <1>7, <1>8, <1>9, StepCases DEF Copies

(* upsert_device_from_dhcp_lease writes whole rows back, but what a user stored
   with update_device or insert_device stays unless a handler had a copy of the
   row when the user stored it: the only way to lose it is the race. *)
THEOREM LeasesKeepUserFields == Spec => []UserFieldsKept
<1>1. Init => UserInv
    BY DEF Init, UserInv, UserFieldsKept
<1>2. UserInv => UserFieldsKept
    BY DEF UserInv
<1> QED BY <1>1, <1>2, TypeAlways, UserStep, PTL DEF Spec

-----------------------------------------------------------------------------
(* One row per MAC.  No UNIQUE constraint keeps it when the DUID is NULL, so
   the copies count as rows: whoever is going to write a MAC that nobody else
   was adding writes it to the one row that has it, or there is none. *)

Writes(w, c) == HasCopy(w) /\ worker[w].row.mac = c
MacInv ==
    \A c \in Macs \ overlapped :
        /\ \A i, j \in devices : dev[i].mac = c /\ dev[j].mac = c => i = j
        /\ \A w \in Workers, j \in devices : Writes(w, c) /\ dev[j].mac = c => worker[w].id = j
        /\ \A w, x \in Workers : w # x /\ Writes(w, c) /\ Writes(x, c)
                                   => worker[w].id = worker[x].id /\ worker[w].id # NewDevice

(* A copy is taken, or the handler goes on with the one it has; the MACs of
   the rows stay. *)
LEMMA MacCopy ==
    ASSUME TypeInv, MacInv, NEW w \in Workers, NEW s, worker' = [worker EXCEPT ![w] = s],
           devices' = devices, \A i \in devices : dev'[i].mac = dev[i].mac,
           overlapped \subseteq overlapped',
           \A c \in Macs \ overlapped' : s.row.mac = c =>
               /\ \A j \in devices : dev[j].mac = c => s.id = j
               /\ \A x \in Workers \ {w} : Writes(x, c) => worker[x].id = s.id /\ s.id # NewDevice
    PROVE  MacInv'
<1> SUFFICES ASSUME NEW c \in Macs \ overlapped'
             PROVE  /\ \A i, j \in devices' : dev'[i].mac = c /\ dev'[j].mac = c => i = j
                    /\ \A x \in Workers, j \in devices' : Writes(x, c)' /\ dev'[j].mac = c => worker'[x].id = j
                    /\ \A x, y \in Workers : x # y /\ Writes(x, c)' /\ Writes(y, c)'
                                               => worker'[x].id = worker'[y].id /\ worker'[x].id # NewDevice
    BY DEF MacInv
<1>1. c \in Macs \ overlapped
    OBVIOUS
<1>2. \A i, j \in devices' : dev'[i].mac = c /\ dev'[j].mac = c => i = j
    BY <1>1 DEF MacInv
<1>3. \A x \in Workers : worker'[x] = IF x = w THEN s ELSE worker[x]
    BY DEF TypeInv, DevicesTypeOK
<1>4. \A x \in Workers \ {w} : Writes(x, c)' => Writes(x, c)
    BY <1>3 DEF Writes, HasCopy
<1>5. Writes(w, c)' => s.row.mac = c
    BY <1>3 DEF Writes
<1>6. ASSUME NEW x \in Workers, NEW j \in devices', Writes(x, c)', dev'[j].mac = c PROVE worker'[x].id = j
    <2>1. CASE x = w
        BY <1>3, <1>5, <1>6, <2>1
    <2>2. CASE x # w
        BY <1>1, <1>3, <1>4, <1>6, <2>2 DEF MacInv
    <2> QED BY <2>1, <2>2
<1>7. ASSUME NEW x \in Workers, NEW y \in Workers, x # y, Writes(x, c)', Writes(y, c)'
      PROVE  worker'[x].id = worker'[y].id /\ worker'[x].id # NewDevice
    <2>1. CASE x = w
        BY <1>3, <1>4, <1>5, <1>7, <2>1
    <2>2. CASE y = w
        BY <1>3, <1>4, <1>5, <1>7, <2>2
    <2>3. CASE x # w /\ y # w
        BY <1>1, <1>3, <1>4, <1>7, <2>3 DEF MacInv
    <2> QED BY <2>1, <2>2, <2>3
<1> QED BY <1>2, <1>6, <1>7

(* A copy of row i that keeps its MAC. *)
LEMMA MacOfRow ==
    ASSUME TypeInv, MacInv, NEW w \in Workers, NEW i \in devices, NEW c \in Macs \ overlapped, dev[i].mac = c
    PROVE  /\ \A j \in devices : dev[j].mac = c => i = j
           /\ \A x \in Workers \ {w} : Writes(x, c) => worker[x].id = i /\ i # NewDevice
<1>1. i # NewDevice
    BY TableType DEF Ids, NewDevice
<1> QED BY <1>1 DEF MacInv

LEMMA MacFoundByMac ==
    ASSUME TypeInv, MacInv, NEW w \in Workers, NEW i \in devices, FoundByMac(w, i) PROVE MacInv'
<1>1. PICK s \in HandlerStates :
          worker' = [worker EXCEPT ![w] = s] /\ s.id = i /\ s.row = apply(dev[i], worker[w].lease)
    BY FoundState DEF FoundByMac
<1>2. s.row.mac = dev[i].mac
    BY <1>1, ApplyRow, HandlerType, TableType DEF FoundByMac
<1>3. devices' = devices /\ dev' = dev /\ overlapped' = overlapped
    BY DEF FoundByMac
<1>4. ASSUME NEW c \in Macs \ overlapped', s.row.mac = c
      PROVE  /\ \A j \in devices : dev[j].mac = c => s.id = j
             /\ \A x \in Workers \ {w} : Writes(x, c) => worker[x].id = s.id /\ s.id # NewDevice
    BY <1>1, <1>2, <1>3, <1>4, MacOfRow
<1> QED BY <1>1, <1>3, <1>4, MacCopy

LEMMA MacFindByDuid ==
    ASSUME TypeInv, MacInv, NEW w \in Workers, FindByDuid(w) PROVE MacInv'
<1> DEFINE l == worker[w].lease
<1>1. UNCHANGED <<devices, dev>> /\ NoteOverlap(w) /\ (NotFound(w) \/ \E i \in devices : Found(w, i))
    BY DEF FindByDuid, table
<1>2. overlapped \subseteq overlapped'
    BY <1>1 DEF NoteOverlap
<1>3. ASSUME NEW c \in Macs \ overlapped', l.mac = c
      PROVE  (\A j \in devices : dev[j].mac # c) /\ (\A x \in Workers \ {w} : ~Writes(x, c))
    <2>1. c # None
        BY ClientAssumption
    <2> QED BY <1>1, <1>3, <2>1 DEF NoteOverlap, Writes
<1>4. CASE NotFound(w)
    <2>1. PICK s \in HandlerStates : worker' = [worker EXCEPT ![w] = s] /\ s.row = apply(NoRow, l)
        BY <1>4, NotFoundState
    <2>2. s.row.mac = l.mac
        BY <2>1, ApplyRow, NoRowType, HandlerType DEF NoRow
    <2> HIDE DEF l
    <2>3. \A c \in Macs \ overlapped' : s.row.mac = c =>
              /\ \A j \in devices : dev[j].mac = c => s.id = j
              /\ \A x \in Workers \ {w} : Writes(x, c) => worker[x].id = s.id /\ s.id # NewDevice
        BY <1>3, <2>2
    <2> QED BY <1>1, <1>2, <2>1, <2>3, MacCopy
<1>5. ASSUME NEW i \in devices, Found(w, i) PROVE MacInv'
    <2>1. PICK s \in HandlerStates :
              worker' = [worker EXCEPT ![w] = s] /\ s.id = i /\ s.row = apply(dev[i], l)
        BY <1>5, FoundState
    <2>2. s.row.mac = IF l.mac # None THEN l.mac ELSE dev[i].mac
        BY <2>1, ApplyRow, TableType, HandlerType
    <2> HIDE DEF l
    <2>3. ASSUME NEW c \in Macs \ overlapped', s.row.mac = c
          PROVE  /\ \A j \in devices : dev[j].mac = c => s.id = j
                 /\ \A x \in Workers \ {w} : Writes(x, c) => worker[x].id = s.id /\ s.id # NewDevice
        <3>1. CASE l.mac = c
            BY <1>3, <3>1
        <3>2. CASE dev[i].mac = c
            BY <1>2, <2>1, <3>2, MacOfRow
        <3> QED BY <2>2, <2>3, <3>1, <3>2
    <2> QED BY <1>1, <1>2, <2>1, <2>3, MacCopy
<1> QED BY <1>1, <1>4, <1>5

LEMMA MacFindFails ==
    ASSUME TypeInv, MacInv, NEW w \in Workers, FindFails(w) PROVE MacInv'
<1>1. PICK s \in HandlerStates :
          worker' = [worker EXCEPT ![w] = s] /\ s.row = apply(NoRow, worker[w].lease)
    BY NotFoundState DEF FindFails
<1>2. s.row.mac = worker[w].lease.mac
    BY <1>1, ApplyRow, NoRowType, HandlerType DEF NoRow
<1>3. UNCHANGED <<devices, dev>> /\ overlapped' = overlapped \cup ({worker[w].lease.mac} \ {None})
    BY DEF FindFails, table
<1>4. s.row.mac \notin Macs \ overlapped'
    BY <1>2, <1>3, ClientAssumption
<1> QED BY <1>1, <1>3, <1>4, MacCopy

LEMMA MacClear ==
    ASSUME TypeInv, MacInv, NEW w \in Workers,
           NEW f \in {"v4", "v6"}, NEW pc \in {"clear4", "clear6"}, NEW next \in {"clear6", "write"},
           RemoveExistingIp(w, f, pc, next)
    PROVE  MacInv'
<1>1. PICK s : s = [worker[w] EXCEPT !.pc = next]
    OBVIOUS
<1>2. worker' = [worker EXCEPT ![w] = s] /\ worker[w].pc = pc /\ devices' = devices /\ overlapped' = overlapped
    BY <1>1 DEF RemoveExistingIp
<1>3. s.id = worker[w].id /\ s.row = worker[w].row
    BY <1>1, GotoState
<1>4. dev' = dev \/ dev' = WithoutAddress(f, worker[w].row[f])
    BY DEF RemoveExistingIp
<1>5. \A i \in devices : dev'[i].mac = dev[i].mac
    BY <1>4, TableType, WithoutRow
<1>6. ASSUME NEW c \in Macs \ overlapped', s.row.mac = c
      PROVE  /\ \A j \in devices : dev[j].mac = c => s.id = j
             /\ \A x \in Workers \ {w} : Writes(x, c) => worker[x].id = s.id /\ s.id # NewDevice
    <2>1. Writes(w, c) /\ c \in Macs \ overlapped
        BY <1>2, <1>3, <1>6 DEF Writes, HasCopy
    <2> QED BY <1>3, <2>1 DEF MacInv
<1> QED BY <1>2, <1>5, <1>6, MacCopy

(* A MAC of a user may have another row, and is noted. *)
LEMMA MacUser ==
    ASSUME TypeInv, MacInv, NEW w \in Workers, NEW b \in Bodies,
           (FindForPut(w, b) /\ worker[w].id \in devices) \/ Post(w, b)
    PROVE  MacInv'
<1>1. UNCHANGED <<devices, dev>> /\ overlapped' = overlapped \cup ({b.mac} \cap Macs)
    BY DEF FindForPut, Post, NoteUser, table
<1>2. CASE FindForPut(w, b) /\ worker[w].id \in devices
    <2>1. PICK i : i = worker[w].id
        OBVIOUS
    <2>2. PICK s \in HandlerStates :
              /\ worker' = [worker EXCEPT ![w] = s] /\ s.id = i
              /\ s.row = UserRow(dev[i], b, worker[w].row.user)
        BY <1>2, <2>1, PutState
    <2>3. worker[w].row.user \in Nat /\ i \in devices /\ dev[i] \in Rows
        BY <1>2, <2>1, HandlerType, TableType DEF Rows
    <2>4. s.row.mac = IF b.mac # None THEN parsed(b.mac) ELSE dev[i].mac
        BY <2>2, <2>3, ApplyToRow
    <2>5. ASSUME NEW c \in Macs \ overlapped', s.row.mac = c
          PROVE  /\ \A j \in devices : dev[j].mac = c => s.id = j
                 /\ \A x \in Workers \ {w} : Writes(x, c) => worker[x].id = s.id /\ s.id # NewDevice
        <3>1. dev[i].mac = c
            BY <1>1, <2>4, <2>5, ClientAssumption DEF parsed
        <3> QED BY <1>1, <2>2, <2>3, <3>1, MacOfRow
    <2> QED BY <1>1, <2>2, <2>5, MacCopy
<1>3. CASE Post(w, b)
    <2>1. PICK s \in HandlerStates :
              worker' = [worker EXCEPT ![w] = s] /\ s.row = UserRow(NoRow, b, requests + 1)
        BY <1>3, PostState
    <2>2. requests + 1 \in Nat
        BY DEF TypeInv, DevicesTypeOK
    <2>3. s.row.mac = IF b.mac # None THEN parsed(b.mac) ELSE None
        BY <2>1, <2>2, ApplyToRow, NoRowType DEF NoRow
    <2>4. s.row.mac \notin Macs \ overlapped'
        BY <1>1, <2>3, ClientAssumption DEF parsed
    <2>5. /\ devices' = devices /\ dev' = dev /\ overlapped \subseteq overlapped'
          /\ \A c \in Macs \ overlapped' : s.row.mac # c
        BY <1>1, <2>4
    <2> QED BY <2>1, <2>5, MacCopy
<1> QED BY <1>2, <1>3

(* Row i becomes the copy of w, which is not used any more. *)
LEMMA MacWrite ==
    ASSUME TypeInv, TypeInv', MacInv, NEW w \in Workers, HasCopy(w), overlapped' = overlapped,
           NEW s, worker' = [worker EXCEPT ![w] = s], s.pc = "bump",
           NEW i \in Ids, dev' = [dev EXCEPT ![i] = worker[w].row], devices' = devices \cup {i},
           (worker[w].id = NewDevice /\ i \notin devices) \/ worker[w].id = i
    PROVE  MacInv'
<1> SUFFICES ASSUME NEW c \in Macs \ overlapped
             PROVE  /\ \A k, j \in devices' : dev'[k].mac = c /\ dev'[j].mac = c => k = j
                    /\ \A x \in Workers, j \in devices' : Writes(x, c)' /\ dev'[j].mac = c => worker'[x].id = j
                    /\ \A x, y \in Workers : x # y /\ Writes(x, c)' /\ Writes(y, c)'
                                               => worker'[x].id = worker'[y].id /\ worker'[x].id # NewDevice
    BY DEF MacInv
<1>1. \A j \in devices : dev'[j] = IF j = i THEN worker[w].row ELSE dev[j]
    BY TableType
<1>2. dev'[i] = worker[w].row
    BY TableType
<1>3. NewDevice \notin devices
    BY TableType DEF Ids, NewDevice
<1>4. \A j \in devices : worker[w].row.mac = c /\ dev[j].mac = c => j = i
    <2>1. \A j \in devices : worker[w].row.mac = c /\ dev[j].mac = c => worker[w].id = j
        BY DEF MacInv, Writes
    <2> QED BY <1>3, <2>1
<1>5. \A k, j \in devices' : dev'[k].mac = c /\ dev'[j].mac = c => k = j
    <2>1. \A k, j \in devices : dev[k].mac = c /\ dev[j].mac = c => k = j
        BY DEF MacInv
    <2> QED BY <1>1, <1>2, <1>4, <2>1
<1>6. ASSUME NEW x \in Workers, Writes(x, c)'
      PROVE  x # w /\ worker'[x] = worker[x] /\ Writes(x, c)
    <2>1. HasCopy(x)' /\ worker'[x].row.mac = c
        BY <1>6 DEF Writes
    <2>2. x # w /\ worker'[x] = worker[x] /\ HasCopy(x)
        BY <2>1, MovesOn
    <2> QED BY <2>1, <2>2 DEF Writes
<1>7. ASSUME NEW x \in Workers, NEW j \in devices', Writes(x, c)', dev'[j].mac = c PROVE worker'[x].id = j
    <2>1. x # w /\ worker'[x] = worker[x] /\ Writes(x, c)
        BY <1>6, <1>7
    <2>2. CASE j = i
        <3>1. Writes(w, c)
            BY <1>2, <1>7, <2>2 DEF Writes
        <3>2. worker[w].id = worker[x].id /\ worker[w].id # NewDevice
            BY <2>1, <3>1 DEF MacInv
        <3> QED BY <2>1, <2>2, <3>2
    <2>3. CASE j # i
        <3>1. j \in devices /\ dev[j].mac = c
            BY <1>1, <1>7, <2>3
        <3> QED BY <2>1, <3>1 DEF MacInv
    <2> QED BY <2>2, <2>3
<1>8. ASSUME NEW x \in Workers, NEW y \in Workers, x # y, Writes(x, c)', Writes(y, c)'
      PROVE  worker'[x].id = worker'[y].id /\ worker'[x].id # NewDevice
    <2>1. worker'[x] = worker[x] /\ Writes(x, c) /\ worker'[y] = worker[y] /\ Writes(y, c)
        BY <1>6, <1>8
    <2> QED BY <1>8, <2>1 DEF MacInv
<1> QED BY <1>5, <1>7, <1>8

LEMMA MacInserts == ASSUME TypeInv, MacInv, NEW w \in Workers, Inserts(w) PROVE MacInv'
<1>1. PICK s, i : s = [worker[w] EXCEPT !.pc = "bump"] /\ i = nextId
    OBVIOUS
<1>2. /\ worker' = [worker EXCEPT ![w] = s] /\ devices' = devices \cup {i}
      /\ dev' = [dev EXCEPT ![i] = worker[w].row] /\ overlapped' = overlapped
      /\ HasCopy(w) /\ worker[w].id = NewDevice
    BY <1>1 DEF Inserts, InsertDevice, HasCopy
<1>3. TypeInv'
    BY InsertType DEF Inserts
<1>4. i \in Ids
    BY <1>2, <1>3 DEF TypeInv, DevicesTypeOK
<1>5. i \notin devices
    BY <1>1, <1>4 DEF TypeInv, DevicesTypeOK, Fresh
<1>6. s.pc = "bump"
    BY <1>1, GotoState
<1> QED BY <1>2, <1>3, <1>4, <1>5, <1>6, MacWrite

LEMMA MacUpdates == ASSUME TypeInv, MacInv, NEW w \in Workers, Updates(w) PROVE MacInv'
<1>1. PICK s, i : s = [worker[w] EXCEPT !.pc = "bump"] /\ i = worker[w].id
    OBVIOUS
<1>2. /\ worker' = [worker EXCEPT ![w] = s] /\ devices' = devices /\ i \in devices
      /\ dev' = [dev EXCEPT ![i] = worker[w].row] /\ overlapped' = overlapped /\ HasCopy(w)
    BY <1>1 DEF Updates, UpdateDevice, HasCopy
<1>3. TypeInv'
    BY UpdateType DEF Updates
<1>4. i \in Ids /\ devices' = devices \cup {i}
    BY <1>2, TableType
<1>5. s.pc = "bump"
    BY <1>1, GotoState
<1> QED BY <1>1, <1>2, <1>3, <1>4, <1>5, MacWrite

LEMMA MacStep == TypeInv /\ MacInv /\ [Next]_vars => MacInv'
<1> SUFFICES ASSUME TypeInv, MacInv, [Next]_vars PROVE MacInv'
    OBVIOUS
<1>1. CASE UNCHANGED vars
    BY <1>1 DEF vars, table, history, MacInv, Writes, HasCopy
<1>2. ASSUME NEW w \in Workers, Stops(w) PROVE MacInv'
    <2>1. devices' \subseteq devices /\ dev' = dev /\ overlapped' = overlapped
        BY <1>2 DEF Stops, history
    <2>2. \A x \in Workers : HasCopy(x)' => HasCopy(x) /\ worker'[x] = worker[x]
        BY <1>2, StopsKeeps
    <2>3. \A x \in Workers, c \in Macs : Writes(x, c)' => Writes(x, c) /\ worker'[x] = worker[x]
        BY <2>2 DEF Writes
    <2> QED BY <2>1, <2>3 DEF MacInv
<1>3. ASSUME NEW w \in Workers, NEW i \in devices, FoundByMac(w, i) PROVE MacInv'
    BY <1>3, MacFoundByMac
<1>4. ASSUME NEW w \in Workers, FindByDuid(w) \/ FindFails(w) PROVE MacInv'
    BY <1>4, MacFindByDuid, MacFindFails
<1>5. ASSUME NEW w \in Workers, RemoveExistingIp(w, "v4", "clear4", "clear6") PROVE MacInv'
    BY <1>5, MacClear
<1>6. ASSUME NEW w \in Workers, RemoveExistingIp(w, "v6", "clear6", "write") PROVE MacInv'
    BY <1>6, MacClear
<1>7. ASSUME NEW w \in Workers, NEW b \in Bodies, (FindForPut(w, b) /\ worker[w].id \in devices) \/ Post(w, b)
      PROVE  MacInv'
    BY <1>7, MacUser
<1>8. ASSUME NEW w \in Workers, Inserts(w) \/ Updates(w) PROVE MacInv'
    BY <1>8, MacInserts, MacUpdates
<1> QED BY <1>1, <1>2, <1>3, <1>4, <1>5, <1>6, <1>7, <1>8, StepCases DEF Copies

(* find_by_mac_or_duid and the write that follows are two statements, and no
   constraint keeps a second row with the same MAC out; still there is only one
   unless a second handler was adding one, a lookup failed or a user did. *)
THEOREM MacsHaveOneRow == Spec => []OneRowPerMac
<1>1. Init => MacInv
    BY DEF Init, MacInv, Writes, HasCopy, Idle
<1>2. TypeInv /\ MacInv => OneRowPerMac
    <2> SUFFICES ASSUME TypeInv, MacInv, NEW i \in devices, NEW j \in devices,
                        i # j, dev[i].mac = dev[j].mac, dev[i].mac # None
                 PROVE  dev[i].mac \in overlapped
        BY DEF OneRowPerMac
    <2>1. dev[i].mac \in Macs
        BY TableType DEF Rows
    <2> QED BY <2>1 DEF MacInv
<1> QED BY <1>1, <1>2, TypeAlways, MacStep, PTL DEF Spec

-----------------------------------------------------------------------------
(* Addresses.  A handler may write its copy at any time, so the copies must
   follow the leases as the rows do, each from the moment the handler has taken
   the leased address away from the other rows. *)

Follows(r, a) == a \notin disputed \cup {None} /\ owner[a] # None => BelongsTo(r, owner[a])
RowFollows(r) == Follows(r, r.v4) /\ Follows(r, r.v6)

(* The row is one of the client of the lease, and has the leased address. *)
Applied(r, l) ==
    /\ l.mac # None => r.mac = l.mac
    /\ l.duid # None => r.duid = l.duid
    /\ l.v4 # None => r.v4 = l.v4
    /\ l.v6 # None => r.v6 = l.v6
CopyFollows(s) ==
    /\ Applied(s.row, s.lease)
    /\ s.pc # "clear4" \/ s.lease.v4 = None => Follows(s.row, s.row.v4)
    /\ s.pc = "write" \/ s.lease.v6 = None => Follows(s.row, s.row.v6)

(* Only v6 leases name a DUID. *)
AddressInv ==
    /\ \A a \in V4 : owner[a] \notin Duids
    /\ \A i \in devices : RowFollows(dev[i])
    /\ \A w \in Workers : HasCopy(w) => CopyFollows(worker[w])

(* Forgetting owners keeps what was so. *)
LEMMA ForgetRow ==
    ASSUME disputed' = disputed, \A a \in Addresses : owner'[a] \in {owner[a], None}, NEW r \in Rows
    PROVE  /\ Follows(r, r.v4) => Follows(r, r.v4)'
           /\ Follows(r, r.v6) => Follows(r, r.v6)'
<1>1. r.v4 \in Addresses \cup {None} /\ r.v6 \in Addresses \cup {None}
    BY DEF Rows, Addresses
<1> QED BY <1>1 DEF Follows

(* A handler that has no copy, or whose copy follows the leases, goes on. *)
LEMMA AddressCopy ==
    ASSUME TypeInv, AddressInv, NEW w \in Workers, NEW s, worker' = [worker EXCEPT ![w] = s],
           devices' \subseteq devices, dev' = dev, disputed' = disputed,
           \A a \in Addresses : owner'[a] \in {owner[a], None},
           s.pc \in Copying => CopyFollows(s)'
    PROVE  AddressInv'
<1>1. ASSUME NEW i \in devices' PROVE RowFollows(dev[i])'
    <2>1. PICK r \in Rows : r = dev[i] /\ r = dev'[i]
        BY TableType
    <2>2. RowFollows(r)
        BY <2>1 DEF AddressInv
    <2>3. RowFollows(r)'
        BY <2>2, ForgetRow DEF RowFollows
    <2> QED BY <2>1, <2>3
<1>2. ASSUME NEW x \in Workers, HasCopy(x)' PROVE CopyFollows(worker[x])'
    <2>1. worker'[x] = IF x = w THEN s ELSE worker[x]
        BY DEF TypeInv, DevicesTypeOK
    <2>2. worker'[x].pc \in Copying
        BY <1>2 DEF HasCopy, Copying
    <2>3. CASE x = w
        <3>1. worker'[x] = s /\ CopyFollows(s)'
            BY <2>1, <2>2, <2>3
        <3> QED BY <3>1 DEF CopyFollows
    <2>4. CASE x # w
        <3>1. PICK t \in HandlerStates : t = worker[x] /\ t = worker'[x]
            BY <2>1, <2>4, HandlerType
        <3>2. CopyFollows(t) /\ t.row \in Rows
            BY <2>2, <3>1, HandlerType DEF AddressInv, HasCopy, Copying
        <3>3. CopyFollows(t)'
            BY <3>2, ForgetRow DEF CopyFollows
        <3> QED BY <3>1, <3>3
    <2> QED BY <2>3, <2>4
<1>3. ASSUME NEW a \in V4 PROVE owner'[a] \notin Duids
    BY ClientAssumption DEF AddressInv, Addresses
<1> QED BY <1>1, <1>2, <1>3 DEF AddressInv

LEMMA AddressFound ==
    ASSUME TypeInv, AddressInv, NEW w \in Workers, NEW i \in devices, Found(w, i),
           UNCHANGED <<devices, dev, disputed>>
    PROVE  AddressInv'
<1>1. PICK r \in Rows : r = dev[i]
    BY TableType
<1>2. PICK l \in Leases \cup {NoLease} : l = worker[w].lease
    BY HandlerType
<1>3. PICK s \in HandlerStates :
          worker' = [worker EXCEPT ![w] = s] /\ s.pc = "clear4" /\ s.lease = l /\ s.row = apply(r, l)
    BY <1>1, <1>2, FoundState
<1>4. /\ s.row.mac = IF l.mac # None THEN l.mac ELSE r.mac
      /\ s.row.duid = IF l.duid # None THEN l.duid ELSE r.duid
      /\ s.row.v4 = IF l.v4 # None THEN l.v4 ELSE r.v4
      /\ s.row.v6 = IF l.v6 # None THEN l.v6 ELSE r.v6
    BY <1>3, ApplyRow
<1>5. \A a \in Addresses : owner'[a] = IF TakenOver(i, l) /\ a \in {r.v4, r.v6} THEN None ELSE owner[a]
    BY <1>1, <1>2 DEF Found
<1>6. ASSUME NEW a \in {r.v4, r.v6}, a = r.v4 \/ l.v6 = None PROVE Follows(s.row, a)'
    <2> SUFFICES ASSUME a \notin disputed \cup {None}, owner'[a] # None PROVE BelongsTo(s.row, owner'[a])
        BY DEF Follows, BelongsTo
    <2>1. a \in Addresses
        BY <1>6 DEF Rows, Addresses
    <2>2. ~TakenOver(i, l) /\ owner'[a] = owner[a]
        BY <1>5, <1>6, <2>1
    <2>3. Follows(r, a)
        BY <1>1, <1>6 DEF AddressInv, RowFollows
    <2>4. owner[a] \in {r.mac, r.duid}
        BY <2>2, <2>3 DEF Follows, BelongsTo
    <2>5. CASE owner[a] = r.mac
        <3>1. s.row.mac = r.mac
            BY <1>1, <1>4, <2>2, <2>5 DEF TakenOver
        <3> QED BY <2>2, <2>5, <3>1 DEF BelongsTo
    <2>6. CASE owner[a] = r.duid
        <3>1. r.duid \in Duids
            BY <2>2, <2>6 DEF Rows
        <3>2. a \notin V4
            BY <2>6, <3>1 DEF AddressInv
        <3>3. l.v6 = None
            BY <1>6, <3>2, <2>1 DEF Rows
        <3>4. l.duid = None
            BY <3>3, ClientAssumption DEF Leases, NoLease
        <3> QED BY <1>4, <2>2, <2>6, <3>4 DEF BelongsTo
    <2> QED BY <2>4, <2>5, <2>6
<1>7. CopyFollows(s)'
    <2>1. Applied(s.row, s.lease)
        BY <1>3, <1>4 DEF Applied
    <2>2. l.v4 = None => Follows(s.row, s.row.v4)'
        <3> SUFFICES ASSUME l.v4 = None PROVE Follows(s.row, s.row.v4)'
            OBVIOUS
        <3>1. s.row.v4 = r.v4
            BY <1>4
        <3> QED BY <1>6, <3>1
    <2>3. l.v6 = None => Follows(s.row, s.row.v6)'
        <3> SUFFICES ASSUME l.v6 = None PROVE Follows(s.row, s.row.v6)'
            OBVIOUS
        <3>1. s.row.v6 = r.v6
            BY <1>4
        <3> QED BY <1>6, <3>1
    <2> QED BY <1>3, <2>1, <2>2, <2>3 DEF CopyFollows
<1>8. \A a \in Addresses : owner'[a] \in {owner[a], None}
    BY <1>5
<1> QED BY <1>3, <1>7, <1>8, AddressCopy

LEMMA AddressNotFound ==
    ASSUME TypeInv, AddressInv, NEW w \in Workers, NotFound(w), UNCHANGED <<devices, dev, disputed>>
    PROVE  AddressInv'
<1>1. PICK l \in Leases \cup {NoLease} : l = worker[w].lease
    BY HandlerType
<1>2. PICK s \in HandlerStates :
          worker' = [worker EXCEPT ![w] = s] /\ s.pc = "clear4" /\ s.lease = l /\ s.row = apply(NoRow, l)
    BY <1>1, NotFoundState
<1>3. /\ s.row.mac = l.mac /\ s.row.duid = l.duid
      /\ s.row.v4 = l.v4 /\ s.row.v6 = l.v6
    BY <1>2, ApplyRow, NoRowType DEF NoRow
<1>4. CopyFollows(s)'
    BY <1>2, <1>3 DEF CopyFollows, Applied, Follows
<1>5. \A a \in Addresses : owner'[a] \in {owner[a], None}
    BY DEF NotFound
<1> QED BY <1>2, <1>4, <1>5, AddressCopy

(* A row with fields of a user: the addresses follow no lease any more, or
   they and the identity are those the row had. *)
LEMMA UserFollows ==
    ASSUME TypeInv, NEW r \in Rows, RowFollows(r), NEW b \in Bodies, NEW n \in Nat,
           NoteUser(r, b), disputed' = disputed
    PROVE  RowFollows(UserRow(r, b, n))'
<1>1. PICK q \in Rows : q = UserRow(r, b, n)
    BY ApplyToRow
<1>2. /\ q.mac = IF b.mac # None THEN parsed(b.mac) ELSE r.mac
      /\ q.duid = IF b.duid # None THEN parsed(b.duid) ELSE r.duid
      /\ q.v4 = IF b.v4 # None THEN parsed(b.v4) ELSE r.v4
      /\ q.v6 = IF b.v6 # None THEN parsed(b.v6) ELSE r.v6
    BY <1>1, ApplyToRow
<1>3. \A a \in Addresses : owner'[a] = IF \/ a \in {b.v4, b.v6}
                                          \/ {b.mac, b.duid} # {None} /\ a \in {r.v4, r.v6}
                                       THEN None ELSE owner[a]
    BY DEF NoteUser
<1>4. \A x : parsed(x) \in {x, None}
    BY DEF parsed
<1>5. ASSUME NEW a \in {q.v4, q.v6} PROVE Follows(q, a)'
    <2> SUFFICES ASSUME a \notin disputed \cup {None}, owner'[a] # None PROVE BelongsTo(q, owner'[a])
        BY DEF Follows, BelongsTo
    <2>1. a \in Addresses
        BY <1>5 DEF Rows, Addresses
    <2>2. a \notin {b.v4, b.v6} /\ owner'[a] = owner[a]
        BY <1>3, <2>1
    <2>3. a \in {r.v4, r.v6}
        BY <1>2, <1>4, <1>5, <2>2
    <2>4. b.mac = None /\ b.duid = None
        BY <1>3, <2>1, <2>3
    <2>5. q.mac = r.mac /\ q.duid = r.duid /\ Follows(r, a)
        BY <1>2, <2>3, <2>4 DEF RowFollows
    <2> QED BY <2>2, <2>5 DEF Follows, BelongsTo
<1>6. RowFollows(q)'
    BY <1>5 DEF RowFollows
<1> QED BY <1>1, <1>6

LEMMA AddressUser ==
    ASSUME TypeInv, AddressInv, NEW w \in Workers, NEW b \in Bodies,
           (FindForPut(w, b) /\ worker[w].id \in devices) \/ Post(w, b)
    PROVE  AddressInv'
<1>1. PICK s \in HandlerStates, r \in Rows, n \in Nat :
          /\ worker' = [worker EXCEPT ![w] = s] /\ s.pc = "write" /\ s.lease = NoLease
          /\ s.row = UserRow(r, b, n) /\ RowFollows(r) /\ NoteUser(r, b)
    <2>1. CASE FindForPut(w, b) /\ worker[w].id \in devices
        <3>1. worker[w].row.user \in Nat /\ dev[worker[w].id] \in Rows
            BY <2>1, HandlerType, TableType DEF Rows
        <3>2. RowFollows(dev[worker[w].id])
            BY <2>1 DEF AddressInv
        <3>3. NoteUser(dev[worker[w].id], b)
            BY <2>1 DEF FindForPut
        <3> QED BY <2>1, <3>1, <3>2, <3>3, PutState
    <2>2. CASE Post(w, b)
        <3>1. requests + 1 \in Nat
            BY DEF TypeInv, DevicesTypeOK
        <3>2. RowFollows(NoRow)
            BY DEF RowFollows, Follows, NoRow
        <3>3. NoteUser(NoRow, b)
            BY <2>2 DEF Post
        <3> QED BY <2>2, <3>1, <3>2, <3>3, PostState, NoRowType
    <2> QED BY <2>1, <2>2
<1>2. UNCHANGED <<devices, dev, disputed>>
    BY DEF FindForPut, Post, table
<1>3. RowFollows(s.row)'
    <2>1. RowFollows(UserRow(r, b, n))'
        BY <1>1, <1>2, UserFollows
    <2> QED BY <1>1, <2>1
<1>4. CopyFollows(s)'
    BY <1>1, <1>3 DEF CopyFollows, Applied, NoLease, RowFollows
<1>5. \A a \in Addresses : owner'[a] \in {owner[a], None}
    BY <1>1 DEF NoteUser
<1> QED BY <1>1, <1>2, <1>4, <1>5, AddressCopy

(* The address of family f is the leased one: it changes hands. *)
LEMMA AddressChanges ==
    ASSUME TypeInv, AddressInv, NEW w \in Workers,
           NEW f \in {"v4", "v6"}, NEW pc \in {"clear4", "clear6"}, NEW next \in {"clear6", "write"},
           f = "v4" => pc = "clear4" /\ next = "clear6", f = "v6" => pc = "clear6" /\ next = "write",
           RemoveExistingIp(w, f, pc, next), worker[w].row[f] # None, worker[w].lease[f] = worker[w].row[f]
    PROVE  AddressInv'
<1>1. PICK t \in HandlerStates : t = worker[w]
    BY HandlerType
<1>2. PICK s : s = [t EXCEPT !.pc = next]
    OBVIOUS
<1>3. PICK a, c : a = t.row[f] /\ c = LeaseClient(t.lease)
    OBVIOUS
<1>4. /\ s.row = t.row /\ s.lease = t.lease /\ s.pc = next /\ t.pc = pc /\ worker' = [worker EXCEPT ![w] = s]
      /\ t.row \in Rows /\ t.lease \in Leases \cup {NoLease} /\ t.lease[f] = a /\ a # None
    BY <1>1, <1>2, <1>3 DEF RemoveExistingIp, HandlerStates
<1>5. /\ devices' = devices /\ dev' = WithoutAddress(f, a) /\ owner' = [owner EXCEPT ![a] = c]
      /\ disputed' = IF \E x \in Workers \ {w} : HasCopy(x) /\ worker[x].row[f] = a
                     THEN disputed \cup {a} ELSE disputed \ {a}
    BY <1>1, <1>3, <1>4 DEF RemoveExistingIp, NoteOwner
<1>6. a \in Addresses
    BY <1>3, <1>4, RowAddress
<1>7. disputed' \cup {a} = disputed \cup {a}
    BY <1>5
<1>8. owner'[a] = c
    BY <1>5, <1>6, TableType
<1>9. ASSUME NEW r \in Rows, a \in {r.v4, r.v6} PROVE r[f] = a
    BY <1>3, <1>4, <1>9, ClientAssumption DEF Rows
<1>91. ASSUME NEW r \in Rows, NEW o \in {r.v4, r.v6}, o # a, Follows(r, o) PROVE Follows(r, o)'
    <2>1. o \in Addresses \cup {None}
        BY DEF Rows, Addresses
    <2>2. o # None => owner'[o] = owner[o]
        BY <1>5, <1>91, <2>1, TableType
    <2>3. o \in disputed <=> o \in disputed'
        BY <1>7, <1>91
    <2> QED BY <1>91, <2>2, <2>3 DEF Follows, BelongsTo
<1>10. ASSUME NEW i \in devices' PROVE RowFollows(dev[i])'
    <2>1. PICK r \in Rows, q \in Rows : r = dev[i] /\ q = dev'[i]
        BY <1>5, <1>10, TableType, WithoutType
    <2>2. /\ q.mac = r.mac /\ q.duid = r.duid /\ q.v4 \in {r.v4, None} /\ q.v6 \in {r.v6, None} /\ q[f] # a
        BY <1>4, <1>5, <1>10, <2>1, TableType, WithoutRow
    <2>3. RowFollows(r)
        BY <1>5, <1>10, <2>1 DEF AddressInv
    <2>4. q.v4 # a /\ q.v6 # a
        BY <1>9, <2>2
    <2>5. Follows(q, q.v4) /\ Follows(q, q.v6)
        BY <2>2, <2>3 DEF RowFollows, Follows, BelongsTo
    <2>6. Follows(q, q.v4)' /\ Follows(q, q.v6)'
        BY <1>91, <2>4, <2>5
    <2> QED BY <2>1, <2>6 DEF RowFollows
<1>11. ASSUME NEW x \in Workers \ {w}, HasCopy(x)' PROVE CopyFollows(worker[x])'
    <2>1. PICK u \in HandlerStates : u = worker[x] /\ u = worker'[x]
        BY <1>4, <1>11, HandlerType DEF TypeInv, DevicesTypeOK
    <2>2. HasCopy(x) /\ CopyFollows(u) /\ u.row \in Rows
        BY <1>11, <2>1, HandlerType DEF AddressInv, HasCopy
    <2>3. ASSUME NEW o \in {u.row.v4, u.row.v6} PROVE Follows(u.row, o) => Follows(u.row, o)'
        <3>1. CASE o # a
            <4>1. PICK r \in Rows : r = u.row
                BY <2>2
            <4>2. o \in {r.v4, r.v6}
                BY <4>1
            <4> QED BY <1>91, <3>1, <4>1, <4>2
        <3>2. CASE o = a
            <4>1. u.row[f] = a
                BY <1>9, <2>2, <2>3, <3>2
            <4>2. a \in disputed'
                BY <1>5, <2>1, <2>2, <4>1
            <4> QED BY <3>2, <4>2 DEF Follows
        <3> QED BY <3>1, <3>2
    <2>4. CopyFollows(u)'
        BY <2>2, <2>3 DEF CopyFollows
    <2> QED BY <2>1, <2>4
<1>12. CopyFollows(worker[w])'
    <2>1. worker'[w] = s
        BY <1>4 DEF TypeInv, DevicesTypeOK
    <2>2. CopyFollows(t)
        BY <1>1, <1>4 DEF AddressInv, HasCopy
    <2>3. c # None => BelongsTo(s.row, c)
        BY <1>3, <1>4, <2>2 DEF CopyFollows, Applied, LeaseClient, BelongsTo
    <2>4. Follows(s.row, a)'
        BY <1>8, <2>3 DEF Follows, BelongsTo
    <2>5. ASSUME NEW o \in {s.row.v4, s.row.v6}, Follows(s.row, o) PROVE Follows(s.row, o)'
        <3>1. CASE o # a
            <4>1. PICK r \in Rows : r = s.row
                BY <1>4
            <4>2. o \in {r.v4, r.v6}
                BY <4>1
            <4> QED BY <1>91, <2>5, <3>1, <4>1, <4>2
        <3> QED BY <2>4, <3>1
    <2>6. CASE f = "v4"
        <3>1. s.row.v4 = a /\ s.pc = "clear6" /\ t.pc = "clear4"
            BY <1>3, <1>4, <2>6 DEF Rows
        <3>2. Follows(s.row, s.row.v4)'
            BY <2>4, <3>1
        <3> QED BY <1>4, <2>1, <2>2, <2>5, <3>1, <3>2 DEF CopyFollows
    <2>7. CASE f = "v6"
        <3>1. s.row.v6 = a /\ s.pc = "write" /\ t.pc = "clear6"
            BY <1>3, <1>4, <2>7 DEF Rows
        <3>2. Follows(s.row, s.row.v6)'
            BY <2>4, <3>1
        <3>3. Follows(s.row, s.row.v4)
            BY <1>4, <2>2, <3>1 DEF CopyFollows
        <3> QED BY <1>4, <2>1, <2>2, <2>5, <3>1, <3>2, <3>3 DEF CopyFollows
    <2> QED BY <2>6, <2>7
<1>13. ASSUME NEW o \in V4 PROVE owner'[o] \notin Duids
    <2>1. CASE o = a
        <3>1. t.lease.v4 = a
            <4>1. f = "v6" => t.row[f] \in V6 \cup {None}
                BY <1>4 DEF Rows
            <4>2. f = "v4"
                BY <1>3, <1>4, <2>1, <4>1, ClientAssumption
            <4> QED BY <1>4, <4>2 DEF Leases, NoLease
        <3>2. t.lease.mac \in Macs \cup {None} /\ t.lease.duid = None
            BY <1>4, <3>1, ClientAssumption DEF Leases, NoLease
        <3> QED BY <1>3, <1>8, <2>1, <3>2, ClientAssumption DEF LeaseClient
    <2>2. CASE o # a
        <3>1. owner'[o] = owner[o]
            BY <1>5, <2>2, TableType DEF Addresses
        <3> QED BY <3>1 DEF AddressInv
    <2> QED BY <2>1, <2>2
<1> QED BY <1>10, <1>11, <1>12, <1>13 DEF AddressInv

(* The copy has no address of family f, or one that no lease brought: the rows
   lose it and nobody gains it. *)
LEMMA AddressStays ==
    ASSUME TypeInv, AddressInv, NEW w \in Workers,
           NEW f \in {"v4", "v6"}, NEW pc \in {"clear4", "clear6"}, NEW next \in {"clear6", "write"},
           f = "v4" => pc = "clear4" /\ next = "clear6", f = "v6" => pc = "clear6" /\ next = "write",
           RemoveExistingIp(w, f, pc, next), worker[w].row[f] = None \/ worker[w].lease[f] # worker[w].row[f]
    PROVE  AddressInv'
<1>1. PICK t \in HandlerStates : t = worker[w]
    BY HandlerType
<1>2. PICK s : s = [t EXCEPT !.pc = next]
    OBVIOUS
<1>3. /\ s.row = t.row /\ s.lease = t.lease /\ s.pc = next /\ t.pc = pc /\ worker' = [worker EXCEPT ![w] = s]
      /\ t.row \in Rows /\ t.lease \in Leases \cup {NoLease}
    BY <1>1, <1>2 DEF RemoveExistingIp, HandlerStates
<1>4. /\ devices' = devices /\ UNCHANGED <<owner, disputed>>
      /\ dev' = dev \/ dev' = WithoutAddress(f, t.row[f])
    BY <1>1 DEF RemoveExistingIp, NoteOwner
<1>5. \A r, o : Follows(r, o)' <=> Follows(r, o)
    BY <1>4 DEF Follows, BelongsTo
<1>6. ASSUME NEW i \in devices' PROVE RowFollows(dev[i])'
    <2>1. PICK r \in Rows, q \in Rows : r = dev[i] /\ q = dev'[i]
        BY <1>4, <1>6, TableType, WithoutType
    <2>2. /\ q.mac = r.mac /\ q.duid = r.duid /\ q.v4 \in {r.v4, None} /\ q.v6 \in {r.v6, None}
        BY <1>4, <1>6, <2>1, TableType, WithoutRow
    <2>3. RowFollows(r)
        BY <1>4, <1>6, <2>1 DEF AddressInv
    <2>4. Follows(q, q.v4) /\ Follows(q, q.v6)
        BY <2>2, <2>3 DEF RowFollows, Follows, BelongsTo
    <2>5. Follows(q, q.v4)' /\ Follows(q, q.v6)'
        BY <1>5, <2>4
    <2> QED BY <2>1, <2>5 DEF RowFollows
<1>7. ASSUME NEW x \in Workers \ {w}, HasCopy(x)' PROVE CopyFollows(worker[x])'
    <2>1. PICK u \in HandlerStates : u = worker[x] /\ u = worker'[x]
        BY <1>3, <1>7, HandlerType DEF TypeInv, DevicesTypeOK
    <2>2. CopyFollows(u)
        BY <1>7, <2>1, HandlerType DEF AddressInv, HasCopy
    <2>3. CopyFollows(u)'
        BY <1>5, <2>2 DEF CopyFollows
    <2> QED BY <2>1, <2>3
<1>8. CopyFollows(worker[w])'
    <2>1. worker'[w] = s
        BY <1>3 DEF TypeInv, DevicesTypeOK
    <2>2. CopyFollows(t)
        BY <1>1, <1>3 DEF AddressInv, HasCopy
    <2>3. CASE f = "v4"
        <3>1. t.row.v4 = None \/ t.lease.v4 # t.row.v4
            BY <1>1, <1>3, <2>3 DEF Rows, Leases, NoLease
        <3>2. Follows(t.row, t.row.v4)
            BY <2>2, <3>1 DEF CopyFollows, Applied, Follows
        <3>3. CopyFollows(s)
            BY <1>3, <2>2, <2>3, <3>2 DEF CopyFollows
        <3>4. CopyFollows(s)'
            BY <1>5, <3>3 DEF CopyFollows
        <3> QED BY <2>1, <3>4
    <2>4. CASE f = "v6"
        <3>1. t.row.v6 = None \/ t.lease.v6 # t.row.v6
            BY <1>1, <1>3, <2>4 DEF Rows, Leases, NoLease
        <3>2. Follows(t.row, t.row.v6)
            BY <2>2, <3>1 DEF CopyFollows, Applied, Follows
        <3>3. CopyFollows(s)
            BY <1>3, <2>2, <2>4, <3>2 DEF CopyFollows
        <3>4. CopyFollows(s)'
            BY <1>5, <3>3 DEF CopyFollows
        <3> QED BY <2>1, <3>4
    <2> QED BY <2>3, <2>4
<1> QED BY <1>4, <1>6, <1>7, <1>8 DEF AddressInv

(* Row i becomes the copy of w, which has settled both families. *)
LEMMA AddressWrite ==
    ASSUME TypeInv, AddressInv, NEW w \in Workers, worker[w].pc = "write", UNCHANGED <<owner, disputed>>,
           NEW s, worker' = [worker EXCEPT ![w] = s], s.pc = "bump",
           NEW i \in Ids, dev' = [dev EXCEPT ![i] = worker[w].row], devices' \subseteq devices \cup {i}
    PROVE  AddressInv'
<1>1. \A r, o : Follows(r, o)' <=> Follows(r, o)
    BY DEF Follows, BelongsTo
<1>2. ASSUME NEW j \in devices' PROVE RowFollows(dev[j])'
    <2>1. PICK q : q = dev'[j]
        OBVIOUS
    <2>2. RowFollows(q)
        <3>1. CASE j = i
            <4>1. q = worker[w].row
                BY <2>1, <3>1, TableType
            <4>2. CopyFollows(worker[w])
                BY DEF AddressInv, HasCopy
            <4> QED BY <4>1, <4>2 DEF CopyFollows, RowFollows
        <3>2. CASE j # i
            <4>1. j \in devices /\ q = dev[j]
                BY <1>2, <2>1, <3>2, TableType
            <4> QED BY <4>1 DEF AddressInv
        <3> QED BY <3>1, <3>2
    <2>3. RowFollows(q)'
        BY <1>1, <2>2 DEF RowFollows
    <2> QED BY <2>1, <2>3
<1>3. ASSUME NEW x \in Workers, HasCopy(x)' PROVE CopyFollows(worker[x])'
    <2>1. HasCopy(x) /\ worker'[x] = worker[x]
        BY <1>3, MovesOn
    <2>2. PICK u : u = worker[x] /\ u = worker'[x]
        BY <2>1
    <2>3. CopyFollows(u)
        BY <2>1, <2>2 DEF AddressInv
    <2>4. CopyFollows(u)'
        BY <1>1, <2>3 DEF CopyFollows
    <2> QED BY <2>2, <2>4
<1> QED BY <1>2, <1>3 DEF AddressInv

LEMMA AddressInserts == ASSUME TypeInv, AddressInv, NEW w \in Workers, Inserts(w) PROVE AddressInv'
<1>1. PICK s, i : s = [worker[w] EXCEPT !.pc = "bump"] /\ i = nextId
    OBVIOUS
<1>2. /\ worker' = [worker EXCEPT ![w] = s] /\ devices' = devices \cup {i} /\ worker[w].pc = "write"
      /\ dev' = [dev EXCEPT ![i] = worker[w].row] /\ UNCHANGED <<owner, disputed>>
    BY <1>1 DEF Inserts, InsertDevice
<1>3. TypeInv'
    BY InsertType DEF Inserts
<1>4. i \in Ids
    BY <1>2, <1>3 DEF TypeInv, DevicesTypeOK
<1>5. s.pc = "bump"
    BY <1>1, GotoState
<1> QED BY <1>2, <1>4, <1>5, AddressWrite

LEMMA AddressUpdates == ASSUME TypeInv, AddressInv, NEW w \in Workers, Updates(w) PROVE AddressInv'
<1>1. PICK s, i : s = [worker[w] EXCEPT !.pc = "bump"] /\ i = worker[w].id
    OBVIOUS
<1>2. /\ worker' = [worker EXCEPT ![w] = s] /\ devices' = devices /\ i \in devices /\ worker[w].pc = "write"
      /\ dev' = [dev EXCEPT ![i] = worker[w].row] /\ UNCHANGED <<owner, disputed>>
    BY <1>1 DEF Updates, UpdateDevice
<1>3. i \in Ids
    BY <1>2, TableType
<1>4. s.pc = "bump"
    BY <1>1, GotoState
<1> QED BY <1>2, <1>3, <1>4, AddressWrite

LEMMA AddressStep == TypeInv /\ AddressInv /\ [Next]_vars => AddressInv'
<1> SUFFICES ASSUME TypeInv, AddressInv, [Next]_vars PROVE AddressInv'
    OBVIOUS
<1>1. CASE UNCHANGED vars
    BY <1>1 DEF vars, table, history, AddressInv, RowFollows, CopyFollows, Follows, BelongsTo, HasCopy
<1>2. ASSUME NEW w \in Workers, Stops(w) PROVE AddressInv'
    <2>1. PICK s : worker' = [worker EXCEPT ![w] = s] /\ s.pc \notin Copying
        BY <1>2 DEF Stops
    <2>2. /\ devices' \subseteq devices /\ dev' = dev /\ disputed' = disputed
          /\ \A a \in Addresses : owner'[a] \in {owner[a], None}
        BY <1>2 DEF Stops, history
    <2> QED BY <2>1, <2>2, AddressCopy
<1>3. ASSUME NEW w \in Workers, NEW i \in devices, FoundByMac(w, i) PROVE AddressInv'
    BY <1>3, AddressFound DEF FoundByMac
<1>4. ASSUME NEW w \in Workers, FindByDuid(w) PROVE AddressInv'
    <2>1. UNCHANGED <<devices, dev, disputed>> /\ (NotFound(w) \/ \E i \in devices : Found(w, i))
        BY <1>4 DEF FindByDuid, table
    <2> QED BY <2>1, AddressFound, AddressNotFound
<1>5. ASSUME NEW w \in Workers, FindFails(w) PROVE AddressInv'
    BY <1>5, AddressNotFound DEF FindFails, table
<1>6. ASSUME NEW w \in Workers, RemoveExistingIp(w, "v4", "clear4", "clear6") PROVE AddressInv'
    BY <1>6, AddressChanges, AddressStays
<1>7. ASSUME NEW w \in Workers, RemoveExistingIp(w, "v6", "clear6", "write") PROVE AddressInv'
    BY <1>7, AddressChanges, AddressStays
<1>8. ASSUME NEW w \in Workers, NEW b \in Bodies, (FindForPut(w, b) /\ worker[w].id \in devices) \/ Post(w, b)
      PROVE  AddressInv'
    BY <1>8, AddressUser
<1>9. ASSUME NEW w \in Workers, Inserts(w) \/ Updates(w) PROVE AddressInv'
    BY <1>9, AddressInserts, AddressUpdates
<1> QED BY <1>1, <1>2, <1>3, <1>4, <1>5, <1>6, <1>7, <1>8, <1>9, StepCases DEF Copies

(* remove_existing_ips and the write are separate statements of concurrent
   handlers, yet a row keeps an address only as long as it is leased to the
   client of the row: the exceptions are a copy somebody held when the address
   was leased, what users assigned or mixed up, a lease that names nobody, and
   the other address of a row taken over by another MAC with the same DUID. *)
THEOREM AddressesFollowLeases == Spec => []AddressFollowsLease
<1>1. Init => AddressInv
    BY ClientAssumption DEF Init, AddressInv, HasCopy, Idle, Addresses
<1>2. AddressInv => AddressFollowsLease
    BY DEF AddressInv, RowFollows, Follows, AddressFollowsLease
<1> QED BY <1>1, <1>2, TypeAlways, AddressStep, PTL DEF Spec
=============================================================================
