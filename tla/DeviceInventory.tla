-------------------------- MODULE DeviceInventory ---------------------------
(***************************************************************************)
(* The table devices: DHCP leases (upsert_device_from_dhcp_lease) and the  *)
(* REST operations on devices run as concurrent handlers that read a row,  *)
(* change their copy and write the whole row back, one statement per step. *)
(*                                                                         *)
(* A row keeps what identifies a device (MAC, DUID), its addresses and one *)
(* value for the fields only users set (name, room, clipart).  A MAC names *)
(* a network interface and a DUID a host, which may have several; leases   *)
(* bring them in any combination.  What load_refs does to MUD rows is the  *)
(* subject of MudService; that it fails is a fault here.  The two          *)
(* statements of update_config_version are one step, see ConfigSync.       *)
(***************************************************************************)
EXTENDS Integers, FiniteSets

CONSTANTS
    Macs, Duids, V4, V6, None,
    Unparsable,     \* a string in a request that is not an address
    Workers,        \* handlers that can run at the same time
    MaxRequests,    \* bound: leases and REST calls; each is numbered
    MaxFields,      \* bound: identifying fields in one REST request
    MaxFaults       \* bound: failing statements

ASSUME ClientAssumption ==
    /\ None \notin Macs \cup Duids \cup V4 \cup V6
    /\ Unparsable \notin Macs \cup Duids \cup V4 \cup V6 \cup {None}
    /\ V4 \cap V6 = {} /\ Macs \cap Duids = {}
ASSUME DeviceBounds == MaxRequests \in Nat /\ MaxFields \in Nat /\ MaxFaults \in Nat

VARIABLES
    devices,        \* ids that have a row
    dev,            \* the rows
    nextId,         \* AUTOINCREMENT: ids are not used again
    unannounced,    \* ids written since the config version was last bumped
    worker,
    requests, faults,
    owner,          \* history: the MAC, or else the DUID, an address was last
                    \* leased to; None when the lease had neither, a user
                    \* assigned it or a lease took the row over, see TakenOver
    disputed,       \* history: addresses a handler had in its copy when they were leased
    overlapped,     \* history: MACs for which a second handler was adding a row
    acked,          \* history: the user fields of an id as last stored by a user
    raced           \* history: ids of which a handler had a copy at that time

table == <<devices, dev, nextId>>
history == <<owner, disputed, overlapped, acked, raced>>
vars == <<table, unannounced, worker, requests, faults, history>>

Ids == 1..MaxRequests
NewDevice == 0      \* the id of a device that has no row yet
Addresses == V4 \cup V6
Clients == Macs \cup Duids
Rows == [mac: Macs \cup {None}, duid: Duids \cup {None},
         v4: V4 \cup {None}, v6: V6 \cup {None}, user: Nat]
NoRow == [mac |-> None, duid |-> None, v4 |-> None, v6 |-> None, user |-> 0]

(* DhcpLeaseInformation: mac_address is optional, and only a v6 lease has a
   DUID. *)
Leases == [mac: Macs \cup {None}, duid: {None}, v4: V4, v6: {None}]
          \cup [mac: Macs \cup {None}, duid: Duids, v4: {None}, v6: V6]

(* DeviceCreationUpdateDto: the fields of a request, None where it has none. *)
Bodies == {b \in [mac: Macs \cup {None, Unparsable}, duid: Duids \cup {None},
                  v4: V4 \cup {None, Unparsable}, v6: V6 \cup {None, Unparsable}] :
              Cardinality({f \in DOMAIN b : b[f] # None}) <= MaxFields}
NoLease == [mac |-> None, duid |-> None, v4 |-> None, v6 |-> None]

HandlerStates ==
    [op: {"none", "lease", "put", "post", "delete"},
     pc: {"idle", "findmac", "findduid", "find", "clear4", "clear6", "write", "delete", "bump"},
     id: Ids \cup {NewDevice}, row: Rows, lease: Leases \cup {NoLease}]
Idle == [op |-> "none", pc |-> "idle", id |-> NewDevice, row |-> NoRow, lease |-> NoLease]

(* Every variable holds a value of its kind. *)
DevicesTypeOK ==
    /\ devices \subseteq Ids /\ nextId \in Nat /\ unannounced \subseteq Ids
    /\ dev \in [Ids -> Rows]
    /\ worker \in [Workers -> HandlerStates]
    /\ requests \in Nat /\ faults \in Nat
    /\ owner \in [Addresses -> Clients \cup {None}] /\ disputed \subseteq Addresses
    /\ overlapped \subseteq Macs /\ acked \in [Ids -> Nat] /\ raced \subseteq Ids

Init ==
    /\ devices = {} /\ nextId = 1 /\ unannounced = {}
    /\ dev = [i \in Ids |-> NoRow]
    /\ worker = [w \in Workers |-> Idle]
    /\ requests = 0 /\ faults = 0
    /\ owner = [a \in Addresses |-> None] /\ disputed = {}
    /\ overlapped = {} /\ acked = [i \in Ids |-> 0] /\ raced = {}

-----------------------------------------------------------------------------
(* A handler's copy of a row, taken from the table or made for a new one. *)
HasCopy(w) == worker[w].pc \in {"clear4", "clear6", "write"}

(* The UNIQUE constraints of devices.  NULLs are distinct. *)
Conflicts(r, q) ==
    \/ r.v4 # None /\ r.v4 = q.v4
    \/ r.v6 # None /\ r.v6 = q.v6
    \/ r.mac # None /\ r.duid # None /\ r.mac = q.mac /\ r.duid = q.duid

Unique(i, r) == \A j \in devices \ {i} : ~Conflicts(r, dev[j])

Request ==
    /\ requests < MaxRequests
    /\ requests' = requests + 1

Return(w) == worker' = [worker EXCEPT ![w] = Idle]

(* Mutant: the fields of users are reset. *)
M_apply(r, l) ==
    [NoRow EXCEPT !.v4 = IF l.v4 # None THEN l.v4 ELSE r.v4,
                  !.v6 = IF l.v6 # None THEN l.v6 ELSE r.v6,
                  !.mac = IF l.mac # None THEN l.mac ELSE r.mac,
                  !.duid = IF l.duid # None THEN l.duid ELSE r.duid]

(* Device::apply on a row, or Device::new on an empty one. *)
apply(r, l) ==
    [r EXCEPT !.v4 = IF l.v4 # None THEN l.v4 ELSE @,
              !.v6 = IF l.v6 # None THEN l.v6 ELSE @,
              !.mac = IF l.mac # None THEN l.mac ELSE @,
              !.duid = IF l.duid # None THEN l.duid ELSE @]

-----------------------------------------------------------------------------
(* upsert_device_from_dhcp_lease. *)

BeginLease(w, l) ==
    /\ worker[w].pc = "idle"
    /\ Request
    /\ worker' = [worker EXCEPT ![w] = [Idle EXCEPT !.op = "lease", !.pc = "findmac", !.lease = l]]
    /\ UNCHANGED <<table, unannounced, faults, history>>

LeaseClient(l) == IF l.mac # None THEN l.mac ELSE l.duid

(* The lease found row i by its DUID and gives it another MAC. *)
TakenOver(i, l) == l.mac # None /\ dev[i].mac \notin {l.mac, None}

(* The handler of w goes on with a copy of row i, or with a new row.  The
   addresses of a row that is taken over follow no lease any more. *)
Found(w, i) ==
    /\ worker' = [worker EXCEPT ![w].pc = "clear4", ![w].id = i,
                                ![w].row = apply(dev[i], worker[w].lease)]
    /\ owner' = [a \in Addresses |->
                    IF TakenOver(i, worker[w].lease) /\ a \in {dev[i].v4, dev[i].v6}
                    THEN None ELSE owner[a]]
NotFound(w) ==
    /\ worker' = [worker EXCEPT ![w].pc = "clear4", ![w].id = NewDevice,
                                ![w].row = apply(NoRow, worker[w].lease)]
    /\ UNCHANGED owner

(* Adds the MAC of the lease of w to overlapped if somebody else added, or is
   about to add, a row with it. *)
NoteOverlap(w) ==
    LET c == worker[w].lease.mac
    IN  overlapped' = IF \/ \E i \in devices : dev[i].mac = c
                         \/ \E x \in Workers \ {w} : HasCopy(x) /\ worker[x].row.mac = c
                      THEN overlapped \cup ({c} \ {None})
                      ELSE overlapped

(* Mutant: the row is not looked for. *)
M_FindByMac(w) ==
    /\ worker[w].pc = "findmac"
    /\ NotFound(w)
    /\ UNCHANGED <<table, unannounced, requests, faults, disputed, overlapped, acked, raced>>

(* find_by_mac_or_duid: by MAC, then by DUID. *)
FindByMac(w) ==
    LET matching == {i \in devices : dev[i].mac = worker[w].lease.mac /\ dev[i].mac # None}
    IN  /\ worker[w].pc = "findmac"
        /\ IF matching = {}
           THEN worker' = [worker EXCEPT ![w].pc = "findduid"] /\ UNCHANGED owner
           ELSE \E i \in matching : Found(w, i)
        /\ UNCHANGED <<table, unannounced, requests, faults, disputed, overlapped, acked, raced>>

FindByDuid(w) ==
    LET matching == {i \in devices : dev[i].duid = worker[w].lease.duid /\ dev[i].duid # None}
    IN  /\ worker[w].pc = "findduid"
        /\ IF matching = {} THEN NotFound(w) ELSE \E i \in matching : Found(w, i)
        /\ NoteOverlap(w)
        /\ UNCHANGED <<table, unannounced, requests, faults, disputed, acked, raced>>

(* if let Ok(..): a failing SELECT counts as not found. *)
FindFails(w) ==
    /\ worker[w].pc \in {"findmac", "findduid"}
    /\ faults < MaxFaults
    /\ faults' = faults + 1
    /\ NotFound(w)
    /\ overlapped' = overlapped \cup ({worker[w].lease.mac} \ {None})
    /\ UNCHANGED <<table, unannounced, requests, disputed, acked, raced>>

(* Mutant: no row loses its address. *)
M_WithoutAddress(f, a) == dev

(* remove_existing_ips for one family: every row with the address of the
   handler's copy, its own included, loses it. *)
WithoutAddress(f, a) == [i \in Ids |-> IF i \in devices /\ dev[i][f] = a
                                       THEN [dev[i] EXCEPT ![f] = None] ELSE dev[i]]

(* The address now belongs to the client of the lease of w; nobody else has a
   copy with it, or it is disputed. *)
NoteOwner(w, f, a) ==
    IF worker[w].lease[f] = a
    THEN /\ owner' = [owner EXCEPT ![a] = LeaseClient(worker[w].lease)]
         /\ disputed' = IF \E x \in Workers \ {w} : HasCopy(x) /\ worker[x].row[f] = a
                        THEN disputed \cup {a} ELSE disputed \ {a}
    ELSE UNCHANGED <<owner, disputed>>

RemoveExistingIp(w, f, pc, next) ==
    LET a == worker[w].row[f]
    IN  /\ worker[w].pc = pc
        /\ worker' = [worker EXCEPT ![w].pc = next]
        /\ IF a = None
           THEN UNCHANGED <<dev, unannounced, owner, disputed>>
           ELSE /\ dev' = WithoutAddress(f, a)
                /\ unannounced' = unannounced \cup {i \in devices : dev[i][f] = a}
                /\ NoteOwner(w, f, a)
        /\ UNCHANGED <<devices, nextId, requests, faults, overlapped, acked, raced>>

-----------------------------------------------------------------------------
(* The REST operations on devices. *)

(* PUT /devices/{id}: a user changes the user fields, and maybe the others. *)
BeginPut(w, i) ==
    /\ worker[w].pc = "idle"
    /\ Request
    /\ worker' = [worker EXCEPT ![w] = [Idle EXCEPT !.op = "put", !.pc = "find", !.id = i,
                                                    !.row.user = requests + 1]]
    /\ UNCHANGED <<table, unannounced, faults, history>>

(* Mutant: the string is stored as it is. *)
M_parsed(x) == x

(* parse().ok() *)
parsed(x) == IF x = Unparsable THEN None ELSE x

(* DeviceCreationUpdateDto::apply_to on a row, into_device on an empty one:
   the fields the request has. *)
apply_to(r, b) ==
    [f \in DOMAIN r |-> IF f # "user" /\ b[f] # None THEN parsed(b[f]) ELSE r[f]]

(* A user chose the identity or the addresses of row r: the addresses it has
   follow no lease, and its MAC may have another row. *)
NoteUser(r, b) ==
    /\ owner' = [a \in Addresses |->
                    IF \/ a \in {b.v4, b.v6}
                       \/ {b.mac, b.duid} # {None} /\ a \in {r.v4, r.v6}
                    THEN None ELSE owner[a]]
    /\ overlapped' = overlapped \cup ({b.mac} \cap Macs)

(* find_device: 404 without a row. *)
FindForPut(w, b) ==
    LET i == worker[w].id
    IN  /\ worker[w].pc = "find" /\ worker[w].op = "put"
        /\ IF i \notin devices
           THEN Return(w) /\ UNCHANGED <<owner, overlapped>>
           ELSE /\ worker' = [worker EXCEPT ![w].pc = "write",
                                 ![w].row = [apply_to(dev[i], b) EXCEPT !.user = worker[w].row.user]]
                /\ NoteUser(dev[i], b)
        /\ UNCHANGED <<table, unannounced, requests, faults, disputed, acked, raced>>

(* POST /devices: a MAC that is none is an error. *)
Post(w, b) ==
    /\ worker[w].pc = "idle"
    /\ b.mac # Unparsable
    /\ Request
    /\ worker' = [worker EXCEPT ![w] = [Idle EXCEPT !.op = "post", !.pc = "write",
                     !.row = [apply_to(NoRow, b) EXCEPT !.user = requests + 1]]]
    /\ NoteUser(NoRow, b)
    /\ UNCHANGED <<table, unannounced, faults, disputed, acked, raced>>

(* A user stored the user fields of id i. *)
Acknowledge(w, i) ==
    IF worker[w].op = "lease" THEN UNCHANGED <<acked, raced>>
    ELSE /\ acked' = [acked EXCEPT ![i] = worker[w].row.user]
         /\ raced' = IF \E x \in Workers \ {w} : HasCopy(x) /\ worker[x].id = i
                     THEN raced \cup {i} ELSE raced \ {i}

(* insert_device, update_device: the whole row is written unless a UNIQUE
   constraint refuses it; an UPDATE without a row is no error. *)
InsertDevice(w) ==
    /\ worker[w].pc = "write" /\ worker[w].id = NewDevice
    /\ IF Unique(nextId, worker[w].row)
       THEN /\ devices' = devices \cup {nextId}
            /\ dev' = [dev EXCEPT ![nextId] = worker[w].row]
            /\ nextId' = nextId + 1
            /\ unannounced' = unannounced \cup {nextId}
            /\ acked' = [acked EXCEPT ![nextId] = worker[w].row.user]
            /\ worker' = [worker EXCEPT ![w].pc = "bump"]
       ELSE Return(w) /\ UNCHANGED <<table, unannounced, acked>>
    /\ UNCHANGED <<requests, faults, owner, disputed, overlapped, raced>>

UpdateDevice(w) ==
    LET i == worker[w].id
    IN  /\ worker[w].pc = "write" /\ i # NewDevice
        /\ IF i \in devices /\ ~Unique(i, worker[w].row)
           THEN Return(w) /\ UNCHANGED <<dev, unannounced, acked, raced>>
           ELSE /\ worker' = [worker EXCEPT ![w].pc = "bump"]
                /\ IF i \in devices
                   THEN /\ dev' = [dev EXCEPT ![i] = worker[w].row]
                        /\ unannounced' = unannounced \cup {i}
                        /\ Acknowledge(w, i)
                   ELSE UNCHANGED <<dev, unannounced, acked, raced>>
        /\ UNCHANGED <<devices, nextId, requests, faults, owner, disputed, overlapped>>

(* DELETE /devices/{id}. *)
BeginDelete(w, i) ==
    /\ worker[w].pc = "idle"
    /\ Request
    /\ worker' = [worker EXCEPT ![w] = [Idle EXCEPT !.op = "delete", !.pc = "find", !.id = i]]
    /\ UNCHANGED <<table, unannounced, faults, history>>

FindForDelete(w) ==
    /\ worker[w].pc = "find" /\ worker[w].op = "delete"
    /\ IF worker[w].id \in devices
       THEN worker' = [worker EXCEPT ![w].pc = "delete"]
       ELSE Return(w)
    /\ UNCHANGED <<table, unannounced, requests, faults, history>>

DeleteDevice(w) ==
    /\ worker[w].pc = "delete"
    /\ devices' = devices \ {worker[w].id}
    /\ unannounced' = unannounced \cup (devices \cap {worker[w].id})
    /\ worker' = [worker EXCEPT ![w].pc = "bump"]
    /\ UNCHANGED <<dev, nextId, requests, faults, history>>

Bump(w) ==
    /\ worker[w].pc = "bump"
    /\ unannounced' = {}
    /\ Return(w)
    /\ UNCHANGED <<table, requests, faults, history>>

(* load_refs or a statement fails: the handler ends where it is. *)
HandlerFails(w) ==
    /\ worker[w].pc \notin {"idle", "findmac", "findduid"}
    /\ faults < MaxFaults
    /\ faults' = faults + 1
    /\ Return(w)
    /\ UNCHANGED <<table, unannounced, requests, history>>

(* GET /devices changes no row. *)
GetDevices(w) == worker[w].pc = "idle" /\ UNCHANGED vars

Next ==
    \E w \in Workers :
        \/ \E l \in Leases : BeginLease(w, l)
        \/ FindByMac(w) \/ FindByDuid(w) \/ FindFails(w)
        \/ RemoveExistingIp(w, "v4", "clear4", "clear6")
        \/ RemoveExistingIp(w, "v6", "clear6", "write")
        \/ \E i \in devices : BeginPut(w, i) \/ BeginDelete(w, i)
        \/ \E b \in Bodies : FindForPut(w, b) \/ Post(w, b)
        \/ InsertDevice(w) \/ UpdateDevice(w) \/ FindForDelete(w) \/ DeleteDevice(w)
        \/ Bump(w) \/ HandlerFails(w) \/ GetDevices(w)

Spec == Init /\ [][Next]_vars

-----------------------------------------------------------------------------
(* remove_existing_ips takes a leased address away from whoever had it, so
   that the rules of one device are not applied to another: the row that has
   it names the MAC or the DUID it was last leased to, unless a handler had a
   copy with the address at that moment, a user assigned it or changed what
   identifies the row, the lease named neither, or the lease of another MAC
   with the same DUID took the row over, which keeps its other address. *)
BelongsTo(r, c) == c \in {r.mac, r.duid}

AddressFollowsLease ==
    \A i \in devices : \A a \in {dev[i].v4, dev[i].v6} \ (disputed \cup {None}) :
        owner[a] # None => BelongsTo(dev[i], owner[a])

(* A MAC has one row, although UNIQUE (mac_addr, duid) does not say so when the
   DUID is NULL: a lease adds a second one only if another handler was adding
   one, its lookup failed or a user did. *)
OneRowPerMac ==
    \A i, j \in devices : i # j /\ dev[i].mac = dev[j].mac /\ dev[i].mac # None
                            => dev[i].mac \in overlapped

(* A lease, which writes whole rows back, leaves what users stored alone
   unless it held a copy of the row when the user stored it. *)
UserFieldsKept ==
    \A i \in devices \ raced : dev[i].user = acked[i]
=============================================================================
