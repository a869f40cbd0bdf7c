--------------------------- MODULE DeviceContext ----------------------------
(***************************************************************************)
(* What the handlers of devices do besides writing the device: they load   *)
(* its room, and they report it to the Neo4Things service.  Composes Rooms *)
(* and Things with the handlers of POST, PUT and DELETE /devices, leases   *)
(* and logs.                                                               *)
(*                                                                         *)
(* Of a device row only the room, collect_info and the identity (the MAC   *)
(* address, or else the DUID) are kept.  The other columns, addresses      *)
(* among them, and the MUD profile are the subject of DeviceInventory and  *)
(* ConfigSync.                                                             *)
(***************************************************************************)
EXTENDS Rooms, Things

CONSTANTS
    Devices,        \* ids; one is not given out again
    None,
    Workers,        \* tasks that can run a device handler at the same time
    OldNames,       \* names of the rooms that exist at the start
    NamedRooms,     \* bound: rooms that requests on devices name
    MaxRequests,    \* bound: requests, leases and log lines
    MaxFaults       \* bound: restarts, outages, lost answers and failing statements

ASSUME ContextAssumption ==
    /\ None \notin Devices
    /\ OldNames \subseteq Names /\ IsFiniteSet(OldNames) /\ Cardinality(OldNames) <= MaxRooms
    /\ NamedRooms \subseteq RoomIds
    /\ MaxRequests \in Nat /\ MaxFaults \in Nat

VARIABLES
    dev,            \* device rows
    dh,             \* the handler each task runs
    excused,        \* history: devices whose report was skipped or lost, or
                    \* whose identity was changed
    requests, faults

bounds == <<requests, faults>>
vars == <<name, nextRoom, rh, things, up, tasks, spawned, missed, disturbed,
          dev, dh, excused, requests, faults>>

AnyKey == Keys \cup {NoKey}
Row == [state: {"new", "row", "gone"}, room: RoomIds \cup {NoRoom}, collect: BOOLEAN, key: AnyKey]
NoRow == [state |-> "new", room |-> NoRoom, collect |-> FALSE, key |-> NoKey]
IdleDevice == [op |-> "post", pc |-> "idle", d |-> None, row |-> NoRow, before |-> FALSE,
               want |-> "keep", rekey |-> FALSE, guess |-> FALSE]

Wishes == {"on", "off", "keep"}     \* collect_info of a request

(* before: collect_info_before.  rekey: the request names an identity. *)
DeviceHandlers == [op: {"post", "put", "lease"},
                   pc: {"idle", "find", "load", "write", "report"},
                   d: Devices \cup {None}, row: Row, before: BOOLEAN, want: Wishes,
                   rekey: BOOLEAN, guess: BOOLEAN]

(* Every variable holds a value of its kind, and the room of a device exists:
   the foreign key is set to NULL when the room is deleted. *)
ContextTypeOK ==
    /\ RoomTypeOK /\ ThingTypeOK
    /\ dev \in [Devices -> Row] /\ dh \in [Workers -> DeviceHandlers]
    /\ \A d \in Devices : dev[d].room = NoRoom \/ name[dev[d].room] # NoName
    /\ excused \subseteq Devices
    /\ requests \in 0..MaxRequests /\ faults \in 0..MaxFaults

Init ==
    /\ RoomInit(OldNames) /\ ThingInit
    /\ dev = [d \in Devices |-> NoRow]
    /\ dh = [w \in Workers |-> IdleDevice]
    /\ excused = {} /\ requests = 0 /\ faults = 0

-----------------------------------------------------------------------------
Request ==
    /\ requests < MaxRequests
    /\ requests' = requests + 1
    /\ UNCHANGED faults

Fault ==
    /\ faults < MaxFaults
    /\ faults' = faults + 1
    /\ UNCHANGED requests

DeviceReturn(w) == dh' = [dh EXCEPT ![w] = IdleDevice]
Found(row) == row.room = NoRoom \/ name[row.room] # NoName

(* The statement that comes after the row is in hand: load_refs looks for a room
   if there is one. *)
AfterRow(row) == IF row.room = NoRoom THEN "write" ELSE "load"

(* A row to insert is in hand. *)
NewDevice(r, collect, k) ==
    LET row == [state |-> "row", room |-> r, collect |-> collect, key |-> k]
    IN  [IdleDevice EXCEPT !.op = "post", !.pc = AfterRow(row), !.row = row]

(* A copy of the row of d, changed to row, is in hand. *)
ChangedDevice(s, d, row) ==
    [s EXCEPT !.pc = AfterRow(row), !.d = d, !.row = row, !.before = dev[d].collect,
              !.want = "keep", !.rekey = FALSE]

(* POST /devices: collect_info as asked for, or on if there is no MUD-URL. *)
BeginPost(w, r, collect, k) ==
    /\ dh[w].pc = "idle"
    /\ Request
    /\ dh' = [dh EXCEPT ![w] = NewDevice(r, collect, k)]
    /\ UNCHANGED <<roomVars, thingVars, dev, excused>>

(* PUT /devices/{id}, with a room or none, and with an identity or none (a MAC
   address that cannot be parsed takes the old one away).  guess stands for
   mud_url_from_guess and a device that has a MUD-URL.  An id that was not
   given out yet is answered with 404 like one that is gone. *)
BeginPut(w, d, r, want, rekey, k, guess) ==
    /\ dh[w].pc = "idle"
    /\ dev[d].state # "new" /\ (rekey \/ k = NoKey)
    /\ Request
    /\ dh' = [dh EXCEPT ![w] = [IdleDevice EXCEPT !.op = "put", !.pc = "find", !.d = d,
                                    !.row = [NoRow EXCEPT !.room = r, !.key = k], !.want = want,
                                    !.rekey = rekey, !.guess = guess]]
    /\ UNCHANGED <<roomVars, thingVars, dev, excused>>

(* find_device and apply_to: 404, or a copy of the row with what is asked. *)
Find(w) ==
    LET d == dh[w].d
        row == [dev[d] EXCEPT !.room = IF dh[w].row.room = NoRoom THEN @ ELSE dh[w].row.room,
                              !.collect = IF dh[w].want = "keep" THEN @ ELSE dh[w].want = "on",
                              !.key = IF dh[w].rekey THEN dh[w].row.key ELSE @]
    IN  /\ dh[w].pc = "find" /\ dh[w].op = "put"
        /\ IF dev[d].state # "row" THEN DeviceReturn(w)
           ELSE dh' = [dh EXCEPT ![w] = ChangedDevice(dh[w], d, row)]
        /\ UNCHANGED <<roomVars, thingVars, dev, excused, bounds>>

(* upsert_device_from_dhcp_lease.  k is the MAC address of the lease, or its
   DUID, or neither; collect is whether it has no MUD-URL and data of new devices is to be
   collected. *)
BeginLease(w, k, collect) ==
    /\ dh[w].pc = "idle"
    /\ Request
    /\ dh' = [dh EXCEPT ![w] = [IdleDevice EXCEPT !.op = "lease", !.pc = "find",
                                    !.row = [NoRow EXCEPT !.collect = collect, !.key = k]]]
    /\ UNCHANGED <<roomVars, thingVars, dev, excused>>

(* find_by_mac_or_duid and apply.  A row is found by its identity or by the DUID
   it has beside its MAC address, which is not kept here: it may be any row.
   The MAC address of the lease becomes that of the row. *)
LeaseFind(w) ==
    LET k == dh[w].row.key
    IN  /\ dh[w].pc = "find" /\ dh[w].op = "lease"
        /\ \/ \E d \in Devices : \E key \in {k, dev[d].key} :
                 /\ dev[d].state = "row" /\ dev[d].key # NoKey /\ k # NoKey
                 /\ dh' = [dh EXCEPT ![w] = ChangedDevice(dh[w], d, [dev[d] EXCEPT !.key = key])]
           \/ /\ \A d \in Devices : dev[d].key # k \/ k = NoKey
              /\ dh' = [dh EXCEPT ![w] = NewDevice(NoRoom, dh[w].row.collect, k)]
        /\ UNCHANGED <<roomVars, thingVars, dev, excused, bounds>>

(* A failing lookup counts as a device that is not there. *)
LeaseFindFails(w) ==
    /\ dh[w].pc = "find" /\ dh[w].op = "lease"
    /\ Fault
    /\ dh' = [dh EXCEPT ![w] = NewDevice(NoRoom, dh[w].row.collect, dh[w].row.key)]
    /\ UNCHANGED <<roomVars, thingVars, dev, excused>>

(* load_refs: a room that is gone is an error. *)
LoadRoom(w) ==
    /\ dh[w].pc = "load"
    /\ IF Found(dh[w].row) THEN dh' = [dh EXCEPT ![w].pc = "write"]
       ELSE DeviceReturn(w)
    /\ UNCHANGED <<roomVars, thingVars, dev, excused, bounds>>

(* A report that fails at once: add_device without an identity. *)
Excuse(d, k, reported) == excused' = IF reported /\ k \in Keys THEN excused ELSE excused \cup {d}

New == {d \in Devices : dev[d].state = "new"}

InsertRow(d, row) ==
    /\ dev' = [dev EXCEPT ![d] = row]
    /\ IF row.collect THEN Spawn("add", row.key) /\ Excuse(d, row.key, TRUE)
       ELSE UNCHANGED <<tasks, spawned, excused>>

(* insert_device reports the device before the version is bumped.  An INSERT
   without a room, or when Devices has no more ids, fails. *)
Insert(w) ==
    /\ dh[w].pc = "write" /\ dh[w].op = "post"
    /\ IF Found(dh[w].row) /\ New # {} THEN \E d \in New : InsertRow(d, dh[w].row)
       ELSE UNCHANGED <<dev, tasks, spawned, excused>>
    /\ DeviceReturn(w)
    /\ UNCHANGED <<roomVars, things, up, missed, disturbed, bounds>>

(* update_device writes the whole copy; a row that is gone is not an error.  A
   lease ends here. *)
Update(w) ==
    LET d == dh[w].d
    IN  /\ dh[w].pc = "write" /\ dh[w].op \in {"put", "lease"}
        /\ IF dev[d].state # "row" \/ Found(dh[w].row)
           THEN /\ dev' = IF dev[d].state = "row" THEN [dev EXCEPT ![d] = dh[w].row] ELSE dev
                /\ excused' = IF dev[d].state = "row" /\ dev[d].key = dh[w].row.key THEN excused
                              ELSE excused \cup {d}
                /\ IF dh[w].op = "put" THEN dh' = [dh EXCEPT ![w].pc = "report"]
                   ELSE DeviceReturn(w)
           ELSE DeviceReturn(w) /\ UNCHANGED <<dev, excused>>
        /\ UNCHANGED <<roomVars, thingVars, bounds>>

(* Mutant: what was before is read from the row after the UPDATE. *)
M_NewlyCollected(w) == dh[w].row.collect /\ ~dev[dh[w].d].collect

NewlyCollected(w) == dh[w].row.collect /\ ~dh[w].before

(* The end of PUT, when the version is bumped: a guess is reported, and only
   otherwise the device. *)
Report(w) ==
    LET d == dh[w].d
        k == dh[w].row.key
    IN  /\ dh[w].pc = "report"
        /\ \/ /\ dh[w].guess
              /\ Spawn("describe", k)
              /\ IF NewlyCollected(w) THEN Excuse(d, k, FALSE) ELSE UNCHANGED excused
           \/ /\ ~dh[w].guess /\ NewlyCollected(w)
              /\ Spawn("add", k) /\ Excuse(d, k, TRUE)
           \/ /\ ~dh[w].guess /\ ~NewlyCollected(w)
              /\ UNCHANGED <<tasks, spawned, excused>>
        /\ DeviceReturn(w)
        /\ UNCHANGED <<roomVars, things, up, missed, disturbed, dev, bounds>>

(* A failing statement ends the handler; if it is the bump after the UPDATE,
   nothing is reported. *)
HandlerFails(w) ==
    /\ dh[w].pc # "idle"
    /\ dh[w].pc = "find" => dh[w].op = "put"
    /\ Fault
    /\ IF dh[w].pc = "report" /\ NewlyCollected(w)
       THEN Excuse(dh[w].d, dh[w].row.key, FALSE) ELSE UNCHANGED excused
    /\ DeviceReturn(w)
    /\ UNCHANGED <<roomVars, thingVars, dev>>

(* DELETE /devices/{id}. *)
DeleteDevice(d) ==
    /\ dev[d].state = "row"
    /\ Request
    /\ dev' = [dev EXCEPT ![d] = [NoRow EXCEPT !.state = "gone"]]
    /\ excused' = excused \cup {d}
    /\ UNCHANGED <<roomVars, thingVars, dh>>

DeviceStep(w) ==
    \/ Find(w) \/ LeaseFind(w) \/ LoadRoom(w) \/ Insert(w) \/ Update(w) \/ Report(w)

-----------------------------------------------------------------------------
(* Rooms and logs. *)

BeginRoomRequest(w, op, r, n) ==
    /\ BeginRoom(w, op, r, n)
    /\ Request
    /\ UNCHANGED <<thingVars, dev, dh, excused>>

(* Mutant: the rooms of devices stay. *)
M_Detach(w) == UNCHANGED dev

(* ON DELETE SET NULL. *)
Detach(w) ==
    dev' = [d \in Devices |-> IF dev[d].room \in Hit(w) THEN [dev[d] EXCEPT !.room = NoRoom]
                              ELSE dev[d]]

(* No room request bumps the config version. *)
DeleteRoom(w) ==
    /\ RoomDelete(w) /\ Detach(w)
    /\ UNCHANGED <<thingVars, dh, excused, bounds>>

RoomRequestStep(w) ==
    /\ RoomStep(w)
    /\ UNCHANGED <<thingVars, dev, dh, excused, bounds>>

RoomStatementFails(w) ==
    /\ RoomCheckFails(w) \/ RoomFails(w)
    /\ Fault
    /\ UNCHANGED <<thingVars, dev, dh, excused>>

(* A line about a DNS query: the connection is reported for a device that has
   the address (find_by_ip), under the identity it has now. *)
Log(d) ==
    /\ dev[d].state = "row"
    /\ Request
    /\ Spawn("connection", dev[d].key)
    /\ UNCHANGED <<roomVars, things, up, missed, disturbed, dev, dh, excused>>

-----------------------------------------------------------------------------
(* The service and the background tasks. *)

TaskStep ==
    /\ Round \/ \E t \in tasks : Attempt(t) \/ AttemptFails(t)
    /\ UNCHANGED <<roomVars, dev, dh, excused, bounds>>

Disturbance ==
    /\ ServiceGoes \/ \E t \in tasks : AnswerLost(t)
    /\ Fault
    /\ UNCHANGED <<roomVars, dev, dh, excused>>

Recovery ==
    /\ ServiceReturns
    /\ UNCHANGED <<roomVars, dev, dh, excused, bounds>>

(* The controller is started again: handlers and background tasks are gone. *)
Restart ==
    /\ Fault
    /\ rh' = [w \in RoomWorkers |-> IdleRoom]
    /\ dh' = [w \in Workers |-> IdleDevice]
    /\ TasksDie
    /\ excused' = excused \cup {dh[w].d : w \in {v \in Workers : dh[v].pc = "report"}}
    /\ UNCHANGED <<name, nextRoom, dev>>

(* The bound is reached, and everything that was begun is done. *)
AllDone ==
    /\ requests = MaxRequests /\ tasks = {}
    /\ \A w \in Workers : dh[w].pc = "idle"
    /\ \A w \in RoomWorkers : rh[w].pc = "idle"
    /\ UNCHANGED vars

Next ==
    \/ \E w \in Workers, r \in NamedRooms \cup {NoRoom}, k \in AnyKey :
          \/ \E collect \in BOOLEAN : BeginPost(w, r, collect, k)
          \/ \E d \in Devices, want \in Wishes, rekey, guess \in BOOLEAN :
                BeginPut(w, d, r, want, rekey, k, guess)
    \/ \E w \in Workers, k \in AnyKey, collect \in BOOLEAN : BeginLease(w, k, collect)
    \/ \E w \in Workers : DeviceStep(w) \/ HandlerFails(w) \/ LeaseFindFails(w)
    \/ \E d \in Devices : DeleteDevice(d) \/ Log(d)
    \/ \E w \in RoomWorkers :
          \/ \E n \in Names : \/ BeginRoomRequest(w, "create", NoRoom, n)
                             \/ \E r \in RoomIds : BeginRoomRequest(w, "update", r, n)
          \/ \E r \in RoomIds : BeginRoomRequest(w, "delete", r, NoName)
          \/ RoomRequestStep(w) \/ DeleteRoom(w) \/ RoomStatementFails(w)
    \/ TaskStep \/ Disturbance \/ Recovery \/ Restart \/ AllDone

Spec == Init /\ [][Next]_vars

-----------------------------------------------------------------------------
(* A PUT that turned collecting on for d has not yet come to its end. *)
StillToReport(d) ==
    \E w \in Workers : /\ dh[w].pc = "report" /\ dh[w].d = d
                       /\ dh[w].row.collect /\ ~dh[w].before

(* A device about which data is collected is known to the service, under the
   identity it has, or on its way there, whatever PUTs and leases overlap on
   copies of its row.  It is not if it has neither MAC nor DUID, if one of
   them was changed so that its identity is another one, if collecting was
   turned on by the PUT that chose a guessed MUD-URL, if the version could not
   be bumped after the UPDATE, if the controller was restarted, or if the
   service was away too long. *)
CollectedIsReported ==
    \A d \in Devices \ excused :
        dev[d].state = "row" /\ dev[d].collect =>
            Adding(dev[d].key) \/ dev[d].key \in missed \/ StillToReport(d)
=============================================================================
