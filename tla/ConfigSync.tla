----------------------------- MODULE ConfigSync -----------------------------
(***************************************************************************)
(* How a change of the controller's database reaches the enforcers.        *)
(*                                                                         *)
(* The controller keeps device rows and MUD rows, and one counter, the     *)
(* firewall config version.  Handlers (REST, DHCP leases, the hourly job)  *)
(* change rows and then bump the counter with a read and a write that are  *)
(* two statements.  An enforcer polls with the version it holds and gets   *)
(* a new config only if the counter differs from it.                       *)
(*                                                                         *)
(* A row's content is abstracted to the number of writes it has had; every *)
(* SQL statement is one step, and steps of concurrent handlers interleave. *)
(***************************************************************************)
EXTENDS Integers, FiniteSets

CONSTANTS
    Devices,        \* rows of the table devices
    Muds,           \* rows of mud_data that devices refer to (fetched from an URL)
    Enforcers,      \* connected enforcers
    Workers,        \* tasks that can run a handler at the same time
    Modulus,        \* the version counter is a u64: 2^64 in the code
    AdminVersions,  \* numbers an operator writes through PATCH /config
    MaxRequests,    \* bound: requests, leases, job runs and expirations
    MaxFaults       \* bound: crashes, lost replies, failed statements, operator writes

ASSUME RowsAssumption == Devices \cap Muds = {}
ASSUME ModulusAssumption == Modulus \in Nat /\ Modulus > 1
ASSUME AdminAssumption == AdminVersions \subseteq 0..(Modulus - 1)
ASSUME BoundsAssumption == MaxRequests \in Nat /\ MaxFaults \in Nat

VARIABLES
    rows,           \* how often each row was written
    version,        \* config value FirewallConfigVersion; 0 when the key is absent
    expired,        \* MUD rows whose expiration has passed
    worker,         \* the handler each task runs
    beat,           \* the heartbeat call each enforcer has outstanding
    enf,            \* what each enforcer holds
    unannounced,    \* history: rows changed, since the counter last grew, by a
                    \* handler that will not bump it
    requests,       \* requests and expirations so far
    faults          \* faults so far

vars == <<rows, version, expired, worker, beat, enf, unannounced, requests, faults>>

Rows == Devices \cup Muds
NoNumber == Modulus + 1     \* a string in the config table that is no u64
Versions == 0..(Modulus - 1) \cup {NoNumber}
NoVersion == -1     \* the Option<String> an enforcer sends before its first config

(* The handlers that reach the device and MUD tables:
     read    GET /devices, GET /mud?mud_url: load_refs or get_or_fetch_mud, no bump
     put     POST and PUT /devices
     lease   rpc dhcp_request
     delete  DELETE /devices
     mud     PUT /mud
     job     update_outdated_profiles                                       *)
Ops == {"read", "put", "lease", "delete", "mud", "job"}

Idle == [op |-> "read", pc |-> "idle", todo |-> {}, fetching |-> {}, dirty |-> {}, seen |-> 0]
NoRows == [r \in Rows |-> 0]
NoBeat == [pc |-> "idle", ver |-> NoVersion, cfg |-> NoRows, todo |-> {}, fetching |-> {}, outrun |-> FALSE]
NoConfig == [ver |-> NoVersion, cfg |-> NoRows, outrun |-> FALSE, blank |-> FALSE]

WorkerStates == [op: Ops, pc: {"idle", "clear", "load", "write", "readver", "writever"},
                 todo: SUBSET Muds, fetching: SUBSET Muds, dirty: SUBSET Rows, seen: Versions]
BeatStates == [pc: {"idle", "devices", "load"}, ver: Versions \cup {NoVersion}, cfg: [Rows -> Nat],
               todo: SUBSET Muds, fetching: SUBSET Muds, outrun: BOOLEAN]
Configs == [ver: Versions \cup {NoVersion}, cfg: [Rows -> Nat], outrun: BOOLEAN, blank: BOOLEAN]

(* Every variable holds a value of its kind: the version is a u64, or what an
   operator put there, and handlers and heartbeats are in one of their steps. *)
TypeOK ==
    /\ rows \in [Rows -> Nat]
    /\ version \in Versions
    /\ expired \subseteq Muds
    /\ worker \in [Workers -> WorkerStates]
    /\ beat \in [Enforcers -> BeatStates]
    /\ enf \in [Enforcers -> Configs]
    /\ unannounced \subseteq Rows
    /\ requests \in Nat
    /\ faults \in Nat

Init ==
    /\ rows = NoRows
    /\ version = 0
    /\ expired = {}
    /\ worker = [w \in Workers |-> Idle]
    /\ beat = [e \in Enforcers |-> NoBeat]
    /\ enf = [e \in Enforcers |-> NoConfig]
    /\ unannounced = {}
    /\ requests = 0
    /\ faults = 0

-----------------------------------------------------------------------------
(* One statement writes row r. *)
WriteRow(r) == rows' = [rows EXCEPT ![r] = @ + 1]

Request ==
    /\ requests < MaxRequests
    /\ requests' = requests + 1

Fault ==
    /\ faults < MaxFaults
    /\ faults' = faults + 1

(* Mutant: the counter is not a u64. *)
M_wrapping_add(v) == v + 1

(* What is no number reads as 0. *)
wrapping_add(v) == (IF v = NoNumber THEN 1 ELSE v + 1) % Modulus

(* Worker w wrote row r and will still store a version larger than the
   current one. *)
Pending(w, r) ==
    /\ worker[w].pc # "idle"
    /\ r \in worker[w].dirty
    /\ worker[w].pc = "writever" => worker[w].seen >= version

PendingRows(w) == {r \in Rows : Pending(w, r)}

(* set_config_value(FirewallConfigVersion, v).  When the counter moves
   backwards or wraps, every config handed out or being built is marked. *)
StoreVersion(v, backwards) ==
    /\ version' = v
    /\ unannounced' = IF v > version THEN {} ELSE unannounced
    /\ beat' = [e \in Enforcers |-> [beat[e] EXCEPT !.outrun = @ \/ backwards]]
    /\ enf' = [e \in Enforcers |-> [enf[e] EXCEPT !.outrun = @ \/ backwards]]

(* The handler of w returns without bumping (again): what it changed and has
   not announced stays unannounced. *)
Return(w) ==
    /\ worker' = [worker EXCEPT ![w] = Idle]
    /\ unannounced' = unannounced \cup PendingRows(w)

-----------------------------------------------------------------------------
(* Handlers. *)

(* A request arrives.  load_refs loads the MUD rows the request names; the
   job lists the expired rows with one SELECT and returns if there are none. *)
FirstStep(op) ==
    CASE op = "lease" -> "clear"
      [] op \in {"delete", "mud"} -> "write"
      [] OTHER -> "load"

Loads(op) ==
    CASE op = "read" -> SUBSET Muds \ {{}}
      [] op \in {"put", "lease"} -> {{}} \cup {{m} : m \in Muds}
      [] op \in {"delete", "mud"} -> {{}}
      [] op = "job" -> {expired} \ {{}}

Start(w, op, todo) ==
    /\ worker[w].pc = "idle"
    /\ Request
    /\ todo \in Loads(op)
    /\ worker' = [worker EXCEPT ![w] =
                    [Idle EXCEPT !.op = op, !.pc = FirstStep(op), !.todo = todo]]
    /\ UNCHANGED <<rows, version, expired, beat, enf, unannounced, faults>>

(* remove_existing_ips: takes an address away from the row that has it. *)
ClearIp(w, d) ==
    /\ worker[w].pc = "clear"
    /\ d \notin worker[w].dirty
    /\ WriteRow(d)
    /\ worker' = [worker EXCEPT ![w].dirty = @ \cup {d}]
    /\ UNCHANGED <<requests, version, expired, beat, enf, unannounced, faults>>

ClearDone(w) ==
    /\ worker[w].pc = "clear"
    /\ worker' = [worker EXCEPT ![w].pc = "load"]
    /\ UNCHANGED <<rows, requests, version, expired, beat, enf, unannounced, faults>>

(* get_or_fetch_mud, the lookup: an unexpired row is used as it is. *)
Load(w, m) ==
    /\ worker[w].pc = "load"
    /\ worker[w].fetching = {}
    /\ m \in worker[w].todo
    /\ worker' = [worker EXCEPT ![w].todo = @ \ {m}, ![w].fetching = {m} \cap expired]
    /\ UNCHANGED <<rows, requests, version, expired, beat, enf, unannounced, faults>>

(* get_or_fetch_mud, the fetched profile is stored; the version is not bumped
   here. *)
Fetched(w, m) ==
    /\ worker[w].pc = "load"
    /\ m \in worker[w].fetching
    /\ WriteRow(m)
    /\ expired' = expired \ {m}
    /\ worker' = [worker EXCEPT ![w].fetching = {},
                                ![w].dirty = IF worker[w].op = "read" THEN @ ELSE @ \cup {m}]
    /\ unannounced' = IF worker[w].op = "read" THEN unannounced \cup {m} ELSE unannounced
    /\ UNCHANGED <<requests, version, beat, enf, faults>>

(* Fetching or parsing fails: the expired data is used. *)
FetchFails(w) ==
    /\ worker[w].pc = "load"
    /\ worker[w].fetching # {}
    /\ worker' = [worker EXCEPT ![w].fetching = {}]
    /\ UNCHANGED <<rows, requests, version, expired, beat, enf, unannounced, faults>>

LoadDone(w) ==
    /\ worker[w].pc = "load"
    /\ worker[w].fetching = {} /\ worker[w].todo = {}
    /\ \/ worker[w].op = "read" /\ Return(w)
       \/ /\ worker[w].op # "read"
          /\ worker' = [worker EXCEPT ![w].pc = IF worker[w].op = "job" THEN "readver" ELSE "write"]
          /\ UNCHANGED unannounced
    /\ UNCHANGED <<rows, requests, version, expired, beat, enf, faults>>

(* insert_device, update_device, delete_device, upsert_mud.  An UPDATE or
   DELETE whose row is gone changes nothing and is not an error. *)
Write(w, r) ==
    /\ worker[w].pc = "write"
    /\ r \in IF worker[w].op = "mud" THEN Muds ELSE Devices
    /\ WriteRow(r)
    /\ worker' = [worker EXCEPT ![w].pc = "readver", ![w].dirty = @ \cup {r}]
    /\ UNCHANGED <<requests, version, expired, beat, enf, unannounced, faults>>

WriteMisses(w) ==
    /\ worker[w].pc = "write"
    /\ worker' = [worker EXCEPT ![w].pc = "readver"]
    /\ UNCHANGED <<rows, requests, version, expired, beat, enf, unannounced, faults>>

(* update_config_version, the SELECT. *)
ReadVersion(w) ==
    /\ worker[w].pc = "readver"
    /\ worker' = [worker EXCEPT ![w].pc = "writever", ![w].seen = version]
    /\ UNCHANGED <<rows, requests, version, expired, beat, enf, unannounced, faults>>

(* update_config_version, the upsert of what was read plus one. *)
WriteVersion(w) ==
    LET new == wrapping_add(worker[w].seen)
    IN  /\ worker[w].pc = "writever"
        /\ StoreVersion(new, new < version \/ new <= worker[w].seen)
        /\ worker' = [worker EXCEPT ![w] = Idle]
        /\ UNCHANGED <<rows, requests, expired, faults>>

(* A failing SELECT is not an error: unwrap_or(0). *)
ReadVersionFails(w) ==
    /\ worker[w].pc = "readver"
    /\ Fault
    /\ worker' = [worker EXCEPT ![w].pc = "writever", ![w].seen = 0]
    /\ unannounced' = IF version = 0 THEN unannounced ELSE unannounced \cup PendingRows(w)
    /\ UNCHANGED <<rows, requests, version, expired, beat, enf>>

(* Any other failing step ends the handler through the ? operator: a room or
   a MUD row that is gone, a violated constraint, an error of the database. *)
HandlerFails(w) ==
    /\ worker[w].pc \notin {"idle", "readver"}
    /\ Fault
    /\ Return(w)
    /\ UNCHANGED <<rows, requests, version, expired, beat, enf>>

WorkerStep(w) ==
    \/ \E d \in Devices : ClearIp(w, d)
    \/ ClearDone(w)
    \/ \E m \in Muds : Load(w, m) \/ Fetched(w, m)
    \/ FetchFails(w) \/ LoadDone(w)
    \/ \E r \in Rows : Write(w, r)
    \/ WriteMisses(w) \/ ReadVersion(w) \/ WriteVersion(w)

-----------------------------------------------------------------------------
(* Heartbeats. *)

(* The version is read first; None is returned if the enforcer has it. *)
HeartbeatNone(e) ==
    /\ beat[e].pc = "idle"
    /\ enf[e].ver = version
    /\ UNCHANGED vars

(* Mutant: the config is stamped with the version the enforcer sent. *)
M_HeartbeatBegin(e) ==
    /\ beat[e].pc = "idle"
    /\ enf[e].ver # version
    /\ beat' = [beat EXCEPT ![e].pc = "devices", ![e].ver = enf[e].ver, ![e].outrun = FALSE]
    /\ UNCHANGED <<rows, requests, version, expired, worker, enf, unannounced, faults>>

HeartbeatBegin(e) ==
    /\ beat[e].pc = "idle"
    /\ enf[e].ver # version
    /\ beat' = [beat EXCEPT ![e].pc = "devices", ![e].ver = version, ![e].outrun = FALSE]
    /\ UNCHANGED <<rows, requests, version, expired, worker, enf, unannounced, faults>>

(* get_config_version answers "0" when its SELECT fails. *)
HeartbeatBeginFails(e) ==
    /\ beat[e].pc = "idle"
    /\ enf[e].ver # 0
    /\ Fault
    /\ beat' = [beat EXCEPT ![e].pc = "devices", ![e].ver = 0, ![e].outrun = FALSE]
    /\ UNCHANGED <<rows, requests, version, expired, worker, enf, unannounced>>

(* get_all_devices: one SELECT. *)
HeartbeatDevices(e) ==
    /\ beat[e].pc = "devices"
    /\ beat' = [beat EXCEPT ![e].pc = "load", ![e].todo = Muds, ![e].fetching = {},
                            ![e].cfg = [r \in Rows |-> IF r \in Devices THEN rows[r] ELSE @[r]]]
    /\ UNCHANGED <<rows, requests, version, expired, worker, enf, unannounced, faults>>

(* Mutant: the expired profile is dropped before the new one is there. *)
M_HeartbeatLoad(e, m) ==
    /\ beat[e].pc = "load"
    /\ beat[e].fetching = {}
    /\ m \in beat[e].todo
    /\ beat' = [beat EXCEPT ![e].todo = @ \ {m}, ![e].fetching = {m} \cap expired,
                            ![e].cfg[m] = IF m \in expired THEN 0 ELSE rows[m]]
    /\ UNCHANGED <<rows, requests, version, expired, worker, enf, unannounced, faults>>

(* load_refs of one device, through get_or_fetch_mud. *)
HeartbeatLoad(e, m) ==
    /\ beat[e].pc = "load"
    /\ beat[e].fetching = {}
    /\ m \in beat[e].todo
    /\ beat' = [beat EXCEPT ![e].todo = @ \ {m}, ![e].fetching = {m} \cap expired,
                            ![e].cfg[m] = rows[m]]
    /\ UNCHANGED <<rows, requests, version, expired, worker, enf, unannounced, faults>>

HeartbeatFetched(e, m) ==
    /\ beat[e].pc = "load"
    /\ m \in beat[e].fetching
    /\ WriteRow(m)
    /\ expired' = expired \ {m}
    /\ beat' = [beat EXCEPT ![e].fetching = {}, ![e].cfg[m] = rows[m] + 1]
    /\ unannounced' = unannounced \cup {m}
    /\ UNCHANGED <<requests, version, worker, enf, faults>>

HeartbeatFetchFails(e) ==
    /\ beat[e].pc = "load"
    /\ beat[e].fetching # {}
    /\ beat' = [beat EXCEPT ![e].fetching = {}]
    /\ UNCHANGED <<rows, requests, version, expired, worker, enf, unannounced, faults>>

(* Mutant: the config is stamped with the version at the end. *)
M_HeartbeatReply(e) ==
    /\ beat[e].pc = "load"
    /\ beat[e].fetching = {} /\ beat[e].todo = {}
    /\ enf' = [enf EXCEPT ![e] = [ver |-> version, cfg |-> beat[e].cfg,
                                  outrun |-> FALSE, blank |-> FALSE]]
    /\ beat' = [beat EXCEPT ![e] = NoBeat]
    /\ UNCHANGED <<rows, requests, version, expired, worker, unannounced, faults>>

HeartbeatReply(e) ==
    /\ beat[e].pc = "load"
    /\ beat[e].fetching = {} /\ beat[e].todo = {}
    /\ enf' = [enf EXCEPT ![e] = [ver |-> beat[e].ver, cfg |-> beat[e].cfg,
                                  outrun |-> beat[e].outrun, blank |-> FALSE]]
    /\ beat' = [beat EXCEPT ![e] = NoBeat]
    /\ UNCHANGED <<rows, requests, version, expired, worker, unannounced, faults>>

(* unwrap_or_default: when the devices or one reference cannot be loaded, the
   reply is a config without devices that carries the version read. *)
HeartbeatLoadFails(e) ==
    /\ beat[e].pc # "idle"
    /\ Fault
    /\ enf' = [enf EXCEPT ![e] = [ver |-> beat[e].ver, cfg |-> NoRows,
                                  outrun |-> beat[e].outrun, blank |-> TRUE]]
    /\ beat' = [beat EXCEPT ![e] = NoBeat]
    /\ UNCHANGED <<rows, requests, version, expired, worker, unannounced>>

HeartbeatStep(e) ==
    \/ HeartbeatBegin(e) \/ HeartbeatDevices(e)
    \/ \E m \in Muds : HeartbeatLoad(e, m) \/ HeartbeatFetched(e, m)
    \/ HeartbeatFetchFails(e) \/ HeartbeatReply(e)

-----------------------------------------------------------------------------
(* The environment. *)

(* PATCH or DELETE /config on the key FirewallConfigVersion: an absent key
   reads as 0, and any string is stored and handed to enforcers. *)
AdminSetsVersion(v) ==
    /\ Fault
    /\ StoreVersion(v, v < version)
    /\ UNCHANGED <<rows, requests, expired, worker>>

(* The connection breaks while a heartbeat is outstanding. *)
ReplyLost(e) ==
    /\ beat[e].pc # "idle"
    /\ Fault
    /\ beat' = [beat EXCEPT ![e] = NoBeat]
    /\ UNCHANGED <<rows, requests, version, expired, worker, enf, unannounced>>

EnforcerRestarts(e) ==
    /\ Fault
    /\ beat' = [beat EXCEPT ![e] = NoBeat]
    /\ enf' = [enf EXCEPT ![e] = NoConfig]
    /\ UNCHANGED <<rows, requests, version, expired, worker, unannounced>>

(* The controller stops and is started again: handlers and heartbeats vanish
   between two statements, the database stays. *)
Crash ==
    /\ Fault
    /\ worker' = [w \in Workers |-> Idle]
    /\ beat' = [e \in Enforcers |-> NoBeat]
    /\ unannounced' = unannounced \cup {r \in Rows : \E w \in Workers : Pending(w, r)}
    /\ UNCHANGED <<rows, requests, version, expired, enf>>

Expire(m) ==
    /\ m \notin expired
    /\ Request
    /\ expired' = expired \cup {m}
    /\ UNCHANGED <<rows, version, worker, beat, enf, unannounced, faults>>

Next ==
    \/ \E w \in Workers, op \in Ops : \E todo \in Loads(op) : Start(w, op, todo)
    \/ \E w \in Workers : WorkerStep(w) \/ ReadVersionFails(w) \/ HandlerFails(w)
    \/ \E e \in Enforcers : \/ HeartbeatStep(e) \/ HeartbeatNone(e) \/ HeartbeatBeginFails(e)
                            \/ HeartbeatLoadFails(e) \/ ReplyLost(e) \/ EnforcerRestarts(e)
    \/ \E v \in AdminVersions \cup {0, NoNumber} : AdminSetsVersion(v)
    \/ Crash
    \/ \E m \in Muds : Expire(m)

Spec == Init /\ [][Next]_vars

(* A task that was started runs on, and an enforcer polls regularly; nothing
   is assumed of requests, expirations and faults. *)
Fairness ==
    /\ \A w \in Workers : WF_vars(WorkerStep(w))
    /\ \A e \in Enforcers : WF_vars(HeartbeatStep(e))

FairSpec == Spec /\ Fairness

-----------------------------------------------------------------------------
(* What the polling protocol promises.  An enforcer whose version is the
   current one, and whose config was built completely after the counter last
   moved backwards, lacks a change only if the handler that made it is still
   going to bump the counter or belongs to those that never do. *)
Explained(r) == r \in unannounced \/ \E w \in Workers : Pending(w, r)

SyncedOrExplained ==
    \A e \in Enforcers :
        enf[e].ver = version /\ ~enf[e].outrun /\ ~enf[e].blank
            => \A r \in Rows : enf[e].cfg[r] = rows[r] \/ Explained(r)

(* The rows a heartbeat has read so far. *)
Read(e) == IF beat[e].pc = "load" THEN Rows \ beat[e].todo ELSE {}

(* The same of the config a heartbeat is building, although its rows are read
   one after the other and after the version. *)
BuildSyncedOrExplained ==
    \A e \in Enforcers :
        beat[e].ver = version /\ ~beat[e].outrun
            => \A r \in Read(e) : beat[e].cfg[r] = rows[r] \/ Explained(r)

(* A version handed out since the counter last moved backwards is not larger
   than the counter: a later bump cannot reach it again. *)
NotAhead ==
    \A e \in Enforcers : /\ ~enf[e].outrun => enf[e].ver <= version
                         /\ ~beat[e].outrun => beat[e].ver <= version

(* Once requests and faults stop, every enforcer ends with the current version
   and, unless the counter moved backwards or a load failed, with every
   announced change ("Called regularly by the enforcer to refresh its state"):
   heartbeats and bumps do not chase each other forever. *)
EventuallySynced ==
    \A e \in Enforcers :
        <>[](/\ enf[e].ver = version
             /\ \/ enf[e].outrun \/ enf[e].blank
                \/ \A r \in Rows : enf[e].cfg[r] = rows[r] \/ r \in unannounced)

(* What the enforcers hold, as ConfigFeed sees it. *)
holds == [e \in Enforcers |-> [ver |-> enf[e].ver, cfg |-> enf[e].cfg, blank |-> enf[e].blank]]

Feed == INSTANCE ConfigFeed WITH Stamps <- Versions, Nothing <- NoVersion, held <- holds

(* The controller implements ConfigFeed: although a config is put together by
   several statements while handlers write, expired profiles are fetched again
   or cannot be, replies get lost and the counter wraps or is set back, no
   reply takes an enforcer back to an older state of any row, except to a
   config without devices, and none repeats the version the enforcer holds. *)
ImplementsFeed == Feed!Spec

(* The same without the excuses: with no handler running, an enforcer that
   holds the current version holds the current content. *)
InSync ==
    (\A w \in Workers : worker[w].pc = "idle")
        => \A e \in Enforcers : enf[e].ver = version => enf[e].cfg = rows
=============================================================================
