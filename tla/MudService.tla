----------------------------- MODULE MudService -----------------------------
(***************************************************************************)
(* The table mud_data and the handlers that read and write it: fetching    *)
(* and caching a profile (get_or_fetch_mud), the REST operations on MUDs   *)
(* and the hourly refresh of expired profiles.  Every statement and every  *)
(* download is a step of its own.  A profile is abstracted to the revision *)
(* of the published file it was parsed from, the id of its acl_override    *)
(* and its expiration.  The two statements of update_config_version are    *)
(* one step here: their interleavings are the subject of ConfigSync.       *)
(***************************************************************************)
EXTENDS Integers, FiniteSets

CONSTANTS
    Web,            \* https:// URLs
    Insecure,       \* URLs with another scheme
    Custom,         \* names of local profiles, not URLs
    NoUrl,
    Tasks,          \* handlers that can run at the same time
    Validity,       \* cache-validity of a fetched profile, in clock ticks
    MaxTime,        \* bound: the clock stops here
    MaxRequests,    \* bound: REST calls and lookups; each is numbered
    MaxOutages,     \* bound: how often the file server goes away or publishes
    MaxFaults       \* bound: failing statements

Urls == Web \cup Insecure \cup Custom

ASSUME UrlAssumption ==
    /\ Web \cap Insecure = {} /\ Web \cap Custom = {} /\ Insecure \cap Custom = {}
    /\ NoUrl \notin Urls
ASSUME TimeAssumption == Validity \in Nat \ {0} /\ MaxTime \in Nat
ASSUME MudBounds == MaxRequests \in Nat /\ MaxOutages \in Nat /\ MaxFaults \in Nat

VARIABLES
    present,        \* URLs that have a row
    mud,            \* the rows (of a URL in present)
    used,           \* URLs some device row refers to
    unannounced,    \* URLs written since the config version was last bumped
    task,           \* the handler each task runs
    now,            \* the clock
    published,      \* revision of the file every server offers
    reachable,      \* whether the servers answer with a valid file
    requests, outages, faults,
    acked,          \* history: the override last stored on request of a user
    raced,          \* history: URLs whose override was changed during a refresh
    forgotten,      \* history: URLs whose row a failing lookup missed
    gone            \* history: URLs whose row was deleted, nobody dealing with
                    \* them, and for which no request came since

env == <<now, published, reachable, outages>>
vars == <<present, mud, used, unannounced, task, now, published, reachable,
          requests, outages, faults, acked, raced, forgotten, gone>>

NoOverride == 0     \* acl_override is empty
NoRevision == 0     \* the empty acllist of a local profile
Forever == MaxTime + Validity + 1    \* get_custom_mud_expiration: the year 2060

MudRow == [rev: Nat, ovr: Nat, exp: Nat]
Ops == {"load", "create", "update", "delete", "job"}
EmptyRow == [rev |-> NoRevision, ovr |-> NoOverride, exp |-> 0]
IdleTask == [op |-> "load", pc |-> "idle", url |-> NoUrl, todo |-> {},
             had |-> FALSE, row |-> EmptyRow, ovr |-> NoOverride]

TaskStates == [op: Ops,
               pc: {"idle", "exists", "lookup", "fetch", "store", "insert", "get", "put",
                    "used", "delete", "next", "bump"},
               url: Urls \cup {NoUrl}, todo: SUBSET Urls, had: BOOLEAN, row: MudRow, ovr: Nat]

(* Every variable holds a value of its kind. *)
MudTypeOK ==
    /\ present \subseteq Urls /\ used \subseteq Urls /\ unannounced \subseteq Urls
    /\ mud \in [Urls -> MudRow]
    /\ task \in [Tasks -> TaskStates]
    /\ now \in 0..MaxTime
    /\ published \in Nat /\ reachable \in BOOLEAN
    /\ requests \in Nat /\ outages \in Nat /\ faults \in Nat
    /\ acked \in [Urls -> Nat] /\ raced \subseteq Urls /\ forgotten \subseteq Urls /\ gone \subseteq Urls

Init ==
    /\ present = {} /\ used = {} /\ unannounced = {}
    /\ mud = [u \in Urls |-> EmptyRow]
    /\ task = [t \in Tasks |-> IdleTask]
    /\ now = 0 /\ published = 1 /\ reachable = TRUE
    /\ requests = 0 /\ outages = 0 /\ faults = 0
    /\ acked = [u \in Urls |-> NoOverride] /\ raced = {} /\ forgotten = {} /\ gone = {}

-----------------------------------------------------------------------------
(* Helpers. *)

(* t goes on at pc p. *)
Goto(t, p) == task' = [task EXCEPT ![t].pc = p]

(* The handler returns; in the job, get_or_fetch_mud returns to its loop. *)
Done(t) == IF task[t].op = "job"
           THEN Goto(t, "next")
           ELSE task' = [task EXCEPT ![t] = IdleTask]

(* An error leaves the handler, the job included: update_mud_urls uses ?. *)
Fail(t) == task' = [task EXCEPT ![t] = IdleTask]

(* upsert_mud and create_mud: the row of u becomes r. *)
UpsertMud(u, r) ==
    /\ present' = present \cup {u}
    /\ mud' = [mud EXCEPT ![u] = r]
    /\ unannounced' = unannounced \cup {u}

(* A refresh of u is past its lookup and not yet stored. *)
Refreshing(t, u) == task[t].url = u /\ task[t].pc \in {"fetch", "store"}

(* t may yet write a row of u: it has u on its list or in hand. *)
Reviving(t, u) ==
    \/ u \in task[t].todo
    \/ task[t].url = u /\ task[t].pc \in {"exists", "lookup", "fetch", "store", "insert", "put"}

(* The user's last word on the override of u is o. *)
Acknowledge(t, u, o) ==
    /\ acked' = [acked EXCEPT ![u] = o]
    /\ forgotten' = forgotten \ {u}
    /\ raced' = IF \E s \in Tasks \ {t} : Refreshing(s, u) THEN raced \cup {u} ELSE raced \ {u}

Fault ==
    /\ faults < MaxFaults
    /\ faults' = faults + 1

rowsVars == <<present, mud, unannounced>>
history == <<acked, raced, forgotten, gone>>

-----------------------------------------------------------------------------
(* Requests. *)

FirstStep(op) ==
    CASE op = "load" -> "lookup"
      [] op = "create" -> "exists"
      [] op \in {"update", "delete"} -> "get"

(* GET, POST, PUT, DELETE /mud, or load_refs of a device.  A request that
   carries an override carries a new one. *)
Begin(t, op, u) ==
    /\ task[t].pc = "idle"
    /\ requests < MaxRequests
    /\ requests' = requests + 1
    /\ task' = [task EXCEPT ![t] = [IdleTask EXCEPT !.op = op, !.pc = FirstStep(op), !.url = u,
                                                    !.ovr = requests + 1]]
    /\ gone' = IF op \in {"load", "create"} THEN gone \ {u} ELSE gone
    /\ UNCHANGED <<rowsVars, used, env, faults, acked, raced, forgotten>>

(* Mutant: the job works on what it once knew. *)
M_OutdatedKnown == {u \in Web : mud[u].exp < now}

(* Mutant: the comparison is swapped. *)
M_Outdated == {u \in present : mud[u].exp > now}

(* update_outdated_profiles: one SELECT, then the rows expired before now; it
   returns if there are none. *)
Outdated == {u \in present : mud[u].exp < now}

StartJob(t) ==
    /\ task[t].pc = "idle"
    /\ Outdated # {}
    /\ task' = [task EXCEPT ![t] = [IdleTask EXCEPT !.op = "job", !.pc = "next", !.todo = Outdated]]
    /\ UNCHANGED <<rowsVars, used, env, requests, faults, history>>

JobFindsNothing(t) ==
    /\ task[t].pc = "idle"
    /\ Outdated = {}
    /\ UNCHANGED vars

(* update_mud_urls: the next URL, or the bump after the last one. *)
JobNext(t) ==
    /\ task[t].pc = "next"
    /\ \/ /\ task[t].todo = {}
          /\ Goto(t, "bump")
       \/ \E u \in task[t].todo :
             task' = [task EXCEPT ![t].pc = "lookup", ![t].url = u, ![t].todo = @ \ {u}]
    /\ UNCHANGED <<rowsVars, used, env, requests, faults, history>>

-----------------------------------------------------------------------------
(* get_or_fetch_mud. *)

(* The lookup.  found is FALSE also when the SELECT fails: get_mud drops the
   error. *)
(* Mutant: the scheme is not checked. *)
M_LookupRow(t, found) ==
    LET u == task[t].url
    IN  IF found /\ mud[u].exp > now
        THEN Done(t)
        ELSE task' = [task EXCEPT ![t].pc = "fetch", ![t].had = found, ![t].row = mud[u]]

LookupRow(t, found) ==
    LET u == task[t].url
    IN  IF found /\ mud[u].exp > now
        THEN Done(t)
        ELSE IF u \notin Web
        THEN Fail(t)
        ELSE task' = [task EXCEPT ![t].pc = "fetch", ![t].had = found, ![t].row = mud[u]]

Lookup(t) ==
    /\ task[t].pc = "lookup"
    /\ LookupRow(t, task[t].url \in present)
    /\ UNCHANGED <<rowsVars, used, env, requests, faults, history>>

LookupFails(t) ==
    /\ task[t].pc = "lookup"
    /\ Fault
    /\ LookupRow(t, FALSE)
    /\ forgotten' = forgotten \cup ({task[t].url} \cap present)
    /\ UNCHANGED <<rowsVars, used, env, requests, acked, raced, gone>>

(* Mutant: the override is not taken over. *)
M_FetchForgets(t) ==
    /\ task[t].pc = "fetch"
    /\ reachable
    /\ task' = [task EXCEPT ![t].pc = "store",
                            ![t].row = [rev |-> published, ovr |-> NoOverride, exp |-> now + Validity]]
    /\ UNCHANGED <<rowsVars, used, env, requests, faults, history>>

(* Mutant: the validity is subtracted. *)
M_FetchExpired(t) ==
    /\ task[t].pc = "fetch"
    /\ reachable
    /\ task' = [task EXCEPT ![t].pc = "store",
                            ![t].row = [rev |-> published,
                                        ovr |-> IF task[t].had THEN @.ovr ELSE NoOverride,
                                        exp |-> now - Validity]]
    /\ UNCHANGED <<rowsVars, used, env, requests, faults, history>>

(* The file is downloaded and parsed; the override is taken over from the row
   read at the lookup. *)
Fetch(t) ==
    /\ task[t].pc = "fetch"
    /\ reachable
    /\ task' = [task EXCEPT ![t].pc = "store",
                            ![t].row = [rev |-> published,
                                        ovr |-> IF task[t].had THEN @.ovr ELSE NoOverride,
                                        exp |-> now + Validity]]
    /\ UNCHANGED <<rowsVars, used, env, requests, faults, history>>

(* No valid file: the expired data is used, or there is none. *)
FetchFails(t) ==
    /\ task[t].pc = "fetch"
    /\ ~reachable
    /\ IF task[t].had THEN Done(t) ELSE Fail(t)
    /\ UNCHANGED <<rowsVars, used, env, requests, faults, history>>

Store(t) ==
    /\ task[t].pc = "store"
    /\ UpsertMud(task[t].url, task[t].row)
    /\ Done(t)
    /\ UNCHANGED <<used, env, requests, faults, history>>

-----------------------------------------------------------------------------
(* The REST operations on MUDs. *)

(* POST /mud: 409 if the row exists; a URL is fetched (the request's override
   is not used), another name becomes a local profile. *)
CreateExists(t) ==
    /\ task[t].pc = "exists"
    /\ IF task[t].url \in present THEN Fail(t)
       ELSE Goto(t, IF task[t].url \in Custom THEN "insert" ELSE "lookup")
    /\ UNCHANGED <<rowsVars, used, env, requests, faults, history>>

(* get_mud drops the error of a failing SELECT: the row seems to be absent. *)
CreateExistsFails(t) ==
    /\ task[t].pc = "exists"
    /\ Fault
    /\ Goto(t, IF task[t].url \in Custom THEN "insert" ELSE "lookup")
    /\ UNCHANGED <<rowsVars, used, env, requests, history>>

CreateInsert(t) ==
    LET u == task[t].url
    IN  /\ task[t].pc = "insert"
        /\ IF u \in present
           THEN UNCHANGED <<rowsVars, history>>         \* primary key
           ELSE /\ UpsertMud(u, [rev |-> NoRevision, ovr |-> task[t].ovr, exp |-> Forever])
                /\ Acknowledge(t, u, task[t].ovr) /\ UNCHANGED gone
        /\ Fail(t)
        /\ UNCHANGED <<used, env, requests, faults>>

(* PUT and DELETE /mud begin with get_mud: 404 without a row. *)
Get(t) ==
    LET u == task[t].url
    IN  /\ task[t].pc = "get"
        /\ IF u \notin present THEN Fail(t)
           ELSE task' = [task EXCEPT ![t].pc = IF task[t].op = "update" THEN "put" ELSE "used",
                                     ![t].row = [mud[u] EXCEPT !.ovr = task[t].ovr]]
        /\ UNCHANGED <<rowsVars, used, env, requests, faults, history>>

(* PUT /mud writes the whole row back, as read, with the new override. *)
Put(t) ==
    /\ task[t].pc = "put"
    /\ UpsertMud(task[t].url, task[t].row)
    /\ Acknowledge(t, task[t].url, task[t].row.ovr)
    /\ Goto(t, "bump")
    /\ UNCHANGED <<used, env, requests, faults, gone>>

Bump(t) ==
    /\ task[t].pc = "bump"
    /\ unannounced' = {}
    /\ Fail(t)
    /\ UNCHANGED <<present, mud, used, env, requests, faults, history>>

(* DELETE /mud: 409 while a device uses the profile. *)
IsMudUsed(t) ==
    /\ task[t].pc = "used"
    /\ IF task[t].url \in used THEN Fail(t) ELSE Goto(t, "delete")
    /\ UNCHANGED <<rowsVars, used, env, requests, faults, history>>

(* The foreign key of devices refuses to delete a row that came into use. *)
Delete(t) ==
    LET u == task[t].url
    IN  /\ task[t].pc = "delete"
        /\ IF u \in used
           THEN UNCHANGED <<present, history>>
           ELSE /\ present' = present \ {u} /\ Acknowledge(t, u, NoOverride)
                /\ gone' = IF \E s \in Tasks : Reviving(s, u) THEN gone ELSE gone \cup {u}
        /\ Fail(t)
        /\ UNCHANGED <<mud, unannounced, used, env, requests, faults>>

(* Any other failing statement ends the handler, the job included. *)
StatementFails(t) ==
    /\ task[t].pc \in {"get", "store", "insert", "put", "used", "delete", "bump"}
    /\ Fault
    /\ Fail(t)
    /\ UNCHANGED <<rowsVars, used, env, requests, history>>

TaskStep(t) ==
    \/ JobNext(t) \/ Lookup(t) \/ Fetch(t) \/ FetchFails(t) \/ Store(t)
    \/ CreateExists(t) \/ CreateInsert(t) \/ Get(t) \/ Put(t) \/ Bump(t)
    \/ IsMudUsed(t) \/ Delete(t)

-----------------------------------------------------------------------------
(* The environment. *)

(* A device row is written or removed; its mud_url is a foreign key. *)
Use(u) ==
    /\ u \in present
    /\ used' = IF u \in used THEN used \ {u} ELSE used \cup {u}
    /\ UNCHANGED <<rowsVars, task, env, requests, faults, history>>

Tick ==
    /\ now < MaxTime
    /\ now' = now + 1
    /\ UNCHANGED <<rowsVars, used, task, published, reachable, requests, outages, faults, history>>

(* The vendor publishes a new file. *)
Publish ==
    /\ outages < MaxOutages
    /\ outages' = outages + 1
    /\ published' = published + 1
    /\ UNCHANGED <<rowsVars, used, task, now, reachable, requests, faults, history>>

Outage ==
    /\ outages < MaxOutages
    /\ outages' = outages + 1
    /\ reachable' = ~reachable
    /\ UNCHANGED <<rowsVars, used, task, now, published, requests, faults, history>>

Next ==
    \/ \E t \in Tasks : \/ TaskStep(t) \/ StartJob(t) \/ JobFindsNothing(t)
                        \/ LookupFails(t) \/ CreateExistsFails(t) \/ StatementFails(t)
    \/ \E t \in Tasks, op \in Ops \ {"job"}, u \in Urls : Begin(t, op, u)
    \/ \E u \in Urls : Use(u)
    \/ Tick \/ Publish \/ Outage

Spec == Init /\ [][Next]_vars

(* Started tasks run on (a download has a timeout), the scheduler starts the
   job again and again, and the clock runs. *)
FairSpec ==
    /\ Spec
    /\ \A t \in Tasks : WF_vars(TaskStep(t))
    /\ WF_vars(\E t \in Tasks : StartJob(t))
    /\ WF_vars(Tick)

-----------------------------------------------------------------------------
(* "acl_override von alter mud_data uebernehmen": a refresh keeps the override
   the user last stored or removed, unless that request came while a refresh
   of the same profile was between its lookup and its store.  One more way to
   lose it is left: get_mud drops database errors, so a refresh whose lookup
   failed takes the profile for a new one.  The override is then empty, never
   another one. *)
OverrideKeptUnlessRaced ==
    \A u \in present \ raced :
        \/ mud[u].ovr = acked[u]
        \/ u \in forgotten /\ mud[u].ovr = NoOverride

(* The same without the exceptions. *)
OverrideKept ==
    \A u \in present : mud[u].ovr = acked[u]

(* "Local MUD-Profiles can be loaded *BUT NOT CREATED* through this function":
   whatever the interleaving, a row that did not come from an https URL is a
   local profile that never expires, and rows of URLs always do. *)
LocalProfilesStayLocal ==
    \A u \in present : IF u \in Web THEN mud[u].rev # NoRevision /\ mud[u].exp # Forever
                       ELSE u \in Custom /\ mud[u].rev = NoRevision /\ mud[u].exp = Forever

(* A profile that DELETE /mud removed does not come back by itself: only if
   somebody looks it up or creates it afterwards, or if a handler was dealing
   with it at that time (a refresh, a PUT that had read the row, the job that
   has it on its list).  The job's list and the copies of rows are stale by the
   time they are used, and all of them end in an upsert. *)
DeletedStayGone == gone \cap present = {}

(* Once the servers stay reachable, the job leaves no profile expired, even if
   a PUT writes an old expiration back over a refreshed row. *)
EventuallyFresh ==
    <>[]reachable => <>[](\A u \in present : mud[u].exp >= now)
=============================================================================
