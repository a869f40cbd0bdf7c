------------------------------- MODULE Things -------------------------------
(***************************************************************************)
(* The client of the Neo4Things service: background tasks that report a    *)
(* device, a connection of it or the MUD-URL chosen for it, and that try   *)
(* again for 15 minutes.  A report names the device by its identity, the   *)
(* MAC address it has when the report is made or else its DUID             *)
(* (mac_or_duid).  The service itself is external: it knows a set of       *)
(* identities, refuses to create one twice and to add anything to one it   *)
(* does not know.                                                          *)
(*                                                                         *)
(* Time is counted in rounds: in a round every task tries once (the pauses *)
(* between two tries are at most a minute, whatever the task).             *)
(***************************************************************************)
EXTENDS Integers, FiniteSets

CONSTANTS
    Keys,           \* MAC addresses and DUIDs
    NoKey,          \* the identity of a device that has neither
    Window          \* rounds in max_elapsed_time

ASSUME ThingAssumption == NoKey \notin Keys /\ Window \in Nat \ {0}

VARIABLES
    things,         \* identities the service knows
    up,             \* whether the service answers
    tasks,          \* the background tasks
    spawned,        \* tasks so far; each has a number
    missed,         \* history: identities of which the service lacks a report
                    \* that was due to arrive
    disturbed       \* history: the service was away, an answer of it was lost
                    \* or the tasks died with the controller

thingVars == <<things, up, tasks, spawned, missed, disturbed>>

Kinds == {"add", "connection", "describe"}
Tasks == [n: Nat, kind: Kinds, key: Keys, known: BOOLEAN, age: 0..Window, tried: BOOLEAN]

ThingTypeOK ==
    /\ things \subseteq Keys /\ up \in BOOLEAN
    /\ tasks \subseteq Tasks
    /\ spawned \in Nat
    /\ missed \subseteq Keys /\ disturbed \in BOOLEAN

ThingInit ==
    /\ things = {} /\ up = TRUE /\ tasks = {} /\ spawned = 0
    /\ missed = {} /\ disturbed = FALSE

-----------------------------------------------------------------------------
(* k was added or is being added. *)
Adding(k) == k \in things \/ \E t \in tasks : t.kind = "add" /\ t.key = k

(* known is history: the service knew the identity or was being told of it. *)
Task(kind, k) ==
    [n |-> spawned, kind |-> kind, key |-> k, known |-> kind = "add" \/ Adding(k),
     age |-> 0, tried |-> FALSE]

(* tokio::spawn; mac_or_duid panics for a device that has no identity. *)
Spawn(kind, k) ==
    /\ tasks' = tasks \cup (IF k \in Keys THEN {Task(kind, k)} ELSE {})
    /\ spawned' = spawned + 1

(* The service (external). *)
Accepts(t) == up /\ (t.kind = "add" <=> t.key \notin things)

(* Mutant: only a service that does not answer is asked again. *)
M_GivesUp(t) == t.age = Window \/ up

(* Every error is transient, and one after max_elapsed_time is the last. *)
GivesUp(t) == t.age = Window

(* What the service lacks when the reports in ts are dropped.  A report about an
   identity nobody added is no loss, nor is a second report of the same. *)
Lost(ts) == {t.key : t \in {u \in ts : u.known /\ ~(u.kind = "add" /\ u.key \in things)}}

Again(t) == (tasks \ {t}) \cup (IF GivesUp(t) THEN {} ELSE {[t EXCEPT !.tried = TRUE]})

Attempt(t) ==
    /\ ~t.tried /\ Accepts(t)
    /\ tasks' = tasks \ {t}
    /\ things' = things \cup {t.key}
    /\ UNCHANGED <<up, spawned, missed, disturbed>>

AttemptFails(t) ==
    /\ ~t.tried /\ ~Accepts(t)
    /\ tasks' = Again(t)
    /\ missed' = missed \cup (IF GivesUp(t) THEN Lost({t}) ELSE {})
    /\ UNCHANGED <<things, up, spawned, disturbed>>

(* The service does what it is asked for, and the answer is lost. *)
AnswerLost(t) ==
    /\ ~t.tried /\ Accepts(t)
    /\ things' = things \cup {t.key}
    /\ tasks' = Again(t)
    /\ disturbed' = TRUE
    /\ UNCHANGED <<up, spawned, missed>>

Round ==
    /\ tasks # {} /\ \A t \in tasks : t.tried
    /\ tasks' = {[t EXCEPT !.age = @ + 1, !.tried = FALSE] : t \in tasks}
    /\ UNCHANGED <<things, up, spawned, missed, disturbed>>

ServiceGoes ==
    /\ up /\ up' = FALSE
    /\ disturbed' = TRUE
    /\ UNCHANGED <<things, tasks, spawned, missed>>

ServiceReturns ==
    /\ ~up /\ up' = TRUE
    /\ UNCHANGED <<things, tasks, spawned, missed, disturbed>>

(* The controller ends, and its tasks with it. *)
TasksDie ==
    /\ tasks' = {}
    /\ missed' = missed \cup Lost(tasks)
    /\ disturbed' = TRUE
    /\ UNCHANGED <<things, up, spawned>>

-----------------------------------------------------------------------------
(* "This operation should be run in the background as it is failsafe": tasks
   are not ordered, and a connection or a MUD-URL may be tried before the
   device is added; but as long as the service answers and the controller
   runs, every report arrives that names an identity which, when the report
   was made, the service knew or was being told of.  The others are dropped
   after 15 minutes: a report about an identity that was never added, such as
   the MAC address a lease or a user gave a device that was added by its
   DUID, and a second report of the same identity. *)
NoOutageNoLoss == ~disturbed => missed = {}
=============================================================================
