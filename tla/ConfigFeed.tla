----------------------------- MODULE ConfigFeed -----------------------------
(***************************************************************************)
(* What the controller promises to an enforcer, without versions being     *)
(* counted, handlers or heartbeats: rows change one at a time, and every   *)
(* now and then an enforcer is handed a config.                            *)
(***************************************************************************)
EXTENDS Integers

CONSTANTS
    Rows,
    Enforcers,
    Stamps,         \* versions a config can carry
    Nothing         \* the version of an enforcer that holds no config

VARIABLES
    rows,           \* how often each row was written
    held            \* the config each enforcer holds

Blank == [r \in Rows |-> 0]
Held == [ver: Stamps \cup {Nothing}, cfg: [Rows -> Nat], blank: BOOLEAN]
NoneHeld == [ver |-> Nothing, cfg |-> Blank, blank |-> FALSE]

Init ==
    /\ rows = Blank
    /\ held = [e \in Enforcers |-> NoneHeld]

Change(r) ==
    /\ rows' = [rows EXCEPT ![r] = @ + 1]
    /\ UNCHANGED held

(* Enforcer e gets a config under another version than it holds, no row of
   which is older than what e holds or newer than the row is. *)
Deliver(e) ==
    /\ held'[e] \in Held
    /\ held'[e].ver # held[e].ver
    /\ ~held'[e].blank
    /\ \A r \in Rows : held[e].cfg[r] <= held'[e].cfg[r] /\ held'[e].cfg[r] <= rows[r]
    /\ held' = [held EXCEPT ![e] = held'[e]]
    /\ UNCHANGED rows

(* e gets a config without devices. *)
DeliverBlank(e) ==
    /\ \E v \in Stamps \ {held[e].ver} :
          held' = [held EXCEPT ![e] = [ver |-> v, cfg |-> Blank, blank |-> TRUE]]
    /\ UNCHANGED rows

(* e starts again and holds nothing. *)
Forget(e) ==
    /\ held' = [held EXCEPT ![e] = NoneHeld]
    /\ UNCHANGED rows

Next ==
    \/ \E r \in Rows : Change(r)
    \/ \E e \in Enforcers : Deliver(e) \/ DeliverBlank(e) \/ Forget(e)

Spec == Init /\ [][Next]_<<rows, held>>
=============================================================================
