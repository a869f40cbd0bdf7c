------------------------------- MODULE Rooms --------------------------------
(***************************************************************************)
(* The table rooms and the handlers of POST, PUT and DELETE /rooms.  Every *)
(* statement is a step.  A room is looked up by name to see whether the    *)
(* name is free, looked up by id to be deleted and then deleted by name.   *)
(***************************************************************************)
EXTENDS Integers, FiniteSets

CONSTANTS
    Names,
    NoName,
    RoomWorkers,    \* tasks that can run a handler at the same time
    MaxRooms        \* bound: ids given out

ASSUME NameAssumption == NoName \notin Names
ASSUME RoomBound == MaxRooms \in Nat

VARIABLES
    name,           \* the name of every room id; NoName if there is no such row
    nextRoom,       \* AUTOINCREMENT: an id is not given out again
    rh              \* the handler each task runs

roomVars == <<name, nextRoom, rh>>

RoomIds == 1..MaxRooms
NoRoom == 0
IdleRoom == [op |-> "delete", pc |-> "idle", id |-> NoRoom, name |-> NoName, touched |-> FALSE]

(* touched is history: the room of the handler was renamed or deleted by
   another one. *)
RoomHandlers == [op: {"create", "update", "delete"},
                 pc: {"idle", "check", "write", "reply", "find", "delete"},
                 id: RoomIds \cup {NoRoom}, name: Names \cup {NoName}, touched: BOOLEAN]

RoomTypeOK ==
    /\ name \in [RoomIds -> Names \cup {NoName}]
    /\ nextRoom \in 1..(MaxRooms + 1)
    /\ rh \in [RoomWorkers -> RoomHandlers]

(* The controller starts with a room of every name in n. *)
RoomInit(n) ==
    /\ nextRoom = Cardinality(n) + 1
    /\ name \in [RoomIds -> n \cup {NoName}]
    /\ \A r \in RoomIds : name[r] # NoName <=> r < nextRoom
    /\ \A x \in n : \E r \in RoomIds : name[r] = x
    /\ rh = [w \in RoomWorkers |-> IdleRoom]

-----------------------------------------------------------------------------
ByName(n) == {r \in RoomIds : name[r] = n}

RoomReturn(w) == rh' = [rh EXCEPT ![w] = IdleRoom]

(* Handler w changes room r and goes on as s. *)
TouchAndGo(w, r, s) ==
    rh' = [v \in RoomWorkers |->
              IF v = w THEN s ELSE [rh[v] EXCEPT !.touched = @ \/ rh[v].id = r]]

BeginRoom(w, op, id, n) ==
    /\ rh[w].pc = "idle"
    /\ rh' = [rh EXCEPT ![w] = [IdleRoom EXCEPT !.op = op, !.id = id, !.name = n,
                                    !.pc = IF op = "delete" THEN "find" ELSE "check"]]
    /\ UNCHANGED <<name, nextRoom>>

(* 409 if another room has the name. *)
RoomCheck(w) ==
    /\ rh[w].pc = "check"
    /\ IF ByName(rh[w].name) \ {rh[w].id} # {} THEN RoomReturn(w)
       ELSE rh' = [rh EXCEPT ![w].pc = "write"]
    /\ UNCHANGED <<name, nextRoom>>

(* An error of the lookup counts as a free name. *)
RoomCheckFails(w) ==
    /\ rh[w].pc = "check"
    /\ rh' = [rh EXCEPT ![w].pc = "write"]
    /\ UNCHANGED <<name, nextRoom>>

(* Mutant: the name is not unique in the table. *)
M_RoomInsert(w) ==
    /\ rh[w].pc = "write" /\ rh[w].op = "create"
    /\ nextRoom <= MaxRooms
    /\ name' = [name EXCEPT ![nextRoom] = rh[w].name]
    /\ nextRoom' = nextRoom + 1
    /\ rh' = [rh EXCEPT ![w].pc = "reply", ![w].id = nextRoom]

(* insert_room; the name is UNIQUE.  It also fails when there are no more ids. *)
RoomInsert(w) ==
    /\ rh[w].pc = "write" /\ rh[w].op = "create"
    /\ IF ByName(rh[w].name) # {} \/ nextRoom > MaxRooms
       THEN RoomReturn(w) /\ UNCHANGED <<name, nextRoom>>
       ELSE /\ name' = [name EXCEPT ![nextRoom] = rh[w].name]
            /\ nextRoom' = nextRoom + 1
            /\ rh' = [rh EXCEPT ![w].pc = "reply", ![w].id = nextRoom]

(* The room that is returned is looked up by name. *)
RoomReply(w) ==
    /\ rh[w].pc = "reply"
    /\ RoomReturn(w)
    /\ UNCHANGED <<name, nextRoom>>

(* update: 400 if the name was taken meanwhile, 404 if the room is gone. *)
RoomUpdate(w) ==
    LET r == rh[w].id
    IN  /\ rh[w].pc = "write" /\ rh[w].op = "update"
        /\ IF name[r] = NoName \/ ByName(rh[w].name) \ {r} # {}
           THEN RoomReturn(w) /\ UNCHANGED name
           ELSE /\ name' = [name EXCEPT ![r] = rh[w].name]
                /\ TouchAndGo(w, r, IdleRoom)
        /\ UNCHANGED nextRoom

RoomFind(w) ==
    /\ rh[w].pc = "find"
    /\ IF name[rh[w].id] = NoName THEN RoomReturn(w)
       ELSE rh' = [rh EXCEPT ![w].pc = "delete", ![w].name = name[rh[w].id], ![w].touched = FALSE]
    /\ UNCHANGED <<name, nextRoom>>

(* What the DELETE of w hits: every room with the name read before. *)
Hit(w) == ByName(rh[w].name)

RoomDelete(w) ==
    /\ rh[w].pc = "delete"
    /\ name' = [r \in RoomIds |-> IF r \in Hit(w) THEN NoName ELSE name[r]]
    /\ rh' = [v \in RoomWorkers |->
                 IF v = w THEN IdleRoom ELSE [rh[v] EXCEPT !.touched = @ \/ rh[v].id \in Hit(w)]]
    /\ UNCHANGED nextRoom

RoomFails(w) ==
    /\ rh[w].pc \notin {"idle", "check"}
    /\ RoomReturn(w)
    /\ UNCHANGED <<name, nextRoom>>

RoomStep(w) ==
    \/ RoomCheck(w) \/ RoomInsert(w) \/ RoomReply(w) \/ RoomUpdate(w) \/ RoomFind(w)

-----------------------------------------------------------------------------
(* "Deletes a room with a given name": a deletion by name hits the room whose
   id was asked for, and the reply to a creation names the room it created,
   whatever else happens, unless that room itself was renamed or deleted since
   it was looked up or inserted; then another room that has taken the name is
   deleted or returned in its place. *)
RoomOfRequest ==
    \A w \in RoomWorkers :
        rh[w].pc \in {"delete", "reply"} /\ ~rh[w].touched => ByName(rh[w].name) = {rh[w].id}
=============================================================================
