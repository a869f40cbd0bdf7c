------------------------ MODULE DeviceContextProofs -------------------------
(***************************************************************************)
(* Proofs about DeviceContext and the components it puts together, Rooms   *)
(* and Things, for every set of devices, names and handlers and every      *)
(* bound.                                                                  *)
(***************************************************************************)
EXTENDS DeviceContext, FiniteSetTheorems, TLAPS

(***************************************************************************)
(* Rooms                                                                   *)
(***************************************************************************)

(* What a room handler in state s relies on: it has a room to look for, a name
   to look for, and a name that only its room has unless that was touched. *)
RoomHandlerOK(s) ==
    /\ s.pc = "find" \/ s.op = "update" => s.id \in RoomIds
    /\ s.pc \in {"check", "write", "reply", "delete"} => s.name \in Names
    /\ s.pc \in {"delete", "reply"} /\ ~s.touched => ByName(s.name) = {s.id}

(* UNIQUE (name), and AUTOINCREMENT. *)
NamesUnique == \A r, q \in RoomIds : name[r] = name[q] /\ name[r] # NoName => r = q
LaterUnused == \A r \in RoomIds : r >= nextRoom => name[r] = NoName

RoomInv ==
    /\ RoomTypeOK /\ NamesUnique /\ LaterUnused
    /\ \A w \in RoomWorkers : RoomHandlerOK(rh[w])

LEMMA IdleRoomOK == IdleRoom \in RoomHandlers /\ RoomHandlerOK(IdleRoom)
BY DEF IdleRoom, RoomHandlers, RoomHandlerOK

(* A handler goes on and leaves the table alone. *)
LEMMA RoomMove ==
    ASSUME RoomInv, NEW w \in RoomWorkers, NEW s \in RoomHandlers, RoomHandlerOK(s),
           rh' = [rh EXCEPT ![w] = s], UNCHANGED <<name, nextRoom>>
    PROVE  RoomInv'
<1>1. RoomTypeOK' /\ NamesUnique' /\ LaterUnused'
    BY DEF RoomInv, RoomTypeOK, NamesUnique, LaterUnused
<1>2. \A x \in RoomWorkers : rh'[x] = IF x = w THEN s ELSE rh[x]
    BY DEF RoomInv, RoomTypeOK
<1>3. \A x \in RoomWorkers : RoomHandlerOK(rh[x])'
    BY <1>2 DEF RoomInv, RoomHandlerOK, ByName
<1> QED BY <1>1, <1>3 DEF RoomInv

LEMMA RoomBegin ==
    ASSUME RoomInv, NEW w \in RoomWorkers, NEW op \in {"create", "update", "delete"},
           NEW id \in RoomIds \cup {NoRoom}, NEW n \in Names \cup {NoName},
           op # "create" => id \in RoomIds, op # "delete" => n \in Names, BeginRoom(w, op, id, n)
    PROVE  RoomInv'
<1> DEFINE s == [IdleRoom EXCEPT !.op = op, !.id = id, !.name = n,
                                 !.pc = IF op = "delete" THEN "find" ELSE "check"]
<1>1. rh' = [rh EXCEPT ![w] = s] /\ UNCHANGED <<name, nextRoom>>
    BY DEF BeginRoom
<1>2. s \in RoomHandlers /\ s.op = op /\ s.id = id /\ s.name = n /\ s.pc \in {"find", "check"}
      /\ (s.pc = "check" => op # "delete") /\ (s.pc = "find" => op = "delete")
    BY IdleRoomOK DEF RoomHandlers
<1>3. RoomHandlerOK(s)
    BY <1>2 DEF RoomHandlerOK
<1> HIDE DEF s
<1> QED BY <1>1, <1>2, <1>3, RoomMove

LEMMA RoomEnds ==
    ASSUME RoomInv, NEW w \in RoomWorkers, RoomReturn(w), UNCHANGED <<name, nextRoom>> PROVE RoomInv'
BY IdleRoomOK, RoomMove DEF RoomReturn

LEMMA RoomChecked ==
    ASSUME RoomInv, NEW w \in RoomWorkers, RoomCheck(w) \/ RoomCheckFails(w) PROVE RoomInv'
<1> DEFINE s == [rh[w] EXCEPT !.pc = "write"]
<1>1. UNCHANGED <<name, nextRoom>> /\ rh[w].pc = "check" /\ (RoomReturn(w) \/ rh' = [rh EXCEPT ![w] = s])
    BY DEF RoomCheck, RoomCheckFails
<1>2. rh[w] \in RoomHandlers /\ RoomHandlerOK(rh[w])
    BY DEF RoomInv, RoomTypeOK
<1>3. s \in RoomHandlers /\ s.pc = "write" /\ s.op = rh[w].op /\ s.id = rh[w].id /\ s.name = rh[w].name
    BY <1>2 DEF RoomHandlers
<1>4. RoomHandlerOK(s)
    BY <1>1, <1>2, <1>3 DEF RoomHandlerOK
<1> HIDE DEF s
<1> QED BY <1>1, <1>3, <1>4, RoomEnds, RoomMove

LEMMA RoomFound ==
    ASSUME RoomInv, NEW w \in RoomWorkers, RoomFind(w) PROVE RoomInv'
<1> DEFINE s == [rh[w] EXCEPT !.pc = "delete", !.name = name[rh[w].id], !.touched = FALSE]
<1>1. UNCHANGED <<name, nextRoom>> /\ rh[w].pc = "find"
    BY DEF RoomFind
<1>2. rh[w] \in RoomHandlers /\ RoomHandlerOK(rh[w]) /\ name \in [RoomIds -> Names \cup {NoName}]
    BY DEF RoomInv, RoomTypeOK
<1>3. CASE name[rh[w].id] = NoName
    BY <1>1, <1>3, RoomEnds DEF RoomFind
<1>4. CASE name[rh[w].id] # NoName
    <2>1. rh' = [rh EXCEPT ![w] = s]
        BY <1>4 DEF RoomFind
    <2>2. rh[w].id \in RoomIds /\ name[rh[w].id] \in Names
        BY <1>1, <1>2, <1>4 DEF RoomHandlerOK
    <2>3. s \in RoomHandlers /\ s.pc = "delete" /\ s.op = rh[w].op /\ s.id = rh[w].id /\ s.name = name[rh[w].id]
        BY <1>2, <2>2 DEF RoomHandlers
    <2>4. ByName(s.name) = {s.id}
        <3> HIDE DEF s
        <3> QED BY <1>4, <2>2, <2>3 DEF ByName, RoomInv, NamesUnique
    <2>5. RoomHandlerOK(s)
        <3> HIDE DEF s
        <3> QED BY <2>2, <2>3, <2>4 DEF RoomHandlerOK
    <2> HIDE DEF s
    <2> QED BY <1>1, <2>1, <2>3, <2>5, RoomMove
<1> QED BY <1>3, <1>4

(* INSERT: the name is new, so nobody else relies on it. *)
LEMMA RoomInserted ==
    ASSUME RoomInv, NEW w \in RoomWorkers, RoomInsert(w) PROVE RoomInv'
<1>1. PICK t \in RoomHandlers : t = rh[w] /\ RoomHandlerOK(t) /\ t.pc = "write" /\ t.op = "create" /\ t.name \in Names
    BY DEF RoomInv, RoomTypeOK, RoomInsert, RoomHandlerOK
<1>2. CASE ByName(t.name) # {} \/ nextRoom > MaxRooms
    BY <1>1, <1>2, RoomEnds DEF RoomInsert
<1>3. CASE ByName(t.name) = {} /\ ~(nextRoom > MaxRooms)
    <2>1. PICK k : k = nextRoom
        OBVIOUS
    <2>2. PICK s : s = [t EXCEPT !.pc = "reply", !.id = k]
        OBVIOUS
    <2>3. /\ k \in RoomIds /\ name' = [name EXCEPT ![k] = t.name] /\ nextRoom' = k + 1
          /\ rh' = [rh EXCEPT ![w] = s]
        <3>1. nextRoom <= MaxRooms /\ nextRoom \in Nat /\ nextRoom >= 1
            BY <1>1, <1>3, RoomBound DEF RoomInsert, RoomInv, RoomTypeOK
        <3>2. /\ name' = [name EXCEPT ![k] = t.name] /\ nextRoom' = k + 1 /\ rh' = [rh EXCEPT ![w] = s]
            BY <1>1, <1>3, <2>1, <2>2 DEF RoomInsert
        <3> QED BY <2>1, <3>1, <3>2, RoomBound DEF RoomIds
    <2>4. s \in RoomHandlers /\ s.pc = "reply" /\ s.id = k /\ s.name = t.name /\ s.op = "create"
        BY <1>1, <2>2, <2>3 DEF RoomHandlers
    <2>5. name \in [RoomIds -> Names \cup {NoName}] /\ rh \in [RoomWorkers -> RoomHandlers]
        BY DEF RoomInv, RoomTypeOK
    <2>6. \A r \in RoomIds : name'[r] = IF r = k THEN t.name ELSE name[r]
        BY <2>3, <2>5
    <2>7. name[k] = NoName /\ \A r \in RoomIds : name[r] # t.name
        BY <1>3, <2>1, <2>3, NameAssumption DEF RoomInv, LaterUnused, ByName, RoomIds
    <2>8. RoomTypeOK'
        BY <1>1, <2>3, <2>4, <2>5, RoomBound DEF RoomTypeOK, RoomIds
    <2>9. NamesUnique'
        BY <2>6, <2>7 DEF RoomInv, NamesUnique
    <2>10. LaterUnused'
        <3>1. k \in Int /\ \A r \in RoomIds : r \in Int
            BY <2>3 DEF RoomIds
        <3> QED BY <2>1, <2>3, <2>6, <3>1 DEF RoomInv, LaterUnused
    <2>11. \A n \in Names : ByName(n)' = IF n = t.name THEN {k} ELSE ByName(n)
        BY <2>3, <2>6, <2>7, NameAssumption DEF ByName
    <2>12. ASSUME NEW x \in RoomWorkers PROVE RoomHandlerOK(rh[x])'
        <3>1. CASE x = w
            <4>1. rh'[x] = s
                BY <2>3, <2>5, <3>1
            <4>2. ByName(s.name)' = {s.id}
                BY <1>1, <2>4, <2>11
            <4> QED BY <1>1, <2>4, <4>1, <4>2 DEF RoomHandlerOK
        <3>2. CASE x # w
            <4>1. PICK u \in RoomHandlers : u = rh[x] /\ u = rh'[x] /\ RoomHandlerOK(u)
                BY <2>3, <2>5, <3>2 DEF RoomInv
            <4>2. ASSUME u.pc \in {"delete", "reply"}, ~u.touched PROVE ByName(u.name)' = {u.id}
                <5>1. u.name \in Names /\ ByName(u.name) = {u.id}
                    BY <4>1, <4>2 DEF RoomHandlerOK
                <5>2. u.name # t.name
                    BY <1>3, <5>1
                <5> QED BY <2>11, <5>1, <5>2
            <4> QED BY <4>1, <4>2 DEF RoomHandlerOK
        <3> QED BY <3>1, <3>2
    <2> QED BY <2>8, <2>9, <2>10, <2>12 DEF RoomInv
<1> QED BY <1>2, <1>3

(* UPDATE: whoever relies on the name of the room is told, and nobody relies on
   the new one. *)
LEMMA RoomUpdated ==
    ASSUME RoomInv, NEW w \in RoomWorkers, RoomUpdate(w) PROVE RoomInv'
<1>1. PICK t \in RoomHandlers :
          t = rh[w] /\ t.pc = "write" /\ t.op = "update" /\ t.name \in Names /\ t.id \in RoomIds
    BY DEF RoomInv, RoomTypeOK, RoomUpdate, RoomHandlerOK
<1>2. CASE name[t.id] = NoName \/ ByName(t.name) \ {t.id} # {}
    BY <1>1, <1>2, RoomEnds DEF RoomUpdate
<1>3. CASE ~(name[t.id] = NoName \/ ByName(t.name) \ {t.id} # {})
    <2>1. PICK k \in RoomIds : k = t.id
        BY <1>1
    <2>2. /\ name' = [name EXCEPT ![k] = t.name] /\ nextRoom' = nextRoom
          /\ rh' = [v \in RoomWorkers |->
                       IF v = w THEN IdleRoom ELSE [rh[v] EXCEPT !.touched = @ \/ rh[v].id = k]]
        BY <1>1, <1>3, <2>1 DEF RoomUpdate, TouchAndGo
    <2>3. name \in [RoomIds -> Names \cup {NoName}] /\ rh \in [RoomWorkers -> RoomHandlers]
        BY DEF RoomInv, RoomTypeOK
    <2>4. \A r \in RoomIds : name'[r] = IF r = k THEN t.name ELSE name[r]
        BY <2>2, <2>3
    <2>5. name[k] # NoName /\ \A r \in RoomIds : name[r] = t.name => r = k
        BY <1>3, <2>1 DEF ByName
    <2>6. ASSUME NEW x \in RoomWorkers, x # w
          PROVE  \E u \in RoomHandlers :
                     /\ u = rh'[x] /\ u.pc = rh[x].pc /\ u.op = rh[x].op /\ u.id = rh[x].id /\ u.name = rh[x].name
                     /\ u.touched = (rh[x].touched \/ rh[x].id = k)
        <3> DEFINE u == [rh[x] EXCEPT !.touched = @ \/ rh[x].id = k]
        <3>1. u = rh'[x]
            BY <2>2, <2>6
        <3>2. u \in RoomHandlers /\ u.pc = rh[x].pc /\ u.op = rh[x].op /\ u.id = rh[x].id /\ u.name = rh[x].name
              /\ u.touched = (rh[x].touched \/ rh[x].id = k)
            BY <2>3 DEF RoomHandlers
        <3> HIDE DEF u
        <3> QED BY <3>1, <3>2
    <2>7. rh' \in [RoomWorkers -> RoomHandlers]
        BY <2>2, <2>6, IdleRoomOK
    <2>8. RoomTypeOK'
        BY <1>1, <2>2, <2>3, <2>7 DEF RoomInv, RoomTypeOK
    <2>9. NamesUnique'
        BY <2>4, <2>5 DEF RoomInv, NamesUnique
    <2>10. LaterUnused'
        BY <2>2, <2>4, <2>5 DEF RoomInv, LaterUnused
    <2>11. ASSUME NEW x \in RoomWorkers PROVE RoomHandlerOK(rh[x])'
        <3>1. CASE x = w
            BY <2>2, <3>1 DEF RoomHandlerOK, IdleRoom
        <3>2. CASE x # w
            <4>1. PICK u \in RoomHandlers :
                     /\ u = rh'[x] /\ u.pc = rh[x].pc /\ u.op = rh[x].op /\ u.id = rh[x].id /\ u.name = rh[x].name
                     /\ u.touched = (rh[x].touched \/ rh[x].id = k)
                BY <2>6, <3>2
            <4>2. RoomHandlerOK(rh[x])
                BY DEF RoomInv
            <4>3. ASSUME u.pc \in {"delete", "reply"}, ~u.touched PROVE ByName(u.name)' = {u.id}
                <5>1. u.name \in Names /\ ByName(u.name) = {u.id} /\ u.id # k
                    BY <4>1, <4>2, <4>3 DEF RoomHandlerOK
                <5>2. u.id \in RoomIds /\ name[u.id] = u.name
                    BY <5>1 DEF ByName
                <5>3. u.name # t.name
                    BY <2>5, <5>1, <5>2
                <5>4. name[k] # u.name
                    BY <5>1 DEF ByName
                <5>5. \A r \in RoomIds : name'[r] = u.name <=> name[r] = u.name
                    BY <2>4, <5>3, <5>4
                <5> QED BY <5>1, <5>5 DEF ByName
            <4>4. /\ u.pc = "find" \/ u.op = "update" => u.id \in RoomIds
                  /\ u.pc \in {"check", "write", "reply", "delete"} => u.name \in Names
                BY <4>1, <4>2 DEF RoomHandlerOK
            <4> QED BY <4>1, <4>3, <4>4 DEF RoomHandlerOK
        <3> QED BY <3>1, <3>2
    <2> QED BY <2>8, <2>9, <2>10, <2>11 DEF RoomInv
<1> QED BY <1>2, <1>3

(* DELETE by name. *)
LEMMA RoomDeleted ==
    ASSUME RoomInv, NEW w \in RoomWorkers, RoomDelete(w) PROVE RoomInv'
<1>1. PICK n, H : n = rh[w].name /\ H = Hit(w)
    OBVIOUS
<1>2. H = {r \in RoomIds : name[r] = n}
    BY <1>1 DEF Hit, ByName
<1>3. /\ name' = [r \in RoomIds |-> IF r \in H THEN NoName ELSE name[r]] /\ nextRoom' = nextRoom
      /\ rh' = [v \in RoomWorkers |->
                   IF v = w THEN IdleRoom ELSE [rh[v] EXCEPT !.touched = @ \/ rh[v].id \in H]]
    BY <1>1 DEF RoomDelete
<1>4. name \in [RoomIds -> Names \cup {NoName}] /\ rh \in [RoomWorkers -> RoomHandlers]
    BY DEF RoomInv, RoomTypeOK
<1>5. ASSUME NEW x \in RoomWorkers, x # w
      PROVE  \E u \in RoomHandlers :
                 /\ u = rh'[x] /\ u.pc = rh[x].pc /\ u.op = rh[x].op /\ u.id = rh[x].id /\ u.name = rh[x].name
                 /\ u.touched = (rh[x].touched \/ rh[x].id \in H)
    <2> DEFINE u == [rh[x] EXCEPT !.touched = @ \/ rh[x].id \in H]
    <2>1. u = rh'[x]
        BY <1>3, <1>5
    <2>2. u \in RoomHandlers /\ u.pc = rh[x].pc /\ u.op = rh[x].op /\ u.id = rh[x].id /\ u.name = rh[x].name
          /\ u.touched = (rh[x].touched \/ rh[x].id \in H)
        BY <1>4 DEF RoomHandlers
    <2> HIDE DEF u
    <2> QED BY <2>1, <2>2
<1>6. rh' \in [RoomWorkers -> RoomHandlers]
    BY <1>3, <1>5, IdleRoomOK
<1>7. RoomTypeOK' /\ NamesUnique' /\ LaterUnused'
    BY <1>3, <1>4, <1>6 DEF RoomInv, RoomTypeOK, NamesUnique, LaterUnused
<1>8. ASSUME NEW x \in RoomWorkers PROVE RoomHandlerOK(rh[x])'
    <2>1. CASE x = w
        BY <1>3, <2>1 DEF RoomHandlerOK, IdleRoom
    <2>2. CASE x # w
        <3>1. PICK u \in RoomHandlers :
                 /\ u = rh'[x] /\ u.pc = rh[x].pc /\ u.op = rh[x].op /\ u.id = rh[x].id /\ u.name = rh[x].name
                 /\ u.touched = (rh[x].touched \/ rh[x].id \in H)
            BY <1>5, <2>2
        <3>2. RoomHandlerOK(rh[x])
            BY DEF RoomInv
        <3>3. ASSUME u.pc \in {"delete", "reply"}, ~u.touched PROVE ByName(u.name)' = {u.id}
            <4>1. u.name \in Names /\ ByName(u.name) = {u.id} /\ u.id \notin H
                BY <3>1, <3>2, <3>3 DEF RoomHandlerOK
            <4>2. u.id \in RoomIds /\ name[u.id] = u.name
                BY <4>1 DEF ByName
            <4>3. u.name # n /\ u.name # NoName
                BY <1>2, <4>1, <4>2, NameAssumption
            <4>4. \A r \in RoomIds : name'[r] = u.name <=> name[r] = u.name
                BY <1>2, <1>3, <4>3
            <4> QED BY <4>1, <4>4 DEF ByName
        <3>4. /\ u.pc = "find" \/ u.op = "update" => u.id \in RoomIds
              /\ u.pc \in {"check", "write", "reply", "delete"} => u.name \in Names
            BY <3>1, <3>2 DEF RoomHandlerOK
        <3> QED BY <3>1, <3>3, <3>4 DEF RoomHandlerOK
    <2> QED BY <2>1, <2>2
<1> QED BY <1>7, <1>8 DEF RoomInv

(* All steps of room handlers but the deletion keep the rooms there are. *)
RoomsKept == \A r \in RoomIds : name[r] # NoName => name'[r] # NoName

LEMMA RoomStepInv ==
    ASSUME RoomInv, NEW w \in RoomWorkers, RoomStep(w) \/ RoomCheckFails(w) \/ RoomFails(w)
    PROVE  RoomInv' /\ RoomsKept
<1>1. CASE RoomCheck(w) \/ RoomCheckFails(w) \/ RoomFind(w) \/ RoomReply(w) \/ RoomFails(w)
    <2>1. RoomInv'
        BY <1>1, RoomChecked, RoomFound, RoomEnds DEF RoomReply, RoomFails
    <2>2. name' = name
        BY <1>1 DEF RoomCheck, RoomCheckFails, RoomFind, RoomReply, RoomFails
    <2> QED BY <2>1, <2>2 DEF RoomsKept
<1>2. CASE RoomInsert(w)
    <2>1. rh[w].name # NoName
        BY <1>2, NameAssumption DEF RoomInsert, RoomInv, RoomHandlerOK
    <2>2. RoomsKept
        BY <1>2, <2>1 DEF RoomInsert, RoomsKept, RoomInv, RoomTypeOK
    <2> QED BY <1>2, <2>2, RoomInserted
<1>3. CASE RoomUpdate(w)
    <2>1. rh[w].name # NoName
        BY <1>3, NameAssumption DEF RoomUpdate, RoomInv, RoomHandlerOK
    <2>2. RoomsKept
        BY <1>3, <2>1 DEF RoomUpdate, RoomsKept, RoomInv, RoomTypeOK
    <2> QED BY <1>3, <2>2, RoomUpdated
<1> QED BY <1>1, <1>2, <1>3 DEF RoomStep

(* As many ids as names, and every name used: no name is used twice. *)
LEMMA RoomInitInv ==
    ASSUME NEW n, IsFiniteSet(n), n \subseteq Names, Cardinality(n) <= MaxRooms, RoomInit(n) PROVE RoomInv
<1>1. Cardinality(n) \in Nat
    BY FS_CardinalityType
<1>2. PICK c \in Nat : c = Cardinality(n)
    BY <1>1
<1>3. nextRoom = c + 1 /\ name \in [RoomIds -> n \cup {NoName}] /\ rh = [w \in RoomWorkers |-> IdleRoom]
      /\ c <= MaxRooms /\ \A r \in RoomIds : name[r] # NoName <=> r < nextRoom
    BY <1>2 DEF RoomInit
<1>4. RoomTypeOK
    BY <1>3, IdleRoomOK, RoomBound DEF RoomTypeOK
<1>5. LaterUnused
    BY <1>3 DEF LaterUnused, RoomIds
<1>6. NamesUnique
    <2> DEFINE f == [r \in 1..c |-> name[r]]
    <2>1. 1..c \subseteq RoomIds /\ \A r \in RoomIds : r \in 1..c <=> name[r] # NoName
        BY <1>3, RoomBound DEF RoomIds
    <2>2. f \in [1..c -> n]
        BY <1>3, <2>1
    <2>3. \A x \in n : \E r \in 1..c : f[r] = x
        <3> SUFFICES ASSUME NEW x \in n PROVE \E r \in 1..c : f[r] = x
            OBVIOUS
        <3>1. PICK r \in RoomIds : name[r] = x
            BY DEF RoomInit
        <3>2. x # NoName
            BY NameAssumption
        <3> QED BY <2>1, <3>1, <3>2
    <2>4. f \in Surjection(1..c, n)
        <3> HIDE DEF f
        <3> QED BY <2>2, <2>3 DEF Surjection
    <2>5. IsFiniteSet(1..c) /\ Cardinality(1..c) = c
        BY FS_Interval
    <2>6. f \in Injection(1..c, n)
        <3> HIDE DEF f
        <3> QED BY <1>2, <2>4, <2>5, FS_SurjSameCardinalityImpliesInj
    <2>7. \A r, q \in 1..c : f[r] = f[q] => r = q
        <3> HIDE DEF f
        <3> QED BY <2>2, <2>6 DEF Injection, IsInjective
    <2>8. \A r, q \in 1..c : name[r] = name[q] => r = q
        BY <2>7
    <2> QED BY <2>1, <2>8 DEF NamesUnique
<1>7. \A w \in RoomWorkers : RoomHandlerOK(rh[w])
    BY <1>3, IdleRoomOK
<1> QED BY <1>4, <1>5, <1>6, <1>7 DEF RoomInv

(***************************************************************************)
(* Things                                                                  *)
(***************************************************************************)

(* A task that has tried has time left, and to add a device is never in vain. *)
TaskOK(t) ==
    /\ t.tried => t.age < Window
    /\ t.kind = "add" => t.known

(* While the service answers, a device that is being added is added at the
   first attempt, and whoever waits for that waits within the first round. *)
Calm ==
    /\ up
    /\ \A t \in tasks : t.key \notin things =>
          IF t.kind = "add" THEN ~t.tried
          ELSE t.known => t.age = 0 /\ \E u \in tasks : u.kind = "add" /\ u.key = t.key

ThingInv ==
    /\ ThingTypeOK
    /\ \A t \in tasks : TaskOK(t)
    /\ ~disturbed => Calm /\ missed = {}

(* The service knows k, is being told of it, or lacks a report of it. *)
Settled(k) == Adding(k) \/ k \in missed

(* Nobody forgets a device that is being added. *)
AddingKept == \A k \in AnyKey : Settled(k) => Settled(k)'

(* What an attempt or a round leaves of a task. *)
SameTask(t, u) ==
    /\ u \in Tasks /\ u.kind = t.kind /\ u.key = t.key /\ u.known = t.known

LEMMA ThingInitInv ==
    ASSUME ThingInit PROVE ThingInv
BY DEF ThingInit, ThingInv, ThingTypeOK, TaskOK, Calm

LEMMA TaskIsOK ==
    ASSUME ThingInv, NEW kind \in Kinds, NEW k \in Keys, NEW t, t = Task(kind, k)
    PROVE  /\ t \in Tasks /\ TaskOK(t) /\ t.kind = kind /\ t.key = k /\ t.age = 0 /\ ~t.tried
           /\ t.known => kind = "add" \/ Adding(k)
<1>1. spawned \in Nat /\ Window \in Nat \ {0}
    BY ThingAssumption DEF ThingInv, ThingTypeOK
<1>2. PICK known \in BOOLEAN : known = (kind = "add" \/ Adding(k))
    OBVIOUS
<1>3. t = [n |-> spawned, kind |-> kind, key |-> k, known |-> known, age |-> 0, tried |-> FALSE]
    BY <1>2 DEF Task
<1>4. 0 \in 0..Window
    BY <1>1
<1>5. t \in Tasks
    BY <1>1, <1>2, <1>3, <1>4 DEF Tasks
<1>6. t.kind = kind /\ t.key = k /\ t.known = known /\ t.age = 0 /\ t.tried = FALSE
    BY <1>3
<1> QED BY <1>2, <1>5, <1>6 DEF TaskOK

LEMMA SpawnInv ==
    ASSUME ThingInv, NEW kind \in Kinds, NEW k \in AnyKey, Spawn(kind, k),
           UNCHANGED <<things, up, missed, disturbed>>
    PROVE  ThingInv' /\ AddingKept /\ (kind = "add" /\ k \in Keys => Settled(k)')
<1>1. CASE k \notin Keys
    <2>1. tasks' = tasks /\ spawned' = spawned + 1
        BY <1>1 DEF Spawn
    <2>2. ThingTypeOK'
        BY <2>1 DEF ThingInv, ThingTypeOK
    <2>3. Calm => Calm'
        BY <2>1 DEF Calm
    <2>4. AddingKept
        BY <2>1 DEF AddingKept, Settled, Adding
    <2>5. \A u \in tasks' : TaskOK(u)
        BY <2>1 DEF ThingInv
    <2> QED BY <1>1, <2>2, <2>3, <2>4, <2>5 DEF ThingInv
<1>2. CASE k \in Keys
    <2>1. PICK t : t = Task(kind, k)
        OBVIOUS
    <2>2. /\ t \in Tasks /\ TaskOK(t) /\ t.kind = kind /\ t.key = k /\ t.age = 0 /\ ~t.tried
          /\ t.known => kind = "add" \/ Adding(k)
        BY <1>2, <2>1, TaskIsOK
    <2>3. tasks' = tasks \cup {t} /\ spawned' = spawned + 1
        BY <1>2, <2>1 DEF Spawn
    <2>4. ThingTypeOK'
        BY <2>2, <2>3 DEF ThingInv, ThingTypeOK
    <2>5. \A u \in tasks' : TaskOK(u)
        BY <2>2, <2>3 DEF ThingInv
    <2>6. ASSUME ~disturbed' PROVE Calm'
        <3>1. Calm
            BY <2>6 DEF ThingInv
        <3>2. ASSUME NEW u \in tasks', u.key \notin things'
              PROVE  IF u.kind = "add" THEN ~u.tried
                     ELSE u.known => u.age = 0 /\ \E v \in tasks' : v.kind = "add" /\ v.key = u.key
            <4>1. CASE u \in tasks
                BY <2>3, <3>1, <3>2, <4>1 DEF Calm
            <4>2. CASE u = t
                BY <2>2, <2>3, <3>2, <4>2 DEF Adding
            <4> QED BY <2>3, <4>1, <4>2
        <3> QED BY <3>1, <3>2 DEF Calm
    <2>7. AddingKept
        BY <2>3 DEF AddingKept, Settled, Adding
    <2>8. kind = "add" => Settled(k)'
        BY <2>2, <2>3 DEF Settled, Adding
    <2> QED BY <2>4, <2>5, <2>6, <2>7, <2>8 DEF ThingInv
<1> QED BY <1>1, <1>2

(* The service does what t asks for: its device is known from now on. *)
LEMMA AttemptInv ==
    ASSUME ThingInv, NEW t \in tasks, Attempt(t) PROVE ThingInv' /\ AddingKept
<1>1. tasks' = tasks \ {t} /\ things' = things \cup {t.key} /\ UNCHANGED <<up, spawned, missed, disturbed>>
    BY DEF Attempt
<1>2. t \in Tasks
    BY DEF ThingInv, ThingTypeOK
<1>3. t.key \in Keys
    BY <1>2 DEF Tasks
<1>4. ThingTypeOK'
    BY <1>1, <1>3 DEF ThingInv, ThingTypeOK
<1>5. \A u \in tasks' : TaskOK(u)
    BY <1>1 DEF ThingInv
<1>6. Calm => Calm'
    BY <1>1 DEF Calm
<1>7. AddingKept
    BY <1>1 DEF AddingKept, Settled, Adding
<1> QED BY <1>1, <1>4, <1>5, <1>6, <1>7 DEF ThingInv

(* The task that t becomes, if it goes on. *)
LEMMA AgainTask ==
    ASSUME ThingInv, NEW t \in tasks, ~GivesUp(t)
    PROVE  \E u : u = [t EXCEPT !.tried = TRUE] /\ SameTask(t, u) /\ TaskOK(u) /\ u.age = t.age
<1> DEFINE u == [t EXCEPT !.tried = TRUE]
<1>1. t \in Tasks /\ TaskOK(t)
    BY DEF ThingInv, ThingTypeOK
<1>2. u \in Tasks /\ u.kind = t.kind /\ u.key = t.key /\ u.known = t.known /\ u.age = t.age
    BY <1>1 DEF Tasks
<1>3. t.age < Window
    BY <1>1, ThingAssumption DEF GivesUp, Tasks
<1>4. TaskOK(u)
    <2> HIDE DEF u
    <2> QED BY <1>1, <1>2, <1>3 DEF TaskOK
<1> HIDE DEF u
<1>5. \E v : v = u
    OBVIOUS
<1> QED BY <1>2, <1>4 DEF u, SameTask

LEMMA AgainOK ==
    ASSUME ThingInv, NEW t \in tasks, tasks' = Again(t)
    PROVE  /\ tasks' \subseteq Tasks /\ \A u \in tasks' : TaskOK(u)
           /\ \A v \in tasks : v = t \/ v \in tasks'
           /\ \A u \in tasks' : u \in tasks \/ (~GivesUp(t) /\ SameTask(t, u) /\ u.age = t.age)
           /\ ~GivesUp(t) => \E u \in tasks' : SameTask(t, u)
<1>1. tasks \subseteq Tasks /\ \A u \in tasks : TaskOK(u)
    BY DEF ThingInv, ThingTypeOK
<1>2. CASE GivesUp(t)
    BY <1>1, <1>2 DEF Again
<1>3. CASE ~GivesUp(t)
    <2>1. PICK u : u = [t EXCEPT !.tried = TRUE] /\ SameTask(t, u) /\ TaskOK(u) /\ u.age = t.age
        BY <1>3, AgainTask
    <2>2. tasks' = (tasks \ {t}) \cup {u}
        BY <1>3, <2>1 DEF Again
    <2>3. u \in Tasks
        BY <2>1 DEF SameTask
    <2> QED BY <1>1, <1>3, <2>1, <2>2, <2>3
<1> QED BY <1>2, <1>3

(* An attempt fails without an outage only for want of the device, and then
   the task has more than this round. *)
LEMMA AttemptFailsInv ==
    ASSUME ThingInv, NEW t \in tasks, AttemptFails(t) PROVE ThingInv' /\ AddingKept
<1>1. tasks' = Again(t) /\ UNCHANGED <<things, up, spawned, disturbed>> /\ ~t.tried /\ ~Accepts(t)
      /\ missed' = IF GivesUp(t) /\ t.known /\ ~(t.kind = "add" /\ t.key \in things)
                   THEN missed \cup {t.key} ELSE missed
    <2>1. Lost({t}) = IF t.known /\ ~(t.kind = "add" /\ t.key \in things) THEN {t.key} ELSE {}
        BY DEF Lost
    <2> QED BY <2>1 DEF AttemptFails
<1>2. t \in Tasks /\ TaskOK(t) /\ t.key \in Keys
    BY DEF ThingInv, ThingTypeOK, Tasks
<1>3. /\ tasks' \subseteq Tasks /\ \A u \in tasks' : TaskOK(u)
      /\ \A v \in tasks : v = t \/ v \in tasks'
      /\ \A u \in tasks' : u \in tasks \/ (~GivesUp(t) /\ SameTask(t, u) /\ u.age = t.age)
      /\ ~GivesUp(t) => \E u \in tasks' : SameTask(t, u)
    BY <1>1, AgainOK
<1>4. ThingTypeOK'
    BY <1>1, <1>2, <1>3 DEF ThingInv, ThingTypeOK
<1>5. ASSUME ~disturbed PROVE Calm' /\ missed' = {}
    <2>1. Calm /\ missed = {}
        BY <1>5 DEF ThingInv
    <2>2. t.kind # "add" => t.key \notin things
        BY <1>1, <2>1 DEF Accepts, Calm
    <2>3. t.kind = "add" => t.key \in things
        BY <1>1, <2>1 DEF Accepts, Calm
    <2>4. missed' = {}
        BY <1>1, <2>1, <2>2, <2>3, ThingAssumption DEF Calm, GivesUp
    <2>5. ASSUME NEW u \in tasks', u.key \notin things
          PROVE  IF u.kind = "add" THEN ~u.tried
                 ELSE u.known => u.age = 0 /\ \E v \in tasks' : v.kind = "add" /\ v.key = u.key
        <3>1. PICK v \in tasks : v.kind = u.kind /\ v.key = u.key /\ v.known = u.known /\ v.age = u.age
                                 /\ (u.kind = "add" => u = v)
            BY <1>3, <2>3, <2>5 DEF SameTask
        <3>2. u.kind = "add" => ~u.tried
            BY <2>1, <2>5, <3>1 DEF Calm
        <3>3. ASSUME u.kind # "add", u.known PROVE u.age = 0 /\ \E x \in tasks' : x.kind = "add" /\ x.key = u.key
            <4>1. u.age = 0 /\ \E x \in tasks : x.kind = "add" /\ x.key = u.key
                BY <2>1, <2>5, <3>1, <3>3 DEF Calm
            <4>2. PICK x \in tasks : x.kind = "add" /\ x.key = u.key
                BY <4>1
            <4>3. x # t
                BY <2>3, <2>5, <4>2
            <4> QED BY <1>3, <4>1, <4>2, <4>3
        <3> QED BY <3>2, <3>3
    <2> QED BY <1>1, <2>1, <2>4, <2>5 DEF Calm
<1>6. ASSUME NEW k \in AnyKey, Adding(k) PROVE Settled(k)'
    <2>1. CASE k \in things
        BY <1>1, <2>1 DEF Settled, Adding
    <2>2. CASE k \notin things
        <3>1. PICK v \in tasks : v.kind = "add" /\ v.key = k
            BY <1>6, <2>2 DEF Adding
        <3>2. CASE v # t
            BY <1>3, <3>1, <3>2 DEF Settled, Adding
        <3>3. CASE v = t /\ ~GivesUp(t)
            BY <1>3, <3>1, <3>3 DEF Settled, Adding, SameTask
        <3>4. CASE v = t /\ GivesUp(t)
            BY <1>1, <1>2, <2>2, <3>1, <3>4 DEF TaskOK, Settled
        <3> QED BY <3>2, <3>3, <3>4
    <2> QED BY <2>1, <2>2
<1>7. missed \subseteq missed'
    BY <1>1
<1> QED BY <1>1, <1>3, <1>4, <1>5, <1>6, <1>7 DEF ThingInv, AddingKept, Settled

LEMMA AnswerLostInv ==
    ASSUME ThingInv, NEW t \in tasks, AnswerLost(t) PROVE ThingInv' /\ AddingKept
<1>1. /\ tasks' = Again(t) /\ things' = things \cup {t.key} /\ disturbed' = TRUE
      /\ UNCHANGED <<up, spawned, missed>>
    BY DEF AnswerLost
<1>2. t \in Tasks /\ t.key \in Keys
    BY DEF ThingInv, ThingTypeOK, Tasks
<1>3. /\ tasks' \subseteq Tasks /\ \A u \in tasks' : TaskOK(u)
      /\ \A v \in tasks : v = t \/ v \in tasks'
    BY <1>1, AgainOK
<1>4. ThingTypeOK'
    BY <1>1, <1>2, <1>3 DEF ThingInv, ThingTypeOK
<1>5. AddingKept
    BY <1>1, <1>3 DEF AddingKept, Settled, Adding
<1> QED BY <1>1, <1>3, <1>4, <1>5 DEF ThingInv

(* No round begins while a device is being added and the service answers. *)
LEMMA RoundInv ==
    ASSUME ThingInv, Round PROVE ThingInv' /\ AddingKept
<1> DEFINE N(t) == [t EXCEPT !.age = @ + 1, !.tried = FALSE]
<1>1. /\ \A t \in tasks : t.tried
      /\ tasks' = {N(t) : t \in tasks} /\ UNCHANGED <<things, up, spawned, missed, disturbed>>
    BY DEF Round
<1>2. \A t \in tasks : SameTask(t, N(t)) /\ TaskOK(N(t))
    <2> SUFFICES ASSUME NEW t \in tasks PROVE SameTask(t, N(t)) /\ TaskOK(N(t))
        OBVIOUS
    <2>1. t \in Tasks /\ TaskOK(t) /\ t.tried
        BY <1>1 DEF ThingInv, ThingTypeOK
    <2>2. t.age + 1 \in 0..Window
        BY <2>1, ThingAssumption DEF TaskOK, Tasks
    <2>3. N(t) \in Tasks /\ N(t).kind = t.kind /\ N(t).key = t.key
          /\ N(t).known = t.known /\ N(t).tried = FALSE
        BY <2>1, <2>2 DEF Tasks
    <2> HIDE DEF N
    <2> QED BY <2>1, <2>3 DEF SameTask, TaskOK
<1> HIDE DEF N
<1>3. ThingTypeOK'
    BY <1>1, <1>2 DEF ThingInv, ThingTypeOK, SameTask
<1>4. \A u \in tasks' : TaskOK(u)
    BY <1>1, <1>2
<1>5. ASSUME Calm PROVE Calm'
    <2>1. \A t \in tasks : t.key \notin things => t.kind # "add" /\ ~t.known
        BY <1>1, <1>5 DEF Calm
    <2>2. \A u \in tasks' : u.key \notin things => u.kind # "add" /\ ~u.known
        BY <1>1, <1>2, <2>1 DEF SameTask
    <2> QED BY <1>1, <1>5, <2>2 DEF Calm
<1>6. AddingKept
    BY <1>1, <1>2 DEF AddingKept, Settled, Adding, SameTask
<1> QED BY <1>1, <1>3, <1>4, <1>5, <1>6 DEF ThingInv

(* The other steps leave the tasks alone, or end them all. *)
LEMMA ServiceInv ==
    ASSUME ThingInv, ServiceGoes \/ ServiceReturns PROVE ThingInv' /\ AddingKept
<1>1. UNCHANGED <<things, tasks, spawned, missed>> /\ up' \in BOOLEAN
      /\ (disturbed' = TRUE \/ (disturbed' = disturbed /\ up' = TRUE))
    BY DEF ServiceGoes, ServiceReturns
<1>2. ThingTypeOK'
    BY <1>1 DEF ThingInv, ThingTypeOK
<1>3. \A t \in tasks' : TaskOK(t)
    BY <1>1 DEF ThingInv
<1>4. ~disturbed' => Calm' /\ missed' = {}
    BY <1>1 DEF ThingInv, Calm
<1>5. AddingKept
    BY <1>1 DEF AddingKept, Settled, Adding
<1> QED BY <1>2, <1>3, <1>4, <1>5 DEF ThingInv

LEMMA TasksStay ==
    ASSUME ThingInv, UNCHANGED thingVars
    PROVE  ThingInv' /\ AddingKept
<1>1. ThingTypeOK'
    BY DEF thingVars, ThingInv, ThingTypeOK
<1>2. Calm => Calm'
    BY DEF thingVars, Calm
<1>3. AddingKept
    BY DEF thingVars, AddingKept, Settled, Adding
<1>4. \A t \in tasks' : TaskOK(t)
    BY DEF thingVars, ThingInv
<1> QED BY <1>1, <1>2, <1>3, <1>4 DEF ThingInv, thingVars

LEMMA TasksDieInv ==
    ASSUME ThingInv, TasksDie
    PROVE  ThingInv' /\ AddingKept
<1>1. /\ tasks' = {} /\ missed' = missed \cup Lost(tasks) /\ disturbed' = TRUE
      /\ UNCHANGED <<things, up, spawned>>
    BY DEF TasksDie
<1>2. \A t \in tasks : t \in Tasks /\ TaskOK(t) /\ t.key \in Keys
    BY DEF ThingInv, ThingTypeOK, Tasks
<1>3. Lost(tasks) \subseteq Keys
    BY <1>2 DEF Lost
<1>4. ThingTypeOK' /\ \A t \in tasks' : TaskOK(t)
    BY <1>1, <1>3 DEF ThingInv, ThingTypeOK
<1>5. ASSUME NEW k \in AnyKey, Settled(k) PROVE Settled(k)'
    <2>1. CASE k \in things \/ k \in missed
        BY <1>1, <2>1 DEF Settled, Adding
    <2>2. CASE k \notin things /\ k \notin missed
        <3>1. PICK v \in tasks : v.kind = "add" /\ v.key = k
            BY <1>5, <2>2 DEF Settled, Adding
        <3>2. v.known
            BY <1>2, <3>1 DEF TaskOK
        <3>3. k \in Lost(tasks)
            BY <2>2, <3>1, <3>2 DEF Lost
        <3> QED BY <1>1, <3>3 DEF Settled
    <2> QED BY <2>1, <2>2
<1> QED BY <1>1, <1>4, <1>5 DEF ThingInv, AddingKept


(***************************************************************************)
(* Devices, their rooms and their reports                                  *)
(***************************************************************************)

(* The part of the type invariant that is neither about rooms nor things. *)
DeviceTypeOK ==
    /\ dev \in [Devices -> Row] /\ dh \in [Workers -> DeviceHandlers]
    /\ \A d \in Devices : dev[d].room = NoRoom \/ name[dev[d].room] # NoName
    /\ excused \subseteq Devices
    /\ requests \in 0..MaxRequests /\ faults \in 0..MaxFaults

(* A handler that has a copy of a row. *)
Copying(s) == s.op \in {"put", "lease"} /\ s.pc # "find"

(* Only a PUT comes to the report at the end, and only a PUT turns collecting
   on. *)
HandlerOK(s) ==
    /\ s.pc = "report" => s.op = "put"
    /\ s.op = "put" => s.d \in Devices
    /\ Copying(s) => /\ s.d \in Devices /\ s.row.state = "row"
                     /\ s.op = "lease" /\ s.row.collect => s.before

(* The row of a copy is still there, and has the identity that was written. *)
CopyOK(s) ==
    Copying(s) => \/ s.d \in excused
                  \/ /\ dev[s.d].state = "row"
                     /\ s.pc = "report" => dev[s.d].key = s.row.key

(* A handler that will report its device, and one whose copy says that data is
   collected and that somebody else has reported it. *)
Reporting(s) == s.pc = "report" /\ s.row.collect /\ ~s.before
Relying(s) == Copying(s) /\ s.row.collect /\ s.before

Accounted(d) ==
    \/ d \in excused \/ Settled(dev[d].key)
    \/ \E w \in Workers : Reporting(dh[w]) /\ dh[w].d = d

Collecting(d) == dev[d].state = "row" /\ dev[d].collect

(* The inductive invariant.  That collected devices are accounted for is not
   inductive alone: a PUT or a lease writes back the copy it took, and reports
   nothing if the copy was already collecting, so copies must be accounted for
   as well, and by the identity that the row has when they are written. *)
ContextInv ==
    /\ RoomInv /\ ThingInv /\ DeviceTypeOK
    /\ \A w \in Workers : HandlerOK(dh[w]) /\ CopyOK(dh[w])
    /\ \A w \in Workers : Relying(dh[w]) => Accounted(dh[w].d)
    /\ \A d \in Devices : Collecting(d) => Accounted(d)

LEMMA ContextImplies ==
    ASSUME ContextInv
    PROVE  ContextTypeOK /\ RoomOfRequest /\ CollectedIsReported /\ NoOutageNoLoss
<1>1. ContextTypeOK
    BY DEF ContextInv, RoomInv, ThingInv, DeviceTypeOK, ContextTypeOK
<1>2. RoomOfRequest
    BY DEF ContextInv, RoomInv, RoomHandlerOK, RoomOfRequest
<1>3. CollectedIsReported
    BY DEF ContextInv, Collecting, Accounted, Settled, Reporting, CollectedIsReported, StillToReport
<1>4. NoOutageNoLoss
    BY DEF ContextInv, ThingInv, NoOutageNoLoss
<1> QED BY <1>1, <1>2, <1>3, <1>4

LEMMA NoRowOK ==
    NoRow \in Row /\ NoRow.room = NoRoom /\ NoRow.collect = FALSE /\ NoRow.state = "new"
BY DEF NoRow, Row, AnyKey

LEMMA IdleDeviceOK ==
    /\ IdleDevice \in DeviceHandlers /\ IdleDevice.op = "post" /\ IdleDevice.pc = "idle"
    /\ HandlerOK(IdleDevice) /\ ~Copying(IdleDevice)
<1>1. IdleDevice \in DeviceHandlers /\ IdleDevice.op = "post" /\ IdleDevice.pc = "idle"
    BY NoRowOK DEF IdleDevice, DeviceHandlers, Wishes
<1> QED BY <1>1 DEF HandlerOK, Copying

LEMMA ContextInitInv ==
    ASSUME Init PROVE ContextInv
<1>1. RoomInv
    BY RoomInitInv, ContextAssumption DEF Init
<1>2. ThingInv
    BY ThingInitInv DEF Init
<1>3. \A d \in Devices : dev[d] = NoRow
    BY DEF Init
<1>4. \A w \in Workers : dh[w] = IdleDevice
    BY DEF Init
<1>5. DeviceTypeOK
    <2>1. dev \in [Devices -> Row] /\ dh \in [Workers -> DeviceHandlers]
        BY NoRowOK, IdleDeviceOK DEF Init
    <2>2. 0 \in 0..MaxRequests /\ 0 \in 0..MaxFaults
        BY ContextAssumption
    <2>3. \A d \in Devices : dev[d].room = NoRoom
        BY <1>3, NoRowOK
    <2> QED BY <2>1, <2>2, <2>3 DEF Init, DeviceTypeOK
<1>6. \A w \in Workers : HandlerOK(dh[w]) /\ CopyOK(dh[w]) /\ ~Relying(dh[w])
    BY <1>4, IdleDeviceOK DEF CopyOK, Relying
<1>7. \A d \in Devices : ~Collecting(d)
    BY <1>3, NoRowOK DEF Collecting
<1> QED BY <1>1, <1>2, <1>5, <1>6, <1>7 DEF ContextInv

(* A row stays, with its identity, or its device is excused. *)
RowsKept ==
    /\ excused \subseteq excused'
    /\ \A d \in Devices : dev[d].state = "row" =>
          d \in excused' \/ (dev'[d].state = "row" /\ dev'[d].key = dev[d].key)

(* What handler x still has to report is not forgotten. *)
Handed(x) ==
    Reporting(dh[x]) =>
        \/ Reporting(dh'[x]) /\ dh'[x].d = dh[x].d
        \/ \E d \in Devices : d = dh[x].d /\ (d \in excused' \/ Settled(dev[d].key)')

(* What all steps have in common: an account is handed on, and what is newly
   relied on or newly collected has one. *)
LEMMA AccountKept ==
    ASSUME ContextInv, AddingKept, RowsKept, \A x \in Workers : Handed(x),
           NEW d \in Devices, d \in excused \/ dev[d].state = "row", Accounted(d)
    PROVE  Accounted(d)'
<1>1. CASE d \in excused'
    BY <1>1 DEF Accounted
<1>2. CASE d \notin excused'
    <2>1. dev'[d].key = dev[d].key /\ dev[d].key \in AnyKey
        BY <1>2 DEF RowsKept, ContextInv, DeviceTypeOK, Row
    <2>2. CASE Settled(dev[d].key)
        <3>1. PICK k \in AnyKey : k = dev[d].key /\ k = dev'[d].key
            BY <2>1
        <3>2. Settled(k)'
            BY <2>2, <3>1 DEF AddingKept
        <3> QED BY <3>1, <3>2 DEF Accounted
    <2>3. CASE \E w \in Workers : Reporting(dh[w]) /\ dh[w].d = d
        <3>1. PICK w \in Workers : Reporting(dh[w]) /\ dh[w].d = d
            BY <2>3
        <3>2. CASE Reporting(dh'[w]) /\ dh'[w].d = d
            BY <3>2 DEF Accounted, Reporting
        <3>3. CASE Settled(dev[d].key)'
            BY <3>3 DEF Accounted
        <3> QED BY <1>2, <3>1, <3>2, <3>3 DEF Handed
    <2> QED BY <1>2, <2>2, <2>3 DEF Accounted, RowsKept
<1> QED BY <1>1, <1>2

(* A handler that does not move finds its row as it was. *)
LEMMA CopyKept ==
    ASSUME RowsKept, NEW s, HandlerOK(s), CopyOK(s) PROVE CopyOK(s)'
BY DEF RowsKept, CopyOK, HandlerOK

(* s relies on an account there is, or on one there will be. *)
Relies(s) ==
    Relying(s) => \E d \in Devices :
        /\ d = s.d
        /\ Accounted(d)' \/ (Accounted(d) /\ (d \in excused \/ dev[d].state = "row"))

LEMMA ContextStep ==
    ASSUME ContextInv, RoomInv', ThingInv', AddingKept, DeviceTypeOK', RowsKept,
           \A x \in Workers : Handed(x),
           \A x \in Workers : dh'[x] = dh[x] \/ (HandlerOK(dh'[x]) /\ CopyOK(dh[x])' /\ Relies(dh'[x])),
           \A d \in Devices : Collecting(d)' => Collecting(d) \/ Accounted(d)'
    PROVE  ContextInv'
<1>1. ASSUME NEW x \in Workers
      PROVE  HandlerOK(dh'[x]) /\ CopyOK(dh[x])' /\ (Relying(dh[x])' => Accounted(dh[x].d)')
    <2>1. PICK s : s = dh'[x]
        OBVIOUS
    <2>2. HandlerOK(s) /\ CopyOK(s)' /\ Relies(s)
        <3>1. CASE s = dh[x]
            <4>1. HandlerOK(s) /\ CopyOK(s) /\ (Relying(s) => Accounted(s.d))
                BY <3>1 DEF ContextInv
            <4>2. CopyOK(s)'
                BY <4>1, CopyKept
            <4>3. Relying(s) => s.d \in Devices /\ (s.d \in excused \/ dev[s.d].state = "row")
                BY <4>1 DEF Relying, HandlerOK, CopyOK
            <4> QED BY <4>1, <4>2, <4>3 DEF Relies
        <3>2. CASE HandlerOK(dh'[x]) /\ CopyOK(dh[x])' /\ Relies(dh'[x])
            BY <2>1, <3>2 DEF CopyOK
        <3> QED BY <2>1, <3>1, <3>2
    <2>3. ASSUME Relying(s) PROVE Accounted(s.d)'
        <3>1. PICK d \in Devices : /\ d = s.d
                                   /\ Accounted(d)' \/ (Accounted(d) /\ (d \in excused \/ dev[d].state = "row"))
            BY <2>2, <2>3 DEF Relies
        <3>2. Accounted(d)'
            BY <3>1, AccountKept
        <3> QED BY <3>1, <3>2
    <2> QED BY <2>1, <2>2, <2>3 DEF CopyOK, Relying, Copying, Accounted
<1>2. ASSUME NEW d \in Devices, Collecting(d)' PROVE Accounted(d)'
    <2>1. CASE Collecting(d)
        <3>1. Accounted(d) /\ dev[d].state = "row"
            BY <2>1 DEF ContextInv, Collecting
        <3> QED BY <3>1, AccountKept
    <2> QED BY <1>2, <2>1
<1>3. \A x \in Workers : HandlerOK(dh[x])'
    BY <1>1 DEF HandlerOK, Copying
<1> QED BY <1>1, <1>2, <1>3 DEF ContextInv

LEMMA RoomsStay ==
    ASSUME RoomInv, UNCHANGED roomVars PROVE RoomInv' /\ RoomsKept
<1>1. UNCHANGED <<name, nextRoom, rh>>
    BY DEF roomVars
<1> QED BY <1>1 DEF RoomInv, RoomTypeOK, NamesUnique, LaterUnused, RoomHandlerOK, ByName, RoomsKept

LEMMA BoundsKept ==
    ASSUME ContextInv, Request \/ Fault \/ UNCHANGED bounds
    PROVE  requests' \in 0..MaxRequests /\ faults' \in 0..MaxFaults
BY ContextAssumption DEF ContextInv, DeviceTypeOK, Request, Fault, bounds

(* Handler w goes on as s. *)
LEMMA HandlerStep ==
    ASSUME ContextInv, NEW w \in Workers, NEW s \in DeviceHandlers, dh' = [dh EXCEPT ![w] = s],
           HandlerOK(s), CopyOK(s)', Relies(s),
           Reporting(dh[w]) => \/ Reporting(s) /\ s.d = dh[w].d
                               \/ \E d \in Devices : d = dh[w].d /\ (d \in excused' \/ Settled(dev[d].key)'),
           UNCHANGED roomVars, ThingInv', AddingKept, RowsKept, excused' \subseteq Devices,
           dev' \in [Devices -> Row],
           \A d \in Devices : dev'[d].room = NoRoom \/ name[dev'[d].room] # NoName,
           Request \/ Fault \/ UNCHANGED bounds,
           \A d \in Devices : Collecting(d)' => Collecting(d) \/ Accounted(d)'
    PROVE  ContextInv'
<1>1. dh \in [Workers -> DeviceHandlers]
    BY DEF ContextInv, DeviceTypeOK
<1>2. dh' \in [Workers -> DeviceHandlers] /\ \A x \in Workers : dh'[x] = IF x = w THEN s ELSE dh[x]
    BY <1>1
<1>3. RoomInv' /\ name' = name
    BY RoomsStay DEF ContextInv, roomVars
<1>4. requests' \in 0..MaxRequests /\ faults' \in 0..MaxFaults
    BY BoundsKept
<1>5. DeviceTypeOK'
    BY <1>2, <1>3, <1>4 DEF DeviceTypeOK
<1>6. \A x \in Workers : Handed(x)
    BY <1>2 DEF Handed
<1>7. ASSUME NEW x \in Workers, x = w PROVE HandlerOK(dh'[x]) /\ CopyOK(dh[x])' /\ Relies(dh'[x])
    <2>1. dh'[x] = s
        BY <1>2, <1>7
    <2> QED BY <2>1 DEF CopyOK, Copying
<1>8. \A x \in Workers : dh'[x] = dh[x] \/ (HandlerOK(dh'[x]) /\ CopyOK(dh[x])' /\ Relies(dh'[x]))
    BY <1>2, <1>7
<1> QED BY <1>3, <1>5, <1>6, <1>8, ContextStep

(* A handler goes on and leaves the tables and tasks alone. *)
LEMMA HandlerMove ==
    ASSUME ContextInv, NEW w \in Workers, NEW s \in DeviceHandlers, dh' = [dh EXCEPT ![w] = s],
           HandlerOK(s), CopyOK(s), Relying(s) => Accounted(s.d),
           UNCHANGED <<roomVars, thingVars, dev>>,
           excused \subseteq excused', excused' \subseteq Devices,
           Request \/ Fault \/ UNCHANGED bounds,
           Reporting(dh[w]) => dh[w].d \in excused'
    PROVE  ContextInv'
<1>1. ThingInv' /\ AddingKept
    BY TasksStay DEF ContextInv
<1>2. RowsKept
    BY DEF RowsKept
<1>3. CopyOK(s)'
    BY <1>2, CopyKept
<1>4. Relies(s)
    BY DEF Relies, Relying, HandlerOK, CopyOK
<1>5. dev \in [Devices -> Row] /\ \A d \in Devices : dev[d].room = NoRoom \/ name[dev[d].room] # NoName
    BY DEF ContextInv, DeviceTypeOK
<1>6. \A d \in Devices : Collecting(d)' => Collecting(d)
    BY DEF Collecting
<1> QED BY <1>1, <1>2, <1>3, <1>4, <1>5, <1>6, HandlerStep

LEMMA HandlerReturns ==
    ASSUME ContextInv, NEW w \in Workers, DeviceReturn(w), UNCHANGED <<roomVars, thingVars, dev>>,
           excused \subseteq excused', excused' \subseteq Devices,
           Request \/ Fault \/ UNCHANGED bounds,
           Reporting(dh[w]) => dh[w].d \in excused'
    PROVE  ContextInv'
<1>1. CopyOK(IdleDevice) /\ ~Relying(IdleDevice)
    BY IdleDeviceOK DEF CopyOK, Relying
<1> QED BY <1>1, IdleDeviceOK, HandlerMove DEF DeviceReturn

LEMMA NewDeviceOK ==
    ASSUME NEW r \in RoomIds \cup {NoRoom}, NEW collect \in BOOLEAN, NEW k \in AnyKey,
           NEW s, s = NewDevice(r, collect, k)
    PROVE  s \in DeviceHandlers /\ s.op = "post" /\ s.pc \in {"load", "write"}
           /\ HandlerOK(s) /\ ~Copying(s)
<1> DEFINE row == [state |-> "row", room |-> r, collect |-> collect, key |-> k]
<1>1. row \in Row
    BY DEF Row
<1>2. AfterRow(row) \in {"load", "write"}
    BY DEF AfterRow
<1> HIDE DEF row
<1>3. s = [IdleDevice EXCEPT !.op = "post", !.pc = AfterRow(row), !.row = row]
    BY DEF NewDevice, row
<1>4. s \in DeviceHandlers /\ s.op = "post" /\ s.pc \in {"load", "write"}
    BY <1>1, <1>2, <1>3, IdleDeviceOK DEF DeviceHandlers
<1> QED BY <1>4 DEF HandlerOK, Copying

LEMMA BeginPostInv ==
    ASSUME ContextInv, NEW w \in Workers, NEW r \in RoomIds \cup {NoRoom}, NEW collect \in BOOLEAN,
           NEW k \in AnyKey, BeginPost(w, r, collect, k)
    PROVE  ContextInv'
<1>1. PICK s : s = NewDevice(r, collect, k)
    OBVIOUS
<1>2. /\ dh' = [dh EXCEPT ![w] = s] /\ dh[w].pc = "idle" /\ Request
      /\ UNCHANGED <<roomVars, thingVars, dev, excused>> /\ excused \subseteq Devices
    BY <1>1 DEF BeginPost, ContextInv, DeviceTypeOK
<1>3. s \in DeviceHandlers /\ HandlerOK(s) /\ CopyOK(s) /\ ~Relying(s) /\ ~Reporting(dh[w])
    BY <1>1, <1>2, NewDeviceOK DEF CopyOK, Relying, Reporting
<1> QED BY <1>2, <1>3, HandlerMove

LEMMA BeginPutInv ==
    ASSUME ContextInv, NEW w \in Workers, NEW d \in Devices, NEW r \in RoomIds \cup {NoRoom},
           NEW want \in Wishes, NEW rekey \in BOOLEAN, NEW k \in AnyKey, NEW guess \in BOOLEAN,
           BeginPut(w, d, r, want, rekey, k, guess)
    PROVE  ContextInv'
<1> DEFINE row == [NoRow EXCEPT !.room = r, !.key = k]
           s == [IdleDevice EXCEPT !.op = "put", !.pc = "find", !.d = d, !.row = row, !.want = want,
                                   !.rekey = rekey, !.guess = guess]
<1>1. /\ dh' = [dh EXCEPT ![w] = s] /\ dh[w].pc = "idle" /\ Request
      /\ UNCHANGED <<roomVars, thingVars, dev, excused>> /\ excused \subseteq Devices
    BY DEF BeginPut, ContextInv, DeviceTypeOK
<1>2. row \in Row
    BY NoRowOK DEF Row
<1>3. s \in DeviceHandlers /\ s.op = "put" /\ s.pc = "find" /\ s.d = d
    <2> HIDE DEF row
    <2> QED BY <1>2, IdleDeviceOK DEF DeviceHandlers
<1> HIDE DEF s, row
<1>4. HandlerOK(s) /\ CopyOK(s) /\ ~Relying(s) /\ ~Reporting(dh[w])
    BY <1>1, <1>3 DEF HandlerOK, CopyOK, Copying, Relying, Reporting
<1> QED BY <1>1, <1>3, <1>4, HandlerMove

LEMMA BeginLeaseInv ==
    ASSUME ContextInv, NEW w \in Workers, NEW k \in AnyKey, NEW collect \in BOOLEAN,
           BeginLease(w, k, collect)
    PROVE  ContextInv'
<1> DEFINE row == [NoRow EXCEPT !.collect = collect, !.key = k]
           s == [IdleDevice EXCEPT !.op = "lease", !.pc = "find", !.row = row]
<1>1. /\ dh' = [dh EXCEPT ![w] = s] /\ dh[w].pc = "idle" /\ Request
      /\ UNCHANGED <<roomVars, thingVars, dev, excused>> /\ excused \subseteq Devices
    BY DEF BeginLease, ContextInv, DeviceTypeOK
<1>2. row \in Row
    BY NoRowOK DEF Row, AnyKey
<1>3. s \in DeviceHandlers /\ s.op = "lease" /\ s.pc = "find"
    <2> HIDE DEF row
    <2> QED BY <1>2, IdleDeviceOK DEF DeviceHandlers
<1> HIDE DEF s, row
<1>4. HandlerOK(s) /\ CopyOK(s) /\ ~Relying(s) /\ ~Reporting(dh[w])
    BY <1>1, <1>3 DEF HandlerOK, CopyOK, Copying, Relying, Reporting
<1> QED BY <1>1, <1>3, <1>4, HandlerMove

(* The copy that is taken has the account of the row. *)
LEMMA ChangedDeviceOK ==
    ASSUME ContextInv, NEW t \in DeviceHandlers, t.op \in {"put", "lease"}, NEW d \in Devices,
           dev[d].state = "row", NEW row \in Row, row.state = "row",
           t.op = "lease" => row.collect = dev[d].collect,
           NEW s, s = ChangedDevice(t, d, row)
    PROVE  /\ s \in DeviceHandlers /\ HandlerOK(s) /\ CopyOK(s)
           /\ Relying(s) => Accounted(s.d)
<1>1. dev[d].collect \in BOOLEAN /\ AfterRow(row) \in {"load", "write"}
    BY DEF ContextInv, DeviceTypeOK, Row, AfterRow
<1>2. s = [t EXCEPT !.pc = AfterRow(row), !.d = d, !.row = row, !.before = dev[d].collect,
                    !.want = "keep", !.rekey = FALSE]
    BY DEF ChangedDevice
<1>3. /\ s \in DeviceHandlers /\ s.op = t.op /\ s.pc \in {"load", "write"} /\ s.d = d /\ s.row = row
      /\ s.before = dev[d].collect
    BY <1>1, <1>2 DEF DeviceHandlers, Wishes
<1>4. HandlerOK(s) /\ CopyOK(s)
    BY <1>3 DEF HandlerOK, CopyOK, Copying
<1>5. Relying(s) => Accounted(s.d)
    BY <1>3 DEF Relying, ContextInv, Collecting
<1> QED BY <1>3, <1>4, <1>5

LEMMA FindInv ==
    ASSUME ContextInv, NEW w \in Workers, Find(w) PROVE ContextInv'
<1>1. PICK t \in DeviceHandlers : t = dh[w] /\ t.pc = "find" /\ t.op = "put" /\ HandlerOK(t)
    BY DEF ContextInv, DeviceTypeOK, Find
<1>2. PICK d \in Devices : d = t.d
    BY <1>1 DEF HandlerOK
<1>3. PICK o \in Row : o = dev[d]
    BY DEF ContextInv, DeviceTypeOK
<1>4. UNCHANGED <<roomVars, thingVars, dev, excused, bounds>> /\ excused \subseteq Devices
    BY DEF Find, ContextInv, DeviceTypeOK
<1>5. ~Reporting(t)
    BY <1>1 DEF Reporting
<1>6. CASE o.state # "row"
    <2>1. DeviceReturn(w)
        BY <1>1, <1>2, <1>3, <1>6 DEF Find
    <2> QED BY <1>1, <1>4, <1>5, <2>1, HandlerReturns
<1>7. CASE o.state = "row"
    <2> DEFINE row == [o EXCEPT !.room = IF t.row.room = NoRoom THEN @ ELSE t.row.room,
                                !.collect = IF t.want = "keep" THEN @ ELSE t.want = "on",
                                !.key = IF t.rekey THEN t.row.key ELSE @]
    <2>1. t.row.room \in RoomIds \cup {NoRoom} /\ t.row.key \in AnyKey
        BY DEF DeviceHandlers, Row
    <2>2. row \in Row /\ row.state = "row"
        BY <1>7, <2>1 DEF Row
    <2>3. dh' = [dh EXCEPT ![w] = ChangedDevice(t, d, row)]
        BY <1>1, <1>2, <1>3, <1>7 DEF Find
    <2> HIDE DEF row
    <2>4. PICK s : s = ChangedDevice(t, d, row)
        OBVIOUS
    <2>5. s \in DeviceHandlers /\ HandlerOK(s) /\ CopyOK(s) /\ (Relying(s) => Accounted(s.d))
        BY <1>1, <1>3, <1>7, <2>2, <2>4, ChangedDeviceOK
    <2> QED BY <1>1, <1>4, <1>5, <2>3, <2>4, <2>5, HandlerMove
<1> QED BY <1>6, <1>7

LEMMA LeaseFindInv ==
    ASSUME ContextInv, NEW w \in Workers, LeaseFind(w) \/ LeaseFindFails(w) PROVE ContextInv'
<1>1. PICK t \in DeviceHandlers : t = dh[w] /\ t.pc = "find" /\ t.op = "lease"
    BY DEF ContextInv, DeviceTypeOK, LeaseFind, LeaseFindFails
<1>2. PICK k \in AnyKey, collect \in BOOLEAN : k = t.row.key /\ collect = t.row.collect
    BY DEF DeviceHandlers, Row
<1>3. UNCHANGED <<roomVars, thingVars, dev, excused>> /\ (Fault \/ UNCHANGED bounds) /\ excused \subseteq Devices
    BY DEF LeaseFind, LeaseFindFails, ContextInv, DeviceTypeOK
<1>4. ~Reporting(t)
    BY <1>1 DEF Reporting
<1>5. CASE \E d \in Devices : \E key \in {k, dev[d].key} :
              /\ dev[d].state = "row"
              /\ dh' = [dh EXCEPT ![w] = ChangedDevice(dh[w], d, [dev[d] EXCEPT !.key = key])]
    <2>1. PICK d \in Devices : \E key \in {k, dev[d].key} :
              /\ dev[d].state = "row"
              /\ dh' = [dh EXCEPT ![w] = ChangedDevice(dh[w], d, [dev[d] EXCEPT !.key = key])]
        BY <1>5
    <2>2. dev[d] \in Row
        BY DEF ContextInv, DeviceTypeOK
    <2>3. PICK key \in AnyKey :
              /\ dev[d].state = "row"
              /\ dh' = [dh EXCEPT ![w] = ChangedDevice(dh[w], d, [dev[d] EXCEPT !.key = key])]
        BY <2>1, <2>2 DEF Row
    <2> DEFINE row == [dev[d] EXCEPT !.key = key]
    <2>4. row \in Row /\ row.state = "row" /\ row.collect = dev[d].collect
        BY <2>2, <2>3 DEF Row
    <2>5. dh' = [dh EXCEPT ![w] = ChangedDevice(t, d, row)]
        BY <1>1, <2>3
    <2> HIDE DEF row
    <2>6. PICK s : s = ChangedDevice(t, d, row)
        OBVIOUS
    <2>7. s \in DeviceHandlers /\ HandlerOK(s) /\ CopyOK(s) /\ (Relying(s) => Accounted(s.d))
        BY <1>1, <2>3, <2>4, <2>6, ChangedDeviceOK
    <2> QED BY <1>1, <1>3, <1>4, <2>5, <2>6, <2>7, HandlerMove
<1>6. CASE dh' = [dh EXCEPT ![w] = NewDevice(NoRoom, collect, k)]
    <2>1. PICK s : s = NewDevice(NoRoom, collect, k)
        OBVIOUS
    <2>2. s \in DeviceHandlers /\ HandlerOK(s) /\ CopyOK(s) /\ ~Relying(s)
        BY <2>1, NewDeviceOK DEF CopyOK, Relying
    <2> QED BY <1>1, <1>3, <1>4, <1>6, <2>1, <2>2, HandlerMove
<1> QED BY <1>1, <1>2, <1>5, <1>6 DEF LeaseFind, LeaseFindFails

LEMMA LoadRoomInv ==
    ASSUME ContextInv, NEW w \in Workers, LoadRoom(w) PROVE ContextInv'
<1>1. PICK t \in DeviceHandlers : /\ t = dh[w] /\ t.pc = "load" /\ HandlerOK(t) /\ CopyOK(t)
                                  /\ (Relying(t) => Accounted(t.d))
    BY DEF ContextInv, DeviceTypeOK, LoadRoom
<1>2. UNCHANGED <<roomVars, thingVars, dev, excused, bounds>> /\ excused \subseteq Devices
    BY DEF LoadRoom, ContextInv, DeviceTypeOK
<1>3. ~Reporting(t)
    BY <1>1 DEF Reporting
<1>4. CASE ~Found(t.row)
    BY <1>1, <1>2, <1>3, <1>4, HandlerReturns DEF LoadRoom
<1>5. CASE Found(t.row)
    <2> DEFINE s == [t EXCEPT !.pc = "write"]
    <2>1. dh' = [dh EXCEPT ![w] = s]
        BY <1>1, <1>5 DEF LoadRoom
    <2>2. /\ s \in DeviceHandlers /\ s.op = t.op /\ s.pc = "write" /\ s.d = t.d
          /\ s.row = t.row /\ s.before = t.before
        BY DEF DeviceHandlers
    <2> HIDE DEF s
    <2>3. HandlerOK(s) /\ CopyOK(s) /\ (Relying(s) => Accounted(s.d))
        BY <1>1, <2>2 DEF HandlerOK, CopyOK, Copying, Relying
    <2> QED BY <1>1, <1>2, <1>3, <2>1, <2>2, <2>3, HandlerMove
<1> QED BY <1>4, <1>5

LEMMA HandlerFailsInv ==
    ASSUME ContextInv, NEW w \in Workers, HandlerFails(w) PROVE ContextInv'
<1>1. PICK t \in DeviceHandlers : t = dh[w] /\ HandlerOK(t)
    BY DEF ContextInv, DeviceTypeOK
<1>2. excused \subseteq Devices
    BY DEF ContextInv, DeviceTypeOK
<1>3. excused' = IF Reporting(t) THEN excused \cup {t.d} ELSE excused
    BY <1>1 DEF HandlerFails, NewlyCollected, Excuse, Reporting
<1>4. DeviceReturn(w) /\ Fault /\ UNCHANGED <<roomVars, thingVars, dev>>
    BY DEF HandlerFails
<1>5. excused \subseteq excused' /\ excused' \subseteq Devices /\ (Reporting(t) => t.d \in excused')
    BY <1>1, <1>2, <1>3 DEF Reporting, HandlerOK
<1> QED BY <1>1, <1>4, <1>5, HandlerReturns

(* A report is spawned, or excused because the device has no identity. *)
LEMMA ReportSpawned ==
    ASSUME ContextInv, NEW d \in Devices, NEW k \in AnyKey, Spawn("add", k), Excuse(d, k, TRUE),
           UNCHANGED <<things, up, missed, disturbed>>
    PROVE  /\ ThingInv' /\ AddingKept
           /\ excused \subseteq excused' /\ excused' \subseteq Devices
           /\ Settled(k)' \/ d \in excused'
<1>1. ThingInv' /\ AddingKept /\ (k \in Keys => Settled(k)')
    BY SpawnInv DEF ContextInv, Kinds
<1>2. excused \subseteq Devices /\ (excused' = IF k \in Keys THEN excused ELSE excused \cup {d})
    BY DEF ContextInv, DeviceTypeOK, Excuse
<1> QED BY <1>1, <1>2

(* Nobody has a copy of a row that is not there yet. *)
LEMMA InsertInv ==
    ASSUME ContextInv, NEW w \in Workers, Insert(w) PROVE ContextInv'
<1>1. PICK t \in DeviceHandlers : t = dh[w] /\ t.pc = "write" /\ t.op = "post"
    BY DEF ContextInv, DeviceTypeOK, Insert
<1>2. PICK row \in Row : row = t.row
    BY DEF DeviceHandlers
<1>3. /\ UNCHANGED <<roomVars, things, up, missed, disturbed, bounds>> /\ DeviceReturn(w)
      /\ excused \subseteq Devices
    BY DEF Insert, ContextInv, DeviceTypeOK
<1>4. ~Reporting(t)
    BY <1>1 DEF Reporting
<1>5. CASE ~(Found(row) /\ New # {})
    <2>1. UNCHANGED <<dev, tasks, spawned, excused>>
        BY <1>1, <1>2, <1>5 DEF Insert
    <2> QED BY <1>1, <1>3, <1>4, <2>1, HandlerReturns DEF thingVars
<1>6. CASE Found(row) /\ New # {}
    <2>1. PICK d \in Devices : dev[d].state = "new" /\ InsertRow(d, row)
        BY <1>1, <1>2, <1>6 DEF Insert, New
    <2>2. dev' = [dev EXCEPT ![d] = row] /\ dev \in [Devices -> Row]
        BY <2>1 DEF InsertRow, ContextInv, DeviceTypeOK
    <2>3. dev' \in [Devices -> Row] /\ \A c \in Devices : dev'[c] = IF c = d THEN row ELSE dev[c]
        BY <2>2
    <2>4. PICK k \in AnyKey : k = row.key
        BY DEF Row
    <2>5. /\ ThingInv' /\ AddingKept
          /\ excused \subseteq excused' /\ excused' \subseteq Devices
          /\ row.collect => Settled(k)' \/ d \in excused'
        <3>1. CASE row.collect
            BY <1>3, <2>1, <2>4, <3>1, ReportSpawned DEF InsertRow
        <3>2. CASE ~row.collect
            BY <1>3, <2>1, <3>2, TasksStay DEF InsertRow, ContextInv, thingVars
        <3> QED BY <3>1, <3>2
    <2>6. RowsKept
        BY <2>1, <2>3, <2>5 DEF RowsKept
    <2>7. CopyOK(IdleDevice)' /\ Relies(IdleDevice)
        BY IdleDeviceOK DEF CopyOK, Relies, Relying
    <2>8. \A c \in Devices : dev'[c].room = NoRoom \/ name[dev'[c].room] # NoName
        BY <1>6, <2>3 DEF Found, ContextInv, DeviceTypeOK
    <2>9. ASSUME row.collect PROVE Accounted(d)'
        <3>1. dev'[d].key = k
            BY <2>3, <2>4
        <3> QED BY <2>5, <2>9, <3>1 DEF Accounted
    <2>10. \A c \in Devices : Collecting(c)' => Collecting(c) \/ Accounted(c)'
        BY <2>3, <2>9 DEF Collecting
    <2> QED BY <1>1, <1>3, <1>4, <2>3, <2>5, <2>6, <2>7, <2>8, <2>10, IdleDeviceOK, HandlerStep
            DEF DeviceReturn
<1> QED BY <1>5, <1>6

(* The copy that is written has an account, or the handler will report it. *)
LEMMA UpdateInv ==
    ASSUME ContextInv, NEW w \in Workers, Update(w) PROVE ContextInv'
<1>1. PICK t \in DeviceHandlers : /\ t = dh[w] /\ t.pc = "write" /\ t.op \in {"put", "lease"} /\ HandlerOK(t)
                                  /\ CopyOK(t) /\ (Relying(t) => Accounted(t.d))
    BY DEF ContextInv, DeviceTypeOK, Update
<1>2. PICK d \in Devices, row \in Row : d = t.d /\ row = t.row /\ row.state = "row"
    BY <1>1 DEF DeviceHandlers, HandlerOK, Copying
<1>3. UNCHANGED <<roomVars, thingVars, bounds>> /\ excused \subseteq Devices
    BY DEF Update, ContextInv, DeviceTypeOK
<1>4. ~Reporting(t)
    BY <1>1 DEF Reporting
<1>5. CASE ~(dev[d].state # "row" \/ Found(row))
    <2>1. DeviceReturn(w) /\ UNCHANGED <<dev, excused>>
        BY <1>1, <1>2, <1>5 DEF Update
    <2> QED BY <1>1, <1>3, <1>4, <2>1, HandlerReturns
<1>6. CASE dev[d].state # "row" \/ Found(row)
    <2>1. /\ dev' = IF dev[d].state = "row" THEN [dev EXCEPT ![d] = row] ELSE dev
          /\ excused' = IF dev[d].state = "row" /\ dev[d].key = row.key THEN excused ELSE excused \cup {d}
          /\ IF t.op = "put" THEN dh' = [dh EXCEPT ![w].pc = "report"] ELSE DeviceReturn(w)
        BY <1>1, <1>2, <1>6 DEF Update
    <2>2. dev \in [Devices -> Row]
        BY DEF ContextInv, DeviceTypeOK
    <2>3. /\ dev' \in [Devices -> Row]
          /\ \A c \in Devices : dev'[c] = IF c = d /\ dev[d].state = "row" THEN row ELSE dev[c]
        BY <2>1, <2>2
    <2>4. /\ excused \subseteq excused' /\ excused' \subseteq Devices
          /\ d \in excused' \/ (dev[d].state = "row" /\ dev[d].key = row.key /\ dev'[d] = row)
        BY <1>3, <2>1, <2>3
    <2>5. RowsKept
        BY <1>2, <2>3, <2>4 DEF RowsKept
    <2>6. ThingInv' /\ AddingKept
        BY <1>3, TasksStay DEF ContextInv
    <2>7. \A c \in Devices : dev'[c].room = NoRoom \/ name[dev'[c].room] # NoName
        BY <1>6, <2>3 DEF Found, ContextInv, DeviceTypeOK
    <2>8. PICK s : s = IF t.op = "put" THEN [t EXCEPT !.pc = "report"] ELSE IdleDevice
        OBVIOUS
    <2>9. dh' = [dh EXCEPT ![w] = s]
        BY <1>1, <2>1, <2>8 DEF DeviceReturn
    <2>10. s \in DeviceHandlers /\ HandlerOK(s) /\ CopyOK(s)' /\ (Relying(s) => Relying(t) /\ s.d = d)
           /\ (t.op = "put" /\ row.collect /\ ~t.before => Reporting(s) /\ s.d = d)
        <3>1. CASE t.op = "put"
            <4>1. /\ s \in DeviceHandlers /\ s.op = "put" /\ s.pc = "report" /\ s.d = d
                  /\ s.row = row /\ s.before = t.before
                BY <1>2, <2>8, <3>1 DEF DeviceHandlers
            <4>2. HandlerOK(s) /\ CopyOK(s)'
                BY <1>2, <2>4, <4>1 DEF HandlerOK, CopyOK, Copying
            <4>3. Relying(s) => Relying(t)
                BY <1>1, <1>2, <4>1 DEF Relying, Copying
            <4> QED BY <4>1, <4>2, <4>3 DEF Reporting
        <3>2. CASE t.op # "put"
            BY <2>8, <3>2, IdleDeviceOK DEF CopyOK, Relying
        <3> QED BY <3>1, <3>2
    <2>11. d \in excused \/ dev[d].state = "row"
        BY <1>1, <1>2 DEF CopyOK, Copying
    <2>12. Relies(s)
        BY <1>1, <1>2, <2>10, <2>11 DEF Relies
    <2>13. \A x \in Workers : Handed(x)
        <3>1. \A x \in Workers : x # w => dh'[x] = dh[x]
            BY <2>9 DEF ContextInv, DeviceTypeOK
        <3> QED BY <1>1, <1>4, <3>1 DEF Handed
    <2>14. ASSUME row.collect, t.op = "put" \/ t.before PROVE Accounted(d)'
        <3>1. CASE t.before
            <4>1. Accounted(d)
                BY <1>1, <1>2, <2>14, <3>1 DEF Relying, Copying
            <4> QED BY <2>5, <2>6, <2>11, <2>13, <4>1, AccountKept
        <3>2. CASE ~t.before
            <4>1. Reporting(s) /\ s.d = d
                BY <2>10, <2>14, <3>2
            <4>2. dh'[w] = s
                BY <2>9 DEF ContextInv, DeviceTypeOK
            <4> QED BY <4>1, <4>2 DEF Accounted, Reporting
        <3> QED BY <3>1, <3>2
    <2>15. t.op = "lease" /\ row.collect => t.before
        BY <1>1, <1>2 DEF HandlerOK, Copying
    <2>16. \A c \in Devices : Collecting(c)' => Collecting(c) \/ Accounted(c)'
        BY <1>1, <2>3, <2>14, <2>15 DEF Collecting
    <2> QED BY <1>1, <1>3, <1>4, <2>3, <2>4, <2>5, <2>6, <2>7, <2>9, <2>10, <2>12, <2>16, HandlerStep
<1> QED BY <1>5, <1>6

(* Somebody returns from the end of PUT: the report, under the identity that the
   row has, is on its way or excused. *)
LEMMA ReportInv ==
    ASSUME ContextInv, NEW w \in Workers, Report(w) PROVE ContextInv'
<1>1. PICK t \in DeviceHandlers : t = dh[w] /\ t.pc = "report" /\ HandlerOK(t) /\ CopyOK(t)
    BY DEF ContextInv, DeviceTypeOK, Report
<1>2. PICK d \in Devices, k \in AnyKey : d = t.d /\ k = t.row.key
    BY <1>1 DEF DeviceHandlers, HandlerOK, Row
<1>3. /\ UNCHANGED <<roomVars, things, up, missed, disturbed, dev, bounds>> /\ DeviceReturn(w)
      /\ excused \subseteq Devices
    BY DEF Report, ContextInv, DeviceTypeOK
<1>4. NewlyCollected(w) <=> Reporting(t)
    BY <1>1 DEF NewlyCollected, Reporting
<1>5. d \in excused \/ dev[d].key = k
    BY <1>1, <1>2 DEF CopyOK, HandlerOK, Copying
<1>6. /\ ThingInv' /\ AddingKept
      /\ excused \subseteq excused' /\ excused' \subseteq Devices
      /\ Reporting(t) => Settled(k)' \/ d \in excused'
    <2>1. CASE t.guess
        <3>1. Spawn("describe", k)
            BY <1>1, <1>2, <2>1 DEF Report
        <3>2. ThingInv' /\ AddingKept
            BY <1>3, <3>1, SpawnInv DEF ContextInv, Kinds
        <3>3. excused' = IF Reporting(t) THEN excused \cup {d} ELSE excused
            BY <1>1, <1>2, <1>4, <2>1 DEF Report, Excuse
        <3> QED BY <1>3, <3>2, <3>3
    <2>2. CASE ~t.guess /\ Reporting(t)
        BY <1>1, <1>2, <1>3, <1>4, <2>2, ReportSpawned DEF Report
    <2>3. CASE ~t.guess /\ ~Reporting(t)
        BY <1>1, <1>2, <1>3, <1>4, <2>3, TasksStay DEF Report, ContextInv, thingVars
    <2> QED BY <2>1, <2>2, <2>3
<1>7. RowsKept
    BY <1>3, <1>6 DEF RowsKept
<1>8. CopyOK(IdleDevice)' /\ Relies(IdleDevice)
    BY IdleDeviceOK DEF CopyOK, Relies, Relying
<1>9. Reporting(t) => d \in excused' \/ Settled(dev[d].key)'
    <2>1. ASSUME Settled(k)', dev[d].key = k PROVE Settled(dev[d].key)'
        <3>1. dev'[d].key = k
            BY <1>3, <2>1
        <3> QED BY <2>1, <3>1
    <2> QED BY <1>5, <1>6, <2>1
<1>10. /\ dev' \in [Devices -> Row]
       /\ \A c \in Devices : dev'[c].room = NoRoom \/ name[dev'[c].room] # NoName
    BY <1>3 DEF ContextInv, DeviceTypeOK
<1>11. \A c \in Devices : Collecting(c)' => Collecting(c) \/ Accounted(c)'
    BY <1>3 DEF Collecting
<1> QED BY <1>1, <1>2, <1>3, <1>6, <1>7, <1>8, <1>9, <1>10, <1>11, IdleDeviceOK, HandlerStep
        DEF DeviceReturn

(* Steps that no device handler takes. *)
LEMMA OthersMove ==
    ASSUME ContextInv, RoomInv', ThingInv', AddingKept, dh' = dh, DeviceTypeOK', RowsKept,
           \A c \in Devices : Collecting(c)' => Collecting(c)
    PROVE  ContextInv'
<1>1. \A x \in Workers : Handed(x)
    BY DEF Handed
<1> QED BY <1>1, ContextStep

LEMMA DeleteDeviceInv ==
    ASSUME ContextInv, NEW d \in Devices, DeleteDevice(d) PROVE ContextInv'
<1> DEFINE row == [NoRow EXCEPT !.state = "gone"]
<1>1. /\ Request /\ dev' = [dev EXCEPT ![d] = row] /\ excused' = excused \cup {d}
      /\ UNCHANGED <<roomVars, thingVars, dh>>
    BY DEF DeleteDevice
<1>2. row \in Row /\ row.room = NoRoom /\ row.state = "gone"
    BY NoRowOK DEF Row
<1> HIDE DEF row
<1>3. dev' \in [Devices -> Row] /\ \A c \in Devices : dev'[c] = IF c = d THEN row ELSE dev[c]
    BY <1>1, <1>2 DEF ContextInv, DeviceTypeOK
<1>4. RoomInv' /\ ThingInv' /\ AddingKept /\ name' = name
    BY <1>1, RoomsStay, TasksStay DEF ContextInv, roomVars
<1>5. requests' \in 0..MaxRequests /\ faults' \in 0..MaxFaults
    BY <1>1, BoundsKept
<1>6. DeviceTypeOK'
    BY <1>1, <1>2, <1>3, <1>4, <1>5 DEF ContextInv, DeviceTypeOK
<1>7. RowsKept
    BY <1>1, <1>3 DEF RowsKept
<1>8. \A c \in Devices : Collecting(c)' => Collecting(c)
    BY <1>2, <1>3 DEF Collecting
<1> QED BY <1>1, <1>4, <1>6, <1>7, <1>8, OthersMove

LEMMA RoomRequestInv ==
    ASSUME ContextInv, RoomInv', RoomsKept, UNCHANGED <<thingVars, dev, dh, excused>>,
           Request \/ Fault \/ UNCHANGED bounds
    PROVE  ContextInv'
<1>1. ThingInv' /\ AddingKept
    BY TasksStay DEF ContextInv
<1>2. requests' \in 0..MaxRequests /\ faults' \in 0..MaxFaults
    BY BoundsKept
<1>3. ASSUME NEW c \in Devices PROVE dev[c].room = NoRoom \/ name'[dev[c].room] # NoName
    <2>1. dev[c].room \in RoomIds \cup {NoRoom} /\ (dev[c].room = NoRoom \/ name[dev[c].room] # NoName)
        BY DEF ContextInv, DeviceTypeOK, Row
    <2> QED BY <2>1 DEF RoomsKept
<1>4. DeviceTypeOK'
    BY <1>2, <1>3 DEF ContextInv, DeviceTypeOK
<1>5. RowsKept /\ \A c \in Devices : Collecting(c)' => Collecting(c)
    BY DEF RowsKept, Collecting
<1> QED BY <1>1, <1>4, <1>5, OthersMove

(* ON DELETE SET NULL. *)
LEMMA DeleteRoomInv ==
    ASSUME ContextInv, NEW w \in RoomWorkers, DeleteRoom(w) PROVE ContextInv'
<1>1. RoomDelete(w) /\ Detach(w) /\ UNCHANGED <<thingVars, dh, excused, bounds>>
    BY DEF DeleteRoom
<1>2. RoomInv'
    BY <1>1, RoomDeleted DEF ContextInv
<1>3. ThingInv' /\ AddingKept
    BY <1>1, TasksStay DEF ContextInv
<1>4. dev \in [Devices -> Row]
    BY DEF ContextInv, DeviceTypeOK
<1>5. PICK H : H = Hit(w)
    OBVIOUS
<1>6. /\ name' = [r \in RoomIds |-> IF r \in H THEN NoName ELSE name[r]]
      /\ dev' = [d \in Devices |-> IF dev[d].room \in H THEN [dev[d] EXCEPT !.room = NoRoom] ELSE dev[d]]
    BY <1>1, <1>5 DEF RoomDelete, Detach
<1>7. ASSUME NEW c \in Devices
      PROVE  /\ dev'[c] \in Row /\ dev'[c].collect = dev[c].collect /\ dev'[c].key = dev[c].key
             /\ dev'[c].state = dev[c].state
             /\ dev'[c].room = NoRoom \/ name'[dev'[c].room] # NoName
    <2>1. CASE dev[c].room \in H
        <3> DEFINE o == [dev[c] EXCEPT !.room = NoRoom]
        <3>1. o \in Row /\ o.collect = dev[c].collect /\ o.key = dev[c].key /\ o.state = dev[c].state
              /\ o.room = NoRoom
            BY <1>4 DEF Row
        <3>2. dev'[c] = o
            BY <1>6, <2>1
        <3> HIDE DEF o
        <3> QED BY <3>1, <3>2
    <2>2. CASE dev[c].room \notin H
        <3>1. dev'[c] = dev[c]
            BY <1>6, <2>2
        <3>2. dev[c].room \in RoomIds \cup {NoRoom} /\ (dev[c].room = NoRoom \/ name[dev[c].room] # NoName)
            BY DEF ContextInv, DeviceTypeOK, Row
        <3> QED BY <1>4, <1>6, <2>2, <3>1, <3>2
    <2> QED BY <2>1, <2>2
<1>8. dev' \in [Devices -> Row]
    BY <1>6, <1>7
<1>9. DeviceTypeOK'
    BY <1>1, <1>7, <1>8 DEF ContextInv, DeviceTypeOK, bounds
<1>10. RowsKept /\ \A c \in Devices : Collecting(c)' => Collecting(c)
    BY <1>1, <1>7 DEF RowsKept, Collecting
<1> QED BY <1>1, <1>2, <1>3, <1>9, <1>10, OthersMove

(* Steps of the service, the tasks and the log. *)
LEMMA ServiceStepInv ==
    ASSUME ContextInv, ThingInv', AddingKept, UNCHANGED <<roomVars, dev, dh, excused>>,
           Request \/ Fault \/ UNCHANGED bounds
    PROVE  ContextInv'
<1>1. RoomInv' /\ name' = name
    BY RoomsStay DEF ContextInv, roomVars
<1>2. DeviceTypeOK'
    BY <1>1, BoundsKept DEF ContextInv, DeviceTypeOK
<1>3. RowsKept /\ \A c \in Devices : Collecting(c)' => Collecting(c)
    BY DEF RowsKept, Collecting
<1> QED BY <1>1, <1>2, <1>3, OthersMove

LEMMA LogInv ==
    ASSUME ContextInv, NEW d \in Devices, Log(d) PROVE ContextInv'
<1>1. PICK k \in AnyKey : k = dev[d].key
    BY DEF ContextInv, DeviceTypeOK, Row
<1>2. Spawn("connection", k) /\ UNCHANGED <<things, up, missed, disturbed>>
    BY <1>1 DEF Log
<1>3. ThingInv' /\ AddingKept
    BY <1>2, SpawnInv DEF ContextInv, Kinds
<1> QED BY <1>3, ServiceStepInv DEF Log

LEMMA TaskStepInv ==
    ASSUME ContextInv, TaskStep \/ Disturbance \/ Recovery PROVE ContextInv'
<1>1. ThingInv' /\ AddingKept
    <2>1. CASE Round \/ ServiceGoes \/ ServiceReturns
        BY <2>1, RoundInv, ServiceInv DEF ContextInv
    <2>2. CASE \E t \in tasks : Attempt(t) \/ AttemptFails(t) \/ AnswerLost(t)
        BY <2>2, AttemptInv, AttemptFailsInv, AnswerLostInv DEF ContextInv
    <2> QED BY <2>1, <2>2 DEF TaskStep, Disturbance, Recovery
<1> QED BY <1>1, ServiceStepInv DEF TaskStep, Disturbance, Recovery

(* Whoever was to report something is gone, and excused. *)
LEMMA RestartInv ==
    ASSUME ContextInv, Restart PROVE ContextInv'
<1>1. /\ Fault /\ rh' = [w \in RoomWorkers |-> IdleRoom] /\ dh' = [w \in Workers |-> IdleDevice]
      /\ TasksDie
      /\ excused' = excused \cup {dh[w].d : w \in {v \in Workers : dh[v].pc = "report"}}
      /\ UNCHANGED <<name, nextRoom, dev>>
    BY DEF Restart
<1>2. RoomInv'
    <2>1. \A w \in RoomWorkers : RoomHandlerOK(rh[w])'
        BY <1>1 DEF RoomHandlerOK, IdleRoom
    <2>2. RoomTypeOK' /\ NamesUnique' /\ LaterUnused'
        BY <1>1, IdleRoomOK DEF ContextInv, RoomInv, RoomTypeOK, NamesUnique, LaterUnused
    <2> QED BY <2>1, <2>2 DEF RoomInv
<1>3. ThingInv' /\ AddingKept
    BY <1>1, TasksDieInv DEF ContextInv
<1>4. \A w \in Workers : dh[w].pc = "report" => dh[w].d \in Devices
    BY DEF ContextInv, HandlerOK
<1>5. excused \subseteq excused' /\ excused' \subseteq Devices
    BY <1>1, <1>4 DEF ContextInv, DeviceTypeOK
<1>6. requests' \in 0..MaxRequests /\ faults' \in 0..MaxFaults
    BY <1>1, BoundsKept
<1>7. dh' \in [Workers -> DeviceHandlers] /\ \A x \in Workers : dh'[x] = IdleDevice
    BY <1>1, IdleDeviceOK
<1>8. DeviceTypeOK'
    BY <1>1, <1>5, <1>6, <1>7 DEF ContextInv, DeviceTypeOK
<1>9. RowsKept /\ \A c \in Devices : Collecting(c)' => Collecting(c)
    BY <1>1, <1>5 DEF RowsKept, Collecting
<1>10. \A x \in Workers : Handed(x)
    BY <1>1, <1>4 DEF Handed, Reporting
<1>11. \A x \in Workers : HandlerOK(dh'[x]) /\ CopyOK(dh[x])' /\ Relies(dh'[x])
    <2>1. CopyOK(IdleDevice)' /\ Relies(IdleDevice)
        BY IdleDeviceOK DEF CopyOK, Relies, Relying
    <2> QED BY <1>7, <2>1, IdleDeviceOK DEF CopyOK, Copying
<1> QED BY <1>2, <1>3, <1>8, <1>9, <1>10, <1>11, ContextStep

LEMMA NextInv ==
    ASSUME ContextInv, [Next]_vars PROVE ContextInv'
<1>1. CASE \E w \in Workers, r \in NamedRooms \cup {NoRoom}, k \in AnyKey :
              \/ \E collect \in BOOLEAN : BeginPost(w, r, collect, k)
              \/ \E d \in Devices, want \in Wishes, rekey, guess \in BOOLEAN :
                    BeginPut(w, d, r, want, rekey, k, guess)
    BY <1>1, BeginPostInv, BeginPutInv, ContextAssumption
<1>2. CASE \E w \in Workers, k \in AnyKey, collect \in BOOLEAN : BeginLease(w, k, collect)
    BY <1>2, BeginLeaseInv
<1>3. CASE \E w \in Workers : DeviceStep(w) \/ HandlerFails(w) \/ LeaseFindFails(w)
    BY <1>3, FindInv, LeaseFindInv, LoadRoomInv, InsertInv, UpdateInv, ReportInv, HandlerFailsInv
       DEF DeviceStep
<1>4. CASE \E d \in Devices : DeleteDevice(d) \/ Log(d)
    BY <1>4, DeleteDeviceInv, LogInv
<1>5. CASE \E w \in RoomWorkers :
              \/ \E n \in Names : \/ BeginRoomRequest(w, "create", NoRoom, n)
                                 \/ \E r \in RoomIds : BeginRoomRequest(w, "update", r, n)
              \/ \E r \in RoomIds : BeginRoomRequest(w, "delete", r, NoName)
              \/ RoomRequestStep(w) \/ DeleteRoom(w) \/ RoomStatementFails(w)
    <2>1. PICK w \in RoomWorkers :
              \/ \E n \in Names : \/ BeginRoomRequest(w, "create", NoRoom, n)
                                 \/ \E r \in RoomIds : BeginRoomRequest(w, "update", r, n)
              \/ \E r \in RoomIds : BeginRoomRequest(w, "delete", r, NoName)
              \/ RoomRequestStep(w) \/ DeleteRoom(w) \/ RoomStatementFails(w)
        BY <1>5
    <2>2. CASE \E n \in Names : \/ BeginRoomRequest(w, "create", NoRoom, n)
                               \/ \E r \in RoomIds : BeginRoomRequest(w, "update", r, n)
        <3>1. PICK op \in {"create", "update", "delete"}, r \in RoomIds \cup {NoRoom}, n \in Names :
                  /\ op # "create" => r \in RoomIds
                  /\ BeginRoomRequest(w, op, r, n)
            BY <2>2
        <3>2. RoomInv' /\ RoomsKept
            BY <3>1, RoomBegin DEF BeginRoomRequest, ContextInv, BeginRoom, RoomsKept
        <3> QED BY <3>1, <3>2, RoomRequestInv DEF BeginRoomRequest
    <2>3. CASE \E r \in RoomIds : BeginRoomRequest(w, "delete", r, NoName)
        <3>1. PICK r \in RoomIds : BeginRoomRequest(w, "delete", r, NoName)
            BY <2>3
        <3>2. RoomInv' /\ RoomsKept
            BY <3>1, RoomBegin DEF BeginRoomRequest, ContextInv, BeginRoom, RoomsKept
        <3> QED BY <3>1, <3>2, RoomRequestInv DEF BeginRoomRequest
    <2>4. CASE RoomRequestStep(w) \/ RoomStatementFails(w)
        <3>1. RoomInv' /\ RoomsKept
            BY <2>4, RoomStepInv DEF RoomRequestStep, RoomStatementFails, ContextInv
        <3> QED BY <2>4, <3>1, RoomRequestInv DEF RoomRequestStep, RoomStatementFails
    <2>5. CASE DeleteRoom(w)
        BY <2>5, DeleteRoomInv
    <2> QED BY <2>1, <2>2, <2>3, <2>4, <2>5
<1>6. CASE TaskStep \/ Disturbance \/ Recovery \/ Restart
    BY <1>6, TaskStepInv, RestartInv
<1>7. CASE AllDone \/ UNCHANGED vars
    <2>1. UNCHANGED <<roomVars, thingVars, dev, dh, excused, bounds>>
        BY <1>7 DEF AllDone, vars, roomVars, thingVars, bounds
    <2> QED BY <2>1, RoomsStay, RoomRequestInv DEF ContextInv
<1> QED BY <1>1, <1>2, <1>3, <1>4, <1>5, <1>6, <1>7 DEF Next

-----------------------------------------------------------------------------
LEMMA ContextInvariant == Spec => []ContextInv
<1>1. Init => ContextInv
    BY ContextInitInv
<1>2. ContextInv /\ [Next]_vars => ContextInv'
    BY NextInv
<1> QED BY <1>1, <1>2, PTL DEF Spec

(* Every variable keeps its kind, and the room of a device row always exists,
   although rooms are deleted by name while handlers hold copies of the row. *)
THEOREM ContextTypeCorrect == Spec => []ContextTypeOK
<1>1. ContextInv => ContextTypeOK
    BY ContextImplies
<1> QED BY <1>1, ContextInvariant, PTL

(* A deletion by name hits the room whose id was asked for, and the reply to a
   creation is the room it created, unless that room was renamed or deleted
   meanwhile: the check, the statement and the lookup by name of any number of
   handlers overlap. *)
THEOREM RequestsHitTheirRoom == Spec => []RoomOfRequest
<1>1. ContextInv => RoomOfRequest
    BY ContextImplies
<1> QED BY <1>1, ContextInvariant, PTL

(* Whatever PUTs, POSTs and leases overlap on copies of a row, a device about
   which data is collected is reported to the service under the identity it
   has, is being reported or is in the account of a PUT that has not ended,
   unless its report was skipped or lost, or its identity changed, for one of
   the reasons that CollectedIsReported names. *)
THEOREM CollectedAreReported == Spec => []CollectedIsReported
<1>1. ContextInv => CollectedIsReported
    BY ContextImplies
<1> QED BY <1>1, ContextInvariant, PTL

(* As long as the service answers and the controller runs, no report is given up
   that names an identity which the service knew, or was being told of, when the
   report was made, in whatever order the background tasks try. *)
THEOREM NothingLostWithoutOutage == Spec => []NoOutageNoLoss
<1>1. ContextInv => NoOutageNoLoss
    BY ContextImplies
<1> QED BY <1>1, ContextInvariant, PTL
=============================================================================
