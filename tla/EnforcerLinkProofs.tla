-------------------------- MODULE EnforcerLinkProofs --------------------------
(***************************************************************************)
(* Proofs about EnforcerLink, for every set of peers and certificates,      *)
(* every limit of connections and every bound.                              *)
(***************************************************************************)
EXTENDS EnforcerLink, FiniteSetTheorems, TLAPS

(* The loop has one connection in hand at a time. *)
OneRegisters ==
    \A p, q \in Peers : peer[p] \in Registering /\ peer[q] \in Registering => p = q

(* Whoever is in hand has a free slot kept for it. *)
SlotKept ==
    /\ IsFiniteSet(Serving) /\ Cardinality(Serving) <= MaxConnections
    /\ \A p \in Peers : peer[p] \in Registering => Cardinality(Serving) < MaxConnections

(* The answer a registration is about to act on was right, or is known to have
   been withdrawn. *)
SeenWasAllowed ==
    \A p \in Peers : peer[p] = "update" /\ seen[p] = "yes" => allowed[CertOf[p]] = "yes" \/ p \in revoked

(* Nobody can have allowed an enforcer that has no row yet. *)
UnknownUndecided == \A c \in Certs : allowed[c] = "none" => decided[c] = "no"

LinkInv ==
    /\ LinkTypes /\ OneRegisters /\ SlotKept /\ SeenWasAllowed /\ UnknownUndecided
    /\ ServedWasAllowed /\ DecisionKept /\ InsertNeverConflicts

LEMMA InitInv == Init => LinkInv
<1> SUFFICES ASSUME Init PROVE LinkInv
    OBVIOUS
<1>1. LinkTypes
    BY LinkBounds DEF Init, LinkTypes
<1>2. Serving = {}
    BY DEF Init, Serving
<1>3. SlotKept
    BY <1>2, FS_EmptySet, ConnectionsAssumption DEF SlotKept, Init, Registering
<1>4. OneRegisters /\ SeenWasAllowed /\ UnknownUndecided /\ ServedWasAllowed /\ DecisionKept /\ InsertNeverConflicts
    BY DEF Init, Registering, OneRegisters, SeenWasAllowed, ServedWasAllowed, Serving, DecisionKept, UnknownUndecided,
           InsertNeverConflicts
<1> QED BY <1>1, <1>3, <1>4 DEF LinkInv

LEMMA StutterInv == LinkInv /\ UNCHANGED vars => LinkInv'
BY DEF LinkInv, vars, LinkTypes, OneRegisters, SlotKept, Serving, SeenWasAllowed, ServedWasAllowed,
       DecisionKept, UnknownUndecided, InsertNeverConflicts

(* How a peer moves through the loop without being served, the table and what
   was read from it unchanged. *)
LEMMA MoveInv ==
    ASSUME LinkInv, NEW p \in Peers, NEW pc \in {"away", "waiting", "tls", "select"}, Goto(p, pc),
           peer[p] # "serving" \/ pc = "away",
           pc \in Registering => peer[p] \in Registering \/ (LoopFree /\ HasFreeSlot),
           UNCHANGED <<allowed, seen, decided, revoked, decisions, restarts>>,
           faults' \in 0..MaxFaults
    PROVE  LinkInv'
<1>1. LinkTypes'
    BY DEF LinkInv, LinkTypes, Goto, Registering
<1>2. OneRegisters'
    BY DEF LinkInv, LinkTypes, OneRegisters, Goto, LoopFree, Registering
<1>3. Serving' = Serving \ {p}
    BY DEF Serving, Goto, LinkInv, LinkTypes
<1>4. /\ IsFiniteSet(Serving') /\ Cardinality(Serving') <= Cardinality(Serving)
      /\ Cardinality(Serving) \in Nat /\ Cardinality(Serving') \in Nat
    <2>1. IsFiniteSet(Serving)
        BY DEF LinkInv, SlotKept
    <2>2. Serving' \in SUBSET Serving
        BY <1>3
    <2>3. IsFiniteSet(Serving') /\ Cardinality(Serving') <= Cardinality(Serving)
        BY <2>1, <2>2, FS_Subset
    <2> QED BY <2>1, <2>3, FS_CardinalityType
<1>5. ASSUME NEW q \in Peers, (peer[q] \in Registering)' PROVE Cardinality(Serving) < MaxConnections
    <2>1. CASE q = p
        <3>1. pc \in Registering
            BY <1>5, <2>1 DEF LinkInv, LinkTypes, Goto, Registering
        <3> QED BY <3>1 DEF LinkInv, SlotKept, HasFreeSlot
    <2>2. CASE q # p
        <3>1. peer[q] \in Registering
            BY <1>5, <2>2 DEF LinkInv, LinkTypes, Goto, Registering
        <3> QED BY <3>1 DEF LinkInv, SlotKept
    <2> QED BY <2>1, <2>2
<1>6. SlotKept'
    BY <1>4, <1>5, ConnectionsAssumption DEF LinkInv, SlotKept
<1>7. SeenWasAllowed' /\ ServedWasAllowed' /\ DecisionKept' /\ InsertNeverConflicts' /\ UnknownUndecided'
    BY <1>3 DEF LinkInv, LinkTypes, Goto, SeenWasAllowed, ServedWasAllowed, DecisionKept, UnknownUndecided, InsertNeverConflicts
<1> QED BY <1>1, <1>2, <1>6, <1>7 DEF LinkInv

LEMMA SelectInv == ASSUME LinkInv, NEW p \in Peers, SelectAllowed(p) PROVE LinkInv'
<1>1. LinkTypes' /\ OneRegisters'
    BY CertOfAssumption DEF LinkInv, LinkTypes, OneRegisters, SelectAllowed, Goto, Registering
<1>2. Serving' = Serving
    BY DEF LinkInv, LinkTypes, Serving, SelectAllowed, Goto
<1>3. SlotKept'
    BY <1>2 DEF LinkInv, LinkTypes, SlotKept, SelectAllowed, Goto, Registering
<1>4. SeenWasAllowed' /\ InsertNeverConflicts' /\ DecisionKept' /\ UnknownUndecided'
    BY DEF LinkInv, LinkTypes, SelectAllowed, Goto, SeenWasAllowed, InsertNeverConflicts, DecisionKept, UnknownUndecided
<1>5. ServedWasAllowed'
    BY <1>2 DEF LinkInv, LinkTypes, SelectAllowed, Serving, ServedWasAllowed
<1> QED BY <1>1, <1>3, <1>4, <1>5 DEF LinkInv

LEMMA UpdateInv == ASSUME LinkInv, NEW p \in Peers, UpdateEnforcer(p) PROVE LinkInv'
<1>1. CASE seen[p] # "yes"
    BY <1>1, MoveInv DEF UpdateEnforcer, LinkInv, LinkTypes
<1>2. CASE seen[p] = "yes"
    <2>1. LinkTypes' /\ OneRegisters'
        BY <1>2 DEF LinkInv, LinkTypes, OneRegisters, UpdateEnforcer, Goto, Registering
    <2>2. Serving' = Serving \cup {p} /\ p \notin Serving
        BY <1>2 DEF LinkInv, LinkTypes, Serving, UpdateEnforcer, Goto
    <2>3. IsFiniteSet(Serving') /\ Cardinality(Serving') = Cardinality(Serving) + 1 /\ Cardinality(Serving) \in Nat
        BY <2>2, FS_AddElement, FS_CardinalityType DEF LinkInv, SlotKept
    <2>4. Cardinality(Serving) < MaxConnections
        BY DEF LinkInv, SlotKept, UpdateEnforcer, Registering
    <2>5. \A q \in Peers : (peer[q] \notin Registering)'
        BY <1>2 DEF LinkInv, LinkTypes, OneRegisters, UpdateEnforcer, Goto, Registering
    <2>6. SlotKept'
        BY <2>3, <2>4, <2>5, ConnectionsAssumption DEF SlotKept
    <2>7. SeenWasAllowed' /\ InsertNeverConflicts' /\ DecisionKept' /\ UnknownUndecided'
        BY <2>5 DEF LinkInv, UpdateEnforcer, SeenWasAllowed, InsertNeverConflicts, DecisionKept, UnknownUndecided, Registering
    <2>8. ServedWasAllowed'
        BY <1>2, <2>2 DEF LinkInv, UpdateEnforcer, ServedWasAllowed, SeenWasAllowed
    <2> QED BY <2>1, <2>6, <2>7, <2>8 DEF LinkInv
<1> QED BY <1>1, <1>2

LEMMA InsertInv == ASSUME LinkInv, NEW p \in Peers, InsertEnforcer(p) PROVE LinkInv'
<1>1. LinkTypes' /\ OneRegisters'
    BY CertOfAssumption DEF LinkInv, LinkTypes, OneRegisters, InsertEnforcer, Goto, Registering
<1>2. Serving' = Serving
    BY DEF LinkInv, LinkTypes, Serving, InsertEnforcer, Goto
<1>3. \A q \in Peers : (peer[q] \notin Registering)'
    BY DEF LinkInv, LinkTypes, OneRegisters, InsertEnforcer, Goto, Registering
<1>4. SlotKept' /\ SeenWasAllowed' /\ InsertNeverConflicts'
    BY <1>2, <1>3 DEF LinkInv, SlotKept, SeenWasAllowed, InsertNeverConflicts, Registering
<1>5. allowed[CertOf[p]] = "none" /\ CertOf[p] \in Certs
    BY CertOfAssumption DEF LinkInv, InsertNeverConflicts, InsertEnforcer
<1>6. ServedWasAllowed'
    BY <1>2, <1>5, CertOfAssumption DEF LinkInv, LinkTypes, InsertEnforcer, ServedWasAllowed, Serving
<1>7. DecisionKept' /\ UnknownUndecided'
    BY <1>5 DEF LinkInv, LinkTypes, InsertEnforcer, DecisionKept, UnknownUndecided
<1> QED BY <1>1, <1>4, <1>6, <1>7 DEF LinkInv

LEMMA OperatorInv ==
    ASSUME LinkInv, NEW c \in Certs, NEW a \in {"no", "yes"}, update_enforcer(c, a) PROVE LinkInv'
<1>1. CASE allowed[c] = "none"
    <2>1. UNCHANGED <<allowed, decided, revoked, peer, seen, faults, restarts>> /\ LinkTypes'
        BY <1>1, LinkBounds DEF update_enforcer, set_enforcer_allowed, LinkInv, LinkTypes
    <2> QED BY <2>1 DEF LinkInv, OneRegisters, SlotKept, Serving, SeenWasAllowed, UnknownUndecided,
                        ServedWasAllowed, DecisionKept, InsertNeverConflicts
<1>2. CASE allowed[c] # "none"
    <2>1. LinkTypes'
        BY <1>2, LinkBounds DEF update_enforcer, set_enforcer_allowed, LinkInv, LinkTypes
    <2>2. UNCHANGED <<peer, seen, Serving>>
        BY DEF update_enforcer, Serving
    <2>3. OneRegisters' /\ SlotKept'
        BY <2>2 DEF LinkInv, OneRegisters, SlotKept
    <2>4. \A p \in Peers : /\ allowed[CertOf[p]] = "yes" => allowed'[CertOf[p]] = "yes" \/ (CertOf[p] = c /\ a = "no")
                           /\ p \in revoked => p \in revoked'
        BY <1>2, CertOfAssumption DEF update_enforcer, set_enforcer_allowed, LinkInv, LinkTypes
    <2>5. \A p \in Peers : CertOf[p] = c /\ a = "no" /\ peer[p] \in {"update", "serving"} => p \in revoked'
        <3>1. SUFFICES ASSUME a = "no"
              PROVE  revoked' = revoked \cup {p \in Peers : CertOf[p] = c /\ peer[p] \in {"update", "serving"}}
            OBVIOUS
        <3> QED BY <1>2, <3>1 DEF update_enforcer, set_enforcer_allowed
    <2>6. SeenWasAllowed' /\ ServedWasAllowed'
        BY <2>2, <2>4, <2>5 DEF LinkInv, SeenWasAllowed, ServedWasAllowed, Serving
    <2>7. DecisionKept' /\ UnknownUndecided'
        BY <1>2 DEF update_enforcer, set_enforcer_allowed, LinkInv, LinkTypes, DecisionKept, UnknownUndecided
    <2>8. InsertNeverConflicts'
        BY <1>2, <2>2, CertOfAssumption
        DEF update_enforcer, set_enforcer_allowed, LinkInv, LinkTypes, InsertNeverConflicts
    <2> QED BY <2>1, <2>3, <2>6, <2>7, <2>8 DEF LinkInv
<1> QED BY <1>1, <1>2

LEMMA RestartInv == ASSUME LinkInv, Restart PROVE LinkInv'
<1>1. LinkTypes'
    BY LinkBounds DEF Restart, LinkInv, LinkTypes
<1>2. Serving' = {}
    BY DEF Restart, Serving
<1>3. SlotKept'
    BY <1>2, FS_EmptySet, ConnectionsAssumption DEF SlotKept, Restart, Registering
<1>4. OneRegisters' /\ SeenWasAllowed' /\ InsertNeverConflicts' /\ DecisionKept' /\ UnknownUndecided'
    BY DEF Restart, LinkInv, Registering, OneRegisters, SeenWasAllowed, InsertNeverConflicts, DecisionKept,
           UnknownUndecided
<1>5. ServedWasAllowed'
    BY <1>2 DEF ServedWasAllowed
<1> QED BY <1>1, <1>3, <1>4, <1>5 DEF LinkInv

LEMMA NextInv == LinkInv /\ [Next]_vars => LinkInv'
<1> SUFFICES ASSUME LinkInv, [Next]_vars PROVE LinkInv'
    OBVIOUS
<1>1. ASSUME NEW p \in Peers, Connect(p) PROVE LinkInv'
    BY <1>1, MoveInv DEF Connect, Registering, LinkInv, LinkTypes
<1>2. ASSUME NEW p \in Peers, Accept(p) PROVE LinkInv'
    BY <1>2, MoveInv DEF Accept, LinkInv, LinkTypes
<1>3. ASSUME NEW p \in Peers, Handshake(p) PROVE LinkInv'
    BY <1>3, MoveInv DEF Handshake, Registering, LinkInv, LinkTypes
<1>4. ASSUME NEW p \in Peers, HandshakeFails(p) PROVE LinkInv'
    BY <1>4, MoveInv DEF HandshakeFails, Registering, LinkInv, LinkTypes
<1>5. ASSUME NEW p \in Peers, Register(p) PROVE LinkInv'
    BY <1>5, SelectInv, UpdateInv, InsertInv DEF Register
<1>6. ASSUME NEW p \in Peers, StatementFails(p) PROVE LinkInv'
    <2>1. faults' \in 0..MaxFaults
        BY <1>6, LinkBounds DEF StatementFails, LinkInv, LinkTypes
    <2> QED BY <1>6, <2>1, MoveInv DEF StatementFails, Registering
<1>7. ASSUME NEW p \in Peers, Disconnect(p) PROVE LinkInv'
    BY <1>7, MoveInv DEF Disconnect, Registering, LinkInv, LinkTypes
<1>8. ASSUME NEW c \in Certs, NEW a \in {"no", "yes"}, update_enforcer(c, a) PROVE LinkInv'
    BY <1>8, OperatorInv
<1>9. CASE Restart \/ \E p \in Peers : PeerAddrPanics(p)
    BY <1>9, RestartInv DEF PeerAddrPanics
<1>10. CASE GetEnforcers \/ UNCHANGED vars
    BY <1>10, StutterInv DEF GetEnforcers
<1> QED BY <1>1, <1>2, <1>3, <1>4, <1>5, <1>6, <1>7, <1>8, <1>9, <1>10 DEF Next

(* The parts of LinkInv are inductive together. *)
LEMMA LinkInvariant == Spec => []LinkInv
BY InitInv, NextInv, PTL DEF Spec

(* The variables keep their types, and however many enforcers there are, never
   more than MaxConnections are served by buffer_unordered. *)
THEOREM LinkTypeCorrect == Spec => []LinkTypeOK
<1>1. LinkInv => LinkTypeOK
    BY DEF LinkInv, LinkTypeOK, SlotKept
<1> QED BY <1>1, LinkInvariant, PTL

(* register_enforcer lets nobody through who was not allowed when it asked. *)
THEOREM OnlyAllowedServed == Spec => []ServedWasAllowed
<1>1. LinkInv => ServedWasAllowed
    BY DEF LinkInv
<1> QED BY <1>1, LinkInvariant, PTL

(* Registrations never undo what set_enforcer_allowed stored. *)
THEOREM DecisionsStand == Spec => []DecisionKept
<1>1. LinkInv => DecisionKept
    BY DEF LinkInv
<1> QED BY <1>1, LinkInvariant, PTL

(* The INSERT that follows a SELECT without a row never meets one: nobody else
   registers a certificate between the two statements. *)
THEOREM OneRowPerCertificate == Spec => []InsertNeverConflicts
<1>1. LinkInv => InsertNeverConflicts
    BY DEF LinkInv
<1> QED BY <1>1, LinkInvariant, PTL
===============================================================================
