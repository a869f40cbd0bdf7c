---------------------------- MODULE EnforcerLink ----------------------------
(***************************************************************************)
(* How an enforcer gets a connection: the accept loop of rpc_server::listen,*)
(* registration in the table enforcers, and the operator who allows or      *)
(* forbids an enforcer through the REST interface.                          *)
(*                                                                          *)
(* A peer is one TCP connection of an enforcer that may reconnect; two      *)
(* peers have the same certificate when an enforcer comes back while its    *)
(* old connection is still open.                                            *)
(***************************************************************************)
EXTENDS Integers, FiniteSets

CONSTANTS
    Peers,
    Certs,            \* certificate ids
    CertOf,           \* CertId::new of the certificate a peer presents
    MaxConnections,   \* the limit of buffer_unordered: 10
    MaxDecisions,     \* bound: PUT requests of the operator
    MaxFaults,        \* bound: failing statements
    MaxRestarts       \* bound: restarts of the controller

ASSUME CertOfAssumption == CertOf \in [Peers -> Certs]
ASSUME ConnectionsAssumption == MaxConnections \in Nat \ {0}
ASSUME LinkBounds == MaxDecisions \in Nat /\ MaxFaults \in Nat /\ MaxRestarts \in Nat

VARIABLES
    allowed,    \* the table enforcers: column allowed, or "none" without a row
    peer,       \* how far a peer has come
    seen,       \* the value of allowed that register_enforcer read for it
    decisions, faults, restarts,
    decided,    \* history: what the operator said last of a certificate
    revoked     \* history: peers whose certificate was forbidden since it was read

vars == <<allowed, peer, seen, decisions, faults, restarts, decided, revoked>>

Registering == {"tls", "select", "update", "insert"}

Serving == {p \in Peers : peer[p] = "serving"}

LinkTypes ==
    /\ allowed \in [Certs -> {"none", "no", "yes"}]
    /\ peer \in [Peers -> {"away", "waiting", "serving"} \cup Registering]
    /\ seen \in [Peers -> {"no", "yes"}]
    /\ decisions \in 0..MaxDecisions /\ faults \in 0..MaxFaults /\ restarts \in 0..MaxRestarts
    /\ decided \in [Certs -> {"no", "yes"}] /\ revoked \subseteq Peers

(* Every variable holds a value of its kind, and no more connections are served
   than buffer_unordered lets in. *)
LinkTypeOK == LinkTypes /\ Cardinality(Serving) <= MaxConnections

(* The table as earlier runs of the controller left it. *)
Init ==
    /\ allowed \in [Certs -> {"none", "no", "yes"}]
    /\ peer = [p \in Peers |-> "away"] /\ seen = [p \in Peers |-> "no"]
    /\ decisions = 0 /\ faults = 0 /\ restarts = 0
    /\ decided = [c \in Certs |-> IF allowed[c] = "yes" THEN "yes" ELSE "no"] /\ revoked = {}

Goto(p, pc) == peer' = [peer EXCEPT ![p] = pc]

-----------------------------------------------------------------------------
(* The accept loop.  and_then and filter_map are sequential: a connection is
   taken from the listeners only when the one before is decided. *)

(* An enforcer opens a TCP connection. *)
Connect(p) ==
    /\ peer[p] = "away"
    /\ Goto(p, "waiting")
    /\ UNCHANGED <<allowed, seen, decisions, faults, restarts, decided, revoked>>

(* Mutant: each connection is registered in a task of its own. *)
M_LoopFree == TRUE

LoopFree == \A p \in Peers : peer[p] \notin Registering

(* Mutants: an off-by-one in each direction. *)
M_HasFreeSlotLate == Cardinality(Serving) <= MaxConnections
M_HasFreeSlotEarly == Cardinality(Serving) < MaxConnections - 1

(* buffer_unordered asks for another connection only below its limit. *)
HasFreeSlot == Cardinality(Serving) < MaxConnections

Accept(p) ==
    /\ peer[p] = "waiting" /\ LoopFree /\ HasFreeSlot
    /\ Goto(p, "tls")
    /\ UNCHANGED <<allowed, seen, decisions, faults, restarts, decided, revoked>>

Handshake(p) ==
    /\ peer[p] = "tls"
    /\ Goto(p, "select")
    /\ UNCHANGED <<allowed, seen, decisions, faults, restarts, decided, revoked>>

(* "Ignore accept errors": no certificate of the CA, or the peer is gone. *)
HandshakeFails(p) ==
    /\ peer[p] = "tls"
    /\ Goto(p, "away")
    /\ UNCHANGED <<allowed, seen, decisions, faults, restarts, decided, revoked>>

-----------------------------------------------------------------------------
(* register_enforcer, one step per statement. *)

SelectAllowed(p) ==
    LET a == allowed[CertOf[p]]
    IN  /\ peer[p] = "select"
        /\ IF a = "none" THEN Goto(p, "insert") /\ UNCHANGED seen
                         ELSE Goto(p, "update") /\ seen' = [seen EXCEPT ![p] = a]
        /\ revoked' = revoked \ {p}
        /\ UNCHANGED <<allowed, decisions, faults, restarts, decided>>

(* Mutant: the whole row is written back. *)
M_UpdateEnforcer(p) ==
    /\ peer[p] = "update"
    /\ Goto(p, IF seen[p] = "yes" THEN "serving" ELSE "away")
    /\ allowed' = [allowed EXCEPT ![CertOf[p]] = seen[p]]
    /\ UNCHANGED <<seen, decisions, faults, restarts, decided, revoked>>

(* Mutant: no ensure. *)
M_UpdateEnforcerAdmits(p) ==
    /\ peer[p] = "update"
    /\ Goto(p, "serving")
    /\ UNCHANGED <<allowed, seen, decisions, faults, restarts, decided, revoked>>

(* The UPDATE notes time and address only; an allowed enforcer is served. *)
UpdateEnforcer(p) ==
    /\ peer[p] = "update"
    /\ Goto(p, IF seen[p] = "yes" THEN "serving" ELSE "away")
    /\ UNCHANGED <<allowed, seen, decisions, faults, restarts, decided, revoked>>

(* An unknown enforcer is noted and refused; a second row is an error. *)
InsertEnforcer(p) ==
    LET c == CertOf[p]
    IN  /\ peer[p] = "insert"
        /\ allowed' = [allowed EXCEPT ![c] = IF @ = "none" THEN "no" ELSE @]
        /\ Goto(p, "away")
        /\ UNCHANGED <<seen, decisions, faults, restarts, decided, revoked>>

(* A statement fails: the connection is not accepted. *)
StatementFails(p) ==
    /\ peer[p] \in {"select", "update", "insert"}
    /\ faults < MaxFaults
    /\ faults' = faults + 1
    /\ Goto(p, "away")
    /\ UNCHANGED <<allowed, seen, decisions, restarts, decided, revoked>>

(* The requests of a connection are answered until it ends. *)
Disconnect(p) ==
    /\ peer[p] = "serving"
    /\ Goto(p, "away")
    /\ UNCHANGED <<allowed, seen, decisions, faults, restarts, decided, revoked>>

-----------------------------------------------------------------------------
(* The operator and the process. *)

(* An UPDATE, and an error if there is no row. *)
set_enforcer_allowed(c, a) ==
    IF allowed[c] = "none" THEN UNCHANGED <<allowed, decided, revoked>>
    ELSE /\ allowed' = [allowed EXCEPT ![c] = a]
         /\ decided' = [decided EXCEPT ![c] = a]
         /\ revoked' = IF a = "yes" THEN revoked
                       ELSE revoked \cup {p \in Peers : CertOf[p] = c /\ peer[p] \in {"update", "serving"}}

(* PUT /enforcers/{cert_id} by somebody with the permission enforcer/update. *)
update_enforcer(c, a) ==
    /\ decisions < MaxDecisions
    /\ decisions' = decisions + 1
    /\ set_enforcer_allowed(c, a)
    /\ UNCHANGED <<peer, seen, faults, restarts>>

(* GET /enforcers and GET /enforcers/{cert_id} only read. *)
GetEnforcers == UNCHANGED vars

(* The controller restarts: every connection is gone, the table stays. *)
Restart ==
    /\ restarts < MaxRestarts
    /\ restarts' = restarts + 1
    /\ peer' = [p \in Peers |-> "away"]
    /\ UNCHANGED <<allowed, seen, decisions, faults, decided, revoked>>

(* A peer is gone right after its handshake: peer_addr().unwrap() panics, which
   ends the task of listen, and with it main; the controller is started again. *)
PeerAddrPanics(p) == peer[p] = "tls" /\ Restart

Register(p) == SelectAllowed(p) \/ UpdateEnforcer(p) \/ InsertEnforcer(p)

Next ==
    \/ \E p \in Peers : \/ Connect(p) \/ Accept(p) \/ Handshake(p) \/ HandshakeFails(p) \/ PeerAddrPanics(p)
                        \/ Register(p) \/ StatementFails(p) \/ Disconnect(p)
    \/ \E c \in Certs, a \in {"no", "yes"} : update_enforcer(c, a)
    \/ GetEnforcers \/ Restart

(* The task of listen is scheduled and the statements complete; the listeners
   queue connections in order, so that a waiting one is accepted if any are.
   Nothing makes a peer connect, speak or leave: a handshake has no timeout,
   and a connection may stay. *)
Fairness == \A p \in Peers : WF_vars(Register(p)) /\ SF_vars(Accept(p))

Spec == Init /\ [][Next]_vars /\ Fairness

-----------------------------------------------------------------------------
(* register_enforcer asks only once, when the enforcer connects.  Whoever is
   served is allowed, or was forbidden after that question was answered: no
   enforcer that is unknown, or was forbidden before, gets through. *)
ServedWasAllowed ==
    \A p \in Serving : allowed[CertOf[p]] = "yes" \/ p \in revoked

(* What the operator said of an enforcer stands, although registrations of the
   same enforcer read and write its row at the same time. *)
DecisionKept ==
    \A c \in Certs : allowed[c] \in {"yes", "no"} => allowed[c] = decided[c]

(* register_enforcer looks for a row and inserts one in another statement; the
   loop is sequential, so the row is still missing then. *)
InsertNeverConflicts ==
    \A p \in Peers : peer[p] = "insert" => allowed[CertOf[p]] = "none"

(* What peers may do so that p can be served.  No peer is silent for ever in its
   handshake, which nothing else ends; some connection ends when all slots are
   taken; and p keeps connecting and does not fail every handshake. *)
LoopKeepsGoing == \A q \in Peers : []<>(peer[q] # "tls")
SlotsGetFree == []<>(Cardinality(Serving) < MaxConnections)
KeepsConnecting(p) ==
    []<>(peer[p] # "away") /\ ([]<>(peer[p] = "tls") => []<>(peer[p] = "select"))

(* An enforcer that stays allowed and keeps connecting is served again and
   again, whoever else fails its handshake, is refused or takes the last free
   connection, unless a silent peer holds the loop or the slots stay taken. *)
AllowedAreServed ==
    LoopKeepsGoing /\ SlotsGetFree =>
        \A p \in Peers : <>[](allowed[CertOf[p]] = "yes") /\ KeepsConnecting(p)
                            => []<>(peer[p] = "serving")
=============================================================================
