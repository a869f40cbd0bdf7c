--------------------------- MODULE CertRenewalProofs ---------------------------
(***************************************************************************)
(* Proofs about CertRenewal, for every set of clients and renewers, every   *)
(* lifetime and every bound.                                                *)
(***************************************************************************)
EXTENDS CertRenewal, TLAPS

(* A certificate is saved once: those that are not saved yet have not been on
   disk, and what was replaced does not come back. *)
SavedOnce ==
    /\ disk <= issued /\ disk \notin replaced /\ retired \subseteq replaced
    /\ \A n \in replaced : n <= issued /\ n # None
    /\ \A r \in Renewers : renewer[r].replaces \subseteq replaced
    /\ \A r \in Renewers : renewer[r].pc = "save" =>
          renewer[r].cert \in 1..issued /\ renewer[r].cert # disk /\ renewer[r].cert \notin replaced
    /\ \A r, q \in Renewers : renewer[r].pc = "save" /\ renewer[q].pc = "save" /\ r # q
          => renewer[r].cert # renewer[q].cert

(* What was retired when a handshake began still is; what is cached or about
   to be is not retired. *)
CacheRenewed ==
    /\ \A c \in Clients : client[c].retired \subseteq retired
    /\ cache \notin retired
    /\ \A c \in Clients : client[c].pc = "store" => client[c].got \notin retired

Resetting == \E r \in Renewers : renewer[r].pc = "reset"

(* A client that was overtaken by a renewal is known to be. *)
LoadedFollowsDisk ==
    \A c \in Clients : client[c].pc = "store" => client[c].got = disk \/ Resetting

CertInv ==
    /\ CertTypes /\ Locked /\ SavedOnce /\ CacheRenewed /\ LoadedFollowsDisk
    /\ CacheFollowsDisk /\ ServedIsRenewed

LEMMA InitInv == Init => CertInv
BY LifetimeAssumption, CertBounds, ClientsAssumption
DEF Init, CertInv, CertTypes, ClientStates, RenewerStates, Locked, SavedOnce, CacheRenewed, LoadedFollowsDisk,
    CacheFollowsDisk, ServedIsRenewed, Resetting, IdleClient, IdleRenewer, None, Nobody

LEMMA StutterInv == CertInv /\ UNCHANGED vars => CertInv'
BY DEF CertInv, CertTypes, Locked, SavedOnce, CacheRenewed, LoadedFollowsDisk, CacheFollowsDisk, ServedIsRenewed,
       Resetting, vars

(* A step of a handshake: its record becomes s, and lock and cache follow. *)
LEMMA ClientInv ==
    ASSUME CertInv, NEW c \in Clients, NEW s \in ClientStates,
           client' = [client EXCEPT ![c] = s],
           s.retired \subseteq retired,
           lock' = IF s.pc \in {"load", "store"} THEN c ELSE IF lock = c THEN Nobody ELSE lock,
           s.pc \in {"load", "store"} => lock \in {c, Nobody},
           s.pc = "store" => s.got = disk,
           cache' \in {cache, client[c].got}, cache' # cache => client[c].pc = "store",
           outdated' = {},
           UNCHANGED <<renewalVars, time>>, faults' \in 0..MaxFaults
    PROVE  CertInv'
<1>0. client[c].got \in Nat
    BY DEF CertInv, CertTypes, ClientStates
<1>1. CertTypes'
    BY <1>0 DEF CertInv, CertTypes, renewalVars
<1>2. Locked'
    BY ClientsAssumption DEF CertInv, CertTypes, Locked
<1>3. SavedOnce'
    BY DEF CertInv, SavedOnce, renewalVars
<1>4. disk \notin retired
    BY DEF CertInv, SavedOnce
<1>5. CacheRenewed'
    BY <1>4 DEF CertInv, CertTypes, CacheRenewed, renewalVars
<1>6. LoadedFollowsDisk' /\ CacheFollowsDisk'
    BY DEF CertInv, CertTypes, LoadedFollowsDisk, CacheFollowsDisk, Resetting, renewalVars
<1> QED BY <1>1, <1>2, <1>3, <1>5, <1>6 DEF CertInv, ServedIsRenewed

(* A step of a renewal that neither saves a certificate nor resets the cache;
   it may be issued one. *)
LEMMA RenewerInv ==
    ASSUME CertInv, NEW r \in Renewers, renewer[r].pc # "reset",
           NEW s \in RenewerStates, s.pc # "reset", s.replaces \subseteq replaced,
           renewer' = [renewer EXCEPT ![r] = s],
           issued' \in Nat, issued' >= issued,
           s.pc = "save" => s.cert = issued + 1 /\ issued' = issued + 1,
           UNCHANGED <<files, retired, clientVars, time>>, faults' \in 0..MaxFaults
    PROVE  CertInv'
<1>0. disk' = disk /\ replaced' = replaced /\ retired' = retired
    BY DEF files
<1>1. CertTypes'
    BY DEF CertInv, CertTypes, clientVars, files
<1>2. Locked' /\ CacheRenewed' /\ ServedIsRenewed'
    BY <1>0 DEF CertInv, Locked, CacheRenewed, ServedIsRenewed, clientVars
<1>3. SavedOnce'
    <2>1. /\ disk \in Nat /\ issued \in Nat /\ replaced \subseteq Nat /\ renewer \in [Renewers -> RenewerStates]
          /\ \A q \in Renewers : renewer'[q] = IF q = r THEN s ELSE renewer[q]
        BY DEF CertInv, CertTypes
    <2>2. \A q \in Renewers : renewer[q].cert \in Nat
        BY <2>1 DEF RenewerStates
    <2>3. /\ disk' <= issued' /\ disk' \notin replaced' /\ retired' \subseteq replaced'
          /\ \A n \in replaced' : n <= issued' /\ n # None
          /\ \A q \in Renewers : renewer'[q].replaces \subseteq replaced'
        BY <1>0, <2>1 DEF CertInv, SavedOnce
    <2>4. \A q \in Renewers : renewer'[q].pc = "save" =>
             renewer'[q].cert \in 1..issued' /\ renewer'[q].cert # disk' /\ renewer'[q].cert \notin replaced'
        BY <1>0, <2>1, <2>2 DEF CertInv, SavedOnce
    <2>5. \A p, q \in Renewers : renewer'[p].pc = "save" /\ renewer'[q].pc = "save" /\ p # q
             => renewer'[p].cert # renewer'[q].cert
        BY <2>1, <2>2 DEF CertInv, SavedOnce
    <2> QED BY <2>3, <2>4, <2>5 DEF SavedOnce
<1>4. Resetting' <=> Resetting
    BY DEF CertInv, CertTypes, Resetting
<1>5. LoadedFollowsDisk' /\ CacheFollowsDisk'
    BY <1>0, <1>4 DEF CertInv, LoadedFollowsDisk, CacheFollowsDisk, Resetting, clientVars
<1> QED BY <1>1, <1>2, <1>3, <1>5 DEF CertInv

LEMMA SaveInv == ASSUME CertInv, NEW r \in Renewers, SaveCert(r) PROVE CertInv'
<1>0. /\ renewer[r] \in RenewerStates /\ renewer[r].pc = "save" /\ disk \in Nat /\ issued \in Nat
      /\ disk' = renewer[r].cert /\ issued' = issued /\ retired' = retired
      /\ replaced' = replaced \cup ({disk} \ {None}) /\ replaced' \in SUBSET Nat
      /\ renewer' = [renewer EXCEPT ![r].pc = "reset", ![r].replaces = replaced']
      /\ UNCHANGED <<clientVars, boundVars>>
    BY DEF CertInv, CertTypes, SaveCert
<1>1. CertTypes'
    <2>1. [renewer[r] EXCEPT !.pc = "reset", !.replaces = replaced'] \in RenewerStates
        BY <1>0 DEF RenewerStates
    <2>2. renewer' \in [Renewers -> RenewerStates]
        BY <1>0, <2>1 DEF CertInv, CertTypes
    <2>3. disk' \in Nat /\ left' \in 0..Lifetime
        BY <1>0 DEF RenewerStates, SaveCert
    <2> QED BY <1>0, <2>2, <2>3 DEF CertInv, CertTypes, clientVars, boundVars
<1>2. Locked' /\ CacheRenewed' /\ ServedIsRenewed'
    BY <1>0 DEF CertInv, Locked, CacheRenewed, ServedIsRenewed, clientVars
<1>3. SavedOnce'
    <2>1. \A q \in Renewers : renewer[q] \in RenewerStates
        BY DEF CertInv, CertTypes
    <2>0. /\ disk <= issued /\ disk \notin replaced /\ retired \subseteq replaced
          /\ \A n \in replaced : n <= issued /\ n # None
          /\ \A q \in Renewers : renewer[q].replaces \subseteq replaced
          /\ \A q \in Renewers : renewer[q].pc = "save" =>
                renewer[q].cert \in 1..issued /\ renewer[q].cert # disk /\ renewer[q].cert \notin replaced
          /\ \A p, q \in Renewers : renewer[p].pc = "save" /\ renewer[q].pc = "save" /\ p # q
                => renewer[p].cert # renewer[q].cert
        BY DEF CertInv, SavedOnce
    <2>2. \A q \in Renewers : /\ renewer'[q].pc = (IF q = r THEN "reset" ELSE renewer[q].pc)
                               /\ renewer'[q].cert = renewer[q].cert
                               /\ renewer'[q].replaces = (IF q = r THEN replaced' ELSE renewer[q].replaces)
        BY <1>0, <2>1 DEF CertInv, CertTypes, RenewerStates
    <2>a. renewer[r].cert \in 1..issued /\ renewer[r].cert # disk /\ renewer[r].cert \notin replaced
        BY <1>0, <2>0
    <2>3. /\ disk' <= issued' /\ disk' \notin replaced' /\ retired' \subseteq replaced'
          /\ \A n \in replaced' : n <= issued' /\ n # None
        <3>1. disk' <= issued'
            BY <1>0, <2>a
        <3>2. disk' \notin replaced' /\ retired' \subseteq replaced'
            BY <1>0, <2>0, <2>a
        <3>3. \A n \in replaced' : n <= issued' /\ n # None
            BY <1>0, <2>0
        <3> QED BY <3>1, <3>2, <3>3
    <2>4. \A q \in Renewers : renewer'[q].replaces \subseteq replaced'
        <3>1. replaced \subseteq replaced'
            BY <1>0
        <3> QED BY <2>0, <2>2, <3>1
    <2>5. \A q \in Renewers : renewer'[q].pc = "save" =>
             renewer'[q].cert \in 1..issued' /\ renewer'[q].cert # disk' /\ renewer'[q].cert \notin replaced'
        <3> SUFFICES ASSUME NEW q \in Renewers, renewer'[q].pc = "save"
                     PROVE  renewer'[q].cert \in 1..issued' /\ renewer'[q].cert # disk' /\ renewer'[q].cert \notin replaced'
            OBVIOUS
        <3>1. q # r /\ renewer[q].pc = "save" /\ renewer'[q].cert = renewer[q].cert
            BY <2>2
        <3>2. renewer[q].cert \in 1..issued /\ renewer[q].cert # disk /\ renewer[q].cert \notin replaced
            BY <2>0, <3>1
        <3>3. renewer[q].cert # renewer[r].cert
            BY <1>0, <2>0, <3>1
        <3> QED BY <1>0, <3>1, <3>2, <3>3
    <2>6. \A p, q \in Renewers : renewer'[p].pc = "save" /\ renewer'[q].pc = "save" /\ p # q
             => renewer'[p].cert # renewer'[q].cert
        BY <2>0, <2>2
    <2> QED BY <2>3, <2>4, <2>5, <2>6 DEF SavedOnce
<1>4. renewer'[r].pc = "reset"
    BY <1>0 DEF CertInv, CertTypes, RenewerStates
<1>5. LoadedFollowsDisk' /\ CacheFollowsDisk'
    BY <1>4 DEF LoadedFollowsDisk, CacheFollowsDisk, Resetting
<1> QED BY <1>1, <1>2, <1>3, <1>5 DEF CertInv

LEMMA IdleRenewerType == IdleRenewer \in RenewerStates /\ IdleRenewer.pc = "idle" /\ IdleRenewer.replaces = {}
BY LifetimeAssumption DEF IdleRenewer, RenewerStates, None

LEMMA ResetInv == ASSUME CertInv, NEW r \in Renewers, ResetCache(r) PROVE CertInv'
<1>0. /\ retired' = retired \cup renewer[r].replaces /\ renewer[r].replaces \subseteq replaced
      /\ disk' = disk /\ issued' = issued /\ replaced' = replaced /\ cache' = None
      /\ client' = client /\ lock' = lock /\ lock = Nobody /\ outdated' = outdated
      /\ renewer' = [renewer EXCEPT ![r] = IdleRenewer]
    BY DEF ResetCache, CertInv, SavedOnce, files
<1>1. CertTypes'
    <2>1. renewer[r].replaces \in SUBSET Nat
        BY DEF CertInv, CertTypes, RenewerStates
    <2>2. retired' \in SUBSET Nat
        BY <1>0, <2>1 DEF CertInv, CertTypes
    <2> QED BY <1>0, <2>2, IdleRenewerType DEF CertInv, CertTypes, ResetCache, None, boundVars, files
<1>2. \A c \in Clients : client[c].pc # "store"
    BY <1>0, ClientsAssumption DEF CertInv, Locked
<1>3. Locked' /\ LoadedFollowsDisk' /\ CacheFollowsDisk' /\ ServedIsRenewed'
    BY <1>0, <1>2 DEF CertInv, Locked, LoadedFollowsDisk, CacheFollowsDisk, ServedIsRenewed
<1>4. SavedOnce'
    BY <1>0, IdleRenewerType DEF CertInv, CertTypes, SavedOnce
<1>5. CacheRenewed'
    BY <1>0, <1>2, <1>4 DEF CertInv, CacheRenewed, SavedOnce
<1> QED BY <1>1, <1>3, <1>4, <1>5 DEF CertInv

LEMMA RestartInv == ASSUME CertInv, Restart PROVE CertInv'
<1>0. /\ disk' = disk /\ issued' = issued /\ replaced' = replaced /\ cache' = None /\ retired' = retired
      /\ client' = [c \in Clients |-> IdleClient] /\ lock' = Nobody /\ outdated' = outdated
      /\ renewer' = [r \in Renewers |-> IdleRenewer]
    BY DEF Restart, files
<1>1. CertTypes'
    BY <1>0, CertBounds, IdleRenewerType DEF CertInv, CertTypes, Restart, Fault, ClientStates, IdleClient, None, files
<1>2. SavedOnce'
    BY <1>0, IdleRenewerType DEF CertInv, SavedOnce
<1>3. Locked' /\ CacheRenewed' /\ LoadedFollowsDisk' /\ CacheFollowsDisk' /\ ServedIsRenewed'
    BY <1>0, ClientsAssumption
    DEF CertInv, SavedOnce, Locked, CacheRenewed, LoadedFollowsDisk, CacheFollowsDisk, ServedIsRenewed, IdleClient
<1> QED BY <1>1, <1>2, <1>3 DEF CertInv

(* A day only changes how long certificates are valid. *)
LEMMA TickInv == ASSUME CertInv, Tick PROVE CertInv'
<1>1. CertTypes'
    BY LifetimeAssumption, CertBounds DEF CertInv, CertTypes, Tick, ADayLess, RenewerStates, clientVars
<1>2. \A r \in Renewers : /\ renewer'[r].pc = renewer[r].pc /\ renewer'[r].cert = renewer[r].cert
                           /\ renewer'[r].replaces = renewer[r].replaces
    BY DEF CertInv, CertTypes, RenewerStates, Tick
<1>3. UNCHANGED <<disk, issued, replaced, retired, clientVars>>
    BY DEF Tick
<1>4. SavedOnce'
    BY <1>2, <1>3 DEF CertInv, SavedOnce
<1>5. Locked' /\ CacheRenewed' /\ ServedIsRenewed' /\ LoadedFollowsDisk' /\ CacheFollowsDisk'
    BY <1>2, <1>3 DEF CertInv, Locked, CacheRenewed, ServedIsRenewed, LoadedFollowsDisk, CacheFollowsDisk,
                      Resetting, clientVars
<1> QED BY <1>1, <1>4, <1>5 DEF CertInv

(* Each step of CertResolver::resolve. *)
LEMMA ResolveInv ==
    ASSUME CertInv, NEW c \in Clients, Resolve(c) \/ ClientStep(c) \/ LoadCertFails(c) PROVE CertInv'
<1>0. /\ client[c] \in ClientStates
      /\ client[c].retired \subseteq retired /\ retired \in SUBSET Nat /\ cache \in Nat /\ disk \in Nat
      /\ faults \in 0..MaxFaults /\ cache \notin retired /\ None \notin retired /\ outdated = {}
      /\ (lock = c <=> client[c].pc \in {"load", "store"}) /\ lock \in Clients \cup {Nobody}
    BY DEF CertInv, CertTypes, SavedOnce, CacheRenewed, Locked, ServedIsRenewed
<1>1. CASE Resolve(c)
    <2> DEFINE s == [pc |-> "read", got |-> None, retired |-> retired]
    <2>1. client' = [client EXCEPT ![c] = s] /\ lock' = lock /\ lock # c /\ cache' = cache
        BY <1>0, <1>1, ClientsAssumption DEF Resolve
    <2>2. /\ s \in ClientStates
          /\ s.pc = "read" /\ s.got = None /\ s.retired = retired
        BY <1>0 DEF ClientStates, IdleClient, None
    <2>3. faults' \in 0..MaxFaults /\ UNCHANGED <<renewalVars, time>>
        BY <1>0, <1>1, CertBounds DEF Resolve, Fault, boundVars
    <2>4. outdated' = {}
        BY <1>0, <1>1 DEF Resolve
    <2> HIDE DEF s
    <2> QED BY <1>0, <2>1, <2>2, <2>3, <2>4, ClientInv
<1>2. ASSUME ReadCache(c) \/ LockCache(c), cache # None PROVE CertInv'
    <2> DEFINE s == IdleClient
    <2>1. client' = [client EXCEPT ![c] = s] /\ lock' = lock /\ lock # c /\ cache' = cache
        BY <1>0, <1>2, ClientsAssumption DEF ReadCache, LockCache, Answer
    <2>2. /\ s \in ClientStates
          /\ s.pc = "done" /\ s.retired = {}
        BY <1>0 DEF ClientStates, IdleClient, None
    <2>3. faults' \in 0..MaxFaults /\ UNCHANGED <<renewalVars, time>>
        BY <1>0, <1>2, CertBounds DEF ReadCache, LockCache, Answer, Fault, boundVars
    <2>4. outdated' = {}
        BY <1>0, <1>2 DEF ReadCache, LockCache, Answer
    <2> HIDE DEF s
    <2> QED BY <1>0, <2>1, <2>2, <2>3, <2>4, ClientInv
<1>3. ASSUME ReadCache(c), cache = None PROVE CertInv'
    <2> DEFINE s == [client[c] EXCEPT !.pc = "lock"]
    <2>1. client' = [client EXCEPT ![c] = s] /\ lock' = lock /\ lock # c /\ cache' = cache
        BY <1>0, <1>3, ClientsAssumption DEF ReadCache
    <2>2. /\ s \in ClientStates
          /\ s.pc = "lock" /\ s.got = client[c].got /\ s.retired = client[c].retired
        BY <1>0 DEF ClientStates, IdleClient, None
    <2>3. faults' \in 0..MaxFaults /\ UNCHANGED <<renewalVars, time>>
        BY <1>0, <1>3, CertBounds DEF ReadCache, Fault, boundVars
    <2>4. outdated' = {}
        BY <1>0, <1>3 DEF ReadCache
    <2> HIDE DEF s
    <2> QED BY <1>0, <1>3, <2>1, <2>2, <2>3, <2>4, ClientInv
<1>4. ASSUME LockCache(c), cache = None PROVE CertInv'
    <2> DEFINE s == [client[c] EXCEPT !.pc = "load"]
    <2>1. client' = [client EXCEPT ![c] = s] /\ lock' = c /\ lock = Nobody /\ cache' = cache
        BY <1>0, <1>4, ClientsAssumption DEF LockCache
    <2>2. /\ s \in ClientStates
          /\ s.pc = "load" /\ s.got = client[c].got /\ s.retired = client[c].retired
        BY <1>0 DEF ClientStates, IdleClient, None
    <2>3. faults' \in 0..MaxFaults /\ UNCHANGED <<renewalVars, time>>
        BY <1>0, <1>4, CertBounds DEF LockCache, Fault, boundVars
    <2>4. outdated' = {}
        BY <1>0, <1>4 DEF LockCache
    <2> HIDE DEF s
    <2> QED BY <1>0, <1>4, <2>1, <2>2, <2>3, <2>4, ClientInv
<1>5. ASSUME (LoadCert(c) /\ disk = None) \/ LoadCertFails(c) PROVE CertInv'
    <2> DEFINE s == IdleClient
    <2>1. client' = [client EXCEPT ![c] = s] /\ lock' = Nobody /\ lock = c /\ cache' = cache
        BY <1>0, <1>5, ClientsAssumption DEF LoadCert, LoadCertFails, Answer
    <2>2. /\ s \in ClientStates
          /\ s.pc = "done" /\ s.retired = {}
        BY <1>0 DEF ClientStates, IdleClient, None
    <2>3. faults' \in 0..MaxFaults /\ UNCHANGED <<renewalVars, time>>
        BY <1>0, <1>5, CertBounds DEF LoadCert, LoadCertFails, Answer, Fault, boundVars
    <2>4. outdated' = {}
        BY <1>0, <1>5 DEF LoadCert, LoadCertFails, Answer
    <2> HIDE DEF s
    <2> QED BY <1>0, <1>5, <2>1, <2>2, <2>3, <2>4, ClientInv
<1>6. ASSUME LoadCert(c), disk # None PROVE CertInv'
    <2> DEFINE s == [client[c] EXCEPT !.pc = "store", !.got = disk]
    <2>1. client' = [client EXCEPT ![c] = s] /\ lock' = lock /\ lock = c /\ cache' = cache
        BY <1>0, <1>6, ClientsAssumption DEF LoadCert
    <2>2. /\ s \in ClientStates
          /\ s.pc = "store" /\ s.got = disk /\ s.retired = client[c].retired
        BY <1>0 DEF ClientStates, IdleClient, None
    <2>3. faults' \in 0..MaxFaults /\ UNCHANGED <<renewalVars, time>>
        BY <1>0, <1>6, CertBounds DEF LoadCert, Fault, boundVars
    <2>4. outdated' = {}
        BY <1>0, <1>6 DEF LoadCert
    <2> HIDE DEF s
    <2> QED BY <1>0, <1>6, <2>1, <2>2, <2>3, <2>4, ClientInv
<1>7. CASE StoreCert(c)
    <2> DEFINE s == IdleClient
    <2>1. client' = [client EXCEPT ![c] = s] /\ lock' = Nobody /\ lock = c /\ cache' = client[c].got
        BY <1>0, <1>7, ClientsAssumption DEF StoreCert, Answer
    <2>2. /\ s \in ClientStates
          /\ s.pc = "done" /\ s.retired = {}
        BY <1>0 DEF ClientStates, IdleClient, None
    <2>3. faults' \in 0..MaxFaults /\ UNCHANGED <<renewalVars, time>>
        BY <1>0, <1>7, CertBounds DEF StoreCert, Answer, Fault, boundVars
    <2>4. client[c].got \notin retired /\ client[c].pc = "store"
        BY <1>7 DEF StoreCert, CertInv, CacheRenewed
    <2>5. outdated' = {}
        BY <1>0, <1>7, <2>4 DEF StoreCert, Answer
    <2> HIDE DEF s
    <2> QED BY <1>0, <2>1, <2>2, <2>3, <2>4, <2>5, ClientInv
<1> QED BY <1>1, <1>2, <1>3, <1>4, <1>5, <1>6, <1>7 DEF ClientStep

(* Each step of update_certs. *)
LEMMA RenewalInv ==
    ASSUME CertInv, NEW r \in Renewers,
           StartRenewal(r) \/ RenewerStep(r) \/ CheckCertFails(r) \/ OrderFails(r)
    PROVE  CertInv'
<1>0. /\ renewer[r] \in RenewerStates /\ renewer[r].replaces \subseteq replaced
      /\ issued \in Nat /\ faults \in 0..MaxFaults
    BY DEF CertInv, CertTypes, SavedOnce
<1> DEFINE goto(p) == [renewer[r] EXCEPT !.pc = p]
<1>1. ASSUME StartRenewal(r) \/ CheckCert(r) \/ CheckCertFails(r) PROVE CertInv'
    <2>1. PICK p \in {"idle", "check", "order"} : renewer' = [renewer EXCEPT ![r] = goto(p)]
        BY <1>1 DEF StartRenewal, CheckCert, CheckCertFails
    <2>2. goto(p) \in RenewerStates /\ goto(p).pc = p /\ goto(p).replaces = renewer[r].replaces
        BY <1>0 DEF RenewerStates
    <2>3. /\ faults' \in 0..MaxFaults /\ renewer[r].pc # "reset"
          /\ UNCHANGED <<files, retired, clientVars, time>> /\ issued' \in Nat /\ issued' >= issued
        BY <1>0, <1>1, CertBounds DEF StartRenewal, CheckCert, CheckCertFails, Fault, boundVars
    <2> QED BY <1>0, <2>1, <2>2, <2>3, RenewerInv
<1>2. CASE OrderFails(r)
    <2>1. /\ faults' \in 0..MaxFaults /\ renewer[r].pc # "reset" /\ renewer' = [renewer EXCEPT ![r] = IdleRenewer]
          /\ UNCHANGED <<files, retired, clientVars, time>> /\ issued' \in Nat /\ issued' >= issued
        BY <1>0, <1>2, CertBounds DEF OrderFails, Fault
    <2> QED BY <1>0, <2>1, IdleRenewerType, RenewerInv
<1>3. CASE IssueCert(r)
    <2> DEFINE s == [pc |-> "save", cert |-> issued + 1, left |-> Lifetime, replaces |-> {}]
    <2>1. s \in RenewerStates /\ s.pc = "save" /\ s.cert = issued + 1 /\ s.replaces = {}
        BY <1>0, LifetimeAssumption DEF RenewerStates
    <2>2. /\ faults' \in 0..MaxFaults /\ renewer[r].pc # "reset" /\ renewer' = [renewer EXCEPT ![r] = s]
          /\ UNCHANGED <<files, retired, clientVars, time>> /\ issued' \in Nat /\ issued' >= issued
          /\ issued' = issued + 1
        BY <1>0, <1>3 DEF IssueCert, boundVars
    <2> HIDE DEF s
    <2> QED BY <1>0, <2>1, <2>2, RenewerInv
<1> QED BY <1>1, <1>2, <1>3, SaveInv, ResetInv DEF RenewerStep

LEMMA NextInv == CertInv /\ [Next]_vars => CertInv'
<1> SUFFICES ASSUME CertInv, [Next]_vars PROVE CertInv'
    OBVIOUS
<1>1. CASE UNCHANGED vars
    BY <1>1, StutterInv
<1> QED BY <1>1, TickInv, ResolveInv, RenewalInv, RestartInv DEF Next

(* The parts of CertInv are inductive together. *)
LEMMA CertInvariant == Spec => []CertInv
BY InitInv, NextInv, PTL DEF Spec

(* The variables keep their types, and the write lock of ACME_CERTIFIED_KEY is
   held only by a handshake that is filling the cache. *)
THEOREM CertTypeCorrect == Spec => []CertTypeOK
<1>1. CertInv => CertTypeOK
    BY DEF CertInv, CertTypeOK
<1> QED BY <1>1, CertInvariant, PTL

(* However many handshakes and renewals overlap, no old certificate stays in the
   cache once update_certs has reset it. *)
THEOREM CacheCorrect == Spec => []CacheFollowsDisk
<1>1. CertInv => CacheFollowsDisk
    BY DEF CertInv
<1> QED BY <1>1, CertInvariant, PTL

(* A handshake that begins after update_certs returned is never answered with a
   certificate that had been replaced on disk by then, however many renewals
   are issued and save their certificates in whatever order. *)
THEOREM ServedCorrect == Spec => []ServedIsRenewed
<1>1. CertInv => ServedIsRenewed
    BY DEF CertInv
<1> QED BY <1>1, CertInvariant, PTL
=================================================================================
