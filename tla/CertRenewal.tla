----------------------------- MODULE CertRenewal -----------------------------
(***************************************************************************)
(* The certificate of the web interface: update_certs renews it on disk,    *)
(* when the server starts and every 6 hours, while CertResolver serves TLS  *)
(* handshakes from a cache behind a RwLock.                                 *)
(*                                                                          *)
(* A certificate is its number in the order of issue.  Let's Encrypt issues *)
(* it when the order is finalized; it is downloaded and saved later, so of  *)
(* two calls that overlap the one that saves last need not have the         *)
(* certificate that was issued last.                                        *)
(***************************************************************************)
EXTENDS Integers

CONSTANTS
    Clients,       \* threads that answer handshakes
    Renewers,      \* calls of update_certs that can overlap
    Lifetime,      \* days a new certificate is valid, in clock ticks
    RenewBefore,   \* renewed with fewer days left than this: 15
    MaxTime,       \* bound: the clock stops here
    MaxFaults      \* bound: failing reads of the disk, failing orders and
                   \* restarts of the controller

ASSUME LifetimeAssumption == Lifetime \in Nat /\ RenewBefore \in Nat /\ RenewBefore <= Lifetime
ASSUME CertBounds == MaxTime \in Nat /\ MaxFaults \in Nat

VARIABLES
    disk,       \* the certificate the account keeps, or None
    left,       \* the days it is still valid
    cache,      \* ACME_CERTIFIED_KEY: a certificate or None
    lock,       \* the client that holds the lock for writing, or Nobody
    client, renewer,
    issued,     \* how many certificates were issued
    time, faults,
    replaced,   \* history: certificates that were on disk and are not any more
    retired,    \* history: those of them that were replaced by the time a
                \* renewal that has returned had saved its own
    outdated    \* history: certificates handed to a handshake that began when
                \* they were retired

vars == <<disk, left, cache, lock, client, renewer, issued, time, faults,
          replaced, retired, outdated>>

None == 0
Nobody == "nobody"

ASSUME ClientsAssumption == Nobody \notin Clients

(* What a handshake has loaded, and retired as it was when it began. *)
IdleClient == [pc |-> "done", got |-> None, retired |-> {}]

(* The certificate a renewal was issued, the days it is valid, and what was
   replaced when it was saved. *)
IdleRenewer == [pc |-> "idle", cert |-> None, left |-> 0, replaces |-> {}]

ClientStates == [pc: {"done", "read", "lock", "load", "store"}, got: Nat, retired: SUBSET Nat]
RenewerStates == [pc: {"idle", "check", "order", "save", "reset"},
                  cert: Nat, left: 0..Lifetime, replaces: SUBSET Nat]

CertTypes ==
    /\ disk \in Nat /\ left \in 0..Lifetime /\ cache \in Nat /\ issued \in Nat
    /\ replaced \in SUBSET Nat /\ retired \in SUBSET Nat /\ outdated \in SUBSET Nat
    /\ lock \in Clients \cup {Nobody}
    /\ client \in [Clients -> ClientStates] /\ renewer \in [Renewers -> RenewerStates]
    /\ time \in 0..MaxTime /\ faults \in 0..MaxFaults

(* The lock is held exactly by the client that is filling the cache. *)
Locked == \A c \in Clients : lock = c <=> client[c].pc \in {"load", "store"}

(* Every variable holds a value of its kind, and whoever holds the lock of the
   cache is on its way to release it. *)
CertTypeOK == CertTypes /\ Locked

(* The first start: the account has no certificate. *)
Init ==
    /\ disk = None /\ left = 0 /\ cache = None /\ lock = Nobody
    /\ client = [c \in Clients |-> IdleClient]
    /\ renewer = [r \in Renewers |-> IdleRenewer]
    /\ issued = 0 /\ time = 0 /\ faults = 0 
    /\ replaced = {} /\ retired = {} /\ outdated = {}

Fault == faults < MaxFaults /\ faults' = faults + 1

-----------------------------------------------------------------------------
(* CertResolver::resolve. *)

clientVars == <<cache, lock, client, outdated>>
files == <<disk, left, replaced>>
renewalVars == <<disk, left, renewer, issued, replaced, retired>>
boundVars == <<time, faults>>

(* The handshake is given certificate g, or aborted if that is None. *)
Answer(c, g) ==
    /\ client' = [client EXCEPT ![c] = IdleClient]
    /\ outdated' = outdated \cup ({g} \cap client[c].retired)

Resolve(c) ==
    /\ client[c].pc = "done"
    /\ client' = [client EXCEPT ![c] = [pc |-> "read", got |-> None, retired |-> retired]]
    /\ UNCHANGED <<cache, lock, outdated, renewalVars, boundVars>>

(* The cached certificate, under the read lock. *)
ReadCache(c) ==
    /\ client[c].pc = "read" /\ lock = Nobody
    /\ IF cache # None THEN Answer(c, cache)
       ELSE client' = [client EXCEPT ![c].pc = "lock"] /\ UNCHANGED outdated
    /\ UNCHANGED <<cache, lock, renewalVars, boundVars>>

(* Mutant: the lock is not held while the certificate is loaded. *)
M_LockCache(c) ==
    /\ client[c].pc = "lock" /\ lock = Nobody
    /\ IF cache # None THEN Answer(c, cache)
       ELSE client' = [client EXCEPT ![c].pc = "load"] /\ UNCHANGED outdated
    /\ UNCHANGED <<cache, lock, renewalVars, boundVars>>

(* The write lock; another thread may have filled the cache meanwhile. *)
LockCache(c) ==
    /\ client[c].pc = "lock" /\ lock = Nobody
    /\ IF cache # None THEN Answer(c, cache) /\ UNCHANGED lock
       ELSE client' = [client EXCEPT ![c].pc = "load"] /\ lock' = c /\ UNCHANGED outdated
    /\ UNCHANGED <<cache, renewalVars, boundVars>>

(* Mutant: the lock is kept when there is no certificate. *)
M_LoadCert(c) ==
    /\ client[c].pc = "load"
    /\ IF disk = None THEN Answer(c, None)
       ELSE client' = [client EXCEPT ![c].pc = "store", ![c].got = disk] /\ UNCHANGED outdated
    /\ UNCHANGED <<cache, lock, renewalVars, boundVars>>

(* The certificate on disk; without one the handshake is aborted. *)
LoadCert(c) ==
    /\ client[c].pc = "load"
    /\ IF disk = None THEN Answer(c, None) /\ lock' = Nobody
       ELSE client' = [client EXCEPT ![c].pc = "store", ![c].got = disk] /\ UNCHANGED <<lock, outdated>>
    /\ UNCHANGED <<cache, renewalVars, boundVars>>

(* The files or the key in them cannot be read. *)
LoadCertFails(c) ==
    /\ client[c].pc = "load" /\ Fault
    /\ Answer(c, None) /\ lock' = Nobody
    /\ UNCHANGED <<cache, renewalVars, time>>

StoreCert(c) ==
    /\ client[c].pc = "store"
    /\ cache' = client[c].got /\ lock' = Nobody
    /\ Answer(c, client[c].got)
    /\ UNCHANGED <<renewalVars, boundVars>>

-----------------------------------------------------------------------------
(* update_certs. *)

(* server_config and the scheduler start a call; nothing stops two of them
   from running at the same time. *)
StartRenewal(r) ==
    /\ renewer[r].pc = "idle"
    /\ renewer' = [renewer EXCEPT ![r].pc = "check"]
    /\ UNCHANGED <<files, issued, retired, clientVars, boundVars>>

(* Mutant: only an existing certificate is renewed. *)
M_NeedsRenewal == disk # None /\ left < RenewBefore

NeedsRenewal == disk = None \/ left < RenewBefore

CheckCert(r) ==
    /\ renewer[r].pc = "check"
    /\ renewer' = [renewer EXCEPT ![r].pc = IF NeedsRenewal THEN "order" ELSE "idle"]
    /\ UNCHANGED <<files, issued, retired, clientVars, boundVars>>

(* A certificate that cannot be read counts as missing. *)
CheckCertFails(r) ==
    /\ renewer[r].pc = "check" /\ Fault
    /\ renewer' = [renewer EXCEPT ![r].pc = "order"]
    /\ UNCHANGED <<files, issued, retired, clientVars, time>>

(* The order, the challenge, and finalize_pkey: the certificate is issued. *)
IssueCert(r) ==
    /\ renewer[r].pc = "order"
    /\ issued' = issued + 1
    /\ renewer' = [renewer EXCEPT ![r] = [pc |-> "save", cert |-> issued + 1, left |-> Lifetime, replaces |-> {}]]
    /\ UNCHANGED <<files, retired, clientVars, boundVars>>

(* download_and_save_cert. *)
SaveCert(r) ==
    /\ renewer[r].pc = "save"
    /\ disk' = renewer[r].cert /\ left' = renewer[r].left
    /\ replaced' = replaced \cup ({disk} \ {None})
    /\ renewer' = [renewer EXCEPT ![r].pc = "reset", ![r].replaces = replaced']
    /\ UNCHANGED <<issued, retired, clientVars, boundVars>>

(* Any step of it fails: the old certificate stays. *)
OrderFails(r) ==
    /\ renewer[r].pc \in {"order", "save"} /\ Fault
    /\ renewer' = [renewer EXCEPT ![r] = IdleRenewer]
    /\ UNCHANGED <<files, issued, retired, clientVars, time>>

(* Mutant: the cache is left alone. *)
M_ResetCache(r) ==
    /\ renewer[r].pc = "reset" /\ lock = Nobody
    /\ retired' = retired \cup renewer[r].replaces
    /\ renewer' = [renewer EXCEPT ![r] = IdleRenewer]
    /\ UNCHANGED <<cache, files, issued, lock, client, outdated, boundVars>>

(* The resolver is made to reload the certificate. *)
ResetCache(r) ==
    /\ renewer[r].pc = "reset" /\ lock = Nobody
    /\ cache' = None
    /\ retired' = retired \cup renewer[r].replaces
    /\ renewer' = [renewer EXCEPT ![r] = IdleRenewer]
    /\ UNCHANGED <<files, issued, lock, client, outdated, boundVars>>

-----------------------------------------------------------------------------
ADayLess(days) == IF days > 0 THEN days - 1 ELSE 0

(* A day goes by, also for the certificates that are not saved yet. *)
Tick ==
    /\ time < MaxTime
    /\ time' = time + 1
    /\ left' = ADayLess(left)
    /\ renewer' = [r \in Renewers |-> [renewer[r] EXCEPT !.left = ADayLess(@)]]
    /\ UNCHANGED <<disk, issued, replaced, retired, clientVars, faults>>

(* The controller restarts: what is on disk stays, the cache is empty. *)
Restart ==
    /\ Fault
    /\ cache' = None /\ lock' = Nobody
    /\ client' = [c \in Clients |-> IdleClient]
    /\ renewer' = [r \in Renewers |-> IdleRenewer]
    /\ UNCHANGED <<files, issued, time, retired, outdated>>

ClientStep(c) == ReadCache(c) \/ LockCache(c) \/ LoadCert(c) \/ StoreCert(c)
RenewerStep(r) == CheckCert(r) \/ IssueCert(r) \/ SaveCert(r) \/ ResetCache(r)

Next ==
    \/ \E c \in Clients : Resolve(c) \/ ClientStep(c) \/ LoadCertFails(c)
    \/ \E r \in Renewers : StartRenewal(r) \/ RenewerStep(r) \/ CheckCertFails(r) \/ OrderFails(r)
    \/ Tick \/ Restart

(* Threads run on, and the scheduler starts update_certs again and again.  A
   writer may overtake another, but none waits for ever while the lock is
   free again and again. *)
Fairness ==
    /\ \A c \in Clients : WF_vars(ClientStep(c))
    /\ \A r \in Renewers : WF_vars(StartRenewal(r)) /\ SF_vars(RenewerStep(r))

Spec == Init /\ [][Next]_vars /\ Fairness

-----------------------------------------------------------------------------
(* The files are replaced outside the lock, perhaps while a handshake holds an
   old certificate it is about to cache.  Unless a renewal is between saving the
   files and resetting the cache, the cache is empty or holds the certificate on
   disk: no old one stays in it. *)
CacheFollowsDisk ==
    (\A r \in Renewers : renewer[r].pc # "reset") => cache \in {None, disk}

(* A handshake that begins after a call of update_certs returned is never
   answered with a certificate that was already replaced on disk when that call
   had saved its own, whatever other renewals and handshakes overlap.  (Which of
   two overlapping renewals saves last is open: its certificate may have been
   issued before the other one, and is then the one that stays.) *)
ServedIsRenewed == outdated = {}

(* A missing certificate, or one that is about to expire, is replaced once the
   reads of the disk and the orders stop failing. *)
DueIsRenewed == (disk = None \/ left < RenewBefore) ~> (disk # None /\ left >= RenewBefore)
=============================================================================
