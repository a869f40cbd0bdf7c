# NAMIB MUD controller: TLA+ models, model checking and proofs

The controller keeps an inventory of network devices and their MUD profiles
(RFC 8520) in a SQL database, turns them into firewall rules, and hands these to
enforcers (routers) that poll it over TLS. Users manage it through a REST
interface. It is one tokio process: every REST request, RPC call and scheduled
job is a task of its own, handlers use the database connection pool **without
transactions**, and every `await` is a point where another task may run. The
models therefore have one grain throughout: *one SQL statement, one network call
or one critical section of a lock is one step*, and the steps of concurrent
handlers interleave in every order.

## 1. Inventory

| Component (source) | State | Operations | Talks to | Correct when | Module |
|---|---|---|---|---|---|
| Config distribution (`rpc_server.rs` heartbeat, `firewall_configuration_service.rs` version, `config_service.rs`, `config_controller.rs`) | `FirewallConfigVersion` in table `config`; what each enforcer holds | bump by handlers, heartbeat, operator's PATCH/DELETE | devices, MUD service, enforcers | an enforcer at the current version has the current rules, and reaches it | ConfigSync |
| MUD service (`mud_service/mod.rs`, `mud_controller.rs`, `job_service.rs`) | table `mud_data`: acllist, acl_override, expiration | lookup/refresh, POST, PUT, DELETE, hourly job | vendors' file servers, devices | overrides survive refreshes, local profiles stay local, deleted ones stay deleted, expired ones are renewed | MudService |
| Device inventory (`device_service.rs`, `device_controller.rs`) | table `devices` | DHCP lease upsert, POST, PUT, DELETE | enforcers (leases), MUD service | a leased address is on the right device, a device has one row, user data is kept | DeviceInventory |
| Users, roles, tokens (`user_service.rs`, `role_service/`, `auth.rs`, controllers) | tables `users`, `roles`, `users_roles`; JWTs held by clients | signup, login, refresh, management | everything behind REST | tokens carry what was granted, one first admin, changed passwords stay | UserAccess |
| Enforcer connections (`rpc_server.rs` listen, `enforcer_service.rs`, `enforcer_controller.rs`) | table `enforcers`; open connections | TLS accept, registration, allow/forbid | enforcers, operator | only allowed enforcers are served, and those are unless others hold up the loop or the slots | EnforcerLink |
| Certificates (`acme_service.rs`) | certificate on disk, cached key behind a RwLock | resolve, renew | Let's Encrypt, web server threads | no handshake is served a certificate that was replaced on disk after the renewal returned; due ones are renewed | CertRenewal |
| Firewall rules (`firewall_configuration_service.rs` 20-124) | none (pure) | merge_acls, convert to rules, create_configuration | config distribution, enforcers | a packet passes only if the vendor or the user accepted it; the order of ACEs decides | FirewallRules |
| MUD parser (`parser.rs`) | none (pure) | parse_mud | MUD service | invalid files change nothing, valid ones give rules and an expiration within a week | MudParser |
| MUD fetching (`fetch.rs`) | the download in progress | fetch_mud | file servers | text arrives whole, the size of the body is limited, the loop ends | MudFetch |
| Rooms (`room_service.rs`, `room_controller.rs`) | table `rooms` | create, rename, delete | devices (foreign key) | a request hits the room it names; a device's room exists | Rooms, DeviceContext |
| Neo4Things client and enforcer logs (`neo4things_service.rs`, `log_service.rs`) | background tasks that retry | report devices, connections, chosen MUD-URLs | external service, devices | reports arrive in spite of their order, under an identity the service knows | Things, DeviceContext |
| Start and stop (`main.rs`, `app.rs`) | tasks, stop channel | start, stop | all | the end of one server ends the process | only as a restart |
| User settings, status endpoint, database, migrations | table `user_configs`; read-only; external | | | | not modelled, see section 7 |

Interactions: a lease, a POST or a PUT looks the device's profile up in the MUD
service (`load_refs`, which may refresh it) and then writes a device row and bumps
the version; heartbeats read the version, the devices and their profiles; the
hourly job refreshes profiles and bumps once; REST calls are admitted by tokens.
`load_refs` also reads the device's room, whose deletion sets the reference to NULL;
handlers of devices and logs start background reports to the Neo4Things service.

What is hard here (PROJECT.json lists each place): the bump of the version is a
read and a write in separate statements; handlers read a whole row, wait, and
write the whole row back; a failing load becomes an empty config under a current
version; several handlers look, then act in another statement; tokens and
connections keep permissions that were revoked; a process may stop between a
change and its announcement; downloads fail and have to be retried; the accept
loop does one handshake at a time and serves a limited number of connections; a
download is decoded through a buffer that fills in the middle of a chunk; a room is
looked up by id and deleted by name; background reports overtake each other and name a
device by an identity that leases and users change; renewals of the certificate overlap.

## 2. Modules

Every component is one module with its bounds as CONSTANTS; `MC<name>.tla` names
model values, `MC*.cfg` chooses instances, `<name>Proofs.tla` holds the theorems.
(MudFetch, MudParser and FirewallRules are proved about in MudPipelineProofs, Rooms and
Things in DeviceContextProofs, which compose them.)
In all of them a worker or task is a record with a program counter `pc`, an action
is named after the function whose statement it is, `Begin`/`Start` is the arrival
of a request, and *history variables* (marked so) record what a property has to
remember and are read by no guard. A definition `M_x` is a defective variant of
`x` that shows which bug a property would notice; no specification uses it.

* **ConfigSync**. `rows[r]` counts the writes of a device or MUD row, so that
  "has the current content" is equality of numbers; `version` is the u64 counter
  (`wrapping_add` modulo `Modulus`), or `NoNumber`, a string an operator stored that
  enforcers get as it is and the next bump reads as 0; `worker` runs one of six kinds of handlers
  through `clear` (remove_existing_ips), `load` (get_or_fetch_mud per profile),
  `write`, `readver`, `writever`; `beat[e]` is a heartbeat in progress, which
  copies rows one after the other; `enf[e]` is what the enforcer holds.
  `unannounced` collects changes whose handler will never bump (a refresh by a
  reader, a failure or crash before the bump, a job that stops early).
* **MudService**. One row per URL with the revision of the file, the override and
  the expiration. `LookupRow`, `Fetch`, `Store` are get_or_fetch_mud; `used` is
  what devices refer to; `raced` names the profiles whose override was changed
  while a refresh was between its lookup and its store, `forgotten` those whose row a
  failing lookup missed, `gone` those deleted while no handler was dealing with them.
* **DeviceInventory**. The upsert (find by MAC, then by DUID; clear the v4 and v6
  address elsewhere; insert or update) and the REST operations including what a
  request may leave out or get wrong (`Bodies`, `parsed`, `apply_to`). A MAC names an
  interface and a DUID a host, so leases bring them in every combination (`Leases`).
  `owner` is the MAC, or else the DUID, an address was leased to last; it is forgotten
  when a user assigns the address or changes the row's identity, and when a lease that
  finds the row by its DUID gives it another MAC (`TakenOver`).
* **UserAccess**. Signup (INSERT, COUNT, make admin, further roles), login and
  refresh (find, load permissions, issue), the updates that write back rows, the
  management of users and roles with their cascades. Checks of permissions look at
  the token only, as `require_permission` does.
* **EnforcerLink**. `peer[p]` follows a connection through the listeners' queue, the
  handshake, the statements of register_enforcer, and its service; the loop is
  sequential (`LoopFree`) and limited (`HasFreeSlot`). A panic of
  `peer_addr().unwrap()` ends `listen`, hence `main`, and the controller is started
  again (`restart: always` in docker/docker-compose.yml).
* **CertRenewal**. `cache` behind `lock`, `disk` replaced outside of it; resolve's
  double-checked filling of the cache against overlapping calls of update_certs, in
  which a certificate is issued (`IssueCert`) and saved (`SaveCert`) in two steps: the
  one issued first may be saved last. Old is therefore what was *replaced on disk*.
* **ConfigFeed**. The abstract specification of config distribution: rows change,
  and now and then an enforcer gets a config under another version than it holds, no
  row of which is older than what it holds or newer than the row is; or it gets a
  config without devices; or it starts again. ConfigSync implements it under the
  mapping `holds` (what each enforcer has, without the histories).
* **FirewallRules, MudParser, MudFetch, MudPipeline**. The first two are functions:
  `parse_mud` from the record serde makes of a file to the profile, with every
  rejection in `Parsable`; `merge_acls`, `convert_device_to_fw_rules` and
  `create_configuration` from profile and override to rules; and `Decide`, what a
  first-match firewall does with a packet. MudFetch is the download loop: characters
  that take a different number of bytes on the wire and in the String, in chunks of
  any size, through a buffer. MudPipeline composes them for one profile: fetch,
  parse, keep the override, or create a local profile, or PUT an override.
* **Rooms, Things, DeviceContext**. Rooms has the handlers of `/rooms` statement by
  statement. Things has the background tasks, with numbers so that equal reports are
  different tasks; every task tries once in a `Round` and gives up after `Window`
  rounds. A report names an identity (`mac_or_duid`: the MAC or else the DUID a device
  has when the report is made). DeviceContext composes both with POST, PUT and DELETE of
  devices, leases (find, load_refs, write the whole copy back) and log lines; PUTs and
  leases change identities. `excused` collects the devices whose report was skipped or
  lost or whose identity was changed. Reads change nothing here and are left out.

## 3. Runs

| Run | Shows |
|---|---|
| sync | TypeOK; SyncedOrExplained: an enforcer at the current version lacks a change only if a handler is still about to bump, the change belongs to those never announced, the counter moved backwards, or a load failed. EventuallySynced: when requests and faults stop, polling ends at the current version with every announced change. ImplementsFeed: ConfigSync refines ConfigFeed. |
| sync_refresh (violation) | InSync fails without any overlap: a GET or a heartbeat refreshes an expired profile and nothing bumps the version (a lease or a PUT that does so bumps it afterwards). |
| mud | MudTypeOK; OverrideKeptUnlessRaced: a profile has the override a request last stored, unless the request came between a refresh's lookup and its store, or a lookup failed (`get_mud` drops database errors) and the profile was fetched as a new one, which leaves no override; LocalProfilesStayLocal; DeletedStayGone: a deleted profile comes back only if somebody asks for it again or a handler was dealing with it; EventuallyFresh: when servers stay reachable the job leaves no profile expired. |
| mud_override (violation) | OverrideKept fails: an acknowledged override is overwritten by a refresh that read the row before. |
| devices | DevicesTypeOK; AddressFollowsLease; OneRowPerMac; UserFieldsKept, each with the exceptions the code leaves open: a handler that held a copy, a second insertion at the same time, what users assigned, a lease that names nobody, or one of another MAC with the same DUID that takes a row over with its other address. |
| users | UserTypeOK; TokenPermissionsHeld; TokenNamesItsUser; OneSelfMadeAdmin; AdminUnlessInterrupted; PasswordKeptUnlessRaced. |
| users_setup (violation) | SetupMakesAdmin fails: two first signups overlap and nobody becomes admin. |
| enforcers | LinkTypeOK (limit of connections); ServedWasAllowed; DecisionKept; InsertNeverConflicts; AllowedAreServed: an enforcer that stays allowed and keeps connecting is served again and again, provided no peer stays silent in its handshake for ever and a slot gets free again and again (section 5). |
| certs | CertTypeOK; CacheFollowsDisk: unless a renewal has still to reset it, the cache is empty or has what is on disk; ServedIsRenewed: no handshake that begins after a renewal returned gets a certificate that was replaced when that renewal had saved its own; DueIsRenewed. |
| pipeline | PipelineTypeOK (with the limits of an expiration); DownloadComplete: every character once and in order; DownloadBounded: what is kept, decoded, exceeds MAX_LEN by at most a buffer and what decoding adds to one chunk; DownloadEnds; DecidedByFirstAce: the rules decide as the first ACE that applies, and reject otherwise; AcceptedIsPermitted: nothing passes that neither the file nor the override accepted. |
| download_limit (violation) | BodyLimited fails: "Maximum response body size: 10MB" (fetch.rs:21) is compared with decoded text, so a UTF-16 body of twice the limit is taken. |
| context | ContextTypeOK (with the foreign key); RoomOfRequest; CollectedIsReported: a device that is collected about is known to the service under its identity, or on its way, or one of the named things happened; NoOutageNoLoss: without an outage or restart no report is given up that names an identity the service knew or was being told of when the report was made. Deadlock is checked: everything that is begun comes to an end. |

The four violations are listed as findings in PROJECT.json with the line of the
code or test they contradict. Where a plain property fails in such a way, the
passing run checks the same property with the exception named by a history
variable: the exception is then shown to be the *only* one.

The race of the two statements of `update_config_version` is such an exception. Two
handlers that store the same version do no harm by themselves: each writes its row before
it reads the version, and a heartbeat reads the version before the rows. It takes a third
change: one handler reads version 0, others store 1 and 2, and the late store of the first
moves the counter back to 1. An enforcer that got its config under 1 before the last
change is told that it is up to date until the counter moves on. SyncedOrExplained names
this as "the counter moved backwards" and shows that nothing else of the kind happens.

What the runs pipeline and context tell a reader of the code. A block with a DNS name in a file
replaces the protocol of its udp or tcp block, and a protocol number becomes "all
protocols": rules of a fetched file never depend on the protocol, which is why
AcceptedIsPermitted speaks of the host and the direction only. An override replaces
ACLs by name, in both directions. A device that was reported by its DUID and then gets a
MAC, from a lease or a user, is reported no more: its connections name an identity the
service does not know and are given up after 15 minutes. Turning collecting on in the PUT that also
chooses a guessed MUD-URL never reports the device itself. A deletion of a room that
was renamed meanwhile may delete another room that took the name. None of these
contradicts a statement of the repository, so they are exceptions in the properties
and not findings.

## 4. Bounds

A lost update needs two handlers and one item both touch, an observer needs one
reader more; so two workers (tasks, clients, renewers), one or two rows, one
enforcer (two where one has to refresh what the other misses), and two to four
requests reach every pattern in PROJECT.json's hazards. Every kind of request is
enabled at every moment. `MaxFaults = 1` lets any single statement fail, the
process crash or restart or a reply get lost at any point. `Modulus = 3` makes the counter wrap and the
operator's value 2 sits just below the wrap. `Validity`, `Ttl`, `Lifetime` of one
tick and one or two ticks of time let things expire once or twice while handlers run.
EnforcerLink has one slot for three connections, two of them of one enforcer.
Requests on devices give up to two identifying fields (`MaxFields = 2`). Two MACs and two
DUIDs with one address of each family and three requests are enough for a lease to take
over the row of another MAC while a third handler has a copy of it.
In the pipeline a buffer of 4 bytes, chunks of up to 3 and bodies of up to 6
characters of one or two bytes fill the buffer in the middle and at the end of a
chunk, and the limit of 5 bytes is met and exceeded; the files are all files of one
ACL with one ACE out of 75 shapes, and files whose ACLs and ACEs contradict each
other (`Revisions`, the files offered later, are eight of those). download_limit has a
charset of two bytes per character, of which one is left when it is decoded. In the
context run two devices, two identities and none, two rooms, two handlers of each kind
and three requests; requests on devices name the first room (`NamedRooms`).
Symmetry is used for interchangeable workers, names and rows in runs without
temporal properties. No CHECK_DEADLOCK is switched off.

The bounds on requests are large enough that each property was also seen to fail
for a defective variant of the code (PROJECT.json "mutants").

## 5. Fairness

Only steps the controller or a cooperating part takes by itself are fair; requests,
expirations, faults, crashes and operators are not.

* ConfigSync: a started handler runs on (tokio schedules it; statements and
  downloads return or time out), an enforcer polls ("called regularly").
* MudService: tasks run on (downloads time out after 15 s), the scheduler starts
  the job again and again, the clock advances.
* EnforcerLink: the statements of a registration complete (weak fairness of
  `Register`), and strong fairness of `Accept`: the listeners are FIFO queues that
  `stream::select` polls in turn, so a waiting connection is accepted if any are.
  Nothing is assumed of handshakes and of the end of connections, because the code sets
  no timeout on either (rpc_server.rs:138, 170). What AllowedAreServed needs of them is
  its precondition: no peer is silent in its handshake for ever (`LoopKeepsGoing`),
  fewer than the limit are served again and again (`SlotsGetFree`), and the enforcer
  connects again and not all its handshakes fail (`KeepsConnecting`). Without either of
  the first two TLC finds an allowed enforcer that is never served.
* MudPipeline: the loops of the decoder and the parser come to an end, and a request
  ends or hits its timeout of 15 s.
* CertRenewal: threads run on, the scheduler starts update_certs every 6 hours, and
  a thread waiting for the lock gets it if it becomes free again and again.

## 6. Proofs

The theorems hold for all values of the constants (any number of rows, workers,
enforcers, requests, files of any length) under the named ASSUMEs, which every run
also evaluates. Every invariant of every passing run is a theorem, and so is the
refinement. Below: what each module proves, and why the properties are not inductive
by themselves.

* **ConfigSyncProofs**. `TypeCorrect` and `Synced` (SyncedOrExplained). The
  invariant alone is not inductive: a reply turns a config under construction into
  one an enforcer holds, and a bump must not land on a version already handed out.
  The strengthening is `NotAhead /\ SyncedOrExplained /\ BuildSyncedOrExplained`:
  no version handed out since the counter last moved backwards exceeds the counter,
  and the rows a heartbeat has copied so far are current or explained. Uses
  `RowsAssumption`, `ModulusAssumption`, `AdminAssumption`.
  `FeedImplemented` is `Spec => ImplementsFeed`, the refinement of
  ConfigFeed. Each step is shown to be a step of ConfigFeed or none under the
  invariant `FeedInv`: what an enforcer holds and what its heartbeat has read so far
  is ordered row by row (held, read, current), and the version of a heartbeat in
  progress is not the one its enforcer holds. Without the first half a reply could
  not be compared with what it replaces.
* **MudServiceProofs**. `MudTypeCorrect`, `OverrideSafe` (OverrideKeptUnlessRaced),
  `LocalSafe`, `DeletedSafe`. For the override the strengthening adds that absent rows
  have no override to lose (`AbsentHasNoOverride`) and that a refresh in flight
  carries the acknowledged override unless the profile was raced, or none if a lookup
  failed (`RefreshCarriesOverride`). A deleted profile stays deleted because no task has
  it in hand or on its list any more (`GoneInv`); typing needs `HasUrl`: a task past its first step knows
  its URL. Local profiles stay local because of what tasks are *going* to write
  (`WritesFit`): only https URLs are downloaded, only other names are inserted, and
  PUT writes back a row that fitted. Uses `UrlAssumption`, `TimeAssumption`.
* **EnforcerLinkProofs**. `LinkTypeCorrect`, `OnlyAllowedServed`, `DecisionsStand`,
  `OneRowPerCertificate` (InsertNeverConflicts), from `LinkInv`: the loop has one
  connection in hand (`OneRegisters`), for which a slot stays free (`SlotKept`, with
  the finiteness of the served set), the answer it read was right or is known to be
  withdrawn (`SeenWasAllowed`), and nobody has decided about an enforcer without a
  row (`UnknownUndecided`). Uses `CertOfAssumption`, `ConnectionsAssumption`.
* **CertRenewalProofs**. `CertTypeCorrect`, `CacheCorrect`, `ServedCorrect`, from
  `CertInv`: the lock is held exactly by a client between loading and storing; a
  certificate is saved once, so what is on disk, or still to be saved, was never
  replaced; nothing retired (replaced when a renewal that returned had saved) is cached
  or loaded; and a cached or loaded certificate that is not the one on disk has a
  renewal behind it that still has to reset the cache. The reset needs the lock, so it
  comes after the store.
* **UserAccessProofs**. Six theorems, one per invariant of the run. Typing needs that
  the bounded ids do not run out (`Counted`), that ids in rows, tokens and handlers
  were all given out before (`Fresh`: AUTOINCREMENT is what makes a token of a deleted
  user harmless), and that whoever issues a token has found a user. `TokenInv` says of
  handlers between their statements what the properties say of tokens. `PwInv` adds
  that a copy about to be written back has the current password unless the user is
  known to be raced. `AdminInv` adds that a signup about to make its user admin counted
  alone, so that every other self-made admin among the users is that user, and that
  while nobody is admin the only user is still being made one. Uses `UserBounds`, `RolePermsAssumption`.
* **DeviceInventoryProofs**. `DevicesTypeCorrect`, `LeasesKeepUserFields`,
  `MacsHaveOneRow`, `AddressesFollowLeases`. All four need the copies handlers hold:
  a lease's copy agrees with what the user stored last (`UserInv`); copies count as
  rows, so whoever is about to write a MAC writes it to the one row that has it, or
  there is none (`MacInv`); a copy follows the leases from the moment its address was
  cleared elsewhere (`AddressInv`), and only v6 addresses are leased to a DUID, so that
  a lease which replaces the DUID of a row leaves no address of the old one behind. A
  lease that replaces the MAC does: `TakenOver` names this exception.
  Uses `ClientAssumption`, `DeviceBounds`.
* **DeviceContextProofs**. `ContextTypeCorrect`, `RequestsHitTheirRoom`,
  `CollectedAreReported`, `NothingLostWithoutOutage`, from `ContextInv`: names of rooms
  are unique and later ids unused, a room handler knows the id of an untouched name
  (`RoomInv`); while the service answers, an identity is added at the first attempt, and
  whoever waits for that is in its first round (`Calm`, `Settled`); a handler's copy is
  of a row that is still there with the same identity unless the device is excused
  (`CopyOK`); a device that is collecting, *and a copy that says so*, is accounted for,
  since a PUT reports nothing if its copy was already collecting. Uses
  `ContextAssumption` (the rooms at the start have ids), `ThingAssumption`,
  `NameAssumption`, `RoomBound`.
* **MudPipelineProofs**. `DownloadsComplete` and `DownloadsBounded`, from `FetchInv`:
  output, buffer and rest of the chunk together are what was received, and their size
  stays below the limit plus a buffer plus what decoding adds to a chunk.
  `PipelineTypeCorrect`, `FirstAcesDecide` and `OnlyPermittedPasses`, from `MudInv`:
  the stored profile is what parse_mud makes of the file it came from, with some
  override, or a local one. The last two are about loops over ACLs and ACEs of any
  length: `FilterPicks` (a loop that skips elements keeps the others, each once and in
  order), `FlattenJoins`, `AcesPlaces`, `AceRulesPlaces` (the rules of an ACE stay
  together, in the order of the ACEs), `FirstDecides` and `FirstAceDecides` (the first
  rule that matches is one of the first ACE that applies). Uses `FetchAssumption`,
  `HostAssumption`, `PipelineAssumption` (files, revisions and overrides are records
  of the shape serde makes; nothing about their length or contents).

Where a lemma needs induction over the length of a sequence, the library's induction
theorems cannot be cited (they take an operator as a parameter). The proofs argue with
the smallest counterexample instead: `NatSetInduction` says that a set of numbers that
has 0 and the successor of each of its members has every number, from the
well-foundedness of `<`; the set is named in the lemma that uses it.

Only model-checked: the liveness properties EventuallySynced, EventuallyFresh,
AllowedAreServed, DueIsRenewed and DownloadEnds (fairness and ENABLED are outside the
prover), and the four violations, which are counterexamples.

## 7. Not modelled

* Contents: names, addresses, networks, clipart and colours are abstracted to values
  that can be told apart or left out; ACLs have contents only in MudPipeline.
  Formatting, logging and OpenAPI descriptions are left out.
* DeviceContext has no addresses and no DUID beside a MAC: a lease may find any row that
  has an identity, and a log line any row (DeviceInventory says which row has an
  address). Dates of log lines are only logged.
* The pauses of the retries (10 to 60 s, for 15 minutes) are rounds in which every
  task tries once. Multi-byte characters that are split between two chunks are the
  decoder's business.
* Rate limiting, CORS and static files (`app.rs`): configuration of libraries.
* `user_config_service`: a key-value table per user that no other part reads.
  `status_controller` and `guess_thing`: read only. `main.rs`: wiring; a
  restart is an action where it matters. `db.rs`: external; the constraints of the
  migrations (UNIQUE, foreign keys, cascades, AUTOINCREMENT) are part of the modules
  that rely on them.
* The ACME library: an order succeeds or fails, its files are replaced in one step, and
  the challenge and the issuing of a certificate are one step; a poisoned lock (a panic while it is held) is not considered.
* `static/swagger-ui`: minified third-party files that are only served.
* Several controllers on one database.

## 8. Plan

Done: ConfigSync with its abstract specification and the proof of the refinement,
MudService, EnforcerLink, CertRenewal, DeviceInventory, UserAccess, the MUD pipeline
and the device context, all with proofs of every invariant their runs check. Every
component with state of its own is modelled.

Left: action properties worth a theorem of their own, stated as what a step may never
do, where an invariant with a history variable says it indirectly now (a lease and the
user's fields, a refresh and the override); shorter proofs where a leaf cites more than
it needs. Liveness stays with TLC.
