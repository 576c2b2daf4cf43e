# Verification of the cold-chain shipment system

TLA+ models of the cold-chain shipment tracking system in this repository,
model-checked with TLC. Every safety property of a passing run is also proved with
TLAPS, for every value of the constants. Paths below are relative to the repository's root.

## 1. The system

A hardware tracker travels with a parcel and reports temperature and
acceleration. A backend judges the readings against the conditions registered
for the parcel, keeps them in Swarm as a chain of records, and reports violations
to an Ethereum contract that decides the shipment's fate.

| component | state | operations | talks to |
|---|---|---|---|
| **ColdChainShipment contract** `smart-contract/contracts/orderContract.sol` | `nextShipmentId`, `shipments` | `createShipment`, `startShipment`, `submitTrackerState`, `confirmReceived`, `cancelShipment` | called by wallets |
| **telemetry ingest** `gigaservice/api/sensors.py` | `CONDITIONS_CACHE`, queued background tasks | `POST /sensors/data`, `POST /sensors/encrypted-data`, the rules engine, `_handle_violation` | index file, Swarm, oracle |
| **Swarm client and index file** `gigaservice/storage/swarm.py` | a JSON file `device -> {conditions_hash, latest_telemetry_hash, last_reading}` under an `asyncio.Lock`; Bee's content store | upload, download, get, set (merge), delete | Bee over HTTP |
| **packages** `gigaservice/api/packages.py` | the index | create, initialize on chain, history | Swarm, oracle |
| **violation oracle** `gigaservice/services/blockchain.py` + `_handle_violation` | the server wallet's nonce, the node's transaction pool | `submit_tracker_state`, `trigger_contract_refund`, `create_shipment_on_chain` | Ethereum node, contract |
| **sign-in and keys** `gigaservice/api/auth.py`, `services/auth.py`, `api/deps.py` | SIWE nonce store, RSA and Kyber key pairs | nonce, verify, JWT, decrypt | web client, trackers |
| **attestation gate** `gigaservice/services/attestations.py` | cache of positive EAS results with a TTL | verify | Ethereum node |
| **tracker registry** `gigaservice/api/trackers.py` | `__tracker__` entries of the index | create, list, get, update, delete | Swarm |
| **dashboard, statistics** `gigaservice/api/dashboard.py`, `api/stats.py` | none | read the index and the chains | Swarm |
| **notifications** `gigaservice/services/notifications.py` | none | send an e-mail | SMTP |
| **tracker firmware** `firmware/main/*.c` | peak reading, token, KMS key id in NVS | sensor task, report task | KMS, beacon, backend |
| **post-quantum tracker** `pqc-module/` | keys in NVS, session context in RAM | init, generate, load, establish session, encrypt, sign, wipe | power, NVS |
| **trusted OS applet bridge** `sdk-qpc-fix/gotee_starter-pedro-qemu/docker/` | three Go channels of depth 1, the running applet | call, upload and hot-swap, Recv/Send, panic | TCP clients |
| **web clients** `front/`, `wallet-connect/` | presentation | - | wallets |

### What is hard

* **Interleaving at awaits.** The backend is one asyncio process: between two
  awaits of a request, other requests of the same device run. The index lock
  protects one read or one merge, never a read and the write that depends on it.
* **One wallet, many jobs.** Every blockchain job reads the wallet's transaction
  count, then awaits three more calls before the node sees its transaction.
* **Depth-1 channels.** Any number of TCP connections, the supervisor and the
  applet block on three channels; replies carry no name.
* **Crash points.** The index file is truncated before it is written; a request may
  have written and not answered; background tasks live in memory; a tracker may
  lose power between two NVS writes.
* **Partial failure.** Bee, the Ethereum node, the disk and NVS may fail at any call,
  also after having done what was asked; most failures are swallowed, and the code
  goes on without what it wanted to read or write.
* **Order.** A delivery needs two approvals in either order, possibly from one
  wallet holding several roles, against cancellations and bad reports.

### What makes each component correct

* contract: delivered exactly on both approvals; verdict, proof and date belong
  together; closed means closed.
* ingest: the history of a device is what it linked, nothing lost, nothing foreign; a
  reported violation has a stored record behind it.
* oracle: the wallet never blocks itself; a report that was sent takes effect; a
  violation is not dropped; no evidence of one shipment is used against another.
* bridge: calls are answered, by their own reply; an `__exit` stops the applet it
  was meant for.
* post-quantum tracker: one identity per device; every packet can be verified and
  opened; no session key outlives its upload.
* sign-in: a nonce buys one session, in time, and nobody else's request spoils it;
  a role is at most one token's life old.
* attestation gate: a live attestation opens it with the next request, and a dead one
  does not.
* registry: a tracker nobody wrote concurrently is what its answered requests amount
  to; a list holds what was there while it was made.
* keys and firmware: a key pair once kept is the server's as long as it can be read,
  packets sealed under it are accepted, and a stored shock is on its way to the
  server.
* readers: dashboard and statistics, each with a loop of its own, show the part of
  the history they should, and an outage of Bee only hides.

## 2. Modules

| module | role |
|---|---|
| `ShipmentLifecycle` | abstract: what the parties agree on, a phase and a set of approvals per shipment |
| `ColdChainShipment` | the contract; implements `ShipmentLifecycle` |
| `ViolationOracle` | the backend's transactions over a node, composed with (EXTENDS) `ColdChainShipment` |
| `TelemetryIngest` | the ingest endpoints, the index file, Swarm, package registration, restarts |
| `HistoryReaders` | the history, dashboard and statistics endpoints, over (EXTENDS) `TelemetryIngest` |
| `AttestationCache` | the gate of the history endpoint: its cache, the node, the EAS contract |
| `AuthSession` | nonces, SIWE verification, roles, tokens, route guards |
| `TrackerRegistry` | the tracker endpoints over the index file |
| `ServerKeys` | the server's RSA and Kyber pairs and the files they survive in |
| `TrackerFirmware` | the ESP32 tracker, composed with (EXTENDS) `ServerKeys` |
| `PqcDevice` | the post-quantum tracker's keys and sessions |
| `AppletBridge` | the trusted OS's bridge, channels, supervisor and applet loop |
| `ShipmentProofs` | TLAPS proofs about `ColdChainShipment`, and about `ViolationOracle` over it |
| `TelemetryIngestProofs` | TLAPS proofs about `TelemetryIngest`, and about `HistoryReaders` over it |
| `AttestationCacheProofs`, `AuthSessionProofs`, `TrackerRegistryProofs`, `TrackerFirmwareProofs`, `PqcDeviceProofs`, `AppletBridgeProofs` | TLAPS proofs about the module they are named after; the firmware's cover `ServerKeys` too |
| `MC*` | instances for TLC |

### How the models correspond to the code

* **`ColdChainShipment`**: a transaction is atomic, so an external function is one
  action; its guard is the conjunction of modifiers and `require`s, and a
  reverting call is a disabled action. `now` is `block.timestamp`; strings are
  members of small sets, with `Empty` for the empty one.
* **`TelemetryIngest`**: `req[p]` holds the locals of the handler of packet `p`,
  with `entry` the snapshot that `get_device_entry` returned. A step is the code
  between two awaits that touch shared state: `Lookup`, `Judge`, `Note`
  (`last_reading`), `Upload`, `Link`, `Finish`; the encrypted endpoint enters
  through `CheckRegistered` and `Adopt`. `set_device_entry` merges under the lock
  and is one step. Signature checking and decryption are a choice between
  accepted and rejected in `Arrive`. `Upload` may store the record and still
  fail. A write of the index may raise while the process goes on (`WriteFails`),
  leaving the file as it was or, since `open("w")` comes first, torn (`fileOK`); `Note`
  and `Link` swallow that and go on, `Adopt` and `CreatePackage` answer an error.
  `Restart` loses handlers, tasks and the cache, and may tear the file too. `linked`,
  `raced` and `missed` (whose `last_reading` write failed) are history.
* **`ViolationOracle`**: `job[j]` holds the locals of one coroutine. Its awaits on
  the node are `ReadNonce`, `ReadGasPrice`, `Build` (which estimates gas and
  raises when the call would revert) and `Send`. `GiveUp` is the exception path,
  with the `cancelShipment` fallback of `_handle_violation`. The node admits a
  transaction whose nonce is not used up, and replaces a pending one only by a
  dearer one; `Mine` executes the contract's own action, or reverts. The
  credentials are taken to be configured; the e-mail is left out.
* **`AppletBridge`**: a channel of depth 1 is a sequence whose first element is
  buffered and whose others belong to blocked senders, in Go's order. `SendCall`
  and `AwaitReply` are the two halves of `CallApplet`. `TakeSwap`, `LoadApplet`
  and `LoadFails` are `superviseApplet`; `Recv`, `Reply`, `NextIteration` the
  applet's `serve`; `Panic` its panic handler, after which nobody restarts it. The
  bridge forwards every method but `__upload`: the callers of `Exiters` send
  `__exit` themselves, and the applet stops without a reply (`IsExit`).
* **`PqcDevice`**: a key pair, a session and a ciphertext are numbers, 0 being a
  zeroed buffer or an absent blob. `nvs` is what reads see, `flash` what was
  committed; a power loss keeps a prefix of the uncommitted writes. Whether the
  backend's KEM key is in NVS is a choice of `Init`, because no code writes it.
* **`HistoryReaders`**: every reader reads the index once, under the lock, and then
  follows references, which never change what they refer to. So an answer is a
  function of the state at that reading and of the set of references Bee does not
  answer, and the properties range over every such set in every state. The three
  loops are three definitions: `PackageHistory` follows the chain to its end and fails
  as a whole; `DetailRows` counts its rows and ends at a record it cannot fetch;
  `HotspotsFrom` tests a record, keeps some, counts, and breaks out of one device.
  Places lie on one meridian.
* **`AttestationCache`**: `check[q]` holds the locals of `verify_attestation`. A step
  is the code between two awaits or the node's own moment (`NodeFilters`,
  `NodeReads`), at which it reads a contract that others write. `get_logs` is called
  with `fromBlock`; the constant `GetLogsParameters` says which parameters web3 has,
  and `CallIsWellFormed` whether the call gets as far as the node at all: if not,
  `Ask` ends in the `except` that denies. `known` and `failed` are history.
* **`AuthSession`**: `verify` has no await before the reverse ENS lookup, so
  checking, consuming the nonce and making the token are one step, and `Answer`
  is the other. `drawn`, `booted`, `held` and `served` are history.
* **`TrackerRegistry`**: an index access holds the lock from read to write and is one
  step; the answer (`Answer`) is another, and the process may stop before it. A write
  may fail and tear the file. The metadata stands for its own Swarm hash. `told`
  (what a tracker may be, going by the answers), `busy` and `seen` are history;
  `Outcomes` adds the writes whose answers are still to come.
* **`ServerKeys`**: at import each pair is taken from the environment, else from
  `/data`, else from `/tmp`, else made and saved. A read may fail and is passed over
  (`ReadFiles`), so a new pair may be made and written over a whole one. A write may
  fail or be torn: a torn PEM raises and is passed over, a torn Kyber file is taken,
  at whatever length. A recreated container has an empty `/tmp`. `saved` (what was
  ever whole on the volume) and `unread` (what the last try could not read) are
  history.
* **`TrackerFirmware`**: the sampling task compares (`Measure`) and stores
  (`StorePeak`); the report task reads the peak (`TakePeak`), resets it
  (`ResetPeak`), seals and posts. The public key is asked for once, at boot. `owed`
  and `refused` are history: the highest level stored whose report is still to end,
  less what a reset overwrote, and the pairs whose packets got a 422.

## 3. Runs

| run | states | what it shows |
|---|---|---|
| `contract` | 52,739 | `DeliveredExactlyWhenBoth`; `VerdictHasEvidence`; `ClosedForGood`; `RecordsAreKept`; refinement of `ShipmentLifecycle` |
| `ingest` | 554,943 | type; `SerialChainExact`; `AlarmsAreBacked`; `DashboardTracksChain`; `PackageConditionsStick`; `StoredViolationIsHandled`; of the readers `DashboardShowsHistory`, `HotspotsAreHistory` |
| `oracle` | 922,474 | `NoNonceGap`; `BreachHasItsEvidence`; `ReportsGoThrough` for jobs that do not overlap; `SentReportsCloseTheShipment` |
| `applet_bridge` | 709,084 | type; `RepliesAreConserved`; `SerialCallsMatch`; `NoReplyIsStranded`; `ExitHitsItsTarget`; `CallsAreAnswered` |
| `pqc_device` | 121,139 | `StoredPairMatches`; `PacketsVerify`; `PacketsAreReadable`; `IdentityIsStable` |
| `sign_in` | 2.6 million | `NonceBuysOneSession`; `GoodNonceIsHonoured`; `RoleIsRecent` |
| `tracker_registry` | 1.7 million | type; `SerialRegistryExact`; `ListIsCurrent` |
| `sealed_reports` | 13.9 million | `KeptKeyIsForGood`; `RefusedOnlyAfterKeyLoss`; `ShockIsAccountedFor` |
| `history_append_only` | violation | overlapping requests fork the history, and one branch is lost (ARCHITECTURE.md:47 calls it append-only) |
| `violation_submitted` | violation | two jobs read one nonce; the second report and its fallback are refused by a healthy node (README.md:193) |
| `attestation_opens_gate` | violation | `get_logs(fromBlock=0)` raises under the pinned `web3==7.9.0`, and the gate denies the holder of a live attestation (ARCHITECTURE.md:173) |
| `provisioned_once` | violation | a device without `kem_pk_be` in NVS makes a new identity at every boot (`pqc.h:52`) |

What the properties leave out, because the code does not promise it, is part of
the models all the same:

* `SerialChainExact`, `DashboardTracksChain`, `PackageConditionsStick`: devices whose
  requests overlap; the first is exactly what `history_append_only` refutes for them.
  `DashboardTracksChain` excuses a head whose own `last_reading` write failed.
* `HotspotsAreHistory` and `DashboardShowsHistory` are about the device's history,
  which a new registration starts afresh; see the end of section 5.
* `ReportsGoThrough`: jobs that overlap, which `violation_submitted` is about.
* `SerialCallsMatch`: overlapping calls. `ExitHitsItsTarget` and `CallsAreAnswered`:
  behaviours in which a handler panicked or a client sent `__exit`.
* `PacketsVerify`: failing NVS calls and an interrupted provisioning.
* `SerialRegistryExact`: trackers whose writers overlap, and a torn index file.
* `KeptKeyIsForGood`, `RefusedOnlyAfterKeyLoss`: a pair that could not be read when the
  server last tried, and so may have been written over.
* `ShockIsAccountedFor`: a peak stored between the reading and the reset.

Every property of a passing run is shown to be breakable by a small, plausible
fault in the code it is about; the faulty forms stand beside the definitions
they would replace, marked `Fault:`.

### Bounds

* `contract`: three wallets let three different parties, or one in several roles,
  act on two shipments, enough for one call to touch the wrong one. Two timestamps
  tell creation from delivery. Wallets are symmetric.
* `ingest`: two packets are two requests in flight; the races need no third, and
  chains of length two exercise prev and head. The device is one, since the index
  keeps devices apart by key. Readings lie within the package limits, over them
  (by a negative overload), and over the defaults. One registration by the provider,
  beside the automatic one, gives an old and a new package (`history_append_only`
  allows two); one restart. Index writes may fail at any time, without a bound.
* `oracle`: two jobs race for a nonce; two shipments let the race be about
  different ones, so that the second report is not superfluous. One failing call,
  one rise of the gas price, and two calls by a customer, who may be sender,
  receiver or tracker of a shipment. One timestamp: no property of the oracle
  reads it.
* `applet_bridge`: three callers fill the buffer, block a sender and still leave
  one to the reply side; a fourth sends `__exit`; three uploads do the same to the
  swap channel, one of which does not load.
* `pqc_device`: three key pairs, sessions and power losses, two failing NVS calls
  and one erasure: provisioning can be interrupted twice and completed.
* `attestation_opens_gate`: one user, two attestations, two requests; the parameters
  of `get_logs` are those of web3 7.9.0 (`argument_filters`, `from_block`, `to_block`,
  `block_hash`).
* `sign_in`: one user with two nonces and two sign-ins, which may share a nonce; two
  roles and a guard for each; two values of the secret; lifetimes of two seconds
  in five. One restart. (That tokens do not mix users is proved, not only run.)
* `tracker_registry`: two trackers, two fields of two values, and three requests: a
  writer, another writer and a listing between them. One failing call or write, one
  restart.
* `sealed_reports`: two restarts of the server lose a pair and find it again, and any
  read may fail; one level of acceleration above rest and one power cycle of the
  tracker. The shock theorem is for every number of levels.
* readers (in `ingest`): a depth of one is exceeded by a chain of two; dashboard
  limits below and at the length of the chain; one reading knows its place and the
  other does not; routes that pass the place never, twice and three times.

Deadlock is not checked: every model may rightly stop, when the bounded inputs are
used up, the shipments are closed or the device is halted. That nobody is stuck
who should not be is stated by the liveness properties.

### Fairness

* `TelemetryIngest`: weak fairness of each handler's steps and of each queued
  task, because the event loop runs what is ready and every await has an
  outcome, success or exception. None on arrivals, registrations and restarts.
* `ViolationOracle`: weak fairness of each job's steps and of `Mine`: the chain
  goes on producing blocks and the backend's is the only pending transaction of
  its wallet. None on failures, price rises or other wallets.
* `AppletBridge`: weak fairness per goroutine and of the applet's loop: Go's
  scheduler runs what can run, and handlers that do not panic return. None on
  new connections or panics.
* The other modules have safety properties only.

## 4. Proofs

The first part of `ShipmentProofs` proves, for any finite or infinite set of
wallets and any bounds, every property of the `contract` run: `ContractTyped`,
`DeliveryTheorem`, `EvidenceTheorem`, `DatingTheorem`, `ClosureTheorem`,
`RecordsTheorem` and `RefinementTheorem`. The only assumption is
`ContractAssumption`: the zero address is no wallet, the empty string is no
reference and no proof, the bounds are natural numbers.

The inductive invariant is `ContractInv`: the type and, for every issued
shipment, `SoundRecord`. None of the state properties is inductive alone:
`DeliveredExactlyWhenBoth` needs that a breached shipment's last report is bad
and that an unstarted one has neither report nor confirmation; `DeliveryIsDated`
needs that creation does not lie in the future. The argument goes record by
record: each operator that writes a record (`GoodReport`, `BadReport`,
`Confirmation`, a change of status) turns a sound open record into a sound one
(`GoodReportSound` and its siblings); `StepShape` shows that a step adds a fresh
record, writes one open record, or only lets time pass; `InvStep` and the action
properties follow from these shapes. For the refinement, `WriteMaps` says what a
write does to the two maps of the refinement mapping, and `LifecycleStep` matches
every step with a lifecycle step or a stutter.

Its second part proves, for any number of jobs, failures, price rises and calls by
others, `OracleTyped`, `NonceTheorem`, `BreachTheorem` and `ReportsTheorem`, and that the
whole composition implements the contract's specification (`OracleUsesContract`),
so that the contract's own theorems carry over; `OracleRespectsClosure` is the one
that matters most here: no late report or fallback touches a closed shipment.
Beside the contract's, the assumptions (`OracleAssumption`) are that the server's
key is a wallet, a record's reference is no empty string, and ids exist at all.
The invariant `OracleInv` adds to the contract's invariant:

* `Nonces`: pending transactions have the mined count as their nonce, there is one
  at most, and no job holds a later nonce. A job that counted the transactions
  long ago holds an old nonce, so what it sends is refused or replaces the one
  pending (`AdmitsOne`).
* `Provenance`: a pending transaction names the shipment of its job. Without it
  `BreachHasItsEvidence` is not inductive, because the report is executed long
  after the job gave the transaction away. `BreachesComeFromReports` is the
  contract's side: only the shipment's own tracker service can breach it.

`ReportsTheorem` (`ReportsGoThrough`) speaks of the step that gives a report up, and
the reason lies several awaits before it, so it needs a second invariant,
`ReportInv`: a shipment known when its job started still exists, and as long as no
jobs have overlapped and no call has failed,

* `OneAtATime`: the job that runs is the only one, nothing is pending, and from its
  nonce on no block moves the count under it, so what it sends is accepted
  (`CalmIsAccepted`);
* `FallbackIsLate`: a job that fell back to cancelling had found its shipment closed
  to the server's reports (`RevertsWhenLate`), and by the contract's own theorems a
  closed shipment stays closed whatever other wallets do (`LateStaysLate`).

`PqcDeviceProofs` proves every property of the `pqc_device` run, for any number of
keys, sessions, failing calls and power losses. Its invariant `PqcInv` has three
parts beside the types, one per question: `Storage` (with the backend's key in
place, the public key reaches the flash only where there was none and after its
private half, so a flash that holds one is what the handle reads), `Sessions` (the
context's session is newer than every packet's while a batch is sent, and zero
otherwise) and `Identity` (without faults, what is stored between provisionings
was announced, and the context holds it whenever a batch is signed). `Identity`
needs `Storage` (what is announced is a whole pair), and so do the types.

`TelemetryIngestProofs` proves `IngestTyped`, `AlarmsTheorem`, `DashboardTheorem` and
`ConditionsTheorem`, for any number of devices, packets, registrations and failing
writes. The assumption is `IngestAssumption`: among the rest, that Python's
None is no packet. The invariant is `IngestInv`, whose parts are

* `Typed` and `Registered`: a reference in the index or in a handler names a stored
  record, and a handler past its lookup is about a device that has an entry;
* `HashesMatch` and `SnapshotsMatch`: a handler has a reference from its upload on,
  of its own packet's record, and the head it read is a record of its device;
* `ChainsEnd`: `prev` leads to an older record of the same device. Nothing in a
  content-addressed store could be otherwise, so this is a lemma and no run's
  property, but the recursions over the chain rest on it;
* `OneAtATime` and `AdoptsNewDevices` make `raced` mean what it says: a device outside
  it has one request in flight, and its automatic registration is still the first.
  Without them `DashboardTracksChain` and `PackageConditionsStick` are not
  inductive, because a handler acts on what it read some awaits ago;
* `LastIsNoted` and `AllShown`: between its two writes a request has its reading on
  the dashboard already, or that write failed, and otherwise the dashboard's last
  reading is the head of the chain, or was never linked, or the head's was missed;
* `TasksAreDone`: a queued alarm is about a finished request with a stored violation.

The same module proves what the readers collect: `SerialChainTheorem`,
`DashboardHistoryTheorem` and `MapTheorem`. The installed provers cannot instantiate an
induction theorem, so every induction is over a set of numbers: the set of
counterexamples has a least element (`Least`, from the well-foundedness of `<`), and
that element is refuted. A loop is first said without the loop. `Chained` describes a
set of records each of which points to the next older one of the set, and
`ChainedIsChain` that such a set is what `ChainFrom` collects. With this,
`SerialChainExact` follows from `ChainInv`, an invariant over `IngestInv`: for a device
whose requests never overlapped, the linked records are `Chained` from the index
(`ChainedUp`), the head a handler read is still the head when it writes its link
(`ReadsAreCurrent`), and the record about to be linked follows it and is newer than all
(`LinksAreNext`). The last two are what a second request in flight breaks. A link that
fails leaves all of this alone.

The readers' three loops are related through one description. `IsWalk` describes the
list a loop ends with (each row is what the row before points to, and it stops at the
limit, at the end or at a record Bee keeps back). The dashboard's `DetailRows` is such a
list (`WalkIsWalk`), and two from one head agree as far as both go (`WalksAgree`). The
history's recursion, which has no limit, is the unbounded walk reversed (`OldestFirst`,
`HistoryIsLineage`), and so `DetailIsHistory`. The statistics' loop keeps a set and a
position instead of rows; `TurnsAgree` shows it step by step to have the same records
behind it as the walk of the same depth, whose placed violations are then its set
(`HotspotsAreListed`, `MapIsHistory`). That an outage never raises a risk follows from
the sets' inclusion (`OutagesOnlyHide`, `RouteRisk`).

`TrackerRegistryProofs` proves `RegistryTyped`, `SerialRegistryTheorem` and
`ListTheorem`, for any number of trackers, requests, failures and restarts. The
invariant `RegistryInv` adds to the types: `Alone` (two requests that write one tracker
at one time have put it in `busy`) and `Snapshots` (an update that is alone with its
tracker and has not written holds the entry that it will replace, with its change
applied), without which the last write of an update could bring back what was deleted.
A request is at work on its tracker until it has answered, so beside one that is alone
no other write waits for its answer (`AlonePending`), and `Outcomes` is what that one
write makes of the last answer (`OneOutcome`); a stop moves it into `told` as one of two
possibilities. The third part is `Listing`, for every listing under way: a tracker has a row, with metadata met during the listing, or is
still to be looked at, or was absent at some moment (`Accounted`), the trackers still
to be looked at have no row yet, and what is in the index now has been met.

`AppletBridgeProofs` proves `BridgeTyped`, `ConservationTheorem`, `SerialTheorem`,
`StrandedTheorem` and `ExitTheorem`, for any number of callers, of clients that send
`__exit`, and of uploads. The
invariant `BridgeInv` counts: `Flow` says that the calls without an answer are as
many as those in the request channel, with the applet and in the reply channel;
`OneExit` that there is one `__exit` per swap under way, until a handler panics or a
client sends its own; `NoExitReply` that a client's never gets beyond the request
channel. `Conserved` and `Serial`
follow step by step, on two lemmas about counting in sequences (`CountAppend`,
`CountTail`). That the counts agree is why no reply is left over when nobody waits.

`AttestationCacheProofs` proves `CacheTyped`, and the general form of what
`attestation_opens_gate` finds: `NeverGrantedTheorem`, that with a `get_logs` that takes
no `fromBlock` no request of a configured deployment is ever granted, whatever the EAS
contract holds. Its invariant is that nothing is cached and every request is idle,
open or denied. What holds of cache and revocations under another web3 is not claimed.

`AuthSessionProofs` proves `AuthTyped`, `OneSessionTheorem`, `HonouredTheorem` and
`RecentRoleTheorem`. `StoreIsUnspent` (what is in the store has bought nothing and
runs out one TTL after its draw) carries the first; `GoneForAReason` (what left it
ran out or bought a session) the second; `HeldIsCurrent` and `TokensAreBacked` (a
token's role was given by the file when the token was made, or later) the third.

`TrackerFirmwareProofs` proves `KeysTyped`, `KeptKeyTheorem`, `RefusalTheorem` and
`ShockTheorem`. `KeysInv` says that only a new pair of a kind without a kept one that
could be read is being written (`SavingIsFresh`), that a kept pair which the last try
read is on the volume (`KeptIsOnFile`) and that a finished import has taken it
(`PassedIsLoaded`). A tracker's key is one the server had (`KeyIsTheServers`), and a pair
that is still being written has sealed nothing (`SavedIsUnused`), so a refused pair was
not kept later either. For the shock, the sampling task only raises the peak
(`PeakOnlyRises`), so that the level owed is bounded by the report's peak or by the
sensor's until a reset overwrites a higher one.

The type invariants of contract, oracle, gate, sign-in, keys and post-quantum
tracker, that deliveries are dated (`DatingTheorem`) and that session keys are wiped
(`WipeTheorem`) are proved and therefore not repeated as runs.

Only model-checked: the three liveness properties `StoredViolationIsHandled`,
`CallsAreAnswered` and `SentReportsCloseTheShipment`, because TLAPS does not prove liveness under fairness, nor `ENABLED`. Every other property of a
passing run is proved. The violation runs are counterexamples and need no proof.

## 5. Not modelled

* Signature formats, encodings and ciphers: a packet, a message or a token is
  accepted or not. The ECDSA check of a device is called by no route.
* A backend without blockchain credentials, whose jobs return at once; the ENS
  names; the e-mail of `notifications.py`, on which no state depends.
* The ESP32's beacon nonce, token and KMS signature: the route it reports to does
  not look at them.
* The web clients, the server's start-up wiring, middleware and scripts.
* The LED, Echo and network services, JSON scanning and memory set-up of the
  trusted OS.

Beside the four violation runs, these things were seen while modelling. The
properties of the passing runs are stated so as to leave them out, and the models
contain them:

* auto-registration overwrites a package registered since it looked
  (`api/sensors.py:442`, `:446`);
* overlapping callers of the bridge take each other's replies
  (`trusted_os/rpc.go:58`), and an `__exit` that outlives its applet stops the
  next one (`trusted_os/main.go:136`); a client's own `__exit` (`bridge.go:104-105`) stops
  the applet, which nothing but the next upload replaces;
* concurrent updates of a tracker lose a field, and an update that overlaps a
  deletion brings the tracker back (`api/trackers.py:132`);
* a Kyber key file torn in `/data` shadows a whole one in `/tmp`, and is taken
  (`services/auth.py:251`);
* one failing read of a key file makes the server generate a new pair and write it
  over the one it had kept (`services/auth.py:147`, `:258`), although the file is said to
  be one that "survives container recreations" (`services/auth.py:123`);
* a peak stored between reading and resetting it, or whose report fails, is lost
  (`firmware/main/main.c:50`, `:68`);
* a revocation takes effect one TTL after the last check ended, and so later than
  one TTL after the revocation by the length of a check, if it falls into one
  (`services/attestations.py:118`); with the pinned web3 no check ever succeeds.

In some places the documentation says something else than the code does, beside
what the four runs show; the models follow the code:

* ARCHITECTURE.md:136-138 orders sign-in as "2. Verify nonce (consume)  3.
  eth_account.recover_message()  4. Compare recovered address". The code consumes the
  nonce last (`api/auth.py:132-144`), and `GoodNonceIsHonoured` needs that: in the
  documented order anybody who knows a nonce could use it up with an unsigned message.
  The documented order is the fault (`VerifyNonceFirst`) the property is tested against.
* ARCHITECTURE.md:140 has tokens live "24h"; the code has one hour. `TokenLife` is a
  parameter.
* `trusted_os/main.go:62-64` says of the swap channel that "the older pending swap is
  discarded — last-write-wins is fine for this use case". A Go channel discards nothing:
  uploads that pile up are all loaded, in order. No property depends on it.
* ARCHITECTURE.md:173 says "revocations take effect within one TTL window"; see above.
* ARCHITECTURE.md:195 speaks of "historical violation data", ARCHITECTURE.md:235 of "All
  geo-tagged violation hotspots", README.md:37 of "every geo-tagged violation record",
  and `api/stats.py:4`, `:94` and `:113` likewise. A new registration of a device starts
  its chain afresh (`api/packages.py:69`), `_collect_hotspots` starts from the newest
  chain only and looks 200 records back, and so the violations of earlier
  registrations are not on the map. `HotspotsAreHistory` says what the map does show.
* ARCHITECTURE.md:105 has the oracle "Called on every violation"; one whose record Bee
  refused is not reported (`api/sensors.py:351`).

## 6. Plan

Done: every component of the table that keeps state, but for what section 5 names,
and proofs of every safety property the runs check. To come:

1. Proofs: the handler as what it should promise, a register per device that is
   written once per request, and the serial ingest shown to implement it, step by
   step, as the contract implements `ShipmentLifecycle`.
2. `Delivery`: ingest and oracle composed, from a reading to the closed shipment,
   with the alarm queue of the one feeding the jobs of the other.
3. The gate, once `get_logs` is called with `from_block`: how long a revoked or expired
   attestation still opens it. The model has the cache, the clock and the node's
   moments for it.
4. Sign-in and firmware under fairness: a pending request is answered, a tracker of
   a server that stays up reports its shock in the end.
