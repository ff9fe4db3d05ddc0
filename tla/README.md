# A verification project for QtDataSync

QtDataSync synchronizes datasets between the devices of one user. Every device
has a local store that works offline; an engine on a thread of its own uploads
local changes, encrypted, to a server and merges what other devices have
changed. The server (`tools/appserver`) keeps a change only until every other
device of the account has acknowledged it. No one but the devices can read the
data, so there is no central authority that could order or merge changes: what
makes the system correct is that devices that merge independently, at different
times and in different orders, end up with the same data, and that no change
falls between an acknowledgement and a delivery.

Paths below are relative to the root of the repository: `src/datasync/` is the
library, `tools/appserver/` the server.

## 1. Inventory

### The parts

| Component | State | Operations | Talks to |
|---|---|---|---|
| **LocalStore** (`src/datasync/localstore.cpp`) | the table `DataIndex` (version, file, checksum, changed flag for each key), `DeviceUploads`, one JSON file per dataset, a cache | `save`, `remove`, `clear`, `reset`; the sync scope (`startSync`, `loadChangeInfo`, `storeChanged`, `storeDeleted`, `updateVersion`, `markUnchanged`, `commitSync`); `loadChanges`, `changeCount`, `prepareAccountAdded`, `removeDeviceChange` | the emitter (signals, cache); used by any thread through `DataStore`, by the engine's thread through the controllers |
| **SyncController** (`synccontroller.cpp`) | enabled or not | `syncChange`: merge one downloaded change in one transaction | LocalStore, ConflictResolver |
| **ChangeController** (`changecontroller.cpp`) | uploading enabled, uploads in flight, limit, estimate, operation timer | `setUploadingEnabled`, `clearUploads`, `uploadDone`, `deviceUploadDone`, `changeTriggered`, `uploadNext` | LocalStore; RemoteConnector and engine through signals |
| **ExchangeEngine** (`exchangeengine.cpp`) | public state, progress, last error | `remoteEvent`, `uploadingChanged`, `controllerError`, `controllerTimeout`, `initialize`, `finalize`, `resetAccount` | all controllers |
| **RemoteConnector** (`remoteconnector.cpp`, `connectorstatemachine.scxml`) | SCXML state, socket, message buffer, retry index and timers, operation and ping timers, device id and key material | one handler per message, per state and per socket signal; `reconnect`, `disconnectRemote`, `resync`, uploads, downloads, device list, key exchange | engine, CryptoController, the server |
| **CryptoController, key stores** (`cryptocontroller.cpp`, `src/plugins/keystores/`) | own keys in a key store, exchange keys by index in files, current and prepared key in the settings | encrypt and decrypt, `createPrivateKeys`, `storePrivateKeys`, `loadKeyMaterial`, `deleteKeyMaterial`, `generateNextKey`, `activateNextKey`, `decryptSecretKey` | settings; key stores of the platform |
| **Emitter and cache** (`changeemitter.cpp`, `emitteradapter.cpp`) | the shared cache of datasets | change signals, cache invalidation | stores in every thread and process |
| **Stores of applications** (`datatypestore.h`, `datastoremodel.cpp`, `eventcursor.cpp`) | the data a caching store shows, the keys and fetched rows of an item model, the position in the event log | loads, edits, what follows an announcement, `fetchMore`, `autoScanLog` | LocalStore, emitter |
| **SyncManager, AccountManager, UserExchangeManager** | replicas of the engine's objects with callbacks; the peers of the network with their age | `reconnect`, `runOnState`, import, export, grants, device lists, exchange by datagrams | engine, via remote objects |
| **Threaded remote objects** (`rothreadedbackend/`) | buffers in pairs, the server of every url, connections that wait for one | connect, write, close, each a call posted to another thread | the host node of an engine, client nodes |
| **Setup, defaults, migration** (`setup.cpp`, `defaults.cpp`, `migrationhelper.cpp`) | running engines and defaults by name, the lock file | `create`, `createPassive`, `removeSetup`, clean-up; `startMigration` | engine threads, other processes |
| **Platform services** (`datasyncandroid`, `datasyncios`) | one setup, the requests to be told of its synchronization | started and stopped by the system | Setup, SyncManager |
| **Client** (`tools/appserver/client.cpp`) | state, active downloads, cached number of changes, uploads and downloads limits | one handler per message, `notifyChanged`, `triggerDownload`, proofs | DatabaseController, the socket |
| **DatabaseController** (`databasecontroller.cpp`) | tables `users`, `devices`, `datachanges`, `devicechanges`, `keychanges` | `addChange`, `addDeviceChange`, `completeChange`, `loadNextChanges`, `changeCount`, key changes, device removal | PostgreSQL; notifications |
| **SingleTaskQueue** (`singletaskqueue.cpp`) | queued tasks of one client | enqueue, clear, hand over | a thread pool |
| **ClientConnector, service** | clients by device | routing of notifications and proofs | clients |

### How they interact

A user's `save` or `remove` commits a transaction that raises the version of
the row and marks it as changed, and queues the signal `uploadNeeded`. On the
engine's thread `ChangeController` takes changed rows, registers them in
`_activeUploads` and has `RemoteConnector` send them. The server stores the
change in `datachanges`, with one row of `devicechanges` per other device,
notifies these and acknowledges. On the acknowledgement the sender marks the
row as unchanged if it still has the uploaded version. A notified `Client`
calls `triggerDownload`, which sends what is not already being downloaded; the
device merges the change, acknowledges, and the server drops its entry and
sends more, and in the end `LastChangedMessage`. A device that downloads does
not upload: the first message of a batch (`ChangedInfoMessage`, or a welcome
that announces changes) disables uploading and the last one enables it again.
A merge may produce a row that has to be uploaded itself.

### What is hard

*Concurrency.* Users change data while its upload, its acknowledgement or a
newer change from elsewhere is on its way. Many steps on the engine's thread
are queued calls that run later than the state they were queued for; server
tasks run on a thread pool while notifications arrive. *Failure.* A connection
may be lost at any time; nothing that was on its way is repeated by a
transport, everything relies on the database of either side. *Ordering.* A
change replaced on the server takes a new id and moves behind the others; the
offset into the list of changes is the number of active downloads. *Timeouts.*
Operation timers, retry timers and special timers call the same `reconnect`.
*Crashes.* Files, settings and key stores are not part of the database's
transactions: a process that is killed leaves some of them behind the others.
*Looking up by name or key.* Setups, defaults, clients and servers of buffers
are found again by a name that may have a new owner by then.

### What makes each part correct

- Merge rules: independent merges agree; the result never has a lower version.
- Store: an acknowledgement only marks what it acknowledges; index, files and
  cache agree after any failure.
- Uploads: no wakeup is lost; what is in flight is answered or cleared; the
  public state and progress mean what the documentation says.
- Server: a change stays until every device has it; downloads neither stall
  nor repeat for ever, not even when a counter has wrapped.
- Connector: messages are only handled in the state they were meant for; after
  every failure it either retries or waits for the user.
- Views: what applications see gets to what is stored, whatever the order of
  commits and announcements.
- Keys: devices of an account keep a common key, and only those join it that a
  member has agreed to; a stored device can be loaded again.
- Queue, setups and services: no task or request is lost, every call that
  blocks or waits for an answer ends, nothing is leaked.

`PROJECT.json` lists the components with their status and the hazards at the
lines where they bite.

## 2. Modules

| Module | Models | Composed with |
|---|---|---|
| `SyncRules` | one row of `DataIndex`, the LocalStore operations on it, every branch of `SyncController::syncChange`; only operators | |
| `Exchange` | one dataset, any number of devices, connections, the server's database and clients | extends `SyncRules` |
| `UploadController` | ChangeController, ExchangeEngine's state and progress, the connector as far as uploads depend on it, on one device with several datasets | extends `SyncRules` |
| `Store` | the index, event log, files, caches, announcements, caching stores and cursors of several threads and processes | extends `SyncRules` |
| `ItemModel`, `Migration` | the item model, and the jobs that copy an old store below it | `SyncRules` ← `ItemModel` ← `Migration` |
| `Mailbox` | what the server promises; abstract | |
| `ChangeTables`, `Server` | the tables of changes with their transactions; connections, task queues, the main thread | `ChangeTables` ← `Server`, which implements `Mailbox` |
| `Connector` | RemoteConnector's state machine, socket, timers, buffer and event loop | |
| `KeyRing`, `AccountTables`, `Account` | a device's exchange keys; the server's tables of devices and keys; both ends of logins, proofs, grants and key changes | `KeyRing` ← `AccountTables` ← `Account` |
| `KeyMaterial` | settings, key files and private keys of one device, step by step | |
| `Setups`, `SyncRequests`, `BackgroundSync` | setups of one name in one process; requests to be told of a synchronization; the services of Android and iOS | `BackgroundSync` extends the two others |
| `Transport`, `AccountCalls`, `UserExchange` | remote objects within a process; calls of AccountManager with an answer; the exchange with devices of the network | `Transport` ← `AccountCalls` ← `UserExchange` |
| `ExchangeProofs`, `UploadControllerProofs`, `StoreProofs`, `ServerProofs`, `ConnectorProofs`, `AccountProofs`, `KeyMaterialProofs`, `MigrationProofs` | the theorems about the module of the same name (`ExchangeProofs`: also about `SyncRules`; `MigrationProofs`: about `ItemModel` and `Migration`) | |
| `MC...` | instances for TLC | |

An arrow points to the module that extends the other. Every state-carrying
module names the code of each action in its comments; `PROJECT.json` ("map")
gives the lines of every definition.

### SyncRules

A dataset's content is a member of `Data`, `Deleted` (the row exists, its file
does not) or `Absent` (no row). Members of `Data` are numbers in the order of
the checksums the merge compares; the model assumes that different data have
different checksums. `PersistDeleted`, `PreferDeleted` and `Resolver` are the
three defaults that decide a merge. `Resolver` is a function on pairs of local
and remote data; a pair outside its domain is one for which the resolver
returns an empty object, so that the default rule decides. `syncChange` splits
on the kind of the local row and of the remote change like the code.

### Exchange

| Variable | Code |
|---|---|
| `row[d]`, `edits` | the row in d's `DataIndex`; a bound |
| `session[d]` | offline; logged in at the server but the welcome not handled yet; idle |
| `uploading`, `active`, `events` | `_uploadingEnabled`, the entry of `_activeUploads`, the queued calls of `uploadNext` and `changeTriggered` |
| `up`, `down` | messages on their way, first in first out, per connection |
| `change[s]`, `pending[d]`, `nextId` | `datachanges` (one row per sender and dataset), `devicechanges`, its sequence |
| `notified[d]` | a PostgreSQL notification, which may arrive at any later time |
| `loading[d]` | the login task has sent the welcome and not yet loaded the changes |
| `inflight`, `cached` | `Client::_activeDownloads`, `_cachedChanges` (modulo `CacheSize`, 2^32 in the code) |
| `late[d]` | messages of lost connections that the server still handles, each with the number of its connection |
| `forgot` | observer: some device has purged the row of a deletion, or was told of one and kept nothing |
| `overtaken` | observer: a late change of a lost connection has replaced a newer one that somebody still has to get |

Actions: `Save`, `Remove` (users), `Login`, `OnWelcome`, `OnChanged`,
`OnLastChanged`, `OnChangeAck`, `RunUploadNext`, `RunChangeTriggered` (device),
`LoadChanges`, `OnChange`, `OnChangedAck`, `NotifyChanged`, `LateStep`
(server), `Disconnect`. A server action is one task of the client's queue with
its whole database transaction and the `triggerDownload` it ends in; a login is
two, and `Server` has the steps in between. `triggerDownload` lists changes and
counts them in two transactions: `LaterCounts` are the numbers the second may
find when other devices and the rest of a lost connection were handled in
between, and `CountDowns` what becomes of `_cachedChanges`, which may wrap.

`Disconnect` ends a connection for the device, which gets nothing more of it. Of
what the device has sent, the server has received a part; `closeClient` drops
what is queued but not the task that runs, and the server may hear of the loss
long after it has handled all of it, so the received part goes to `late` and is
handled at any time, in any order, also after the device has logged in again.
Calls
of the same slot that are queued together are one (`events` is a set): a second
one finds nothing new to do that the first has not done, unless something was
queued in between.

Abstractions. One dataset, since rows are keyed by dataset on both sides; the
limits on parallel transfers, which relate datasets, are those of `Server` and
`UploadController`. The download estimate, payloads and keys are left out. A
message that carries a change and the number of changes is the same record with
`info`. A device that logs in has run the `uploadNext` it had queued: a
connection takes longer than an event loop's turn. `ReuseKeys = FALSE` restricts
users to keys that are never saved again after a removal, as the documentation
of `PersistDeleted` asks.

### UploadController

| Variable | Code |
|---|---|
| `row`, `deviceUploads` | the tables `DataIndex`, `DeviceUploads` (for one device that joins) |
| `uploading`, `active`, `estimate`, `opTimer` | members of `ChangeController` |
| `ignored` | uploads registered as active that `RemoteConnector` refused with a warning, not being idle |
| `engine` | `_state`, `_progressMax`, `_progressCurrent`, `_progressAllowed` |
| `queue` | calls posted to the engine's event loop, in order: queued slots and events submitted to the state machine |
| `link` | `connecting`, `idle`, `dead` (the socket is gone, the event not handled), `failing`, `reconnecting`, `retry`, `off` |
| `acks` | uploads that the server has got on this connection and will acknowledge, in order |
| `owed` | the server has begun downloads on this connection (a welcome with changes, an announcement, an answer to a resync) and not ended them with `LastChangedMessage` |
| `retryIndex`, `retryTimer` | the retry machinery |

`UploadNext` follows `uploadNext` with its window: `loadChanges` returns at most
`UploadLimit` rows, active ones included, changes before device changes, in an
order that is the database's. The estimate is a counter modulo `EstimateSize`
(2^32 in the code). `Merge` is a change received from the server: it only
arrives while uploading is disabled. That guard is a fact about the server: in
`Exchange` a `changed` message without `info` never reaches a device with
`uploading` enabled (checked by hand for two devices completely, for three on
the first six million states). Errors that can be recovered from by reconnecting
take the way of a lost connection.

### Store

| Variable | Code |
|---|---|
| `row`, `log`, `trimmed` | `DataIndex`, `EventLog`, and how many of its entries are gone |
| `file` | the content of the file that a row names |
| `cache` | `CacheInfo` of each process |
| `op` | what a thread is doing in the store: nothing, a write between its first change and its commit, a read between two files, an announcement it still owes |
| `posted`, `queue` | calls to the `ChangeEmitter`; signals in the event loops of threads |
| `view`, `cursor` | `_data` of a caching store, the position of an `EventCursor` |
| `torn`, `overlapped`, `misled` | observers that name the exceptions of the properties |

SQLite's rollback journal is external: one writer, readers excluded while it
commits. The begin of a write and its change of the file are one action, commit
and announcement are others. `Crash` is a power failure that ends all processes;
the restart loads views (which skip what cannot be loaded) and cursors.
`Handle` includes the scan of the log that `autoScanLog` makes. A save that
fails before it touches its file only evicts the dataset from the cache and is
left out, so are `reset(true)`, the cache's limit and orphan files.

### ItemModel and Migration

`model` holds `typeId`, `keyList` (datasets, fetched ones first), `dataHash` and
three observers: `stale` (fetched rows that could not be reloaded or saved),
`blind` (`keys()` failed, the model is empty). `news` are announcements queued
to the model's thread; `posting` what a writer has committed and not announced,
so that announcements and commits may have different orders (`misled`). A batch
of `fetchMore` is one step; one dataset that cannot be loaded blocks its batch.
`Migration` adds the old directory (`old`), its lock file (`lock`), the
`MigrationRunnable`s (`job`), each of which goes through the old entries, gives
up the lock and then removes the directory if it was told to, what the store
has had (`taken`) and whether a job was told to remove a directory without
migrating its data (`discarded`; neither flag implies the other). An entry is
one transaction. Copying settings is a step without effect, paging through the
old table is iteration in its order, progress signals are left out. An exception
ends the process, since the thread pool catches none: that of a failed
transaction is the run's crash, and migrating the deletion of a dataset whose
file is gone throws without any fault (`EntryThrows`).

### ChangeTables, Server and Mailbox

| Variable | Code |
|---|---|
| `db` | `users`, `devices`, `datachanges`, `devicechanges` of one account |
| `notes`, `events` | notifications of PostgreSQL; calls queued to the main thread |
| `clients` | `ClientConnector::clients` |
| `conn[c]` | a `Client`: its state, socket, task queue, the step of the running task, active downloads, cached number |
| `out` | messages on their way to the device |
| `got`, `turns`, `accepting` | history; a bound; whether the server accepts connections |

Every transaction of a task is a step of its own: a login reads the number of
changes, is announced to the main thread, loads changes and sends them in four
steps between which anything may happen. The transactions are those of
PostgreSQL's default, READ COMMITTED. It shows in `completeChange`, which is two
steps: the statement that deletes the change looks for entries of other devices
(`onChangedAck`), waits for transactions that add some, does not look again, and
deletes the change with what they have added (`CommitChangedAck`). Two devices
that confirm the last two entries do not see each other either: the change
stays, for nobody. Every other transaction conflicts with its like on the rows
it writes and is one step. A transaction may also be rolled back (`RollBack`),
with the error the client is sent then. The device confirms every change and
may abandon a connection; the server hears of it later. `Newcomers` have joined
after the changes that are already there, so that a change can be shared with
them alone. `removeDevice`, `cleanupDevices`, quotas and their limits, pausing
and resuming are actions.

`Mailbox` has members, a shelf of changes and a box per member. A change is
posted to all (`Post`) or shared with one member (`Share`), received (`Receive`),
confirmed (`Confirm`), and taken from the shelf by the last one that confirms it,
which takes time (`Close`, `Finish`); members leave with what is theirs
(`Leave`). `closing` names the confirmations that have found nobody else: what is
shared before they finish is lost, and nothing else is. `Server` implements it
with `box[d]` as the entries of `devicechanges` for d.

### Connector

`rc` is the connector: state of the SCXML machine, submitted events, what the
machine is doing (nothing, handling, the posted `machineReady`), the socket, the
message buffer with a mark for messages of the present connection, timers,
`_retryIndex`, closing. `settings` is what is stored, `wire` and `alive` the
connection, `peer` the server as far as it decides which message comes next.
A slot only appends an event; the machine runs it later with all slots it calls.
Assumed: events that are posted are handled before a round trip of the network.

### KeyRing, AccountTables and Account

A key is its index and the device that made it; a cmac stands for the key it was
made with, an encrypted key for itself. A ring has the stored keys, the current
index and the prepared one. `device`, `link` and `tables` are the state of the
devices, of each connection with the server's client (`calls` are invocations
from other clients through the connector, `route` what `proofRequested`
connects) and of the database; `kicked` are queued `forceDisconnect`s. Users
start key updates, exports and removals, answer proofs and reconnect
(`MaxEvents` together with lost connections and restarts). The machine of a
device is that of `Connector` reduced to five states. Not modelled: the
registration of the first device, the reset of a registered one, device lists.

### KeyMaterial

One device: `settings` as the process sees them and `disk` as they were last
written (when a handler has returned to the event loop), `files` (key files by
index, known by their owner, 0 for a cut one), `store` (private keys),
`memory`, `link`, and `running`, the steps the present handler has left. Key
stores are contracts: whether opening may fail, and whether removing a missing
key is an error. A crash may fall between any two steps and a key store may
refuse any of its operations (`MaxMishaps`).

### Setups, SyncRequests and BackgroundSync

Setups have numbers; `engines`, `defaults` and `lock` hold one, since the code
looks all three up by name. `call` is what each application thread is doing in a
blocking call. `create` holds `setupMutex` and is one action; `removeSetup`
looks up and removes in two. `requests` are `syncActions` and `initActions`
of the managers, `public` the engine's state. `role` chooses the process that is
composed with them: threads that set up and remove, an application with
requests, the Android service or the iOS delegate.

### Transport, AccountCalls and UserExchange

`near` and `far` are the two buffers of a client's connection, `toHost` and
`toClient` the calls posted between the threads, `entry` and `cached` the server
registered for the url and the clients waiting for one. `exports` and `importing`
are callbacks; `dropped` names calls made before the replica had its source,
which Qt drops (external). The exchange has the listed devices with their age
and the datagrams in the air, which get lost, repeated and reordered.

## 3. Runs

All bounds are constants of the modules. Deadlock is not checked: a system whose
users are idle, with its bounded events spent, rightly stops; liveness
properties say that it does not stop too early. The type invariants hold in all
instances and are not listed in the runs (the one of `Exchange` is the theorem
`Typing`).

| Run | Instance | States | Shows |
|---|---|---|---|
| `persist` | two devices, three contents of which the resolver leaves two to the default rule, two edits, one lost connection, deletions persist | 3,246,842 | `Agreement`: when everything is synchronized, all devices hold the same data; `SyncedIsCovered`: what a device holds as synchronized has reached or will reach everyone, both unless a late change has replaced a newer one; `VersionsGrow` |
| `purge` | two devices, one content, two edits, one lost connection, deleted rows are purged (the default) | 1,165,077 | `AgreementWhileRemembered`: until a device forgets a version or a late change replaces a newer one, synchronized data is covered and synchronized devices agree; `Converges`: all is delivered in the end |
| `resurrect` | as `purge`, four edits, no lost connection | | `NoResurrection` is violated (finding) |
| `deliver` | two datasets, one unreadable, a device that joins, limit two, two edits, two failures, one batch of downloads or resync | 509,409 | `ActiveIsAnswered`: what is active is answered; `Delivers` |
| `server` | two devices with three connections, a third device that has not connected, two datasets of different size, up to two changes sent before, a window of two downloads, a quota that nearly is reached and lowered, two disturbances | 619,471 | the server implements `Mailbox` (`Delivery`); no lost wakeup (`NothingForgotten`, `LiveSync`); `RegistryIsAlive`; `QuotaCovers` |
| `connector` | every call of other threads, two faults or calls, one step of the retry table | 304,533 | `MessagesAreExpected`, `NoStaleMessage`, `LossIsAnnounced`, `Recovers`, `ClosesOrderly` |
| `account` | two members, one device that joins, two attempts, three events | 463,665 | `OneChangeAtATime`, `ChangesVerify`, `KeysAreShared`, `AccessIsGranted`, `NewDevicesAreServed`, `ChangesSpread`, `GrantIsAnswered` |
| `store` | two keys, two contents, the engine, one more thread, a passive process, two writes, one failed commit or power failure | 2,150,527 | `FilesMatch`, `CacheIsCurrent`, `ViewsAreCurrent`, `LogIsRead` |
| `background` | two threads, three setups, two requests, two moves of the engine, two starts by the system | 69,391 | `RegistryIsTrue`, `CallsReturn`, `SyncEnds` |
| `keys` | three kinds of key stores, one kept key, two registrations, two indices, one mishap | 458,575 | `IdentityLoads`, `SignsWithKeys`, `KeysAreReadable`, `ResetEnds` |
| `views` | two migrations of two entries (one removed before, one unchanged) into any subset of their rows, three sets of flags, a batch size of one, one write, one load, one failure or crash | 1,652,418 | `ModelIsCurrent`, `ShowsAll`, `NothingIsLost` |
| `transfer` | two clients, one peer, two calls, one tick of patience; the engine, the exchange and the peer start and stop without a bound | 480,240 | `CallsEnd`, `PeersAreTracked` |

Why the bounds are enough. *Exchange:* two edits give every pair of concurrent
operations on two devices (save and save, save and remove, or two saves of which
the second overtakes the upload of the first), and a conflict produces further
versions by itself, which are not counted. One lost connection can fall between
any two steps, and what the server has of it is a change or an acknowledgement
that meets every later state. Three contents give a conflict that the resolver
answers and one that it leaves to the checksums; one is enough for what depends
on deletions. The cached number wraps at 3 in the runs (`CacheSize`). The
theorems remove the bounds for what they cover. *Uploads:* limit
two with up to four entries reaches a full window, a window of active rows and a
partly free one. *Server:* two connections of one device and one of the other
overlap in every order; a window of two with changes of different size fills,
empties and meets the quota; the third device is the one a change is shared with while the only
other one confirms it; a `quint32` wraps at 8 in the run (`Words`, 2^32
in the code). *Connector, account, keys, store:* two disturbances give every pair of a fault and a
reaction to an earlier one; the interesting losses are single ones at any
message. The store was checked once by hand for one key with three writes (7.8
million states), key material with two mishaps and two key stores (1.5 million)
and with four indices for one key store (2.2 million). *Views:* with a batch of one every
position of the fetch boundary occurs. *Transfer:* what is unbounded has
finitely many states; two calls give two exports, an import with an export, and
imports of two clients.

The exceptions the properties name are real behaviours of the code, and each is
needed: without it TLC finds the property violated. They are `Stuck` (uploads
refused while not idle; an unreadable dataset of a new device), `forgot` and
`overtaken` (exchange), `closing` (an entry added to a change that is being
confirmed, server), `discarded` (migration), `torn`, `overlapped`, `misled`, `stale`, `blind` (store and model), `unsaved`,
`dropped`, `unloaded`, `prepared`, `Undeletable` (key material), `raced`,
`MissedCreation` (setups), keys a device has activated on its own (account),
calls without a source (transfer).

### Fairness

- `Exchange`: weak fairness of everything but users and losses together: the
  event loops of Qt, `nextTask` of the task queue, TCP, and
  `RemoteConnector::retry`, which tries for ever with growing intervals, do not
  all stop. These steps come to an end when users rest, so that no choice
  between them has to be fair; as losses are bounded, connections hold in the
  end.
- `UploadController`: the event loop, what opens, closes and retries a
  connection, the server's acknowledgements, and the `LastChangedMessage` it owes
  at the end of downloads it has begun (`client.cpp:653`). One that it owes
  nobody, after a notification that finds nothing, may come but need not: no
  upload may depend on it. The operation timer is left out deliberately, too:
  delivery must not depend on it.
- `Server`: weak fairness of the system as a whole: thread pool, event loops and
  timers of closing sockets do not all stop. Nothing of it goes on for ever
  without a new request, so that no choice inside has to be fair. Rollbacks are
  bounded and not fair.
- `Connector`: weak fairness of the machine, of the loop, of each timer and each
  direction of the connection; strong fairness of a socket's closing, which the
  machine may interrupt by opening another one. Connections that hold in the
  end come from the bound.
- `Account`: handlers, tasks, queued kicks, reconnects, and the timer of a proof
  (ten minutes), which denies what no user answers.
- `KeyMaterial`: steps of handlers, writing settings, start and connecting; the
  user who wants a reset repeats it as long as it fails (strong fairness).
- `BackgroundSync`: event loops and threads go on, the engine settles in a state
  when it is left alone, the system stops a service. That an engine's
  finalization ends is what `ClosesOrderly` of `Connector` shows.
- `Migration`: announcements arrive, the user scrolls on, jobs go on.
- `UserExchange`: the loops of host and clients, the timer of the exchange, and
  the network: a datagram does not stay in the air for ever.
- `Store`: none; its properties are safety properties of quiescent states.

## 4. Proofs

The theorems hold for every value of the constants that satisfies the named
assumptions of the modules: `DataAssumption`, `ConfigAssumption` and
`ResolverAssumption` of `SyncRules`; `DevicesAssumption` and `BoundsAssumption`
of `Exchange`; `UploadAssumption` of `UploadController` (finitely many datasets,
a limit above 0); `ThreadsAssumption`, `StartAssumption` and `BudgetAssumption` of
`Store`; `TablesAssumption` of `ChangeTables`, `ServerAssumption` and
`RequestsAssumption` of `Server`; `ConnectorAssumption` of `Connector`;
`KeyRingAssumption` of `KeyRing` (`"nobody"`, who makes the keys of failed
agreements, is no device) and `AccountAssumption` of `Account`;
`KeyMaterialAssumption` of `KeyMaterial`; `ItemModelAssumption` (a finite set of
keys, none of which is the name for "no key") and `MigrationAssumption`. The bounds of the modules are
constants too, so that the theorems hold for any number of faults, users'
operations and retries. Every proof is about `Spec` as TLC checks it.

`ExchangeProofs`:

- `Typing`: `Spec => []TypeOK`. `cached` is a number below `CacheSize`, also when
  it wraps; that the code copes with this is what `Converges` shows. `TypeInv` is
  the strengthening.
- `VersionsNeverGoBack`: when deletions persist, `Spec => VersionsGrow`, from
  `Typing`, well-formed rows and the lemma `MergeGrows` on `syncChange`.
- `RememberedIsAgreed`: in every configuration, `Spec =>
  []AgreementWhileRemembered`, by `CoverInvariance`, `Spec => [](~forgot /\
  ~overtaken => CoverInv /\ LateIsOld)`.
- `SyncedStaysCovered` and `DevicesAgree`: when deletions persist, `Spec =>
  []SyncedIsCovered` and `Spec => []Agreement`.

The argument for the last three. One row, change or message is *as new as* another
(`AsNew`) if it has a newer version, or the same version and the same data. Data
is `Covered` if every device has a row that is as new, or an entry in
`devicechanges` for a change that is as new. That what counts as synchronized is
covered gives agreement: with no entries left, any two rows are as new as each
other (`SyncedDevicesAgree`). It is not inductive alone, since a row becomes
unchanged through an acknowledgement, a merge or nothing at all. `CoverInv` adds:
an upload is on its way at most once, as a change or as an acknowledgement, and
only while it is active (`OneUpload`, `OfflineIsSilent`), so that an
acknowledgement marks the version that the server has accepted; the upload has
the data of that version if the row still has it, and is as new as what the
server already has of its sender (`UploadIsCurrent`), so that replacing a change
loses nothing; ids tell changes apart (`IdsAreUnique`), so that completing an old
change leaves the one that replaced it; everything accepted, everything on its
way to a device, and a row that is about to be marked by an acknowledgement, is
covered (`AcceptedIsCovered`); an acknowledged download has been merged
(`AckedIsMerged`), so that the entry is only dropped when the row has taken its
place; and no row of version 0 exists (`RowsHaveVersions`). What the server still
handles of lost connections is nothing new (`LateIsOld`): a late change is not
newer than the row of its device nor than what that device uploads now, and the
download a late acknowledgement names was merged. A late change may be older
than what its device has sent since; if it then replaces a newer change that
somebody still has to get, `addChange`, which compares no versions, has lost
data, and `overtaken` says so. In all other cases it takes nothing away. What makes a step
keep all this is a fact about the merge: `MergeGrows` says that its result is as
new as both sides, so that a conflict at one version always ends in a newer one,
never in two devices that hold different data of one version and call it
synchronized. The proof has one lemma per action (`CompletionCovers`, `AddChangeCovers` and
`ServerCovers` for what the present and the late tasks have in common, `LateStays`
for `LateIsOld`) and lemmas on how a step can move `Covered` (`CoverStays`,
`CoverKept`, `HeldKept`, `OldArrives`, `AddedArrives`, `DownloadArrives`). TLC has
checked `CoverInv` and `LateIsOld`, as far as nothing is overtaken, on the instance
of `persist`.

Without persisted deletions, the default of the library (`setup.cpp`), the
invariant becomes false at the step that purges a row, which forgets its version,
or that passes over a deletion of a dataset the device does not have. `forgot`
observes these steps, and the invariant is proved for states in which nothing is
forgotten, nor overtaken, in every configuration: nothing else costs a guarantee. When deletions persist
nothing is ever forgotten (`NothingForgotten`). Behind that step there is no
weaker form of `Agreement` to prove: that devices which still hold the dataset
hold the same data, which had been checked with two devices and three edits, is
false with three devices or with more edits, as the attempt to prove it showed
(section 5).

These rest on what the operations on rows return (`storeChanged`,
`storeDeleted`, `updateVersion`, `markUnchanged`, `syncChange` keep rows well
formed; `StoreProofs` needs the same lemmas). `MergesAgree` is of interest by
itself: two devices that merge each other's row at the same version get the same
content at the same version, for both policies and for every resolver that does
not depend on which side is local.

`UploadControllerProofs`: `UploadsAreAnswered`, `Spec => []ActiveIsAnswered`, for
every number of datasets, every limit and any number of edits, failures and
reconnects, and `LimitIsKept`. An upload that is active and that nobody completes
would keep its place below the limit for as long as the connection lasts, so this
is what keeps a device able to upload. `UploadInv` claims it already while the
device connects, when the answer can only come from a failed read: what an earlier
connection has left active is cleared when the state machine enters `Active`, also
after an error, when leaving it has cleared nothing; and what a queued
`uploadNext` starts before the connection is idle is ignored by the connector,
one of the exceptions of the property. `uploadDone` takes the first matching
answer away, and what it was for with it, because ids of active uploads are unique
and `uploadNext` starts nothing that is active: both are part of the invariant,
and so is the limit, which `Startable` keeps because it counts what is active.
The exceptions (`Stuck`) are the ones the property names, and no more.

`StoreProofs`: `FilesFollowTheIndex`, `Spec => []FilesMatch`, for every number of
keys, threads, processes, writes and faults. `FilesInv` is inductive: rows and
operations are typed (`TypesInv`); at most one thread is between the begin and
the end of a write transaction (`OneWriter`), which is what SQLite's lock gives
and what makes the files of a transaction its own; a file of a key that the open
transaction has touched is already what the transaction will commit
(`FilesAhead`), so that the commit, which changes the index only, restores
agreement; and every other file is what the committed row says unless the key is
torn (`FilesMatch`). Reads, announcements and event loops change neither
(`ThreadStep`, `SameOpsStep`); a failed commit and a crash move exactly the
touched keys to `torn`.

`CachesAreCurrent`, `ViewsStayCurrent` and `CursorsCatchUp` are the same kind of
statement about what is derived from the index: `Spec => []CacheIsCurrent`,
`[]ViewsAreCurrent` and `[]LogIsRead`. Each property speaks of quiescent states,
so that its strengthening has to say what is still on its way when they are not.
`SignalsInv` types what waits: an announcement names one key unless it is a
deletion, and the events in the queue of a process come from it. For the cache,
`CacheGood` says that a cached dataset is the one of the index, or a signal that
will correct it is on its way (`CacheDue`), or a transaction is changing it
(`Changing`). That needs what a transaction that saves has put into its own cache
(`CacheAhead`), what a load that was cut off has read (`ReadGood`), and that
only a file that stays can be replaced under a load (`OverlapGood`). For a view,
`ViewGood` is the same with its own signals (`ViewDue`), which do not come back to
the thread that sent them, and with the load that a signal starts (`Loading`).
A deletion counts as a correction whatever the row says by now, a change only
while there is something to load (`Counts`): this is where `misled` comes from.
`SeenInv` conjoins the four invariants. For the cursors, `LogInv` says that at
or after every entry there is one of the row's current version (`LastIsCurrent`),
so that a cursor which skips older entries does not skip the current one, and
that a cursor with nothing on its way has passed what was announced
(`PassedFrom`, `LogDue`). `GreatestOne` and `SetToSeqLists` are the facts about
the community modules' operators that scanning and logging need; the second is
why `Keys` is assumed finite.

`ServerProofs`: `ServerImplementsMailbox`, `Spec => Delivery`, the refinement of
`Mailbox` by `Server` for every number of devices, datasets and connections. The
mapping takes `devicechanges` for the boxes, `datachanges` for the shelf, `got`
for what has been received and the confirmations between the two steps of
`completeChange` for those that are `closing`. `ServerInv` is what a step needs to
know: ids in the tables have been given away (`TablesInv`), what a task has
loaded, what is on its way to a device and what a device confirms are ids that
were given away, and a confirmation, in a queue or between its steps, is one of a
change that the device has received (`GoodConnection`, `GoodMessages`). One lemma
for each transaction says which action of `Mailbox` it is: `PostStep` for
`addChange`, `ShareStep` for `addDeviceChange`, `ConfirmStep` for the two ends of
`completeChange` (`Confirm` or `Finish`), `LeaveStep` for `removeDevice`,
`cleanupDevices` and a limit that is forced; a step that is no transaction is a
stutter of the mailboxes, in which a confirmation may be given up, by an error or
a rollback, but none begins (`Keeps`), except in `AckStep`, which is a `Close` or
a stutter. One lemma per action of `Server` puts the task queue, lost connections
and queued events around it.

`ServerProofs` also has `RegistryStaysAlive` (`Spec => []RegistryIsAlive`) and
`NoWakeupIsLost` (`Spec => []NothingForgotten`). A connection that has nothing to
do and has changes waiting will be told: a notification is on its way from the
database, or a `notify` event is behind every `connected` event of this client
and, if it is registered, anywhere in the queue (`Awake`). The position matters:
a `notify` that the main thread handles before it has registered the client
reaches nobody. It is kept because a login announces the client and loads only
afterwards, so that a change committed in between is either loaded or announced
behind. `GoodEntry`: whom the registry holds serves that device, is registered
and is not destroyed. `LoadChanges` with an empty window returns something
(`WindowIsFilled`) because the threshold is at most the limit.

`ConnectorProofs`: `ConnectorTyping`, and `LossStaysAnnounced`
(`Spec => []LossIsAnnounced`). `disconnected()` and the slots that give a socket
up only submit an event, and an event that opens a new connection may be in
front of it. The invariant says where in the queue the end of the connection is:
an active machine without a socket has one of the four ending events waiting, or
is still to close, or has just refused to connect (`Ending`); and behind every
`connected` that is left over from an earlier socket there is an ending event,
so that nobody takes it for the present one (`Overtaken`).

`AnswersAreExpected` (`Spec => []MessagesAreExpected`) and `StaleIsNeverTaken`
(`Spec => NoStaleMessage`) rest on a second invariant, `MessagesInv`, about the
event loop, the queue of events, the buffer and the wire together. Submitting an
event blocks the handling of messages until a later `machineReady`, and whatever
is blocked or queued has its turn posted (`Scheduled`); so when the loop is empty,
nothing is queued, blocked or buffered, and the machine is in the state that
belongs to what the server was asked for (`Requested`), which is when the server
answers. From then on the handshake is over: no greeting, no `connected` and no
event that awaits an answer is left anywhere (`Settled`), and before the machine
has left the state in which it awaits the first answer, no buffered message is
handled (`Awaiting`, `Opened`). For messages of an earlier socket, `Queued` says
that none of its answers is behind a greeting in the buffer, so that they are used
up before the next handshake is over. What an event does to the queue is stated
with `Has` and `Before` (which events there are, and which are in front of which),
since the proofs need nothing else of a sequence; `CalmIsSound`, `EndIsSound`,
`OutIsSound`, `InIsSound`, `IgnoredIsSound` and `ConnectingIsSound` are the kinds
of steps, and one lemma per action says of which kind it is. TLC has checked the
conjuncts of `MessagesInv` on the instance of `connector` and with all calls.

`AccountProofs`: `AccountTyping`, `ChangesOneAtATime`, `NextChangeVerifies`,
`KeysStayShared` and `NobodyJoinsUnasked`, that is `Spec => []P` for the four
safety properties of the run `account`. One inductive invariant, `AccountInv`,
carries them, since each depends on what is in the queues. A mac or a signature
that is stored or on its way was made with a key its device uses, has used, or
has made for an index the server has accepted since (`Fits`); so a device that
proves to know key n keeps being able to verify a change signed with it. An
index that the server has called acceptable, and that still is the next one,
means that no change is unconfirmed (`Free`), although the check and the update
are two transactions; hence at most one change per device. The key in a grant or
in a change is the one of the account, or one the partner has activated itself
(`Handed`), and a device's current key likewise (`Shared`). A device that is
asked for a new key is behind the index it is asked for, after everything in
front of the question has been handled (`Ahead`). `Phase` says which state of a
device goes with which state of its client and which messages may be between
them, `Routes` that a proof is only passed on while the partner is connected.

`KeyMaterialProofs`: `StoredDevicesLoad`, `ConnectedDevicesSign` and
`SessionsReadTheirKeys`, `Spec => []P` for the three safety properties of the run
`keys`, by one invariant with a lemma per action. `Kept` is what makes a stored
device loadable: both private keys, the file of its current key, and the files of
the keys it may need, for the settings on the disk at all times and for those of
the process between handlers. It has to say how far the settings may lag behind
the account (`Near`): a kill right after a change of the key leaves the previous
number on the disk, so that clean-up must spare it. This is where at least one
older key must be kept (`KeptKeys # 0`; it is 5 in the code): with none, a device
killed between `cleanCiphers` and the write of its settings is lost. `Prepared`
keeps the file of a prepared key until the server has seen it; `Loaded` ties what
is in memory to the files; the conjuncts of `Handling` say what each handler has
done when it is at a step, which is what a crash at that step leaves.

`MigrationProofs`: `ModelsAreCurrent` (`Spec => []ModelIsCurrent`) and
`OldDataIsSafe` (`Spec => []NothingIsLost`), one for the item model and one for
the jobs below it. When nothing is announced any more a model shows the store,
whatever order the writes, the announcements and the batches of `fetchMore` had.
The invariant `ModelInv` says what holds in between: the rows that have been
fetched are a beginning of the list (`GoodModel`; `fetchMore` asks for the rows
behind the number it has, so a removed or added key must not shift them), and a
dataset whose row in the model, or whose data, is not the one of the store has
an announcement with its writer or in the model's queue (`Awaited`, in
`ListIsKnown` and `DataIsKnown`). What the code cannot do is named and excepted
as in the property: rows that failed to reload (`stale`), a list that failed to
load (`blind`), keys whose announcements overtook each other (`misled`).
`JobsInv` is about the copies: only the holder of the lock is among the entries,
everything behind it in its walk has been in the new store unless old data was
discarded (`Had`), a job that migrates data and removes the old directory has been
through the whole table, a job that only removes it sets `discarded`, and a row that exists in
the new store is there because somebody put it there, so that skipping an entry
that exists loses nothing. TLC has checked both invariants on the instance of
`views`. Writing the proof showed that the model of `onStoreChanged` had a `CASE`
with overlapping guards; it now tests in the order of the code.

What is not proved and stays with TLC:

- Liveness (`Delivers`, `LiveSync`, `Recovers`, `ClosesOrderly`,
  `NewDevicesAreServed`, `ChangesSpread`, `GrantIsAnswered`, `CallsEnd`,
  `CallsReturn`, `SyncEnds`, `ResetEnds`, `ShowsAll`, `PeersAreTracked`...): out
  of the prover's reach with its fairness and `ENABLED`.
- `Converges`, which is what shows that a wrapped counter holds no device back,
  is such a liveness property, too.
- `QuotaCovers` needs sums over sets of rows, a fold, and with it induction over
  data.
- `RegistryIsTrue`: no obstacle in principle; its strengthening, over the
  threads, the registry and the services of `BackgroundSync`, is not written.

No module that a theorem depends on declares a `RECURSIVE` operator, and no
theorem needs induction over data, which the prover could not do.

## 5. Findings

`resurrect` (in `PROJECT.json` with its lines): with the default configuration a
dataset that both users have removed can come back on one device and stay there.
`src/modeling/exchange.txt` says the other side would repeat its deletion;
nothing does.

The same hole lets devices end with *different* data of one dataset, which all
count as synchronized, although its key was never used again
(`doc/setup.dox:172` advises against persisting for such keys). Random simulation
of `Exchange` finds it within minutes; breadth-first search does not get that
far, so it has no run. Three devices, four edits: `b` and `c` save different data
over version 1 (version 2 each), `a` saves and then removes the dataset (version
3). `a`'s deletion is accepted, its acknowledgement is lost and it is uploaded
once more; of the two the first makes the others delete their data, the second
makes them purge the row. `b`'s upload is accepted in between, and `c`'s, still
on its way, after `c` has purged its row. Now `a` and `b` take `c`'s change for a
new dataset, and `c` takes `b`'s. All have version 2, nothing is left to upload
or to deliver. Two devices get there with nine edits.

Observed while modelling; the model has the behaviour, and a property names it
as an exception where one is concerned.

*Late changes.* `closeClient` leaves the running task of a lost connection alive,
and `addChange` replaces a change without comparing versions
(`client.cpp:280`, `databasecontroller.cpp:319`): a change of an old connection
that is handled after the device has connected again and uploaded a newer one
replaces that one. The newer one has been acknowledged, so nobody sends it again;
the other devices stay at the older data and count as synchronized (`overtaken`).

*Engine and uploads.* An upload started by a queued `uploadNext`
(`changecontroller.cpp:70`) does not announce itself: the state is Synchronized
while it runs (`syncmanager.h:41`), and its operation timer reconnects out of
the error state (`exchangeengine.cpp:207`; `doc/syncmanager.dox:57` says only
the user can). Datasets that change during an upload take the progress beyond
1.0 (`doc/syncmanager.dox:77`). An unreadable dataset for a new device is
completed under the wrong key and keeps its place below the limit.

*Connector.* Between the loss of a socket and the machine's turn `isIdle()`
holds with a null socket. A posted `disconnected()` of an old socket can hit its
successor; a stale `connected` starts the handshake over; a ping timeout
reconnects out of FatalError; errors in Reconnecting and Retry are ignored.

*Keys and accounts.* If the `MacUpdateMessage` after a key change is lost, the
next welcome repeats the change and is verified with the new key
(`remoteconnector.cpp:1026`): the device fails at every login. A device that
misses a `NewKeyAckMessage` while another one updates is locked out as well. A
device that is told "duplicated" activates a key of its own that the account
does not have (`cryptocontroller.cpp:555`). A partner that disconnects leaves
the joining device waiting without an answer (`clientconnector.cpp:226`). If
`AcceptAckMessage` is lost, the new device never gets the partner's data. A
proof with the nonce of an export uses the export up whatever comes of it.
`onAccount` stores the id before the keys; `loadIdentity` takes a device whose
keys it could not load for loaded the next time.

*Store.* `removeImpl` deletes the file before the commit: a crash in between
tears the dataset for good (`storeDeleted` throws on it). A load that overlaps a
save of another thread caches what it has read of an older file, and a read may
see a file whose transaction is not committed. Announcements are not in the
order of commits, so a view can miss the last state. The `skipObsolete` query
tests `EventLog.Version IS NULL` (`eventcursor.cpp:449`). The item model stops at
a dataset it cannot load (`datastoremodel.cpp:115`) and stays empty if the keys
cannot be loaded once. A migration that removed part of the old store cannot be
repeated, and one repeated without clean-up brings back what was removed and
purged since. A migration with `MigrateWithCleanup` and without `MigrateData`, which
`migrationhelper.h:24` allows, removes the old data without having read it
(`migrationhelper.cpp:312`). Migrating the deletion of a dataset whose file is
gone throws in a job of the thread pool and ends the process.

*Server.* The two queries of `triggerDownload` see different states, so
`_cachedChanges` may wrap (`client.cpp:635`, 649); the device then gets no
`ChangedInfoMessage` until the next `LastChangedMessage` resets the counter, which
`Converges` shows to be soon enough. `completeChange` runs in READ COMMITTED: its
`DELETE ... NOT EXISTS` (`databasecontroller.cpp:498`) waits for a transaction
that adds an entry to the change, does not look again, and deletes the change
with the new entry, whose sender gets its acknowledgement (`closing`); two
devices that confirm the last two entries leave a change that is for nobody and
uses quota until its sender replaces it. The destruction of an old client removes a newer one from the registry
(`clientconnector.cpp:210`). Removing a device frees no quota for its changes
(`databasecontroller.cpp:866`; `doc/appserver.dox:83`). A closed connection's
running task still works on the database (`client.cpp:280`). A client whose
registration is still queued cannot have a removed device disconnected.

*Setups and services.* `createPassive` on a worker thread connects to
`passiveCreated` too late (`setup.cpp:516`), and a creation that is announced
after the timer still counts (`doc/setup.dox:607`). `removeSetup` of a passive
setup unlocks between look-up and removal (`setup.cpp:38`, 50).
`waitAndTerminate` with a timeout leaves the name locked. `performSync` of the
iOS delegate does not store its callback, so a fetch is never reported to iOS
(`iossyncdelegate.cpp:151`), although `doc/iossyncdelegate.dox:188` calls it "a callback to be called with
the sync result once the sync is done". `SyncEnds` speaks of the functions passed to the SyncManager, all of
which are called; it says nothing about the fetch.

*Remote objects and the exchange.* An `ExchangeBufferServer` is never removed
from `_servers` (`exchangebufferserver.cpp:46`): a setup that is removed and
created again in one process cannot be reached through the new engine's host.
A call made before the replica is initialized leaves its callback for ever, and
an import of this kind blocks its manager. The result of an import is broadcast
and taken by every manager that waits for one (`accountmanager.cpp:282`). The
name of a listed device is never updated, since `QHash::insert` keeps the key
(`userexchangemanager.cpp:285`).

## 6. Plan

Done: the modules of section 2 in the order of the table, and the theorems of
section 4. What would come next, most valuable first:

1. A proof of `RegistryIsTrue` of `Setups`.
2. Registration of the first device and the reset of a registered one in
   `Account`, with the device lists.
3. The pool of databases (`DatabaseRef`, `DefaultsPrivate`) with threads that
   end.
4. `EventCursor::save` and `load` across versions of the log.

## 7. Not modelled

- Cryptography, serialization and the validation of messages: data is opaque,
  no property depends on the bytes. The encoding of exports with them.
- Qt itself (event loops, remote objects, the SCXML interpreter), PostgreSQL and
  SQLite: modelled from how the code uses them, as far as the modules need it.
- Creation of database schemas, TLS and header configuration, logging, the
  service's start-up and installation, the pool of database connections.
- Typed wrappers (`DataStore`, `DataTypeStore`) over the modelled stores, roles
  and columns of the item model, reading remote configurations.
- The registration of a first device, device lists, and the dialogs around login
  requests; alarms and intervals of the platforms, QML imports.
- Undefined behaviour: the data race on `Client::_state`, and pointers to
  destroyed buffers. A call on a destroyed buffer is lost in the model; the
  build may also crash, after which nothing happens.
- Bounds of the model that are not in the code are the constants named `Max...`;
  in `Transport` calls of different clients wait in queues of their own, which
  allows more orders than the one event loop of the host.
