------------------------------- MODULE KeyMaterial ------------------------------
(***************************************************************************)
(* What a device keeps of its identity: its id and the number of its       *)
(* exchange key in the settings, its private keys in a key store, its      *)
(* exchange keys in files (CryptoController), and the handlers of the      *)
(* connector that create, load, extend and delete them, step by step, with *)
(* key stores that fail and a process that is killed between two steps.    *)
(*                                                                         *)
(* Settings reach the disk when a handler has returned to the event loop;  *)
(* files and key stores are written at once.  Account has the values of    *)
(* the exchange keys and who shares them; here a file is known by the      *)
(* device whose key encrypts it.  A private key belongs to the device it   *)
(* was created for and is known by its id.                                 *)
(***************************************************************************)
EXTENDS Naturals, Sequences, FiniteSets

CONSTANTS
  KeyStores,    \* the key stores an application may use
  KeptKeys,     \* older exchange keys that are kept (5 in the code)
  MaxDevices,   \* bound: registrations
  MaxIndex,     \* bound: exchange keys of an account
  MaxMishaps    \* bound: failures of the key store, and times the process is killed

\* One older key is kept at least: the settings on the disk still name it when the
\* process is killed right after a change of the key.
ASSUME KeyMaterialAssumption ==
  KeptKeys \in Nat \ {0} /\ MaxDevices \in Nat /\ MaxIndex \in Nat /\ MaxMishaps \in Nat

VARIABLES
  keystore,   \* the key store of the application
  settings,   \* QSettings as the process sees them
  disk,       \* QSettings as they were last synchronized
  files,      \* the key files: their owner, or 0 for one that is cut off
  store,      \* the private keys in the key store
  memory,     \* RemoteConnector::_deviceId and the members of CryptoController
  link,       \* the connector
  running,    \* the handler that is running and the steps it has left
  server,     \* the account of the device
  update,     \* an update of the exchange key that the user has asked for
  wish,       \* the device the user wants to get rid of
  history,    \* what the properties name as exceptions
  mishaps     \* failures and crashes so far

persistent == <<keystore, disk, files, store>>
vars == <<keystore, settings, disk, files, store, memory, link, running, server, update, wish,
          history, mishaps>>

(***************************************************************************)
(* The key stores: can opening one fail, and does removing a key it does   *)
(* not have fail?  Loading a missing key always ends in an exception, as   *)
(* loadKeyMaterial throws it for those that return nothing.                *)
(***************************************************************************)
plain         == [opens |-> FALSE, strict |-> FALSE]
android       == [opens |-> FALSE, strict |-> FALSE]
kwallet       == [opens |-> FALSE, strict |-> TRUE]
secretservice == [opens |-> FALSE, strict |-> TRUE]
wincred       == [opens |-> TRUE, strict |-> TRUE]
keychain      == [opens |-> TRUE, strict |-> TRUE]

Contract ==
  [plain |-> plain, android |-> android, kwallet |-> kwallet,
   secretservice |-> secretservice, wincred |-> wincred, keychain |-> keychain]

NoDevice == 0
NoKey == 0
Devices == 1..MaxDevices
Indices == 0..MaxIndex
Parts == {"sign", "crypt"}

Settings ==
  [device : 0..MaxDevices, provider : BOOLEAN, local : Indices, next : 0..MaxIndex + 1]
Memory ==
  [device : 0..MaxDevices, asym : 0..MaxDevices, local : Indices, loaded : SUBSET (0..MaxIndex + 1),
   store : {"none", "closed", "open"}]
Links == {"off", "starting", "offline", "connecting", "registering", "session", "resetting", "error"}

TypeOK ==
  /\ keystore \in KeyStores
  /\ settings \in Settings /\ disk \in Settings
  /\ DOMAIN files \subseteq 0..MaxIndex + 1 /\ \A i \in DOMAIN files : files[i] \in 0..MaxDevices
  /\ store \subseteq Parts \X Devices
  /\ memory \in Memory
  /\ link \in Links
  /\ server \in [device : 0..MaxDevices, joined : Indices, index : Indices, change : Indices]
  /\ update \in {"none", "asked", "sent", "accepted"}
  /\ wish \in 0..MaxDevices
  /\ mishaps \in 0..MaxMishaps

NoSettings == [device |-> NoDevice, provider |-> FALSE, local |-> 0, next |-> NoKey]
NoMemory == [device |-> NoDevice, asym |-> NoDevice, local |-> 0, loaded |-> {}, store |-> "none"]
NoHandler == [name |-> "none", of |-> NoDevice, index |-> 0, todo |-> << >>]
NoAccount == [device |-> NoDevice, joined |-> 0, index |-> 0, change |-> NoKey]

Init ==
  /\ keystore \in KeyStores
  /\ settings = NoSettings /\ disk = NoSettings
  /\ files = << >> /\ store = {}
  /\ memory = NoMemory /\ link = "off"
  /\ running = NoHandler
  /\ server = NoAccount /\ update = "none" /\ wish = NoDevice
  /\ history = [last |-> 0, unsaved |-> {}, dropped |-> {}, prepared |-> {}, unloaded |-> FALSE]
  /\ mishaps = 0

--------------------------------------------------------------------------------
(* Handlers and their steps.                                                 *)

\* The handler before has returned and the settings are synchronized.
Ready == running = NoHandler /\ settings = disk
Up == link # "off"

Run(name, of, index, todo) ==
  running' = [name |-> name, of |-> of, index |-> index, todo |-> todo]
Step(step) == running.todo # << >> /\ Head(running.todo) = step
Proceed == running' = [running EXCEPT !.todo = Tail(@)]
Return == running' = NoHandler
Names(names) == running.name \in names

Resets == {"reset", "import", "initial"}

LoadSteps == <<"open", "sign", "crypt", "loadLocal">>
\* Faulty: the exchange key is not written.
StoreWithoutFile == <<"open", "sign", "crypt", "stored">>
StoreSteps == <<"open", "sign", "crypt", "truncate", "write", "stored">>
DeleteSteps == <<"wipe", "open", "sign", "crypt", "deleted">>
KeySteps == <<"truncate", "write", "added">>

\* getInfo: an exchange key that is loaded already is not read again.
Readable(i) ==
  i \in memory.loaded \/ (i \in DOMAIN files /\ files[i] = memory.asym /\ files[i] # NoDevice)

Cleared(m) == [m EXCEPT !.asym = NoDevice, !.local = 0, !.loaded = {}, !.store = IF @ = "open" THEN "closed" ELSE @]
Closed(m) == [m EXCEPT !.store = IF @ = "open" THEN "closed" ELSE @]

(***************************************************************************)
(* The process ends: settings that were not synchronized are lost.         *)
(***************************************************************************)
Killed ==
  /\ link' = "off" /\ settings' = disk
  /\ memory' = NoMemory /\ running' = NoHandler /\ update' = "none"

(***************************************************************************)
(* An exception leaves a handler.  loadIdentity and binaryMessageReceived  *)
(* report an error, importAccount catches it as well; what resetAccount    *)
(* throws reaches EngineThread::run, which ends the application.           *)
(***************************************************************************)
Throw(m) ==
  IF Names({"reset"}) THEN Killed /\ UNCHANGED history
  ELSE /\ link' = IF Names({"import"}) THEN link ELSE "error"
       /\ memory' = m /\ running' = NoHandler
       /\ update' = IF Names({"import"}) THEN update ELSE "none"
       /\ history' = [history EXCEPT !.unloaded = @ \/ Names({"connect"}),
                                     !.unsaved = IF Names({"account"}) THEN @ \cup {running.of} ELSE @]
       /\ UNCHANGED settings

\* ensureStoreOpen.  A missing key store is only a warning for deleteKeyMaterial.
OpenStore ==
  /\ Step("open") /\ memory.store # "none"
  /\ memory' = [memory EXCEPT !.store = "open"]
  /\ Proceed
  /\ UNCHANGED <<persistent, settings, link, server, update, wish, history, mishaps>>

\* Faulty: the exception is that of a key store.
OpenNoStoreThrows ==
  /\ Step("open") /\ memory.store = "none" /\ Names(Resets)
  /\ Throw(memory)
  /\ UNCHANGED <<persistent, server, wish, mishaps>>

OpenNoStore ==
  /\ Step("open") /\ memory.store = "none" /\ Names(Resets)
  /\ running' = [running EXCEPT !.todo = <<"deleted">>]
  /\ UNCHANGED <<persistent, settings, memory, link, server, update, wish, history, mishaps>>

\* Opening, saving, loading or removing fails; the store stays open.
StoreFails ==
  /\ running.todo # << >> /\ mishaps < MaxMishaps /\ memory.store # "none"
  /\ \/ Head(running.todo) \in Parts
     \/ Step("open") /\ memory.store = "closed" /\ ~Contract[keystore].opens
  /\ mishaps' = mishaps + 1
  /\ Throw(memory)
  /\ UNCHANGED <<persistent, server, wish>>

AtKey == running.todo # << >> /\ Head(running.todo) \in Parts
KeyName == <<Head(running.todo), running.of>>

SaveKey ==
  /\ AtKey /\ Names({"account"})
  /\ store' = store \cup {KeyName}
  /\ Proceed
  /\ UNCHANGED <<keystore, disk, files, settings, memory, link, server, update, wish, history, mishaps>>

LoadKey ==
  /\ AtKey /\ Names({"connect"})
  /\ IF KeyName \in store THEN Proceed /\ UNCHANGED <<settings, memory, link, update, history>>
     ELSE Throw(memory)
  /\ UNCHANGED <<persistent, server, wish, mishaps>>

RemoveKey ==
  /\ AtKey /\ Names(Resets)
  /\ IF KeyName \notin store /\ Contract[keystore].strict THEN Throw(memory)
     ELSE Proceed /\ UNCHANGED <<settings, memory, link, update, history>>
  /\ store' = store \ {KeyName}
  /\ UNCHANGED <<keystore, disk, files, server, wish, mishaps>>

--------------------------------------------------------------------------------
(* Loading the identity.                                                     *)

Start ==
  /\ link = "off"
  /\ link' = "starting"
  /\ UNCHANGED <<persistent, settings, memory, running, server, update, wish, history, mishaps>>

\* doConnect and loadIdentity.  The keys of a device that is not new are loaded,
\* even if loading them has failed before.
Reconnect ==
  /\ Ready /\ link \in {"starting", "offline"}
  /\ settings.device = memory.device /\ settings.device # NoDevice
  /\ link' = "connecting"
  /\ UNCHANGED <<persistent, settings, memory, running, server, update, wish, history, mishaps>>

NewIdentity ==
  /\ Ready /\ link \in {"starting", "offline"}
  /\ settings.device # memory.device \/ settings.device = NoDevice

Fresh(keyStore) == [Cleared(memory) EXCEPT !.device = settings.device, !.store = keyStore]

\* Nobody is registered: clearKeyMaterial and acquireStore of the default provider.
ConnectUnregistered ==
  /\ NewIdentity /\ settings.device = NoDevice
  /\ memory' = Fresh("closed") /\ link' = "connecting"
  /\ history' = [history EXCEPT !.unloaded = FALSE]
  /\ server' = NoAccount
  /\ UNCHANGED <<persistent, settings, running, update, wish, mishaps>>

LoadIdentity ==
  /\ NewIdentity /\ settings.device # NoDevice /\ settings.provider
  /\ memory' = Fresh("closed")
  /\ Run("connect", settings.device, settings.local, LoadSteps)
  /\ UNCHANGED <<persistent, settings, link, server, update, wish, history, mishaps>>

\* acquireStore: the settings name no key store, or it is not available.
NoKeyStore ==
  /\ NewIdentity
  /\ \/ settings.device # NoDevice /\ ~settings.provider /\ UNCHANGED mishaps
     \/ memory.store = "none" /\ mishaps < MaxMishaps /\ mishaps' = mishaps + 1
  /\ memory' = Fresh("none") /\ link' = "error"
  /\ history' = [history EXCEPT !.unloaded = TRUE]
  /\ UNCHANGED <<persistent, settings, running, server, update, wish>>

\* The end of loadKeyMaterial: the current exchange key must be readable.
LoadLocal ==
  /\ Step("loadLocal")
  /\ LET m == [Closed(memory) EXCEPT !.asym = running.of, !.local = settings.local] IN
     IF settings.local \in DOMAIN files /\ files[settings.local] = running.of
     THEN /\ memory' = [m EXCEPT !.loaded = {settings.local}]
          /\ link' = "connecting" /\ Return
          /\ history' = [history EXCEPT !.unloaded = FALSE]
          /\ UNCHANGED <<settings, update>>
     ELSE Throw(m)
  /\ UNCHANGED <<persistent, server, wish, mishaps>>

--------------------------------------------------------------------------------
(* Registering and logging in.                                               *)

\* onIdentify of a device that is not registered: createPrivateKeys.
IdentifyNew ==
  /\ Ready /\ link = "connecting" /\ memory.device = NoDevice /\ history.last < MaxDevices
  /\ memory' = [memory EXCEPT !.asym = history.last + 1, !.local = 0, !.loaded = @ \cup {0}]
  /\ link' = "registering"
  /\ UNCHANGED <<persistent, settings, running, server, update, wish, history, mishaps>>

\* onIdentify of a registered device signs a login, with whatever keys there are.
Identify ==
  /\ Ready /\ link = "connecting" /\ memory.device # NoDevice
  /\ IF memory.asym = NoDevice THEN Killed
     ELSE link' = "session" /\ UNCHANGED <<settings, memory, running, update>>
  /\ UNCHANGED <<persistent, server, wish, history, mishaps>>

\* onAccount, and onGrant with the account's key: the id is stored before the keys.
Account ==
  /\ Ready /\ link = "registering"
  /\ \E index \in Indices :
       /\ memory' = [memory EXCEPT !.device = history.last + 1, !.local = index, !.loaded = @ \cup {index}]
       /\ server' = [device |-> history.last + 1, joined |-> index, index |-> index, change |-> NoKey]
       /\ Run("account", history.last + 1, index, StoreSteps)
  /\ settings' = [settings EXCEPT !.device = history.last + 1]
  /\ history' = [history EXCEPT !.last = @ + 1]
  /\ UNCHANGED <<persistent, link, update, wish, mishaps>>

\* storeCipherKey writes into the file of an older key of the same number.
FilesWith(index, owner) ==
  [i \in DOMAIN files \cup {index} |-> IF i = index THEN owner ELSE files[i]]

Truncate ==
  /\ Step("truncate")
  /\ files' = FilesWith(running.index, NoDevice)
  /\ Proceed
  /\ UNCHANGED <<keystore, disk, store, settings, memory, link, server, update, wish, history, mishaps>>

Write ==
  /\ Step("write")
  /\ files' = FilesWith(running.index, memory.asym)
  /\ Proceed
  /\ UNCHANGED <<keystore, disk, store, settings, memory, link, server, update, wish, history, mishaps>>

Stored ==
  /\ Step("stored")
  /\ settings' = [settings EXCEPT !.local = memory.local, !.provider = TRUE]
  /\ memory' = Closed(memory)
  /\ link' = "session" /\ Return
  /\ UNCHANGED <<persistent, server, update, wish, history, mishaps>>

--------------------------------------------------------------------------------
(* Exchange keys.                                                            *)

\* Faulty: no older key is kept.
CleanOlder(local) == {i \in DOMAIN files : i < local}
cleanCiphers(local) == {i \in DOMAIN files : i + KeptKeys < local}
Without(indices) == [i \in DOMAIN files \ indices |-> files[i]]

\* onWelcome with a key change that verifies: decryptSecretKey.
Welcome ==
  /\ Ready /\ link = "session" /\ server.change # NoKey /\ server.device = memory.device
  /\ IF server.change = memory.local + 1
     THEN /\ memory' = [memory EXCEPT !.loaded = @ \cup {server.change}]
          /\ Run("importKey", memory.device, server.change, KeySteps)
          /\ UNCHANGED <<link, update>>
     ELSE /\ link' = "error" /\ update' = "none" /\ UNCHANGED <<memory, running>>
  /\ UNCHANGED <<persistent, settings, server, wish, history, mishaps>>

\* The key becomes the local one, older ones are removed, and the server is told.
KeyImported ==
  /\ Step("added") /\ Names({"importKey"})
  /\ memory' = [memory EXCEPT !.local = running.index, !.loaded = @ \ cleanCiphers(running.index)]
  /\ settings' = [settings EXCEPT !.local = running.index]
  /\ files' = Without(cleanCiphers(running.index))
  /\ server' = [server EXCEPT !.change = NoKey]
  /\ Return
  /\ UNCHANGED <<keystore, disk, store, link, update, wish, history, mishaps>>

\* updateExchangeKey, while no change of a key is pending.
AskForUpdate ==
  /\ Ready /\ link = "session" /\ server.change = NoKey /\ update = "none"
  /\ update' = "asked"
  /\ UNCHANGED <<persistent, settings, memory, link, running, server, wish, history, mishaps>>

\* onDeviceKeys and generateNextKey.  Signing needs the private keys.
DeviceKeys ==
  /\ Ready /\ link \in {"session", "resetting"} /\ update = "asked"
  /\ memory.local + 1 = server.index + 1
  /\ LET next == memory.local + 1 IN
     \/ /\ settings.next = next
        /\ IF Readable(next)
           THEN update' = "sent" /\ UNCHANGED <<settings, memory, link, running>>
           ELSE link' = "error" /\ update' = "none" /\ UNCHANGED <<settings, memory, running>>
     \/ /\ settings.next # next /\ memory.asym # NoDevice
        /\ memory' = [memory EXCEPT !.loaded = @ \cup {next}]
        /\ Run("prepareKey", memory.device, next, KeySteps)
        /\ UNCHANGED <<settings, link, update>>
     \/ /\ settings.next # next /\ memory.asym = NoDevice
        /\ Killed
  /\ UNCHANGED <<persistent, server, wish, history, mishaps>>

KeyPrepared ==
  /\ Step("added") /\ Names({"prepareKey"})
  /\ settings' = [settings EXCEPT !.next = running.index]
  /\ history' = [history EXCEPT !.prepared = @ \cup {<<memory.device, running.index>>}]
  /\ update' = "sent" /\ Return
  /\ UNCHANGED <<persistent, memory, link, server, wish, mishaps>>

\* The server commits the change of the key for the account.
Accept ==
  /\ update = "sent" /\ Ready /\ server.index < MaxIndex /\ server.device = memory.device
  /\ server' = [server EXCEPT !.index = @ + 1]
  /\ update' = "accepted"
  /\ UNCHANGED <<persistent, settings, memory, link, running, wish, history, mishaps>>

\* activateNextKey, for onNewKeyAck and a duplicate in onDeviceKeys.  The key it
\* reads is the one this device has prepared, which KeysAreReadable shows to be there.
activateNextKey(index) ==
  IF memory.local + 1 # index \/ settings.next # index
    THEN UNCHANGED <<files, settings, memory, link>>
  ELSE /\ memory' = [memory EXCEPT !.local = index, !.loaded = (@ \cup {index}) \ cleanCiphers(index)]
       /\ settings' = [settings EXCEPT !.local = index, !.next = NoKey]
       /\ files' = Without(cleanCiphers(index))
       /\ UNCHANGED link

NewKeyAck ==
  /\ Ready /\ link \in {"session", "resetting"}
  /\ update = "accepted" \/ (update = "asked" /\ memory.local + 1 = server.index)
  /\ activateNextKey(server.index)
  /\ update' = "none"
  /\ UNCHANGED <<keystore, disk, store, running, server, wish, history, mishaps>>

\* The server's KeyIndexError.
UpdateRefused ==
  /\ Ready /\ link \in {"session", "resetting"} /\ update = "asked"
  /\ memory.local \notin {server.index, server.index - 1}
  /\ link' = "error" /\ update' = "none"
  /\ UNCHANGED <<persistent, settings, memory, running, server, wish, history, mishaps>>

\* Another device of the account changes the key; all others must log in again.
OthersUpdate ==
  /\ Ready /\ server.device # NoDevice /\ server.change = NoKey /\ server.index < MaxIndex
  /\ update \notin {"sent", "accepted"}
  /\ server' = [server EXCEPT !.index = @ + 1, !.change = server.index + 1]
  /\ link' = IF link = "session" THEN "offline" ELSE link
  /\ update' = "none"
  /\ UNCHANGED <<persistent, settings, memory, running, wish, history, mishaps>>

\* onChanged: a change that was encrypted with one of the keys that are kept.
Window == {i \in server.joined..server.index : i + KeptKeys >= server.index}
Receive(i) ==
  /\ Ready /\ link \in {"session", "resetting"} /\ server.change = NoKey /\ i \in Window
  /\ IF Readable(i) THEN memory' = [memory EXCEPT !.loaded = @ \cup {i}] /\ UNCHANGED <<link, update>>
     ELSE link' = "error" /\ update' = "none" /\ UNCHANGED memory
  /\ UNCHANGED <<persistent, settings, running, server, wish, history, mishaps>>

--------------------------------------------------------------------------------
(* Resetting.                                                                *)

\* resetAccount by the user, or for an import, of the device that is known.
Reset(name) ==
  LET of == IF memory.device # NoDevice THEN memory.device ELSE settings.device IN
  /\ IF of = NoDevice THEN link' = "offline" /\ UNCHANGED <<settings, running, history>>
     ELSE /\ settings' = [settings EXCEPT !.device = NoDevice]
          /\ Run(name, of, 0, DeleteSteps)
          /\ history' = [history EXCEPT !.dropped = @ \cup {of}]
          /\ UNCHANGED link
  /\ wish' = IF name = "reset" THEN of ELSE wish
  /\ UNCHANGED <<persistent, memory, server, mishaps>>

UserResets ==
  /\ Ready /\ link \notin {"off", "starting"}
  /\ \E name \in {"reset", "import"} : Reset(name)
  /\ update' = IF running'.name = "none" THEN "none" ELSE update

\* An import given to Setup::create resets before the connector starts.
InitialImport ==
  /\ Ready /\ link = "starting" /\ settings.device # NoDevice
  /\ Reset("initial")
  /\ UNCHANGED update

\* deleteKeyMaterial: the prepared key stays in the settings.
Wipe ==
  /\ Step("wipe")
  /\ files' = << >>
  /\ settings' = [settings EXCEPT !.local = 0, !.provider = FALSE]
  /\ Proceed
  /\ UNCHANGED <<keystore, disk, store, memory, link, server, update, wish, history, mishaps>>

\* Faulty: a device that is not in a session stays connected.
DeletedInPlace ==
  /\ Step("deleted")
  /\ link' = IF link = "session" THEN "resetting" ELSE link
  /\ memory' = Cleared(memory)
  /\ Return
  /\ UNCHANGED <<persistent, settings, server, update, wish, history, mishaps>>

\* A device in a session tells the server, others reconnect.
Deleted ==
  /\ Step("deleted")
  /\ link' = CASE link = "starting" -> link
               [] link \in {"session", "resetting"} -> "resetting"
               [] OTHER -> "offline"
  /\ memory' = [Cleared(memory) EXCEPT !.device = IF link' = "resetting" THEN @ ELSE NoDevice]
  /\ Return
  /\ UNCHANGED <<persistent, settings, server, update, wish, history, mishaps>>

RemoveAck ==
  /\ Ready /\ link = "resetting"
  /\ memory' = [memory EXCEPT !.device = NoDevice]
  /\ link' = "offline" /\ update' = "none"
  /\ UNCHANGED <<persistent, settings, running, server, wish, history, mishaps>>

--------------------------------------------------------------------------------
(* The environment.                                                          *)

\* QSettings: the event loop writes what a handler has set.
Sync ==
  /\ running = NoHandler /\ settings # disk
  /\ disk' = settings
  /\ wish' = IF wish = settings.device THEN wish ELSE NoDevice
  /\ history' = [history EXCEPT !.unsaved = @ \cap {settings.device}, !.dropped = @ \cap {settings.device},
                                !.prepared = {p \in @ : p[1] = settings.device}]
  /\ UNCHANGED <<keystore, settings, files, store, memory, link, running, server, update, mishaps>>

Crash ==
  /\ Up /\ mishaps < MaxMishaps
  /\ Killed
  /\ mishaps' = mishaps + 1
  /\ UNCHANGED <<persistent, server, wish, history>>

LoseConnection ==
  /\ Ready /\ link \in {"connecting", "registering", "session", "resetting"}
  /\ link' = "offline" /\ update' = "none"
  /\ UNCHANGED <<persistent, settings, memory, running, server, wish, history, mishaps>>

\* The user reconnects after an error.
Retry ==
  /\ Ready /\ link = "error"
  /\ link' = "offline"
  /\ UNCHANGED <<persistent, settings, memory, running, server, update, wish, history, mishaps>>

HandlerStep ==
  OpenStore \/ OpenNoStore \/ StoreFails \/ SaveKey \/ LoadKey \/ RemoveKey \/ LoadLocal
  \/ Truncate \/ Write \/ Stored \/ KeyImported \/ KeyPrepared \/ Wipe \/ Deleted

Connect == Reconnect \/ ConnectUnregistered \/ LoadIdentity \/ NoKeyStore

Next ==
  \/ HandlerStep \/ Sync \/ Start \/ Connect
  \/ IdentifyNew \/ Identify \/ Account \/ Welcome
  \/ AskForUpdate \/ DeviceKeys \/ Accept \/ NewKeyAck \/ UpdateRefused \/ OthersUpdate
  \/ \E i \in Indices : Receive(i)
  \/ UserResets \/ InitialImport \/ RemoveAck
  \/ Crash \/ LoseConnection \/ Retry

(***************************************************************************)
(* The event loop runs, the application is started again, and users repeat *)
(* a reset until it has worked.                                            *)
(***************************************************************************)
Insist ==
  /\ Ready /\ wish # NoDevice /\ wish = settings.device /\ link \notin {"off", "starting"}
  /\ Reset("reset") /\ UNCHANGED update

Fairness ==
  /\ WF_vars(HandlerStep) /\ WF_vars(Sync) /\ WF_vars(Start) /\ WF_vars(Connect)
  /\ SF_vars(Insist)

Spec == Init /\ [][Next]_vars /\ Fairness
--------------------------------------------------------------------------------
(* Properties.                                                               *)

Saved(d) == Parts \X {d} \subseteq store
KeyFile(d, i) == i \in DOMAIN files /\ files[i] = d

\* A device that is stored can be loaded: wherever registering, a change of the
\* exchange key or the removal of old keys is cut off, the settings name a key
\* store that has both private keys and a key file that they decrypt (onAccount,
\* storePrivateKeys, decryptSecretKey, activateNextKey).  Exceptions are devices
\* that the user has begun to reset, and those whose keys the key store did not
\* take: onAccount has stored the id by then (remoteconnector.cpp:1001).
IdentityLoads ==
  running = NoHandler =>
    \A d \in Devices \ (history.dropped \cup history.unsaved) :
      disk.device = d => disk.provider /\ Saved(d) /\ KeyFile(d, disk.local)

\* Login messages, key updates and resets never use private keys that are not in
\* memory.  Exceptions: loadIdentity takes a device whose keys it could not load
\* for loaded when it is called again (remoteconnector.cpp:777), and a key update
\* may be answered after the device has deleted its keys.
SignsWithKeys ==
  memory.device # NoDevice /\ link \in {"connecting", "session"} /\ running = NoHandler =>
    memory.asym = memory.device \/ history.unloaded

\* The exchange keys a session needs are readable: those the account has used
\* recently, since the device has joined, and the one it has prepared.  Only a key
\* prepared for an account that was reset since is not (cryptocontroller.cpp:537).
KeysAreReadable ==
  Ready /\ link = "session" /\ memory.asym # NoDevice /\ server.device = memory.device
    /\ server.change = NoKey /\ settings.device = memory.device
    /\ memory.device \notin history.dropped =>
    /\ \A i \in Window : Readable(i)
    /\ settings.next = memory.local + 1 => 
         Readable(settings.next) \/ <<memory.device, settings.next>> \notin history.prepared

\* A key store that has lost one of the keys, and refuses to remove what it has not.
Undeletable(d) ==
  disk.device = d /\ disk.provider /\ Contract[keystore].strict /\ ~Saved(d)

\* A device can be got rid of: a reset that fails or is cut off leaves a state in
\* which the next one works (resetAccount, deleteKeyMaterial), unless a key store
\* was left with one key less.
ResetEnds ==
  \A d \in Devices : wish = d ~> disk.device # d \/ Undeletable(d)
================================================================================
