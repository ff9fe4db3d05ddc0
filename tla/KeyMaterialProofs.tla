--------------------------- MODULE KeyMaterialProofs ---------------------------
(***************************************************************************)
(* Theorems about what a device keeps of its identity, for every set of    *)
(* key stores and any number of registrations, keys, failures and crashes: *)
(* a stored device can be loaded, a connected one signs with its own keys, *)
(* and the exchange keys it needs are readable.                            *)
(***************************************************************************)
EXTENDS KeyMaterial, TLAPS

--------------------------------------------------------------------------------
(* Types: the handlers and the steps they may have left.                     *)

StoreTodo ==
  {<<"open", "sign", "crypt", "truncate", "write", "stored">>,
   <<"sign", "crypt", "truncate", "write", "stored">>,
   <<"crypt", "truncate", "write", "stored">>,
   <<"truncate", "write", "stored">>,
   <<"write", "stored">>, <<"stored">>}
LoadTodo ==
  {<<"open", "sign", "crypt", "loadLocal">>, <<"sign", "crypt", "loadLocal">>,
   <<"crypt", "loadLocal">>, <<"loadLocal">>}
KeyTodo == {<<"truncate", "write", "added">>, <<"write", "added">>, <<"added">>}
DeleteTodo ==
  {<<"wipe", "open", "sign", "crypt", "deleted">>, <<"open", "sign", "crypt", "deleted">>,
   <<"sign", "crypt", "deleted">>, <<"crypt", "deleted">>, <<"deleted">>}

Handlers == {"none", "connect", "account", "importKey", "prepareKey"} \cup Resets
Todo(name) ==
  CASE name = "connect" -> LoadTodo
    [] name = "account" -> StoreTodo
    [] name \in {"importKey", "prepareKey"} -> KeyTodo
    [] name \in Resets -> DeleteTodo
    [] OTHER -> {<< >>}

IsHandler(r) ==
  /\ r = [name |-> r.name, of |-> r.of, index |-> r.index, todo |-> r.todo]
  /\ r.name \in Handlers /\ r.of \in 0..MaxDevices /\ r.index \in 0..MaxIndex + 1
  /\ r.todo \in Todo(r.name)
  /\ r.name = "none" => r = NoHandler

History ==
  [last : 0..MaxDevices, unsaved : SUBSET Devices, dropped : SUBSET Devices,
   prepared : SUBSET (Devices \X (0..MaxIndex + 1)), unloaded : BOOLEAN]

Types == TypeOK /\ IsHandler(running) /\ history \in History

--------------------------------------------------------------------------------
(* Who the device is.                                                        *)

\* Everything that names a device names the one the server knows.
Known(s) == s.device # NoDevice => s.device = server.device

Registrations ==
  /\ server.device <= history.last
  /\ \A d \in history.unsaved \cup history.dropped : d <= history.last
  /\ \A p \in history.prepared : p[1] <= history.last
  /\ server.joined <= server.index
  /\ server.change \in {NoKey, server.index}

Identity ==
  /\ Known(settings) /\ Known(disk) /\ Known(memory)
  /\ memory.device # NoDevice => memory.asym \in {NoDevice, memory.device}

\* The settings name a key store only for a device whose keys it has taken.
Provided ==
  /\ disk.device = NoDevice => ~disk.provider
  /\ settings.device = NoDevice =>
       ~settings.provider \/ (running.name \in Resets /\ Head(running.todo) = "wipe")
  /\ settings.device \in history.unsaved => ~settings.provider
  /\ disk.device \in history.unsaved => ~disk.provider

\* What the state of the connection says about the device.
Connected ==
  /\ link = "off" => running.name = "none"
  /\ link = "connecting" /\ memory.device = NoDevice =>
       running.name = "none" /\ settings.device = NoDevice /\ memory.loaded = {}
  /\ link = "registering" =>
       \/ running.name = "account"
       \/ /\ running.name = "none" /\ settings.device = NoDevice
          /\ memory.device = NoDevice /\ memory.loaded = {0}
          /\ history.last < MaxDevices /\ memory.asym = history.last + 1
  /\ link = "session" => memory.device # NoDevice /\ memory.asym = memory.device
  /\ link = "resetting" =>
       memory.device # NoDevice /\ memory.asym = NoDevice /\ settings.device = NoDevice

\* An update of the key that the server has not answered is of the current key.
Updating ==
  /\ update # "none" => link \in {"session", "resetting"} /\ server.change = NoKey
  /\ update = "sent" /\ settings.device = memory.device =>
       memory.local = server.index /\ Readable(server.index + 1)

\* Private keys are missing only while they are loaded, when they could not be, or
\* when the device was deleted.
Signing ==
  memory.device # NoDevice /\ memory.asym # memory.device =>
    \/ history.unloaded
    \/ running.name = "connect"
    \/ link \notin {"connecting", "session"} /\ settings.device # memory.device

--------------------------------------------------------------------------------
(* What is stored.                                                           *)

\* The device uses the account's key or the one before, which the next change
\* that the server has for it follows.
Near(local) ==
  /\ server.joined <= local /\ local <= server.index
  /\ IF server.change = NoKey THEN local + 1 >= server.index ELSE local < server.index

\* The keys whose changes the device may get.
Needed ==
  {i \in server.joined..server.index :
     i + KeptKeys >= server.index /\ (server.change # NoKey => i < server.index)}

Kept(s) ==
  s.device \in Devices \ (history.dropped \cup history.unsaved) =>
    /\ s.provider /\ Saved(s.device) /\ KeyFile(s.device, s.local)
    /\ Near(s.local)
    /\ \A i \in Needed : KeyFile(s.device, i)

\* A prepared key that the server does not know yet is still there.
Prepared(s) ==
  s.device \in Devices \ history.dropped /\ <<s.device, s.next>> \in history.prepared
    /\ s.next > server.index => KeyFile(s.device, s.next)

Writing(i) == running.name \in {"account", "importKey", "prepareKey"} /\ i = running.index

\* A device that has its private keys has in memory what is in its files.
Loaded ==
  memory.device # NoDevice /\ memory.asym = memory.device /\ settings.device = memory.device
    /\ memory.device \notin history.dropped =>
    /\ Near(memory.local)
    /\ memory.device \in history.unsaved => \A i \in Needed : Readable(i)
    /\ memory.device \notin history.unsaved =>
         /\ running.name # "account" => settings.local = memory.local
         /\ \A i \in memory.loaded :
              i >= server.joined /\ ~Writing(i) => KeyFile(memory.device, i)

InStore ==
  /\ running.name = "none" => Kept(settings)
  /\ Kept(disk) /\ Prepared(settings) /\ Prepared(disk)

--------------------------------------------------------------------------------
(* The handlers.                                                             *)

At(steps) == Head(running.todo) \in steps

Connecting ==
  running.name = "connect" =>
    /\ settings = disk /\ link \in {"starting", "offline"}
    /\ settings.device # NoDevice /\ settings.provider
    /\ running.of = settings.device /\ memory.device = settings.device
    /\ memory.asym = NoDevice /\ memory.loaded = {}

Registering ==
  running.name = "account" =>
    /\ link = "registering" /\ disk.device = NoDevice /\ ~settings.provider
    /\ running.of # NoDevice /\ running.of = history.last
    /\ running.of = settings.device /\ running.of = memory.device /\ running.of = memory.asym
    /\ running.of = server.device /\ running.of \notin history.dropped \cup history.unsaved
    /\ running.index = memory.local /\ running.index = server.index
    /\ running.index = server.joined /\ server.change = NoKey
    /\ memory.loaded = {0, running.index}
    /\ ~At({"open", "sign"}) => <<"sign", running.of>> \in store
    /\ ~At({"open", "sign", "crypt"}) => <<"crypt", running.of>> \in store
    /\ At({"stored"}) => KeyFile(running.of, running.index)

ChangingKeys ==
  running.name \in {"importKey", "prepareKey"} =>
    /\ link = "session" /\ settings = disk
    /\ running.index = memory.local + 1 /\ running.index \in memory.loaded
    /\ running.name = "importKey" => running.index = server.change /\ server.change # NoKey
    /\ running.name = "prepareKey" =>
         /\ update = "asked" /\ running.index = server.index + 1
         /\ settings.next # running.index
    /\ At({"added"}) => KeyFile(memory.asym, running.index)

Deleting ==
  running.name \in Resets =>
    /\ settings.device = NoDevice
    /\ running.of # NoDevice /\ running.of \in history.dropped
    /\ memory.device \in {NoDevice, running.of}
    /\ disk.device \in {NoDevice, running.of}

Handling == Connecting /\ Registering /\ ChangingKeys /\ Deleting

KeyInv ==
  /\ Types /\ Registrations /\ Identity /\ Provided /\ Connected /\ Updating /\ Signing
  /\ Loaded /\ InStore /\ Handling

--------------------------------------------------------------------------------
(* The steps of handlers.                                                    *)

LEMMA StoreTodoSteps ==
  ASSUME NEW t \in StoreTodo
  PROVE  /\ t # << >> /\ Head(t) \in {"open", "sign", "crypt", "truncate", "write", "stored"}
         /\ Head(t) = "open" => Tail(t) \in StoreTodo /\ Head(Tail(t)) = "sign"
         /\ Head(t) = "sign" => Tail(t) \in StoreTodo /\ Head(Tail(t)) = "crypt"
         /\ Head(t) = "crypt" => Tail(t) \in StoreTodo /\ Head(Tail(t)) = "truncate"
         /\ Head(t) = "truncate" => Tail(t) \in StoreTodo /\ Head(Tail(t)) = "write"
         /\ Head(t) = "write" => Tail(t) \in StoreTodo /\ Head(Tail(t)) = "stored"
<1>1. /\ Head(<<"open", "sign", "crypt", "truncate", "write", "stored">>) = "open"
      /\ Tail(<<"open", "sign", "crypt", "truncate", "write", "stored">>) = <<"sign", "crypt", "truncate", "write", "stored">>
  OBVIOUS
<1>2. /\ Head(<<"sign", "crypt", "truncate", "write", "stored">>) = "sign"
      /\ Tail(<<"sign", "crypt", "truncate", "write", "stored">>) = <<"crypt", "truncate", "write", "stored">>
  OBVIOUS
<1>3. /\ Head(<<"crypt", "truncate", "write", "stored">>) = "crypt"
      /\ Tail(<<"crypt", "truncate", "write", "stored">>) = <<"truncate", "write", "stored">>
  OBVIOUS
<1>4. /\ Head(<<"truncate", "write", "stored">>) = "truncate"
      /\ Tail(<<"truncate", "write", "stored">>) = <<"write", "stored">>
  OBVIOUS
<1>5. /\ Head(<<"write", "stored">>) = "write"
      /\ Tail(<<"write", "stored">>) = <<"stored">>
  OBVIOUS
<1>6. Head(<<"stored">>) = "stored" /\ <<"stored">> # << >>
  OBVIOUS
<1>7. \A u \in StoreTodo : u # << >>
  BY DEF StoreTodo
<1> QED
  BY <1>1, <1>2, <1>3, <1>4, <1>5, <1>6, <1>7 DEF StoreTodo

LEMMA LoadTodoSteps ==
  ASSUME NEW t \in LoadTodo
  PROVE  /\ t # << >> /\ Head(t) \in {"open", "sign", "crypt", "loadLocal"}
         /\ Head(t) # "loadLocal" => Tail(t) \in LoadTodo
<1>1. /\ Head(<<"open", "sign", "crypt", "loadLocal">>) = "open"
      /\ Tail(<<"open", "sign", "crypt", "loadLocal">>) = <<"sign", "crypt", "loadLocal">>
  OBVIOUS
<1>2. /\ Head(<<"sign", "crypt", "loadLocal">>) = "sign"
      /\ Tail(<<"sign", "crypt", "loadLocal">>) = <<"crypt", "loadLocal">>
  OBVIOUS
<1>3. /\ Head(<<"crypt", "loadLocal">>) = "crypt"
      /\ Tail(<<"crypt", "loadLocal">>) = <<"loadLocal">>
  OBVIOUS
<1>4. Head(<<"loadLocal">>) = "loadLocal" /\ <<"loadLocal">> # << >>
  OBVIOUS
<1>5. \A u \in LoadTodo : u # << >>
  BY DEF LoadTodo
<1> QED
  BY <1>1, <1>2, <1>3, <1>4, <1>5 DEF LoadTodo

LEMMA KeyTodoSteps ==
  ASSUME NEW t \in KeyTodo
  PROVE  /\ t # << >> /\ Head(t) \in {"truncate", "write", "added"}
         /\ Head(t) = "truncate" => Tail(t) \in KeyTodo /\ Head(Tail(t)) = "write"
         /\ Head(t) = "write" => Tail(t) \in KeyTodo /\ Head(Tail(t)) = "added"
<1>1. /\ Head(<<"truncate", "write", "added">>) = "truncate"
      /\ Tail(<<"truncate", "write", "added">>) = <<"write", "added">>
  OBVIOUS
<1>2. /\ Head(<<"write", "added">>) = "write"
      /\ Tail(<<"write", "added">>) = <<"added">>
  OBVIOUS
<1>3. Head(<<"added">>) = "added" /\ <<"added">> # << >>
  OBVIOUS
<1>4. \A u \in KeyTodo : u # << >>
  BY DEF KeyTodo
<1> QED
  BY <1>1, <1>2, <1>3, <1>4 DEF KeyTodo

LEMMA DeleteTodoSteps ==
  ASSUME NEW t \in DeleteTodo
  PROVE  /\ t # << >> /\ Head(t) \in {"wipe", "open", "sign", "crypt", "deleted"}
         /\ Head(t) # "deleted" => Tail(t) \in DeleteTodo /\ Head(Tail(t)) # "wipe"
<1>1. /\ Head(<<"wipe", "open", "sign", "crypt", "deleted">>) = "wipe"
      /\ Tail(<<"wipe", "open", "sign", "crypt", "deleted">>) = <<"open", "sign", "crypt", "deleted">>
  OBVIOUS
<1>2. /\ Head(<<"open", "sign", "crypt", "deleted">>) = "open"
      /\ Tail(<<"open", "sign", "crypt", "deleted">>) = <<"sign", "crypt", "deleted">>
  OBVIOUS
<1>3. /\ Head(<<"sign", "crypt", "deleted">>) = "sign"
      /\ Tail(<<"sign", "crypt", "deleted">>) = <<"crypt", "deleted">>
  OBVIOUS
<1>4. /\ Head(<<"crypt", "deleted">>) = "crypt"
      /\ Tail(<<"crypt", "deleted">>) = <<"deleted">>
  OBVIOUS
<1>5. Head(<<"deleted">>) = "deleted" /\ <<"deleted">> # << >>
  OBVIOUS
<1>6. \A u \in DeleteTodo : u # << >>
  BY DEF DeleteTodo
<1> QED
  BY <1>1, <1>2, <1>3, <1>4, <1>5, <1>6 DEF DeleteTodo

LEMMA Ranges ==
  /\ MaxIndex \in Nat /\ MaxDevices \in Nat /\ KeptKeys \in Nat /\ KeptKeys >= 1
  /\ \A i \in Indices : i \in 0..MaxIndex + 1 /\ i + 1 \in 0..MaxIndex + 1 /\ i \in Nat
  /\ \A i \in Indices : i < MaxIndex => i + 1 \in Indices
  /\ 0 \in Indices
  BY KeyMaterialAssumption DEF Indices

LEMMA ReceiveKeeps ==
  ASSUME KeyInv, NEW i \in Indices, Receive(i)
  PROVE  KeyInv'
<1>1. Types'
  <2>1. memory' \in Memory /\ link' \in Links /\ update' \in {"none", "asked", "sent", "accepted"}
    BY Ranges DEF KeyInv, Receive, Types, TypeOK, Memory, Links
  <2> QED
    BY <2>1 DEF KeyInv, Receive, Types, TypeOK, persistent, IsHandler
<1>2. Registrations' /\ Identity' /\ Provided' /\ Signing'
  BY DEF KeyInv, Receive, persistent, Registrations, Identity, Provided, Signing, Types, TypeOK, Memory, Known
<1>3. Connected' /\ Updating'
  BY DEF KeyInv, Receive, persistent, Connected, Updating, Types, TypeOK, Memory, Ready, NoHandler, Readable
<1>4. Loaded'
  BY DEF KeyInv, Receive, persistent, Loaded, Types, TypeOK, Memory, Ready, NoHandler, Readable, Near, Needed, KeyFile, Writing, Identity
<1>5. InStore'
  BY DEF KeyInv, Receive, persistent, InStore, Kept, Prepared, Near, Needed, KeyFile, Saved
<1>6. Handling'
  BY DEF KeyInv, Receive, persistent, Handling, Connecting, Registering, ChangingKeys, Deleting, Ready, NoHandler, Resets
<1> QED
  BY <1>1, <1>2, <1>3, <1>4, <1>5, <1>6 DEF KeyInv

LEMMA Idle == IsHandler(NoHandler) /\ NoHandler.name = "none" /\ NoHandler.todo = << >>
<1>1. Todo("none") = {<< >>}
  BY DEF Todo, Resets
<1>2. "none" \in Handlers /\ 0 \in 0..MaxDevices /\ 0 \in 0..MaxIndex + 1
  BY Ranges DEF Handlers
<1> QED
  BY <1>1, <1>2 DEF IsHandler, NoHandler, NoDevice

\* What clearing, closing and taking another device leave in memory.
LEMMA MemoryForms ==
  ASSUME NEW m \in Memory
  PROVE  /\ Closed(m) \in Memory /\ Cleared(m) \in Memory
         /\ Closed(m).device = m.device /\ Closed(m).asym = m.asym
         /\ Closed(m).local = m.local /\ Closed(m).loaded = m.loaded
         /\ Cleared(m).device = m.device /\ Cleared(m).asym = NoDevice
         /\ Cleared(m).local = 0 /\ Cleared(m).loaded = {}
<1> DEFINE s == IF m.store = "open" THEN "closed" ELSE m.store
<1>1. s \in {"none", "closed", "open"}
  BY DEF Memory
<1>2. Closed(m) = [m EXCEPT !.store = s]
  BY DEF Closed, Memory
<1>3. Cleared(m) = [m EXCEPT !.asym = NoDevice, !.local = 0, !.loaded = {}, !.store = s]
  BY DEF Cleared, Memory
<1> HIDE DEF s
<1>4. Closed(m) \in Memory
  BY <1>1, <1>2 DEF Memory
<1>5. Cleared(m) \in Memory
  <2>1. NoDevice \in 0..MaxDevices /\ 0 \in Indices /\ {} \in SUBSET (0..MaxIndex + 1)
    BY Ranges DEF NoDevice
  <2> QED
    BY <1>1, <1>3, <2>1 DEF Memory
<1> QED
  BY <1>2, <1>3, <1>4, <1>5 DEF Memory

LEMMA FreshForm ==
  ASSUME memory \in Memory, settings \in Settings, NEW k \in {"none", "closed", "open"}
  PROVE  /\ Fresh(k) \in Memory
         /\ Fresh(k).device = settings.device /\ Fresh(k).asym = NoDevice
         /\ Fresh(k).local = 0 /\ Fresh(k).loaded = {}
<1> DEFINE c == Cleared(memory)
<1>1. Fresh(k) = [c EXCEPT !.device = settings.device, !.store = k]
  BY DEF Fresh
<1>2. c \in Memory /\ c.asym = NoDevice /\ c.local = 0 /\ c.loaded = {}
  BY MemoryForms
<1> HIDE DEF c
<1> QED
  BY <1>1, <1>2 DEF Memory, Settings

\* A key the server accepts becomes one of those that are needed.
LEMMA NewIndex ==
  ASSUME Types, Registrations, server.change = NoKey,
         server'.joined = server.joined, server'.index = server.index + 1,
         server'.change \in {NoKey, server.index + 1}
  PROVE  /\ \A i \in Needed' : i \in Needed \/ (i = server.index + 1 /\ server'.change = NoKey)
         /\ \A l \in Nat : Near(l) /\ server'.change # NoKey => Near(l)'
         /\ \A l \in Nat : l = server.index => Near(l)'
<1>1. server.index \in Nat /\ server.joined \in Nat /\ server.joined <= server.index
  BY Ranges DEF Types, TypeOK, Registrations
<1>2. \A i \in Needed' : i \in Needed \/ (i = server.index + 1 /\ server'.change = NoKey)
  <2>1. ASSUME NEW i, i \in Needed'
        PROVE  i \in Needed \/ (i = server.index + 1 /\ server'.change = NoKey)
    <3> SUFFICES ASSUME ~(i = server.index + 1 /\ server'.change = NoKey)
                 PROVE  i \in Needed
      OBVIOUS
    <3>1. /\ i \in server.joined..server.index + 1 /\ i + KeptKeys >= server.index + 1
          /\ i # server.index + 1
      BY <1>1, <2>1 DEF Needed, NoKey
    <3> QED
      BY <1>1, <3>1, Ranges DEF Needed, NoKey
  <2> QED
    BY <2>1
<1>3. \A l \in Nat : Near(l) /\ server'.change # NoKey => Near(l)'
  BY <1>1 DEF Near, NoKey
<1>4. \A l \in Nat : l = server.index => Near(l)'
  BY <1>1 DEF Near, NoKey
<1> QED
  BY <1>2, <1>3, <1>4

LEMMA StartKeeps ==
  ASSUME KeyInv, Start
  PROVE  KeyInv'
<1>1. Types'
  BY Ranges, Idle DEF KeyInv, Start, Ready, persistent, Types, TypeOK, Memory, Settings, Links, History, IsHandler
<1>2. Registrations' /\ Identity'
  BY DEF KeyInv, Start, Ready, persistent, Registrations, Identity, Known, Types, TypeOK, Memory, Settings, Links, History
<1>3. Provided' /\ Signing'
  BY DEF KeyInv, Start, Ready, persistent, Provided, Signing, Resets, Types, TypeOK, Memory, Settings, Links, History
<1>4. Connected'
  BY DEF KeyInv, Start, Ready, persistent, Connected, Types, TypeOK, Memory, Settings, Links, History
<1>5. Updating'
  BY DEF KeyInv, Start, Ready, persistent, Updating, Connected, Readable, Types, TypeOK, Memory, Settings, Links, History
<1>6. Loaded'
  BY DEF KeyInv, Start, Ready, persistent, Loaded, Identity, Known, Readable, Near, Needed, KeyFile, Writing, Types, TypeOK, Memory, Settings, Links, History
<1>7. InStore'
  BY DEF KeyInv, Start, Ready, persistent, InStore, Kept, Prepared, Near, Needed, KeyFile, Saved, Types, TypeOK, Memory, Settings, Links, History
<1>8. Handling'
  BY DEF KeyInv, Start, Ready, persistent, Handling, Connecting, Registering, ChangingKeys, Deleting, Resets, Types, TypeOK, Memory, Settings, Links, History
<1> QED
  BY <1>1, <1>2, <1>3, <1>4, <1>5, <1>6, <1>7, <1>8 DEF KeyInv

LEMMA ReconnectKeeps ==
  ASSUME KeyInv, Reconnect
  PROVE  KeyInv'
<1>1. Types'
  BY Ranges, Idle DEF KeyInv, Reconnect, Ready, NoHandler, persistent, Types, TypeOK, Memory, Settings, Links, History, IsHandler
<1>2. Registrations' /\ Identity'
  BY DEF KeyInv, Reconnect, Ready, NoHandler, persistent, Registrations, Identity, Known, Types, TypeOK, Memory, Settings, Links, History
<1>3. Provided' /\ Signing'
  BY DEF KeyInv, Reconnect, Ready, NoHandler, persistent, Provided, Signing, Resets, Types, TypeOK, Memory, Settings, Links, History
<1>4. Connected'
  BY DEF KeyInv, Reconnect, Ready, NoHandler, persistent, Connected, Types, TypeOK, Memory, Settings, Links, History
<1>5. Updating'
  BY DEF KeyInv, Reconnect, Ready, NoHandler, persistent, Updating, Connected, Readable, Types, TypeOK, Memory, Settings, Links, History
<1>6. Loaded'
  BY DEF KeyInv, Reconnect, Ready, NoHandler, persistent, Loaded, Identity, Known, Readable, Near, Needed, KeyFile, Writing, Types, TypeOK, Memory, Settings, Links, History
<1>7. InStore'
  BY DEF KeyInv, Reconnect, Ready, NoHandler, persistent, InStore, Kept, Prepared, Near, Needed, KeyFile, Saved, Types, TypeOK, Memory, Settings, Links, History
<1>8. Handling'
  BY DEF KeyInv, Reconnect, Ready, NoHandler, persistent, Handling, Connecting, Registering, ChangingKeys, Deleting, Resets, Types, TypeOK, Memory, Settings, Links, History
<1> QED
  BY <1>1, <1>2, <1>3, <1>4, <1>5, <1>6, <1>7, <1>8 DEF KeyInv

LEMMA ConnectUnregisteredKeeps ==
  ASSUME KeyInv, ConnectUnregistered
  PROVE  KeyInv'
<1> USE DEF NoDevice, NoKey
<1>a. /\ memory' \in Memory /\ memory'.device = NoDevice /\ memory'.asym = NoDevice
      /\ memory'.loaded = {} /\ settings.device = NoDevice
  BY FreshForm DEF KeyInv, Types, TypeOK, ConnectUnregistered
<1>b. /\ server' \in [device : 0..MaxDevices, joined : Indices, index : Indices, change : Indices]
      /\ server'.device = NoDevice /\ server'.index = 0 /\ server'.joined = 0
      /\ server'.change = NoKey
  BY Ranges DEF ConnectUnregistered, NoAccount
<1>c. history' \in History
  BY DEF KeyInv, ConnectUnregistered, Types, History
<1>1. Types'
  BY <1>a, <1>b, <1>c DEF KeyInv, ConnectUnregistered, NewIdentity, Ready, NoHandler, persistent, Types, TypeOK, Memory, Settings, Links, History, IsHandler
<1>2. Registrations' /\ Identity'
  BY <1>a, <1>b, <1>c DEF KeyInv, ConnectUnregistered, NewIdentity, Ready, NoHandler, persistent, Registrations, Identity, Known, Types, TypeOK, Memory, Settings, Links, History
<1>3. Provided' /\ Signing'
  BY <1>a, <1>b, <1>c DEF KeyInv, ConnectUnregistered, NewIdentity, Ready, NoHandler, persistent, Provided, Signing, Resets, Types, TypeOK, Memory, Settings, Links, History
<1>4. Connected'
  BY <1>a, <1>b, <1>c DEF KeyInv, ConnectUnregistered, NewIdentity, Ready, NoHandler, persistent, Connected, Types, TypeOK, Memory, Settings, Links, History
<1>5. Updating'
  BY <1>a, <1>b, <1>c DEF KeyInv, ConnectUnregistered, NewIdentity, Ready, NoHandler, persistent, Updating, Connected, Readable, Types, TypeOK, Memory, Settings, Links, History
<1>6. Loaded'
  BY <1>a, <1>b, <1>c DEF KeyInv, ConnectUnregistered, NewIdentity, Ready, NoHandler, persistent, Loaded, Identity, Known, Readable, Near, Needed, KeyFile, Writing, Types, TypeOK, Memory, Settings, Links, History
<1>7. InStore'
  BY <1>a, <1>b, <1>c DEF KeyInv, ConnectUnregistered, NewIdentity, Ready, NoHandler, persistent, InStore, Kept, Prepared, Near, Needed, KeyFile, Saved, Devices, Types, TypeOK, Memory, Settings, Links, History
<1>8. Handling'
  BY <1>a, <1>b, <1>c DEF KeyInv, ConnectUnregistered, NewIdentity, Ready, NoHandler, persistent, Handling, Connecting, Registering, ChangingKeys, Deleting, Resets, Types, TypeOK, Memory, Settings, Links, History
<1> QED
  BY <1>1, <1>2, <1>3, <1>4, <1>5, <1>6, <1>7, <1>8 DEF KeyInv

LEMMA IdentifyNewKeeps ==
  ASSUME KeyInv, IdentifyNew
  PROVE  KeyInv'
<1>a. memory' \in Memory
  <2>1. memory.loaded \cup {0} \in SUBSET (0..MaxIndex + 1) /\ history.last + 1 \in 0..MaxDevices
    BY Ranges DEF KeyInv, IdentifyNew, Types, TypeOK, Memory, History
  <2> QED
    BY <2>1, Ranges DEF KeyInv, IdentifyNew, Types, TypeOK, Memory
<1>1. Types'
  BY <1>a DEF KeyInv, IdentifyNew, Ready, NoHandler, persistent, Types, TypeOK, Memory, Settings, Links, History, IsHandler
<1>2. Registrations' /\ Identity'
  BY DEF KeyInv, IdentifyNew, Ready, NoHandler, persistent, Registrations, Identity, Known, Types, TypeOK, Memory, Settings, Links, History
<1>3. Provided' /\ Signing'
  BY DEF KeyInv, IdentifyNew, Ready, NoHandler, persistent, Provided, Signing, Resets, Types, TypeOK, Memory, Settings, Links, History
<1>4. Connected'
  BY DEF KeyInv, IdentifyNew, Ready, NoHandler, persistent, Connected, Types, TypeOK, Memory, Settings, Links, History
<1>5. Updating'
  BY DEF KeyInv, IdentifyNew, Ready, NoHandler, persistent, Updating, Connected, Readable, Types, TypeOK, Memory, Settings, Links, History
<1>6. Loaded'
  BY DEF KeyInv, IdentifyNew, Ready, NoHandler, persistent, Loaded, Identity, Known, Readable, Near, Needed, KeyFile, Writing, Types, TypeOK, Memory, Settings, Links, History
<1>7. InStore'
  BY DEF KeyInv, IdentifyNew, Ready, NoHandler, persistent, InStore, Kept, Prepared, Near, Needed, KeyFile, Saved, Types, TypeOK, Memory, Settings, Links, History
<1>8. Handling'
  BY DEF KeyInv, IdentifyNew, Ready, NoHandler, persistent, Handling, Connecting, Registering, ChangingKeys, Deleting, Resets, Types, TypeOK, Memory, Settings, Links, History
<1> QED
  BY <1>1, <1>2, <1>3, <1>4, <1>5, <1>6, <1>7, <1>8 DEF KeyInv

LEMMA AskForUpdateKeeps ==
  ASSUME KeyInv, AskForUpdate
  PROVE  KeyInv'
<1>1. Types'
  BY Ranges, Idle DEF KeyInv, AskForUpdate, Ready, NoHandler, persistent, Types, TypeOK, Memory, Settings, Links, History, IsHandler
<1>2. Registrations' /\ Identity'
  BY DEF KeyInv, AskForUpdate, Ready, NoHandler, persistent, Registrations, Identity, Known, Types, TypeOK, Memory, Settings, Links, History
<1>3. Provided' /\ Signing'
  BY DEF KeyInv, AskForUpdate, Ready, NoHandler, persistent, Provided, Signing, Resets, Types, TypeOK, Memory, Settings, Links, History
<1>4. Connected'
  BY DEF KeyInv, AskForUpdate, Ready, NoHandler, persistent, Connected, Types, TypeOK, Memory, Settings, Links, History
<1>5. Updating'
  BY DEF KeyInv, AskForUpdate, Ready, NoHandler, persistent, Updating, Connected, Readable, Types, TypeOK, Memory, Settings, Links, History
<1>6. Loaded'
  BY DEF KeyInv, AskForUpdate, Ready, NoHandler, persistent, Loaded, Identity, Known, Readable, Near, Needed, KeyFile, Writing, Types, TypeOK, Memory, Settings, Links, History
<1>7. InStore'
  BY DEF KeyInv, AskForUpdate, Ready, NoHandler, persistent, InStore, Kept, Prepared, Near, Needed, KeyFile, Saved, Types, TypeOK, Memory, Settings, Links, History
<1>8. Handling'
  BY DEF KeyInv, AskForUpdate, Ready, NoHandler, persistent, Handling, Connecting, Registering, ChangingKeys, Deleting, Resets, Types, TypeOK, Memory, Settings, Links, History
<1> QED
  BY <1>1, <1>2, <1>3, <1>4, <1>5, <1>6, <1>7, <1>8 DEF KeyInv

LEMMA AcceptKeeps ==
  ASSUME KeyInv, Accept
  PROVE  KeyInv'
<1>a. /\ server'.joined = server.joined /\ server'.index = server.index + 1
      /\ server'.change \in {NoKey, server.index + 1} /\ server.change = NoKey
      /\ server'.device = server.device /\ server.index \in Nat /\ server.joined \in Nat
      /\ server.joined <= server.index
      /\ server'.change = NoKey
  BY Ranges DEF KeyInv, Accept, Types, TypeOK, Updating, Registrations, NoKey
<1>b. /\ \A i \in Needed' : i \in Needed \/ (i = server.index + 1 /\ server'.change = NoKey)
      /\ \A l \in Nat : Near(l) /\ server'.change # NoKey => Near(l)'
      /\ \A l \in Nat : l = server.index => Near(l)'
  BY <1>a, NewIndex DEF KeyInv
<1>1. Types'
  BY Ranges, Idle DEF KeyInv, Accept, Ready, NoHandler, persistent, Types, TypeOK, Memory, Settings, Links, History, IsHandler
<1>2. Registrations' /\ Identity'
  BY <1>a DEF KeyInv, Accept, Ready, NoHandler, persistent, Registrations, Identity, Known, Types, TypeOK, Memory, Settings, Links, History
<1>3. Provided' /\ Signing'
  BY DEF KeyInv, Accept, Ready, NoHandler, persistent, Provided, Signing, Resets, Types, TypeOK, Memory, Settings, Links, History
<1>4. Connected'
  BY DEF KeyInv, Accept, Ready, NoHandler, persistent, Connected, Types, TypeOK, Memory, Settings, Links, History
<1>5. Updating'
  BY DEF KeyInv, Accept, Ready, NoHandler, persistent, Updating, Connected, Readable, Types, TypeOK, Memory, Settings, Links, History
<1>c. ASSUME settings.device # NoDevice, settings.device \notin history.dropped
      PROVE  /\ memory.device = settings.device /\ memory.asym = memory.device
             /\ memory.local = server.index
             /\ Near(memory.local)' /\ Readable(server.index + 1)
             /\ settings.device \notin history.unsaved =>
                  /\ settings.local = server.index
                  /\ KeyFile(settings.device, server.index + 1)
  <2>1. settings.device = memory.device /\ memory.asym = memory.device
    BY <1>c DEF KeyInv, Accept, Identity, Known, Connected, Updating
  <2>2. memory.local = server.index /\ Readable(server.index + 1) /\ Near(memory.local)'
    <3>1. memory.local = server.index /\ Readable(server.index + 1)
      BY <2>1 DEF KeyInv, Accept, Updating
    <3>2. Near(memory.local)'
      BY <3>1, <1>a, <1>b DEF Accept
    <3> QED
      BY <3>1, <3>2
  <2>3. ASSUME settings.device \notin history.unsaved
        PROVE  settings.local = server.index /\ KeyFile(settings.device, server.index + 1)
    BY <1>a, <1>c, <2>1, <2>2, <2>3 DEF KeyInv, Accept, Ready, NoHandler, Loaded, Readable, KeyFile, Writing
  <2> QED
    BY <2>1, <2>2, <2>3
<1>6. Loaded'
  BY <1>a, <1>b, <1>c, Ranges DEF KeyInv, Accept, Ready, NoHandler, persistent, Loaded, Readable, KeyFile, Writing
<1>7. InStore'
  <2>1. ASSUME disk.device \in Devices \ (history.dropped \cup history.unsaved)
        PROVE  /\ disk.provider /\ Saved(disk.device) /\ KeyFile(disk.device, disk.local)
               /\ Near(disk.local)'
               /\ \A i \in Needed' : KeyFile(disk.device, i)
    <3>1. disk = settings /\ disk.device # NoDevice
      BY <2>1 DEF Accept, Ready, Devices, NoDevice
    <3>2. disk.local = server.index /\ KeyFile(disk.device, server.index + 1)
      BY <1>c, <2>1, <3>1
    <3>3. /\ disk.provider /\ Saved(disk.device) /\ KeyFile(disk.device, disk.local)
          /\ \A i \in Needed : KeyFile(disk.device, i)
      BY <2>1 DEF KeyInv, InStore, Kept
    <3>4. disk' = disk
      BY DEF Accept, persistent
    <3> QED
      BY <1>a, <1>b, <3>2, <3>3, <3>4
  <2>2. Prepared(disk)'
    BY <1>a, Ranges DEF KeyInv, Accept, Ready, persistent, InStore, Prepared, KeyFile, Types, TypeOK, Settings
  <2>3. Kept(disk)'
    BY <2>1 DEF Kept, Accept, persistent, KeyFile, Saved
  <2> QED
    BY <2>2, <2>3 DEF InStore, Accept, Ready, persistent, Kept, Prepared, Near, Needed, KeyFile, Saved
<1>8. Handling'
  BY DEF KeyInv, Accept, Ready, NoHandler, persistent, Handling, Connecting, Registering, ChangingKeys, Deleting, Resets, Types, TypeOK, Memory, Settings, Links, History
<1> QED
  BY <1>1, <1>2, <1>3, <1>4, <1>5, <1>6, <1>7, <1>8 DEF KeyInv

LEMMA UpdateRefusedKeeps ==
  ASSUME KeyInv, UpdateRefused
  PROVE  KeyInv'
<1>1. Types'
  BY Ranges, Idle DEF KeyInv, UpdateRefused, Ready, NoHandler, persistent, Types, TypeOK, Memory, Settings, Links, History, IsHandler
<1>2. Registrations' /\ Identity'
  BY DEF KeyInv, UpdateRefused, Ready, NoHandler, persistent, Registrations, Identity, Known, Types, TypeOK, Memory, Settings, Links, History
<1>3. Provided' /\ Signing'
  BY DEF KeyInv, UpdateRefused, Ready, NoHandler, persistent, Provided, Signing, Resets, Types, TypeOK, Memory, Settings, Links, History
<1>4. Connected'
  BY DEF KeyInv, UpdateRefused, Ready, NoHandler, persistent, Connected, Types, TypeOK, Memory, Settings, Links, History
<1>5. Updating'
  BY DEF KeyInv, UpdateRefused, Ready, NoHandler, persistent, Updating, Connected, Readable, Types, TypeOK, Memory, Settings, Links, History
<1>6. Loaded'
  BY DEF KeyInv, UpdateRefused, Ready, NoHandler, persistent, Loaded, Identity, Known, Readable, Near, Needed, KeyFile, Writing, Types, TypeOK, Memory, Settings, Links, History
<1>7. InStore'
  BY DEF KeyInv, UpdateRefused, Ready, NoHandler, persistent, InStore, Kept, Prepared, Near, Needed, KeyFile, Saved, Types, TypeOK, Memory, Settings, Links, History
<1>8. Handling'
  BY DEF KeyInv, UpdateRefused, Ready, NoHandler, persistent, Handling, Connecting, Registering, ChangingKeys, Deleting, Resets, Types, TypeOK, Memory, Settings, Links, History
<1> QED
  BY <1>1, <1>2, <1>3, <1>4, <1>5, <1>6, <1>7, <1>8 DEF KeyInv

LEMMA OthersUpdateKeeps ==
  ASSUME KeyInv, OthersUpdate
  PROVE  KeyInv'
<1>a. /\ server'.joined = server.joined /\ server'.index = server.index + 1
      /\ server'.change \in {NoKey, server.index + 1} /\ server.change = NoKey
      /\ server'.device = server.device /\ server.index \in Nat /\ server.joined \in Nat
      /\ server.joined <= server.index
      /\ server'.change # NoKey
  BY Ranges DEF KeyInv, OthersUpdate, Types, TypeOK, Updating, Registrations, NoKey
<1>b. /\ \A i \in Needed' : i \in Needed \/ (i = server.index + 1 /\ server'.change = NoKey)
      /\ \A l \in Nat : Near(l) /\ server'.change # NoKey => Near(l)'
      /\ \A l \in Nat : l = server.index => Near(l)'
  BY <1>a, NewIndex DEF KeyInv
<1>1. Types'
  BY Ranges, Idle DEF KeyInv, OthersUpdate, Ready, NoHandler, persistent, Types, TypeOK, Memory, Settings, Links, History, IsHandler
<1>2. Registrations' /\ Identity'
  BY <1>a DEF KeyInv, OthersUpdate, Ready, NoHandler, persistent, Registrations, Identity, Known, Types, TypeOK, Memory, Settings, Links, History
<1>3. Provided' /\ Signing'
  BY DEF KeyInv, OthersUpdate, Ready, NoHandler, persistent, Provided, Signing, Resets, Types, TypeOK, Memory, Settings, Links, History
<1>4. Connected'
  BY DEF KeyInv, OthersUpdate, Ready, NoHandler, persistent, Connected, Types, TypeOK, Memory, Settings, Links, History
<1>5. Updating'
  BY DEF KeyInv, OthersUpdate, Ready, NoHandler, persistent, Updating, Connected, Readable, Types, TypeOK, Memory, Settings, Links, History
<1>6. Loaded'
  BY <1>a, <1>b, Ranges DEF KeyInv, OthersUpdate, Ready, NoHandler, persistent, Loaded, Identity, Known, Readable, Near, Needed, KeyFile, Writing, Types, TypeOK, Memory, Settings, Links, History
<1>7. InStore'
  <2>1. Kept(disk)'
    <3>1. disk' = disk /\ disk.local \in Nat
      BY Ranges DEF OthersUpdate, persistent, KeyInv, Types, TypeOK, Settings
    <3> QED
      BY <1>a, <1>b, <3>1 DEF KeyInv, OthersUpdate, persistent, InStore, Kept, KeyFile, Saved
  <2>2. Prepared(disk)'
    BY <1>a, Ranges DEF KeyInv, OthersUpdate, persistent, InStore, Prepared, KeyFile, Types, TypeOK, Settings
  <2> QED
    BY <2>1, <2>2 DEF InStore, OthersUpdate, Ready, persistent, Kept, Prepared, Near, Needed, KeyFile, Saved
<1>8. Handling'
  BY DEF KeyInv, OthersUpdate, Ready, NoHandler, persistent, Handling, Connecting, Registering, ChangingKeys, Deleting, Resets, Types, TypeOK, Memory, Settings, Links, History
<1> QED
  BY <1>1, <1>2, <1>3, <1>4, <1>5, <1>6, <1>7, <1>8 DEF KeyInv

LEMMA RemoveAckKeeps ==
  ASSUME KeyInv, RemoveAck
  PROVE  KeyInv'
<1>1. Types'
  BY Ranges, Idle DEF KeyInv, RemoveAck, Ready, NoHandler, persistent, Types, TypeOK, Memory, Settings, Links, History, IsHandler
<1>2. Registrations' /\ Identity'
  BY DEF KeyInv, RemoveAck, Ready, NoHandler, persistent, Registrations, Identity, Known, Types, TypeOK, Memory, Settings, Links, History
<1>3. Provided' /\ Signing'
  BY DEF KeyInv, RemoveAck, Ready, NoHandler, persistent, Provided, Signing, Resets, Types, TypeOK, Memory, Settings, Links, History
<1>4. Connected'
  BY DEF KeyInv, RemoveAck, Ready, NoHandler, persistent, Connected, Types, TypeOK, Memory, Settings, Links, History
<1>5. Updating'
  BY DEF KeyInv, RemoveAck, Ready, NoHandler, persistent, Updating, Connected, Readable, Types, TypeOK, Memory, Settings, Links, History
<1>6. Loaded'
  BY DEF KeyInv, RemoveAck, Ready, NoHandler, persistent, Loaded, Identity, Known, Readable, Near, Needed, KeyFile, Writing, Types, TypeOK, Memory, Settings, Links, History
<1>7. InStore'
  BY DEF KeyInv, RemoveAck, Ready, NoHandler, persistent, InStore, Kept, Prepared, Near, Needed, KeyFile, Saved, Types, TypeOK, Memory, Settings, Links, History
<1>8. Handling'
  BY DEF KeyInv, RemoveAck, Ready, NoHandler, persistent, Handling, Connecting, Registering, ChangingKeys, Deleting, Resets, Types, TypeOK, Memory, Settings, Links, History
<1> QED
  BY <1>1, <1>2, <1>3, <1>4, <1>5, <1>6, <1>7, <1>8 DEF KeyInv

LEMMA LoseConnectionKeeps ==
  ASSUME KeyInv, LoseConnection
  PROVE  KeyInv'
<1>1. Types'
  BY Ranges, Idle DEF KeyInv, LoseConnection, Ready, NoHandler, persistent, Types, TypeOK, Memory, Settings, Links, History, IsHandler
<1>2. Registrations' /\ Identity'
  BY DEF KeyInv, LoseConnection, Ready, NoHandler, persistent, Registrations, Identity, Known, Types, TypeOK, Memory, Settings, Links, History
<1>3. Provided' /\ Signing'
  BY DEF KeyInv, LoseConnection, Ready, NoHandler, persistent, Provided, Signing, Resets, Types, TypeOK, Memory, Settings, Links, History
<1>4. Connected'
  BY DEF KeyInv, LoseConnection, Ready, NoHandler, persistent, Connected, Types, TypeOK, Memory, Settings, Links, History
<1>5. Updating'
  BY DEF KeyInv, LoseConnection, Ready, NoHandler, persistent, Updating, Connected, Readable, Types, TypeOK, Memory, Settings, Links, History
<1>6. Loaded'
  BY DEF KeyInv, LoseConnection, Ready, NoHandler, persistent, Loaded, Identity, Known, Readable, Near, Needed, KeyFile, Writing, Types, TypeOK, Memory, Settings, Links, History
<1>7. InStore'
  BY DEF KeyInv, LoseConnection, Ready, NoHandler, persistent, InStore, Kept, Prepared, Near, Needed, KeyFile, Saved, Types, TypeOK, Memory, Settings, Links, History
<1>8. Handling'
  BY DEF KeyInv, LoseConnection, Ready, NoHandler, persistent, Handling, Connecting, Registering, ChangingKeys, Deleting, Resets, Types, TypeOK, Memory, Settings, Links, History
<1> QED
  BY <1>1, <1>2, <1>3, <1>4, <1>5, <1>6, <1>7, <1>8 DEF KeyInv

LEMMA RetryKeeps ==
  ASSUME KeyInv, Retry
  PROVE  KeyInv'
<1>1. Types'
  BY Ranges, Idle DEF KeyInv, Retry, Ready, NoHandler, persistent, Types, TypeOK, Memory, Settings, Links, History, IsHandler
<1>2. Registrations' /\ Identity'
  BY DEF KeyInv, Retry, Ready, NoHandler, persistent, Registrations, Identity, Known, Types, TypeOK, Memory, Settings, Links, History
<1>3. Provided' /\ Signing'
  BY DEF KeyInv, Retry, Ready, NoHandler, persistent, Provided, Signing, Resets, Types, TypeOK, Memory, Settings, Links, History
<1>4. Connected'
  BY DEF KeyInv, Retry, Ready, NoHandler, persistent, Connected, Types, TypeOK, Memory, Settings, Links, History
<1>5. Updating'
  BY DEF KeyInv, Retry, Ready, NoHandler, persistent, Updating, Connected, Readable, Types, TypeOK, Memory, Settings, Links, History
<1>6. Loaded'
  BY DEF KeyInv, Retry, Ready, NoHandler, persistent, Loaded, Identity, Known, Readable, Near, Needed, KeyFile, Writing, Types, TypeOK, Memory, Settings, Links, History
<1>7. InStore'
  BY DEF KeyInv, Retry, Ready, NoHandler, persistent, InStore, Kept, Prepared, Near, Needed, KeyFile, Saved, Types, TypeOK, Memory, Settings, Links, History
<1>8. Handling'
  BY DEF KeyInv, Retry, Ready, NoHandler, persistent, Handling, Connecting, Registering, ChangingKeys, Deleting, Resets, Types, TypeOK, Memory, Settings, Links, History
<1> QED
  BY <1>1, <1>2, <1>3, <1>4, <1>5, <1>6, <1>7, <1>8 DEF KeyInv

--------------------------------------------------------------------------------
(* Handlers that begin, go on and end.                                       *)

LEMMA Begins ==
  ASSUME NEW n \in Handlers \ {"none"}, NEW o \in 0..MaxDevices, NEW j \in 0..MaxIndex + 1,
         NEW t \in Todo(n), Run(n, o, j, t)
  PROVE  /\ IsHandler(running)'
         /\ running'.name = n /\ running'.of = o /\ running'.index = j /\ running'.todo = t
  BY DEF Run, IsHandler

LEMMA Beginnings ==
  /\ LoadSteps \in Todo("connect") /\ Head(LoadSteps) = "open"
  /\ StoreSteps \in Todo("account") /\ Head(StoreSteps) = "open"
  /\ \A n \in {"importKey", "prepareKey"} : KeySteps \in Todo(n)
  /\ Head(KeySteps) = "truncate"
  /\ \A n \in Resets : DeleteSteps \in Todo(n)
  /\ Head(DeleteSteps) = "wipe"
<1>1. LoadSteps \in Todo("connect") /\ StoreSteps \in Todo("account")
  BY DEF LoadSteps, StoreSteps, Todo, LoadTodo, StoreTodo, Resets
<1>2. \A n \in {"importKey", "prepareKey"} : KeySteps \in Todo(n)
  BY DEF KeySteps, Todo, KeyTodo, Resets
<1>3. \A n \in Resets : DeleteSteps \in Todo(n)
  BY DEF DeleteSteps, Todo, DeleteTodo, Resets
<1>4. /\ Head(LoadSteps) = "open" /\ Head(StoreSteps) = "open"
      /\ Head(KeySteps) = "truncate" /\ Head(DeleteSteps) = "wipe"
  BY DEF LoadSteps, StoreSteps, KeySteps, DeleteSteps
<1> QED
  BY <1>1, <1>2, <1>3, <1>4

LEMMA Proceeds ==
  ASSUME IsHandler(running), running.todo # << >>, Tail(running.todo) \in Todo(running.name),
         Proceed
  PROVE  /\ IsHandler(running)'
         /\ running'.name = running.name /\ running'.of = running.of
         /\ running'.index = running.index /\ running'.todo = Tail(running.todo)
<1> DEFINE t == Tail(running.todo)
<1>1. running' = [running EXCEPT !.todo = t]
  BY DEF Proceed
<1>2. t \in Todo(running.name) /\ running.name # "none"
  BY Idle DEF IsHandler
<1> HIDE DEF t
<1>3. /\ running' = [name |-> running.name, of |-> running.of, index |-> running.index, todo |-> t]
  BY <1>1 DEF IsHandler
<1> QED
  BY <1>2, <1>3 DEF IsHandler, t

\* Which handler can be at which step.
LEMMA Todos ==
  ASSUME IsHandler(running)
  PROVE  /\ running.todo = << >> <=> running.name = "none"
         /\ running.name = "none" => running = NoHandler
         /\ running.name = "connect" => running.todo \in LoadTodo
         /\ running.name = "account" => running.todo \in StoreTodo
         /\ running.name \in {"importKey", "prepareKey"} => running.todo \in KeyTodo
         /\ running.name \in Resets => running.todo \in DeleteTodo
<1>1. /\ running.name \in Handlers /\ running.todo \in Todo(running.name)
      /\ running.name = "none" => running = NoHandler
  BY DEF IsHandler
<1>2. /\ running.name = "connect" => running.todo \in LoadTodo
      /\ running.name = "account" => running.todo \in StoreTodo
      /\ running.name \in {"importKey", "prepareKey"} => running.todo \in KeyTodo
      /\ running.name \in Resets => running.todo \in DeleteTodo
      /\ running.name = "none" => running.todo = << >>
  BY <1>1 DEF Todo, Resets
<1>3. running.name # "none" => running.todo # << >>
  BY <1>1, <1>2, LoadTodoSteps, StoreTodoSteps, KeyTodoSteps, DeleteTodoSteps DEF Handlers
<1> QED
  BY <1>1, <1>2, <1>3

LEMMA Going ==
  ASSUME KeyInv, running.todo # << >>
  PROVE  /\ IsHandler(running) /\ running.name \in Handlers \ {"none"}
         /\ running.name = "connect" =>
              /\ Head(running.todo) \in {"open", "sign", "crypt", "loadLocal"}
              /\ Head(running.todo) # "loadLocal" => Tail(running.todo) \in LoadTodo
         /\ running.name = "account" => running.todo \in StoreTodo
         /\ running.name \in {"importKey", "prepareKey"} => running.todo \in KeyTodo
         /\ running.name \in Resets => running.todo \in DeleteTodo
         /\ Todo("connect") = LoadTodo /\ Todo("account") = StoreTodo
         /\ Todo("importKey") = KeyTodo /\ Todo("prepareKey") = KeyTodo
         /\ \A n \in Resets : Todo(n) = DeleteTodo
<1>1. IsHandler(running) /\ running.name \in Handlers
  BY DEF KeyInv, Types, IsHandler
<1>2. /\ Todo("connect") = LoadTodo /\ Todo("account") = StoreTodo
      /\ Todo("importKey") = KeyTodo /\ Todo("prepareKey") = KeyTodo
      /\ \A n \in Resets : Todo(n) = DeleteTodo
  BY DEF Todo, Resets
<1> QED
  BY <1>1, <1>2, Todos, LoadTodoSteps

--------------------------------------------------------------------------------
(* The process ends.                                                         *)

\* A step takes private keys at most of a device the user has begun to reset.
Shrinks ==
  store' \subseteq store /\ \A d \in Devices \ history.dropped : Saved(d) => Saved(d)'

LEMMA KilledKeeps ==
  ASSUME KeyInv, Killed, UNCHANGED <<keystore, disk, files, server, wish, history>>, Shrinks,
         mishaps' \in 0..MaxMishaps
  PROVE  KeyInv'
<1>1. Types'
  <2>1. NoMemory \in Memory
    BY Ranges DEF NoMemory, Memory, NoDevice
  <2> QED
    BY <2>1, Idle DEF KeyInv, Killed, Shrinks, Types, TypeOK, Links
<1>2. Registrations' /\ Identity'
  BY DEF KeyInv, Killed, NoMemory, Registrations, Identity, Known
<1>3. Provided' /\ Signing'
  BY Idle DEF KeyInv, Killed, NoMemory, Provided, Signing
<1>4. Connected' /\ Updating'
  BY Idle DEF KeyInv, Killed, Connected, Updating
<1>5. Loaded'
  BY DEF Killed, NoMemory, Loaded
<1>6. InStore'
  <2>1. Kept(disk)' /\ Prepared(disk)'
    BY DEF KeyInv, Killed, Shrinks, InStore, Kept, Prepared, Near, Needed, KeyFile
  <2> QED
    BY <2>1 DEF Killed, InStore, Kept, Prepared, Near, Needed, KeyFile, Saved
<1>7. Handling'
  BY Idle DEF Killed, Handling, Connecting, Registering, ChangingKeys, Deleting, Resets
<1> QED
  BY <1>1, <1>2, <1>3, <1>4, <1>5, <1>6, <1>7 DEF KeyInv

LEMMA Unshrunk ==
  ASSUME store' = store
  PROVE  Shrinks
  BY DEF Shrinks, Saved

LEMMA CrashKeeps ==
  ASSUME KeyInv, Crash
  PROVE  KeyInv'
<1>1. mishaps' \in 0..MaxMishaps
  BY KeyMaterialAssumption DEF Crash, KeyInv, Types, TypeOK
<1> QED
  BY <1>1, KilledKeeps, Unshrunk DEF Crash, persistent

--------------------------------------------------------------------------------
(* Connecting and registering.                                               *)

LEMMA LoadIdentityKeeps ==
  ASSUME KeyInv, LoadIdentity
  PROVE  KeyInv'
<1> USE DEF NoDevice
<1>a. /\ IsHandler(running)' /\ running'.name = "connect"
      /\ running'.of = settings.device /\ running'.index = settings.local
  <2>1. settings.device \in 0..MaxDevices /\ settings.local \in 0..MaxIndex + 1
    BY Ranges DEF KeyInv, Types, TypeOK, Settings
  <2>2. "connect" \in Handlers \ {"none"}
    BY DEF Handlers
  <2> QED
    BY <2>1, <2>2, Begins, Beginnings DEF LoadIdentity
<1>b. /\ memory' \in Memory /\ memory'.device = settings.device /\ memory'.asym = NoDevice
      /\ memory'.loaded = {} /\ settings.device # NoDevice
  BY FreshForm DEF KeyInv, Types, TypeOK, LoadIdentity
<1>1. Types'
  BY Ranges, <1>a, <1>b
  DEF KeyInv, LoadIdentity, NewIdentity, Ready, NoHandler, persistent, Types, TypeOK, Links
<1>2. Registrations' /\ Identity'
  BY Ranges, <1>a, <1>b
  DEF KeyInv, LoadIdentity, NewIdentity, Ready, NoHandler, persistent, Registrations, Identity, Known, Types, TypeOK, Memory, Settings, Links, History
<1>3. Provided' /\ Signing'
  BY Ranges, <1>a, <1>b
  DEF KeyInv, LoadIdentity, NewIdentity, Ready, NoHandler, persistent, Provided, Signing, Resets, Types, TypeOK, Memory, Settings, Links, History
<1>4. Connected'
  BY Ranges, <1>a, <1>b
  DEF KeyInv, LoadIdentity, NewIdentity, Ready, NoHandler, persistent, Connected, Types, TypeOK, Memory, Settings, Links, History
<1>5. Updating'
  BY Ranges, <1>a, <1>b
  DEF KeyInv, LoadIdentity, NewIdentity, Ready, NoHandler, persistent, Updating, Connected, Readable, Types, TypeOK, Memory, Settings, Links, History
<1>6. Loaded'
  BY Ranges, <1>a, <1>b
  DEF KeyInv, LoadIdentity, NewIdentity, Ready, NoHandler, persistent, Loaded, Identity, Known, Readable, Near, Needed, KeyFile, Writing, Types, TypeOK, Memory, Settings, Links, History
<1>7. InStore'
  BY Ranges, <1>a, <1>b
  DEF KeyInv, LoadIdentity, NewIdentity, Ready, NoHandler, persistent, InStore, Kept, Prepared, Near, Needed, KeyFile, Saved, Devices, Types, TypeOK, Memory, Settings, Links, History
<1>8. Handling'
  BY Ranges, <1>a, <1>b
  DEF KeyInv, LoadIdentity, NewIdentity, Ready, NoHandler, persistent, Handling, Connecting, Registering, ChangingKeys, Deleting, At, Resets, Types, TypeOK, Memory, Settings, Links, History
<1> QED
  BY <1>1, <1>2, <1>3, <1>4, <1>5, <1>6, <1>7, <1>8 DEF KeyInv

LEMMA NoKeyStoreKeeps ==
  ASSUME KeyInv, NoKeyStore
  PROVE  KeyInv'
<1> USE DEF NoDevice
<1>a. /\ memory' \in Memory /\ memory'.device = settings.device /\ memory'.asym = NoDevice
      /\ memory'.loaded = {}
  BY FreshForm DEF KeyInv, Types, TypeOK, NoKeyStore
<1>b. history' = [history EXCEPT !.unloaded = TRUE] /\ history' \in History
  BY DEF KeyInv, Types, NoKeyStore, History
<1>c. mishaps' \in 0..MaxMishaps
  BY KeyMaterialAssumption DEF NoKeyStore, KeyInv, Types, TypeOK
<1>d. /\ history'.last = history.last /\ history'.unsaved = history.unsaved
      /\ history'.dropped = history.dropped /\ history'.prepared = history.prepared
      /\ history'.unloaded = TRUE
  BY <1>b DEF KeyInv, Types, History
<1>1. Types'
  BY Ranges, <1>a, <1>b, <1>c, <1>d
  DEF KeyInv, NoKeyStore, NewIdentity, Ready, NoHandler, persistent, Types, TypeOK, Links
<1>2. Registrations' /\ Identity'
  BY Ranges, <1>a, <1>b, <1>c, <1>d
  DEF KeyInv, NoKeyStore, NewIdentity, Ready, NoHandler, persistent, Registrations, Identity, Known, Types, TypeOK, Memory, Settings, Links, History
<1>3. Provided' /\ Signing'
  BY Ranges, <1>a, <1>b, <1>c, <1>d
  DEF KeyInv, NoKeyStore, NewIdentity, Ready, NoHandler, persistent, Provided, Signing, Resets, Types, TypeOK, Memory, Settings, Links, History
<1>4. Connected'
  BY Ranges, <1>a, <1>b, <1>c, <1>d
  DEF KeyInv, NoKeyStore, NewIdentity, Ready, NoHandler, persistent, Connected, Types, TypeOK, Memory, Settings, Links, History
<1>5. Updating'
  BY Ranges, <1>a, <1>b, <1>c, <1>d
  DEF KeyInv, NoKeyStore, NewIdentity, Ready, NoHandler, persistent, Updating, Connected, Readable, Types, TypeOK, Memory, Settings, Links, History
<1>6. Loaded'
  BY Ranges, <1>a, <1>b, <1>c, <1>d
  DEF KeyInv, NoKeyStore, NewIdentity, Ready, NoHandler, persistent, Loaded, Identity, Known, Readable, Near, Needed, KeyFile, Writing, Types, TypeOK, Memory, Settings, Links, History
<1>7. InStore'
  BY Ranges, <1>a, <1>b, <1>c, <1>d
  DEF KeyInv, NoKeyStore, NewIdentity, Ready, NoHandler, persistent, InStore, Kept, Prepared, Near, Needed, KeyFile, Saved, Devices, Types, TypeOK, Memory, Settings, Links, History
<1>8. Handling'
  BY Ranges, <1>a, <1>b, <1>c, <1>d
  DEF KeyInv, NoKeyStore, NewIdentity, Ready, NoHandler, persistent, Handling, Connecting, Registering, ChangingKeys, Deleting, At, Resets, Types, TypeOK, Memory, Settings, Links, History
<1> QED
  BY <1>1, <1>2, <1>3, <1>4, <1>5, <1>6, <1>7, <1>8 DEF KeyInv

LEMMA IdentifyKeeps ==
  ASSUME KeyInv, Identify
  PROVE  KeyInv'
<1>1. ASSUME memory.asym = NoDevice
      PROVE  KeyInv'
  <2>1. Killed /\ mishaps' \in 0..MaxMishaps
    BY <1>1 DEF Identify, KeyInv, Types, TypeOK
  <2> QED
    BY <2>1, KilledKeeps, Unshrunk DEF Identify, persistent
<1>2. ASSUME memory.asym # NoDevice
      PROVE  KeyInv'
  <2>a. /\ link' = "session" /\ UNCHANGED <<settings, memory, running, update>>
        /\ memory.device # NoDevice /\ memory.asym = memory.device
    BY <1>2 DEF Identify, KeyInv, Identity
  <2>1. Types'
    BY Ranges, <2>a
    DEF KeyInv, Identify, Ready, NoHandler, persistent, Types, TypeOK, Links
  <2>2. Registrations' /\ Identity'
    BY Ranges, <2>a
    DEF KeyInv, Identify, Ready, NoHandler, persistent, Registrations, Identity, Known, Types, TypeOK, Memory, Settings, Links, History
  <2>3. Provided' /\ Signing'
    BY Ranges, <2>a
    DEF KeyInv, Identify, Ready, NoHandler, persistent, Provided, Signing, Resets, Types, TypeOK, Memory, Settings, Links, History
  <2>4. Connected'
    BY Ranges, <2>a
    DEF KeyInv, Identify, Ready, NoHandler, persistent, Connected, Types, TypeOK, Memory, Settings, Links, History
  <2>5. Updating'
    BY Ranges, <2>a
    DEF KeyInv, Identify, Ready, NoHandler, persistent, Updating, Connected, Readable, Types, TypeOK, Memory, Settings, Links, History
  <2>6. Loaded'
    BY Ranges, <2>a
    DEF KeyInv, Identify, Ready, NoHandler, persistent, Loaded, Identity, Known, Readable, Near, Needed, KeyFile, Writing, Types, TypeOK, Memory, Settings, Links, History
  <2>7. InStore'
    BY Ranges, <2>a
    DEF KeyInv, Identify, Ready, NoHandler, persistent, InStore, Kept, Prepared, Near, Needed, KeyFile, Saved, Devices, Types, TypeOK, Memory, Settings, Links, History
  <2>8. Handling'
    BY Ranges, <2>a
    DEF KeyInv, Identify, Ready, NoHandler, persistent, Handling, Connecting, Registering, ChangingKeys, Deleting, At, Resets, Types, TypeOK, Memory, Settings, Links, History
  <2> QED
    BY <2>1, <2>2, <2>3, <2>4, <2>5, <2>6, <2>7, <2>8 DEF KeyInv
<1> QED
  BY <1>1, <1>2

LEMMA AccountKeeps ==
  ASSUME KeyInv, Account
  PROVE  KeyInv'
<1> USE DEF NoDevice, NoKey
<1>a. PICK index \in Indices :
        /\ memory' = [memory EXCEPT !.device = history.last + 1, !.local = index,
                                     !.loaded = memory.loaded \cup {index}]
        /\ server' = [device |-> history.last + 1, joined |-> index, index |-> index, change |-> NoKey]
        /\ Run("account", history.last + 1, index, StoreSteps)
  BY DEF Account
<1> DEFINE new == history.last + 1
<1>b. /\ running.name = "none" /\ link = "registering" /\ settings = disk
      /\ settings.device = NoDevice /\ memory.device = NoDevice /\ memory.loaded = {0}
      /\ memory.asym = new /\ new \in 1..MaxDevices /\ new # NoDevice
      /\ new \notin history.dropped \cup history.unsaved
      /\ \A p \in history.prepared : p[1] # new
  <2>1. running.name = "none" /\ link = "registering" /\ settings = disk
    BY Idle DEF Account, Ready
  <2>2. /\ settings.device = NoDevice /\ memory.device = NoDevice /\ memory.loaded = {0}
        /\ memory.asym = new /\ history.last < MaxDevices
    BY <2>1 DEF KeyInv, Connected
  <2>3. /\ history.last \in 0..MaxDevices /\ history.dropped \cup history.unsaved \subseteq Devices
        /\ history.prepared \subseteq Devices \X (0..MaxIndex + 1)
    BY DEF KeyInv, Types, History
  <2>4. new \in 1..MaxDevices /\ new # NoDevice
    BY <2>2, <2>3, Ranges
  <2>5. new \notin history.dropped \cup history.unsaved
    <3>1. \A d \in history.unsaved \cup history.dropped : d <= history.last
      BY DEF KeyInv, Registrations
    <3>2. history.last \in Nat
      <4>1. history.last \in 0..MaxDevices
        BY <2>3
      <4> QED
        BY <4>1, Ranges
    <3>3. ~(new <= history.last)
      BY <3>2
    <3> QED
      BY <3>1, <3>3
  <2>6. \A p \in history.prepared : p[1] # new
    <3>1. ASSUME NEW p \in history.prepared
          PROVE  p[1] # new
      <4>1. p[1] \in 1..MaxDevices /\ p[1] <= history.last
        BY <2>3 DEF KeyInv, Registrations, Devices
      <4> QED
        BY <4>1, <2>3
    <3> QED
      BY <3>1
  <2> QED
    BY <2>1, <2>2, <2>4, <2>5, <2>6
<1>c. /\ IsHandler(running)' /\ running'.name = "account" /\ running'.of = new
      /\ running'.index = index /\ running'.todo = StoreSteps
  <2>1. "account" \in Handlers \ {"none"}
    BY DEF Handlers
  <2>2. new \in 0..MaxDevices /\ index \in 0..MaxIndex + 1
    BY <1>b, Ranges
  <2> QED
    BY <1>a, <2>1, <2>2, Begins, Beginnings
<1>d. /\ memory' \in Memory /\ memory'.device = new /\ memory'.local = index
      /\ memory'.asym = new /\ memory'.loaded = {0, index}
  <2>1. {0, index} \in SUBSET (0..MaxIndex + 1)
    BY Ranges
  <2>2. memory' = [memory EXCEPT !.device = new, !.local = index, !.loaded = {0, index}]
    BY <1>a, <1>b
  <2> QED
    BY <1>b, <2>1, <2>2, Ranges DEF KeyInv, Types, TypeOK, Memory
<1>e. /\ server' \in [device : 0..MaxDevices, joined : Indices, index : Indices, change : Indices]
      /\ server'.device = new /\ server'.joined = index /\ server'.index = index
      /\ server'.change = NoKey
  BY <1>a, <1>b, Ranges
<1>f. /\ settings' \in Settings /\ settings'.device = new
      /\ settings'.provider = settings.provider /\ settings'.local = settings.local
      /\ settings'.next = settings.next
  BY <1>b DEF Account, KeyInv, Types, TypeOK, Settings
<1>g. /\ history' \in History /\ history'.last = new /\ history'.unsaved = history.unsaved
      /\ history'.dropped = history.dropped /\ history'.prepared = history.prepared
      /\ history'.unloaded = history.unloaded
  BY <1>b DEF Account, KeyInv, Types, History
<1>h. ~settings.provider
  BY <1>b DEF KeyInv, Provided, Resets
<1> HIDE DEF new
<1>1. Types'
  BY Ranges, <1>b, <1>c, <1>d, <1>e, <1>f, <1>g, <1>h, Beginnings
  DEF KeyInv, Account, Ready, persistent, Types, TypeOK, Links
<1>2. Registrations' /\ Identity'
  <2>1. /\ \A d \in history.unsaved \cup history.dropped : d <= new
        /\ \A p \in history.prepared : p[1] <= new
    BY <1>b, Ranges DEF new, KeyInv, Registrations, Types, History, Devices
  <2>2. Registrations'
    BY <1>b, <1>e, <1>g, <2>1, Ranges DEF Registrations
  <2>3. Identity'
    BY <1>b, <1>d, <1>e, <1>f DEF Identity, Known, Account, persistent
  <2> QED
    BY <2>2, <2>3
<1>3. Provided' /\ Signing'
  BY Ranges, <1>b, <1>c, <1>d, <1>e, <1>f, <1>g, <1>h, Beginnings
  DEF KeyInv, Account, Ready, persistent, Provided, Signing, Resets, Types, TypeOK, Memory, Settings, Links, History
<1>4. Connected'
  BY Ranges, <1>b, <1>c, <1>d, <1>e, <1>f, <1>g, <1>h, Beginnings
  DEF KeyInv, Account, Ready, persistent, Connected, Types, TypeOK, Memory, Settings, Links, History
<1>5. Updating'
  BY Ranges, <1>b, <1>c, <1>d, <1>e, <1>f, <1>g, <1>h, Beginnings
  DEF KeyInv, Account, Ready, persistent, Updating, Connected, Readable, Types, TypeOK, Memory, Settings, Links, History
<1>6. Loaded'
  <2>1. Near(index)'
    BY <1>e, Ranges DEF Near
  <2>2. \A i \in memory'.loaded : i >= index => i = index
    BY <1>d, Ranges
  <2> QED
    BY <1>c, <1>d, <1>e, <1>f, <1>g, <1>b, <2>1, <2>2 DEF Loaded, Writing
<1>7. InStore'
  <2>1. Kept(disk)'
    BY <1>b DEF Kept, Devices, Account, persistent
  <2>2. Prepared(disk)'
    BY <1>b DEF Prepared, Devices, Account, persistent
  <2>3. Prepared(settings)'
    <3>1. <<new, settings.next>>[1] = new
      OBVIOUS
    <3>2. <<new, settings.next>> \notin history.prepared
      BY <1>b, <3>1
    <3> QED
      BY <1>f, <1>g, <3>2 DEF Prepared
  <2> QED
    BY <1>c, <2>1, <2>2, <2>3 DEF InStore
<1>8. Handling'
  BY Ranges, <1>b, <1>c, <1>d, <1>e, <1>f, <1>g, <1>h, Beginnings
  DEF KeyInv, Account, Ready, persistent, Handling, Connecting, Registering, ChangingKeys, Deleting, At, Resets, Types, TypeOK, Memory, Settings, Links, History
<1> QED
  BY <1>1, <1>2, <1>3, <1>4, <1>5, <1>6, <1>7, <1>8 DEF KeyInv


LEMMA WelcomeKeeps ==
  ASSUME KeyInv, Welcome
  PROVE  KeyInv'
<1> USE DEF NoDevice, NoKey
<1>a. /\ running.name = "none" /\ settings = disk /\ link = "session"
      /\ memory.device # NoDevice /\ memory.asym = memory.device
      /\ server.change \in Indices /\ server.change # NoKey /\ update = "none"
  BY Idle DEF Welcome, Ready, KeyInv, Types, TypeOK, Connected, Updating
<1>1. ASSUME server.change = memory.local + 1
      PROVE  KeyInv'
  <2>b. /\ memory' = [memory EXCEPT !.loaded = memory.loaded \cup {server.change}]
        /\ memory' \in Memory /\ memory'.device = memory.device /\ memory'.asym = memory.asym
        /\ memory'.local = memory.local /\ memory'.loaded = memory.loaded \cup {server.change}
        /\ UNCHANGED <<link, update>>
    <3>1. memory.loaded \cup {server.change} \in SUBSET (0..MaxIndex + 1)
      BY <1>a, Ranges DEF KeyInv, Types, TypeOK, Memory
    <3>2. /\ memory' = [memory EXCEPT !.loaded = memory.loaded \cup {server.change}]
          /\ UNCHANGED <<link, update>>
      BY <1>1 DEF Welcome
    <3> QED
      BY <3>1, <3>2 DEF KeyInv, Types, TypeOK, Memory
  <2>c. /\ IsHandler(running)' /\ running'.name = "importKey"
        /\ running'.index = server.change /\ running'.todo = KeySteps
        /\ Head(KeySteps) = "truncate" /\ server.change = memory.local + 1
    <3>1. /\ "importKey" \in Handlers \ {"none"} /\ memory.device \in 0..MaxDevices
          /\ server.change \in 0..MaxIndex + 1
      BY <1>a, Ranges DEF Handlers, KeyInv, Types, TypeOK, Memory
    <3> QED
      BY <1>1, <3>1, Begins, Beginnings DEF Welcome
  <2>1. Types'
    BY Ranges, <1>a, <2>b, <2>c
    DEF KeyInv, Welcome, persistent, Types, TypeOK, Links
  <2>2. Registrations' /\ Identity'
    BY Ranges, <1>a, <2>b, <2>c
    DEF KeyInv, Welcome, persistent, Registrations, Identity, Known, Types, TypeOK, Memory, Settings, Links, History
  <2>3. Provided' /\ Signing'
    BY Ranges, <1>a, <2>b, <2>c
    DEF KeyInv, Welcome, persistent, Provided, Signing, Resets, Types, TypeOK, Memory, Settings, Links, History
  <2>4. Connected'
    BY Ranges, <1>a, <2>b, <2>c
    DEF KeyInv, Welcome, persistent, Connected, Types, TypeOK, Memory, Settings, Links, History
  <2>5. Updating'
    BY Ranges, <1>a, <2>b, <2>c
    DEF KeyInv, Welcome, persistent, Updating, Connected, Readable, Types, TypeOK, Memory, Settings, Links, History
  <2>6. Loaded'
    BY Ranges, <1>a, <2>b, <2>c
    DEF KeyInv, Welcome, persistent, Loaded, Identity, Known, Readable, Near, Needed, KeyFile, Writing, Types, TypeOK, Memory, Settings, Links, History
  <2>7. InStore'
    BY Ranges, <1>a, <2>b, <2>c
    DEF KeyInv, Welcome, persistent, InStore, Kept, Prepared, Near, Needed, KeyFile, Saved, Devices, Types, TypeOK, Memory, Settings, Links, History
  <2>8. Handling'
    BY Ranges, <1>a, <2>b, <2>c
    DEF KeyInv, Welcome, persistent, Handling, Connecting, Registering, ChangingKeys, Deleting, At, Resets, Types, TypeOK, Memory, Settings, Links, History
  <2> QED
    BY <2>1, <2>2, <2>3, <2>4, <2>5, <2>6, <2>7, <2>8 DEF KeyInv
<1>2. ASSUME server.change # memory.local + 1
      PROVE  KeyInv'
  <2>b. link' = "error" /\ update' = "none" /\ UNCHANGED <<memory, running>>
    BY <1>2 DEF Welcome
  <2>1. Types'
    BY Ranges, <1>a, <2>b
    DEF KeyInv, Welcome, persistent, Types, TypeOK, Links
  <2>2. Registrations' /\ Identity'
    BY Ranges, <1>a, <2>b
    DEF KeyInv, Welcome, persistent, Registrations, Identity, Known, Types, TypeOK, Memory, Settings, Links, History
  <2>3. Provided' /\ Signing'
    BY Ranges, <1>a, <2>b
    DEF KeyInv, Welcome, persistent, Provided, Signing, Resets, Types, TypeOK, Memory, Settings, Links, History
  <2>4. Connected'
    BY Ranges, <1>a, <2>b
    DEF KeyInv, Welcome, persistent, Connected, Types, TypeOK, Memory, Settings, Links, History
  <2>5. Updating'
    BY Ranges, <1>a, <2>b
    DEF KeyInv, Welcome, persistent, Updating, Connected, Readable, Types, TypeOK, Memory, Settings, Links, History
  <2>6. Loaded'
    BY Ranges, <1>a, <2>b
    DEF KeyInv, Welcome, persistent, Loaded, Identity, Known, Readable, Near, Needed, KeyFile, Writing, Types, TypeOK, Memory, Settings, Links, History
  <2>7. InStore'
    BY Ranges, <1>a, <2>b
    DEF KeyInv, Welcome, persistent, InStore, Kept, Prepared, Near, Needed, KeyFile, Saved, Devices, Types, TypeOK, Memory, Settings, Links, History
  <2>8. Handling'
    BY Ranges, <1>a, <2>b
    DEF KeyInv, Welcome, persistent, Handling, Connecting, Registering, ChangingKeys, Deleting, At, Resets, Types, TypeOK, Memory, Settings, Links, History
  <2> QED
    BY <2>1, <2>2, <2>3, <2>4, <2>5, <2>6, <2>7, <2>8 DEF KeyInv
<1> QED
  BY <1>1, <1>2

LEMMA DeviceKeysKeeps ==
  ASSUME KeyInv, DeviceKeys
  PROVE  KeyInv'
<1> USE DEF NoDevice, NoKey
<1> DEFINE next == memory.local + 1
<1>a. /\ running.name = "none" /\ settings = disk /\ link \in {"session", "resetting"}
      /\ memory.device # NoDevice /\ update = "asked" /\ server.change = NoKey
      /\ next = server.index + 1 /\ next \in 1..MaxIndex + 1
      /\ memory.local = server.index
  <2>1. memory.local \in Indices /\ server.index \in Indices
    BY DEF KeyInv, Types, TypeOK, Memory
  <2>2. memory.local + 1 = server.index + 1
    BY DEF DeviceKeys
  <2>3. next = server.index + 1 /\ next \in 1..MaxIndex + 1 /\ memory.local = server.index
    BY <2>1, <2>2, Ranges DEF Indices
  <2> QED
    BY <2>3, Idle DEF DeviceKeys, Ready, KeyInv, Connected, Updating
<1>1. ASSUME update' = "sent", Readable(next), UNCHANGED <<settings, memory, link, running>>
      PROVE  KeyInv'
  <2>1. Types'
    BY Ranges, <1>a, <1>1
    DEF KeyInv, DeviceKeys, persistent, Types, TypeOK, Links
  <2>2. Registrations' /\ Identity'
    BY Ranges, <1>a, <1>1
    DEF KeyInv, DeviceKeys, persistent, Registrations, Identity, Known, Types, TypeOK, Memory, Settings, Links, History
  <2>3. Provided' /\ Signing'
    BY Ranges, <1>a, <1>1
    DEF KeyInv, DeviceKeys, persistent, Provided, Signing, Resets, Types, TypeOK, Memory, Settings, Links, History
  <2>4. Connected'
    BY Ranges, <1>a, <1>1
    DEF KeyInv, DeviceKeys, persistent, Connected, Types, TypeOK, Memory, Settings, Links, History
  <2>5. Updating'
    BY Ranges, <1>a, <1>1
    DEF KeyInv, DeviceKeys, persistent, Updating, Connected, Readable, Types, TypeOK, Memory, Settings, Links, History
  <2>6. Loaded'
    BY Ranges, <1>a, <1>1
    DEF KeyInv, DeviceKeys, persistent, Loaded, Identity, Known, Readable, Near, Needed, KeyFile, Writing, Types, TypeOK, Memory, Settings, Links, History
  <2>7. InStore'
    BY Ranges, <1>a, <1>1
    DEF KeyInv, DeviceKeys, persistent, InStore, Kept, Prepared, Near, Needed, KeyFile, Saved, Devices, Types, TypeOK, Memory, Settings, Links, History
  <2>8. Handling'
    BY Ranges, <1>a, <1>1
    DEF KeyInv, DeviceKeys, persistent, Handling, Connecting, Registering, ChangingKeys, Deleting, At, Resets, Types, TypeOK, Memory, Settings, Links, History
  <2> QED
    BY <2>1, <2>2, <2>3, <2>4, <2>5, <2>6, <2>7, <2>8 DEF KeyInv
<1>2. ASSUME link' = "error", update' = "none", UNCHANGED <<settings, memory, running>>
      PROVE  KeyInv'
  <2>1. Types'
    BY Ranges, <1>a, <1>2
    DEF KeyInv, DeviceKeys, persistent, Types, TypeOK, Links
  <2>2. Registrations' /\ Identity'
    BY Ranges, <1>a, <1>2
    DEF KeyInv, DeviceKeys, persistent, Registrations, Identity, Known, Types, TypeOK, Memory, Settings, Links, History
  <2>3. Provided' /\ Signing'
    BY Ranges, <1>a, <1>2
    DEF KeyInv, DeviceKeys, persistent, Provided, Signing, Resets, Types, TypeOK, Memory, Settings, Links, History
  <2>4. Connected'
    BY Ranges, <1>a, <1>2
    DEF KeyInv, DeviceKeys, persistent, Connected, Types, TypeOK, Memory, Settings, Links, History
  <2>5. Updating'
    BY Ranges, <1>a, <1>2
    DEF KeyInv, DeviceKeys, persistent, Updating, Connected, Readable, Types, TypeOK, Memory, Settings, Links, History
  <2>6. Loaded'
    BY Ranges, <1>a, <1>2
    DEF KeyInv, DeviceKeys, persistent, Loaded, Identity, Known, Readable, Near, Needed, KeyFile, Writing, Types, TypeOK, Memory, Settings, Links, History
  <2>7. InStore'
    BY Ranges, <1>a, <1>2
    DEF KeyInv, DeviceKeys, persistent, InStore, Kept, Prepared, Near, Needed, KeyFile, Saved, Devices, Types, TypeOK, Memory, Settings, Links, History
  <2>8. Handling'
    BY Ranges, <1>a, <1>2
    DEF KeyInv, DeviceKeys, persistent, Handling, Connecting, Registering, ChangingKeys, Deleting, At, Resets, Types, TypeOK, Memory, Settings, Links, History
  <2> QED
    BY <2>1, <2>2, <2>3, <2>4, <2>5, <2>6, <2>7, <2>8 DEF KeyInv
<1>3. ASSUME settings.next # next, memory.asym # NoDevice,
             memory' = [memory EXCEPT !.loaded = memory.loaded \cup {next}],
             Run("prepareKey", memory.device, next, KeySteps),
             UNCHANGED <<settings, link, update>>
      PROVE  KeyInv'
  <2>b. /\ memory' \in Memory /\ memory'.device = memory.device /\ memory'.asym = memory.asym
        /\ memory'.local = memory.local /\ memory'.loaded = memory.loaded \cup {next}
        /\ link = "session"
    <3>1. memory.loaded \cup {next} \in SUBSET (0..MaxIndex + 1)
      BY <1>a, Ranges DEF KeyInv, Types, TypeOK, Memory
    <3> QED
      BY <1>a, <1>3, <3>1 DEF KeyInv, Types, TypeOK, Memory, Connected
  <2>c. /\ IsHandler(running)' /\ running'.name = "prepareKey"
        /\ running'.index = next /\ running'.todo = KeySteps /\ Head(KeySteps) = "truncate"
    <3>1. /\ "prepareKey" \in Handlers \ {"none"} /\ memory.device \in 0..MaxDevices
          /\ next \in 0..MaxIndex + 1
      BY <1>a, Ranges DEF Handlers, KeyInv, Types, TypeOK, Memory
    <3> QED
      BY <1>3, <3>1, Begins, Beginnings
  <2>1. Types'
    BY Ranges, <1>a, <1>3, <2>b, <2>c
    DEF KeyInv, DeviceKeys, persistent, Types, TypeOK, Links
  <2>2. Registrations' /\ Identity'
    BY Ranges, <1>a, <1>3, <2>b, <2>c
    DEF KeyInv, DeviceKeys, persistent, Registrations, Identity, Known, Types, TypeOK, Memory, Settings, Links, History
  <2>3. Provided' /\ Signing'
    BY Ranges, <1>a, <1>3, <2>b, <2>c
    DEF KeyInv, DeviceKeys, persistent, Provided, Signing, Resets, Types, TypeOK, Memory, Settings, Links, History
  <2>4. Connected'
    BY Ranges, <1>a, <1>3, <2>b, <2>c
    DEF KeyInv, DeviceKeys, persistent, Connected, Types, TypeOK, Memory, Settings, Links, History
  <2>5. Updating'
    BY Ranges, <1>a, <1>3, <2>b, <2>c
    DEF KeyInv, DeviceKeys, persistent, Updating, Connected, Readable, Types, TypeOK, Memory, Settings, Links, History
  <2>6. Loaded'
    BY Ranges, <1>a, <1>3, <2>b, <2>c
    DEF KeyInv, DeviceKeys, persistent, Loaded, Identity, Known, Readable, Near, Needed, KeyFile, Writing, Types, TypeOK, Memory, Settings, Links, History
  <2>7. InStore'
    BY Ranges, <1>a, <1>3, <2>b, <2>c
    DEF KeyInv, DeviceKeys, persistent, InStore, Kept, Prepared, Near, Needed, KeyFile, Saved, Devices, Types, TypeOK, Memory, Settings, Links, History
  <2>8. Handling'
    BY Ranges, <1>a, <1>3, <2>b, <2>c
    DEF KeyInv, DeviceKeys, persistent, Handling, Connecting, Registering, ChangingKeys, Deleting, At, Resets, Types, TypeOK, Memory, Settings, Links, History
  <2> QED
    BY <2>1, <2>2, <2>3, <2>4, <2>5, <2>6, <2>7, <2>8 DEF KeyInv
<1>4. ASSUME Killed
      PROVE  KeyInv'
  BY <1>4, KilledKeeps, Unshrunk DEF DeviceKeys, KeyInv, Types, TypeOK, persistent
<1>5. UNCHANGED <<persistent, server, wish, history, mishaps>>
  BY DEF DeviceKeys
<1> QED
  BY <1>1, <1>2, <1>3, <1>4 DEF DeviceKeys


--------------------------------------------------------------------------------
(* Resets, settings and losses.                                              *)

LEMMA ResetBegins ==
  ASSUME KeyInv, Ready, link # "off", NEW name \in Resets, Reset(name),
         settings.device # NoDevice \/ memory.device # NoDevice,
         update' = update, UNCHANGED <<persistent, memory, server, mishaps>>
  PROVE  KeyInv'
<1> USE DEF NoDevice, NoKey
<1> DEFINE of == IF memory.device # NoDevice THEN memory.device ELSE settings.device
<1>a. /\ running.name = "none" /\ settings = disk /\ of # NoDevice /\ of \in Devices
      /\ of <= history.last /\ memory.device \in {NoDevice, of} /\ disk.device \in {NoDevice, of}
  <2>1. of = server.device /\ of # NoDevice /\ of \in 0..MaxDevices
    BY DEF KeyInv, Identity, Known, Types, TypeOK, Settings, Memory
  <2>2. of \in Devices
    BY <2>1, Ranges DEF Devices
  <2> QED
    BY <2>1, <2>2, Idle DEF Ready, KeyInv, Identity, Known, Registrations
<1>b. /\ settings' = [settings EXCEPT !.device = NoDevice]
      /\ Run(name, of, 0, DeleteSteps)
      /\ history' = [history EXCEPT !.dropped = history.dropped \cup {of}]
      /\ link' = link /\ wish' \in {of, wish}
  BY <1>a DEF Reset
<1>c. /\ settings' \in Settings /\ settings'.device = NoDevice
      /\ settings'.local = settings.local /\ settings'.provider = settings.provider
      /\ settings'.next = settings.next
  BY <1>b, Ranges DEF KeyInv, Types, TypeOK, Settings
<1>d. /\ IsHandler(running)' /\ running'.name = name /\ running'.of = of
      /\ running'.todo = DeleteSteps /\ Head(DeleteSteps) = "wipe"
  <2>1. /\ name \in Handlers \ {"none"} /\ of \in 0..MaxDevices
        /\ 0 \in 0..MaxIndex + 1 /\ DeleteSteps \in Todo(name)
    <3>1. name \in Handlers \ {"none"} /\ DeleteSteps \in Todo(name)
      BY Beginnings DEF Handlers, Resets
    <3>2. of \in 0..MaxDevices /\ 0 \in 0..MaxIndex + 1
      BY <1>a, Ranges DEF Devices
    <3> QED
      BY <3>1, <3>2
  <2> QED
    BY <1>b, <2>1, Begins, Beginnings
<1>e. /\ history' \in History /\ history'.last = history.last
      /\ history'.unsaved = history.unsaved
      /\ history'.dropped = history.dropped \cup {of}
      /\ history'.prepared = history.prepared /\ history'.unloaded = history.unloaded
  BY <1>a, <1>b DEF KeyInv, Types, History
<1>f. wish' \in 0..MaxDevices
  BY <1>a, <1>b, Ranges DEF KeyInv, Types, TypeOK, Devices
<1> HIDE DEF of
<1>1. Types'
  BY <1>b, <1>c, <1>d, <1>e, <1>f DEF KeyInv, Types, TypeOK, persistent
<1>2. Registrations' /\ Identity'
  BY <1>a, <1>c, <1>e DEF KeyInv, persistent, Registrations, Identity, Known
<1>3. Provided'
  BY <1>a, <1>c, <1>d, <1>e, Ranges DEF KeyInv, persistent, Provided, Types, History, Devices
<1>4. Signing'
  BY <1>a, <1>b, <1>c, <1>d, <1>e DEF KeyInv, persistent, Signing
<1>5. Connected' /\ Updating'
  BY <1>a, <1>b, <1>c, <1>d, <1>e DEF KeyInv, persistent, Connected, Updating, Readable
<1>6. Loaded'
  BY <1>c DEF Loaded
<1>7. InStore'
  BY <1>a, <1>c, <1>d, <1>e, Ranges DEF KeyInv, persistent, InStore, Kept, Prepared, Near, Needed, KeyFile, Saved, Devices, Resets
<1>8. Handling'
  BY <1>a, <1>c, <1>d, <1>e DEF KeyInv, persistent, Handling, Connecting, Registering, ChangingKeys, Deleting, At, Resets
<1> QED
  BY <1>1, <1>2, <1>3, <1>4, <1>5, <1>6, <1>7, <1>8 DEF KeyInv

LEMMA UserResetsKeeps ==
  ASSUME KeyInv, UserResets
  PROVE  KeyInv'
<1> USE DEF NoDevice, NoKey
<1>1. PICK name \in {"reset", "import"} : Reset(name)
  BY DEF UserResets
<1>2. name \in Resets /\ Ready /\ link # "off" /\ running.name = "none"
      /\ UNCHANGED <<persistent, memory, server, mishaps>>
  BY <1>1, Idle DEF UserResets, Reset, Resets, Ready
<1>3. ASSUME settings.device # NoDevice \/ memory.device # NoDevice
      PROVE  KeyInv'
  <2>1. running'.name = name
    BY <1>1, <1>3 DEF Reset, Run
  <2>2. update' = update
    BY <1>1, <2>1 DEF UserResets
  <2> QED
    BY <1>1, <1>2, <1>3, <2>2, ResetBegins
<1>4. ASSUME settings.device = NoDevice, memory.device = NoDevice
      PROVE  KeyInv'
  <2>a. /\ link' = "offline" /\ UNCHANGED <<settings, running, history>>
        /\ update' = "none" /\ wish' \in {NoDevice, wish}
    <3>1. /\ link' = "offline" /\ UNCHANGED <<settings, running, history>>
          /\ wish' \in {NoDevice, wish}
      BY <1>1, <1>4 DEF Reset
    <3> QED
      BY <1>2, <3>1 DEF UserResets
  <2>1. Types'
    BY Ranges, <1>2, <1>4, <2>a
    DEF KeyInv, UserResets, Ready, persistent, Types, TypeOK, Links
  <2>2. Registrations' /\ Identity'
    BY Ranges, <1>2, <1>4, <2>a
    DEF KeyInv, UserResets, Ready, persistent, Registrations, Identity, Known, Types, TypeOK, Memory, Settings, Links, History
  <2>3. Provided' /\ Signing'
    BY Ranges, <1>2, <1>4, <2>a
    DEF KeyInv, UserResets, Ready, persistent, Provided, Signing, Resets, Types, TypeOK, Memory, Settings, Links, History
  <2>4. Connected'
    BY Ranges, <1>2, <1>4, <2>a
    DEF KeyInv, UserResets, Ready, persistent, Connected, Types, TypeOK, Memory, Settings, Links, History
  <2>5. Updating'
    BY Ranges, <1>2, <1>4, <2>a
    DEF KeyInv, UserResets, Ready, persistent, Updating, Connected, Readable, Types, TypeOK, Memory, Settings, Links, History
  <2>6. Loaded'
    BY Ranges, <1>2, <1>4, <2>a
    DEF KeyInv, UserResets, Ready, persistent, Loaded, Identity, Known, Readable, Near, Needed, KeyFile, Writing, Types, TypeOK, Memory, Settings, Links, History
  <2>7. InStore'
    BY Ranges, <1>2, <1>4, <2>a
    DEF KeyInv, UserResets, Ready, persistent, InStore, Kept, Prepared, Near, Needed, KeyFile, Saved, Devices, Types, TypeOK, Memory, Settings, Links, History
  <2>8. Handling'
    BY Ranges, <1>2, <1>4, <2>a
    DEF KeyInv, UserResets, Ready, persistent, Handling, Connecting, Registering, ChangingKeys, Deleting, At, Resets, Types, TypeOK, Memory, Settings, Links, History
  <2> QED
    BY <2>1, <2>2, <2>3, <2>4, <2>5, <2>6, <2>7, <2>8 DEF KeyInv
<1> QED
  BY <1>3, <1>4

LEMMA InitialImportKeeps ==
  ASSUME KeyInv, InitialImport
  PROVE  KeyInv'
<1>1. "initial" \in Resets /\ link # "off" /\ UNCHANGED <<persistent, memory, server, mishaps>>
  BY DEF InitialImport, Reset, Resets
<1> QED
  BY <1>1, ResetBegins DEF InitialImport

LEMMA SyncKeeps ==
  ASSUME KeyInv, Sync
  PROVE  KeyInv'
<1>a. /\ history' \in History /\ history'.last = history.last
      /\ history'.unsaved = history.unsaved \cap {settings.device}
      /\ history'.dropped = history.dropped \cap {settings.device}
      /\ history'.prepared = {p \in history.prepared : p[1] = settings.device}
      /\ history'.unloaded = history.unloaded
  BY DEF KeyInv, Sync, Types, History
<1>b. /\ wish' \in {wish, NoDevice} /\ disk' = settings /\ running.name = "none"
  BY Idle DEF Sync
<1>c. memory.device # NoDevice => settings.device \in {NoDevice, memory.device}
  BY DEF KeyInv, Identity, Known
<1>1. Types'
  <2>1. NoDevice \in 0..MaxDevices
    BY Ranges DEF NoDevice
  <2> QED
    BY <1>a, <1>b, <2>1 DEF KeyInv, Sync, Types, TypeOK
<1>2. Registrations' /\ Identity'
  BY Ranges, <1>a, <1>b, <1>c
  DEF KeyInv, Sync, NoHandler, persistent, Registrations, Identity, Known, Types, TypeOK, Memory, Settings, Links, History
<1>3. Provided' /\ Signing'
  BY Ranges, <1>a, <1>b, <1>c
  DEF KeyInv, Sync, NoHandler, persistent, Provided, Signing, Resets, Types, TypeOK, Memory, Settings, Links, History
<1>4. Connected'
  BY Ranges, <1>a, <1>b, <1>c
  DEF KeyInv, Sync, NoHandler, persistent, Connected, Types, TypeOK, Memory, Settings, Links, History
<1>5. Updating'
  BY Ranges, <1>a, <1>b, <1>c
  DEF KeyInv, Sync, NoHandler, persistent, Updating, Connected, Readable, Types, TypeOK, Memory, Settings, Links, History
<1>6. Loaded'
  BY Ranges, <1>a, <1>b, <1>c
  DEF KeyInv, Sync, NoHandler, persistent, Loaded, Identity, Known, Readable, Near, Needed, KeyFile, Writing, Types, TypeOK, Memory, Settings, Links, History
<1>7. InStore'
  <2>1. Kept(settings) /\ Prepared(settings)
    BY <1>b DEF KeyInv, InStore
  <2>2. settings'= settings /\ UNCHANGED <<files, store, server, running>>
    BY DEF Sync
  <2>3. Kept(settings)'
    BY <1>a, <2>1, <2>2 DEF Kept, Near, Needed, KeyFile, Saved
  <2>4. Prepared(settings)'
    BY <1>a, <2>1, <2>2 DEF Prepared, KeyFile
  <2> QED
    BY <1>b, <2>2, <2>3, <2>4 DEF InStore, Kept, Prepared, Near, Needed, KeyFile, Saved
<1>8. Handling'
  BY Ranges, <1>a, <1>b, <1>c
  DEF KeyInv, Sync, NoHandler, persistent, Handling, Connecting, Registering, ChangingKeys, Deleting, At, Resets, Types, TypeOK, Memory, Settings, Links, History
<1> QED
  BY <1>1, <1>2, <1>3, <1>4, <1>5, <1>6, <1>7, <1>8 DEF KeyInv


--------------------------------------------------------------------------------
(* Steps that leave settings and files alone.                                *)

LEMMA ProgressKeeps ==
  ASSUME KeyInv, running.todo # << >>, Head(running.todo) \in {"open", "sign", "crypt"}, Proceed,
         memory' \in Memory, memory'.device = memory.device, memory'.asym = memory.asym,
         memory'.local = memory.local, memory'.loaded = memory.loaded,
         UNCHANGED <<keystore, disk, files, settings, link, server, update, wish, history, mishaps>>,
         store' \subseteq Parts \X Devices, Shrinks \/ store \subseteq store',
         running.name = "account" =>
           /\ store \subseteq store'
           /\ Head(running.todo) \in Parts => <<Head(running.todo), running.of>> \in store'
  PROVE  KeyInv'
<1>a. /\ IsHandler(running) /\ running.name \in {"connect", "account"} \cup Resets
      /\ Tail(running.todo) \in Todo(running.name)
      /\ running.name \in Resets => Head(Tail(running.todo)) # "wipe"
  BY Going, StoreTodoSteps, KeyTodoSteps, DeleteTodoSteps DEF Handlers
<1>b. /\ IsHandler(running)' /\ running'.name = running.name /\ running'.of = running.of
      /\ running'.index = running.index /\ running'.todo = Tail(running.todo)
  BY <1>a, Proceeds
<1>c. \A d \in Devices \ history.dropped : Saved(d) => Saved(d)'
  BY DEF Shrinks, Saved
<1>1. Types'
  BY <1>b DEF KeyInv, Types, TypeOK
<1>2. Registrations' /\ Identity'
  BY DEF KeyInv, Registrations, Identity, Known
<1>3. Provided' /\ Signing'
  BY <1>a, <1>b DEF KeyInv, Provided, Signing
<1>4. Connected' /\ Updating'
  BY <1>a, <1>b DEF KeyInv, Connected, Updating, Readable
<1>5. Loaded'
  BY <1>b DEF KeyInv, Loaded, Near, Needed, Readable, Writing, KeyFile
<1>6. InStore'
  BY <1>a, <1>b, <1>c DEF KeyInv, InStore, Kept, Prepared, Near, Needed, KeyFile, Resets
<1>7. Registering'
  <2>1. ASSUME running.name = "account"
        PROVE  /\ ~At({"open", "sign"})' => <<"sign", running.of>> \in store'
               /\ ~At({"open", "sign", "crypt"})' => <<"crypt", running.of>> \in store'
               /\ ~At({"stored"})'
    <3>1. running.todo \in StoreTodo
      BY <2>1, Going
    <3>2. running'.todo = Tail(running.todo)
      BY <1>b
    <3>3. CASE Head(running.todo) = "open"
      BY <3>1, <3>2, <3>3, StoreTodoSteps DEF At
    <3>4. CASE Head(running.todo) = "sign"
      BY <2>1, <3>1, <3>2, <3>4, StoreTodoSteps DEF At, Parts
    <3>5. CASE Head(running.todo) = "crypt"
      <4>1. <<"sign", running.of>> \in store
        BY <2>1, <3>5 DEF KeyInv, Handling, Registering, At
      <4> QED
        BY <2>1, <3>1, <3>2, <3>5, <4>1, StoreTodoSteps DEF At, Parts
    <3> QED
      BY <3>3, <3>4, <3>5
  <2> QED
    BY <1>b, <2>1 DEF KeyInv, Handling, Registering
<1>8. Handling'
  BY <1>a, <1>b, <1>7 DEF KeyInv, Handling, Connecting, ChangingKeys, Deleting, Resets
<1> QED
  BY <1>1, <1>2, <1>3, <1>4, <1>5, <1>6, <1>8 DEF KeyInv

\* An exception ends the handler, for what loadKeyMaterial has in memory by then.
LEMMA ThrowKeeps ==
  ASSUME KeyInv, NEW m \in Memory, Throw(m), running.todo # << >>, Head(running.todo) # "wipe",
         running.name \in {"connect", "account"} \cup Resets,
         UNCHANGED <<keystore, disk, files, server, wish>>, mishaps' \in 0..MaxMishaps,
         Shrinks, m.device = memory.device,
         \/ /\ m.asym = memory.asym /\ m.local = memory.local /\ m.loaded = memory.loaded
         \/ running.name = "connect" /\ m.asym = m.device /\ m.device \in history.dropped
  PROVE  KeyInv'
<1> USE DEF NoDevice, NoKey
<1>1. ASSUME running.name = "reset"
      PROVE  KeyInv'
  BY <1>1, KilledKeeps DEF Throw, Names
<1>2. ASSUME running.name # "reset"
      PROVE  KeyInv'
  <2>a. /\ link' \in {link, "error"} /\ (running.name # "import" => link' = "error" /\ update' = "none")
        /\ memory' = m /\ running' = NoHandler /\ settings' = settings
        /\ (link' = link /\ update' = update) \/ (link' = "error" /\ update' \in {"none", update})
        /\ link' = "error" /\ running.name = "import" => link = "error"
    BY <1>2 DEF Throw, Names
  <2>b. /\ history' \in History /\ history'.last = history.last
        /\ history'.dropped = history.dropped /\ history'.prepared = history.prepared
        /\ history'.unsaved = IF running.name = "account" THEN history.unsaved \cup {running.of}
                              ELSE history.unsaved
        /\ history'.unloaded = (history.unloaded \/ running.name = "connect")
    <3>1. running.name = "account" => running.of \in Devices
      BY Ranges DEF KeyInv, Handling, Registering, Types, IsHandler, Devices
    <3> DEFINE unsaved == IF running.name = "account" THEN history.unsaved \cup {running.of}
                          ELSE history.unsaved
               unloaded == (history.unloaded \/ running.name = "connect")
    <3>2. history' = [history EXCEPT !.unloaded = unloaded, !.unsaved = unsaved]
      BY <1>2 DEF Throw, Names
    <3>3. history \in History /\ unsaved \in SUBSET Devices /\ unloaded \in BOOLEAN
      BY <3>1 DEF KeyInv, Types, History
    <3> HIDE DEF unsaved, unloaded
    <3>4. /\ history' \in History /\ history'.last = history.last
          /\ history'.dropped = history.dropped /\ history'.prepared = history.prepared
          /\ history'.unsaved = unsaved /\ history'.unloaded = unloaded
      BY <3>2, <3>3 DEF History
    <3> QED
      BY <3>4 DEF unsaved, unloaded
  <2>c. running'.name = "none" /\ IsHandler(running)'
    BY <2>a, Idle
  <2>1. Types'
    <3>1. link' \in Links /\ update' \in {"none", "asked", "sent", "accepted"}
      BY <2>a DEF KeyInv, Types, TypeOK, Links
    <3> QED
      BY <2>a, <2>b, <2>c, <3>1 DEF KeyInv, Types, TypeOK, Shrinks
  <2>2. Registrations' /\ Identity'
    BY <2>a, <2>b DEF KeyInv, Registrations, Identity, Known, Handling, Registering, Types, History
  <2>3. Provided' /\ Signing'
    BY <2>a, <2>b, <2>c DEF KeyInv, Provided, Signing, Handling, Registering, Connecting, Deleting, Resets
  <2>4. Connected' /\ Updating'
    BY <2>a, <2>c DEF KeyInv, Connected, Updating, Readable, Handling, Deleting, Resets
  <2>5. Loaded'
    <3>1. ASSUME running.name = "connect"
          PROVE  Loaded'
      BY <2>a, <2>b, <3>1 DEF KeyInv, Handling, Connecting, Loaded
    <3>2. ASSUME running.name \in Resets
          PROVE  Loaded'
      BY <2>a, <3>2 DEF KeyInv, Handling, Deleting, Loaded, Resets
    <3>3. ASSUME running.name = "account"
          PROVE  Loaded'
      <4>1. /\ m.loaded = memory.loaded /\ m.local = memory.local /\ m.asym = memory.asym
            /\ memory.device \in history'.unsaved
            /\ \A i \in Needed : i \in memory.loaded
        BY <2>b, <3>3, Ranges DEF KeyInv, Handling, Registering, Needed, Types, TypeOK
      <4>2. Near(memory.local)
        <5>1. server.index = memory.local /\ server.joined = memory.local /\ server.change = NoKey
          BY <3>3 DEF KeyInv, Handling, Registering
        <5>2. memory.local \in Nat
          BY Ranges DEF KeyInv, Types, TypeOK, Memory
        <5> QED
          BY <5>1, <5>2 DEF Near
      <4> QED
        BY <2>a, <4>1, <4>2 DEF Loaded, Near, Needed, Readable
    <3> QED
      BY <3>1, <3>2, <3>3
  <2>6. InStore'
    <3>1. Kept(disk)' /\ Prepared(disk)' /\ Prepared(settings)'
      BY <2>a, <2>b DEF KeyInv, InStore, Kept, Prepared, Near, Needed, KeyFile, Shrinks
    <3>2. Kept(settings)'
      BY <3>1, <2>a, <2>b DEF KeyInv, Kept, Near, Needed, KeyFile, Saved, Handling, Registering, Connecting, Deleting, Devices
    <3> QED
      BY <3>1, <3>2 DEF InStore
  <2>7. Handling'
    BY <2>c DEF Handling, Connecting, Registering, ChangingKeys, Deleting, Resets
  <2> QED
    BY <2>1, <2>2, <2>3, <2>4, <2>5, <2>6, <2>7 DEF KeyInv
<1> QED
  BY <1>1, <1>2

LEMMA OpenStoreKeeps ==
  ASSUME KeyInv, OpenStore
  PROVE  KeyInv'
<1>1. /\ memory' \in Memory /\ memory'.device = memory.device /\ memory'.asym = memory.asym
      /\ memory'.local = memory.local /\ memory'.loaded = memory.loaded
  BY DEF OpenStore, KeyInv, Types, TypeOK, Memory
<1>2. store' \subseteq Parts \X Devices /\ Head(running.todo) \notin Parts
  BY DEF OpenStore, Step, persistent, KeyInv, Types, TypeOK, Parts
<1> QED
  BY <1>1, <1>2, ProgressKeeps DEF OpenStore, Step, persistent

LEMMA SaveKeyKeeps ==
  ASSUME KeyInv, SaveKey
  PROVE  KeyInv'
<1>1. /\ running.name = "account" /\ running.todo # << >> /\ Head(running.todo) \in {"sign", "crypt"}
      /\ store' = store \cup {<<Head(running.todo), running.of>>}
  BY DEF SaveKey, AtKey, Names, KeyName, Parts
<1>2. running.of \in Devices
  BY <1>1, Ranges DEF KeyInv, Handling, Registering, Types, IsHandler, Devices, NoDevice
<1>3. store' \subseteq Parts \X Devices
  BY <1>1, <1>2 DEF KeyInv, Types, TypeOK, Parts
<1> QED
  BY <1>1, <1>3, ProgressKeeps DEF SaveKey, KeyInv, Types, TypeOK

LEMMA LoadKeyKeeps ==
  ASSUME KeyInv, LoadKey
  PROVE  KeyInv'
<1>1. /\ running.name = "connect" /\ running.todo # << >> /\ Head(running.todo) \in {"sign", "crypt"}
      /\ store' = store /\ store' \subseteq Parts \X Devices /\ mishaps' \in 0..MaxMishaps
      /\ memory \in Memory
  BY DEF LoadKey, AtKey, Names, persistent, KeyInv, Types, TypeOK, Parts
<1>2. CASE KeyName \in store
  BY <1>1, <1>2, ProgressKeeps DEF LoadKey, persistent
<1>3. CASE KeyName \notin store
  BY <1>1, <1>3, ThrowKeeps, Unshrunk DEF LoadKey, persistent
<1> QED
  BY <1>2, <1>3

LEMMA RemoveKeyKeeps ==
  ASSUME KeyInv, RemoveKey
  PROVE  KeyInv'
<1>1. /\ running.name \in Resets /\ running.todo # << >> /\ Head(running.todo) \in {"sign", "crypt"}
      /\ store' = store \ {KeyName} /\ KeyName[2] = running.of /\ memory \in Memory
      /\ mishaps' \in 0..MaxMishaps /\ store' \subseteq Parts \X Devices
  BY DEF RemoveKey, AtKey, Names, KeyName, KeyInv, Types, TypeOK, Parts
<1>2. Shrinks
  <2>1. ASSUME NEW d \in Devices \ history.dropped, Saved(d)
        PROVE  Saved(d)'
    <3>1. d # running.of
      BY <1>1 DEF KeyInv, Handling, Deleting
    <3>2. \A p \in Parts : <<p, d>> # KeyName
      BY <3>1 DEF KeyName
    <3> QED
      BY <1>1, <2>1, <3>2 DEF Saved
  <2> QED
    BY <1>1, <2>1 DEF Shrinks
<1>3. CASE KeyName \notin store /\ Contract[keystore].strict
  BY <1>1, <1>2, <1>3, ThrowKeeps DEF RemoveKey
<1>4. CASE ~(KeyName \notin store /\ Contract[keystore].strict)
  <2>1. Proceed /\ UNCHANGED <<settings, memory, link, update, history>> /\ running.name # "account"
    BY <1>1, <1>4 DEF RemoveKey, Resets
  <2> QED
    BY <1>1, <1>2, <2>1, ProgressKeeps DEF RemoveKey
<1> QED
  BY <1>3, <1>4

LEMMA StoreFailsKeeps ==
  ASSUME KeyInv, StoreFails
  PROVE  KeyInv'
<1>1. /\ running.todo # << >> /\ Head(running.todo) \in {"open", "sign", "crypt"}
      /\ store' = store /\ memory \in Memory /\ mishaps' \in 0..MaxMishaps
  BY KeyMaterialAssumption DEF StoreFails, Step, persistent, KeyInv, Types, TypeOK, Parts
<1>2. running.name \in {"connect", "account"} \cup Resets
  BY <1>1, Going, KeyTodoSteps DEF Handlers
<1> QED
  BY <1>1, <1>2, ThrowKeeps, Unshrunk DEF StoreFails, persistent


--------------------------------------------------------------------------------
(* Steps that change settings and files.                                     *)

LEMMA LoadLocalKeeps ==
  ASSUME KeyInv, LoadLocal
  PROVE  KeyInv'
<1> USE DEF NoDevice
<1> DEFINE m == [Closed(memory) EXCEPT !.asym = running.of, !.local = settings.local]
<1>a. /\ running.name = "connect" /\ Head(running.todo) = "loadLocal" /\ running.todo # << >>
      /\ settings = disk /\ settings.device # NoDevice /\ running.of = settings.device
      /\ settings.provider /\ memory.device = settings.device /\ settings.local \in Indices
      /\ settings.device \in Devices
  <2>1. running.name = "connect" /\ Head(running.todo) = "loadLocal" /\ running.todo # << >>
    BY Going, StoreTodoSteps, KeyTodoSteps, DeleteTodoSteps DEF LoadLocal, Step, Handlers
  <2>2. /\ settings = disk /\ settings.device # NoDevice /\ running.of = settings.device
        /\ settings.provider /\ memory.device = settings.device
    BY <2>1 DEF KeyInv, Handling, Connecting
  <2>3. settings.local \in Indices /\ settings.device \in 0..MaxDevices
    BY DEF KeyInv, Types, TypeOK, Settings
  <2>4. settings.device \in Devices
    BY <2>2, <2>3, Ranges DEF Devices
  <2> QED
    BY <2>1, <2>2, <2>3, <2>4
<1>b. /\ m \in Memory /\ m.device = memory.device /\ m.asym = memory.device
      /\ m.local = settings.local /\ m.loaded = {}
  <2>1. /\ Closed(memory) \in Memory /\ Closed(memory).device = memory.device
        /\ Closed(memory).loaded = {}
    BY <1>a, MemoryForms DEF KeyInv, Types, TypeOK, Handling, Connecting
  <2> DEFINE c == Closed(memory)
  <2>2. /\ running.of \in 0..MaxDevices /\ settings.local \in Indices
        /\ running.of = memory.device /\ m = [c EXCEPT !.asym = running.of, !.local = settings.local]
    BY <1>a, Ranges DEF Devices
  <2> HIDE DEF c, m
  <2>3. /\ m \in Memory /\ m.device = c.device /\ m.asym = running.of
        /\ m.local = settings.local /\ m.loaded = c.loaded
    <3>1. c \in Memory
      BY <2>1 DEF c
    <3> QED
      BY <2>2, <3>1 DEF Memory
  <2> QED
    BY <2>1, <2>2, <2>3 DEF c
<1>c. mishaps' \in 0..MaxMishaps /\ store' = store
  BY DEF LoadLocal, persistent, KeyInv, Types, TypeOK
<1> HIDE DEF m
<1>1. ASSUME ~(settings.local \in DOMAIN files /\ files[settings.local] = running.of)
      PROVE  KeyInv'
  <2>1. Throw(m)
    BY <1>1 DEF LoadLocal, m
  <2>2. settings.device \in history.dropped
    <3>1. SUFFICES ASSUME settings.device \notin history.dropped
                   PROVE  FALSE
      OBVIOUS
    <3>2. settings.device \notin history.unsaved
      BY <1>a DEF KeyInv, Provided
    <3>3. KeyFile(disk.device, disk.local)
      BY <1>a, <3>1, <3>2 DEF KeyInv, InStore, Kept
    <3> QED
      BY <1>1, <1>a, <3>3 DEF KeyFile
  <2> QED
    BY <1>a, <1>b, <1>c, <2>1, <2>2, ThrowKeeps, Unshrunk DEF LoadLocal, persistent
<1>2. ASSUME settings.local \in DOMAIN files, files[settings.local] = running.of
      PROVE  KeyInv'
  <2>a. /\ memory' \in Memory /\ memory'.device = settings.device /\ memory'.asym = settings.device
        /\ memory'.local = settings.local /\ memory'.loaded = {settings.local}
        /\ link' = "connecting" /\ running' = NoHandler /\ UNCHANGED <<settings, update>>
    <3>1. /\ memory' = [m EXCEPT !.loaded = {settings.local}]
          /\ link' = "connecting" /\ running' = NoHandler /\ UNCHANGED <<settings, update>>
      BY <1>2 DEF LoadLocal, Return, m
    <3>2. {settings.local} \in SUBSET (0..MaxIndex + 1)
      BY <1>a, Ranges
    <3> QED
      BY <1>a, <1>b, <3>1, <3>2 DEF Memory
  <2>b. /\ history' \in History /\ history'.last = history.last
        /\ history'.dropped = history.dropped /\ history'.prepared = history.prepared
        /\ history'.unsaved = history.unsaved
    BY <1>2 DEF LoadLocal, KeyInv, Types, History
  <2>c. running'.name = "none" /\ IsHandler(running)' /\ UNCHANGED <<persistent, server, wish, mishaps>>
    BY <2>a, Idle DEF LoadLocal
  <2>d. update = "none"
    BY <1>a DEF KeyInv, Updating, Handling, Connecting
  <2>1. Types'
    BY <2>a, <2>b, <2>c DEF KeyInv, Types, TypeOK, Links, persistent
  <2>2. Registrations' /\ Identity'
    BY <2>a, <2>b, <2>c DEF KeyInv, Registrations, Identity, Known, persistent
  <2>3. Provided' /\ Signing'
    BY <1>a, <2>a, <2>b, <2>c DEF KeyInv, Provided, Signing, persistent
  <2>4. Connected' /\ Updating'
    BY <1>a, <2>a, <2>c, <2>d DEF KeyInv, Connected, Updating
  <2>5. Kept(settings) /\ Kept(settings)' /\ Prepared(settings) /\ Prepared(settings)'
    BY <1>a, <2>a, <2>b, <2>c DEF KeyInv, InStore, Kept, Prepared, Near, Needed, KeyFile, Saved, persistent
  <2>6. Loaded'
    BY <1>a, <2>a, <2>b, <2>c, <2>5 DEF KeyInv, Provided, Loaded, Kept, Near, KeyFile, persistent
  <2>7. InStore'
    BY <1>a, <2>a, <2>c, <2>5 DEF InStore, Kept, Prepared, Near, Needed, KeyFile, Saved, persistent
  <2>8. Handling'
    BY <2>c DEF Handling, Connecting, Registering, ChangingKeys, Deleting, Resets
  <2> QED
    BY <2>1, <2>2, <2>3, <2>4, <2>6, <2>7, <2>8 DEF KeyInv
<1> QED
  BY <1>1, <1>2

LEMMA OpenNoStoreKeeps ==
  ASSUME KeyInv, OpenNoStore
  PROVE  KeyInv'
<1>a. /\ running.name \in Resets /\ running' = [running EXCEPT !.todo = <<"deleted">>]
      /\ Head(running.todo) = "open" /\ running.todo # << >>
  BY DEF OpenNoStore, Step, Names
<1>b. /\ IsHandler(running)' /\ running'.name = running.name /\ running'.of = running.of
      /\ running'.index = running.index /\ running'.todo = <<"deleted">>
      /\ Head(running'.todo) = "deleted"
  <2>1. <<"deleted">> \in Todo(running.name) /\ running.name # "none"
    BY <1>a, Going DEF DeleteTodo, Resets
  <2>2. Head(<<"deleted">>) = "deleted"
    OBVIOUS
  <2>3. running' = [name |-> running.name, of |-> running.of, index |-> running.index,
                    todo |-> <<"deleted">>]
    BY <1>a DEF KeyInv, Types, IsHandler
  <2> QED
    BY <2>1, <2>2, <2>3 DEF IsHandler, KeyInv, Types
<1>1. Types'
  BY Ranges, <1>a, <1>b
  DEF KeyInv, OpenNoStore, Step, persistent, Types, TypeOK, Links
<1>2. Registrations' /\ Identity'
  BY Ranges, <1>a, <1>b
  DEF KeyInv, OpenNoStore, Step, persistent, Registrations, Identity, Known, Types, TypeOK, Memory, Settings, Links, History
<1>3. Provided' /\ Signing'
  BY Ranges, <1>a, <1>b
  DEF KeyInv, OpenNoStore, Step, persistent, Provided, Signing, Resets, Types, TypeOK, Memory, Settings, Links, History
<1>4. Connected'
  BY Ranges, <1>a, <1>b
  DEF KeyInv, OpenNoStore, Step, persistent, Connected, Types, TypeOK, Memory, Settings, Links, History
<1>5. Updating'
  BY Ranges, <1>a, <1>b
  DEF KeyInv, OpenNoStore, Step, persistent, Updating, Connected, Readable, Types, TypeOK, Memory, Settings, Links, History
<1>6. Loaded'
  BY Ranges, <1>a, <1>b
  DEF KeyInv, OpenNoStore, Step, persistent, Loaded, Identity, Known, Readable, Near, Needed, KeyFile, Writing, Types, TypeOK, Memory, Settings, Links, History
<1>7. InStore'
  BY Ranges, <1>a, <1>b
  DEF KeyInv, OpenNoStore, Step, persistent, InStore, Kept, Prepared, Near, Needed, KeyFile, Saved, Devices, Types, TypeOK, Memory, Settings, Links, History
<1>8. Handling'
  BY Ranges, <1>a, <1>b
  DEF KeyInv, OpenNoStore, Step, persistent, Handling, Connecting, Registering, ChangingKeys, Deleting, At, Resets, Types, TypeOK, Memory, Settings, Links, History
<1> QED
  BY <1>1, <1>2, <1>3, <1>4, <1>5, <1>6, <1>7, <1>8 DEF KeyInv

LEMMA DeletedKeeps ==
  ASSUME KeyInv, Deleted
  PROVE  KeyInv'
<1> USE DEF NoDevice
<1>a. /\ running.name \in Resets /\ settings.device = NoDevice /\ running' = NoHandler
      /\ running'.name = "none" /\ IsHandler(running)' /\ ~settings.provider
  <2>1. running.name \in Resets /\ Head(running.todo) = "deleted"
    BY Going, StoreTodoSteps, KeyTodoSteps, DeleteTodoSteps DEF Deleted, Step, Handlers
  <2> QED
    BY <2>1, Idle DEF Deleted, Return, KeyInv, Handling, Deleting, Provided
<1>b. /\ memory' \in Memory /\ memory'.asym = NoDevice
      /\ memory'.device = IF link' = "resetting" THEN memory.device ELSE NoDevice
      /\ memory'.loaded = {}
  <2> DEFINE d == IF link' = "resetting" THEN memory.device ELSE NoDevice
             c == Cleared(memory)
  <2>1. c \in Memory /\ c.device = memory.device /\ c.asym = NoDevice /\ c.loaded = {}
    BY MemoryForms DEF KeyInv, Types, TypeOK
  <2>2. d \in 0..MaxDevices
    BY Ranges DEF KeyInv, Types, TypeOK, Memory
  <2>3. memory' = [c EXCEPT !.device = d]
    BY <2>1 DEF Deleted
  <2> HIDE DEF c, d
  <2>4. memory' \in Memory /\ memory'.asym = NoDevice /\ memory'.device = d /\ memory'.loaded = {}
    BY <2>1, <2>2, <2>3 DEF Memory
  <2> QED
    BY <2>4 DEF d
<1>c. /\ link' \in {"starting", "resetting", "offline"}
      /\ link' = "resetting" <=> link \in {"session", "resetting"}
      /\ update # "none" => link \in {"session", "resetting"}
      /\ link \in {"session", "resetting"} => memory.device # NoDevice
  BY DEF Deleted, KeyInv, Updating, Connected
<1>1. Types'
  BY Ranges, <1>a, <1>b, <1>c
  DEF KeyInv, Deleted, Step, Return, persistent, Types, TypeOK, Links
<1>2. Registrations' /\ Identity'
  BY Ranges, <1>a, <1>b, <1>c
  DEF KeyInv, Deleted, Step, Return, persistent, Registrations, Identity, Known, Types, TypeOK, Memory, Settings, Links, History
<1>3. Provided' /\ Signing'
  BY Ranges, <1>a, <1>b, <1>c
  DEF KeyInv, Deleted, Step, Return, persistent, Provided, Signing, Resets, Types, TypeOK, Memory, Settings, Links, History
<1>4. Connected'
  BY Ranges, <1>a, <1>b, <1>c
  DEF KeyInv, Deleted, Step, Return, persistent, Connected, Types, TypeOK, Memory, Settings, Links, History
<1>5. Updating'
  BY Ranges, <1>a, <1>b, <1>c
  DEF KeyInv, Deleted, Step, Return, persistent, Updating, Connected, Readable, Types, TypeOK, Memory, Settings, Links, History
<1>6. Loaded'
  BY Ranges, <1>a, <1>b, <1>c
  DEF KeyInv, Deleted, Step, Return, persistent, Loaded, Identity, Known, Readable, Near, Needed, KeyFile, Writing, Types, TypeOK, Memory, Settings, Links, History
<1>7. InStore'
  BY Ranges, <1>a, <1>b, <1>c
  DEF KeyInv, Deleted, Step, Return, persistent, InStore, Kept, Prepared, Near, Needed, KeyFile, Saved, Devices, Types, TypeOK, Memory, Settings, Links, History
<1>8. Handling'
  BY Ranges, <1>a, <1>b, <1>c
  DEF KeyInv, Deleted, Step, Return, persistent, Handling, Connecting, Registering, ChangingKeys, Deleting, At, Resets, Types, TypeOK, Memory, Settings, Links, History
<1> QED
  BY <1>1, <1>2, <1>3, <1>4, <1>5, <1>6, <1>7, <1>8 DEF KeyInv


--------------------------------------------------------------------------------
(* Key files.                                                                *)

\* One file of a key that is not in use yet is written.
FileStep(owner) ==
  /\ running.todo # << >> /\ Head(running.todo) \in {"truncate", "write"}
  /\ Head(running.todo) = "write" => owner = memory.asym
  /\ owner \in 0..MaxDevices
  /\ files' = FilesWith(running.index, owner)
  /\ Proceed
  /\ UNCHANGED <<keystore, disk, store, settings, memory, link, server, update, wish, history, mishaps>>

LEMMA FileKeeps ==
  ASSUME KeyInv, NEW x, FileStep(x)
  PROVE  KeyInv'
<1> USE DEF NoDevice, NoKey
<1>a. /\ running.name \in {"account", "importKey", "prepareKey"} /\ IsHandler(running)
      /\ Tail(running.todo) \in Todo(running.name)
      /\ running.name = "account" => Tail(running.todo) \in StoreTodo
      /\ Head(Tail(running.todo)) \in {"write", "added", "stored"}
      /\ Head(running.todo) = "truncate" => Head(Tail(running.todo)) = "write"
  BY Going, StoreTodoSteps, KeyTodoSteps, DeleteTodoSteps DEF FileStep, Handlers
<1>b. /\ IsHandler(running)' /\ running'.name = running.name /\ running'.of = running.of
      /\ running'.index = running.index /\ running'.todo = Tail(running.todo)
  BY <1>a, Proceeds DEF FileStep
<1>u. /\ UNCHANGED <<keystore, disk, store, settings, memory, link, server>>
      /\ UNCHANGED <<update, wish, history, mishaps>>
  BY DEF FileStep
<1>c. /\ \A d, i : i # running.index /\ KeyFile(d, i) => KeyFile(d, i)'
      /\ running.index \in DOMAIN files' /\ files'[running.index] = x
      /\ DOMAIN files' = DOMAIN files \cup {running.index}
      /\ \A i \in DOMAIN files' : files'[i] \in 0..MaxDevices
  <2>1. \A i \in DOMAIN files : files[i] \in 0..MaxDevices
    BY DEF KeyInv, Types, TypeOK
  <2>2. /\ files' = [i \in DOMAIN files \cup {running.index} |->
                     IF i = running.index THEN x ELSE files[i]]
        /\ x \in 0..MaxDevices
    BY DEF FileStep, FilesWith
  <2>3. /\ DOMAIN files' = DOMAIN files \cup {running.index} /\ files'[running.index] = x
        /\ \A i \in DOMAIN files : i # running.index => files'[i] = files[i]
    BY <2>2
  <2>4. \A i \in DOMAIN files' : files'[i] \in 0..MaxDevices
    BY <2>1, <2>2, <2>3
  <2>5. \A d, i : i # running.index /\ KeyFile(d, i) => KeyFile(d, i)'
    BY <2>3 DEF KeyFile
  <2>6. running.index \in DOMAIN files' /\ files'[running.index] = x
    BY <2>3
  <2> QED
    BY <2>3, <2>4, <2>5, <2>6
<1>d. /\ running.name = "account" => disk.device = NoDevice /\ running.index = server.index
      /\ running.name = "importKey" =>
           running.index = server.index /\ server.change # NoKey
      /\ running.name = "prepareKey" =>
           /\ running.index = server.index + 1
           /\ settings.next # running.index /\ disk.next # running.index
  BY DEF KeyInv, Handling, Registering, ChangingKeys, Registrations
<1>e. /\ server.index \in Nat /\ settings.next \in Nat /\ disk.next \in Nat
      /\ settings.local \in Nat /\ disk.local \in Nat /\ memory.local \in Nat
  BY Ranges DEF KeyInv, Types, TypeOK, Settings, Memory
<1>1. Types'
  <2>1. running.index \in 0..MaxIndex + 1
    BY <1>a DEF IsHandler
  <2> QED
    BY <1>u, <1>b, <1>c, <2>1 DEF KeyInv, Types, TypeOK
<1>2. Registrations' /\ Identity'
  BY <1>u DEF KeyInv, Registrations, Identity, Known
<1>3. Provided' /\ Signing'
  BY <1>u, <1>a, <1>b DEF KeyInv, Provided, Signing, Resets
<1>4. Connected'
  BY <1>u, <1>a, <1>b DEF KeyInv, Connected
<1>5. Updating'
  <2>1. update # "sent"
    BY <1>a DEF KeyInv, Updating, Handling, Registering, ChangingKeys
  <2> QED
    BY <1>u, <2>1 DEF KeyInv, Updating
<1>6. Loaded'
  <2>1. \A i \in Needed : running.name # "account" => i # running.index
    BY <1>a, <1>d, <1>e, Ranges DEF Needed
  <2>2. running.name = "account" => memory.device \notin history.unsaved
    BY DEF KeyInv, Handling, Registering
  <2>3. \A i \in Needed : running.name # "account" /\ Readable(i) => Readable(i)'
    BY <1>u, <2>1, <1>c DEF Readable, KeyFile
  <2> SUFFICES ASSUME memory.device # NoDevice, memory.asym = memory.device,
                      settings.device = memory.device, memory.device \notin history.dropped
               PROVE  /\ Near(memory.local)
                      /\ memory.device \in history.unsaved => \A i \in Needed : Readable(i)'
                      /\ memory.device \notin history.unsaved =>
                           /\ running.name # "account" => settings.local = memory.local
                           /\ \A i \in memory.loaded :
                                i >= server.joined /\ ~Writing(i) => KeyFile(memory.device, i)'
    BY <1>u, <1>b DEF Loaded, Near, Needed, Writing
  <2>4. \A i : ~Writing(i) => i # running.index
    BY <1>a DEF Writing
  <2> QED
    BY <1>u, <1>c, <2>2, <2>3, <2>4 DEF KeyInv, Loaded
<1>7. InStore'
  <2>1. disk' = disk /\ settings' = settings /\ server' = server /\ store' = store /\ history' = history
    BY <1>u
  <2>2. Kept(disk)'
    <3>1. SUFFICES ASSUME disk.device \in Devices \ (history.dropped \cup history.unsaved)
                   PROVE  /\ disk.provider /\ Saved(disk.device) /\ KeyFile(disk.device, disk.local)'
                          /\ Near(disk.local)
                          /\ \A i \in Needed : KeyFile(disk.device, i)'
      BY <2>1 DEF Kept, Saved, Near, Needed
    <3>2. /\ disk.provider /\ Saved(disk.device) /\ KeyFile(disk.device, disk.local)
          /\ Near(disk.local) /\ \A i \in Needed : KeyFile(disk.device, i)
      BY <3>1 DEF KeyInv, InStore, Kept
    <3>3. running.name # "account"
      BY <1>d, <3>1, Ranges DEF Devices
    <3>4. disk.local # running.index
      BY <1>a, <1>d, <1>e, <3>2, <3>3, Ranges DEF Near
    <3>5. \A i \in Needed : i # running.index
      BY <1>a, <1>d, <1>e, <3>3, Ranges DEF Needed
    <3> QED
      BY <1>c, <2>1, <3>2, <3>4, <3>5
  <2>3. Prepared(disk)' /\ Prepared(settings)'
    <3>1. \A s \in {disk, settings} :
            s.device \in Devices \ history.dropped /\ <<s.device, s.next>> \in history.prepared
              /\ s.next > server.index => s.next # running.index
      BY <1>a, <1>d, <1>e, Ranges DEF Devices
    <3> QED
      BY <1>c, <2>1, <3>1 DEF KeyInv, InStore, Prepared
  <2> QED
    BY <1>a, <1>b, <2>2, <2>3 DEF InStore
<1>8. Handling'
  <2>1. Registering'
    <3>1. ASSUME running.name = "account"
          PROVE  /\ ~At({"open", "sign"}) /\ ~At({"open", "sign", "crypt"})
                 /\ At({"stored"})' => KeyFile(running.of, running.index)'
      <4>1. At({"stored"})' => x = memory.asym
        BY <1>a, <1>b DEF At, FileStep
      <4>2. memory.asym = running.of
        BY <3>1 DEF KeyInv, Handling, Registering
      <4>3. Head(running.todo) \in {"truncate", "write"}
        BY DEF FileStep
      <4> QED
        BY <1>b, <1>c, <4>1, <4>2, <4>3 DEF At, KeyFile
    <3> QED
      BY <1>u, <1>b, <3>1 DEF KeyInv, Handling, Registering
  <2>2. ChangingKeys'
    <3>1. At({"added"})' => x = memory.asym
      BY <1>a, <1>b DEF At, FileStep
    <3>2. At({"added"})' => KeyFile(memory.asym, running.index)'
      BY <1>u, <1>b, <1>c, <3>1 DEF KeyFile
    <3> QED
      BY <1>u, <1>b, <3>1, <3>2 DEF KeyInv, Handling, ChangingKeys
  <2> QED
    BY <1>u, <1>a, <1>b, <2>1, <2>2 DEF Handling, Connecting, Deleting, Resets
<1> QED
  BY <1>1, <1>2, <1>3, <1>4, <1>5, <1>6, <1>7, <1>8 DEF KeyInv

LEMMA TruncateKeeps ==
  ASSUME KeyInv, Truncate
  PROVE  KeyInv'
<1>1. NoDevice \in 0..MaxDevices
  BY Ranges DEF NoDevice
<1> QED
  BY <1>1, FileKeeps DEF FileStep, Truncate, Step

LEMMA WriteKeeps ==
  ASSUME KeyInv, Write
  PROVE  KeyInv'
<1>1. memory.asym \in 0..MaxDevices
  BY DEF KeyInv, Types, TypeOK, Memory
<1> QED
  BY <1>1, FileKeeps DEF FileStep, Write, Step

LEMMA StoredKeeps ==
  ASSUME KeyInv, Stored
  PROVE  KeyInv'
<1> USE DEF NoDevice, NoKey
<1>a. /\ running.name = "account" /\ running' = NoHandler /\ running'.name = "none"
      /\ IsHandler(running)' /\ link' = "session" /\ link = "registering" /\ update = "none"
  <2>1. running.name = "account"
    BY Going, KeyTodoSteps, DeleteTodoSteps DEF Stored, Step, Handlers
  <2> QED
    BY <2>1, Idle DEF Stored, Return, KeyInv, Handling, Registering, Updating
<1>b. /\ memory' \in Memory /\ memory'.device = memory.device /\ memory'.asym = memory.asym
      /\ memory'.local = memory.local /\ memory'.loaded = memory.loaded
  BY MemoryForms DEF Stored, KeyInv, Types, TypeOK
<1>c. /\ settings' \in Settings /\ settings'.device = settings.device /\ settings'.provider
      /\ settings'.local = memory.local /\ settings'.next = settings.next
  <2>1. memory.local \in Indices /\ TRUE \in BOOLEAN
    BY DEF KeyInv, Types, TypeOK, Memory
  <2> QED
    BY <2>1 DEF Stored, KeyInv, Types, TypeOK, Settings
<1>d. /\ disk.device = NoDevice /\ settings.device # NoDevice /\ settings.device = memory.device
      /\ settings.device = server.device /\ memory.asym = memory.device
      /\ settings.device \notin history.dropped \cup history.unsaved
      /\ memory.local = server.index /\ memory.local = server.joined /\ server.change = NoKey
      /\ memory.loaded = {0, memory.local}
      /\ <<"sign", settings.device>> \in store /\ <<"crypt", settings.device>> \in store
      /\ KeyFile(settings.device, memory.local) /\ memory.local \in Nat
  <2>1. /\ ~At({"open", "sign"}) /\ ~At({"open", "sign", "crypt"}) /\ At({"stored"})
    BY DEF Stored, Step, At
  <2>2. memory.local \in Nat
    BY Ranges DEF KeyInv, Types, TypeOK, Memory
  <2> QED
    BY <1>a, <2>1, <2>2 DEF KeyInv, Handling, Registering
<1>1. Types'
  BY Ranges, <1>a, <1>b, <1>c, <1>d
  DEF KeyInv, Stored, Step, Return, persistent, Types, TypeOK, Links
<1>2. Registrations' /\ Identity'
  BY Ranges, <1>a, <1>b, <1>c, <1>d
  DEF KeyInv, Stored, Step, Return, persistent, Registrations, Identity, Known, Types, TypeOK, Memory, Settings, Links, History
<1>3. Provided' /\ Signing'
  BY Ranges, <1>a, <1>b, <1>c, <1>d
  DEF KeyInv, Stored, Step, Return, persistent, Provided, Signing, Resets, Types, TypeOK, Memory, Settings, Links, History
<1>4. Connected'
  BY Ranges, <1>a, <1>b, <1>c, <1>d
  DEF KeyInv, Stored, Step, Return, persistent, Connected, Types, TypeOK, Memory, Settings, Links, History
<1>5. Updating'
  BY Ranges, <1>a, <1>b, <1>c, <1>d
  DEF KeyInv, Stored, Step, Return, persistent, Updating, Connected, Readable, Types, TypeOK, Memory, Settings, Links, History
<1>6. Loaded'
  <2>1. /\ Near(memory.local) /\ settings.device \notin history.unsaved
        /\ \A i \in memory.loaded : i >= server.joined => i = memory.local
    BY <1>d DEF Near
  <2>2. UNCHANGED <<files, server, history>>
    BY DEF Stored, persistent
  <2> QED
    BY <1>a, <1>b, <1>c, <1>d, <2>1, <2>2 DEF Loaded, Near, KeyFile
<1>7. InStore'
  <2>1. Saved(settings.device)
    BY <1>d DEF Saved, Parts
  <2>2. Near(memory.local) /\ Needed = {memory.local}
    BY <1>d, Ranges DEF Near, Needed
  <2>3. Kept(settings)'
    BY <1>c, <1>d, <2>1, <2>2 DEF Kept, Stored, persistent, Near, Needed, KeyFile, Saved
  <2>4. Kept(disk)' /\ Prepared(disk)' /\ Prepared(settings)'
    BY <1>c, <1>d DEF Kept, KeyInv, InStore, Prepared, Stored, persistent, KeyFile, Devices
  <2> QED
    BY <2>3, <2>4 DEF InStore
<1>8. Handling'
  BY Ranges, <1>a, <1>b, <1>c, <1>d
  DEF KeyInv, Stored, Step, Return, persistent, Handling, Connecting, Registering, ChangingKeys, Deleting, At, Resets, Types, TypeOK, Memory, Settings, Links, History
<1> QED
  BY <1>1, <1>2, <1>3, <1>4, <1>5, <1>6, <1>7, <1>8 DEF KeyInv

\* cleanCiphers takes no key that is needed, and not the one before the new one.
LEMMA CleanKeeps ==
  ASSUME KeyInv, NEW j \in Nat, files' = Without(cleanCiphers(j))
  PROVE  /\ \A d, i : i \in Nat /\ i + KeptKeys >= j /\ KeyFile(d, i) => KeyFile(d, i)'
         /\ \A i \in cleanCiphers(j) : i \in Nat /\ i + KeptKeys < j
         /\ DOMAIN files' \subseteq 0..MaxIndex + 1
         /\ \A i \in DOMAIN files' : files'[i] \in 0..MaxDevices
<1>1. DOMAIN files \subseteq 0..MaxIndex + 1 /\ \A i \in DOMAIN files : files[i] \in 0..MaxDevices
  BY DEF KeyInv, Types, TypeOK
<1>2. \A i \in cleanCiphers(j) : i \in Nat /\ i + KeptKeys < j
  BY <1>1, Ranges DEF cleanCiphers
<1>3. \A d, i : i \in Nat /\ i + KeptKeys >= j /\ KeyFile(d, i) => KeyFile(d, i)'
  <2>1. \A i \in Nat : i + KeptKeys >= j => i \notin cleanCiphers(j)
    BY <1>2, Ranges
  <2> QED
    BY <2>1 DEF KeyFile, Without
<1> QED
  BY <1>1, <1>2, <1>3 DEF Without

LEMMA KeyImportedKeeps ==
  ASSUME KeyInv, KeyImported
  PROVE  KeyInv'
<1> USE DEF NoDevice, NoKey
<1>j. PICK j \in Nat : j = running.index
  <2>1. running.index \in 0..MaxIndex + 1
    BY DEF KeyInv, Types, IsHandler
  <2> QED
    BY <2>1, Ranges
<1>a. /\ running.name = "importKey" /\ running' = NoHandler /\ running'.name = "none"
      /\ IsHandler(running)' /\ link = "session" /\ update = "none"
      /\ disk.device = settings.device /\ disk.provider = settings.provider
      /\ disk.local = settings.local /\ disk.next = settings.next
      /\ j = server.index /\ j = server.change /\ server.change # NoKey /\ j = memory.local + 1
      /\ j \in Nat /\ memory.local \in Nat /\ server.joined \in Nat /\ server.joined <= j
      /\ j \in Indices /\ j \in memory.loaded /\ memory.device # NoDevice
      /\ memory.asym = memory.device /\ KeyFile(memory.device, j)
      /\ memory.device = server.device
      /\ settings.device # NoDevice => settings.device = memory.device
  <2>1. running.name = "importKey" /\ At({"added"}) /\ running' = NoHandler
    BY DEF KeyImported, Step, Names, Return, At
  <2>2. server.index \in Indices /\ server.joined \in Indices /\ memory.local \in Indices
    BY DEF KeyInv, Types, TypeOK, Memory
  <2> QED
    BY <1>j, <2>1, <2>2, Idle, Ranges
    DEF KeyInv, Handling, ChangingKeys, Registrations, Connected, Updating, Identity, Known
<1>n. /\ j \in Nat /\ memory.local \in Nat /\ server.joined \in Nat /\ server.joined <= j
      /\ j = memory.local + 1 /\ j = server.index /\ j # 0 /\ server.change # 0
  BY <1>a
<1>b. /\ memory' \in Memory /\ memory'.device = memory.device /\ memory'.asym = memory.asym
      /\ memory'.local = j /\ memory'.loaded = memory.loaded \ cleanCiphers(j)
  <2>1. /\ memory' = [memory EXCEPT !.local = j, !.loaded = memory.loaded \ cleanCiphers(j)]
        /\ memory.loaded \ cleanCiphers(j) \in SUBSET (0..MaxIndex + 1)
    BY <1>j DEF KeyImported, KeyInv, Types, TypeOK, Memory
  <2> QED
    BY <1>a, <2>1 DEF KeyInv, Types, TypeOK, Memory
<1>c. /\ settings' \in Settings /\ settings'.device = settings.device
      /\ settings'.provider = settings.provider /\ settings'.local = j
      /\ settings'.next = settings.next
  BY <1>a, <1>j DEF KeyImported, KeyInv, Types, TypeOK, Settings
<1>d. /\ server' \in [device : 0..MaxDevices, joined : Indices, index : Indices, change : Indices]
      /\ server'.device = server.device /\ server'.joined = server.joined
      /\ server'.index = j /\ server'.change = NoKey
  BY <1>a, Ranges DEF KeyImported, KeyInv, Types, TypeOK
<1>e. UNCHANGED <<keystore, disk, store, link, update, wish, history, mishaps>>
  BY DEF KeyImported
<1>f. /\ \A d, i : i \in Nat /\ i + KeptKeys >= j /\ KeyFile(d, i) => KeyFile(d, i)'
      /\ \A i \in cleanCiphers(j) : i \in Nat /\ i + KeptKeys < j
      /\ DOMAIN files' \subseteq 0..MaxIndex + 1
      /\ \A i \in DOMAIN files' : files'[i] \in 0..MaxDevices
  BY <1>j, CleanKeeps DEF KeyImported
<1>g. /\ \A i \in Needed' : i \in Nat /\ i + KeptKeys >= j /\ (i \in Needed \/ i = j)
      /\ \A l \in Nat : (l = j \/ l = memory.local) /\ Near(memory.local) => Near(l)'
      /\ j + KeptKeys >= j /\ memory.local + KeptKeys >= j /\ j \notin cleanCiphers(j)
  <2>1. \A i \in Needed' : i \in Nat /\ i + KeptKeys >= j /\ (i \in Needed \/ i = j)
    BY <1>n, <1>d, Ranges DEF Needed
  <2>2. \A l \in Nat : (l = j \/ l = memory.local) /\ Near(memory.local) => Near(l)'
    BY <1>n, <1>d, Ranges DEF Near
  <2>3. j + KeptKeys >= j /\ memory.local + KeptKeys >= j
    BY <1>n, Ranges
  <2> QED
    BY <2>1, <2>2, <2>3, <1>n, <1>f, Ranges
<1>h. ASSUME settings.device # NoDevice, settings.device \notin history.dropped
      PROVE  /\ memory.device = settings.device /\ Near(memory.local)
             /\ settings.device \notin history.unsaved => settings.local = memory.local
  BY <1>a, <1>h DEF KeyInv, Loaded
<1>1. Types'
  BY <1>a, <1>b, <1>c, <1>d, <1>e, <1>f DEF KeyInv, Types, TypeOK
<1>2. Registrations' /\ Identity'
  BY Ranges, <1>a, <1>b, <1>c, <1>d, <1>e, <1>f
  DEF KeyInv, KeyImported, Step, Return, persistent, Registrations, Identity, Known, Types, TypeOK, Memory, Settings, Links, History
<1>3. Provided' /\ Signing'
  BY Ranges, <1>a, <1>b, <1>c, <1>d, <1>e, <1>f
  DEF KeyInv, KeyImported, Step, Return, persistent, Provided, Signing, Resets, Types, TypeOK, Memory, Settings, Links, History
<1>4. Connected'
  BY Ranges, <1>a, <1>b, <1>c, <1>d, <1>e, <1>f
  DEF KeyInv, KeyImported, Step, Return, persistent, Connected, Types, TypeOK, Memory, Settings, Links, History
<1>5. Updating'
  BY Ranges, <1>a, <1>b, <1>c, <1>d, <1>e, <1>f
  DEF KeyInv, KeyImported, Step, Return, persistent, Updating, Connected, Readable, Types, TypeOK, Memory, Settings, Links, History
<1>6. Loaded'
  <2> SUFFICES ASSUME settings.device = memory.device, memory.device \notin history.dropped
               PROVE  /\ Near(j)'
                      /\ memory.device \in history.unsaved => \A i \in Needed' : Readable(i)'
                      /\ memory.device \notin history.unsaved =>
                           \A i \in memory'.loaded : i >= server.joined => KeyFile(memory.device, i)'
    BY <1>a, <1>b, <1>c, <1>d, <1>e DEF Loaded
  <2>1. Near(memory.local)
    BY <1>a DEF KeyInv, Loaded
  <2>2. Near(j)'
    BY <1>a, <1>b, <1>g, <2>1
  <2>3. ASSUME memory.device \in history.unsaved, NEW i \in Needed'
        PROVE  Readable(i)'
    <3>1. Readable(i) /\ i \in Nat /\ i + KeptKeys >= j
      BY <1>a, <1>g, <2>3 DEF KeyInv, Loaded, Readable
    <3>2. i \notin cleanCiphers(j)
      BY <1>a, <1>f, <3>1, Ranges
    <3>3. i \in memory.loaded => i \in memory'.loaded
      BY <1>b, <3>2
    <3>4. KeyFile(memory.asym, i) => KeyFile(memory.asym, i)'
      BY <1>b, <1>f, <3>1 DEF KeyFile
    <3> QED
      BY <1>b, <3>1, <3>3, <3>4 DEF Readable, KeyFile
  <2>4. ASSUME memory.device \notin history.unsaved, NEW i \in memory'.loaded, i >= server.joined
        PROVE  KeyFile(memory.device, i)'
    <3>1. i \in memory.loaded /\ i \notin cleanCiphers(j) /\ i \in Nat
      BY <1>b, Ranges DEF KeyInv, Types, TypeOK, Memory
    <3>2. KeyFile(memory.device, i)
      <4>1. Writing(i) => i = j
        BY <1>j DEF Writing
      <4> QED
        BY <1>a, <2>4, <3>1, <4>1 DEF KeyInv, Loaded
    <3>3. i + KeptKeys >= j
      BY <1>a, <3>1, <3>2, Ranges DEF cleanCiphers, KeyFile
    <3> QED
      BY <1>b, <1>f, <3>1, <3>2, <3>3 DEF KeyFile
  <2> QED
    BY <2>2, <2>3, <2>4
<1>7. InStore'
  <2>1. ASSUME settings.device \in Devices \ (history.dropped \cup history.unsaved)
        PROVE  /\ settings.provider /\ Saved(settings.device) /\ disk.local = memory.local
               /\ KeyFile(settings.device, j)' /\ KeyFile(settings.device, disk.local)'
               /\ \A l \in Nat : (l = j \/ l = memory.local) => Near(l)'
               /\ \A i \in Needed' : KeyFile(settings.device, i)'
    <3>1. /\ settings.provider /\ Saved(settings.device) /\ KeyFile(settings.device, settings.local)
          /\ \A i \in Needed : KeyFile(settings.device, i)
      BY <1>a, <2>1 DEF KeyInv, InStore, Kept
    <3>2. /\ settings.device = memory.device /\ Near(memory.local) /\ settings.local = memory.local
      BY <1>h, <2>1 DEF Devices
    <3>3. KeyFile(settings.device, j)
      BY <1>a, <3>2
    <3> QED
      BY <1>a, <1>c, <1>e, <1>f, <1>g, <1>n, <3>1, <3>2, <3>3 DEF KeyFile
  <2>2. Kept(settings)' /\ Kept(disk)'
    <3>1. disk.local \in Nat
      BY Ranges DEF KeyInv, Types, TypeOK, Settings
    <3>2. Kept(settings)'
      BY <1>b, <1>c, <1>e, <1>n, <2>1 DEF Kept, Saved, KeyFile
    <3>3. Kept(disk)'
      BY <1>a, <1>b, <1>c, <1>e, <1>n, <2>1, <3>1 DEF Kept, Saved, KeyFile
    <3> QED
      BY <3>2, <3>3
  <2>3. Prepared(settings)' /\ Prepared(disk)'
    <3>1. /\ settings.next \in Nat /\ Prepared(settings)
          /\ settings.next > j => settings.next + KeptKeys >= j
      BY <1>a, Ranges DEF KeyInv, InStore, Types, TypeOK, Settings
    <3> QED
      BY <1>a, <1>c, <1>d, <1>e, <1>f, <3>1 DEF Prepared
  <2> QED
    BY <2>2, <2>3 DEF InStore
<1>8. Handling'
  BY Ranges, <1>a, <1>b, <1>c, <1>d, <1>e, <1>f
  DEF KeyInv, KeyImported, Step, Return, persistent, Handling, Connecting, Registering, ChangingKeys, Deleting, At, Resets, Types, TypeOK, Memory, Settings, Links, History
<1> QED
  BY <1>1, <1>2, <1>3, <1>4, <1>5, <1>6, <1>7, <1>8 DEF KeyInv


LEMMA KeyPreparedKeeps ==
  ASSUME KeyInv, KeyPrepared
  PROVE  KeyInv'
<1> USE DEF NoDevice, NoKey
<1>j. PICK j \in Nat : j = running.index
  <2>1. running.index \in 0..MaxIndex + 1
    BY DEF KeyInv, Types, IsHandler
  <2> QED
    BY <2>1, Ranges
<1>a. /\ running.name = "prepareKey" /\ running' = NoHandler /\ running'.name = "none"
      /\ IsHandler(running)' /\ link = "session" /\ update = "asked" /\ server.change = NoKey
      /\ settings.device = disk.device /\ settings.provider = disk.provider
      /\ settings.local = disk.local /\ settings.next = disk.next /\ disk.next # j
      /\ j = server.index + 1 /\ j = memory.local + 1 /\ j \in memory.loaded
      /\ memory.local \in Nat /\ server.index \in Nat /\ j \in 0..MaxIndex + 1
      /\ memory.device \in Devices /\ memory.asym = memory.device /\ KeyFile(memory.device, j)
      /\ memory.device = server.device
      /\ settings.device # NoDevice => settings.device = memory.device
  <2>1. running.name = "prepareKey" /\ At({"added"}) /\ running' = NoHandler
    BY DEF KeyPrepared, Step, Names, Return, At
  <2>2. /\ server.index \in Indices /\ memory.local \in Indices
        /\ memory.device \in 0..MaxDevices /\ running.index \in 0..MaxIndex + 1
    BY DEF KeyInv, Types, TypeOK, Memory, IsHandler
  <2>3. memory.device # NoDevice /\ memory.asym = memory.device /\ memory.device = server.device
    BY <2>1 DEF KeyInv, Handling, ChangingKeys, Connected, Identity, Known
  <2>4. /\ link = "session" /\ settings = disk /\ update = "asked"
        /\ running.index = memory.local + 1 /\ running.index \in memory.loaded
        /\ running.index = server.index + 1 /\ settings.next # running.index
        /\ KeyFile(memory.asym, running.index)
    BY <2>1 DEF KeyInv, Handling, ChangingKeys
  <2>5. server.change = NoKey /\ (settings.device # NoDevice => settings.device = memory.device)
    BY <2>3, <2>4 DEF KeyInv, Updating, Identity, Known
  <2> QED
    BY <1>j, <2>1, <2>2, <2>3, <2>4, <2>5, Idle, Ranges DEF Devices
<1>c. /\ settings' \in Settings /\ settings'.device = settings.device
      /\ settings'.provider = settings.provider /\ settings'.local = settings.local
      /\ settings'.next = j
  BY <1>a, <1>j DEF KeyPrepared, KeyInv, Types, TypeOK, Settings
<1>d. /\ history' \in History /\ history'.last = history.last
      /\ history'.unsaved = history.unsaved /\ history'.dropped = history.dropped
      /\ history'.unloaded = history.unloaded
      /\ history'.prepared = history.prepared \cup {<<memory.device, j>>}
  <2>2. <<memory.device, j>> \in Devices \X (0..MaxIndex + 1)
    BY <1>a
  <2>3. history.prepared \cup {<<memory.device, j>>} \in SUBSET (Devices \X (0..MaxIndex + 1))
    BY <2>2 DEF KeyInv, Types, History
  <2>4. history' = [history EXCEPT !.prepared = history.prepared \cup {<<memory.device, j>>}]
    BY <1>j DEF KeyPrepared, KeyInv, Types, History
  <2>1. /\ history.prepared \cup {<<memory.device, j>>} \in SUBSET (Devices \X (0..MaxIndex + 1))
        /\ history' = [history EXCEPT !.prepared = history.prepared \cup {<<memory.device, j>>}]
    BY <2>3, <2>4
  <2> QED
    BY <2>1 DEF KeyInv, Types, History
<1>e. update' = "sent" /\ UNCHANGED <<keystore, disk, files, store, memory, link, server, wish, mishaps>>
  BY DEF KeyPrepared, persistent
<1>1. Types'
  BY <1>a, <1>c, <1>d, <1>e DEF KeyInv, Types, TypeOK
<1>2. Registrations' /\ Identity'
  <2>1. memory.device <= history.last
    BY <1>a DEF KeyInv, Registrations
  <2>2. \A p \in history'.prepared : p[1] <= history.last
    BY <1>d, <2>1 DEF KeyInv, Registrations
  <2> QED
    BY <1>c, <1>d, <1>e, <2>2 DEF KeyInv, Registrations, Identity, Known
<1>3. Provided' /\ Signing'
  BY Ranges, <1>a, <1>c, <1>d, <1>e
  DEF KeyInv, KeyPrepared, Step, Return, persistent, Provided, Signing, Resets, Types, TypeOK, Memory, Settings, Links, History
<1>4. Connected'
  BY Ranges, <1>a, <1>c, <1>d, <1>e
  DEF KeyInv, KeyPrepared, Step, Return, persistent, Connected, Types, TypeOK, Memory, Settings, Links, History
<1>5. Updating'
  <2>1. memory.local = server.index /\ Readable(server.index + 1)
    BY <1>a DEF Readable
  <2> QED
    BY <1>a, <1>c, <1>e, <2>1 DEF Updating, Readable
<1>6. Loaded'
  <2>1. \A i : Writing(i) => i = j
    BY <1>j DEF Writing
  <2> QED
    BY <1>a, <1>c, <1>d, <1>e, <2>1 DEF KeyInv, Loaded, Near, Needed, Readable, KeyFile
<1>7. InStore'
  <2>1. Kept(disk)' /\ Kept(settings)'
    BY <1>a, <1>c, <1>d, <1>e DEF KeyInv, InStore, Kept, Near, Needed, KeyFile, Saved
  <2>2. Prepared(settings)'
    BY <1>a, <1>c, <1>e DEF Prepared, KeyFile, Devices
  <2>3. Prepared(disk)'
    <3>1. <<disk.device, disk.next>> \in history'.prepared => <<disk.device, disk.next>> \in history.prepared
      BY <1>a, <1>d
    <3> QED
      BY <1>d, <1>e, <3>1 DEF KeyInv, InStore, Prepared, KeyFile
  <2> QED
    BY <2>1, <2>2, <2>3 DEF InStore
<1>8. Handling'
  BY Ranges, <1>a, <1>c, <1>d, <1>e
  DEF KeyInv, KeyPrepared, Step, Return, persistent, Handling, Connecting, Registering, ChangingKeys, Deleting, At, Resets, Types, TypeOK, Memory, Settings, Links, History
<1> QED
  BY <1>1, <1>2, <1>3, <1>4, <1>5, <1>6, <1>7, <1>8 DEF KeyInv

LEMMA ActivateKeeps ==
  ASSUME KeyInv, NewKeyAck, memory.local + 1 = server.index, settings.next = server.index
  PROVE  KeyInv'
<1> USE DEF NoDevice, NoKey
<1>j. PICK j \in Nat : j = server.index
  BY Ranges DEF KeyInv, Types, TypeOK
<1>a. /\ running.name = "none" /\ running' = running /\ link \in {"session", "resetting"} /\ link' = link
      /\ settings.device = disk.device /\ settings.provider = disk.provider
      /\ settings.local = disk.local /\ disk.next = j
      /\ server.change = NoKey /\ update' = "none" /\ memory.local + 1 = j
      /\ UNCHANGED <<keystore, disk, store, running, server, wish, history, mishaps>>
  BY <1>j, Idle DEF NewKeyAck, Ready, activateNextKey, KeyInv, Updating
<1>n. /\ memory.local \in Nat /\ server.joined \in Nat /\ server.joined <= j /\ j \in Indices
      /\ disk.local \in Nat
  BY <1>j, Ranges DEF KeyInv, Types, TypeOK, Memory, Settings, Registrations
<1>b. /\ memory' \in Memory /\ memory'.device = memory.device /\ memory'.asym = memory.asym
      /\ memory'.local = j /\ memory'.loaded = (memory.loaded \cup {j}) \ cleanCiphers(j)
  <2>1. memory' = [memory EXCEPT !.local = j, !.loaded = (memory.loaded \cup {j}) \ cleanCiphers(j)]
    BY <1>j DEF NewKeyAck, activateNextKey, KeyInv, Types, TypeOK, Memory
  <2>2. (memory.loaded \cup {j}) \ cleanCiphers(j) \in SUBSET (0..MaxIndex + 1)
    BY <1>n, Ranges DEF KeyInv, Types, TypeOK, Memory
  <2> QED
    BY <1>n, <2>1, <2>2 DEF KeyInv, Types, TypeOK, Memory
<1>c. /\ settings' \in Settings /\ settings'.device = settings.device
      /\ settings'.provider = settings.provider /\ settings'.local = j /\ settings'.next = NoKey
  <2>1. settings' = [settings EXCEPT !.local = j, !.next = 0] /\ 0 \in 0..MaxIndex + 1
    BY <1>j, Ranges DEF NewKeyAck, activateNextKey
  <2> QED
    BY <1>n, <2>1 DEF KeyInv, Types, TypeOK, Settings
<1>f. /\ \A d, i : i \in Nat /\ i + KeptKeys >= j /\ KeyFile(d, i) => KeyFile(d, i)'
      /\ \A i \in cleanCiphers(j) : i \in Nat /\ i + KeptKeys < j
      /\ DOMAIN files' \subseteq 0..MaxIndex + 1
      /\ \A i \in DOMAIN files' : files'[i] \in 0..MaxDevices
  <2>1. files' = Without(cleanCiphers(j))
    BY <1>j DEF NewKeyAck, activateNextKey
  <2> QED
    BY <2>1, CleanKeeps
<1>g. /\ j \in Needed /\ Near(j) /\ \A i \in Needed : i \in Nat /\ i + KeptKeys >= j
      /\ \A l \in Nat : Near(l) => l + KeptKeys >= j
      /\ Near(j)' /\ Needed' = Needed /\ \A l \in Nat : Near(l) => Near(l)'
  <2>1. j \in Needed /\ Near(j)
    BY <1>j, <1>a, <1>n, Ranges DEF Needed, Near
  <2>2. \A i \in Needed : i \in Nat /\ i + KeptKeys >= j
    BY <1>j, <1>a, <1>n, Ranges DEF Needed
  <2>3. \A l \in Nat : Near(l) => l + KeptKeys >= j
    BY <1>j, <1>a, <1>n, Ranges DEF Near
  <2>4. Near(j)' /\ Needed' = Needed /\ \A l \in Nat : Near(l) => Near(l)'
    BY <1>a, <2>1 DEF Needed, Near
  <2> QED
    BY <2>1, <2>2, <2>3, <2>4
<1>1. Types'
  BY <1>a, <1>b, <1>c, <1>f DEF KeyInv, Types, TypeOK
<1>2. Registrations' /\ Identity'
  BY <1>a, <1>b, <1>c DEF KeyInv, Registrations, Identity, Known
<1>3. Provided' /\ Signing'
  BY <1>a, <1>b, <1>c DEF KeyInv, Provided, Signing, Resets
<1>4. Connected' /\ Updating'
  BY <1>a, <1>b, <1>c DEF KeyInv, Connected, Updating
<1>6. Loaded'
  <2> SUFFICES ASSUME memory.device # NoDevice, memory.asym = memory.device,
                      settings.device = memory.device, memory.device \notin history.dropped
               PROVE  /\ memory.device \in history.unsaved => \A i \in Needed : Readable(i)'
                      /\ memory.device \notin history.unsaved =>
                           \A i \in memory'.loaded : i >= server.joined => KeyFile(memory.device, i)'
    BY <1>a, <1>b, <1>c, <1>g DEF Loaded
  <2>1. ASSUME memory.device \in history.unsaved, NEW i \in Needed
        PROVE  Readable(i)'
    <3>1. Readable(i) /\ i \in Nat /\ i + KeptKeys >= j
      BY <1>g, <2>1 DEF KeyInv, Loaded
    <3>2. i \notin cleanCiphers(j)
      BY <1>f, <3>1, Ranges
    <3>3. i \in memory.loaded => i \in memory'.loaded
      BY <1>b, <3>2
    <3>4. KeyFile(memory.asym, i) => KeyFile(memory.asym, i)'
      BY <1>b, <1>f, <3>1 DEF KeyFile
    <3> QED
      BY <1>b, <3>1, <3>3, <3>4 DEF Readable, KeyFile
  <2>2. ASSUME memory.device \notin history.unsaved, NEW i \in memory'.loaded, i >= server.joined
        PROVE  KeyFile(memory.device, i)'
    <3>1. i \in memory.loaded \cup {j} /\ i \notin cleanCiphers(j) /\ i \in Nat
      BY <1>b, Ranges DEF KeyInv, Types, TypeOK, Memory
    <3>2. KeyFile(memory.device, i)
      <4>1. memory.device \in Devices
        BY Ranges DEF KeyInv, Types, TypeOK, Memory, Devices
      <4>2. i = j => KeyFile(memory.device, i)
        BY <1>a, <1>g, <2>2, <4>1 DEF KeyInv, InStore, Kept
      <4>3. i \in memory.loaded => KeyFile(memory.device, i)
        BY <1>a, <2>2 DEF KeyInv, Loaded, Writing
      <4> QED
        BY <3>1, <4>2, <4>3
    <3>3. i + KeptKeys >= j
      BY <3>1, <3>2, Ranges DEF cleanCiphers, KeyFile
    <3> QED
      BY <1>b, <1>f, <3>1, <3>2, <3>3 DEF KeyFile
  <2> QED
    BY <2>1, <2>2
<1>7. InStore'
  <2>1. ASSUME settings.device \in Devices \ (history.dropped \cup history.unsaved)
        PROVE  /\ settings.provider /\ Saved(settings.device)
               /\ KeyFile(settings.device, disk.local)' /\ Near(disk.local)'
               /\ \A i \in Needed : KeyFile(settings.device, i)'
    <3>1. /\ disk.provider /\ Saved(disk.device) /\ KeyFile(disk.device, disk.local)
          /\ Near(disk.local) /\ \A i \in Needed : KeyFile(disk.device, i)
      BY <1>a, <2>1 DEF KeyInv, InStore, Kept
    <3>2. disk.local + KeptKeys >= j /\ Near(disk.local)'
      <4>1. \A l \in Nat : l = disk.local => Near(l)'
        BY <1>g, <3>1
      <4> QED
        BY <1>a, <1>g, <1>n, <3>1, <4>1
    <3> QED
      BY <1>a, <1>c, <1>f, <1>g, <1>n, <3>1, <3>2 DEF KeyFile
  <2>2. Kept(settings)'
    <3>1. settings.device \in Devices \ (history.dropped \cup history.unsaved) => Near(j)' /\ KeyFile(settings.device, j)'
      BY <1>g, <2>1
    <3> QED
      BY <1>a, <1>c, <1>g, <2>1, <3>1 DEF Kept, Saved, KeyFile
  <2>3. Kept(disk)'
    BY <1>a, <1>c, <1>g, <2>1 DEF Kept, Saved, KeyFile
  <2>4. Prepared(settings)' /\ Prepared(disk)'
    BY <1>j, <1>a, <1>c DEF Prepared
  <2> QED
    BY <2>2, <2>3, <2>4 DEF InStore
<1>8. Handling'
  BY <1>a DEF Handling, Connecting, Registering, ChangingKeys, Deleting, Resets
<1> QED
  BY <1>1, <1>2, <1>3, <1>4, <1>6, <1>7, <1>8 DEF KeyInv

LEMMA NewKeyAckKeeps ==
  ASSUME KeyInv, NewKeyAck
  PROVE  KeyInv'
<1>1. ASSUME memory.local + 1 # server.index \/ settings.next # server.index
      PROVE  KeyInv'
  <2>1. /\ UNCHANGED <<files, settings, memory, link, keystore, disk, store>>
        /\ UNCHANGED <<running, server, wish, history, mishaps>> /\ update' = "none"
        /\ running.name = "none"
    BY <1>1, Idle DEF NewKeyAck, activateNextKey, Ready
  <2>2. Types' /\ Registrations' /\ Identity'
    BY <2>1 DEF KeyInv, Types, TypeOK, Registrations, Identity, Known
  <2>3. Provided' /\ Signing' /\ Connected' /\ Updating'
    BY <2>1 DEF KeyInv, Provided, Signing, Connected, Updating, Resets
  <2>4. Loaded' /\ InStore'
    BY <2>1 DEF KeyInv, Loaded, InStore, Kept, Prepared, Near, Needed, KeyFile, Saved, Readable, Writing
  <2>5. Handling'
    BY <2>1 DEF Handling, Connecting, Registering, ChangingKeys, Deleting, Resets
  <2> QED
    BY <2>2, <2>3, <2>4, <2>5 DEF KeyInv
<1> QED
  BY <1>1, ActivateKeeps

LEMMA WipeKeeps ==
  ASSUME KeyInv, Wipe
  PROVE  KeyInv'
<1> USE DEF NoDevice, NoKey
<1>a. /\ running.name \in Resets /\ IsHandler(running) /\ Tail(running.todo) \in Todo(running.name)
      /\ Head(Tail(running.todo)) # "wipe" /\ running.todo # << >> /\ Proceed
  <2>1. running.todo # << >> /\ Head(running.todo) = "wipe" /\ Proceed
    BY DEF Wipe, Step
  <2> QED
    BY <2>1, Going, StoreTodoSteps, KeyTodoSteps, DeleteTodoSteps DEF Handlers
<1>b. /\ IsHandler(running)' /\ running'.name = running.name /\ running'.of = running.of
      /\ running'.index = running.index /\ running'.todo = Tail(running.todo)
  BY <1>a, Proceeds
<1>c. /\ settings' \in Settings /\ settings'.device = settings.device /\ ~settings'.provider
      /\ settings'.next = settings.next
  <2>1. 0 \in Indices /\ FALSE \in BOOLEAN
    BY Ranges
  <2> QED
    BY <2>1 DEF Wipe, KeyInv, Types, TypeOK, Settings
<1>d. /\ files' = << >> /\ DOMAIN files' = {}
      /\ UNCHANGED <<keystore, disk, store, memory, link, server, update, wish, history, mishaps>>
  BY DEF Wipe
<1>e. /\ settings.device = NoDevice /\ running.of \in history.dropped /\ disk.device \in {NoDevice, running.of}
  BY <1>a DEF KeyInv, Handling, Deleting
<1>f. update # "none" => memory.device # NoDevice
  BY DEF KeyInv, Updating, Connected
<1>1. Types'
  BY <1>b, <1>c, <1>d DEF KeyInv, Types, TypeOK
<1>2. Registrations' /\ Identity'
  BY <1>c, <1>d DEF KeyInv, Registrations, Identity, Known
<1>3. Provided' /\ Signing'
  BY <1>b, <1>c, <1>d, <1>e DEF KeyInv, Provided, Signing, Resets
<1>4. Connected' /\ Updating'
  BY <1>b, <1>c, <1>d, <1>e, <1>f DEF KeyInv, Connected, Updating, Resets
<1>5. Loaded' /\ InStore'
  BY <1>a, <1>b, <1>c, <1>d, <1>e DEF Loaded, InStore, Kept, Prepared, Resets, Devices
<1>6. Handling'
  BY <1>a, <1>b, <1>c, <1>d DEF KeyInv, Handling, Connecting, Registering, ChangingKeys, Deleting, Resets
<1> QED
  BY <1>1, <1>2, <1>3, <1>4, <1>5, <1>6 DEF KeyInv


--------------------------------------------------------------------------------
(* The invariant, and what it shows.                                         *)

LEMMA InitKeyInv == Init => KeyInv
<1> SUFFICES ASSUME Init
             PROVE  KeyInv
  OBVIOUS
<1> USE DEF NoDevice, NoKey
<1>1. /\ 0 \in 0..MaxDevices /\ 0 \in Indices /\ 0 \in 0..MaxIndex + 1 /\ 0 \in 0..MaxMishaps
      /\ {} \in SUBSET (0..MaxIndex + 1)
  BY Ranges, KeyMaterialAssumption
<1>2. NoSettings \in Settings /\ NoMemory \in Memory
  BY <1>1 DEF NoSettings, NoMemory, Settings, Memory
<1>3. DOMAIN files = {} /\ store \subseteq Parts \X Devices
  <2>1. DOMAIN << >> = {}
    OBVIOUS
  <2> QED
    BY <2>1 DEF Init
<1>4. server \in [device : 0..MaxDevices, joined : Indices, index : Indices, change : Indices]
  BY <1>1 DEF Init, NoAccount
<1>5. TypeOK
  BY <1>1, <1>2, <1>3, <1>4 DEF Init, TypeOK, Links
<1>6. history \in History
  BY <1>1 DEF Init, History
<1>7. Types
  BY <1>5, <1>6, Idle DEF Types, Init
<1>8. running.name = "none" /\ update = "none" /\ link = "off"
  BY Idle DEF Init
<1>9. Registrations /\ Identity /\ Provided /\ Connected /\ Updating /\ Signing
  BY <1>8 DEF Init, NoSettings, NoMemory, NoAccount, Registrations, Identity, Known, Provided,
              Connected, Updating, Signing
<1>10. Loaded /\ InStore
  BY <1>8 DEF Init, NoSettings, NoMemory, NoAccount, Loaded, InStore, Kept, Prepared, Devices
<1>11. Handling
  BY <1>8 DEF Handling, Connecting, Registering, ChangingKeys, Deleting, Resets
<1> QED
  BY <1>7, <1>9, <1>10, <1>11 DEF KeyInv

LEMMA NextKeyInv == KeyInv /\ [Next]_vars => KeyInv'
<1> SUFFICES ASSUME KeyInv, [Next]_vars
             PROVE  KeyInv'
  OBVIOUS
<1>1. ASSUME HandlerStep
      PROVE  KeyInv'
  BY <1>1, OpenStoreKeeps, OpenNoStoreKeeps, StoreFailsKeeps, SaveKeyKeeps, LoadKeyKeeps,
     RemoveKeyKeeps, LoadLocalKeeps, TruncateKeeps, WriteKeeps, StoredKeeps, KeyImportedKeeps,
     KeyPreparedKeeps, WipeKeeps, DeletedKeeps DEF HandlerStep
<1>2. ASSUME Sync \/ Start \/ Connect
      PROVE  KeyInv'
  BY <1>2, SyncKeeps, StartKeeps, ReconnectKeeps, ConnectUnregisteredKeeps, LoadIdentityKeeps,
     NoKeyStoreKeeps DEF Connect
<1>3. ASSUME IdentifyNew \/ Identify \/ Account \/ Welcome
      PROVE  KeyInv'
  BY <1>3, IdentifyNewKeeps, IdentifyKeeps, AccountKeeps, WelcomeKeeps
<1>4. ASSUME AskForUpdate \/ DeviceKeys \/ Accept \/ NewKeyAck \/ UpdateRefused \/ OthersUpdate
      PROVE  KeyInv'
  BY <1>4, AskForUpdateKeeps, DeviceKeysKeeps, AcceptKeeps, NewKeyAckKeeps, UpdateRefusedKeeps,
     OthersUpdateKeeps
<1>5. ASSUME NEW i \in Indices, Receive(i)
      PROVE  KeyInv'
  BY <1>5, ReceiveKeeps
<1>6. ASSUME UserResets \/ InitialImport \/ RemoveAck
      PROVE  KeyInv'
  BY <1>6, UserResetsKeeps, InitialImportKeeps, RemoveAckKeeps
<1>7. ASSUME Crash \/ LoseConnection \/ Retry
      PROVE  KeyInv'
  BY <1>7, CrashKeeps, LoseConnectionKeeps, RetryKeeps
<1>8. ASSUME UNCHANGED vars
      PROVE  KeyInv'
  <2>1. /\ UNCHANGED <<keystore, settings, disk, files, store, memory, link>>
        /\ UNCHANGED <<running, server, update, wish, history, mishaps>>
    BY <1>8 DEF vars
  <2>2. Types' /\ Registrations' /\ Identity'
    BY <2>1 DEF KeyInv, Types, TypeOK, Registrations, Identity, Known
  <2>3. Provided' /\ Signing' /\ Connected' /\ Updating'
    BY <2>1 DEF KeyInv, Provided, Signing, Connected, Updating, Readable, Resets
  <2>4. Loaded' /\ InStore'
    BY <2>1 DEF KeyInv, Loaded, InStore, Kept, Prepared, Near, Needed, KeyFile, Saved, Readable, Writing
  <2>5. Handling'
    BY <2>1 DEF KeyInv, Handling, Connecting, Registering, ChangingKeys, Deleting, At, KeyFile
  <2> QED
    BY <2>2, <2>3, <2>4, <2>5 DEF KeyInv
<1> QED
  BY <1>1, <1>2, <1>3, <1>4, <1>5, <1>6, <1>7, <1>8 DEF Next

LEMMA KeyInvariant == Spec => []KeyInv
<1>1. Init => KeyInv
  BY InitKeyInv
<1>2. KeyInv /\ [Next]_vars => KeyInv'
  BY NextKeyInv
<1> QED
  BY <1>1, <1>2, PTL DEF Spec

\* A device that is stored can be loaded again, wherever registering, a change of the
\* exchange key or the removal of old keys was cut off: the settings on the disk name
\* a key store with both private keys and a key file they decrypt.
THEOREM StoredDevicesLoad == Spec => []IdentityLoads
<1>1. KeyInv => IdentityLoads
  BY DEF KeyInv, InStore, Kept, IdentityLoads
<1> QED
  BY <1>1, KeyInvariant, PTL

\* A device that is connected signs with the private keys of its own registration,
\* unless loading them has failed before.
THEOREM ConnectedDevicesSign == Spec => []SignsWithKeys
<1>1. KeyInv => SignsWithKeys
  <2>1. NoHandler.name # "connect"
    BY Idle
  <2> QED
    BY <2>1 DEF KeyInv, Signing, SignsWithKeys
<1> QED
  BY <1>1, KeyInvariant, PTL

\* A session can read every exchange key that changes for it may be encrypted with,
\* and the key it has prepared for its next update.
THEOREM SessionsReadTheirKeys == Spec => []KeysAreReadable
<1>1. KeyInv => KeysAreReadable
  <2> USE DEF NoDevice, NoKey
  <2> SUFFICES ASSUME KeyInv, Ready, link = "session", memory.asym # NoDevice,
                      server.device = memory.device, server.change = NoKey,
                      settings.device = memory.device, memory.device \notin history.dropped
               PROVE  /\ \A i \in Window : Readable(i)
                      /\ settings.next = memory.local + 1 =>
                           Readable(settings.next) \/ <<memory.device, settings.next>> \notin history.prepared
    BY DEF KeysAreReadable
  <2>1. memory.asym = memory.device /\ memory.device # NoDevice /\ running.name = "none"
    BY Idle DEF KeyInv, Connected, Ready
  <2>2. memory.device \in Devices
    BY <2>1, Ranges DEF KeyInv, Types, TypeOK, Memory, Devices
  <2>3. /\ memory.local \in Nat /\ server.index \in Nat /\ server.joined \in Nat
        /\ server.joined <= server.index /\ settings.next \in Nat
    BY Ranges DEF KeyInv, Types, TypeOK, Memory, Settings, Registrations
  <2>4. Near(memory.local)
    BY <2>1 DEF KeyInv, Loaded
  <2>5. \A i \in Needed : Readable(i)
    <3>1. CASE memory.device \in history.unsaved
      BY <2>1, <3>1 DEF KeyInv, Loaded
    <3>2. CASE memory.device \notin history.unsaved
      BY <2>1, <2>2, <3>2 DEF KeyInv, InStore, Kept, KeyFile, Readable
    <3> QED
      BY <3>1, <3>2
  <2>6. Window = Needed
    BY DEF Window, Needed
  <2>7. ASSUME settings.next = memory.local + 1, <<memory.device, settings.next>> \in history.prepared
        PROVE  Readable(settings.next)
    <3>1. ASSUME settings.next > server.index
          PROVE  Readable(settings.next)
      BY <2>1, <2>2, <2>7, <3>1 DEF KeyInv, InStore, Prepared, KeyFile, Readable
    <3>2. ASSUME ~(settings.next > server.index)
          PROVE  Readable(settings.next)
      <4>1. settings.next = server.index
        BY <2>3, <2>4, <2>7, <3>2 DEF Near
      <4>2. server.index \in Needed
        BY <2>3, Ranges DEF Needed
      <4> QED
        BY <2>5, <4>1, <4>2
    <3> QED
      BY <3>1, <3>2
  <2> QED
    BY <2>5, <2>6, <2>7
<1> QED
  BY <1>1, KeyInvariant, PTL
================================================================================
