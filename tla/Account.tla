--------------------------------- MODULE Account -------------------------------
(***************************************************************************)
(* Who belongs to an account and which key its devices share: exports,     *)
(* imports, proofs and grants, and the change of the exchange key.         *)
(*                                                                         *)
(* A device and its server client exchange messages over a connection that *)
(* may end at any time; clients reach each other through the connector     *)
(* (calls).  A client runs its tasks one after the other, each a message   *)
(* or a call.  The state machine of a device is that of Connector, reduced *)
(* to the states in which accounts and keys are handled; late tasks of     *)
(* closed connections are those of Server.                                 *)
(***************************************************************************)
EXTENDS Sequences, FiniteSets, AccountTables

CONSTANTS
  Members,     \* devices of the account, which share a first key
  Partner,     \* the member that exports the account
  MaxEvents    \* bound: what users and the network do, together

ASSUME AccountAssumption ==
  /\ Partner \in Members /\ Members \subseteq Devices
  /\ MaxAttempts \in Nat /\ MaxEvents \in Nat

VARIABLES
  device,  \* what a device keeps, see IsDevice
  link,    \* its connection, with the server's client, see Link
  tables,  \* the server's tables
  kicked,  \* ids the connector has to disconnect
  history, \* keys: the key the server accepted for an index; granted: ids the
           \* partner has accepted; joined: ids that were added, with their exports
  used     \* what the bounds count

vars == <<device, link, tables, kicked, history, used>>

FirstKey == [index |-> 0, maker |-> Partner]
NoImport == [nonce |-> 0, trusted |-> FALSE]

(***************************************************************************)
(* attempt is the number in the id of a device; exports are the nonces in  *)
(* its cache, proofs the requests its user has not answered; prepared are  *)
(* the devices for which it has marked all of its data.                    *)
(***************************************************************************)
IsDevice(r) ==
  /\ r.state \in {"off", "login", "granting", "idle", "failed"}
  /\ r.registered \in BOOLEAN /\ r.attempt \in 0..MaxAttempts /\ r.sendCmac \in BOOLEAN
  /\ r.import \in [nonce : 0..MaxEvents, trusted : BOOLEAN]
  /\ r.exports \subseteq 1..MaxEvents /\ r.proofs \subseteq Ids /\ r.prepared \subseteq Ids
  /\ IsRing(r.ring)
  /\ r.registered => HasKey(r.ring, r.ring.local)

(***************************************************************************)
(* id is the number of the session's id.  A client that waits for a grant  *)
(* has asked its partner, whose answer reaches it by the route; once it is *)
(* accepted, the route tells the partner of the new device.                *)
(***************************************************************************)
NoLink == [server |-> "none", id |-> 0, up |-> << >>, calls |-> << >>, down |-> << >>,
           route |-> "none"]

TypeOK ==
  /\ \A d \in Devices :
       /\ IsDevice(device[d])
       /\ link[d].server \in {"none", "auth", "waiting", "idle", "error"}
       /\ link[d].server = "none" <=> device[d].state \in {"off", "failed"}
       /\ link[d].route \in {"none", "asked", "ack"}
  /\ IsTables(tables)
  /\ kicked \subseteq Ids
  /\ used \in [events : 0..MaxEvents, exports : 0..MaxEvents, attempts : 0..MaxAttempts]

\* A joiner may have left another account with a key prepared: deleteKeyMaterial
\* forgets the keys, but not the index of the next one.
Init ==
  /\ \E stale \in {0, 1} \cap (0..MaxEvents) :
       /\ device = [d \in Devices |->
            [state |-> "off", registered |-> d \in Members, attempt |-> 0, sendCmac |-> FALSE,
             import |-> NoImport, exports |-> {}, proofs |-> {}, prepared |-> {},
             ring |-> IF d \in Members THEN [local |-> 0, next |-> 0, keys |-> [i \in {0} |-> FirstKey]]
                      ELSE [local |-> 0, next |-> stale, keys |-> << >>]]]
       /\ used = [events |-> stale, exports |-> 0, attempts |-> 0]
  /\ link = [d \in Devices |-> NoLink]
  /\ tables = [keycount |-> 0, changes |-> {},
               keymac |-> [id \in Members \X {0} |-> FirstKey]]
  /\ kicked = {}
  /\ history = [keys |-> [i \in {0} |-> FirstKey], granted |-> {}, joined |-> {}]

IdOf(d) == <<d, device[d].attempt>>
Ring(d) == device[d].ring
Idle(d) == device[d].state = "idle"

\* One more of the events a run may have.
Event == used.events < MaxEvents /\ used' = [used EXCEPT !.events = @ + 1]

\* A connection ends, and with it its tasks and the routes to and from its client.
Closed(d) ==
  [e \in Devices |-> CASE e = d -> NoLink
                       [] e # d /\ d = Partner -> [link[e] EXCEPT !.route = "none"]
                       [] OTHER -> link[e]]

Left(d, state) == [device EXCEPT ![d].state = state, ![d].proofs = {}]

Send(d, messages) == link' = [link EXCEPT ![d].up = @ \o messages]

Received(d, type) == link[d].down # << >> /\ Head(link[d].down).type = type

\* The device has handled the first of the messages from the server, and answers.
Handled(d, messages) ==
  link' = [link EXCEPT ![d].down = Tail(@), ![d].up = @ \o messages]

--------------------------------------------------------------------------------
(* Messages of a device.                                                     *)

LoginMessage == [type |-> "login"]
AccessMessage(import) == [type |-> "access", import |-> import]
RemoveMessage(id) == [type |-> "remove", id |-> id]
DenyMessage(id) == [type |-> "deny", id |-> id]
KeyChangeMessage(ring) == [type |-> "keyChange", index |-> ring.local + 1]
NewKeyMessage(i, key, cmac, receivers) ==
  [type |-> "newKey", index |-> i, key |-> key, verify |-> cmac, receivers |-> receivers]

\* A cmac shows which key the device uses.
MacUpdateMessage(ring) ==
  [type |-> "mac", index |-> ring.local, key |-> generateEncryptionKeyCmac(ring, ring.local)]

\* The partner accepts with the key it uses at that time.
AcceptMessage(id, ring) ==
  [type |-> "accept", id |-> id, index |-> ring.local, key |-> encryptSecretKey(ring, ring.local)]

sendKeyUpdate(ring) == <<MacUpdateMessage(ring)>>

(* Messages of the server, and of the calls between its clients. *)

WelcomeMessage(changes) == [type |-> "welcome", changes |-> changes]
ErrorMessage(fatal) == [type |-> "error", fatal |-> fatal]
ProofMessage(call) == [type |-> "proof", id |-> call.id, nonce |-> call.nonce, trusted |-> call.trusted]
AcceptAckMessage(id) == [type |-> "acceptAck", id |-> id]
MacUpdateAckMessage == [type |-> "macAck"]
NewKeyAckMessage(i) == [type |-> "newKeyAck", index |-> i]

\* The grant of a joiner is its partner's acceptance.
GrantMessage(id, call) == [type |-> "grant", id |-> id, index |-> call.index, key |-> call.key]

\* A device that asks again for the index in use is told so, and gets no devices.
DeviceKeysMessage(i, duplicated, macs) ==
  [type |-> "deviceKeys", index |-> i, duplicated |-> duplicated, macs |-> macs]

\* onEntryIdleState asks for a key change if one was prepared.
EntryIdle(ring) == IF hasKeyUpdate(ring) THEN <<KeyChangeMessage(ring)>> ELSE << >>

--------------------------------------------------------------------------------
(* Users.                                                                    *)

initKeyUpdate(d) ==
  /\ Idle(d)
  /\ Event
  /\ Send(d, <<KeyChangeMessage(Ring(d))>>)
  /\ UNCHANGED <<device, tables, kicked, history>>

\* exportAccount of a registered device: the export's nonce is remembered.
exportAccount(partner, nonce) == [partner EXCEPT !.exports = @ \cup {nonce}]

\* exportAccount on the partner, prepareImport and resetAccount on a joiner.
ShareAccount(d, trusted) ==
  /\ ~device[d].registered
  /\ device[Partner].registered
  /\ used.events < MaxEvents
  /\ used' = [used EXCEPT !.events = @ + 1, !.exports = @ + 1]
  /\ device' = [Left(d, "off") EXCEPT
       ![Partner] = exportAccount(@, used'.exports),
       ![d].import = [nonce |-> used'.exports, trusted |-> trusted]]
  /\ link' = Closed(d)
  /\ UNCHANGED <<tables, kicked, history>>

\* The user answers, or the timer of the proof does.
loginReply(id, accept) ==
  /\ Idle(Partner)
  /\ id \in device[Partner].proofs
  /\ device' = [device EXCEPT ![Partner].proofs = @ \ {id}]
  /\ Send(Partner, <<IF accept THEN AcceptMessage(id, Ring(Partner)) ELSE DenyMessage(id)>>)
  /\ history' = [history EXCEPT !.granted = IF accept THEN @ \cup {id} ELSE @]
  /\ UNCHANGED <<tables, kicked, used>>

RemoveDevice(d, id) ==
  /\ Idle(d) /\ id # IdOf(d)
  /\ Known(tables, id)
  /\ Event
  /\ Send(d, <<RemoveMessage(id)>>)
  /\ UNCHANGED <<device, tables, kicked, history>>

\* reconnect() ends the error state.
UserReconnects(d) ==
  /\ device[d].state = "failed"
  /\ Event
  /\ device' = Left(d, "off")
  /\ UNCHANGED <<link, tables, kicked, history>>

--------------------------------------------------------------------------------
(* Connections.                                                              *)

\* Up to onIdentify: the device logs in, or asks for access.
Connect(d) ==
  /\ device[d].state = "off"
  /\ device[d].registered \/ device[d].import # NoImport
  /\ LET registered == device[d].registered IN
     /\ device' = [device EXCEPT ![d].state = IF registered THEN "login" ELSE "granting"]
     /\ link' = [link EXCEPT ![d].server = "auth",
                   ![d].up = <<IF registered THEN LoginMessage ELSE AccessMessage(device[d].import)>>]
  /\ UNCHANGED <<tables, kicked, history, used>>

\* The connection is lost, or the device restarts and loses its cached exports.
Drop(d) ==
  /\ link[d].server # "none"
  /\ Event
  /\ link' = Closed(d)
  /\ device' \in {Left(d, "off"), [Left(d, "off") EXCEPT ![d].exports = {}]}
  /\ UNCHANGED <<tables, kicked, history>>

\* ClientConnector::forceDisconnect.
forceDisconnect(id) ==
  /\ id \in kicked
  /\ kicked' = kicked \ {id}
  /\ LET d == id[1] IN
     IF link[d].server # "none" /\ device[d].attempt = id[2]
     THEN device' = Left(d, "off") /\ link' = Closed(d)
     ELSE UNCHANGED <<device, link>>
  /\ UNCHANGED <<tables, history, used>>

\* onError: a fatal error needs the user, after any other the device tries again.
\* An exception in a handler ends as a fatal error.
Fails(d) == device' = Left(d, "failed") /\ link' = Closed(d)

onError(d) ==
  /\ Received(d, "error")
  /\ device' = Left(d, IF Head(link[d].down).fatal THEN "failed" ELSE "off")
  /\ link' = Closed(d)
  /\ UNCHANGED <<tables, kicked, history, used>>

--------------------------------------------------------------------------------
(* Handlers of the device.                                                   *)

\* The change must be signed with the key the device uses.
Verifies(d, change) == verifyCmac(Ring(d), Ring(d).local, change.verify)

\* Mutant: the mac is not sent with the new key.
WelcomeWithoutMac(d) ==
  /\ Received(d, "welcome") /\ device[d].state = "login"
  /\ LET changes == Head(link[d].down).changes
         ring == IF changes = {} THEN Ring(d)
                 ELSE LET c == CHOOSE c \in changes : TRUE IN ImportKey(Ring(d), c.key.index, c.key)
     IN IF \A c \in changes : Verifies(d, c)
        THEN /\ device' = [device EXCEPT ![d].state = "idle", ![d].ring = ring]
             /\ Handled(d, EntryIdle(ring))
        ELSE Fails(d)
  /\ UNCHANGED <<tables, kicked, history, used>>

onWelcome(d) ==
  /\ Received(d, "welcome") /\ device[d].state = "login"
  /\ LET changes == Head(link[d].down).changes
         ring == IF changes = {} THEN Ring(d)
                 ELSE LET c == CHOOSE c \in changes : TRUE IN ImportKey(Ring(d), c.key.index, c.key)
         sendCmac == changes # {} \/ device[d].sendCmac
     IN IF \A c \in changes : Verifies(d, c)
        THEN /\ device' = [device EXCEPT ![d].state = "idle", ![d].ring = ring, ![d].sendCmac = sendCmac]
             /\ Handled(d, (IF sendCmac THEN sendKeyUpdate(ring) ELSE << >>) \o EntryIdle(ring))
        ELSE Fails(d)
  /\ UNCHANGED <<tables, kicked, history, used>>

onGrant(d) ==
  /\ Received(d, "grant") /\ device[d].state = "granting"
  /\ LET m == Head(link[d].down)
         ring == GrantedRing(Ring(d), m.index, m.key)
     IN /\ device' = [device EXCEPT ![d].state = "idle", ![d].registered = TRUE,
                        ![d].attempt = m.id[2], ![d].ring = ring, ![d].sendCmac = TRUE,
                        ![d].import = NoImport]
        /\ Handled(d, sendKeyUpdate(ring) \o EntryIdle(ring))
  /\ UNCHANGED <<tables, kicked, history, used>>

TakeExport(nonces, nonce) == nonces \ {nonce}

\* Mutant: a proof nobody expects is not answered.
IgnoreUnexpected ==
  /\ Received(Partner, "proof") /\ Idle(Partner)
  /\ LET m == Head(link[Partner].down)
         expected == m.nonce \in device[Partner].exports
     IN /\ device' = [device EXCEPT
             ![Partner].exports = TakeExport(@, m.nonce),
             ![Partner].proofs = IF expected /\ ~m.trusted THEN @ \cup {m.id} ELSE @]
        /\ Handled(Partner, IF expected /\ m.trusted THEN <<AcceptMessage(m.id, Ring(Partner))>>
                            ELSE << >>)
        /\ history' = [history EXCEPT !.granted = IF expected /\ m.trusted THEN @ \cup {m.id} ELSE @]
  /\ UNCHANGED <<tables, kicked, used>>

onProof ==
  /\ Received(Partner, "proof") /\ Idle(Partner)
  /\ LET m == Head(link[Partner].down)
         expected == m.nonce \in device[Partner].exports
     IN /\ device' = [device EXCEPT
             ![Partner].exports = TakeExport(@, m.nonce),
             ![Partner].proofs = IF expected /\ ~m.trusted THEN @ \cup {m.id} ELSE @]
        /\ Handled(Partner, IF ~expected THEN <<DenyMessage(m.id)>>
                            ELSE IF m.trusted THEN <<AcceptMessage(m.id, Ring(Partner))>>
                            ELSE << >>)
        /\ history' = [history EXCEPT !.granted = IF expected /\ m.trusted THEN @ \cup {m.id} ELSE @]
  /\ UNCHANGED <<tables, kicked, used>>

\* LocalStore::prepareAccountAdded marks everything for the new device.
onAcceptAck ==
  /\ Received(Partner, "acceptAck") /\ Idle(Partner)
  /\ device' = [device EXCEPT ![Partner].prepared = @ \cup {Head(link[Partner].down).id}]
  /\ Handled(Partner, << >>)
  /\ UNCHANGED <<tables, kicked, history, used>>

onMacUpdateAck(d) ==
  /\ Received(d, "macAck") /\ Idle(d)
  /\ device' = [device EXCEPT ![d].sendCmac = FALSE]
  /\ Handled(d, << >>)
  /\ UNCHANGED <<tables, kicked, history, used>>

\* The devices that prove to know the current key are the ones to get the next.
Trusted(ring, macs) == {id \in DOMAIN macs : verifyEncryptionKeyCmac(ring, macs[id])}

\* Mutant: the new key is signed with itself.
SignedWithItself(ring, i, receivers) ==
  NewKeyMessage(i, encryptSecretKey(ring, i), createCmac(ring, i), receivers)

\* It is signed with the key the receivers use now.
KeyUpdate(ring, i, receivers) ==
  NewKeyMessage(i, encryptSecretKey(ring, i), createCmac(ring, ring.local), receivers)

onDeviceKeys(d) ==
  /\ Received(d, "deviceKeys") /\ Idle(d)
  /\ LET m == Head(link[d].down)
         old == Ring(d)
         next == generateNextKey(old, d)
     IN \/ /\ m.duplicated
           /\ IF Activates(old, m.index) => HasKey(old, m.index)
              THEN /\ device' = [device EXCEPT ![d].ring = activateNextKey(old, m.index)]
                   /\ Handled(d, << >>)
              ELSE Fails(d)
        \/ /\ ~m.duplicated
           /\ IF CanGenerate(old)
              THEN /\ device' = [device EXCEPT ![d].ring = next]
                   /\ Handled(d, <<KeyUpdate(next, next.next, Trusted(next, m.macs))>>)
              ELSE Fails(d)
  /\ UNCHANGED <<tables, kicked, history, used>>

onNewKeyAck(d) ==
  /\ Received(d, "newKeyAck") /\ Idle(d)
  /\ device' = [device EXCEPT ![d].ring = activateNextKey(Ring(d), Head(link[d].down).index)]
  /\ Handled(d, << >>)
  /\ UNCHANGED <<tables, kicked, history, used>>

--------------------------------------------------------------------------------
(* Tasks of the server's clients: of messages (up) and of calls.             *)

Task(d, queue, type) ==
  /\ link[d][queue] # << >>
  /\ Head(link[d][queue]).type = type
  /\ UNCHANGED device

Done(d, queue) == [link EXCEPT ![d][queue] = Tail(@)]
Answer(d, queue, message) == link' = [Done(d, queue) EXCEPT ![d].down = Append(@, message)]

\* sendError: the client drops the messages that follow.
Refuse(d, queue, fatal) ==
  /\ link' = [Done(d, queue) EXCEPT ![d].server = "error",
                ![d].down = Append(@, ErrorMessage(fatal))]
  /\ UNCHANGED <<tables, kicked, history>>

DropMessage(d) ==
  /\ link[d].server = "error" /\ link[d].up # << >>
  /\ link' = Done(d, "up")
  /\ UNCHANGED <<device, tables, kicked, history, used>>

IdleTask(d, type) == Task(d, "up", type) /\ link[d].server = "idle" /\ UNCHANGED used

onLogin(d) ==
  /\ Task(d, "up", "login") /\ link[d].server = "auth"
  /\ IF Known(tables, IdOf(d))
     THEN /\ link' = [Done(d, "up") EXCEPT ![d].server = "idle", ![d].id = device[d].attempt,
               ![d].down = <<WelcomeMessage(loadKeyChanges(tables, IdOf(d)))>>]
          /\ UNCHANGED <<tables, kicked, history>>
     ELSE Refuse(d, "up", TRUE)
  /\ UNCHANGED used

ProofResult(id, success, index, key) ==
  [type |-> "proofResult", id |-> id, success |-> success, index |-> index, key |-> key]
Rejected(id) == ProofResult(id, FALSE, 0, NoKey)

\* A new id is made up; the connector passes the proof on to the partner, if it is there.
onAccess(d) ==
  /\ Task(d, "up", "access") /\ link[d].server = "auth"
  /\ used.attempts < MaxAttempts
  /\ used' = [used EXCEPT !.attempts = @ + 1]
  /\ LET import == Head(link[d].up).import
         id == <<d, used'.attempts>>
         there == link[Partner].server \in {"idle", "error"}
         next == [Done(d, "up") EXCEPT ![d].server = "waiting", ![d].id = id[2],
                    ![d].route = IF there THEN "asked" ELSE "none"]
     IN link' = IF there
          THEN [next EXCEPT ![Partner].calls = Append(@,
                  [type |-> "sendProof", id |-> id, nonce |-> import.nonce, trusted |-> import.trusted])]
          ELSE [next EXCEPT ![d].calls = Append(@, Rejected(id))]
  /\ UNCHANGED <<tables, kicked, history>>

\* proofDone: the connector's answer to the client that waits under the id.
PassOn(L, id, result) ==
  [d \in Devices |-> IF L[d].route = "asked" /\ id = <<d, L[d].id>>
     THEN [L[d] EXCEPT !.route = "ack", !.calls = Append(@, result)]
     ELSE L[d]]

sendProof ==
  /\ Task(Partner, "calls", "sendProof")
  /\ LET call == Head(link[Partner].calls) IN
     link' = IF link[Partner].server = "idle"
             THEN [Done(Partner, "calls") EXCEPT ![Partner].down = Append(@, ProofMessage(call))]
             ELSE PassOn(Done(Partner, "calls"), call.id, Rejected(call.id))
  /\ UNCHANGED <<tables, kicked, history, used>>

onAccept ==
  /\ IdleTask(Partner, "accept")
  /\ LET m == Head(link[Partner].up) IN
     IF Known(tables, IdOf(Partner))
     THEN /\ link' = PassOn(Done(Partner, "up"), m.id, ProofResult(m.id, TRUE, m.index, m.key))
          /\ UNCHANGED <<tables, kicked, history>>
     ELSE Refuse(Partner, "up", TRUE)

\* Mutant: a rejection is taken for an agreement.
DenyAccepts ==
  /\ IdleTask(Partner, "deny")
  /\ LET id == Head(link[Partner].up).id IN
     link' = PassOn(Done(Partner, "up"), id, ProofResult(id, TRUE, 0, FirstKey))
  /\ UNCHANGED <<tables, kicked, history>>

onDeny ==
  /\ IdleTask(Partner, "deny")
  /\ LET id == Head(link[Partner].up).id IN
     link' = PassOn(Done(Partner, "up"), id, Rejected(id))
  /\ UNCHANGED <<tables, kicked, history>>

\* Mutant: the partner is not told.
JoinSilently(d, call) ==
  /\ tables' = addNewDeviceToUser(tables, call.id)
  /\ history' = [history EXCEPT !.joined =
       @ \cup {[id |-> call.id, nonce |-> device[d].import.nonce]}]
  /\ link' = [Done(d, "calls") EXCEPT ![d].server = "idle", ![d].route = "none",
       ![d].down = Append(@, GrantMessage(call.id, call))]
  /\ UNCHANGED kicked

\* The client of the joiner: the device is added, and the partner is told.
Join(d, call) ==
  /\ tables' = addNewDeviceToUser(tables, call.id)
  /\ history' = [history EXCEPT !.joined =
       @ \cup {[id |-> call.id, nonce |-> device[d].import.nonce]}]
  /\ LET granted == [Done(d, "calls") EXCEPT ![d].server = "idle", ![d].route = "none",
           ![d].down = Append(@, GrantMessage(call.id, call))]
     IN link' = IF link[d].route = "ack"
          THEN [granted EXCEPT ![Partner].calls = Append(@, [type |-> "acceptDone", id |-> call.id])]
          ELSE granted
  /\ UNCHANGED kicked

proofResult(d) ==
  /\ Task(d, "calls", "proofResult")
  /\ LET call == Head(link[d].calls) IN
     CASE link[d].server # "waiting" \/ (call.success /\ call.id # <<d, link[d].id>>) ->
            link' = Done(d, "calls") /\ UNCHANGED <<tables, kicked, history>>
       [] OTHER ->
            IF ~call.success THEN Refuse(d, "calls", TRUE)
            ELSE IF Known(tables, <<Partner, 0>>) THEN Join(d, call)
            ELSE Refuse(d, "calls", FALSE)
  /\ UNCHANGED used

acceptDone ==
  /\ Task(Partner, "calls", "acceptDone")
  /\ LET id == Head(link[Partner].calls).id IN
     IF link[Partner].server = "idle"
     THEN Answer(Partner, "calls", AcceptAckMessage(id))
     ELSE link' = Done(Partner, "calls")
  /\ UNCHANGED <<tables, kicked, history, used>>

onMacUpdate(d) ==
  /\ IdleTask(d, "mac")
  /\ LET m == Head(link[d].up)
         id == <<d, link[d].id>>
     IN IF Known(tables, id) /\ MacFits(tables, m.index)
        THEN /\ tables' = updateCmac(tables, id, m.key)
             /\ Answer(d, "up", MacUpdateAckMessage)
             /\ UNCHANGED <<kicked, history>>
        ELSE Refuse(d, "up", TRUE)

onKeyChange(d) ==
  /\ IdleTask(d, "keyChange")
  /\ LET i == Head(link[d].up).index
         id == <<d, link[d].id>>
     IN CASE ~Known(tables, id) -> Refuse(d, "up", FALSE)
          [] Known(tables, id) /\ Acceptable(tables, i) ->
               /\ Answer(d, "up", DeviceKeysMessage(i, FALSE, Others(tables, id)))
               /\ UNCHANGED <<tables, kicked, history>>
          [] Known(tables, id) /\ i = tables.keycount ->
               /\ Answer(d, "up", DeviceKeysMessage(i, TRUE, << >>))
               /\ UNCHANGED <<tables, kicked, history>>
          [] OTHER -> Refuse(d, "up", TRUE)

onNewKey(d) ==
  /\ IdleTask(d, "newKey")
  /\ LET m == Head(link[d].up)
         id == <<d, link[d].id>>
     IN CASE ~Known(tables, id) \/ ~IsNext(tables, m.index) -> Refuse(d, "up", TRUE)
          [] Known(tables, id) /\ IsNext(tables, m.index) /\ ~(m.receivers \subseteq DOMAIN tables.keymac) ->
               Refuse(d, "up", FALSE)
          [] OTHER ->
               /\ tables' = updateExchangeKey(tables, id, m.key, m.verify, m.receivers)
               /\ kicked' = kicked \cup m.receivers
               /\ Answer(d, "up", NewKeyAckMessage(m.index))
               /\ history' = [history EXCEPT !.keys = Put(@, m.index, m.key)]

onRemove(d) ==
  /\ IdleTask(d, "remove")
  /\ LET id == Head(link[d].up).id IN
     /\ tables' = IF Known(tables, <<d, link[d].id>>) THEN removeDevice(tables, id) ELSE tables
     /\ kicked' = kicked \cup {id}
  /\ link' = Done(d, "up")
  /\ UNCHANGED history

--------------------------------------------------------------------------------

Handler(d) ==
  \/ onWelcome(d) \/ onGrant(d) \/ onMacUpdateAck(d) \/ onDeviceKeys(d) \/ onNewKeyAck(d)
  \/ onError(d)
ServerTask(d) ==
  \/ onLogin(d) \/ onAccess(d) \/ proofResult(d) \/ onMacUpdate(d) \/ onKeyChange(d)
  \/ onNewKey(d) \/ onRemove(d) \/ DropMessage(d)
PartnerHandler == onProof \/ onAcceptAck
PartnerTask == sendProof \/ onAccept \/ onDeny \/ acceptDone

Next ==
  \/ \E d \in Devices : Connect(d) \/ Handler(d) \/ ServerTask(d)
  \/ PartnerHandler \/ PartnerTask
  \/ \E id \in Ids : forceDisconnect(id)
  \/ \E id \in Ids, accept \in BOOLEAN : loginReply(id, accept)
  \/ \E d \in Devices : initKeyUpdate(d) \/ UserReconnects(d) \/ Drop(d)
  \/ \E d \in Devices, id \in Ids : RemoveDevice(d, id)
  \/ \E d \in Devices \ Members, trusted \in BOOLEAN : ShareAccount(d, trusted)

\* Event loops, task queues and the retry timer do not stop, and the timer of
\* a proof (ten minutes) denies what no user answers.
Fairness ==
  /\ \A d \in Devices : WF_vars(Connect(d)) /\ WF_vars(Handler(d)) /\ WF_vars(ServerTask(d))
  /\ WF_vars(PartnerHandler) /\ WF_vars(PartnerTask)
  /\ \A id \in Ids : WF_vars(forceDisconnect(id)) /\ WF_vars(loginReply(id, FALSE))

Spec == Init /\ [][Next]_vars /\ Fairness

--------------------------------------------------------------------------------
(* Properties.                                                               *)

\* There is never more than one key change for a device, and it is the one of
\* the account's current key: a welcome message, which carries only the first,
\* carries all.  tryKeyChange and updateExchangeKey are separate transactions.
OneChangeAtATime ==
  \A c \in tables.changes :
    /\ c.key.index = tables.keycount
    /\ \A o \in tables.changes : o.id = c.id => o = c

\* A key change that is the next one for a device is signed with the key the
\* device uses: it can only fail to verify for a device that has applied it
\* already (its mac was lost) or that has missed the acknowledgement of a key of
\* its own.  Both are locked out for good (onWelcome).
ChangesVerify ==
  \A c \in tables.changes :
    LET ring == Ring(c.id[1]) IN
    device[c.id[1]].attempt = c.id[2] /\ c.key.index = ring.local + 1 => CurrentKey(ring) = c.verify

\* Devices of the account use the keys the server has accepted, unless a device
\* has activated a key that it had prepared itself, or was granted access by a
\* partner that has.
KeysAreShared ==
  \A d \in Devices :
    device[d].registered =>
      \/ CurrentKey(Ring(d)) = history.keys[Ring(d).local]
      \/ CurrentKey(Ring(d)).maker = d
      \/ CurrentKey(Ring(d)).maker = Partner /\ d \notin Members

\* Nobody joins the account without the agreement of its partner.
AccessIsGranted == \A j \in history.joined : j.id \in history.granted

\* Ids of new devices the partner is going to hear of.
Owed ==
  {<<d, link[d].id>> : d \in {d \in Devices : link[d].route = "ack" /\ link[d].server = "waiting"}}
  \cup {m.id : m \in {m \in Range(link[Partner].calls) : m.type = "acceptDone"}}
  \cup {m.id : m \in {m \in Range(link[Partner].down) : m.type = "acceptAck"}}

\* Once a device has joined, the partner marks all of its data for it; only the
\* end of the partner's connection, or a refused message on it, can prevent that.
NewDevicesAreServed ==
  [][ \A j \in history'.joined :
        j.id \in Owed /\ link'[Partner].server = "idle"
          => j.id \in Owed' \cup device'[Partner].prepared ]_vars

\* Once users and the network are quiet, every key change is confirmed, except
\* those for devices that have failed and wait for their users.
ChangesSpread ==
  <>[] \A c \in tables.changes : IdOf(c.id[1]) = c.id => device[c.id[1]].state = "failed"

\* A device that has asked a partner for access is answered: it joins or fails,
\* unless the partner's connection has ended, then nobody tells it and it waits.
GrantIsAnswered ==
  <>[] \A d \in Devices : device[d].state = "granting" => link[d].route = "none"
================================================================================
