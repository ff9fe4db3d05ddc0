--------------------------------- MODULE Server --------------------------------
(***************************************************************************)
(* The server: the connections (class Client) of the devices of one        *)
(* account, the tasks each of them runs one after the other on the thread  *)
(* pool (SingleTaskQueue), the event loop of the main thread with the      *)
(* registry of connected devices (ClientConnector), and the database's     *)
(* notifications.  Every database transaction of a task is a step of its   *)
(* own, completeChange is two, so that tasks of other connections and the  *)
(* main thread run between them.                                           *)
(*                                                                         *)
(* A device abandons a connection at any time and opens a new one; the     *)
(* server may hear of it much later.  Messages are in the order of their   *)
(* arrival.  Live sync is enabled (its configuration default).             *)
(***************************************************************************)
EXTENDS ChangeTables, SequencesExt

CONSTANTS
  Requests,       \* bound: Requests[d], tasks that device d may ask for
  Owner,          \* bound: Owner[c], the device whose connection client c serves
  None,           \* no device, no client
  DownLimit,      \* server/downloads/limit
  DownThreshold,  \* server/downloads/threshold
  Words,          \* how many values a quint32 has, 2^32
  Histories,      \* changes sent before: sequences of pairs of a device and a dataset
  Newcomers,      \* devices that have joined the account after that
  InitialQuota,   \* quota/limit at first
  QuotaLimits,    \* values the administrator may give it later
  MaxTurns        \* bound: what users, administrators and the network cause

\* The Client objects, in the order in which they are created for a device.
Clients == DOMAIN Owner

ASSUME ServerAssumption ==
  /\ Owner \in Seq(Devices) /\ None \notin Clients
  /\ DownLimit \in Nat /\ DownThreshold \in 1..DownLimit
  /\ Words \in Nat /\ DownLimit < Words
  /\ \A history \in Histories :
       /\ history \in Seq(Devices \X Datasets)
       /\ \A j, k \in DOMAIN history : history[j] = history[k] => j = k
  /\ Newcomers \subseteq Devices
  /\ QuotaLimits \cup {InitialQuota} \subseteq Nat \ {0}
  /\ MaxTurns \in Nat

VARIABLES
  db,         \* the tables
  notes,      \* devices a database notification is on its way for
  events,     \* calls queued in the main thread's event loop
  clients,    \* clients[d]: ClientConnector::clients, or None
  conn,       \* conn[c]: the members of Client, its socket and its task queue
  out,        \* out[c]: messages from client c to its device
  got,        \* pairs of a device and the id of a change it has received
  accepting,  \* the WebSocket server accepts connections
  turns       \* lost connections, requests, rollbacks and orders of administrators so far

vars == <<db, notes, events, clients, conn, out, got, accepting, turns>>

--------------------------------------------------------------------------------
(* A task is a tuple of its kind and its arguments, which are those of the   *)
(* message it was made for.                                                  *)
SyncMessage == <<"sync">>
ChangeMessage == {"change"} \X Datasets
DeviceChangeMessage == {"deviceChange"} \X Devices \X Datasets
ChangedAckMessage == {"changedAck"} \X Nat
RemoveMessage == {"remove"} \X Devices

Task ==
  {<<"login">>, <<"notify">>, SyncMessage} \cup ChangeMessage \cup DeviceChangeMessage
    \cup ChangedAckMessage \cup RemoveMessage

\* What a user has a device ask for.
ASSUME RequestsAssumption ==
  \A d \in Devices : Requests[d] \subseteq
    {SyncMessage} \cup ChangeMessage \cup DeviceChangeMessage \cup RemoveMessage

WelcomeMessage(hasChanges) == [type |-> "welcome", hasChanges |-> hasChanges]
ChangedMessage(i) == [type |-> "changed", id |-> i]
ChangedInfoMessage(i, count) == [type |-> "changedInfo", id |-> i, count |-> count]
LastChangedMessage == [type |-> "lastChanged"]
ErrorMessage == [type |-> "error"]

DownMessage ==
  {WelcomeMessage(hasChanges) : hasChanges \in BOOLEAN}
    \cup [type : {"changed"}, id : Nat] \cup [type : {"changedInfo"}, id : Nat, count : Nat]
    \cup {LastChangedMessage, ErrorMessage}

Event == ({"connected"} \X Clients) \cup ({"notify", "forceDisconnect"} \X Devices)

(***************************************************************************)
(* peer is what the device knows of the connection: it waits for the       *)
(* answer to its login, it is logged in, or it has left.  at is the next   *)
(* step of the task at the head of the queue: "confirm" and "close" are    *)
(* completeChange after its last statement, which has found an entry of    *)
(* another device, or none.  loaded is what triggerDownload has read from  *)
(* the database.                                                           *)
(***************************************************************************)
Connection ==
  [socket : {"unused", "open", "closed", "destroyed"}, peer : {"login", "ready", "left"},
   state : {"Authenticating", "Idle", "Error"},
   queue : Seq(Task), at : {"start", "announce", "confirm", "close", "load", "send"}, loaded : SUBSET Nat,
   active : Seq(Nat), cached : Nat, registered : BOOLEAN]

TypeOK ==
  /\ db \in Tables
  /\ notes \subseteq Devices
  /\ events \in Seq(Event)
  /\ clients \in [Devices -> Clients \cup {None}]
  /\ conn \in [Clients -> Connection]
  /\ out \in [Clients -> Seq(DownMessage)]
  /\ got \subseteq Devices \X Nat
  /\ accepting \in BOOLEAN
  /\ turns \in Nat

\* What devices have sent before, a sequence of pairs of a device and a dataset.
Kept(history) ==
  {[id |-> k, device |-> history[k][1], dataset |-> history[k][2]] : k \in DOMAIN history}

\* The tables of an account whose older devices have not received them yet.
Filled(history) ==
  [devices |-> Devices, changes |-> Kept(history),
   todo |-> {<<c.id, d>> : c \in Kept(history), d \in Devices \ Newcomers}
              \ {<<c.id, c.device>> : c \in Kept(history)},
   quota |-> TotalSize(Kept(history)), limit |-> InitialQuota,
   nextId |-> Len(history) + 1]

Init ==
  /\ \E history \in Histories : db = Filled(history) /\ turns = Len(history)
  /\ notes = {}
  /\ events = << >>
  /\ clients = [d \in Devices |-> None]
  /\ conn = [c \in Clients |->
       [socket |-> "unused", peer |-> "left", state |-> "Authenticating",
        queue |-> << >>, at |-> "start", loaded |-> {}, active |-> << >>,
        cached |-> 0, registered |-> FALSE]]
  /\ out = [c \in Clients |-> << >>]
  /\ got = {}
  /\ accepting = TRUE

Turn == turns < MaxTurns /\ turns' = turns + 1

Open(c) == conn[c].socket = "open"
Word(n) == n % Words

--------------------------------------------------------------------------------
(* The device's side.                                                        *)

\* A device connects, and answers the server's IdentifyMessage by its login.
NewConnection(c) ==
  /\ accepting
  /\ conn[c].socket = "unused"
  /\ \A e \in Clients : Owner[e] = Owner[c] =>
       conn[e].peer = "left" /\ (e < c => conn[e].socket # "unused")
  /\ conn' = [conn EXCEPT ![c].socket = "open", ![c].peer = "login",
                          ![c].queue = << <<"login">> >>]
  /\ UNCHANGED <<db, notes, events, clients, out, got, accepting, turns>>

\* binaryMessageReceived: a request of the device becomes a task.
Request(c) ==
  /\ Open(c) /\ conn[c].peer = "ready"
  /\ Turn
  /\ \E task \in Requests[Owner[c]] :
       conn' = [conn EXCEPT ![c].queue = Append(@, task)]
  /\ UNCHANGED <<db, notes, events, clients, out, got, accepting>>

\* The device reads a message: it confirms every change it has stored, and
\* leaves when it is told of an error.
Receive(c) ==
  /\ out[c] # << >>
  /\ conn[c].peer # "left"
  /\ LET message == Head(out[c]) IN
     /\ out' = [out EXCEPT ![c] = Tail(@)]
     /\ got' = got \cup (IF message.type \in {"changed", "changedInfo"}
                           THEN {<<Owner[c], message.id>>} ELSE {})
     /\ conn' = [conn EXCEPT
          ![c].peer = CASE message.type = "welcome" -> "ready"
                        [] message.type = "error" -> "left"
                        [] OTHER -> @,
          ![c].queue = IF message.type \in {"changed", "changedInfo"} /\ Open(c)
                         THEN Append(@, <<"changedAck", message.id>>) ELSE @]
  /\ UNCHANGED <<db, notes, events, clients, accepting, turns>>

Leave(c) ==
  /\ conn[c].peer # "left"
  /\ conn' = [conn EXCEPT ![c].peer = "left"]
  /\ out' = [out EXCEPT ![c] = << >>]
  /\ Turn
  /\ UNCHANGED <<db, notes, events, clients, got, accepting>>

--------------------------------------------------------------------------------
(* Tasks.                                                                    *)

\* The next step of client c's current task is the step at of a task of kind.
Runs(c, kind, at) ==
  /\ conn[c].queue # << >>
  /\ conn[c].queue[1][1] = kind
  /\ conn[c].at = at

Done(client) == [client EXCEPT !.queue = Tail(@), !.at = "start", !.loaded = {}]

Sent(c, messages) ==
  out' = [out EXCEPT ![c] = IF Open(c) /\ conn[c].peer # "left" THEN @ \o messages ELSE @]

\* sendError: the task ends, later ones are ignored, the socket closes later.
SendError(c) ==
  /\ conn' = [conn EXCEPT ![c] = [Done(@) EXCEPT !.state = "Error"]]
  /\ Sent(c, <<ErrorMessage>>)
  /\ UNCHANGED <<db, notes, events>>

\* A task of a message in state Error, or of notifyChanged in another than Idle.
Ignored(c) ==
  /\ conn[c].queue # << >> /\ conn[c].at = "start"
  /\ conn[c].state = "Error" \/ (conn[c].queue[1] = <<"notify">> /\ conn[c].state # "Idle")
  /\ conn' = [conn EXCEPT ![c] = Done(@)]
  /\ UNCHANGED <<db, notes, events, out>>

\* A transaction: what it commits, or the error the device is told of.
Transaction(c, result) ==
  IF result.is # "ok" THEN SendError(c)
  ELSE /\ db' = result.tables
       /\ notes' = notes \cup Notified(db, result.tables)
       /\ conn' = [conn EXCEPT ![c] = Done(@)]
       /\ UNCHANGED <<events, out>>

\* Mutant: a login without changes ends without loading any.
AnnounceOnly(c) ==
  /\ conn[c].at = "announce"
  /\ conn' = [conn EXCEPT ![c] = [(IF @.cached = 0 THEN Done(@) ELSE [@ EXCEPT !.at = "load"])
                                  EXCEPT !.state = "Idle"]]
  /\ Sent(c, <<WelcomeMessage(conn[c].cached > 0)>>)
  /\ events' = Append(events, <<"connected", c>>)
  /\ UNCHANGED <<db, notes>>

\* The number of changes is read first.
onLogin(c) ==
  /\ Runs(c, "login", "start")
  /\ conn[c].state = "Authenticating"
  /\ IF Owner[c] \notin db.devices THEN SendError(c)
     ELSE /\ conn' = [conn EXCEPT ![c].cached = changeCount(db, Owner[c]), ![c].at = "announce"]
          /\ UNCHANGED <<db, notes, events, out>>

\* The client is announced to the main thread before its changes are loaded.
Announce(c) ==
  /\ conn[c].at = "announce"
  /\ conn' = [conn EXCEPT ![c].state = "Idle", ![c].at = "load"]
  /\ Sent(c, <<WelcomeMessage(conn[c].cached > 0)>>)
  /\ events' = Append(events, <<"connected", c>>)
  /\ UNCHANGED <<db, notes>>

onChange(c) ==
  /\ Runs(c, "change", "start") /\ conn[c].state = "Idle"
  /\ Transaction(c, addChange(db, Owner[c], conn[c].queue[1][2]))

onDeviceChange(c) ==
  /\ Runs(c, "deviceChange", "start") /\ conn[c].state = "Idle"
  /\ Transaction(c, addDeviceChange(db, Owner[c], conn[c].queue[1][2],
                                    conn[c].queue[1][3]))

\* forceDisconnect is connected once the main thread has registered the client.
onRemove(c) ==
  LET target == conn[c].queue[1][2]
      self == target = Owner[c] IN
  /\ Runs(c, "remove", "start") /\ conn[c].state = "Idle"
  /\ db' = removeDevice(db, Owner[c], target)
  /\ conn' = [conn EXCEPT ![c] = IF self THEN [Done(@) EXCEPT !.state = "Error"] ELSE Done(@)]
  /\ events' = IF ~self /\ conn[c].registered
                 THEN Append(events, <<"forceDisconnect", target>>) ELSE events
  /\ UNCHANGED <<notes, out>>

onChangedAck(c) ==
  /\ Runs(c, "changedAck", "start") /\ conn[c].state = "Idle"
  /\ conn' = [conn EXCEPT ![c].at =
       IF NobodyElse(db, Owner[c], conn[c].queue[1][2]) THEN "close" ELSE "confirm"]
  /\ UNCHANGED <<db, notes, events, out>>

\* The end of completeChange's transaction.
CommitChangedAck(c) ==
  LET i == conn[c].queue[1][2] IN
  /\ conn[c].at \in {"confirm", "close"}
  /\ db' = completeChange(db, Owner[c], i, conn[c].at = "close")
  /\ conn' = [conn EXCEPT ![c].active = RemoveFirst(@, i), ![c].at = "load"]
  /\ UNCHANGED <<notes, events, out>>

onSync(c) ==
  /\ Runs(c, "sync", "start") \/ Runs(c, "notify", "start")
  /\ conn[c].state = "Idle"
  /\ conn' = [conn EXCEPT ![c].at = "load"]
  /\ UNCHANGED <<db, notes, events, out>>

\* triggerDownload: load what fills the window of active downloads.
LoadChanges(c) ==
  LET used == Len(conn[c].active)
      count == Word(DownLimit - used) IN
  /\ conn[c].at = "load"
  /\ conn' = [conn EXCEPT ![c].at = "send",
       ![c].loaded = IF count >= DownThreshold
                       THEN loadNextChanges(db, Owner[c], count, used) ELSE {}]
  /\ UNCHANGED <<db, notes, events, out>>

\* The loop over what was loaded, in the order of the ids.  The number of changes
\* left goes along with the first one after a login and whenever the last number
\* is used up.
SendChange(c) ==
  LET used == Len(conn[c].active)
      counted == conn[c].cached = 0
      count == IF counted THEN Word(changeCount(db, Owner[c]) - used) ELSE conn[c].cached
      info == counted \/ (conn[c].queue[1] = <<"login">> /\ used = 0)
  IN
  /\ conn[c].at = "send"
  /\ \E i \in conn[c].loaded :
       /\ \A j \in conn[c].loaded : i <= j
       /\ conn' = [conn EXCEPT ![c].loaded = @ \ {i}, ![c].active = Append(@, i),
                               ![c].cached = Word(count - 1)]
       /\ Sent(c, <<IF info THEN ChangedInfoMessage(i, count) ELSE ChangedMessage(i)>>)
  /\ UNCHANGED <<db, notes, events>>

\* triggerDownload's end: nothing is left, unless a login has just told so.
EndDownload(c) ==
  LET told == conn[c].queue[1] = <<"login">> /\ conn[c].cached = 0
      last == conn[c].active = << >> /\ ~told IN
  /\ conn[c].at = "send" /\ conn[c].loaded = {}
  /\ conn' = [conn EXCEPT ![c] = IF last THEN [Done(@) EXCEPT !.cached = 0] ELSE Done(@)]
  /\ Sent(c, IF last THEN <<LastChangedMessage>> ELSE << >>)
  /\ UNCHANGED <<db, notes, events>>

TaskStep(c) ==
  /\ \/ Ignored(c) \/ onLogin(c) \/ Announce(c) \/ onChange(c) \/ onDeviceChange(c)
     \/ onRemove(c) \/ onChangedAck(c) \/ CommitChangedAck(c) \/ onSync(c)
     \/ LoadChanges(c) \/ SendChange(c) \/ EndDownload(c)
  /\ UNCHANGED <<clients, got, accepting, turns>>

\* A transaction that writes is rolled back as it has met another one, of a task or
\* an administrator: a deadlock, a key that was taken, a row that was deleted.
RollBack(c) ==
  /\ \/ conn[c].at \in {"confirm", "close"}
     \/ /\ conn[c].state = "Idle"
        /\ \E kind \in {"change", "deviceChange", "remove"} : Runs(c, kind, "start")
  /\ SendError(c)
  /\ Turn
  /\ UNCHANGED <<clients, got, accepting>>

--------------------------------------------------------------------------------
(* The main thread.                                                          *)

\* closeClient: a running task ends, the ones behind it are dropped.
Closed(client) ==
  [client EXCEPT !.socket = "closed",
                 !.queue = IF @ = << >> THEN @ ELSE <<Head(@)>>]

Dropped(client) == IF client.socket = "open" THEN Closed(client) ELSE client

\* DatabaseController::onNotify hands a notification on through the event loop.
onNotify(d) ==
  /\ d \in notes
  /\ notes' = notes \ {d}
  /\ events' = Append(events, <<"notify", d>>)
  /\ UNCHANGED <<db, clients, conn, out, got, accepting, turns>>

\* A client that is destroyed before its signal is delivered is not registered.
clientConnected(c) ==
  /\ events # << >> /\ Head(events) = <<"connected", c>>
  /\ events' = Tail(events)
  /\ IF conn[c].socket = "destroyed" THEN UNCHANGED <<clients, conn, turns>>
     ELSE /\ clients' = [clients EXCEPT ![Owner[c]] = c]
          /\ conn' = [conn EXCEPT ![c].registered = TRUE]
  /\ UNCHANGED <<db, notes, out, got, accepting, turns>>

notifyChanged(d) ==
  /\ events # << >> /\ Head(events) = <<"notify", d>>
  /\ events' = Tail(events)
  /\ conn' = IF clients[d] = None THEN conn
             ELSE [conn EXCEPT ![clients[d]].queue = Append(@, <<"notify">>)]
  /\ UNCHANGED <<db, notes, clients, out, got, accepting, turns>>

forceDisconnect(d) ==
  /\ events # << >> /\ Head(events) = <<"forceDisconnect", d>>
  /\ events' = Tail(events)
  /\ conn' = IF clients[d] = None THEN conn ELSE [conn EXCEPT ![clients[d]] = Dropped(@)]
  /\ UNCHANGED <<db, notes, clients, out, got, accepting, turns>>

\* The server learns that the device has left.
closeClient(c) ==
  /\ Open(c) /\ conn[c].peer = "left"
  /\ conn' = [conn EXCEPT ![c] = Closed(@)]
  /\ UNCHANGED <<db, notes, events, clients, out, got, accepting, turns>>

\* error(), sslErrors() and the idle timeout write _state without a lock: a task
\* that is running may overwrite it.
Fault(c) ==
  /\ Open(c)
  /\ \E state \in {"Error"} \cup (IF conn[c].queue = << >> THEN {} ELSE {conn[c].state}) :
       conn' = [conn EXCEPT ![c] = [Closed(@) EXCEPT !.state = state]]
  /\ Turn
  /\ UNCHANGED <<db, notes, events, clients, out, got, accepting>>

closeLater(c) ==
  /\ Open(c) /\ conn[c].state = "Error"
  /\ conn' = [conn EXCEPT ![c] = Closed(@)]
  /\ UNCHANGED <<db, notes, events, clients, out, got, accepting, turns>>

\* Mutant: the registry is not told.
DestroyQuietly(c) ==
  /\ conn[c].socket = "closed" /\ conn[c].queue = << >>
  /\ conn' = [conn EXCEPT ![c].socket = "destroyed", ![c].peer = "left"]
  /\ out' = [out EXCEPT ![c] = << >>]
  /\ UNCHANGED <<db, notes, events, clients, got, accepting, turns>>

\* deleteLater, once no task is left: the registry forgets the device.
Destroy(c) ==
  /\ conn[c].socket = "closed" /\ conn[c].queue = << >>
  /\ conn' = [conn EXCEPT ![c].socket = "destroyed", ![c].peer = "left"]
  /\ clients' = IF conn[c].registered
                  THEN [clients EXCEPT ![Owner[c]] = None] ELSE clients
  /\ out' = [out EXCEPT ![c] = << >>]
  /\ UNCHANGED <<db, notes, events, got, accepting, turns>>

\* The service is paused or reloaded, and resumed.
disconnectAll ==
  /\ accepting
  /\ conn' = [c \in Clients |-> Dropped(conn[c])]
  /\ accepting' \in BOOLEAN
  /\ Turn
  /\ UNCHANGED <<db, notes, events, clients, out, got>>

Resume ==
  /\ ~accepting
  /\ accepting' = TRUE
  /\ UNCHANGED <<db, notes, events, clients, conn, out, got, turns>>

\* Start or reload with another quota limit.
UpdateQuota ==
  /\ \E limit \in QuotaLimits, force \in BOOLEAN : db' = updateQuotaLimit(db, limit, force)
  /\ Turn
  /\ UNCHANGED <<notes, events, clients, conn, out, got, accepting>>

\* Devices that have not logged in for long are removed, with empty accounts.
cleanupDevices ==
  /\ \E D \in SUBSET db.devices \ {{}} : db' = DeleteDevices(db, D)
  /\ Turn
  /\ UNCHANGED <<notes, events, clients, conn, out, got, accepting>>

MainStep(c) == closeClient(c) \/ closeLater(c) \/ Destroy(c)

Listen == \E d \in Devices : onNotify(d)

HandleEvent ==
  \/ \E d \in Devices : notifyChanged(d) \/ forceDisconnect(d)
  \/ \E c \in Clients : clientConnected(c)

Next ==
  \/ \E c \in Clients :
       \/ TaskStep(c) \/ RollBack(c) \/ MainStep(c) \/ Fault(c)
       \/ NewConnection(c) \/ Request(c) \/ Receive(c) \/ Leave(c)
  \/ Listen \/ HandleEvent
  \/ disconnectAll \/ Resume \/ UpdateQuota \/ cleanupDevices

System ==
  \/ \E c \in Clients : TaskStep(c) \/ MainStep(c) \/ Receive(c)
  \/ Listen \/ HandleEvent

(***************************************************************************)
(* The thread pool, the event loops of server and devices and the timers   *)
(* of closing sockets do not stop while any of them has something to do.   *)
(* As nothing of it goes on for ever without a new request, no choice      *)
(* between them has to be fair.                                            *)
(***************************************************************************)
Fairness == WF_vars(System)

Spec == Init /\ [][Next]_vars /\ Fairness
--------------------------------------------------------------------------------
(* Properties.                                                               *)

\* The connection the registry holds for d is in use.
Serving(d) ==
  /\ clients[d] # None
  /\ LET c == clients[d] IN Open(c) /\ conn[c].state = "Idle" /\ conn[c].peer # "left"

\* The confirmations that have found nobody else the change is for.
Closing ==
  {<<Owner[c], conn[c].queue[1][2]>> : c \in {c \in Clients : conn[c].at = "close"}}

\* Every entry of devicechanges is kept until its device has received the change,
\* until a newer change of the dataset replaces it, or until one of the two
\* devices is removed, however many connections, old and new, work on them: the
\* server implements the mailboxes (addChange, addDeviceChange, completeChange,
\* removeDevice and the tasks of Client that call them).  The one exception is an
\* entry that addDeviceChange adds to a stored change while the last other device
\* confirms it: it is deleted with the change.
Promise == INSTANCE Mailbox WITH
  members <- db.devices, shelf <- db.changes, issued <- db.nextId,
  box <- [d \in Devices |-> PendingFor(db, d)], closing <- Closing
Delivery == Promise!Spec

\* d will be told of changes: a notification is on its way or a task.
Announced(d) ==
  \/ d \in notes
  \/ \E k \in 1..Len(events) : events[k] = <<"notify", d>>
  \/ conn[clients[d]].queue # << >>

\* No lost wakeup: while a registered device has changes waiting, a task of its
\* connection runs, a notification is on its way, or a download it still has to
\* confirm will start the next ones.  A change that is committed between the load
\* of a login and the registration of the client must not slip through.
NothingForgotten ==
  \A d \in Devices :
    Serving(d) /\ PendingFor(db, d) # {} =>
      Announced(d) \/ conn[clients[d]].active # << >>

\* The registry never holds a client that was destroyed, whatever the order in
\* which clients of a device are registered and destroyed.
RegistryIsAlive ==
  \A d \in Devices : clients[d] # None =>
    /\ conn[clients[d]].socket # "destroyed"
    /\ Owner[clients[d]] = d

\* The quota counts at least what is stored, and what is stored stays below the
\* limit, through replacement, confirmation, removal and new limits.
QuotaCovers ==
  db.devices # {} => TotalSize(db.changes) <= db.quota /\ db.quota < db.limit

\* Live sync: a change that waits for a device that connects is delivered, as long
\* as the registry holds a connection of the device that is in use.
LiveSync ==
  \A d \in {Owner[c] : c \in Clients} :
    (Serving(d) /\ PendingFor(db, d) # {}) ~> ~(Serving(d) /\ PendingFor(db, d) # {})
================================================================================
