-------------------------------- MODULE Connector ------------------------------
(***************************************************************************)
(* The connection of a device to the server: RemoteConnector, the state    *)
(* machine that drives it (ConnectorStateMachine), its socket, its timers  *)
(* and the event loop of the engine's thread, with as much of the server   *)
(* as decides about the messages that arrive.                              *)
(*                                                                         *)
(* A slot that submits an event only appends it to the machine's queue;    *)
(* the machine runs later, from the event loop, and handles one event      *)
(* after the other, with the slots it calls; when none is left it posts    *)
(* reachedStableState.  Between the two everything else may happen, which  *)
(* is why messages that arrive then are buffered.  Input from the network, *)
(* timers and calls of other threads come in any order.                    *)
(***************************************************************************)
EXTENDS Naturals, Sequences

CONSTANTS
  RetrySteps,  \* the length of RemoteConnector::Timeouts
  Calls,       \* what other threads ask for, a subset of AllCalls
  MaxTurns     \* bound: faults of network and server, and calls

AllCalls == {"reconnect", "enable", "disable", "reset", "import", "fail", "finalize"}

ASSUME ConnectorAssumption ==
  /\ RetrySteps \in Nat \ {0}
  /\ Calls \subseteq AllCalls
  /\ MaxTurns \in Nat

VARIABLES
  rc,        \* the connector, a record, see Connection
  settings,  \* what is stored: a device id, import data, whether sync is enabled
  wire,      \* messages from the server that have not been read
  peer,      \* what the server does next on the connection
  alive,     \* messages pass in both directions
  history,   \* refused: an answer or a change was unexpected on its own connection;
             \* failed: there was an error that only users recover from
  turns

vars == <<rc, settings, wire, peer, alive, history, turns>>

--------------------------------------------------------------------------------
(* The machine.                                                              *)

Active == {"Connecting", "Connected", "Registering", "LoggingIn", "Granting", "Idle"}
States == Active \cup {"Stopped", "Disconnected", "Reconnecting", "Retry",
                       "BasicError", "FatalError", "Closing", "Final"}
Events == {"connected", "noConnect", "disconnected", "reconnect", "basicError",
           "fatalError", "awaitRegister", "awaitLogin", "awaitGranted", "account", "close"}

\* Transitions with an event: from, event, to.
Transitions ==
       (Active \X {"reconnect"} \X {"Reconnecting"})
  \cup (Active \X {"disconnected"} \X {"Retry"})
  \cup (Active \X {"basicError"} \X {"BasicError"})
  \cup (Active \X {"fatalError"} \X {"FatalError"})
  \cup ({"Registering", "LoggingIn", "Granting"} \X {"account"} \X {"Idle"})
  \cup ({"Disconnected", "Retry"} \X {"reconnect"} \X {"Connecting"})
  \cup ({"BasicError", "FatalError"} \X {"reconnect"} \X {"Reconnecting"})
  \cup {<<"Connecting", "connected", "Connected">>,
        <<"Connecting", "noConnect", "Disconnected">>,
        <<"Connected", "awaitRegister", "Registering">>,
        <<"Connected", "awaitLogin", "LoggingIn">>,
        <<"Connected", "awaitGranted", "Granting">>,
        <<"Reconnecting", "disconnected", "Connecting">>,
        <<"BasicError", "disconnected", "Retry">>,
        <<"FatalError", "disconnected", "Disconnected">>,
        <<"Closing", "disconnected", "Final">>}

\* Mutant: only an active machine is closed.
CloseActive == Active \X {"Closing"}

\* Transitions without an event, taken when isClosing is set.
ClosingTransitions ==
  (Active \X {"Closing"}) \cup ({"Disconnected", "Retry"} \X {"Final"})

Messages == {"identify", "welcome", "account", "grant", "changed", "lastChanged",
             "removeAck", "error", "fatal"}
Answers == Messages \ {"identify", "error", "fatal"}

(***************************************************************************)
(* posted is the event loop: doProcessEvents, machineReady (reached by     *)
(* reachedStableState), disconnected and tryClose, and calls.  While       *)
(* activity is not "none", the machine or machineReady is running.         *)
(* A message of buffer is fresh if it came from the current socket.        *)
(* retries counts the single shots of retry() that have not fired.         *)
(***************************************************************************)
Connection ==
  [state : States, closing : BOOLEAN, events : Seq(Events),
   posted : Seq({"process", "ready", "disconnected", "tryClose"} \cup AllCalls),
   activity : {"none", "events", "buffer"},
   blocked : BOOLEAN, buffer : Seq([type : Messages, fresh : BOOLEAN]),
   socket : {"none", "connecting", "connected", "closing", "unconnected"},
   op : {"none", "op", "special"}, ping : {"off", "on", "awaiting"},
   retryIndex : 0..RetrySteps, retries : Nat,
   id : BOOLEAN, engine : {"Initializing", "Disconnected", "Ready", "Error"}]

TypeOK ==
  /\ rc \in Connection
  /\ settings \in [id : BOOLEAN, import : BOOLEAN, enabled : BOOLEAN]
  /\ wire \in Seq(Messages)
  /\ peer \in {"silent", "identify", "waiting", "login", "register", "access",
               "ready", "remove", "refuse"}
  /\ alive \in BOOLEAN
  /\ history \in [refused : BOOLEAN, failed : BOOLEAN]
  /\ turns \in Nat

Init ==
  /\ rc = [state |-> "Stopped", closing |-> FALSE, events |-> << >>,
           posted |-> << >>, activity |-> "none", blocked |-> FALSE, buffer |-> << >>,
           socket |-> "none", op |-> "none", ping |-> "off",
           retryIndex |-> 0, retries |-> 0, id |-> FALSE, engine |-> "Initializing"]
  /\ settings \in [id : BOOLEAN, import : BOOLEAN, enabled : {TRUE}]
  /\ settings.id => ~settings.import
  /\ wire = << >>
  /\ peer = "silent"
  /\ alive = TRUE
  /\ history = [refused |-> FALSE, failed |-> FALSE]
  /\ turns = 0

Turn == turns < MaxTurns /\ turns' = turns + 1

--------------------------------------------------------------------------------
(* What the slots do to the connector.                                       *)

\* Mutant: messages are handled although an event is waiting.
SubmitUnblocked(r, e) ==
  [r EXCEPT !.events = Append(@, e),
            !.posted = IF r.activity = "events" THEN @ ELSE Append(@, "process")]

submitEventSync(r, e) ==
  [r EXCEPT !.blocked = TRUE,
            !.events = Append(@, e),
            !.posted = IF r.activity = "events" THEN @ ELSE Append(@, "process")]

\* ExchangeEngine::remoteEvent: only connecting ends the error state.
remoteEvent(r, engine) ==
  IF r.engine = "Error" /\ engine # "Initializing" THEN r ELSE [r EXCEPT !.engine = engine]

\* ExchangeEngine::controllerError, with disconnectRemote.
controllerError(r) == submitEventSync([r EXCEPT !.engine = "Error"], "fatalError")

Unexpected(r) == submitEventSync(r, "basicError")

\* The socket is given up: what it sent is not from the current one any more.
Forget(r) ==
  [r EXCEPT !.socket = "none", !.ping = "off",
            !.buffer = [k \in DOMAIN @ |-> [@[k] EXCEPT !.fresh = FALSE]]]

\* Mutant: without a socket there is nothing to do.
DisconnectSocket(r) ==
  CASE r.socket = "none" -> r
    [] r.socket \in {"connecting", "unconnected"} -> submitEventSync(Forget(r), "disconnected")
    [] r.socket = "closing" -> r
    [] r.socket = "connected" -> [r EXCEPT !.socket = "closing", !.op = "special"]

doDisconnect(r) ==
  CASE r.socket = "none" -> submitEventSync(r, "disconnected")
    [] r.socket \in {"connecting", "unconnected"} -> submitEventSync(Forget(r), "disconnected")
    [] r.socket = "closing" -> r
    [] r.socket = "connected" -> [r EXCEPT !.socket = "closing", !.op = "special"]

\* checkCanSync and loadIdentity, which may fail, are the caller's.
doConnect(r, can) ==
  LET connecting == remoteEvent(r, "Initializing") IN
  IF ~can THEN submitEventSync(connecting, "noConnect")
  ELSE [Forget(connecting) EXCEPT !.socket = "connecting", !.op = "special"]

scheduleRetry(r) ==
  [r EXCEPT !.retryIndex = IF @ < RetrySteps THEN @ + 1 ELSE @, !.retries = @ + 1]

onEntryIdleState(r) == remoteEvent([r EXCEPT !.retryIndex = 0], "Ready")

onExitActiveState(r) == remoteEvent([r EXCEPT !.op = "none"], "Disconnected")

\* Mutant: the machine is not told.
DisconnectedQuietly(r) == [Forget(r) EXCEPT !.op = "none"]

disconnected(r) ==
  submitEventSync([Forget(r) EXCEPT !.op = "none"], "disconnected")

--------------------------------------------------------------------------------
(* The machine runs: one microstep after the other, with the slots it calls. *)

Running == rc.state \notin {"Stopped", "Final"}

Exited(r, to) == IF r.state \in Active /\ to \notin Active THEN onExitActiveState(r) ELSE r

Entered(r, from, to) ==
  LET s == [r EXCEPT !.state = to] IN
  CASE to = "Reconnecting" -> IF from \in Active THEN doDisconnect(s) ELSE s
    [] to \in {"BasicError", "FatalError", "Closing"} -> doDisconnect(s)
    [] to = "Retry" -> scheduleRetry(s)
    [] to = "Idle" -> onEntryIdleState(s)
    [] OTHER -> s

\* A transition that does not lead to Connecting.
Moved(r, to) == Entered(Exited(r, to), r.state, to)

\* Connecting is entered, with checkCanSync.
Connect(r) ==
  LET s == [r EXCEPT !.state = "Connecting", !.id = IF r.closing THEN @ ELSE settings.id]
      can == ~s.closing /\ settings.enabled IN
  /\ rc' = doConnect(s, can)
  /\ wire' = IF can THEN << >> ELSE wire
  /\ peer' = IF can THEN "silent" ELSE peer
  /\ alive' = (can \/ alive)

start ==
  /\ rc.state = "Stopped"
  /\ Connect([rc EXCEPT !.activity = "events"])
  /\ UNCHANGED <<settings, history, turns>>

\* Transitions without an event come first.
CloseStep ==
  /\ rc.activity = "events" /\ rc.closing
  /\ \E t \in ClosingTransitions : t[1] = rc.state /\ rc' = Moved(rc, t[2])
  /\ UNCHANGED <<settings, wire, peer, alive, history, turns>>

Eventless == rc.closing /\ rc.state \in Active \cup {"Disconnected", "Retry"}

EventStep ==
  /\ rc.activity = "events" /\ ~Eventless /\ Running
  /\ rc.events # << >>
  /\ LET r == [rc EXCEPT !.events = Tail(@)]
         to == {t[3] : t \in {t \in Transitions : t[1] = rc.state /\ t[2] = Head(rc.events)}}
     IN
     \/ /\ "Connecting" \in to
        /\ Connect(Exited(r, "Connecting"))
     \/ /\ \E t \in to \ {"Connecting"} : rc' = Moved(r, t)
        /\ UNCHANGED <<wire, peer, alive>>
     \/ /\ to = {} /\ rc' = r
        /\ UNCHANGED <<wire, peer, alive>>
  /\ UNCHANGED <<settings, history, turns>>

\* Nothing is left, or the machine has finished.
reachedStableState ==
  /\ rc.activity = "events"
  /\ ~Running \/ (~Eventless /\ rc.events = << >>)
  /\ rc' = [rc EXCEPT !.activity = "none", !.posted = Append(@, "ready")]
  /\ UNCHANGED <<settings, wire, peer, alive, history, turns>>

processEvents ==
  /\ rc.activity = "none" /\ rc.posted # << >> /\ Head(rc.posted) = "process"
  /\ rc' = [rc EXCEPT !.posted = Tail(@), !.activity = IF Running THEN "events" ELSE @]
  /\ UNCHANGED <<settings, wire, peer, alive, history, turns>>

--------------------------------------------------------------------------------
(* Messages.                                                                 *)

\* What is sent reaches the server on a connected socket.
Send(r, what) == peer' = IF r.socket = "connected" THEN what ELSE peer

\* An answer to the nonce of another connection is refused by the server.
onIdentify(r, fresh) ==
  /\ r.state \in {"Connecting", "Connected"}
  /\ LET request == IF r.id THEN "login" ELSE IF settings.import THEN "access" ELSE "register"
         event == IF r.id THEN "awaitLogin"
                  ELSE IF settings.import THEN "awaitGranted" ELSE "awaitRegister"
     IN /\ Send(r, IF fresh THEN request ELSE "refuse")
        /\ rc' = submitEventSync(r, event)
  /\ UNCHANGED settings

onWelcome(r) ==
  /\ r.state = "LoggingIn"
  /\ rc' = submitEventSync(r, "account")
  /\ UNCHANGED <<settings, peer>>

onAccount(r) ==
  /\ r.state = "Registering"
  /\ settings' = [settings EXCEPT !.id = TRUE]
  /\ rc' = submitEventSync([r EXCEPT !.id = TRUE], "account")
  /\ UNCHANGED peer

onGrant(r) ==
  /\ r.state = "Granting"
  /\ settings' = [settings EXCEPT !.id = TRUE, !.import = FALSE]
  /\ rc' = submitEventSync([r EXCEPT !.id = TRUE], "account")
  /\ UNCHANGED peer

\* A change starts the timer of the download, the last one stops it.
onChanged(r) ==
  /\ r.state = "Idle"
  /\ rc' = remoteEvent([r EXCEPT !.op = IF @ = "none" THEN "op" ELSE @], "Ready")
  /\ UNCHANGED <<settings, peer>>

onLastChanged(r) ==
  /\ r.state = "Idle"
  /\ rc' = remoteEvent([r EXCEPT !.op = "none"], "Ready")
  /\ UNCHANGED <<settings, peer>>

onRemoveAck(r) ==
  /\ r.state = "Idle"
  /\ rc' = submitEventSync([r EXCEPT !.id = FALSE], "reconnect")
  /\ UNCHANGED <<settings, peer>>

onError(r, type) ==
  /\ rc' = IF type = "error" THEN submitEventSync(r, "basicError")
           ELSE controllerError(submitEventSync(r, "fatalError"))
  /\ UNCHANGED <<settings, peer>>

\* The states in which a message is expected.
Expected(type) ==
  CASE type = "identify" -> {"Connecting", "Connected"}
    [] type = "welcome" -> {"LoggingIn"}
    [] type = "account" -> {"Registering"}
    [] type = "grant" -> {"Granting"}
    [] type \in {"changed", "lastChanged", "removeAck"} -> {"Idle"}
    [] type \in {"error", "fatal"} -> States

HandleMessage(r, message) ==
  LET type == message.type IN
  /\ \/ type = "identify" /\ onIdentify(r, message.fresh)
     \/ type = "welcome" /\ onWelcome(r)
     \/ type = "account" /\ onAccount(r)
     \/ type = "grant" /\ onGrant(r)
     \/ type = "changed" /\ onChanged(r)
     \/ type = "lastChanged" /\ onLastChanged(r)
     \/ type = "removeAck" /\ onRemoveAck(r)
     \/ type \in {"error", "fatal"} /\ onError(r, type)
     \/ /\ r.state \notin Expected(type)
        /\ rc' = Unexpected(r)
        /\ UNCHANGED <<settings, peer>>
  /\ history' = [history EXCEPT
       !.refused = @ \/ (message.fresh /\ type \in Answers
                            /\ r.state \in Active \ Expected(type)),
       !.failed = @ \/ type = "fatal"]

Readable == rc.activity = "none" /\ Running /\ rc.socket = "connected" /\ wire # << >>

BufferMessage ==
  /\ Readable /\ rc.blocked
  /\ wire' = Tail(wire)
  /\ rc' = [rc EXCEPT !.buffer = Append(@, [type |-> Head(wire), fresh |-> TRUE])]
  /\ UNCHANGED <<settings, peer, alive, history, turns>>

\* A message is handled when it arrives, or in the loop of machineReady.
binaryMessageReceived ==
  /\ ~rc.blocked
  /\ LET draining == rc.activity = "buffer" IN
     /\ IF draining THEN rc.buffer # << >> ELSE Readable
     /\ wire' = IF draining THEN wire ELSE Tail(wire)
     /\ HandleMessage(IF draining THEN [rc EXCEPT !.buffer = Tail(@)] ELSE rc,
                      IF draining THEN Head(rc.buffer)
                                  ELSE [type |-> Head(wire), fresh |-> TRUE])
  /\ UNCHANGED <<alive, turns>>

machineReady ==
  /\ rc.activity = "none" /\ rc.posted # << >> /\ Head(rc.posted) = "ready"
  /\ rc' = [rc EXCEPT !.posted = Tail(@), !.blocked = FALSE, !.activity = "buffer"]
  /\ UNCHANGED <<settings, wire, peer, alive, history, turns>>

\* Mutant: the loop may end while messages are left.
DrainedEarly ==
  /\ rc.activity = "buffer"
  /\ rc' = [rc EXCEPT !.activity = "none"]
  /\ UNCHANGED <<settings, wire, peer, alive, history, turns>>

Drained ==
  /\ rc.activity = "buffer"
  /\ rc.blocked \/ rc.buffer = << >>
  /\ rc' = [rc EXCEPT !.activity = "none"]
  /\ UNCHANGED <<settings, wire, peer, alive, history, turns>>

--------------------------------------------------------------------------------
(* Calls and timers.                                                         *)

PostCall ==
  /\ rc.activity = "none" /\ Running
  /\ Turn
  /\ \E call \in Calls : rc' = [rc EXCEPT !.posted = Append(@, call)]
  /\ UNCHANGED <<settings, wire, peer, alive, history>>

Called(call) ==
  /\ rc.activity = "none" /\ rc.posted # << >> /\ Head(rc.posted) = call
  /\ history' = [history EXCEPT !.failed = @ \/ call = "fail"]
  /\ UNCHANGED <<wire, alive, turns>>

Returned(r) == [r EXCEPT !.posted = Tail(@)]

reconnect ==
  /\ Called("reconnect")
  /\ rc' = submitEventSync(Returned(rc), "reconnect")
  /\ UNCHANGED <<settings, peer>>

setSyncEnabled ==
  /\ \/ Called("enable") /\ settings' = [settings EXCEPT !.enabled = TRUE]
     \/ Called("disable") /\ settings' = [settings EXCEPT !.enabled = FALSE]
  /\ rc' = IF settings' = settings THEN Returned(rc)
           ELSE submitEventSync(Returned(rc), IF settings'.enabled THEN "reconnect" ELSE "fatalError")
  /\ UNCHANGED peer

\* Only a device that is registered and connected has to be removed first.
resetAccount ==
  /\ \/ Called("reset") /\ settings' = [settings EXCEPT !.id = FALSE, !.import = FALSE]
     \/ Called("import") /\ settings' = [settings EXCEPT !.id = FALSE, !.import = TRUE]
  /\ IF ~Running THEN rc' = Returned(rc) /\ UNCHANGED peer
     ELSE IF (rc.id \/ settings.id) /\ rc.state = "Idle"
       THEN rc' = Returned(rc) /\ Send(rc, "remove")
     ELSE /\ rc' = submitEventSync([Returned(rc) EXCEPT !.id = FALSE], "reconnect")
          /\ UNCHANGED peer

\* One of the other controllers has failed.
Fail ==
  /\ Called("fail")
  /\ rc' = controllerError(Returned(rc))
  /\ UNCHANGED <<settings, peer>>

finalize ==
  /\ Called("finalize")
  /\ rc' = IF Running THEN submitEventSync([Returned(rc) EXCEPT !.closing = TRUE, !.ping = "off"], "close")
           ELSE Returned(rc)
  /\ UNCHANGED <<settings, peer>>

\* The engine does not wait for ever.
FinalizeTimeout ==
  /\ rc.activity = "none" /\ rc.closing /\ Running
  /\ rc' = [rc EXCEPT !.state = "Final", !.socket = IF @ = "connected" THEN "closing" ELSE @]
  /\ UNCHANGED <<settings, wire, peer, alive, history, turns>>

HandleDisconnected ==
  /\ Called("disconnected")
  /\ rc' = disconnected(Returned(rc))
  /\ UNCHANGED <<settings, peer>>

tryClose ==
  /\ Called("tryClose")
  /\ rc' = [Returned(rc) EXCEPT !.socket = IF @ = "connected" THEN "closing" ELSE @]
  /\ UNCHANGED <<settings, peer>>

\* The intervals are much longer than the work of the event loop.  Once the
\* machine has finished, the thread ends.
Fires(armed) ==
  /\ rc.activity = "none" /\ rc.posted = << >> /\ Running /\ armed
  /\ UNCHANGED <<settings, wire, peer, alive, history>>

\* Connecting and closing time out into an error, downloads into a reconnect.
\* What a living connection is slow to answer counts as a fault.
onTimeout ==
  /\ Fires(rc.op # "none")
  /\ IF alive THEN Turn ELSE UNCHANGED turns
  /\ rc' = submitEventSync([rc EXCEPT !.op = "none"],
                           IF rc.op = "special" THEN "basicError" ELSE "reconnect")

retry ==
  /\ Fires(rc.retries > 0)
  /\ UNCHANGED turns
  /\ LET r == [rc EXCEPT !.retries = @ - 1] IN
     rc' = IF rc.retryIndex = 0 THEN r ELSE submitEventSync(r, "reconnect")

\* The keep alive timer: the answer to the last ping has not come.
PingTimeout ==
  /\ Fires(rc.ping = "awaiting" /\ ~alive)
  /\ UNCHANGED turns
  /\ rc' = submitEventSync([rc EXCEPT !.ping = "on"], "reconnect")

ping ==
  /\ Fires(rc.ping = "on" /\ ~alive)
  /\ UNCHANGED turns
  /\ rc' = [rc EXCEPT !.ping = "awaiting"]

--------------------------------------------------------------------------------
(* The network and the server.                                               *)

Network == rc.activity = "none" /\ Running /\ UNCHANGED <<settings, history>>

SocketConnected ==
  /\ Network /\ rc.socket = "connecting"
  /\ rc' = submitEventSync([rc EXCEPT !.socket = "connected", !.op = "none", !.ping = "on"],
                           "connected")
  /\ peer' = "identify"
  /\ UNCHANGED <<wire, alive, turns>>

\* The handshake of a close, or the operating system's patience, has ended.
SocketClosed ==
  /\ Network /\ rc.socket = "closing"
  /\ rc' = [rc EXCEPT !.socket = "unconnected", !.ping = "off", !.posted = Append(@, "disconnected")]
  /\ wire' = << >> /\ peer' = "silent"
  /\ UNCHANGED <<alive, turns>>

\* error() and disconnected() of a connection that fails.
SocketFails ==
  /\ Network /\ rc.socket \in {"connecting", "connected"}
  /\ Turn
  /\ \E calls \in {<<"disconnected">>, <<"tryClose", "disconnected">>} :
       rc' = [rc EXCEPT !.socket = "unconnected", !.ping = "off", !.posted = @ \o calls]
  /\ wire' = << >> /\ peer' = "silent"
  /\ UNCHANGED alive

\* An error that does not close the socket: sslErrors().
SocketError ==
  /\ Network /\ rc.socket \in {"connecting", "connected"}
  /\ Turn
  /\ rc' = [rc EXCEPT !.posted = Append(@, "tryClose")]
  /\ UNCHANGED <<wire, peer, alive>>

\* Nothing passes any more, and nobody is told.
LinkDies ==
  /\ Network /\ rc.socket = "connected" /\ alive
  /\ Turn
  /\ alive' = FALSE
  /\ wire' = << >>
  /\ UNCHANGED <<rc, peer>>

\* An answer takes longer than what is posted already; the server's first message
\* may come with the connection.
Serves(request) ==
  /\ Network /\ alive /\ rc.socket = "connected" /\ peer = request
  /\ request = "identify" \/ rc.posted = << >>

ServerAnswers ==
  /\ \/ Serves("identify") /\ wire' = Append(wire, "identify") /\ peer' = "waiting"
     \/ Serves("login") /\ wire' \in {Append(wire, "welcome"), wire \o <<"welcome", "changed">>}
                        /\ peer' = "ready"
     \/ Serves("register") /\ wire' = Append(wire, "account") /\ peer' = "ready"
     \/ Serves("access") /\ wire' = Append(wire, "grant") /\ peer' = "ready"
     \/ Serves("remove") /\ wire' = Append(wire, "removeAck") /\ peer' = "silent"
     \/ Serves("refuse") /\ wire' = Append(wire, "error") /\ peer' = "silent"
  /\ UNCHANGED <<rc, alive, turns>>

ServerSends ==
  /\ Turn
  /\ \/ /\ Serves("ready")
        /\ \E type \in {"changed", "lastChanged", "error"} : wire' = Append(wire, type)
     \/ /\ Serves("login") \/ Serves("access")
        /\ wire' = Append(wire, "fatal")
  /\ UNCHANGED <<rc, peer, alive>>

Machine == start \/ CloseStep \/ EventStep \/ reachedStableState \/ processEvents
Loop == machineReady \/ Drained \/ HandleDisconnected \/ tryClose
Call == reconnect \/ setSyncEnabled \/ resetAccount \/ Fail \/ finalize
Timer == onTimeout \/ retry \/ ping \/ PingTimeout
Input == BufferMessage \/ binaryMessageReceived \/ SocketConnected \/ SocketClosed \/ ServerAnswers

Next ==
  \/ Machine \/ Loop \/ Call \/ Timer \/ Input
  \/ PostCall \/ FinalizeTimeout
  \/ SocketFails \/ SocketError \/ LinkDies \/ ServerSends

(***************************************************************************)
(* The event loop, the server, the timers and a socket that is opened or   *)
(* closed do not stop for ever.  A closing connection ends at the latest   *)
(* when the operating system gives it up, although its keep alive timer    *)
(* keeps the event loop busy again and again: hence strong fairness.       *)
(***************************************************************************)
Fairness ==
  /\ WF_vars(Machine) /\ WF_vars(Loop \/ Call)
  /\ WF_vars(SocketConnected) /\ SF_vars(SocketClosed)
  /\ WF_vars(BufferMessage \/ binaryMessageReceived) /\ WF_vars(ServerAnswers)
  /\ WF_vars(onTimeout) /\ WF_vars(retry) /\ WF_vars(ping \/ PingTimeout)

Spec == Init /\ [][Next]_vars /\ Fairness
--------------------------------------------------------------------------------
(* Properties.                                                               *)

\* Buffering works: no answer to the device and no change meets the machine in a
\* state that does not expect it, although events are handled later than the
\* messages that caused them (binaryMessageReceived, machineReady).  The server's
\* greeting is left out: a connected event of the socket before can be handled
\* as if it were the present one's, and the handshake starts over.
MessagesAreExpected == ~history.refused

\* A message of an earlier connection, still in the buffer, is never taken for
\* one of the present connection (_messageBuffer is never cleared).  A greeting
\* or an error can be; they lead to another attempt.
NoStaleMessage ==
  [][ rc.activity = "buffer" /\ rc.buffer # << >> /\ rc'.buffer # rc.buffer
        /\ ~Head(rc.buffer).fresh /\ Head(rc.buffer).type \in Answers /\ rc.socket # "none" =>
      rc.state \notin Expected(Head(rc.buffer).type) \cap Active ]_vars

\* disconnected() drops the socket before the machine knows of it: whenever an
\* active machine has no socket, the event that ends the connection is waiting.
LossIsAnnounced ==
  rc.activity = "none" /\ rc.state \in Active /\ rc.socket = "none" =>
    \E k \in 1..Len(rc.events) : rc.events[k] \in {"disconnected", "reconnect", "basicError", "fatalError"}

\* However connections fail, once they stop failing the device is logged in
\* with its stored identity and stays so, unless it is disabled, closed or has
\* met a fatal error: no state of machine, socket and timers is a dead end.
Recovers ==
  <>[](\/ rc.state = "Idle" /\ rc.socket = "connected" /\ settings.id /\ rc.id
       \/ rc.state = "Disconnected" /\ (~settings.enabled \/ history.failed)
       \/ rc.state = "Final")

\* Closing ends by itself, not only by the timeout of finalize().
ClosesOrderly == rc.closing ~> rc.state = "Final"
================================================================================
