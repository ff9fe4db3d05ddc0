---------------------------- MODULE UploadController ---------------------------
(***************************************************************************)
(* Uploading on one device: ChangeController, which keeps up to a limit of *)
(* changes in flight, for many datasets and for devices that have just     *)
(* joined the account, and ExchangeEngine, which derives the public        *)
(* synchronization state and progress from it.  RemoteConnector's state    *)
(* machine appears as far as uploading depends on it: whether messages are *)
(* sent, and the events that it raises.                                    *)
(*                                                                         *)
(* The three live on the engine's thread.  A handler runs to its end; what *)
(* it posts (queued slots, events submitted to the state machine) runs     *)
(* later, in the order of posting, while acknowledgements, timers and user *)
(* calls come in between.                                                  *)
(***************************************************************************)
EXTENDS SyncRules, Sequences, FiniteSets

CONSTANTS
  Keys,          \* the datasets
  NewDevice,     \* a device that may be added to the account
  AnyDevice,     \* the null device id: an upload for all devices
  Unreadable,    \* datasets whose file readJson fails to read
  UploadLimit,   \* IdentifyMessage::uploadLimit of the server
  EstimateSize,  \* how many values _changeEstimate has: 2^32 in the code
  MaxEdits,      \* bound: saves, removes, merges and added devices
  MaxFailures,   \* bound: lost connections, timeouts, errors and user reconnects
  MaxDownloads   \* bound: times the server announces changes

ASSUME UploadAssumption ==
  /\ IsFiniteSet(Keys) /\ AnyDevice # NewDevice
  /\ Unreadable \subseteq Keys
  /\ UploadLimit \in Nat \ {0}
  /\ EstimateSize \in Nat \ {0}
  /\ {MaxEdits, MaxFailures, MaxDownloads} \subseteq Nat

VARIABLES
  row,            \* row[k]: the row of dataset k in DataIndex
  deviceUploads,  \* DeviceUploads: datasets that NewDevice does not have yet
  uploading,      \* ChangeController::_uploadingEnabled
  active,         \* ChangeController::_activeUploads
  estimate,       \* ChangeController::_changeEstimate
  ignored,        \* active uploads that RemoteConnector has ignored, not being idle
  opTimer,        \* is ChangeController's operation timer running?
  engine,         \* ExchangeEngine: state and progress
  queue,          \* calls posted to the event loop of the engine's thread
  link,           \* state of the connection
  acks,           \* uploads sent on this connection that are not acknowledged yet
  owed,           \* has the server still to announce the end of the downloads?
  retryIndex,     \* is RemoteConnector::_retryIndex above 0?
  retryTimer,     \* is a retry timer running?
  edits, failures, downloads  \* how often the bounded events have happened

storeVars == <<row, deviceUploads, edits>>
controllerVars == <<uploading, active, ignored, estimate, opTimer>>
linkVars == <<link, retryIndex, retryTimer>>
serverVars == <<acks, owed>>
vars == <<storeVars, controllerVars, engine, queue, linkVars, serverVars, failures,
          downloads>>

--------------------------------------------------------------------------------
(* Types.                                                                    *)

\* An upload is identified by a dataset and an optional device.
UploadKey == Keys \X {AnyDevice, NewDevice}
UploadInfo == [id : UploadKey, version : Nat, isDelete : BOOLEAN]

States == {"initializing", "downloading", "uploading", "synchronized", "error",
           "disconnected"}

Call(name, arg) == [call |-> name, arg |-> arg]
Calls == {Call(name, "") : name \in {"changeTriggered", "uploadNext", "fatalError",
                                     "disconnected", "reconnect"}}
    \cup {Call("uploadDone", k) : k \in Keys}

\* "dead" is a connection whose loss has not been handled yet, "failing" and
\* "reconnecting" ones that are being closed, "retry" and "off" mean that there
\* is none and that a retry is or is not scheduled.
Links == {"connecting", "idle", "dead", "failing", "reconnecting", "retry", "off"}

TypeOK ==
  /\ row \in [Keys -> Row]
  /\ deviceUploads \subseteq Keys
  /\ {uploading, opTimer, retryIndex, retryTimer, owed} \subseteq BOOLEAN
  /\ active \subseteq UploadInfo
  /\ \A u, v \in active : u.id = v.id => u = v
  /\ Cardinality(active) <= UploadLimit
  /\ ignored \subseteq UploadKey
  /\ estimate \in 0..EstimateSize-1
  /\ engine \in [state : States, max : Nat, current : Nat,
                 allowed : {"none", "upload", "download"}]
  /\ queue \in Seq(Calls)
  /\ link \in Links
  /\ acks \in Seq(UploadKey)
  /\ {edits, failures, downloads} \subseteq Nat

\* The engine has just started, with a synchronized store.
Init ==
  /\ row \in [Keys -> {NoRow} \cup {MakeRow(1, data, FALSE) : data \in Data}]
  /\ deviceUploads = {}
  /\ uploading = FALSE
  /\ active = {}
  /\ ignored = {}
  /\ estimate = 0
  /\ opTimer = FALSE
  /\ engine = [state |-> "initializing", max |-> 0, current |-> 0, allowed |-> "none"]
  /\ queue = << >>
  /\ link = "connecting"
  /\ acks = << >>
  /\ owed = FALSE
  /\ retryIndex = FALSE /\ retryTimer = FALSE
  /\ edits = 0 /\ failures = 0 /\ downloads = 0

--------------------------------------------------------------------------------
(* ExchangeEngine: state and progress.                                       *)

resetProgress(e, controller) ==
  [e EXCEPT !.max = 0, !.current = 0, !.allowed = controller]

addProgress(e, count) ==
  IF e.allowed = "upload" THEN [e EXCEPT !.max = @ + count] ELSE e

incrementProgress(e) ==
  IF e.allowed = "upload" THEN [e EXCEPT !.current = @ + 1] ELSE e

\* A new state starts a new progress; a state that is already reached goes on.
upstate(e, state, controller) ==
  IF e.state = state THEN e ELSE resetProgress([e EXCEPT !.state = state], controller)

\* uploadingChanged(true) and uploadingChanged(false).
UploadingStarted(e) ==
  IF e.state = "error" THEN e ELSE upstate(e, "uploading", "upload")

UploadingStopped(e) ==
  IF e.state = "uploading" THEN upstate(e, "synchronized", "none") ELSE e

--------------------------------------------------------------------------------
(* ChangeController.                                                         *)

\* What there is to upload: changed rows, and rows for the new device except
\* those whose deletion is uploaded anyway.
Changes == {<<k, AnyDevice>> : k \in {k \in Keys : row[k].changed}}
DeviceChanges ==
  {<<k, NewDevice>> : k \in {k \in deviceUploads :
     ~NoExists(row[k]) /\ ~(row[k].changed /\ ExistsDeleted(row[k]))}}
Waiting == Changes \cup DeviceChanges

changeCount == Cardinality(Waiting)

ActiveIds == {u.id : u \in active}

AtMost(n, set) == IF Cardinality(set) < n THEN Cardinality(set) ELSE n

\* Changes come before device changes in a part of the result.
ChangesFirst(part, all) == part \cap DeviceChanges # {} => all \cap Changes \subseteq part

\* loadChanges loads at most UploadLimit entries, in an order that is up to the
\* database; uploadNext skips what is active and stops at the limit.
Startable ==
  {fresh \in SUBSET (Waiting \ ActiveIds) :
     \E window \in SUBSET Waiting :
       /\ Cardinality(window) = AtMost(UploadLimit, Waiting)
       /\ ChangesFirst(window, Waiting)
       /\ fresh \subseteq window
       /\ Cardinality(fresh) =
            AtMost(UploadLimit - Cardinality(active), window \ ActiveIds)
       /\ ChangesFirst(fresh, window \ ActiveIds)}

InfoFor(id) ==
  [id |-> id, version |-> row[id[1]].version, isDelete |-> ExistsDeleted(row[id[1]])]

\* An upload whose data cannot be read is not sent.
Failing(id) == id[1] \in Unreadable /\ Exists(row[id[1]])

\* The members of a set in any order.
Orders(set) == {seq \in [1..Cardinality(set) -> set] :
                  \A i, j \in DOMAIN seq : i # j => seq[i] # seq[j]}

\* RemoteConnector::isIdle, the state of the state machine.
isIdle == link \in {"idle", "dead"}

\* RemoteConnector::uploadData and uploadDeviceData: outside of the idle state they
\* ignore what they are asked to send; on a dead connection it is lost.
uploadData(ids) ==
  /\ ignored' = IF isIdle' THEN ignored ELSE ignored \cup ids
  /\ \E order \in Orders(ids) :
       acks' = IF link' = "idle" THEN acks \o order ELSE acks

\* uploadNext(emitStarted), for an engine in state e and what is left of the
\* queue of calls.
UploadNext(emitStarted, e, calls) ==
  LET running == active # {}
      noted == IF emitStarted /\ running THEN UploadingStarted(e) ELSE e
      starting == emitStarted /\ ~running
      count == IF estimate = 0 THEN changeCount ELSE 0
  IN
  IF Cardinality(active) >= UploadLimit
    THEN /\ engine' = noted
         /\ queue' = calls
         /\ UNCHANGED <<active, ignored, estimate, opTimer, acks>>
    ELSE \E fresh \in Startable :
         LET failing == {id \in fresh : Failing(id)}
             begun == IF starting /\ fresh # {} THEN UploadingStarted(noted) ELSE noted
             counted == IF starting /\ fresh = {} THEN begun ELSE addProgress(begun, count)
             over == ~running /\ fresh = {}
         IN
         /\ active' = active \cup {InfoFor(id) : id \in fresh}
         /\ estimate' = (estimate + count) % EstimateSize
         /\ opTimer' = (fresh # {} \/ (opTimer /\ ~over))
         /\ engine' = IF over THEN UploadingStopped(counted) ELSE counted
         /\ uploadData(fresh \ failing)
         /\ \E order \in Orders(failing) :
              queue' = calls \o [i \in DOMAIN order |-> Call("uploadDone", order[i][1])]

\* setUploadingEnabled(false), and clearUploads; the signal uploadingChanged(false)
\* goes to an engine in state e.
DisableUploading(e) ==
  /\ uploading' = FALSE
  /\ opTimer' = FALSE
  /\ engine' = UploadingStopped(e)

\* Faulty: what was active stays active.
StopUploads(e) ==
  /\ DisableUploading(e)
  /\ estimate' = 0
  /\ ignored' = {}
  /\ UNCHANGED active

ClearUploads(e) ==
  /\ DisableUploading(e)
  /\ active' = {}
  /\ ignored' = {}
  /\ estimate' = 0

\* Faulty: nothing looks for the next upload.
DoneWithoutNext(id, calls) ==
  /\ active' = {u \in active : u.id # id}
  /\ row' = [row EXCEPT ![id[1]] = markUnchanged(@, @.version, ExistsDeleted(@))]
  /\ queue' = calls
  /\ UNCHANGED <<deviceUploads, estimate, engine>>

\* uploadDone and deviceUploadDone, for an upload that is active or not.  The row
\* is only marked when it still has the uploaded version.
UploadDone(id, calls) ==
  IF id \notin ActiveIds
    THEN /\ queue' = calls
         /\ UNCHANGED <<row, deviceUploads, active, estimate, engine>>
    ELSE \E info \in {u \in active : u.id = id} :
         /\ active' = active \ {info}
         /\ IF id[2] = AnyDevice
              THEN /\ row' = [row EXCEPT ![id[1]] =
                        markUnchanged(@, info.version, info.isDelete)]
                   /\ UNCHANGED deviceUploads
              ELSE /\ deviceUploads' = deviceUploads \ {id[1]}
                   /\ UNCHANGED row
         /\ estimate' = (estimate + EstimateSize - 1) % EstimateSize
         /\ engine' = incrementProgress(engine)
         /\ queue' = IF uploading THEN Append(calls, Call("uploadNext", "")) ELSE calls

--------------------------------------------------------------------------------
(* Changes of the local store.  The signal uploadNeeded is queued.           *)

Triggered == queue' = Append(queue, Call("changeTriggered", ""))

EditRow(k, newRow) ==
  /\ edits < MaxEdits
  /\ edits' = edits + 1
  /\ row' = [row EXCEPT ![k] = newRow]
  /\ UNCHANGED <<deviceUploads, controllerVars, engine, linkVars, serverVars, failures,
                 downloads>>

Save(k) == \E data \in Data : EditRow(k, save(row[k], data)) /\ Triggered

Remove(k) == Exists(row[k]) /\ EditRow(k, remove(row[k])) /\ Triggered

\* SyncController::syncChange for a downloaded change, which only arrives after
\* the server has announced changes.
Merge(k) ==
  /\ link = "idle" /\ ~uploading
  /\ \E version \in {row[k].version, row[k].version + 1} \ {0}, content \in Payload :
       LET merged == syncChange(row[k], version, content) IN
       /\ merged # row[k]
       /\ EditRow(k, merged)
       /\ IF merged.changed THEN Triggered ELSE UNCHANGED queue

\* accountAccessGranted: prepareAccountAdded for the new device.
AddDevice ==
  /\ link = "idle"
  /\ edits < MaxEdits
  /\ edits' = edits + 1
  /\ deviceUploads' = {k \in Keys : ~NoExists(row[k])}
  /\ IF deviceUploads' # {} THEN Triggered ELSE UNCHANGED queue
  /\ UNCHANGED <<row, controllerVars, engine, linkVars, serverVars, failures, downloads>>

--------------------------------------------------------------------------------
(* The event loop: calls in the order in which they were posted.             *)

Take(name) == queue # << >> /\ Head(queue).call = name

RunChangeTriggered ==
  /\ Take("changeTriggered")
  /\ UNCHANGED linkVars
  /\ IF uploading
       THEN UploadNext(active = {}, engine, Tail(queue))
       ELSE /\ queue' = Tail(queue)
            /\ UNCHANGED <<active, ignored, estimate, opTimer, engine, acks>>
  /\ UNCHANGED <<storeVars, uploading, owed, failures, downloads>>

RunUploadNext ==
  /\ Take("uploadNext")
  /\ UNCHANGED linkVars
  /\ UploadNext(FALSE, engine, Tail(queue))
  /\ UNCHANGED <<storeVars, uploading, owed, failures, downloads>>

\* readJson has failed: the change is assumed to be unchanged.
RunUploadDone ==
  /\ Take("uploadDone")
  /\ UploadDone(<<Head(queue).arg, AnyDevice>>, Tail(queue))
  /\ UNCHANGED <<edits, uploading, ignored, opTimer, linkVars, serverVars, failures,
                 downloads>>

\* Leaving Active clears the uploads and tells the engine RemoteDisconnected,
\* which ignores it after an error.
LeaveActive(newLink) ==
  /\ link' = newLink
  /\ acks' = << >>
  /\ owed' = FALSE
  /\ IF engine.state = "error"
       THEN UNCHANGED <<controllerVars, engine>>
       ELSE ClearUploads(resetProgress([engine EXCEPT !.state = "disconnected"], "none"))

\* doConnect tells the engine RemoteConnecting.
EnterActive ==
  /\ link' = "connecting"
  /\ ClearUploads(resetProgress([engine EXCEPT !.state = "initializing"], "none"))
  /\ UNCHANGED serverVars

Active == {"connecting", "idle", "dead"}

RunReconnect ==
  /\ Take("reconnect")
  /\ queue' = Tail(queue)
  /\ CASE link \in {"off", "retry"} -> EnterActive
       [] link \in Active -> LeaveActive("reconnecting")
       [] link \in {"failing", "reconnecting"} ->
            link' = "reconnecting" /\ UNCHANGED <<controllerVars, engine, serverVars>>
  /\ UNCHANGED <<storeVars, retryIndex, retryTimer, failures, downloads>>

RunFatalError ==
  /\ Take("fatalError")
  /\ queue' = Tail(queue)
  /\ IF link \in Active
       THEN LeaveActive("failing")
       ELSE UNCHANGED <<link, serverVars, controllerVars, engine>>
  /\ UNCHANGED <<storeVars, retryIndex, retryTimer, failures, downloads>>

\* The socket is gone: retry, or finish what closing it was for.
RunDisconnected ==
  /\ Take("disconnected")
  /\ queue' = Tail(queue)
  /\ CASE link \in Active ->
            LeaveActive("retry") /\ retryIndex' = TRUE /\ retryTimer' = TRUE
       [] link = "reconnecting" -> EnterActive /\ UNCHANGED <<retryIndex, retryTimer>>
       [] link = "failing" ->
            /\ link' = "off"
            /\ UNCHANGED <<retryIndex, retryTimer, serverVars, controllerVars, engine>>
       [] link \in {"off", "retry"} ->
            UNCHANGED <<link, retryIndex, retryTimer, serverVars, controllerVars, engine>>
  /\ UNCHANGED <<storeVars, failures, downloads>>

--------------------------------------------------------------------------------
(* RemoteConnector: what arrives from the connection and from timers.        *)

Announce(e) == [e EXCEPT !.state = "uploading", !.max = 0, !.current = 0,
                         !.allowed = "upload"]

\* RemoteReady: after an error only a reconnect is listened to.
RemoteReady ==
  IF engine.state = "error"
    THEN UNCHANGED <<controllerVars, engine, acks, queue>>
    ELSE /\ uploading' = TRUE
         /\ UploadNext(TRUE, Announce(engine), queue)

RemoteReadyWithChanges ==
  IF engine.state = "error"
    THEN UNCHANGED <<controllerVars, engine>>
    ELSE /\ DisableUploading(upstate(engine, "downloading", "download"))
         /\ UNCHANGED <<active, ignored, estimate>>

\* While the state machine has an event to process, messages are buffered.
MachineIsBusy ==
  \E i \in DOMAIN queue : queue[i].call \in {"reconnect", "fatalError", "disconnected"}

Welcome(hasChanges) ==
  /\ link = "connecting" /\ ~MachineIsBusy
  /\ link' = "idle"
  /\ retryIndex' = FALSE
  /\ owed' = hasChanges
  /\ IF hasChanges
       THEN RemoteReadyWithChanges /\ UNCHANGED <<acks, queue>>
       ELSE RemoteReady
  /\ UNCHANGED <<storeVars, retryTimer, failures, downloads>>

\* The user's request, also on a connection whose loss nobody has noticed.  The
\* server answers it with changes and their end, or at once with the end.
resync ==
  /\ isIdle
  /\ downloads < MaxDownloads
  /\ downloads' = downloads + 1
  /\ owed' = (owed \/ link = "idle")
  /\ RemoteReadyWithChanges
  /\ UNCHANGED <<storeVars, linkVars, acks, queue, failures>>

\* A ChangedInfoMessage: when what it announces is acknowledged, the server tells
\* the end.
ChangesAnnounced ==
  /\ link = "idle" /\ ~MachineIsBusy
  /\ downloads < MaxDownloads
  /\ downloads' = downloads + 1
  /\ owed' = TRUE
  /\ RemoteReadyWithChanges
  /\ UNCHANGED <<storeVars, linkVars, acks, queue, failures>>

\* A LastChangedMessage.  The server owes it at the end of downloads; it may send
\* others, when a notification finds nothing to download.
OnLastChanged ==
  /\ link = "idle" /\ ~MachineIsBusy
  /\ owed' = FALSE
  /\ UNCHANGED linkVars
  /\ RemoteReady
  /\ UNCHANGED <<storeVars, failures, downloads>>

\* onChangeAck and onDeviceChangeAck, in the order of the uploads.
OnChangeAck ==
  /\ link = "idle" /\ ~MachineIsBusy /\ acks # << >>
  /\ acks' = Tail(acks)
  /\ UploadDone(Head(acks), queue)
  /\ UNCHANGED <<edits, uploading, ignored, opTimer, linkVars, owed, failures, downloads>>

Fail == failures < MaxFailures /\ failures' = failures + 1

Post(name, arg) == queue' = Append(queue, Call(name, arg))

\* controllerError, for an error message of the server or a change that cannot
\* be merged.
ControllerError ==
  /\ link \in {"connecting", "idle"} /\ ~MachineIsBusy
  /\ Fail
  /\ Post("fatalError", "")
  /\ ClearUploads([engine EXCEPT !.state = "error"])
  /\ UNCHANGED <<storeVars, linkVars, serverVars, downloads>>

\* The connection is lost: nothing that was sent is answered any more.
LoseConnection ==
  /\ link \in {"connecting", "idle"}
  /\ Fail
  /\ link' = "dead"
  /\ acks' = << >>
  /\ owed' = FALSE
  /\ Post("disconnected", "")
  /\ UNCHANGED <<storeVars, controllerVars, engine, retryIndex, retryTimer,
                 downloads>>

\* The socket that doDisconnect closes has been closed.
SocketClosed ==
  /\ link \in {"failing", "reconnecting"} /\ ~Take("disconnected")
  /\ \A i \in DOMAIN queue : queue[i].call # "disconnected"
  /\ Post("disconnected", "")
  /\ UNCHANGED <<storeVars, controllerVars, engine, linkVars, serverVars, failures, downloads>>

\* SyncManager::reconnect.
Reconnect ==
  /\ Fail
  /\ Post("reconnect", "")
  /\ UNCHANGED <<storeVars, controllerVars, engine, linkVars, serverVars, downloads>>

\* The operation timer of ChangeController makes the engine reconnect.
OperationTimeout ==
  /\ opTimer
  /\ Fail
  /\ opTimer' = FALSE
  /\ Post("reconnect", "")
  /\ UNCHANGED <<storeVars, uploading, active, ignored, estimate, engine, linkVars, serverVars,
                 downloads>>

\* The timer of retry: it reconnects unless a connection has been idle since.
RetryTimeout ==
  /\ retryTimer
  /\ retryTimer' = FALSE
  /\ IF retryIndex THEN Post("reconnect", "") ELSE UNCHANGED queue
  /\ UNCHANGED <<storeVars, controllerVars, engine, link, retryIndex, serverVars,
                 failures, downloads>>

--------------------------------------------------------------------------------
StoreStep == AddDevice \/ \E k \in Keys : Save(k) \/ Remove(k) \/ Merge(k)

LoopStep ==
  \/ RunChangeTriggered
  \/ RunUploadNext
  \/ RunUploadDone
  \/ RunReconnect
  \/ RunFatalError
  \/ RunDisconnected

LinkStep ==
  \/ \E hasChanges \in BOOLEAN : Welcome(hasChanges)
  \/ SocketClosed
  \/ RetryTimeout

FailureStep == ControllerError \/ LoseConnection \/ Reconnect \/ OperationTimeout

Next == StoreStep \/ LoopStep \/ LinkStep \/ FailureStep
        \/ OnChangeAck \/ OnLastChanged \/ ChangesAnnounced \/ resync

\* The event loop runs, the server acknowledges uploads and ends the downloads that
\* it has begun, and a connection that is being opened, closed or retried gets
\* there.  Everything else need not happen.
Fairness ==
  /\ WF_vars(LoopStep)
  /\ WF_vars(LinkStep)
  /\ WF_vars(OnChangeAck)
  /\ WF_vars(owed /\ OnLastChanged)

Spec == Init /\ [][Next]_vars
FairSpec == Spec /\ Fairness

--------------------------------------------------------------------------------
(* Properties.                                                               *)

\* An upload that occupies a place below the limit on a live connection is
\* going to be completed: it was sent on this connection, or its failed read
\* is about to complete it.  There are two exceptions.  The upload of an
\* unreadable dataset for a new device is completed under the wrong key, and
\* uploads that a queued call has started while there was no connection are
\* never sent.
Stuck == ignored \cup {id \in ActiveIds : id[2] = NewDevice /\ id[1] \in Unreadable}

ActiveIsAnswered ==
  link = "idle" => \A id \in ActiveIds \ Stuck :
    \/ \E i \in DOMAIN acks : acks[i] = id
    \/ id[2] = AnyDevice /\ \E i \in DOMAIN queue : queue[i] = Call("uploadDone", id[1])

\* Every change is uploaded, unless the engine remains in the error state or the
\* upload is one of the stuck ones.
Delivers == <>[](engine.state = "error") \/ <>[](Waiting \subseteq Stuck)
================================================================================
