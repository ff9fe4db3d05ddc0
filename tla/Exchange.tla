-------------------------------- MODULE Exchange -------------------------------
(***************************************************************************)
(* The exchange of one dataset between the devices of one account through  *)
(* the server: the row in every device's LocalStore, the upload that       *)
(* ChangeController has in flight, the two directions of the connection,   *)
(* the changes the server's database holds and the devices each of them    *)
(* still has to reach, and the downloads a server-side Client has started. *)
(* Datasets do not influence each other here: rows are keyed by dataset on *)
(* both sides and the limits on parallel transfers are not reached.        *)
(*                                                                         *)
(* Users save and remove at any time, connected or not, and a connection   *)
(* may be lost at any time, with all that is on its way to the device.     *)
(* What the server has received by then it may still work off, long after  *)
(* the device has connected again.                                         *)
(***************************************************************************)
EXTENDS SyncRules, Sequences, FiniteSets

CONSTANTS
  Devices,    \* the devices of the account
  ReuseKeys,  \* may a key be saved again after it was removed?
  CacheSize,  \* how many values Client::_cachedChanges has: 2^32 in the code
  MaxEdits,   \* bound: saves and removes by users, over all devices
  MaxDrops,   \* bound: lost connections, over all devices
  Unsteady    \* bound: the devices whose connections are lost

ASSUME DevicesAssumption == IsFiniteSet(Devices)

ASSUME BoundsAssumption ==
  /\ ReuseKeys \in BOOLEAN
  /\ CacheSize \in Nat \ {0}
  /\ MaxEdits \in Nat
  /\ MaxDrops \in Nat
  /\ Unsteady \subseteq Devices

VARIABLES
  row,        \* row[d]: the dataset's row in the DataIndex of device d
  session,    \* session[d]: "offline", "login" (the server welcomes d), "idle"
  uploading,  \* uploading[d]: ChangeController::_uploadingEnabled
  active,     \* active[d]: entry of ChangeController::_activeUploads, or NoUpload
  events,     \* events[d]: calls queued in the event loop of d's engine
  up, down,   \* messages from d to the server, and from the server to d
  change,     \* change[s]: s's entry in the table datachanges, or NoChange
  pending,    \* pending[d]: devices s whose change has a devicechanges entry for d
  nextId,     \* the next id of datachanges
  notified,   \* notified[d]: a database notification for d is on its way
  loading,    \* loading[d]: the login of d has not loaded the changes for d yet
  inflight,   \* inflight[d]: Client::_activeDownloads, ids of changes sent to d
  cached,     \* cached[d]: Client::_cachedChanges
  late,       \* late[d]: messages of d's lost connections that the server still
              \* handles, each with the number of its connection
  edits,      \* saves and removes so far
  drops,      \* lost connections so far
  forgot,     \* for the properties: a device does not keep the version it had of
              \* the dataset, or the version of a deletion it was told of
  overtaken   \* for the properties: a change of a lost connection has replaced a
              \* newer one that somebody still has to get

storeVars  == <<row, edits, forgot>>
deviceVars == <<session, uploading, active, events>>
tableVars  == <<change, pending, nextId, notified>>
clientVars == <<loading, inflight, cached>>
dropVars   == <<drops, late, overtaken>>
vars == <<row, session, uploading, active, events, up, down, change, pending,
          nextId, notified, loading, inflight, cached, late, edits, drops, forgot,
          overtaken>>

--------------------------------------------------------------------------------
(* Types.                                                                    *)

NoUpload == [version |-> 0, isDelete |-> FALSE]
Upload == [version : Nat, isDelete : BOOLEAN]

NoChange == [id |-> 0, version |-> 0, content |-> Deleted]
Change == [id : Nat, version : Nat, content : Payload]

UpMessage ==
       [type : {"change"}, version : Nat, content : Payload]
  \cup [type : {"changedAck"}, id : Nat]

DownMessage ==
       [type : {"welcome"}, hasChanges : BOOLEAN]
  \cup [type : {"changed"}, id : Nat, version : Nat, content : Payload, info : BOOLEAN]
  \cup [type : {"lastChanged", "changeAck"}]

\* Of two rows or changes: a has a newer version than b, or the same data at the
\* same version. Version 0 stands for no data at all.
AsNew(a, b) ==
  \/ b.version = 0
  \/ a.version > b.version
  \/ a.version = b.version /\ a.content = b.content

TypeOK ==
  /\ row \in [Devices -> Row]
  /\ session \in [Devices -> {"offline", "login", "idle"}]
  /\ uploading \in [Devices -> BOOLEAN]
  /\ active \in [Devices -> Upload]
  /\ events \in [Devices -> SUBSET {"uploadNext", "changeTriggered"}]
  /\ up \in [Devices -> Seq(UpMessage)]
  /\ down \in [Devices -> Seq(DownMessage)]
  /\ change \in [Devices -> Change]
  /\ pending \in [Devices -> SUBSET Devices]
  /\ nextId \in Nat \ {0}
  /\ notified \in [Devices -> BOOLEAN]
  /\ inflight \in [Devices -> Seq(Nat)]
  /\ loading \in [Devices -> BOOLEAN]
  /\ cached \in [Devices -> 0..CacheSize-1]
  /\ late \in [Devices -> SUBSET (Nat \X UpMessage)]
  /\ edits \in Nat
  /\ drops \in Nat
  /\ {forgot, overtaken} \subseteq BOOLEAN

--------------------------------------------------------------------------------
(* The account starts either without the dataset or with it synchronized;    *)
(* every device has been added to the account and is offline.                *)
Init ==
  /\ \E r \in {NoRow} \cup {MakeRow(1, data, FALSE) : data \in Data} :
       row = [d \in Devices |-> r]
  /\ session = [d \in Devices |-> "offline"]
  /\ uploading = [d \in Devices |-> FALSE]
  /\ active = [d \in Devices |-> NoUpload]
  /\ events = [d \in Devices |-> {}]
  /\ up = [d \in Devices |-> << >>]
  /\ down = [d \in Devices |-> << >>]
  /\ change = [d \in Devices |-> NoChange]
  /\ pending = [d \in Devices |-> {}]
  /\ nextId = 1
  /\ notified = [d \in Devices |-> FALSE]
  /\ inflight = [d \in Devices |-> << >>]
  /\ loading = [d \in Devices |-> FALSE]
  /\ cached = [d \in Devices |-> 0]
  /\ late = [d \in Devices |-> {}]
  /\ edits = 0
  /\ drops = 0
  /\ forgot = FALSE
  /\ overtaken = FALSE

--------------------------------------------------------------------------------
(* Users: DataStore calls on any thread.  The engine hears of the change     *)
(* through the queued signal uploadNeeded.                                   *)

Edit(d, newRow) ==
  /\ edits < MaxEdits
  /\ edits' = edits + 1
  /\ row' = [row EXCEPT ![d] = newRow]
  /\ events' = [events EXCEPT ![d] = @ \cup {"changeTriggered"}]
  /\ UNCHANGED <<session, uploading, active, up, down, tableVars, clientVars, dropVars, forgot>>

\* Without key reuse a key is created once and only saved again while it exists.
Save(d, data) ==
  /\ ReuseKeys \/ Exists(row[d]) \/ (edits = 0 /\ NoExists(row[d]))
  /\ Edit(d, save(row[d], data))

Remove(d) ==
  /\ Exists(row[d])
  /\ Edit(d, remove(row[d]))

--------------------------------------------------------------------------------
(* ChangeController::uploadNext on device d: a changed row that is not being  *)
(* uploaded is sent; RemoteConnector::uploadData silently drops the message  *)
(* unless d is idle.                                                         *)
UploadNext(d) ==
  LET start == row[d].changed /\ active[d] = NoUpload IN
  /\ active' = [active EXCEPT ![d] =
       IF start
         THEN [version |-> row[d].version, isDelete |-> ExistsDeleted(row[d])]
         ELSE @]
  /\ up' = [up EXCEPT ![d] =
       IF start /\ session'[d] = "idle"
         THEN Append(@, [type |-> "change", version |-> row[d].version,
                         content |-> row[d].content])
         ELSE @]

\* The event loop runs a queued uploadNext, whether or not uploading is enabled.
RunUploadNext(d) ==
  /\ "uploadNext" \in events[d]
  /\ events' = [events EXCEPT ![d] = @ \ {"uploadNext"}]
  /\ UNCHANGED session
  /\ UploadNext(d)
  /\ UNCHANGED <<storeVars, uploading, down, tableVars, clientVars, dropVars>>

\* The event loop runs changeTriggered.
RunChangeTriggered(d) ==
  /\ "changeTriggered" \in events[d]
  /\ events' = [events EXCEPT ![d] = @ \ {"changeTriggered"}]
  /\ UNCHANGED session
  /\ IF uploading[d]
       THEN UploadNext(d)
       ELSE UNCHANGED <<active, up>>
  /\ UNCHANGED <<storeVars, uploading, down, tableVars, clientVars, dropVars>>

--------------------------------------------------------------------------------
(* The server: Client::triggerDownload.                                      *)

\* The order in which loadNextChanges lists the changes that d has to get.
DeliveryOrders(d) ==
  {rows \in [1..Cardinality(pending'[d]) -> pending'[d]] :
     \A i, j \in DOMAIN rows : i < j => change'[rows[i]].id < change'[rows[j]].id}

\* How many of the listed changes follow the active downloads.
FreshCount(rows, actives) ==
  IF Len(rows) > Len(actives) THEN Len(rows) - Len(actives) ELSE 0

\* The message for a change; info is set in a ChangedInfoMessage.
ChangedFor(c, info) ==
  [type |-> "changed", id |-> c.id, version |-> c.version, content |-> c.content,
   info |-> info]

\* changeCount, in a transaction after the one that has listed the changes: other
\* devices may have sent theirs in between, and confirmations of a lost
\* connection of d may have been handled.
LaterCounts(d) ==
  LET settled == {s \in pending'[d] : \E x \in late'[d] :
                    x[2].type = "changedAck" /\ x[2].id = change'[s].id}
  IN Cardinality(pending'[d] \ settled)..Cardinality(Devices \ {d})

\* _cachedChanges before each of the fresh messages and after them.  It is loaded
\* when it is 0, and counts down; a number that is out of date makes it wrap.
CountDowns(d, actives, cache, fresh) ==
  {counts \in [1..fresh + 1 -> 0..CacheSize-1] :
     /\ counts[1] = cache
     /\ \A i \in 1..fresh :
          IF counts[i] # 0 THEN counts[i + 1] = counts[i] - 1
          ELSE \E n \in LaterCounts(d) :
                 counts[i + 1] = (n - Len(actives) - i) % CacheSize}

\* Send d the listed changes that follow the active downloads.  The first message
\* after a login (force), and the one for which the number was loaded, announces
\* the number.  When nothing is active the end is announced, unless d knows it
\* (skip).  The download limit is not reached.
TriggerDownload(d, actives, cache, force, skip) ==
  \E rows \in DeliveryOrders(d) :
    LET fresh == FreshCount(rows, actives)
        Entry(i) == change'[rows[Len(actives) + i]]
        all == actives \o [i \in 1..fresh |-> Entry(i).id]
        done == all = << >> /\ ~skip
    IN \E counts \in CountDowns(d, actives, cache, fresh) :
         LET messages == [i \in 1..fresh |->
                            ChangedFor(Entry(i), (i = 1 /\ force) \/ counts[i] = 0)]
         IN
         /\ inflight' = [inflight EXCEPT ![d] = all]
         /\ cached' = [cached EXCEPT ![d] = IF done THEN 0 ELSE counts[fresh + 1]]
         /\ down' = [down EXCEPT ![d] =
              @ \o (IF done THEN <<[type |-> "lastChanged"]>> ELSE messages)]

\* d connects and the server handles its LoginMessage, up to the answer.
\* Connecting clears the uploads; a call queued before the connection was lost has
\* run by now.
Login(d) ==
  /\ session[d] = "offline"
  /\ "uploadNext" \notin events[d]
  /\ session' = [session EXCEPT ![d] = "login"]
  /\ active' = [active EXCEPT ![d] = NoUpload]
  /\ loading' = [loading EXCEPT ![d] = TRUE]
  /\ cached' = [cached EXCEPT ![d] = Cardinality(pending[d]) % CacheSize]
  /\ down' = [down EXCEPT ![d] =
       Append(@, [type |-> "welcome", hasChanges |-> pending[d] # {}])]
  /\ UNCHANGED <<storeVars, uploading, events, up, tableVars, inflight, dropVars>>

\* The end of the login task.
LoadChanges(d) ==
  /\ session[d] # "offline" /\ loading[d]
  /\ loading' = [loading EXCEPT ![d] = FALSE]
  /\ UNCHANGED <<storeVars, deviceVars, up, tableVars, dropVars>>
  /\ TriggerDownload(d, << >>, cached[d], TRUE, cached[d] = 0)

\* A database notification reaches the server-side Client of d, if there is one.
NotifyChanged(d) ==
  /\ notified[d] /\ ~loading[d]
  /\ notified' = [notified EXCEPT ![d] = FALSE]
  /\ UNCHANGED <<storeVars, deviceVars, up, change, pending, nextId, loading, dropVars>>
  /\ IF session[d] = "offline"
       THEN UNCHANGED <<inflight, cached, down>>
       ELSE TriggerDownload(d, inflight[d], cached[d], FALSE, FALSE)

\* DatabaseController::addChange replaces d's change of the dataset, whatever their
\* versions are, assigns it to every other device and notifies these.
AddChange(d, m) ==
  /\ change' = [change EXCEPT ![d] =
       IF Devices = {d} THEN NoChange
       ELSE [id |-> nextId, version |-> m.version, content |-> m.content]]
  /\ nextId' = nextId + 1
  /\ pending' = [e \in Devices |-> IF e = d THEN pending[e] ELSE pending[e] \cup {d}]
  /\ notified' = [e \in Devices |-> notified[e] \/ e # d]

\* Client::onChange.
OnChange(d) ==
  /\ up[d] # << >> /\ Head(up[d]).type = "change" /\ ~loading[d]
  /\ up' = [up EXCEPT ![d] = Tail(@)]
  /\ AddChange(d, Head(up[d]))
  /\ down' = [down EXCEPT ![d] = Append(@, [type |-> "changeAck"])]
  /\ UNCHANGED <<storeVars, deviceVars, clientVars, dropVars>>

\* Faulty: an acknowledgement completes the dataset, not the change with the id.
CompleteDataset(d, id) ==
  /\ pending' = [pending EXCEPT ![d] = {}]
  /\ change' = [s \in Devices |->
       IF s \in UNION {pending[e] : e \in Devices \ {d}} THEN change[s] ELSE NoChange]

\* DatabaseController::completeChange drops d's entry for the id, and the change
\* itself when this was the last entry.  Two devices that confirm the last two
\* entries at the same time do not see each other's deletion (READ COMMITTED):
\* then the change stays, for nobody.
CompleteChange(d, id) ==
  LET left == {s \in pending[d] : change[s].id # id}
      held == left \cup UNION {pending[e] : e \in Devices \ {d}}
      done == {s \in Devices \ held : change[s].id = id}
  IN
  /\ pending' = [pending EXCEPT ![d] = left]
  /\ \E kept \in SUBSET (IF Cardinality(Devices) > 2 THEN done \cap pending[d] ELSE {}) :
       change' = [s \in Devices |-> IF s \in done \ kept THEN NoChange ELSE change[s]]

\* QList::removeOne: the sequence without the first x, as a set with one member.
RemoveOne(seq, x) ==
  IF \E i \in DOMAIN seq : seq[i] = x
    THEN {SubSeq(seq, 1, i - 1) \o SubSeq(seq, i + 1, Len(seq)) :
            i \in {i \in DOMAIN seq : seq[i] = x /\ \A j \in 1..i-1 : seq[j] # x}}
    ELSE {seq}

\* Client::onChangedAck.
OnChangedAck(d) ==
  /\ up[d] # << >> /\ Head(up[d]).type = "changedAck" /\ ~loading[d]
  /\ up' = [up EXCEPT ![d] = Tail(@)]
  /\ CompleteChange(d, Head(up[d]).id)
  /\ UNCHANGED <<storeVars, deviceVars, nextId, notified, loading, dropVars>>
  /\ \E rest \in RemoveOne(inflight[d], Head(up[d]).id) :
       TriggerDownload(d, rest, cached[d], FALSE, FALSE)

(* What a connection has brought before it was lost is worked off by the     *)
(* Client of that connection: closeClient lets the task that runs go on, and *)
(* the server may hear of the loss late.  Nobody gets the answers.  The      *)
(* order within a connection does not matter: the change and the             *)
(* confirmations of one device are about different entries.                  *)

LateChange(d, m) ==
  /\ m.type = "change"
  /\ AddChange(d, m)
  /\ overtaken' = (overtaken \/ (~AsNew(m, change[d]) /\ \E e \in Devices : d \in pending[e]))

LateAck(d, m) ==
  /\ m.type = "changedAck"
  /\ CompleteChange(d, m.id)
  /\ UNCHANGED <<nextId, notified, overtaken>>

LateStep(d) ==
  /\ \E x \in late[d] :
       /\ late' = [late EXCEPT ![d] = @ \ {x}]
       /\ LateChange(d, x[2]) \/ LateAck(d, x[2])
  /\ UNCHANGED <<storeVars, deviceVars, up, down, clientVars, drops>>

--------------------------------------------------------------------------------
(* The device: handlers of RemoteConnector and what they call.               *)

\* Take the first message of the given type off the connection.
Receive(d, type) ==
  /\ down[d] # << >>
  /\ Head(down[d]).type = type
  /\ down' = [down EXCEPT ![d] = Tail(@)]

\* RemoteReady and RemoteReadyWithChanges, as ExchangeEngine handles them.
OnReady(d) ==
  /\ uploading' = [uploading EXCEPT ![d] = TRUE]
  /\ UploadNext(d)

OnReadyWithChanges(d) == uploading' = [uploading EXCEPT ![d] = FALSE]

OnWelcome(d) ==
  /\ Receive(d, "welcome")
  /\ session' = [session EXCEPT ![d] = "idle"]
  /\ IF Head(down[d]).hasChanges
       THEN OnReadyWithChanges(d) /\ UNCHANGED <<active, up>>
       ELSE OnReady(d)
  /\ UNCHANGED <<storeVars, events, tableVars, clientVars, dropVars>>

OnLastChanged(d) ==
  /\ Receive(d, "lastChanged")
  /\ UNCHANGED session
  /\ OnReady(d)
  /\ UNCHANGED <<storeVars, events, tableVars, clientVars, dropVars>>

\* onChangedInfo or onChanged: the change is merged in one transaction and
\* acknowledged.  A row that the merge marked for upload queues the signal.
OnChanged(d) ==
  /\ Receive(d, "changed")
  /\ LET m == Head(down[d])
         merged == syncChange(row[d], m.version, m.content)
     IN
     /\ row' = [row EXCEPT ![d] = merged]
     /\ forgot' = (forgot \/ merged.version < m.version)
     /\ events' = [events EXCEPT ![d] =
          IF merged # row[d] /\ merged.changed THEN @ \cup {"changeTriggered"} ELSE @]
     /\ up' = [up EXCEPT ![d] = Append(@, [type |-> "changedAck", id |-> m.id])]
     /\ IF m.info THEN OnReadyWithChanges(d) ELSE UNCHANGED uploading
  /\ UNCHANGED <<edits, session, active, tableVars, clientVars, dropVars>>

\* Faulty: nothing looks for the next upload.
AckWithoutNext(d) ==
  /\ Receive(d, "changeAck")
  /\ row' = [row EXCEPT ![d] =
       markUnchanged(@, active[d].version, active[d].isDelete)]
  /\ active' = [active EXCEPT ![d] = NoUpload]
  /\ UNCHANGED <<edits, forgot, session, uploading, events, up, tableVars, clientVars, dropVars>>

\* onChangeAck and ChangeController::uploadDone.
OnChangeAck(d) ==
  /\ Receive(d, "changeAck")
  /\ IF active[d] = NoUpload
       THEN UNCHANGED <<row, forgot, active, events>>
       ELSE /\ row' = [row EXCEPT ![d] =
                 markUnchanged(@, active[d].version, active[d].isDelete)]
            /\ forgot' = (forgot \/ row'[d].version < row[d].version)
            /\ active' = [active EXCEPT ![d] = NoUpload]
            /\ events' = [events EXCEPT ![d] =
                 IF uploading[d] THEN @ \cup {"uploadNext"} ELSE @]
  /\ UNCHANGED <<edits, session, uploading, up, tableVars, clientVars, dropVars>>

\* The connection is lost.  The device clears its uploads and gets nothing of what
\* is on its way; of what it has sent the server has got a part, which it handles
\* before it deletes the Client.
Disconnect(d) ==
  /\ session[d] # "offline"
  /\ d \in Unsteady /\ drops < MaxDrops
  /\ drops' = drops + 1
  /\ session' = [session EXCEPT ![d] = "offline"]
  /\ uploading' = [uploading EXCEPT ![d] = FALSE]
  /\ active' = [active EXCEPT ![d] = NoUpload]
  /\ \E n \in 0..Len(up[d]) :
       late' = [late EXCEPT ![d] = @ \cup {<<drops', up[d][i]>> : i \in 1..n}]
  /\ up' = [up EXCEPT ![d] = << >>]
  /\ down' = [down EXCEPT ![d] = << >>]
  /\ loading' = [loading EXCEPT ![d] = FALSE]
  /\ inflight' = [inflight EXCEPT ![d] = << >>]
  /\ cached' = [cached EXCEPT ![d] = 0]
  /\ UNCHANGED <<storeVars, events, tableVars, overtaken>>

--------------------------------------------------------------------------------
UserStep(d) == (\E data \in Data : Save(d, data)) \/ Remove(d)

DeviceStep(d) ==
  \/ Login(d)
  \/ OnWelcome(d)
  \/ OnLastChanged(d)
  \/ OnChanged(d)
  \/ OnChangeAck(d)
  \/ RunUploadNext(d)
  \/ RunChangeTriggered(d)

ServerStep(d) ==
  \/ LoadChanges(d)
  \/ NotifyChanged(d)
  \/ OnChange(d)
  \/ OnChangedAck(d)
  \/ LateStep(d)

Next == \E d \in Devices :
  UserStep(d) \/ DeviceStep(d) \/ ServerStep(d) \/ Disconnect(d)

System == \E d \in Devices : DeviceStep(d) \/ ServerStep(d)

\* The engine's event loops and the server's task queues keep running, and
\* RemoteConnector reconnects until it succeeds.  As this ends when users do not
\* act, no choice between them has to be fair.  Users need not act and connections
\* need not be lost.
Fairness == WF_vars(System)

Spec == Init /\ [][Next]_vars
FairSpec == Spec /\ Fairness

--------------------------------------------------------------------------------
(* Properties.                                                               *)

\* Every device has this data or a newer version, or the database still holds one
\* of them for it.
Covered(data) ==
  \A e \in Devices :
    \/ AsNew(row[e], data)
    \/ \E s \in pending[e] : AsNew(change[s], data)

\* What some device holds as synchronized (ChangeController has marked it
\* unchanged, or SyncController took it from the server) reaches every device or
\* gives way to a newer version there.  A late acknowledgement, a change replaced
\* on the server, a download acknowledged too early or a conflict that is settled
\* on one side only would drop the last copy of data that nobody uploads again.
\* addChange compares no versions: only a change of a lost connection that is
\* handled after a newer one of its device does drop it.
SyncedCovered == \A d \in Devices : ~row[d].changed => Covered(row[d])
SyncedIsCovered == ~overtaken => SyncedCovered

\* When no device has anything to upload and the server nothing to deliver,
\* all devices hold the same dataset: every order in which concurrent changes
\* and deletions are merged picks the same winner on every device, unless a newer
\* change has been lost to one of an old connection.
AllSynced == \A d \in Devices : ~row[d].changed /\ pending[d] = {}

Agreement ==
  ~overtaken /\ AllSynced =>
    \A d, e \in Devices : Exists(row[d]) \/ Exists(row[e])
                             => row[d].content = row[e].content

\* Apart from such a change, purging rows is the only way to lose this: in every
\* configuration, as long as no device has forgotten a version, synchronized data
\* is covered and devices that are synchronized agree.
AgreementWhileRemembered == ~forgot => SyncedIsCovered /\ Agreement

\* Without persisted deletions, when everything is synchronized: no device lacks a
\* dataset that another device holds.
NoResurrection ==
  AllSynced => \A d, e \in Devices : Exists(row[d]) => Exists(row[e])

\* The version of a dataset never goes back, on no device: neither a merge nor
\* an acknowledgement makes a device forget how new its data is.
VersionsGrow == [][\A d \in Devices : row'[d].version >= row[d].version]_vars

\* Once the users stop and the connections hold, every change is delivered and
\* all devices stay in agreement: no order of downloads, uploads, notifications and
\* messages of lost connections, and no wrong number of cached changes, leaves a
\* device waiting with uploads that are disabled.
Converges == <>[](AllSynced /\ (~forgot => Agreement))

--------------------------------------------------------------------------------
(* Why SyncedIsCovered and Agreement hold when nothing is forgotten or       *)
(* overtaken: an inductive invariant.                                        *)

\* Where d's uploads and their acknowledgements are in the two directions.
Uploads(d) == {i \in 1..Len(up[d]) : up[d][i].type = "change"}
Acks(d) == {i \in 1..Len(down[d]) : down[d][i].type = "changeAck"}

\* At most one upload of d is on its way, as a change or as its
\* acknowledgement, and only while it is registered as active.
OneUpload ==
  \A d \in Devices :
    /\ \A i, j \in Uploads(d) : i = j
    /\ \A i, j \in Acks(d) : i = j
    /\ Uploads(d) = {} \/ Acks(d) = {}
    /\ active[d] = NoUpload => Uploads(d) = {} /\ Acks(d) = {}

\* Nothing is on its way to or from a device that is not connected.
OfflineIsSilent ==
  \A d \in Devices : session[d] = "offline" => up[d] = << >> /\ down[d] = << >>

RowsAreWellFormed == \A d \in Devices : WellFormed(row[d])

\* What a device uploads is the version registered as active; it is neither
\* newer than its row nor older than what the server has of it.
UploadIsCurrent ==
  \A d \in Devices : \A i \in Uploads(d) :
    /\ up[d][i].version = active[d].version
    /\ up[d][i].version > 0
    /\ AsNew(row[d], up[d][i]) /\ AsNew(up[d][i], change[d])

\* The identities that tell changes apart.
IdsAreUnique ==
  /\ \A s \in Devices : change[s].id < nextId
  /\ \A s, t \in Devices : change[s].id = change[t].id => s = t \/ change[s].id = 0
  /\ \A d \in Devices : \A s \in pending[d] : change[s].id > 0 /\ s # d
  /\ \A s \in Devices : change[s].id > 0 => change[s].version > 0

\* Everything the server has accepted is covered, and so is everything that is
\* on its way to a device or is about to be marked as synchronized by an ack.
AcceptedIsCovered ==
  /\ \A s \in Devices : Covered(change[s]) /\ AsNew(row[s], change[s])
  /\ \A d \in Devices : \A i \in 1..Len(down[d]) :
       /\ down[d][i].type = "changeAck" =>
            /\ active[d].version <= row[d].version
            /\ active[d].version = row[d].version => Covered(row[d])
       /\ down[d][i].type = "changed" =>
            /\ Covered(down[d][i]) /\ down[d][i].version > 0
            /\ down[d][i].id > 0 /\ down[d][i].id < nextId
            /\ \A s \in Devices : change[s].id = down[d][i].id =>
                 /\ change[s].version = down[d][i].version
                 /\ change[s].content = down[d][i].content

\* A download is acknowledged after it was merged.
AckedIsMerged ==
  \A d \in Devices : \A i \in 1..Len(up[d]) : up[d][i].type = "changedAck" =>
    /\ up[d][i].id > 0 /\ up[d][i].id < nextId
    /\ \A s \in Devices : change[s].id = up[d][i].id => AsNew(row[d], change[s])

\* What the server still handles of lost connections is nothing new: their changes
\* are neither newer than the device's row nor than what it uploads now, and the
\* downloads that they confirm were merged.
LateIsOld ==
  \A d \in Devices : \A x \in late[d] :
    /\ x[2].type = "change" =>
         /\ x[2].version > 0
         /\ AsNew(row[d], x[2])
         /\ \A i \in Uploads(d) : AsNew(up[d][i], x[2])
    /\ x[2].type = "changedAck" =>
         /\ x[2].id > 0 /\ x[2].id < nextId
         /\ \A s \in Devices : change[s].id = x[2].id => AsNew(row[d], change[s])

\* What exists, or existed, has a version.
RowsHaveVersions == \A d \in Devices : row[d].version = 0 => NoExists(row[d])

CoverInv ==
  /\ TypeOK
  /\ OneUpload
  /\ OfflineIsSilent
  /\ RowsAreWellFormed
  /\ RowsHaveVersions
  /\ UploadIsCurrent
  /\ IdsAreUnique
  /\ AcceptedIsCovered
  /\ AckedIsMerged
  /\ SyncedCovered
================================================================================
