---------------------------------- MODULE Store ----------------------------------
(***************************************************************************)
(* The store of one device as several threads and processes use it: the    *)
(* index and the event log in SQLite, one file per dataset outside of it,  *)
(* the cache every process keeps of the files (CacheInfo), the signals     *)
(* that ChangeEmitter distributes, and what applications build on these: a *)
(* CachingDataTypeStore and an EventCursor per thread.                     *)
(*                                                                         *)
(* The active process runs the engine and any number of other threads; its *)
(* threads share one cache.  A passive setup is a process of its own with  *)
(* a cache of its own, connected to the engine's ChangeEmitter by a remote *)
(* object.  SQLite runs in its default rollback-journal mode: a write      *)
(* transaction excludes other writers from its start, and readers only     *)
(* while it commits.  Files are not part of a transaction.                 *)
(*                                                                         *)
(* Not modelled: the limit of the cache (an entry may be evicted at any    *)
(* time, which is what a load that misses it sees), reset(true), which     *)
(* only marks rows for upload, and files that no row names, which a        *)
(* failure may leave behind and which nothing ever reads.                  *)
(***************************************************************************)
EXTENDS SyncRules, Sequences, FiniteSetsExt
Seqs == INSTANCE SequencesExt

CONSTANTS
  Keys,            \* datasets, all of one type
  Engine,          \* the engine's thread; also names the active process
  ActiveUsers,     \* other threads of the active process
  PassiveUsers,    \* threads with a passive setup; each names its process
  SkipObsolete,    \* threads whose EventCursor has skipObsolete set
  Queries,         \* what users search for: sets of keys that match
  None,            \* no file, nothing cached, nothing shown
  StoredAtStart,   \* keys that have data when everything starts
  FirstData,       \* their data
  MaxWrites,       \* bound: saves, removals, merges, clears and resets
  MaxFaults        \* bound: failed transactions and crashes

Users == ActiveUsers \cup PassiveUsers
Threads == Users \cup {Engine}
Processes == PassiveUsers \cup {Engine}

ASSUME ThreadsAssumption ==
  /\ IsFiniteSet(Keys)
  /\ Engine \notin Users
  /\ ActiveUsers \cap PassiveUsers = {}
  /\ SkipObsolete \subseteq Users
  /\ None \notin Data /\ Queries \subseteq SUBSET Keys

ASSUME StartAssumption == StoredAtStart \subseteq Keys /\ FirstData \in Data

ASSUME BudgetAssumption == MaxWrites \in Nat /\ MaxFaults \in Nat

VARIABLES
  row,         \* DataIndex, as committed
  file,        \* the content of the file that a row names or has named
  log,         \* EventLog
  trimmed,     \* entries deleted from EventLog: SeqIds are never used again
  cache,       \* CacheInfo of every process
  op,          \* what every thread is doing with the store
  posted,      \* calls posted to the ChangeEmitter, by process
  queue,       \* signals posted to a thread's event loop
  view,        \* _data of the CachingDataTypeStore of a thread
  cursor,      \* index of the EventCursor of a thread
  used,        \* writes and faults so far
  torn,        \* observer: keys whose last transaction failed after it had
               \* changed their file or the cache
  overlapped,  \* observer: process and key of a load that was reading while a
               \* thread of the process replaced the file
  misled       \* observer: keys a view has last heard to be deleted although
               \* they were not

vars == <<row, file, log, trimmed, cache, op, posted, queue, view, cursor, used,
          torn, overlapped, misled>>
dbVars == <<row, log, trimmed>>
signalVars == <<posted, queue>>
userVars == <<view, cursor, misled>>

ProcessOf(t) == IF t \in PassiveUsers THEN t ELSE Engine

\* EventLog: what the trigger inserts; told is an observer: whether the signal
\* dataChanged follows the commit.
Entry == [key : Keys, version : Nat, removed : BOOLEAN, told : BOOLEAN]

\* dataChanged, and dataResetted as the deletion of every key.
Event == [keys : SUBSET Keys, deleted : BOOLEAN, origin : Threads]

\* A transaction: its step, what it does, the keys it covers, the row it
\* writes and the files it has read.
Steps == {"idle", "written", "committed", "reading", "reload"}
Kinds == {"none", "store", "delete", "version", "clear", "reset", "load"}
Op(step, kind, keys, new) ==
  [step |-> step, kind |-> kind, keys |-> keys, new |-> new, got |-> <<>>]
Idle == Op("idle", "none", {}, NoRow)
IsOp(o) ==
  /\ o.step \in Steps
  /\ o.kind \in Kinds
  /\ o.keys \subseteq Keys
  /\ o.new \in Row
  /\ DOMAIN o.got \subseteq o.keys
  /\ \A k \in DOMAIN o.got : o.got[k] \in Data

\* One type invariant for the whole state.
TypeOK ==
  /\ row \in [Keys -> Row]
  /\ file \in [Keys -> Data \cup {None}]
  /\ log \in Seq(Entry)
  /\ trimmed \in Nat
  /\ cache \in [Processes -> [Keys -> Data \cup {None}]]
  /\ DOMAIN op = Threads /\ \A t \in Threads : IsOp(op[t])
  /\ posted \in [Processes -> Seq(Event)]
  /\ queue \in [Users -> Seq(Event)]
  /\ view \in [Users -> [Keys -> Data \cup {None}]]
  /\ cursor \in [Users -> 0 .. trimmed + Len(log)]
  /\ used.writes \in 0 .. MaxWrites /\ used.faults \in 0 .. MaxFaults
  /\ torn \subseteq Keys
  /\ overlapped \subseteq Processes \X Keys
  /\ misled \in [Users -> SUBSET Keys]

\* Every process has started on a store with rows from before the event log was
\* enabled, and the views have loaded them.
Init ==
  /\ row = [k \in Keys |-> IF k \in StoredAtStart THEN MakeRow(1, FirstData, FALSE) ELSE NoRow]
  /\ file = [k \in Keys |-> IF Exists(row[k]) THEN row[k].content ELSE None]
  /\ log = <<>>
  /\ trimmed = 0
  /\ cache = [p \in Processes |-> file]
  /\ op = [t \in Threads |-> Idle]
  /\ posted = [p \in Processes |-> <<>>]
  /\ queue = [t \in Users |-> <<>>]
  /\ view = [t \in Users |-> file]
  /\ cursor = [t \in Users |-> 0]
  /\ used = [writes |-> 0, faults |-> 0]
  /\ torn = {}
  /\ overlapped = {}
  /\ misled = [t \in Users |-> {}]

--------------------------------------------------------------------------------
(* SQLite's locks: a write transaction excludes others, and with BEGIN       *)
(* EXCLUSIVE readers too; a commit waits for the readers.                    *)

Writing(t) == op[t].step = "written"
Reading(t) == op[t].step = "reading"

CanWrite == \A t \in Threads : ~Writing(t)
NoReaders == \A t \in Threads : ~Reading(t)
CanRead == \A t \in Threads : Writing(t) => op[t].kind \notin {"clear", "reset"}

\* What a key holds according to the index.
Stored(k) == IF Exists(row[k]) THEN row[k].content ELSE None
StoredKeys == {k \in Keys : Exists(row[k])}

PutCached(p, data) ==
  cache' = [cache EXCEPT ![p] = [k \in Keys |-> IF k \in DOMAIN data THEN data[k] ELSE @[k]]]
Dropped(p, keys) ==
  [cache EXCEPT ![p] = [k \in Keys |-> IF k \in keys THEN None ELSE @[k]]]

--------------------------------------------------------------------------------
(* Write transactions.  A transaction begins, reads the index, prepares the  *)
(* statements and changes the files in one step: what others do in between   *)
(* does not depend on its lock.  Later it commits, and then announces what   *)
(* it has done.                                                              *)

Begin(t, kind, keys, new) ==
  /\ op[t].step = "idle"
  /\ CanWrite
  /\ used.writes < MaxWrites
  /\ used' = [used EXCEPT !.writes = @ + 1]
  /\ op' = [op EXCEPT ![t] = Op("written", kind, keys, new)]
  /\ UNCHANGED <<dbVars, signalVars, userVars, torn>>

\* Loads of the process that have already read the file.
Overlaps(t, k) ==
  \E r \in Threads :
    ProcessOf(r) = ProcessOf(t) /\ Reading(r) /\ k \in DOMAIN op[r].got

\* Faulty: an existing file is left as it is.
KeepFile(t, k, data) ==
  /\ PutCached(ProcessOf(t), [x \in {k} |-> data])
  /\ UNCHANGED <<file, overlapped>>

\* storeChangedImpl: the file of an existing row is replaced, otherwise a new file
\* is written, which nobody can find before the commit; then the cache is updated.
StoreFile(t, k, data) ==
  /\ file' = IF Exists(row[k]) THEN [file EXCEPT ![k] = data] ELSE file
  /\ PutCached(ProcessOf(t), [x \in {k} |-> data])
  /\ overlapped' = (overlapped \ (Processes \X {k})) \cup
       (IF Overlaps(t, k) THEN {<<ProcessOf(t), k>>} ELSE {})

\* remove, storeDeleted, clear and reset: the files are deleted.
DeleteFiles(keys) ==
  /\ file' = [k \in Keys |-> IF k \in keys THEN None ELSE file[k]]
  /\ overlapped' = overlapped \ (Processes \X keys)
  /\ UNCHANGED cache

\* LocalStore::save, called by an application.
Save(t, k, data) ==
  Begin(t, "store", {k}, save(row[k], data)) /\ StoreFile(t, k, data)

\* LocalStore::remove.  If the file is not there it throws and rolls back.
RemoveKey(t, k) ==
  /\ Exists(row[k]) /\ file[k] # None
  /\ Begin(t, "delete", {k}, remove(row[k]))
  /\ DeleteFiles({k})

\* LocalStore::clear: exclusive; the type's directory is deleted.
Clear(t) ==
  /\ NoReaders
  /\ StoredKeys # {}
  /\ Begin(t, "clear", StoredKeys, NoRow)
  /\ DeleteFiles(Keys)

\* LocalStore::reset(false), for ExchangeEngine::resetAccount: exclusive.
Reset == NoReaders /\ Begin(Engine, "reset", Keys, NoRow) /\ DeleteFiles(Keys)

\* Whether a merge writes the file, even if with the data it has.
MergeStores(old, version, content) ==
  /\ content \in Data
  /\ syncChange(old, version, content).content \in Data
  /\ \/ syncChange(old, version, content).content # old.content
     \/ version > old.version
     \/ version = old.version /\ content # old.content /\
          <<old.content, content>> \in DOMAIN Resolver

\* SyncController::syncChange in its SyncScope, on the engine's thread.  A removal
\* whose file is not there fails.
Merge(k, version, content) ==
  LET new == syncChange(row[k], version, content)
  IN CASE MergeStores(row[k], version, content) ->
            Begin(Engine, "store", {k}, new) /\ StoreFile(Engine, k, new.content)
       [] Exists(row[k]) /\ new.content = Deleted ->
            file[k] # None /\ Begin(Engine, "delete", {k}, new) /\ DeleteFiles({k})
       [] OTHER ->
            /\ new # row[k]
            /\ Begin(Engine, "version", {k}, new)
            /\ UNCHANGED <<file, cache, overlapped>>

\* ChangeController's markUnchanged, a single statement: only what it does to the
\* row of a deleted dataset is of interest here.
MarkUnchanged(k) ==
  /\ op[Engine].step = "idle" /\ CanWrite /\ NoReaders
  /\ ExistsDeleted(row[k])
  /\ row[k] # markUnchanged(row[k], row[k].version, TRUE)
  /\ row' = [row EXCEPT ![k] = markUnchanged(@, @.version, TRUE)]
  /\ UNCHANGED <<file, log, trimmed, cache, op, posted, queue, view, cursor, used, torn,
                 overlapped, misled>>

NewRow(o, k) ==
  IF k \notin o.keys
    THEN row[k]
    ELSE CASE o.kind = "reset" -> NoRow
           [] o.kind = "clear" -> remove(row[k])
           [] OTHER -> o.new

\* The triggers of EventLog: a row was inserted, or its version has changed.
Logged(o) ==
  LET changed == {k \in o.keys : NewRow(o, k).version # row[k].version}
  IN [i \in 1 .. Cardinality(changed) |->
        LET k == Seqs!SetToSeq(changed)[i]
        IN [key |-> k, version |-> NewRow(o, k).version,
            removed |-> ~Exists(NewRow(o, k)), told |-> o.kind # "version"]]

\* reset also empties the log.
WriteLog(o) ==
  IF o.kind = "reset"
    THEN log' = <<>> /\ trimmed' = trimmed + Len(log)
    ELSE log' = log \o Logged(o) /\ UNCHANGED trimmed

Commit(t) ==
  /\ Writing(t) /\ NoReaders
  /\ row' = [k \in Keys |-> NewRow(op[t], k)]
  /\ WriteLog(op[t])
  /\ file' = [k \in Keys |->
       IF op[t].kind = "store" /\ k \in op[t].keys /\ ~Exists(row[k])
         THEN op[t].new.content ELSE file[k]]
  /\ torn' = IF op[t].kind = "version" THEN torn ELSE torn \ op[t].keys
  /\ op' = [op EXCEPT ![t] = IF @.kind = "version" THEN Idle ELSE [@ EXCEPT !.step = "committed"]]
  /\ UNCHANGED <<cache, signalVars, userVars, used, overlapped>>

\* The commit fails, or a step before it: rollback.  What has been done to the files
\* stays; only save drops the key from the cache.
CommitFails(t) ==
  /\ Writing(t) /\ used.faults < MaxFaults
  /\ used' = [used EXCEPT !.faults = @ + 1]
  /\ torn' = IF op[t].kind = "version" THEN torn ELSE torn \cup op[t].keys
  /\ cache' = IF t \in Users /\ op[t].kind = "store"
                THEN Dropped(ProcessOf(t), op[t].keys) ELSE cache
  /\ op' = [op EXCEPT ![t] = Idle]
  /\ UNCHANGED <<dbVars, file, signalVars, userVars, overlapped>>

--------------------------------------------------------------------------------
(* What follows a commit, and views.                                         *)

\* Faulty: a deletion is taken for a change.
ForgetNothing(t, keys) == UNCHANGED <<view, misled>>

\* The view is told that the keys were deleted.
Forget(t, keys) ==
  /\ view' = [view EXCEPT ![t] = [k \in Keys |-> IF k \in keys THEN None ELSE @[k]]]
  /\ misled' = [misled EXCEPT ![t] = (@ \ keys) \cup (keys \cap StoredKeys)]

\* The view shows what it has loaded.
Show(t, k, data) ==
  /\ view' = [view EXCEPT ![t][k] = data]
  /\ misled' = [misled EXCEPT ![t] = @ \ {k}]

ReloadOp(keys) == Op("reload", "none", keys, NoRow)

\* Deleted keys leave the cache; the signal is posted to the ChangeEmitter; in the
\* active process the thread's own view is told at once.
Announce(t) ==
  LET o == op[t]
      deleted == o.kind # "store"
  IN /\ o.step = "committed"
     /\ cache' = IF deleted THEN Dropped(ProcessOf(t), o.keys) ELSE cache
     /\ posted' = [posted EXCEPT ![ProcessOf(t)] =
          Append(@, [keys |-> o.keys, deleted |-> deleted, origin |-> t])]
     /\ op' = [op EXCEPT ![t] =
          IF t \in ActiveUsers /\ ~deleted THEN ReloadOp(o.keys) ELSE Idle]
     /\ IF t \in ActiveUsers /\ deleted
          THEN Forget(t, o.keys)
          ELSE UNCHANGED <<view, misled>>
     /\ UNCHANGED <<row, file, log, trimmed, queue, cursor, used, torn, overlapped>>

\* Faulty: the cache of the active process is not invalidated.
DispatchOnly(p) ==
  /\ op[Engine].step = "idle"
  /\ posted[p] # <<>>
  /\ queue' = [t \in Users |-> Append(queue[t], Head(posted[p]))]
  /\ posted' = [posted EXCEPT ![p] = Tail(@)]
  /\ UNCHANGED <<row, file, log, trimmed, cache, op, view, cursor, used, torn, overlapped,
                 misled>>

\* The engine's event loop: a signal goes to every thread and process; one of
\* another process invalidates the cache first.
Dispatch(p) ==
  /\ op[Engine].step = "idle"
  /\ posted[p] # <<>>
  /\ cache' = IF p \in PassiveUsers THEN Dropped(Engine, Head(posted[p]).keys) ELSE cache
  /\ queue' = [t \in Users |-> Append(queue[t], Head(posted[p]))]
  /\ posted' = [posted EXCEPT ![p] = Tail(@)]
  /\ UNCHANGED <<row, file, log, trimmed, op, view, cursor, used, torn, overlapped, misled>>

\* Faulty: one entry for each signal.
ScanOne(t, from) == IF from < trimmed + Len(log) THEN from + 1 ELSE from

\* EventCursor::next until there is none, called from autoScanLog.
Scanned(t, from) ==
  LET found == {i \in 1 .. Len(log) :
        /\ trimmed + i > from
        /\ t \in SkipObsolete => log[i].version = row[log[i].key].version}
  IN IF found = {} THEN from ELSE trimmed + Max(found)

\* A thread's event loop: a passive process invalidates its cache; the cursor
\* reads the log; the view forgets or loads, unless it was told when it happened.
Handle(t) ==
  LET e == Head(queue[t])
      own == t \in ActiveUsers /\ e.origin = t
  IN /\ op[t].step = "idle" /\ CanRead
     /\ queue[t] # <<>>
     /\ queue' = [queue EXCEPT ![t] = Tail(@)]
     /\ cache' = IF t \in PassiveUsers THEN Dropped(t, e.keys) ELSE cache
     /\ cursor' = [cursor EXCEPT ![t] = Scanned(t, @)]
     /\ op' = IF own \/ e.deleted
                THEN op
                ELSE [op EXCEPT ![t] = ReloadOp(e.keys)]
     /\ IF e.deleted /\ ~own
          THEN Forget(t, e.keys)
          ELSE UNCHANGED <<view, misled>>
     /\ UNCHANGED <<row, file, log, trimmed, posted, used, torn, overlapped>>

--------------------------------------------------------------------------------
(* Reads.                                                                    *)

StartRead(t, kind, keys) == op' = [op EXCEPT ![t] = Op("reading", kind, keys, NoRow)]

\* load of a key that is not cached, by the application.
Load(t, k) ==
  /\ op[t].step = "idle" /\ CanRead
  /\ cache[ProcessOf(t)][k] = None
  /\ Exists(row[k])
  /\ StartRead(t, "load", {k})
  /\ UNCHANGED <<dbVars, file, cache, signalVars, userVars, used, torn, overlapped>>

\* loadAll: whatever is cached, the files are read again.
LoadAll(t) ==
  /\ op[t].step = "idle" /\ CanRead
  /\ StoredKeys # {}
  /\ StartRead(t, "load", StoredKeys)
  /\ UNCHANGED <<dbVars, file, cache, signalVars, userVars, used, torn, overlapped>>

\* find, for a query that matches the ids of some keys.
Find(t, matching) ==
  /\ op[t].step = "idle" /\ CanRead
  /\ StoredKeys \cap matching # {}
  /\ StartRead(t, "load", StoredKeys \cap matching)
  /\ UNCHANGED <<dbVars, file, cache, signalVars, userVars, used, torn, overlapped>>

\* evalDataChanged: load, from the cache or the index; without data the view
\* stays as it is.
Reload(t) ==
  /\ op[t].step = "reload"
  /\ \E k \in op[t].keys :
       \/ /\ cache[ProcessOf(t)][k] # None
          /\ Show(t, k, cache[ProcessOf(t)][k])
          /\ op' = [op EXCEPT ![t] = Idle]
       \/ /\ cache[ProcessOf(t)][k] = None
          /\ CanRead
          /\ IF Exists(row[k]) THEN StartRead(t, "none", {k}) ELSE op' = [op EXCEPT ![t] = Idle]
          /\ UNCHANGED <<view, misled>>
  /\ UNCHANGED <<dbVars, file, cache, signalVars, cursor, used, torn, overlapped>>

\* A read that has got the file of k.
WithFile(o, k) ==
  [o EXCEPT !.got = [x \in DOMAIN o.got \cup {k} |-> IF x = k THEN file[k] ELSE o.got[x]]]

\* readJson: the next file, in the order of the index; one that is missing ends the
\* read.
ReadJson(t) ==
  /\ Reading(t)
  /\ DOMAIN op[t].got # op[t].keys
  /\ LET k == CHOOSE x \in op[t].keys : x \notin DOMAIN op[t].got
     IN op' = [op EXCEPT ![t] = IF file[k] = None THEN Idle ELSE WithFile(op[t], k)]
  /\ UNCHANGED <<dbVars, file, cache, signalVars, userVars, used, torn, overlapped>>

\* putCached, and the end of the read transaction.
FinishRead(t) ==
  /\ Reading(t)
  /\ DOMAIN op[t].got = op[t].keys
  /\ PutCached(ProcessOf(t), op[t].got)
  /\ IF op[t].kind = "load"
       THEN UNCHANGED <<view, misled>>
       ELSE \E k \in op[t].keys : Show(t, k, op[t].got[k])
  /\ op' = [op EXCEPT ![t] = Idle]
  /\ UNCHANGED <<dbVars, file, signalVars, cursor, used, torn, overlapped>>

--------------------------------------------------------------------------------
(* The device loses power.  SQLite rolls back; every process starts again    *)
(* with an empty cache, creates its view, which loads everything it can, and *)
(* its cursor, which EventCursor::load looks up in the log.                  *)

Crash ==
  /\ used.faults < MaxFaults
  /\ used' = [used EXCEPT !.faults = @ + 1]
  /\ torn' = torn \cup UNION {op[t].keys : t \in {w \in Threads :
       Writing(w) /\ op[w].kind # "version"}}
  /\ op' = [t \in Threads |-> Idle]
  /\ posted' = [p \in Processes |-> <<>>]
  /\ queue' = [t \in Users |-> <<>>]
  /\ LET loaded == [k \in Keys |-> IF Exists(row[k]) THEN file[k] ELSE None]
     IN /\ cache' = [p \in Processes |-> loaded]
        /\ view' = [t \in Users |-> loaded]
  /\ cursor' = [t \in Users |-> Scanned(t, IF cursor[t] > trimmed THEN cursor[t] ELSE 0)]
  /\ overlapped' = {}
  /\ misled' = [t \in Users |-> {}]
  /\ UNCHANGED <<row, file, log, trimmed>>

Next ==
  \/ \E t \in Users :
       \/ \E k \in Keys :
            \/ \E d \in Data : Save(t, k, d)
            \/ RemoveKey(t, k) \/ Load(t, k)
       \/ Clear(t) \/ LoadAll(t) \/ \E matching \in Queries : Find(t, matching)
       \/ Handle(t) \/ Reload(t) \/ ReadJson(t) \/ FinishRead(t)
  \/ \E k \in Keys :
       \/ \E v \in 1 .. row[k].version + 1, c \in Payload : Merge(k, v, c)
       \/ MarkUnchanged(k)
  \/ Reset
  \/ \E t \in Threads : Commit(t) \/ CommitFails(t) \/ Announce(t)
  \/ \E p \in Processes : Dispatch(p)
  \/ Crash

Spec == Init /\ [][Next]_vars

--------------------------------------------------------------------------------
(* Properties.                                                               *)

Quiescent ==
  /\ \A t \in Threads : op[t].step = "idle"
  /\ \A p \in Processes : posted[p] = <<>>
  /\ \A t \in Users : queue[t] = <<>>

\* Outside of a transaction that has begun to change it, a file holds exactly what
\* the index says, and there is one exactly if the index names one: whatever the
\* order of saves, removals, merges and clears, and after a crash, except for keys
\* whose transaction failed between its files and its commit (localstore.cpp:279
\* and 844), until such a key is written again.
FilesMatch ==
  \A k \in Keys \ torn :
    (\A t \in Threads : ~(Writing(t) /\ k \in op[t].keys)) => file[k] = Stored(k)

\* When everything is delivered, a cache holds what the index says or nothing,
\* in every process, unless a load was reading while the file was replaced in the
\* same process (localstore.cpp:137 says that this cannot be, and nothing prevents it).
CacheIsCurrent ==
  Quiescent =>
    \A p \in Processes, k \in Keys \ torn :
      <<p, k>> \notin overlapped => cache[p][k] \in {None, Stored(k)}

\* When everything is delivered, every view shows the data of the index: nothing
\* outdated and nothing deleted.  It lacks a key only if a deletion was delivered
\* to it after the change that followed it.
ViewsAreCurrent ==
  Quiescent =>
    \A t \in Users, k \in Keys \ torn :
      \/ view[t][k] = Stored(k)
      \/ <<ProcessOf(t), k>> \in overlapped
      \/ k \in misled[t] /\ view[t][k] = None

\* When everything is delivered, every cursor has come past the entry of every
\* current version, unless no signal follows its commit (a merge that only raises
\* a version or stores a deletion of what does not exist, localstore.cpp:608 and 688).
LogIsRead ==
  Quiescent =>
    \A t \in Users, i \in 1 .. Len(log) :
      (log[i].told /\ log[i].version = row[log[i].key].version) => cursor[t] >= trimmed + i

================================================================================
