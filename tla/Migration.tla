------------------------------- MODULE Migration -------------------------------
(***************************************************************************)
(* MigrationHelper: jobs of the thread pool that copy the store of an      *)
(* older version into the current one, while the application goes on       *)
(* writing and an item model shows its data (ItemModel).  The application  *)
(* may start migrations at any time, also one after a crash, or two at     *)
(* once: the lock file of the old directory decides.                       *)
(***************************************************************************)
EXTENDS ItemModel

CONSTANTS
  Jobs,       \* calls of startMigration, in their order
  App,        \* the other threads of the application
  Entries,    \* what the old database lists, in its order
  Changed,    \* SyncState.Changed of an entry: 0 unchanged, 1 changed, 2 deleted
  Readable,   \* entries whose old file can be read
  OldData,    \* the data in the old files
  FlagSets,   \* flags migrations are started with
  Nobody      \* the lock file is not held

ASSUME MigrationAssumption ==
  /\ Jobs \subseteq Nat /\ Writers = Jobs \cup App /\ Nobody \notin Jobs
  /\ Entries \in Seq(Keys) /\ Changed \in [Keys -> 0..2] /\ Readable \subseteq Keys
  /\ OldData \in [Keys -> Data]
  /\ FlagSets \subseteq SUBSET {"data", "changed", "config", "cleanup", "overwrite"}
  /\ \A flags \in FlagSets : "changed" \in flags => "data" \in flags

VARIABLES
  old,      \* the old directory: whether it and its database are there, and its files
  lock,     \* who holds the lock file
  job,      \* the MigrationRunnables
  taken,    \* datasets that the current store has had, for the property
  discarded \* a job that was to remove the old data, but not to migrate it, has begun

vars == <<itemVars, old, lock, job, taken, discarded>>

Job ==
  [at : {"idle", "entries", "cleanup", "over"}, flags : FlagSets \cup {{}},
   next : 1..Len(Entries) + 1]

NoJob(place) == [at |-> place, flags |-> {}, next |-> 1]

TypeOK ==
  /\ ItemTypeOK
  /\ old \in [there : BOOLEAN, db : BOOLEAN, files : SUBSET Readable]
  /\ lock \in Jobs \cup {Nobody}
  /\ job \in [Jobs -> Job]
  /\ taken \subseteq Keys
  /\ discarded \in BOOLEAN

\* Some datasets are there already, from an earlier migration or the server.
Init ==
  /\ \E there \in SUBSET Keys :
       /\ ItemInit([k \in Keys |-> IF k \in there THEN MakeRow(1, OldData[k], FALSE) ELSE NoRow])
       /\ taken = there
  /\ old = [there |-> TRUE, db |-> TRUE, files |-> Readable]
  /\ lock = Nobody
  /\ job = [j \in Jobs |-> NoJob("idle")]
  /\ discarded = FALSE

--------------------------------------------------------------------------------
(* MigrationRunnable.                                                        *)

At(j, place) == job[j].at = place
Release(j) == lock' = IF lock = j THEN Nobody ELSE lock

\* A job has nothing to do, and reports success, if the directory is gone or
\* there is nothing in it that it should migrate.  It fails if another job holds
\* the lock file, and if the database is gone: opening it creates an empty one.
NothingToDo(flags) ==
  \/ ~old.there
  \/ lock = Nobody /\ "config" \notin flags /\ ("data" \notin flags \/ (old.db /\ Entries = << >>))
Fails(flags) == old.there /\ (lock # Nobody \/ ("data" \in flags /\ ~old.db))

\* Settings are copied at once, one by one, unless they are set already.
Place(flags) ==
  IF NothingToDo(flags) \/ Fails(flags) THEN "over"
  ELSE IF "data" \in flags THEN "entries" ELSE "cleanup"

\* The thread pool starts the job.
run(j, flags) ==
  /\ At(j, "idle") /\ \A i \in Jobs : i < j => ~At(i, "idle")
  /\ job' = [job EXCEPT ![j] =
       IF Place(flags) = "over" THEN NoJob("over") ELSE [@ EXCEPT !.at = Place(flags), !.flags = flags]]
  /\ lock' = IF Place(flags) = "entries" THEN j ELSE lock
  /\ UNCHANGED <<itemVars, old, taken, discarded>>

\* What becomes of the row of an entry: existing data, also that of a dataset
\* that was deleted, is kept unless it is to be overwritten.  Unchanged data
\* counts as changed, and deletions are left out, when changes are not migrated.
Skips(j, k) ==
  \/ Changed[k] = 2 /\ "changed" \notin job[j].flags
  \/ Changed[k] # 2 /\ k \notin old.files
  \/ ~NoExists(row[k]) /\ "overwrite" \notin job[j].flags

Migrated(j, k) ==
  IF Changed[k] = 2 THEN storeDeleted(row[k].version + 1, TRUE)
  ELSE storeChanged(row[k].version + 1, OldData[k], Changed[k] = 1 \/ "changed" \notin job[j].flags)

\* Mutant: an entry that is skipped ends the page.
NextEntry(j, skipped) ==
  job' = [job EXCEPT ![j].next = IF skipped THEN Len(Entries) + 1 ELSE @ + 1]

Advance(j, skipped) == job' = [job EXCEPT ![j].next = @ + 1]

\* Only what has a file can be deleted.
Throws(j, k) == ~Skips(j, k) /\ Changed[k] = 2 /\ Exists(row[k]) /\ k \in torn

\* One entry, in one transaction.
MigrateEntry(j) ==
  /\ At(j, "entries") /\ job[j].next <= Len(Entries)
  /\ LET k == Entries[job[j].next] IN
     /\ ~Throws(j, k)
     /\ Advance(j, Skips(j, k))
     /\ IF Skips(j, k) THEN UNCHANGED <<row, torn, posting, taken>>
        ELSE /\ Commit(j, k, Migrated(j, k), Changed[k] = 2)
             /\ taken' = taken \cup {k}
  /\ UNCHANGED <<news, model, misled, writes, loads, faults, old, lock, discarded>>

\* The lock file is given up before the directory is removed.
EndEntries(j) ==
  /\ At(j, "entries") /\ job[j].next > Len(Entries) /\ posting[j] = NoNews
  /\ job' = [job EXCEPT ![j].at = "cleanup"] /\ Release(j)
  /\ UNCHANGED <<itemVars, old, taken, discarded>>

\* The removal of the old directory has not come to its end.
CutOff ==
  \E files \in SUBSET old.files, db \in {FALSE, old.db} :
    old' = [old EXCEPT !.db = db, !.files = files]

\* Neither of the flags says anything about the other.
Removes(j) == At(j, "cleanup") /\ "cleanup" \in job[j].flags
Discards(j) == Removes(j) /\ "data" \notin job[j].flags

\* removeRecursively removes everything, or whatever it can; either way the
\* migration is reported as done.
Cleanup(j) ==
  /\ At(j, "cleanup") /\ job' = [job EXCEPT ![j] = NoJob("over")] /\ Release(j)
  /\ discarded' = (discarded \/ Discards(j))
  /\ IF ~Removes(j) THEN UNCHANGED <<old, faults>>
     ELSE \/ old' = [there |-> FALSE, db |-> FALSE, files |-> {}] /\ UNCHANGED faults
          \/ faults < MaxFaults /\ faults' = faults + 1 /\ CutOff
  /\ UNCHANGED <<storeVars, posting, news, model, misled, writes, loads, taken>>

--------------------------------------------------------------------------------
(* The application.                                                          *)

\* Only datasets the store has had count as taken.
ApplicationStep ==
  /\ \/ \E w \in App : WriterStep(w)
     \/ \E j \in Jobs : Announce(j)
     \/ ModelStep
  /\ taken' = taken \cup {k \in Keys : Exists(row'[k])}
  /\ UNCHANGED <<old, lock, job, discarded>>

\* The process ends.  It may be in the middle of removing the old directory.
Ended ==
  /\ RestartModel
  /\ lock' = Nobody
  /\ job' = [j \in Jobs |-> IF At(j, "idle") THEN job[j] ELSE NoJob("over")]
  /\ IF \E j \in Jobs : Removes(j) THEN CutOff ELSE UNCHANGED old
  /\ discarded' = (discarded \/ \E j \in Jobs : Discards(j))
  /\ UNCHANGED <<storeVars, writes, loads, taken>>

\* It is killed, or a transaction of a job fails: QThreadPool catches no exception.
Crash == faults < MaxFaults /\ faults' = faults + 1 /\ Ended

EntryThrows(j) ==
  /\ At(j, "entries") /\ job[j].next <= Len(Entries) /\ Throws(j, Entries[job[j].next])
  /\ Ended /\ UNCHANGED faults

MigrationStep(j) == MigrateEntry(j) \/ EntryThrows(j) \/ EndEntries(j) \/ Cleanup(j)

Next ==
  \/ \E j \in Jobs : MigrationStep(j) \/ \E flags \in FlagSets : run(j, flags)
  \/ ApplicationStep
  \/ Crash

Spec == Init /\ [][Next]_vars /\ ItemFairness

--------------------------------------------------------------------------------
(* Properties.                                                               *)

\* What the old store held is in the old directory until the current store has
\* had it, however migrations overlap, fail, are cut off and clean up; unless one of
\* them has been told to remove it, and not to migrate it.
NothingIsLost ==
  \A k \in Readable \cap ToSet(Entries) :
    ~discarded /\ Changed[k] # 2 /\ k \notin taken => old.there /\ old.db /\ k \in old.files
================================================================================
