------------------------------- MODULE SyncRules -------------------------------
(***************************************************************************)
(* The rules by which one device of QtDataSync keeps and merges one        *)
(* dataset: the row of the DataIndex table, the LocalStore operations on   *)
(* it, and the merge that SyncController applies to a change received from *)
(* the server.  Everything here is an operator; the modules that extend    *)
(* this one supply the state.                                              *)
(*                                                                         *)
(* A dataset's content is a member of Data, or Deleted (the row exists but *)
(* its File column is NULL), or Absent (there is no row).  Members of Data *)
(* are naturals whose order is the order of the checksums that the merge   *)
(* compares; two contents have the same checksum only if they are equal.   *)
(***************************************************************************)
EXTENDS Naturals

CONSTANTS
  Data,            \* contents a dataset can have, ordered by checksum
  Deleted,         \* content of a row whose data was deleted
  Absent,          \* content of a dataset that has no row
  PersistDeleted,  \* Defaults::PersistDeleted: rows of deleted datasets are kept
  PreferDeleted,   \* Defaults::ConflictPolicy: PreferDeleted, or else PreferChanged
  Resolver         \* the ConflictResolver, as a function on pairs <<local, remote>>;
                   \* a pair outside its domain gets the empty (default) answer

ASSUME DataAssumption ==
  /\ Data \subseteq Nat
  /\ Deleted \notin Data
  /\ Absent \notin Data
  /\ Deleted # Absent

ASSUME ConfigAssumption ==
  /\ PersistDeleted \in BOOLEAN
  /\ PreferDeleted \in BOOLEAN

ASSUME ResolverAssumption ==
  \A pair \in DOMAIN Resolver : Resolver[pair] \in Data

--------------------------------------------------------------------------------
(* Rows of DataIndex.                                                        *)

\* What a change that is uploaded or downloaded can carry.
Payload == Data \cup {Deleted}

Row == [version : Nat, content : Data \cup {Deleted, Absent}, changed : BOOLEAN]

\* No row: loadChangeInfo reports NoExists with version 0.
NoRow == [version |-> 0, content |-> Absent, changed |-> FALSE]

MakeRow(version, content, changed) ==
  [version |-> version, content |-> content, changed |-> changed]

\* The ChangeType that loadChangeInfo derives from a row.
Exists(row) == row.content \in Data
ExistsDeleted(row) == row.content = Deleted
NoExists(row) == row.content = Absent

\* A device without a row knows no version and has nothing to upload, and a row
\* that waits for its upload has been written at least once.
WellFormed(row) ==
  /\ NoExists(row) => row.version = 0 /\ ~row.changed
  /\ row.changed => row.version > 0

--------------------------------------------------------------------------------
(* LocalStore operations on one row.                                         *)

\* Faulty: a deleted dataset that is saved again starts at version 1.
SaveFromOne(row, data) ==
  MakeRow(IF Exists(row) THEN row.version + 1 ELSE 1, data, TRUE)

\* save: version 1 for a new row, otherwise the next version.
save(row, data) == MakeRow(row.version + 1, data, TRUE)

\* remove: only a row with data is changed; the row stays, without its file.
remove(row) ==
  IF Exists(row) THEN MakeRow(row.version + 1, Deleted, TRUE) ELSE row

\* Faulty: the row is marked whatever its version is.
MarkAnyVersion(row, version, isDelete) ==
  IF NoExists(row) THEN row
  ELSE IF isDelete /\ ~PersistDeleted
         THEN IF ExistsDeleted(row) THEN NoRow ELSE row
         ELSE [row EXCEPT !.changed = FALSE]

\* markUnchanged: only the given version is marked; a deleted row is purged
\* unless deleted rows persist.
markUnchanged(row, version, isDelete) ==
  IF NoExists(row) \/ row.version # version THEN row
  ELSE IF isDelete /\ ~PersistDeleted
         THEN IF ExistsDeleted(row) THEN NoRow ELSE row
         ELSE [row EXCEPT !.changed = FALSE]

\* updateVersion: the content stays.
updateVersion(row, version, changed) == MakeRow(version, row.content, changed)

\* storeChanged and storeDeleted: insert or update the row.
storeChanged(version, data, changed) == MakeRow(version, data, changed)
storeDeleted(version, changed) == MakeRow(version, Deleted, changed)

--------------------------------------------------------------------------------
(* SyncController::syncChange, by the kind of the local row and the kind of  *)
(* the remote change.                                                        *)

ExistsVsDeleted(row, version) ==
  CASE row.version < version -> storeDeleted(version, ~PersistDeleted)
    [] row.version = version ->
         IF PreferDeleted THEN storeDeleted(version + 1, TRUE)
                          ELSE updateVersion(row, row.version + 1, TRUE)
    [] row.version > version -> row

\* Two different contents at one version: the resolver decides, or else the
\* greater checksum wins, whichever side it is on.
Conflict(row, version, data) ==
  IF <<row.content, data>> \in DOMAIN Resolver
    THEN storeChanged(row.version + 1, Resolver[<<row.content, data>>], TRUE)
    ELSE IF row.content > data
           THEN updateVersion(row, row.version + 1, TRUE)
           ELSE storeChanged(version + 1, data, TRUE)

ExistsVsChanged(row, version, data) ==
  CASE row.version < version -> storeChanged(version, data, FALSE)
    [] row.version = version ->
         IF row.content = data THEN markUnchanged(row, row.version, FALSE)
                               ELSE Conflict(row, version, data)
    [] row.version > version -> row

CachedDeleteVsDeleted(row, version) ==
  IF row.version > version THEN row
  ELSE IF PersistDeleted THEN updateVersion(row, version, FALSE)
                         ELSE markUnchanged(row, row.version, TRUE)

CachedDeleteVsChanged(row, version, data) ==
  CASE row.version < version -> storeChanged(version, data, FALSE)
    [] row.version = version ->
         IF PreferDeleted THEN updateVersion(row, row.version + 1, TRUE)
                          ELSE storeChanged(version + 1, data, TRUE)
    [] row.version > version -> row

NoExistsVsDeleted(row, version) ==
  IF PersistDeleted THEN storeDeleted(version, FALSE) ELSE row

\* The row after a remote change with this version and content was merged.
syncChange(row, version, content) ==
  CASE Exists(row) /\ content = Deleted -> ExistsVsDeleted(row, version)
    [] Exists(row) /\ content # Deleted -> ExistsVsChanged(row, version, content)
    [] ExistsDeleted(row) /\ content = Deleted -> CachedDeleteVsDeleted(row, version)
    [] ExistsDeleted(row) /\ content # Deleted ->
         CachedDeleteVsChanged(row, version, content)
    [] NoExists(row) /\ content = Deleted -> NoExistsVsDeleted(row, version)
    [] NoExists(row) /\ content # Deleted -> storeChanged(version, content, FALSE)

================================================================================
