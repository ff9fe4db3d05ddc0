------------------------------ MODULE StoreProofs -------------------------------
(***************************************************************************)
(* Theorems about the store, for every number of keys, threads, processes, *)
(* writes and faults: files agree with the index, and when everything is   *)
(* delivered so do the caches of all processes and the views of all        *)
(* threads, and the cursors have read the log.                             *)
(***************************************************************************)
EXTENDS Store, SequenceTheorems, FiniteSetTheorems, TLAPS

--------------------------------------------------------------------------------
(* Rows.                                                                     *)

\* What the operations on rows return is a well-formed row.
GoodRow(r) == r \in Row /\ WellFormed(r)

LEMMA EditsAreRows ==
  ASSUME NEW r \in Row, NEW data \in Data
  PROVE  /\ GoodRow(save(r, data)) /\ save(r, data).version = r.version + 1
         /\ save(r, data).changed
  BY DataAssumption DEF GoodRow, WellFormed, Row, save, MakeRow, NoExists

LEMMA RemoveIsRow ==
  ASSUME NEW r \in Row, Exists(r)
  PROVE  /\ GoodRow(remove(r)) /\ remove(r).version = r.version + 1
         /\ remove(r).changed
  BY DataAssumption DEF GoodRow, WellFormed, Row, remove, MakeRow, NoExists, Exists

LEMMA MarkUnchangedIsRow ==
  ASSUME NEW r, GoodRow(r), NEW v \in Nat, NEW b \in BOOLEAN
  PROVE  GoodRow(markUnchanged(r, v, b))
  BY DataAssumption DEF GoodRow, WellFormed, Row, markUnchanged, NoRow, NoExists, ExistsDeleted

\* A merge returns a good row.
LEMMA MergeIsRow ==
  ASSUME NEW r, GoodRow(r), NEW v \in Nat, NEW c \in Payload
  PROVE  GoodRow(syncChange(r, v, c))
<1>1. r \in Row /\ r.version \in Nat /\ r.content \in Data \cup {Deleted, Absent}
  BY DEF GoodRow, WellFormed, Row
<1>2. CASE Exists(r) /\ c = Deleted
  <2>1. syncChange(r, v, c) = ExistsVsDeleted(r, v)
    BY <1>2, DataAssumption DEF syncChange, Exists, ExistsDeleted, NoExists
  <2> QED
    BY <1>1, <1>2, <2>1, DataAssumption, ConfigAssumption
    DEF ExistsVsDeleted, GoodRow, WellFormed, Row, storeDeleted, updateVersion, MakeRow,
        NoExists, Exists
<1>3. CASE Exists(r) /\ c # Deleted
  <2>1. syncChange(r, v, c) = ExistsVsChanged(r, v, c) /\ c \in Data
    BY <1>3, DataAssumption DEF syncChange, Exists, ExistsDeleted, NoExists, Payload
  <2>2. CASE r.version = v /\ r.content = c
    <3>1. syncChange(r, v, c) = [r EXCEPT !.changed = FALSE]
      BY <1>1, <1>3, <2>1, <2>2, DataAssumption
      DEF ExistsVsChanged, markUnchanged, NoExists, Exists
    <3> QED
      BY <1>1, <1>3, <3>1, DataAssumption DEF GoodRow, WellFormed, Row, NoExists, Exists
  <2>3. CASE r.version = v /\ r.content # c
    <3>1. syncChange(r, v, c) = Conflict(r, v, c)
      BY <1>1, <2>1, <2>3 DEF ExistsVsChanged
    <3> QED
      BY <1>1, <1>3, <2>1, <3>1, DataAssumption, ResolverAssumption
      DEF Conflict, GoodRow, WellFormed, Row, storeChanged, updateVersion, MakeRow, NoExists, Exists
  <2>4. CASE r.version # v
    BY <1>1, <2>1, <2>4, DataAssumption
    DEF ExistsVsChanged, storeChanged, MakeRow, GoodRow, WellFormed, Row, NoExists
  <2> QED BY <2>2, <2>3, <2>4
<1>4. CASE ExistsDeleted(r) /\ c = Deleted
  <2>1. syncChange(r, v, c) = CachedDeleteVsDeleted(r, v)
    BY <1>4, DataAssumption DEF syncChange, Exists, ExistsDeleted, NoExists
  <2>2. syncChange(r, v, c) \in {r, NoRow, MakeRow(v, Deleted, FALSE)}
    BY <1>1, <1>4, <2>1, DataAssumption, ConfigAssumption
    DEF CachedDeleteVsDeleted, markUnchanged, updateVersion, MakeRow, NoExists,
        ExistsDeleted
  <2>3. GoodRow(NoRow)
    BY DEF GoodRow, WellFormed, Row, NoRow
  <2>4. GoodRow(MakeRow(v, Deleted, FALSE))
    BY DataAssumption DEF GoodRow, WellFormed, Row, MakeRow, NoExists
  <2> QED
    BY <2>2, <2>3, <2>4
<1>5. CASE ExistsDeleted(r) /\ c # Deleted
  <2>1. syncChange(r, v, c) = CachedDeleteVsChanged(r, v, c) /\ c \in Data
    BY <1>5, DataAssumption DEF syncChange, Exists, ExistsDeleted, NoExists, Payload
  <2> QED
    BY <1>1, <1>5, <2>1, DataAssumption, ConfigAssumption
    DEF CachedDeleteVsChanged, GoodRow, WellFormed, Row, storeChanged, updateVersion, MakeRow,
        NoExists, ExistsDeleted
<1>6. CASE NoExists(r) /\ c = Deleted
  <2>1. syncChange(r, v, c) = NoExistsVsDeleted(r, v)
    BY <1>6, DataAssumption DEF syncChange, Exists, ExistsDeleted, NoExists
  <2> QED
    BY <1>1, <1>6, <2>1, DataAssumption, ConfigAssumption
    DEF NoExistsVsDeleted, GoodRow, WellFormed, Row, storeDeleted, MakeRow, NoExists
<1>7. CASE NoExists(r) /\ c # Deleted
  <2>1. syncChange(r, v, c) = storeChanged(v, c, FALSE) /\ c \in Data
    BY <1>7, DataAssumption DEF syncChange, Exists, ExistsDeleted, NoExists, Payload
  <2> QED
    BY <1>1, <2>1, DataAssumption DEF GoodRow, WellFormed, Row, storeChanged, MakeRow, NoExists
<1> QED
  BY <1>1, <1>2, <1>3, <1>4, <1>5, <1>6, <1>7 DEF Exists, ExistsDeleted, NoExists

--------------------------------------------------------------------------------
(* The invariant.                                                            *)

\* What the proof needs to know of any transaction.
IsTransaction(o) ==
  /\ o = [step |-> o.step, kind |-> o.kind, keys |-> o.keys, new |-> o.new, got |-> o.got]
  /\ GoodRow(o.new)

TypesInv ==
  /\ row \in [Keys -> Row] /\ \A k \in Keys : GoodRow(row[k])
  /\ DOMAIN file = Keys
  /\ DOMAIN op = Threads /\ \A t \in Threads : IsTransaction(op[t])

WriteKinds == {"store", "delete", "version", "clear", "reset"}

\* SQLite lets one transaction write at a time.
OneWriter == \A t, u \in Threads : Writing(t) /\ Writing(u) => t = u

\* What a transaction has done to a file before it commits, by its kind.
StoresFile(o, k) == o.new.content \in Data /\ (Exists(row[k]) => file[k] = o.new.content)
KeepsFile(o, k) ==
  /\ Exists(o.new) <=> Exists(row[k])
  /\ Exists(row[k]) => o.new.content = row[k].content
  /\ k \notin torn => file[k] = Stored(k)
Ahead(o, k) ==
  /\ o.kind = "store" => StoresFile(o, k)
  /\ o.kind = "version" => KeepsFile(o, k)
  /\ o.kind = "delete" => ~Exists(o.new)
  /\ o.kind \in {"delete", "clear", "reset"} => file[k] = None

FilesAhead ==
  \A t \in Threads : Writing(t) =>
    op[t].kind \in WriteKinds /\ \A k \in op[t].keys : Ahead(op[t], k)

FilesInv == TypesInv /\ OneWriter /\ FilesAhead /\ FilesMatch

--------------------------------------------------------------------------------
(* What a merge does to the content.                                         *)

\* A remote deletion never brings new data, and a row with data keeps data or
\* becomes deleted.
LEMMA MergedContent ==
  ASSUME NEW r, GoodRow(r), NEW v \in Nat, NEW c \in Payload
  PROVE  LET n == syncChange(r, v, c) IN
         /\ n.content # r.content /\ n.content \in Data => c \in Data
         /\ Exists(r) => n.content # Absent
<1>1. r \in Row /\ r.version \in Nat /\ r.content \in Data \cup {Deleted, Absent}
  BY DEF GoodRow, Row
<1>2. CASE c = Deleted
  <2>1. CASE Exists(r)
    <3>1. syncChange(r, v, c) = ExistsVsDeleted(r, v)
      BY <1>2, <2>1, DataAssumption DEF syncChange, Exists, ExistsDeleted, NoExists
    <3> QED
      BY <1>1, <2>1, <3>1, DataAssumption, ConfigAssumption
      DEF ExistsVsDeleted, storeDeleted, updateVersion, MakeRow, Exists
  <2>2. CASE ExistsDeleted(r)
    <3>1. syncChange(r, v, c) = CachedDeleteVsDeleted(r, v)
      BY <1>2, <2>2, DataAssumption DEF syncChange, Exists, ExistsDeleted, NoExists
    <3> QED
      BY <1>1, <2>2, <3>1, DataAssumption, ConfigAssumption
      DEF CachedDeleteVsDeleted, markUnchanged, updateVersion, MakeRow, NoRow, Exists,
          ExistsDeleted, NoExists
  <2>3. CASE NoExists(r)
    <3>1. syncChange(r, v, c) = NoExistsVsDeleted(r, v)
      BY <1>2, <2>3, DataAssumption DEF syncChange, Exists, ExistsDeleted, NoExists
    <3> QED
      BY <1>1, <2>3, <3>1, DataAssumption, ConfigAssumption
      DEF NoExistsVsDeleted, storeDeleted, MakeRow, Exists, NoExists
  <2> QED BY <1>1, <2>1, <2>2, <2>3 DEF Exists, ExistsDeleted, NoExists
<1>3. CASE c # Deleted
  <2>1. c \in Data
    BY <1>3 DEF Payload
  <2>2. CASE Exists(r)
    <3>1. syncChange(r, v, c) = ExistsVsChanged(r, v, c)
      BY <1>3, <2>2, DataAssumption DEF syncChange, Exists, ExistsDeleted, NoExists
    <3>2. CASE r.version = v /\ r.content = c
      BY <1>1, <2>1, <2>2, <3>1, <3>2, DataAssumption
      DEF ExistsVsChanged, markUnchanged, NoExists, Exists, Row
    <3>3. CASE r.version = v /\ r.content # c
      <4>1. syncChange(r, v, c) = Conflict(r, v, c)
        BY <1>1, <3>1, <3>3 DEF ExistsVsChanged
      <4> QED
        BY <1>1, <2>1, <2>2, <4>1, DataAssumption, ResolverAssumption
        DEF Conflict, storeChanged, updateVersion, MakeRow, Exists
    <3>4. CASE r.version < v
      <4>1. syncChange(r, v, c) = [version |-> v, content |-> c, changed |-> FALSE]
        BY <1>1, <3>1, <3>4
        DEF ExistsVsChanged, storeChanged, MakeRow, markUnchanged, Conflict,
            updateVersion, NoRow, NoExists, ExistsDeleted
      <4> QED BY <2>1, <4>1, DataAssumption
    <3>5. CASE r.version > v
      <4>1. syncChange(r, v, c) = r
        BY <1>1, <3>1, <3>5
        DEF ExistsVsChanged, storeChanged, MakeRow, markUnchanged, Conflict,
            updateVersion, NoRow, NoExists, ExistsDeleted
      <4> QED BY <2>2, <4>1, DataAssumption DEF Exists
    <3> QED BY <1>1, <3>2, <3>3, <3>4, <3>5
  <2> QED BY <2>1, <2>2
<1> QED BY <1>2, <1>3

\* A merge that neither writes nor deletes the file leaves the content alone.
LEMMA MergeKeepsContent ==
  ASSUME NEW r, GoodRow(r), NEW v \in Nat, NEW c \in Payload,
         ~MergeStores(r, v, c),
         ~(Exists(r) /\ syncChange(r, v, c).content = Deleted)
  PROVE  LET n == syncChange(r, v, c) IN
         /\ Exists(n) <=> Exists(r)
         /\ Exists(r) => n.content = r.content
<1> DEFINE n == syncChange(r, v, c)
<1>1. n.content # r.content /\ n.content \in Data => c \in Data
  BY MergedContent
<1>2. Exists(r) => n.content # Absent
  BY MergedContent
<1>3. n.content \in Data \cup {Deleted, Absent}
  BY MergeIsRow DEF GoodRow, Row
<1> QED
  BY <1>1, <1>2, <1>3 DEF MergeStores, Exists

--------------------------------------------------------------------------------
(* Steps.                                                                    *)

\* A step that leaves the index and the files alone, and the transactions that
\* write, keeps the invariant.
LEMMA QuietStep ==
  ASSUME FilesInv, UNCHANGED <<row, file, torn>>, DOMAIN op' = Threads,
         \A t \in Threads :
           \/ op'[t] = op[t]
           \/ IsTransaction(op'[t]) /\ op[t].step # "written" /\ op'[t].step # "written"
  PROVE  FilesInv'
<1>1. TypesInv'
  BY DEF FilesInv, TypesInv, IsTransaction
<1>2. \A t \in Threads : Writing(t)' <=> Writing(t)
  BY DEF Writing
<1>3. \A t \in Threads : Writing(t) => op'[t] = op[t]
  BY DEF Writing
<1>4. OneWriter'
  BY <1>2 DEF FilesInv, OneWriter
<1>5. FilesAhead'
  BY <1>2, <1>3 DEF FilesInv, FilesAhead, Ahead, StoresFile, KeepsFile, Stored
<1>6. FilesMatch'
  BY <1>2, <1>3 DEF FilesInv, FilesMatch, Stored
<1> QED BY <1>1, <1>4, <1>5, <1>6 DEF FilesInv

\* A transaction that begins keeps it, if it leaves the files of other keys alone
\* or deletes files that no row names.
LEMMA BeginStep ==
  ASSUME FilesInv, NEW t \in Threads, NEW kind \in WriteKinds, NEW keys \in SUBSET Keys,
         NEW new, GoodRow(new), Begin(t, kind, keys, new),
         DOMAIN file' = Keys,
         \A k \in Keys \ keys : file'[k] = file[k] \/ file'[k] = Stored(k),
         \A k \in keys : Ahead(op[t], k)'
  PROVE  FilesInv'
<1> DEFINE o == Op("written", kind, keys, new)
<1>1. /\ op' = [op EXCEPT ![t] = o]
      /\ row' = row /\ torn' = torn
      /\ \A u \in Threads : ~Writing(u)
  BY DEF Begin, dbVars, CanWrite
<1>2. op'[t] = o /\ \A u \in Threads \ {t} : op'[u] = op[u]
  BY <1>1 DEF FilesInv, TypesInv
<1>3. TypesInv'
  <2>1. DOMAIN op' = Threads
    BY <1>1 DEF FilesInv, TypesInv
  <2>2. IsTransaction(o)
    BY DEF IsTransaction, Op
  <2>3. \A u \in Threads : IsTransaction(op'[u])
    BY <1>2, <2>2 DEF FilesInv, TypesInv
  <2> QED BY <1>1, <2>1, <2>3 DEF FilesInv, TypesInv, IsTransaction
<1>4. \A u \in Threads : Writing(u)' => u = t
  BY <1>1, <1>2 DEF Writing
<1>5. OneWriter'
  BY <1>4 DEF OneWriter
<1>6. FilesAhead'
  BY <1>2, <1>4 DEF FilesAhead, Op
<1>7. FilesMatch'
  <2>1. Writing(t)' /\ op'[t].keys = keys
    BY <1>2 DEF Writing, Op
  <2>2. \A k \in Keys \ torn : file[k] = Stored(k)
    BY <1>1 DEF FilesInv, FilesMatch
  <2>3. \A k \in Keys : Stored(k)' = Stored(k)
    BY <1>1 DEF Stored
  <2> QED BY <1>1, <2>1, <2>2, <2>3 DEF FilesMatch
<1> QED BY <1>3, <1>5, <1>6, <1>7 DEF FilesInv

\* A file is written, or files are deleted, by a transaction that begins.
LEMMA StoreStep ==
  ASSUME FilesInv, NEW t \in Threads, NEW k \in Keys, NEW new, GoodRow(new),
         new.content \in Data, Begin(t, "store", {k}, new), StoreFile(t, k, new.content)
  PROVE  FilesInv'
<1>1. /\ DOMAIN file' = Keys
      /\ \A x \in Keys \ {k} : file'[x] = file[x]
      /\ Exists(row[k]) => file'[k] = new.content
  BY DEF StoreFile, FilesInv, TypesInv
<1>2. op'[t].kind = "store" /\ op'[t].new = new /\ row' = row
  BY DEF Begin, Op, dbVars, FilesInv, TypesInv
<1>3. Ahead(op[t], k)'
  BY <1>1, <1>2 DEF Ahead, StoresFile
<1> QED BY <1>1, <1>3, BeginStep DEF WriteKinds

LEMMA DeleteStep ==
  ASSUME FilesInv, NEW t \in Threads, NEW k \in Keys, NEW new, GoodRow(new), ~Exists(new),
         Begin(t, "delete", {k}, new), DeleteFiles({k})
  PROVE  FilesInv'
<1>1. /\ DOMAIN file' = Keys
      /\ \A x \in Keys \ {k} : file'[x] = file[x]
      /\ file'[k] = None
  BY DEF DeleteFiles
<1>2. op'[t].kind = "delete" /\ op'[t].new = new
  BY DEF Begin, Op, FilesInv, TypesInv
<1>3. Ahead(op[t], k)'
  BY <1>1, <1>2 DEF Ahead
<1> QED BY <1>1, <1>3, BeginStep DEF WriteKinds

\* Every way to begin: save, remove, clear and reset, and a merge.
LEMMA SaveStep ==
  ASSUME FilesInv, NEW t \in Threads, NEW k \in Keys, NEW d \in Data, Save(t, k, d)
  PROVE  FilesInv'
<1>1. row[k] \in Row /\ GoodRow(save(row[k], d)) /\ save(row[k], d).content = d
  <2>1. row[k] \in Row
    BY DEF FilesInv, TypesInv
  <2> QED BY <2>1, EditsAreRows DEF save, MakeRow
<1>2. Begin(t, "store", {k}, save(row[k], d)) /\ StoreFile(t, k, d)
  BY DEF Save
<1> QED BY <1>1, <1>2, StoreStep

LEMMA RemoveKeyStep ==
  ASSUME FilesInv, NEW t \in Threads, NEW k \in Keys, RemoveKey(t, k)
  PROVE  FilesInv'
<1>1. row[k] \in Row /\ GoodRow(remove(row[k])) /\ ~Exists(remove(row[k]))
  <2>1. row[k] \in Row /\ Exists(row[k])
    BY DEF FilesInv, TypesInv, RemoveKey
  <2> QED BY <2>1, RemoveIsRow, DataAssumption DEF remove, MakeRow, Exists
<1>2. Begin(t, "delete", {k}, remove(row[k])) /\ DeleteFiles({k})
  BY DEF RemoveKey
<1> QED BY <1>1, <1>2, DeleteStep

LEMMA ClearStep ==
  ASSUME FilesInv, NEW t \in Threads, Clear(t)
  PROVE  FilesInv'
<1>1. Begin(t, "clear", StoredKeys, NoRow) /\ DeleteFiles(Keys)
  BY DEF Clear
<1>2. GoodRow(NoRow)
  BY DataAssumption DEF GoodRow, WellFormed, Row, NoRow
<1>3. DOMAIN file' = Keys /\ \A k \in Keys : file'[k] = None
  BY <1>1 DEF DeleteFiles
<1>4. \A k \in Keys \ StoredKeys : file'[k] = Stored(k)
  BY <1>3 DEF StoredKeys, Stored
<1>5. op'[t].kind = "clear"
  BY <1>1 DEF Begin, Op, FilesInv, TypesInv
<1>6. \A k \in StoredKeys : Ahead(op[t], k)'
  BY <1>3, <1>5 DEF Ahead, StoredKeys
<1> QED
  BY <1>1, <1>2, <1>3, <1>4, <1>6, BeginStep DEF WriteKinds, StoredKeys

LEMMA ResetStep ==
  ASSUME FilesInv, Reset
  PROVE  FilesInv'
<1>1. Begin(Engine, "reset", Keys, NoRow) /\ DeleteFiles(Keys)
  BY DEF Reset
<1>2. GoodRow(NoRow) /\ Engine \in Threads
  BY DataAssumption DEF GoodRow, WellFormed, Row, NoRow, Threads
<1>3. DOMAIN file' = Keys /\ \A k \in Keys : file'[k] = None
  BY <1>1 DEF DeleteFiles
<1>4. op'[Engine].kind = "reset"
  BY <1>1, <1>2 DEF Begin, Op, FilesInv, TypesInv
<1>5. \A k \in Keys : Ahead(op[Engine], k)'
  BY <1>3, <1>4 DEF Ahead
<1> QED
  BY <1>1, <1>2, <1>3, <1>5, BeginStep DEF WriteKinds

LEMMA MergeStep ==
  ASSUME FilesInv, NEW k \in Keys, NEW v \in Nat, NEW c \in Payload, Merge(k, v, c)
  PROVE  FilesInv'
<1> DEFINE new == syncChange(row[k], v, c)
<1>1. GoodRow(row[k]) /\ GoodRow(new) /\ Engine \in Threads
  BY MergeIsRow DEF FilesInv, TypesInv, Threads
<1>2. CASE MergeStores(row[k], v, c)
  <2>1. new.content \in Data
    BY <1>2 DEF MergeStores
  <2>2. Begin(Engine, "store", {k}, new) /\ StoreFile(Engine, k, new.content)
    BY <1>2, <2>1, DataAssumption DEF Merge
  <2> QED BY <1>1, <2>1, <2>2, StoreStep
<1>3. CASE ~MergeStores(row[k], v, c) /\ Exists(row[k]) /\ new.content = Deleted
  <2>1. Begin(Engine, "delete", {k}, new) /\ DeleteFiles({k})
    BY <1>3 DEF Merge
  <2> QED BY <1>1, <1>3, <2>1, DeleteStep, DataAssumption DEF Exists
<1>4. CASE ~MergeStores(row[k], v, c) /\ ~(Exists(row[k]) /\ new.content = Deleted)
  <2>1. Begin(Engine, "version", {k}, new) /\ UNCHANGED file
    BY <1>4 DEF Merge
  <2>2. /\ Exists(new) <=> Exists(row[k])
        /\ Exists(row[k]) => new.content = row[k].content
    BY <1>1, <1>4, MergeKeepsContent
  <2>3. op'[Engine].kind = "version" /\ op'[Engine].new = new
    BY <1>1, <2>1 DEF Begin, Op, FilesInv, TypesInv
  <2>4. k \notin torn => file[k] = Stored(k)
    BY <2>1 DEF Begin, CanWrite, FilesInv, FilesMatch
  <2>5. KeepsFile(op[Engine], k)'
    BY <2>1, <2>2, <2>3, <2>4 DEF KeepsFile, Stored, Begin, dbVars
  <2>6. Ahead(op[Engine], k)'
    BY <2>3, <2>5 DEF Ahead
  <2> QED BY <1>1, <2>1, <2>6, BeginStep DEF WriteKinds, FilesInv, TypesInv
<1> QED BY <1>2, <1>3, <1>4

--------------------------------------------------------------------------------
(* The end of a transaction.                                                 *)

LEMMA MarkUnchangedStep ==
  ASSUME FilesInv, NEW k \in Keys, MarkUnchanged(k)
  PROVE  FilesInv'
<1> DEFINE new == markUnchanged(row[k], row[k].version, TRUE)
<1>1. GoodRow(row[k]) /\ row[k].version \in Nat
  BY DEF FilesInv, TypesInv, GoodRow, Row
<1>2. GoodRow(new)
  BY <1>1, MarkUnchangedIsRow
<1>3. ~Exists(row[k]) /\ ~Exists(new)
  BY <1>1, DataAssumption
  DEF MarkUnchanged, markUnchanged, NoRow, Exists, ExistsDeleted, NoExists, GoodRow, Row
<1>4. /\ row' = [row EXCEPT ![k] = new]
      /\ file' = file /\ op' = op /\ torn' = torn
      /\ \A t \in Threads : ~Writing(t)
  BY DEF MarkUnchanged, CanWrite
<1>5. TypesInv'
  BY <1>2, <1>4 DEF FilesInv, TypesInv, IsTransaction, GoodRow
<1>6. \A x \in Keys : Stored(x)' = Stored(x)
  BY <1>3, <1>4 DEF Stored, FilesInv, TypesInv
<1> QED
  BY <1>4, <1>5, <1>6
  DEF FilesInv, OneWriter, FilesAhead, FilesMatch, Writing

\* What a transaction leaves of a row is well-formed.
LEMMA NewRows ==
  ASSUME FilesInv, NEW t \in Threads, NEW k \in Keys
  PROVE  GoodRow(NewRow(op[t], k))
<1>1. GoodRow(row[k]) /\ GoodRow(op[t].new)
  BY DEF FilesInv, TypesInv, IsTransaction
<1>2. GoodRow(NoRow)
  BY DataAssumption DEF GoodRow, WellFormed, Row, NoRow
<1>3. GoodRow(remove(row[k]))
  <2>1. CASE Exists(row[k])
    BY <1>1, <2>1, RemoveIsRow DEF GoodRow
  <2>2. CASE ~Exists(row[k])
    BY <1>1, <2>2 DEF remove
  <2> QED BY <2>1, <2>2
<1> QED BY <1>1, <1>2, <1>3 DEF NewRow

\* When it commits, its files and its rows agree.
LEMMA CommittedFiles ==
  ASSUME FilesInv, NEW t \in Threads, Commit(t), NEW k \in Keys \ torn', k \in op[t].keys
  PROVE  file'[k] = Stored(k)'
<1>1. /\ Writing(t) /\ op[t].kind \in WriteKinds /\ Ahead(op[t], k)
  BY DEF Commit, FilesInv, FilesAhead
<1>2. row'[k] = NewRow(op[t], k)
  BY DEF Commit
<1>3. file'[k] = IF op[t].kind = "store" /\ ~Exists(row[k]) THEN op[t].new.content ELSE file[k]
  BY DEF Commit
<1>4. CASE op[t].kind = "store"
  BY <1>1, <1>2, <1>3, <1>4 DEF Ahead, StoresFile, NewRow, Stored, Exists
<1>5. CASE op[t].kind = "version"
  <2>1. k \notin torn
    BY <1>5 DEF Commit
  <2> QED BY <1>1, <1>2, <1>3, <1>5, <2>1 DEF Ahead, KeepsFile, NewRow, Stored, Exists
<1>6. CASE op[t].kind = "delete"
  BY <1>1, <1>2, <1>3, <1>6 DEF Ahead, NewRow, Stored
<1>7. CASE op[t].kind = "clear"
  <2>1. ~Exists(remove(row[k]))
    BY DataAssumption DEF remove, MakeRow, Exists
  <2> QED BY <1>1, <1>2, <1>3, <1>7, <2>1 DEF Ahead, NewRow, Stored
<1>8. CASE op[t].kind = "reset"
  BY <1>1, <1>2, <1>3, <1>8, DataAssumption DEF Ahead, NewRow, Stored, NoRow, Exists
<1> QED BY <1>1, <1>4, <1>5, <1>6, <1>7, <1>8 DEF WriteKinds

LEMMA CommitStep ==
  ASSUME FilesInv, NEW t \in Threads, Commit(t)
  PROVE  FilesInv'
<1>1. /\ Writing(t)
      /\ row' = [k \in Keys |-> NewRow(op[t], k)]
      /\ DOMAIN file' = Keys
      /\ \A k \in Keys \ op[t].keys : file'[k] = file[k]
      /\ torn \subseteq torn' \cup op[t].keys
  BY DEF Commit
<1>2. DOMAIN op' = Threads /\ \A u \in Threads \ {t} : op'[u] = op[u]
  BY DEF Commit, FilesInv, TypesInv
<1>3. IsTransaction(op'[t]) /\ op'[t].step # "written"
  <2>1. IsTransaction(Idle) /\ Idle.step # "written"
    BY DataAssumption DEF IsTransaction, Idle, Op, GoodRow, WellFormed, Row, NoRow
  <2>2. op'[t] = Idle \/ op'[t] = [op[t] EXCEPT !.step = "committed"]
    BY DEF Commit, FilesInv, TypesInv
  <2>3. IsTransaction(op[t])
    BY DEF FilesInv, TypesInv
  <2> QED BY <2>1, <2>2, <2>3 DEF IsTransaction
<1>4. TypesInv'
  <2>1. \A k \in Keys : GoodRow(row'[k])
    BY <1>1, NewRows
  <2>2. row' \in [Keys -> Row]
    BY <1>1, <2>1 DEF GoodRow
  <2>3. \A u \in Threads : IsTransaction(op'[u])
    BY <1>2, <1>3 DEF FilesInv, TypesInv
  <2> QED BY <1>1, <1>2, <2>1, <2>2, <2>3 DEF TypesInv, IsTransaction
<1>5. \A u \in Threads : (~Writing(u) /\ ~Writing(u)') \/ u = t
  BY <1>1, <1>2 DEF FilesInv, OneWriter, Writing
<1>6. \A u \in Threads : ~Writing(u)'
  BY <1>3, <1>5 DEF Writing
<1>7. FilesMatch'
  <2>1. ASSUME NEW k \in Keys \ torn', k \notin op[t].keys
        PROVE  file'[k] = Stored(k)'
    <3>1. row'[k] = row[k] /\ file'[k] = file[k] /\ k \notin torn
      BY <1>1, <2>1 DEF NewRow
    <3>2. \A u \in Threads : ~(Writing(u) /\ k \in op[u].keys)
      BY <1>5, <2>1
    <3>3. file[k] = Stored(k)
      BY <3>1, <3>2 DEF FilesInv, FilesMatch
    <3> QED BY <3>1, <3>3 DEF Stored
  <2> QED BY <2>1, CommittedFiles DEF FilesMatch
<1> QED BY <1>4, <1>6, <1>7 DEF FilesInv, OneWriter, FilesAhead

\* A transaction that fails leaves the files of its keys behind.
LEMMA CommitFailsStep ==
  ASSUME FilesInv, NEW t \in Threads, CommitFails(t)
  PROVE  FilesInv'
<1>1. /\ Writing(t) /\ row' = row /\ file' = file
      /\ torn' = IF op[t].kind = "version" THEN torn ELSE torn \cup op[t].keys
      /\ op' = [op EXCEPT ![t] = Idle]
  BY DEF CommitFails, dbVars
<1>2. IsTransaction(Idle) /\ Idle.step # "written"
  BY DataAssumption DEF IsTransaction, Idle, Op, GoodRow, WellFormed, Row, NoRow
<1>3. DOMAIN op' = Threads /\ op'[t] = Idle /\ \A u \in Threads \ {t} : op'[u] = op[u]
  BY <1>1 DEF FilesInv, TypesInv
<1>4. TypesInv'
  <2>1. \A u \in Threads : IsTransaction(op'[u])
    BY <1>2, <1>3 DEF FilesInv, TypesInv
  <2> QED BY <1>1, <1>3, <2>1 DEF FilesInv, TypesInv, IsTransaction
<1>5. \A u \in Threads : ~Writing(u)'
  BY <1>1, <1>2, <1>3 DEF FilesInv, OneWriter, Writing
<1>6. FilesMatch'
  <2>1. ASSUME NEW k \in Keys \ torn'
        PROVE  file[k] = Stored(k)
    <3>1. CASE k \in op[t].keys
      <4>1. op[t].kind = "version" /\ k \notin torn
        BY <1>1, <2>1, <3>1
      <4> QED BY <1>1, <3>1, <4>1 DEF FilesInv, FilesAhead, Ahead, KeepsFile
    <3>2. CASE k \notin op[t].keys
      BY <1>1, <2>1, <3>2 DEF FilesInv, FilesMatch, OneWriter
    <3> QED BY <3>1, <3>2
  <2> QED BY <1>1, <2>1 DEF FilesMatch, Stored
<1> QED BY <1>4, <1>5, <1>6 DEF FilesInv, OneWriter, FilesAhead

\* A crash ends all transactions at once.
LEMMA CrashStep ==
  ASSUME FilesInv, Crash
  PROVE  FilesInv'
<1> DEFINE lost == {op[t].keys : t \in {w \in Threads : Writing(w) /\ op[w].kind # "version"}}
<1>1. /\ row' = row /\ file' = file
      /\ torn' = torn \cup UNION lost
      /\ op' = [t \in Threads |-> Idle]
  BY DEF Crash
<1>2. IsTransaction(Idle) /\ Idle.step # "written"
  BY DataAssumption DEF IsTransaction, Idle, Op, GoodRow, WellFormed, Row, NoRow
<1>3. TypesInv'
  BY <1>1, <1>2 DEF FilesInv, TypesInv, IsTransaction
<1>4. \A u \in Threads : ~Writing(u)'
  BY <1>1, <1>2 DEF Writing
<1>5. FilesMatch'
  <2>1. ASSUME NEW k \in Keys \ torn'
        PROVE  file[k] = Stored(k)
    <3>1. CASE \E t \in Threads : Writing(t) /\ k \in op[t].keys
      <4>1. PICK t \in Threads : Writing(t) /\ k \in op[t].keys
        BY <3>1
      <4>2. k \notin torn /\ op[t].kind = "version"
        BY <1>1, <2>1, <4>1
      <4> QED BY <4>1, <4>2 DEF FilesInv, FilesAhead, Ahead, KeepsFile
    <3>2. CASE ~\E t \in Threads : Writing(t) /\ k \in op[t].keys
      BY <1>1, <2>1, <3>2 DEF FilesInv, FilesMatch
    <3> QED BY <3>1, <3>2
  <2> QED BY <1>1, <2>1 DEF FilesMatch, Stored
<1> QED BY <1>3, <1>4, <1>5 DEF FilesInv, OneWriter, FilesAhead

--------------------------------------------------------------------------------
(* Everything else is quiet.                                                 *)

\* The operations that an idle thread, a read or an announcement leaves behind.
LEMMA QuietOps ==
  /\ IsTransaction(Idle) /\ Idle.step # "written"
  /\ \A keys : IsTransaction(ReloadOp(keys)) /\ ReloadOp(keys).step # "written"
  /\ \A kind, keys : LET o == Op("reading", kind, keys, NoRow)
                     IN IsTransaction(o) /\ o.step # "written"
<1>1. GoodRow(NoRow)
  BY DataAssumption DEF GoodRow, WellFormed, Row, NoRow
<1>2. ASSUME NEW step, step # "written", NEW kind, NEW keys
      PROVE  IsTransaction(Op(step, kind, keys, NoRow)) /\ Op(step, kind, keys, NoRow).step # "written"
  BY <1>1, <1>2 DEF IsTransaction, Op
<1> QED BY <1>2 DEF Idle, ReloadOp

\* A step that changes the operation of one thread that does not write.
LEMMA ThreadStep ==
  ASSUME FilesInv, NEW t \in Threads, UNCHANGED <<row, file, torn>>,
         op[t].step # "written",
         NEW o, op' = [op EXCEPT ![t] = o], IsTransaction(o), o.step # "written"
  PROVE  FilesInv'
<1>1. DOMAIN op' = Threads /\ op'[t] = o /\ \A u \in Threads \ {t} : op'[u] = op[u]
  BY DEF FilesInv, TypesInv
<1> QED BY <1>1, QuietStep

LEMMA SameOpsStep ==
  ASSUME FilesInv, UNCHANGED <<row, file, torn, op>>
  PROVE  FilesInv'
BY QuietStep DEF FilesInv, TypesInv

LEMMA AnnounceStep ==
  ASSUME FilesInv, NEW t \in Threads, Announce(t)
  PROVE  FilesInv'
<1>1. /\ op[t].step = "committed" /\ UNCHANGED <<row, file, torn>>
      /\ \/ op' = [op EXCEPT ![t] = ReloadOp(op[t].keys)]
         \/ op' = [op EXCEPT ![t] = Idle]
  BY DEF Announce
<1> QED BY <1>1, QuietOps, ThreadStep

LEMMA HandleStep ==
  ASSUME FilesInv, NEW t \in Threads, Handle(t)
  PROVE  FilesInv'
<1>1. op[t].step = "idle" /\ UNCHANGED <<row, file, torn>>
  BY DEF Handle
<1>2. \/ op' = op
      \/ \E keys : op' = [op EXCEPT ![t] = ReloadOp(keys)]
  BY DEF Handle
<1>3. CASE op' = op
  BY <1>1, <1>3, SameOpsStep
<1>4. CASE \E keys : op' = [op EXCEPT ![t] = ReloadOp(keys)]
  BY <1>1, <1>4, QuietOps, ThreadStep
<1> QED BY <1>2, <1>3, <1>4

LEMMA LoadStep ==
  ASSUME FilesInv, NEW t \in Threads,
         LoadAll(t) \/ (\E k \in Keys : Load(t, k)) \/ \E matching \in Queries : Find(t, matching)
  PROVE  FilesInv'
<1>1. op[t].step = "idle" /\ UNCHANGED <<row, file, torn>>
  BY DEF Load, LoadAll, Find, dbVars
<1>2. PICK kind, keys : StartRead(t, kind, keys)
  BY DEF Load, LoadAll, Find
<1> QED BY <1>1, <1>2, QuietOps, ThreadStep DEF StartRead

LEMMA ReloadStep ==
  ASSUME FilesInv, NEW t \in Threads, Reload(t)
  PROVE  FilesInv'
<1>1. op[t].step = "reload" /\ UNCHANGED <<row, file, torn>>
  BY DEF Reload, dbVars
<1>2. op' = [op EXCEPT ![t] = Idle] \/ \E kind, keys : StartRead(t, kind, keys)
  BY DEF Reload
<1>3. CASE op' = [op EXCEPT ![t] = Idle]
  BY <1>1, <1>3, QuietOps, ThreadStep
<1>4. CASE \E kind, keys : StartRead(t, kind, keys)
  BY <1>1, <1>4, QuietOps, ThreadStep DEF StartRead
<1> QED BY <1>2, <1>3, <1>4

LEMMA ReadJsonStep ==
  ASSUME FilesInv, NEW t \in Threads, ReadJson(t)
  PROVE  FilesInv'
<1>1. op[t].step = "reading" /\ UNCHANGED <<row, file, torn>>
  BY DEF ReadJson, Reading, dbVars
<1>2. PICK o : /\ op' = [op EXCEPT ![t] = o]
               /\ o = Idle \/ \E got : o = [op[t] EXCEPT !.got = got]
  BY DEF ReadJson, WithFile
<1>3. IsTransaction(op[t])
  BY DEF FilesInv, TypesInv
<1>4. ASSUME NEW got
      PROVE  LET r == [op[t] EXCEPT !.got = got] IN IsTransaction(r) /\ r.step = op[t].step
  BY <1>3 DEF IsTransaction
<1>5. IsTransaction(o) /\ o.step # "written"
  BY <1>1, <1>2, <1>4, QuietOps
<1> QED BY <1>1, <1>2, <1>5, ThreadStep

LEMMA FinishReadStep ==
  ASSUME FilesInv, NEW t \in Threads, FinishRead(t)
  PROVE  FilesInv'
<1>1. /\ op[t].step = "reading" /\ UNCHANGED <<row, file, torn>>
      /\ op' = [op EXCEPT ![t] = Idle]
  BY DEF FinishRead, Reading, dbVars
<1> QED BY <1>1, QuietOps, ThreadStep

--------------------------------------------------------------------------------
(* The theorems.                                                             *)

\* In the beginning every file is there, and nothing is going on.
LEMMA FilesInit == Init => FilesInv
<1> SUFFICES ASSUME Init PROVE FilesInv
  OBVIOUS
<1>1. \A k \in Keys : GoodRow(row[k])
  BY StartAssumption, DataAssumption DEF Init, GoodRow, WellFormed, Row, NoRow, MakeRow, NoExists
<1>2. TypesInv
  BY <1>1, QuietOps DEF Init, TypesInv, GoodRow
<1>3. \A t \in Threads : ~Writing(t)
  BY QuietOps DEF Init, Writing
<1>4. FilesMatch
  BY DEF Init, FilesMatch, Stored
<1> QED BY <1>2, <1>3, <1>4 DEF FilesInv, OneWriter, FilesAhead

\* Every step of the store keeps the invariant.
LEMMA FilesStep == FilesInv /\ [Next]_vars => FilesInv'
<1> SUFFICES ASSUME FilesInv, [Next]_vars PROVE FilesInv'
  OBVIOUS
<1> Users \subseteq Threads
  BY DEF Threads
<1>1. ASSUME NEW t \in Users, NEW k \in Keys, NEW d \in Data, Save(t, k, d) PROVE FilesInv'
  BY <1>1, SaveStep
<1>2. ASSUME NEW t \in Users, NEW k \in Keys, RemoveKey(t, k) PROVE FilesInv'
  BY <1>2, RemoveKeyStep
<1>3. ASSUME NEW t \in Users,
             LoadAll(t) \/ (\E k \in Keys : Load(t, k)) \/ \E matching \in Queries : Find(t, matching)
      PROVE  FilesInv'
  BY <1>3, LoadStep
<1>4. ASSUME NEW t \in Users, Clear(t) PROVE FilesInv'
  BY <1>4, ClearStep
<1>5. ASSUME NEW t \in Users, Handle(t) PROVE FilesInv'
  BY <1>5, HandleStep
<1>6. ASSUME NEW t \in Users, Reload(t) PROVE FilesInv'
  BY <1>6, ReloadStep
<1>7. ASSUME NEW t \in Users, ReadJson(t) PROVE FilesInv'
  BY <1>7, ReadJsonStep
<1>8. ASSUME NEW t \in Users, FinishRead(t) PROVE FilesInv'
  BY <1>8, FinishReadStep
<1>9. ASSUME NEW k \in Keys, NEW v \in 1 .. row[k].version + 1, NEW c \in Payload,
             Merge(k, v, c)
      PROVE  FilesInv'
  <2>1. row[k].version \in Nat
    BY DEF FilesInv, TypesInv, Row
  <2> QED BY <1>9, <2>1, MergeStep
<1>10. ASSUME NEW k \in Keys, MarkUnchanged(k) PROVE FilesInv'
  BY <1>10, MarkUnchangedStep
<1>11. CASE Reset
  BY <1>11, ResetStep
<1>12. ASSUME NEW t \in Threads, Commit(t) PROVE FilesInv'
  BY <1>12, CommitStep
<1>13. ASSUME NEW t \in Threads, CommitFails(t) PROVE FilesInv'
  BY <1>13, CommitFailsStep
<1>14. ASSUME NEW t \in Threads, Announce(t) PROVE FilesInv'
  BY <1>14, AnnounceStep
<1>15. ASSUME NEW p \in Processes, Dispatch(p) PROVE FilesInv'
  BY <1>15, SameOpsStep DEF Dispatch
<1>16. CASE Crash
  BY <1>16, CrashStep
<1>17. CASE UNCHANGED vars
  BY <1>17, SameOpsStep DEF vars
<1> QED
  BY <1>1, <1>2, <1>3, <1>4, <1>5, <1>6, <1>7, <1>8, <1>9, <1>10, <1>11, <1>12, <1>13, <1>14,
     <1>15, <1>16, <1>17
  DEF Next

\* Whatever any number of threads and processes do with a store, and wherever
\* transactions fail and the power goes: a file that no transaction is changing
\* holds what the index says, and is there exactly if the index names it, except
\* for keys whose last transaction failed after it had changed their files.
THEOREM FilesFollowTheIndex == Spec => []FilesMatch
<1>1. FilesInv => FilesMatch
  BY DEF FilesInv
<1> QED BY FilesInit, FilesStep, <1>1, PTL DEF Spec

--------------------------------------------------------------------------------
(* Signals.                                                                  *)

\* What waits in a queue.
Waiting(s) == {s[i] : i \in 1 .. Len(s)}

\* A change is of one key.
GoodEvent == {e \in Event : e.deleted \/ \E k \in Keys : e.keys = {k}}
EventsOf(q) == {e \in GoodEvent : ProcessOf(e.origin) = q}

\* So is a transaction that saves, and what loads for a view.
OfOneKey(o) ==
  \/ o.kind = "store" /\ o.step \in {"written", "committed"}
  \/ o.step = "reload"
  \/ o.kind = "none" /\ o.step = "reading"
GoodKeys(o) == o.keys \subseteq Keys /\ (OfOneKey(o) => \E k \in Keys : o.keys = {k})

SignalsInv ==
  /\ DOMAIN posted = Processes /\ \A q \in Processes : posted[q] \in Seq(EventsOf(q))
  /\ queue \in [Users -> Seq(GoodEvent)]
  /\ \A t \in Threads : GoodKeys(op[t])
  /\ DOMAIN cache = Processes
  /\ DOMAIN view = Users /\ \A t \in Users : DOMAIN view[t] = Keys
  /\ DOMAIN misled = Users

LEMMA WaitingTail ==
  ASSUME NEW S, NEW s \in Seq(S), s # << >>
  PROVE  /\ Head(s) \in S /\ Tail(s) \in Seq(S)
         /\ Waiting(s) = {Head(s)} \cup Waiting(Tail(s))
<1>1. /\ Head(s) \in S /\ Tail(s) \in Seq(S) /\ Head(s) = s[1]
      /\ Len(s) \in Nat \ {0} /\ Len(Tail(s)) = Len(s) - 1
      /\ \A i \in 1 .. Len(s) - 1 : Tail(s)[i] = s[i + 1]
  BY HeadTailProperties, LenProperties, EmptySeq
<1>2. \A i \in 1 .. Len(s) : i = 1 \/ (i - 1 \in 1 .. Len(Tail(s)) /\ s[i] = Tail(s)[i - 1])
  BY <1>1
<1>3. Waiting(s) \subseteq {Head(s)} \cup Waiting(Tail(s))
  BY <1>1, <1>2 DEF Waiting
<1>4. Waiting(Tail(s)) \subseteq Waiting(s)
  BY <1>1 DEF Waiting
<1>5. Head(s) \in Waiting(s)
  BY <1>1 DEF Waiting
<1> QED BY <1>1, <1>3, <1>4, <1>5

LEMMA WaitingAppend ==
  ASSUME NEW S, NEW s \in Seq(S), NEW e \in S
  PROVE  Append(s, e) \in Seq(S) /\ Waiting(Append(s, e)) = Waiting(s) \cup {e}
<1>1. /\ Append(s, e) \in Seq(S) /\ Len(Append(s, e)) = Len(s) + 1 /\ Len(s) \in Nat
      /\ \A i \in 1 .. Len(s) : Append(s, e)[i] = s[i]
      /\ Append(s, e)[Len(s) + 1] = e
  BY AppendProperties, LenProperties
<1>2. \A i \in 1 .. Len(s) + 1 : i \in 1 .. Len(s) \/ i = Len(s) + 1
  BY <1>1
<1> QED BY <1>1, <1>2 DEF Waiting

\* The events that wait have the type of the queue.
LEMMA WaitingTypes ==
  ASSUME NEW S, NEW s \in Seq(S)
  PROVE  Waiting(s) \subseteq S
BY ElementOfSeq DEF Waiting

\* The operations that threads get when they do not write.
LEMMA QuietKeys ==
  /\ GoodKeys(Idle)
  /\ \A k \in Keys : GoodKeys(ReloadOp({k})) /\ GoodKeys(Op("reading", "none", {k}, NoRow))
  /\ \A keys \in SUBSET Keys : GoodKeys(Op("reading", "load", keys, NoRow))
BY DEF GoodKeys, OfOneKey, Idle, ReloadOp, Op

LEMMA WritingKeys ==
  ASSUME NEW kind \in WriteKinds, NEW keys \in SUBSET Keys, NEW new,
         kind = "store" => \E k \in Keys : keys = {k}
  PROVE  GoodKeys(Op("written", kind, keys, new))
BY DEF GoodKeys, OfOneKey, Op, WriteKinds

--------------------------------------------------------------------------------
(* Each step keeps the types.                                                *)

\* One thread gets another operation.
LEMMA OneOp ==
  ASSUME FilesInv, SignalsInv, NEW t \in Threads, NEW o,
         op' = [op EXCEPT ![t] = o], GoodKeys(o)
  PROVE  \A u \in Threads : GoodKeys(op'[u])
<1>1. op'[t] = o /\ \A u \in Threads \ {t} : op'[u] = op[u]
  BY DEF FilesInv, TypesInv
<1> QED BY <1>1 DEF SignalsInv

LEMMA StoreFileDomain ==
  ASSUME SignalsInv, NEW p \in Processes, NEW data, PutCached(p, data)
  PROVE  DOMAIN cache' = Processes
BY DEF PutCached, SignalsInv

\* A transaction begins.
LEMMA BeginSignals ==
  ASSUME FilesInv, SignalsInv, NEW t \in Threads, NEW kind \in WriteKinds,
         NEW keys \in SUBSET Keys, NEW new, Begin(t, kind, keys, new),
         kind = "store" => \E k \in Keys : keys = {k},
         DOMAIN cache' = Processes
  PROVE  SignalsInv'
<1>1. /\ op' = [op EXCEPT ![t] = Op("written", kind, keys, new)]
      /\ UNCHANGED <<posted, queue, view, misled>>
  BY DEF Begin, signalVars, userVars
<1>2. \A u \in Threads : GoodKeys(op'[u])
  BY <1>1, WritingKeys, OneOp
<1> QED BY <1>1, <1>2 DEF SignalsInv, EventsOf

LEMMA BeginsAreSignals ==
  ASSUME FilesInv, SignalsInv,
         \/ \E t \in Users, k \in Keys : (\E d \in Data : Save(t, k, d)) \/ RemoveKey(t, k)
         \/ \E t \in Users : Clear(t)
         \/ Reset
         \/ \E k \in Keys, v \in Nat, c \in Payload : Merge(k, v, c)
  PROVE  SignalsInv'
<1> USE DEF Threads, Processes, ProcessOf
<1>1. ASSUME NEW t \in Users, NEW k \in Keys, NEW d \in Data, Save(t, k, d) PROVE SignalsInv'
  <2>1. DOMAIN cache' = Processes
    BY <1>1, StoreFileDomain DEF Save, StoreFile
  <2> QED BY <1>1, <2>1, BeginSignals DEF Save, WriteKinds
<1>2. ASSUME NEW t \in Users, NEW k \in Keys, RemoveKey(t, k) PROVE SignalsInv'
  BY <1>2, BeginSignals DEF RemoveKey, DeleteFiles, WriteKinds, SignalsInv
<1>3. ASSUME NEW t \in Users, Clear(t) PROVE SignalsInv'
  BY <1>3, BeginSignals DEF Clear, DeleteFiles, WriteKinds, SignalsInv, StoredKeys
<1>4. CASE Reset
  BY <1>4, BeginSignals DEF Reset, DeleteFiles, WriteKinds, SignalsInv
<1>5. ASSUME NEW k \in Keys, NEW v \in Nat, NEW c \in Payload, Merge(k, v, c) PROVE SignalsInv'
  <2> DEFINE new == syncChange(row[k], v, c)
  <2>1. \/ Begin(Engine, "store", {k}, new) /\ PutCached(Engine, [x \in {k} |-> new.content])
        \/ Begin(Engine, "delete", {k}, new) /\ UNCHANGED cache
        \/ Begin(Engine, "version", {k}, new) /\ UNCHANGED cache
    BY <1>5, ThreadsAssumption DEF Merge, StoreFile, DeleteFiles, Users
  <2> HIDE DEF new
  <2>2. DOMAIN cache' = Processes
    BY <2>1, StoreFileDomain DEF SignalsInv
  <2> QED BY <2>1, <2>2, BeginSignals DEF WriteKinds
<1> QED BY <1>1, <1>2, <1>3, <1>4, <1>5

LEMMA CommitSignals ==
  ASSUME FilesInv, SignalsInv, NEW t \in Threads, Commit(t) \/ CommitFails(t)
  PROVE  SignalsInv'
<1>1. UNCHANGED <<posted, queue, view, misled>> /\ DOMAIN cache' = Processes
  BY DEF Commit, CommitFails, signalVars, userVars, Dropped, SignalsInv
<1>2. PICK o : op' = [op EXCEPT ![t] = o] /\ (o = Idle \/ o = [op[t] EXCEPT !.step = "committed"])
  BY DEF Commit, CommitFails, FilesInv, TypesInv
<1>3. GoodKeys(o)
  <2>1. op[t].step = "written" /\ GoodKeys(op[t]) /\ IsTransaction(op[t])
    BY DEF Commit, CommitFails, Writing, SignalsInv, FilesInv, TypesInv
  <2>2. CASE o = [op[t] EXCEPT !.step = "committed"]
    <3>1. o.step = "committed" /\ o.kind = op[t].kind /\ o.keys = op[t].keys
      BY <2>1, <2>2 DEF IsTransaction
    <3> QED BY <2>1, <3>1 DEF GoodKeys, OfOneKey
  <2> QED BY <1>2, <2>2, QuietKeys
<1>4. \A u \in Threads : GoodKeys(op'[u])
  BY <1>2, <1>3, OneOp
<1> QED BY <1>1, <1>4 DEF SignalsInv, EventsOf

LEMMA ViewDomains ==
  ASSUME SignalsInv, NEW t \in Users,
         \/ \E keys : Forget(t, keys)
         \/ \E k, data : Show(t, k, data)
         \/ UNCHANGED <<view, misled>>
  PROVE  DOMAIN view' = Users /\ (\A u \in Users : DOMAIN view'[u] = Keys) /\ DOMAIN misled' = Users
<1>1. ASSUME NEW keys, Forget(t, keys)
      PROVE  DOMAIN view' = Users /\ (\A u \in Users : DOMAIN view'[u] = Keys) /\ DOMAIN misled' = Users
  BY <1>1 DEF Forget, SignalsInv
<1>2. ASSUME NEW k, NEW data, Show(t, k, data)
      PROVE  DOMAIN view' = Users /\ (\A u \in Users : DOMAIN view'[u] = Keys) /\ DOMAIN misled' = Users
  BY <1>2 DEF Show, SignalsInv
<1> QED BY <1>1, <1>2 DEF SignalsInv

LEMMA AnnounceSignals ==
  ASSUME FilesInv, SignalsInv, NEW t \in Threads, Announce(t)
  PROVE  SignalsInv'
<1> DEFINE o == op[t]
           p == ProcessOf(t)
           e == [keys |-> o.keys, deleted |-> o.kind # "store", origin |-> t]
<1>1. /\ o.step = "committed" /\ UNCHANGED queue /\ DOMAIN cache' = Processes
      /\ posted' = [posted EXCEPT ![p] = Append(@, e)]
      /\ op' = [op EXCEPT ![t] =
           IF t \in ActiveUsers /\ o.kind = "store" THEN ReloadOp(o.keys) ELSE Idle]
  BY DEF Announce, SignalsInv, Dropped
<1>2. GoodKeys(o)
  BY DEF SignalsInv
<1>3. o.kind = "store" => \E k \in Keys : o.keys = {k}
  BY <1>1, <1>2 DEF GoodKeys, OfOneKey
<1>4. e \in EventsOf(p) /\ p \in Processes
  BY <1>2, <1>3 DEF EventsOf, GoodEvent, Event, GoodKeys, Processes, ProcessOf
<1>5. DOMAIN posted' = Processes /\ \A q \in Processes : posted'[q] \in Seq(EventsOf(q))
  <2>1. posted[p] \in Seq(EventsOf(p))
    BY <1>4 DEF SignalsInv
  <2>2. Append(posted[p], e) \in Seq(EventsOf(p))
    BY <1>4, <2>1, AppendProperties
  <2> HIDE DEF e, p
  <2> QED BY <1>1, <1>4, <2>2 DEF SignalsInv
<1>6. \A u \in Threads : GoodKeys(op'[u])
  BY <1>1, <1>3, QuietKeys, OneOp
<1>7. DOMAIN view' = Users /\ (\A u \in Users : DOMAIN view'[u] = Keys) /\ DOMAIN misled' = Users
  <2>1. \/ t \in Users /\ Forget(t, o.keys)
        \/ UNCHANGED <<view, misled>>
    BY DEF Announce, Users
  <2> QED BY <2>1, ViewDomains DEF SignalsInv
<1> HIDE DEF e, p
<1>8. \A q \in Processes : EventsOf(q)' = EventsOf(q)
  BY DEF EventsOf
<1> QED BY <1>1, <1>5, <1>6, <1>7, <1>8 DEF SignalsInv

LEMMA DispatchSignals ==
  ASSUME FilesInv, SignalsInv, NEW p \in Processes, Dispatch(p)
  PROVE  SignalsInv'
<1>1. /\ posted[p] # << >> /\ UNCHANGED <<op, view, misled>> /\ DOMAIN cache' = Processes
      /\ queue' = [t \in Users |-> Append(queue[t], Head(posted[p]))]
      /\ posted' = [posted EXCEPT ![p] = Tail(@)]
  BY DEF Dispatch, SignalsInv, Dropped
<1>2. posted[p] \in Seq(EventsOf(p))
  BY DEF SignalsInv
<1>3. Head(posted[p]) \in GoodEvent /\ Tail(posted[p]) \in Seq(EventsOf(p))
  BY <1>1, <1>2, WaitingTail DEF EventsOf
<1>4. DOMAIN posted' = Processes /\ \A q \in Processes : posted'[q] \in Seq(EventsOf(q))
  BY <1>1, <1>3 DEF SignalsInv
<1>5. \A t \in Users : Append(queue[t], Head(posted[p])) \in Seq(GoodEvent)
  BY <1>3, AppendProperties DEF SignalsInv
<1>6. queue' \in [Users -> Seq(GoodEvent)]
  BY <1>1, <1>5
<1>7. \A q \in Processes : EventsOf(q)' = EventsOf(q)
  BY DEF EventsOf
<1> QED BY <1>1, <1>4, <1>6, <1>7 DEF SignalsInv

LEMMA HandleSignals ==
  ASSUME FilesInv, SignalsInv, NEW t \in Users, Handle(t)
  PROVE  SignalsInv'
<1> DEFINE e == Head(queue[t])
<1>1. /\ queue[t] # << >> /\ UNCHANGED posted /\ DOMAIN cache' = Processes
      /\ queue' = [queue EXCEPT ![t] = Tail(@)]
      /\ op' = op \/ (~e.deleted /\ op' = [op EXCEPT ![t] = ReloadOp(e.keys)])
      /\ UNCHANGED <<view, misled>> \/ Forget(t, e.keys)
  BY DEF Handle, SignalsInv, Dropped
<1>2. queue[t] \in Seq(GoodEvent)
  BY DEF SignalsInv
<1>3. e \in GoodEvent /\ Tail(queue[t]) \in Seq(GoodEvent)
  BY <1>1, <1>2, WaitingTail
<1>4. queue' \in [Users -> Seq(GoodEvent)]
  BY <1>1, <1>3 DEF SignalsInv
<1>5. ~e.deleted => \E k \in Keys : e.keys = {k}
  BY <1>3 DEF GoodEvent
<1>6. \A u \in Threads : GoodKeys(op'[u])
  <2>1. CASE op' = op
    BY <2>1 DEF SignalsInv
  <2>2. CASE ~e.deleted /\ op' = [op EXCEPT ![t] = ReloadOp(e.keys)]
    BY <1>5, <2>2, QuietKeys, OneOp DEF Threads
  <2> QED BY <1>1, <2>1, <2>2
<1>7. DOMAIN view' = Users /\ (\A u \in Users : DOMAIN view'[u] = Keys) /\ DOMAIN misled' = Users
  BY <1>1, ViewDomains
<1>8. \A q \in Processes : EventsOf(q)' = EventsOf(q)
  BY DEF EventsOf
<1> HIDE DEF e
<1> QED BY <1>1, <1>4, <1>6, <1>7, <1>8 DEF SignalsInv

LEMMA ReadSignals ==
  ASSUME FilesInv, SignalsInv, NEW t \in Users,
         \/ LoadAll(t) \/ (\E k \in Keys : Load(t, k)) \/ (\E matching \in Queries : Find(t, matching))
         \/ Reload(t) \/ ReadJson(t) \/ FinishRead(t)
  PROVE  SignalsInv'
<1> t \in Threads
  BY DEF Threads
<1>1. UNCHANGED <<posted, queue>> /\ DOMAIN cache' = Processes
  BY DEF LoadAll, Load, Find, Reload, ReadJson, FinishRead, signalVars, PutCached, SignalsInv
<1>2. DOMAIN view' = Users /\ (\A u \in Users : DOMAIN view'[u] = Keys) /\ DOMAIN misled' = Users
  <2>1. UNCHANGED <<view, misled>> \/ \E k, data : Show(t, k, data)
    BY DEF LoadAll, Load, Find, Reload, ReadJson, FinishRead, userVars
  <2> QED BY <2>1, ViewDomains
<1>3. PICK o : op' = [op EXCEPT ![t] = o] /\ GoodKeys(o)
  <2>1. CASE LoadAll(t) \/ (\E k \in Keys : Load(t, k)) \/ (\E matching \in Queries : Find(t, matching))
    <3>1. PICK keys \in SUBSET Keys : StartRead(t, "load", keys)
      BY <2>1 DEF LoadAll, Load, Find, StoredKeys
    <3> QED BY <3>1, QuietKeys DEF StartRead
  <2>2. CASE Reload(t)
    <3>1. op[t].step = "reload" /\ GoodKeys(op[t])
      BY <2>2 DEF Reload, SignalsInv
    <3>2. PICK k \in op[t].keys :
            \/ op' = [op EXCEPT ![t] = Idle]
            \/ op' = [op EXCEPT ![t] = Op("reading", "none", {k}, NoRow)]
      BY <2>2 DEF Reload, StartRead
    <3>3. k \in Keys
      BY <3>1 DEF GoodKeys
    <3> QED BY <3>2, <3>3, QuietKeys
  <2>3. CASE ReadJson(t)
    <3>1. GoodKeys(op[t]) /\ IsTransaction(op[t])
      BY DEF SignalsInv, FilesInv, TypesInv
    <3>2. PICK z : op' = [op EXCEPT ![t] = z] /\ (z = Idle \/ \E got : z = [op[t] EXCEPT !.got = got])
      BY <2>3 DEF ReadJson, WithFile
    <3>3. ASSUME NEW got
          PROVE  LET r == [op[t] EXCEPT !.got = got] IN
                 r.keys = op[t].keys /\ r.kind = op[t].kind /\ r.step = op[t].step
      BY <3>1 DEF IsTransaction
    <3>4. GoodKeys(z)
      <4>1. CASE z = Idle
        BY <4>1, QuietKeys
      <4>2. ASSUME NEW got, z = [op[t] EXCEPT !.got = got] PROVE GoodKeys(z)
        <5>1. z.keys = op[t].keys /\ z.kind = op[t].kind /\ z.step = op[t].step
          BY <3>3, <4>2
        <5> QED BY <3>1, <5>1 DEF GoodKeys, OfOneKey
      <4> QED BY <3>2, <4>1, <4>2
    <3> QED BY <3>2, <3>4
  <2>4. CASE FinishRead(t)
    BY <2>4, QuietKeys DEF FinishRead
  <2> QED BY <2>1, <2>2, <2>3, <2>4
<1>4. \A u \in Threads : GoodKeys(op'[u])
  BY <1>3, OneOp
<1> QED BY <1>1, <1>2, <1>4 DEF SignalsInv, EventsOf

LEMMA CrashSignals ==
  ASSUME SignalsInv, Crash
  PROVE  SignalsInv'
<1>1. \A t \in Threads : GoodKeys(op'[t])
  BY QuietKeys DEF Crash
<1>2. << >> \in Seq(GoodEvent) /\ \A q \in Processes : << >> \in Seq(EventsOf(q)')
  BY EmptySeq
<1> QED BY <1>1, <1>2 DEF Crash, SignalsInv

LEMMA SignalsAtFirst == ASSUME Init PROVE SignalsInv
<1>1. \A t \in Threads : GoodKeys(op[t])
  BY QuietKeys DEF Init
<1>2. << >> \in Seq(GoodEvent) /\ \A q \in Processes : << >> \in Seq(EventsOf(q))
  BY EmptySeq
<1> QED BY <1>1, <1>2 DEF Init, SignalsInv

LEMMA SignalsStep == FilesInv /\ SignalsInv /\ [Next]_vars => SignalsInv'
<1> SUFFICES ASSUME FilesInv, SignalsInv, [Next]_vars PROVE SignalsInv'
  OBVIOUS
<1>1. \A k \in Keys : row[k].version \in Nat
  BY DEF FilesInv, TypesInv, Row
<1>2. \A k \in Keys : \A v \in 1 .. row[k].version + 1 : v \in Nat
  BY <1>1
<1>3. ASSUME NEW k \in Keys, MarkUnchanged(k) PROVE SignalsInv'
  BY <1>3 DEF MarkUnchanged, SignalsInv, EventsOf
<1>4. CASE UNCHANGED vars
  BY <1>4 DEF vars, SignalsInv, EventsOf
<1>5. CASE \/ \E t \in Users, k \in Keys : (\E d \in Data : Save(t, k, d)) \/ RemoveKey(t, k)
           \/ \E t \in Users : Clear(t)
           \/ Reset
           \/ \E k \in Keys, v \in Nat, c \in Payload : Merge(k, v, c)
  BY <1>5, BeginsAreSignals
<1>6. ASSUME NEW t \in Users,
         \/ LoadAll(t) \/ (\E k \in Keys : Load(t, k)) \/ (\E matching \in Queries : Find(t, matching))
         \/ Reload(t) \/ ReadJson(t) \/ FinishRead(t)
      PROVE  SignalsInv'
  BY <1>6, ReadSignals
<1>7. ASSUME NEW t \in Threads, Commit(t) \/ CommitFails(t) PROVE SignalsInv'
  BY <1>7, CommitSignals
<1>8. ASSUME NEW t \in Threads, Announce(t) PROVE SignalsInv'
  BY <1>8, AnnounceSignals
<1>9. ASSUME NEW p \in Processes, Dispatch(p) PROVE SignalsInv'
  BY <1>9, DispatchSignals
<1>10. ASSUME NEW t \in Users, Handle(t) PROVE SignalsInv'
  BY <1>10, HandleSignals
<1>11. CASE Crash
  BY <1>11, CrashSignals
<1> QED
  BY <1>2, <1>3, <1>4, <1>5, <1>6, <1>7, <1>8, <1>9, <1>10, <1>11 DEF Next

--------------------------------------------------------------------------------
(* Caches.                                                                   *)

\* A deletion takes the data away from whoever hears of it; a change can only
\* help as long as there is something to load.
Counts(k, deleted) == deleted \/ Exists(row[k])
Tells(e, k) == k \in e.keys /\ Counts(k, e.deleted)

\* A transaction has begun to change the data of k.
Changing(k) == \E t \in Threads : Writing(t) /\ op[t].kind # "version" /\ k \in op[t].keys

\* The cache of p still has to hear of k.
CacheDue(p, k) ==
  \/ \E u \in Threads :
       /\ op[u].step = "committed" /\ k \in op[u].keys
       /\ op[u].kind = "store" => ProcessOf(u) # p /\ Exists(row[k])
  \/ \E q \in Processes \ {p} : \E e \in Waiting(posted[q]) : Tells(e, k)
  \/ p \in PassiveUsers /\ \E e \in Waiting(queue[p]) : Tells(e, k)

CacheGood(p, k) ==
  \/ k \in torn \/ <<p, k>> \in overlapped
  \/ cache[p][k] \in {None, Stored(k)}
  \/ CacheDue(p, k) \/ Changing(k)

\* A transaction that saves has updated the cache of its process.
CacheAhead(t) ==
  Writing(t) /\ op[t].kind = "store" =>
    \A k \in op[t].keys :
      \/ <<ProcessOf(t), k>> \in overlapped
      \/ cache[ProcessOf(t)][k] \in {None, op[t].new.content}

\* Nothing commits while there is a reader; of a transaction that has begun, it may
\* have read the file before or after.
GotStored(t, k) == k \in torn \/ op[t].got[k] = Stored(k) \/ Changing(k)
GotSaved(t, k) ==
  \A w \in Threads :
    Writing(w) /\ op[w].kind = "store" /\ k \in op[w].keys /\ ProcessOf(w) = ProcessOf(t) =>
      <<ProcessOf(t), k>> \in overlapped \/ op[t].got[k] = op[w].new.content
ReadGood(t) ==
  Reading(t) =>
    /\ \A k \in op[t].keys : Exists(row[k])
    /\ DOMAIN op[t].got \subseteq op[t].keys
    /\ \A k \in DOMAIN op[t].got : GotStored(t, k) /\ GotSaved(t, k)

\* A load can only overlap with the replacement of a file that stays.
OverlapGood(p, k) ==
  <<p, k>> \in overlapped =>
    /\ Exists(row[k])
    /\ \A t \in Threads :
         Writing(t) /\ op[t].kind \in {"delete", "clear", "reset"} => k \notin op[t].keys

CacheInv ==
  /\ \A t \in Threads : CacheAhead(t) /\ ReadGood(t)
  /\ \A p \in Processes, k \in Keys : CacheGood(p, k) /\ OverlapGood(p, k)

\* The data of every row stays.
SameData ==
  \A k \in Keys : Stored(k)' = Stored(k) /\ (Exists(row[k])' <=> Exists(row[k]))

\* A thread that neither writes nor has something to announce.
Aside(o) == o.step \notin {"written", "committed"}

\* Steps that change no data, no cache and no signal.
LEMMA QuietCache ==
  ASSUME SignalsInv, CacheInv, SameData, UNCHANGED <<torn, cache, posted, queue, overlapped>>,
         NEW t \in Threads, \A u \in Threads \ {t} : op'[u] = op[u],
         op'[t] = op[t] \/ (Aside(op[t]) /\ Aside(op'[t]) /\ ReadGood(t)')
  PROVE  CacheInv'
<1>1. \A u \in Threads : op'[u] = op[u] \/ (Aside(op[u]) /\ Aside(op'[u]))
  OBVIOUS
<1>2. \A u \in Threads : Writing(u)' <=> Writing(u)
  BY <1>1 DEF Aside, Writing
<1>3. \A u \in Threads : Writing(u) \/ op[u].step = "committed" => op'[u] = op[u]
  BY <1>1 DEF Aside, Writing
<1>4. \A u \in Threads : op'[u].step = "committed" => op'[u] = op[u]
  BY <1>1 DEF Aside
<1>5. \A k : Changing(k)' <=> Changing(k)
  BY <1>2, <1>3 DEF Changing
<1>6. ASSUME NEW p \in Processes, NEW k \in Keys PROVE CacheDue(p, k)' <=> CacheDue(p, k)
  <2>1. \A e : Tells(e, k)' <=> Tells(e, k)
    BY DEF Tells, Counts, SameData
  <2>2. Exists(row[k])' <=> Exists(row[k])
    BY DEF SameData
  <2> QED BY <1>3, <1>4, <2>1, <2>2 DEF CacheDue
<1>7. \A u \in Threads : CacheAhead(u)'
  BY <1>2, <1>3 DEF CacheInv, CacheAhead
<1>8. \A p \in Processes, k \in Keys : CacheGood(p, k)'
  BY <1>5, <1>6 DEF CacheInv, CacheGood, SameData
<1>9. \A p \in Processes, k \in Keys : OverlapGood(p, k)'
  BY <1>2, <1>3 DEF CacheInv, OverlapGood, SameData
<1>10. ASSUME NEW u \in Threads, op'[u] = op[u] PROVE ReadGood(u)'
  <2>1. Reading(u)' <=> Reading(u)
    BY <1>10 DEF Reading
  <2>2. ReadGood(u) /\ op[u].keys \subseteq Keys
    BY DEF CacheInv, SignalsInv, GoodKeys
  <2>3. ASSUME NEW k \in DOMAIN op[u].got, k \in Keys, GotStored(u, k), GotSaved(u, k)
        PROVE  GotStored(u, k)' /\ GotSaved(u, k)'
    <3>1. GotStored(u, k)'
      BY <1>5, <1>10, <2>3 DEF GotStored, SameData
    <3>2. GotSaved(u, k)'
      BY <1>2, <1>3, <1>10, <2>3 DEF GotSaved
    <3> QED BY <3>1, <3>2
  <2> QED BY <1>10, <2>1, <2>2, <2>3 DEF ReadGood, SameData
<1> QED BY <1>7, <1>8, <1>9, <1>10 DEF CacheInv

LEMMA SameRowsSameData == row' = row => SameData
BY DEF SameData, Stored

\* A row of a deleted dataset has no data, whether it is marked or purged.
LEMMA MarkUnchangedData ==
  ASSUME FilesInv, NEW k \in Keys, MarkUnchanged(k)
  PROVE  SameData
<1> DEFINE new == markUnchanged(row[k], row[k].version, TRUE)
<1>1. GoodRow(row[k]) /\ row[k].version \in Nat
  BY DEF FilesInv, TypesInv, GoodRow, Row
<1>2. ~Exists(row[k]) /\ ~Exists(new)
  BY <1>1, DataAssumption
  DEF MarkUnchanged, markUnchanged, NoRow, Exists, ExistsDeleted, NoExists, GoodRow, Row
<1>3. row' = [row EXCEPT ![k] = new]
  BY DEF MarkUnchanged
<1> HIDE DEF new
<1> QED BY <1>2, <1>3 DEF SameData, Stored, FilesInv, TypesInv

LEMMA MarkUnchangedCache ==
  ASSUME FilesInv, SignalsInv, CacheInv, NEW k \in Keys, MarkUnchanged(k)
  PROVE  CacheInv'
<1>1. UNCHANGED <<torn, cache, posted, queue, overlapped, op>> /\ Engine \in Threads
  BY DEF MarkUnchanged, Threads
<1> QED BY <1>1, MarkUnchangedData, QuietCache

\* What the beginning of a read and the end of a reload leave is easily good.
LEMMA FreshRead ==
  ASSUME NEW t \in Threads,
         \/ op'[t].step # "reading"
         \/ \E kind, keys : op'[t] = Op("reading", kind, keys, NoRow) /\ \A k \in keys : Exists(row'[k])
  PROVE  ReadGood(t)'
<1>1. CASE op'[t].step # "reading"
  BY <1>1 DEF ReadGood, Reading
<1>2. ASSUME NEW kind, NEW keys, op'[t] = Op("reading", kind, keys, NoRow),
             \A k \in keys : Exists(row'[k])
      PROVE  ReadGood(t)'
  <2>1. op'[t].keys = keys /\ op'[t].got = << >>
    BY <1>2 DEF Op
  <2>2. DOMAIN op'[t].got = {}
    BY <2>1
  <2> QED BY <1>2, <2>1, <2>2 DEF ReadGood
<1> QED BY <1>1, <1>2

\* Loads of the application read what the index has.
LEMMA LoadsStored ==
  ASSUME NEW t \in Threads,
         LoadAll(t) \/ (\E k \in Keys : Load(t, k)) \/ (\E matching \in Queries : Find(t, matching))
  PROVE  \E keys : StartRead(t, "load", keys) /\ \A k \in keys : Exists(row[k])
<1>1. CASE LoadAll(t)
  <2>1. StartRead(t, "load", StoredKeys) /\ \A k \in StoredKeys : Exists(row[k])
    BY <1>1 DEF LoadAll, StoredKeys
  <2> QED BY <2>1
<1>2. ASSUME NEW k \in Keys, Load(t, k)
      PROVE  \E keys : StartRead(t, "load", keys) /\ \A x \in keys : Exists(row[x])
  <2>1. StartRead(t, "load", {k}) /\ \A x \in {k} : Exists(row[x])
    BY <1>2 DEF Load
  <2> QED BY <2>1
<1>3. ASSUME NEW matching \in Queries, Find(t, matching)
      PROVE  \E keys : StartRead(t, "load", keys) /\ \A k \in keys : Exists(row[k])
  <2> DEFINE found == StoredKeys \cap matching
  <2>1. StartRead(t, "load", found) /\ \A k \in found : Exists(row[k])
    BY <1>3 DEF Find, StoredKeys
  <2> HIDE DEF found
  <2> QED BY <2>1
<1> QED BY <1>1, <1>2, <1>3

LEMMA LoadCache ==
  ASSUME FilesInv, SignalsInv, CacheInv, NEW t \in Threads,
         \/ LoadAll(t) \/ (\E k \in Keys : Load(t, k)) \/ (\E matching \in Queries : Find(t, matching))
         \/ Reload(t)
  PROVE  CacheInv'
<1>1. /\ UNCHANGED <<row, torn, cache, posted, queue, overlapped>>
      /\ op[t].step \in {"idle", "reload"}
  BY DEF LoadAll, Load, Find, Reload, dbVars, signalVars
<1>2. PICK o : op' = [op EXCEPT ![t] = o]
  BY DEF LoadAll, Load, Find, Reload, StartRead
<1>3. op'[t] = o /\ \A u \in Threads \ {t} : op'[u] = op[u]
  BY <1>2 DEF FilesInv, TypesInv
<1>4. CASE op'[t] = Idle
  <2>1. op'[t].step = "idle"
    BY <1>4 DEF Idle, Op
  <2> QED BY <1>1, <1>3, <2>1, FreshRead, QuietCache, SameRowsSameData DEF Aside
<1>5. ASSUME NEW kind, NEW keys, op'[t] = Op("reading", kind, keys, NoRow),
             \A k \in keys : Exists(row[k])
      PROVE  CacheInv'
  <2>1. op'[t].step = "reading"
    BY <1>5 DEF Op
  <2>2. ReadGood(t)'
    BY <1>1, <1>5, FreshRead
  <2> QED BY <1>1, <1>3, <2>1, <2>2, QuietCache, SameRowsSameData DEF Aside
<1>6. CASE Reload(t)
  <2>1. PICK k : op' = [op EXCEPT ![t] = Idle] \/ (Exists(row[k]) /\ StartRead(t, "none", {k}))
    BY <1>6 DEF Reload
  <2>2. op'[t] = Idle \/ (Exists(row[k]) /\ op'[t] = Op("reading", "none", {k}, NoRow))
    BY <2>1 DEF StartRead, FilesInv, TypesInv
  <2> QED BY <1>4, <1>5, <2>2
<1>7. CASE LoadAll(t) \/ (\E k \in Keys : Load(t, k)) \/ (\E matching \in Queries : Find(t, matching))
  <2>1. PICK keys : StartRead(t, "load", keys) /\ \A k \in keys : Exists(row[k])
    BY <1>7, LoadsStored
  <2>2. op'[t] = Op("reading", "load", keys, NoRow)
    BY <2>1 DEF StartRead, FilesInv, TypesInv
  <2> QED BY <1>5, <2>1, <2>2
<1> QED BY <1>6, <1>7

\* The file of a key that nobody changes is what the index says.
LEMMA FileOfKey ==
  ASSUME FilesInv, NEW k \in Keys
  PROVE  file[k] = Stored(k) \/ k \in torn \/ Changing(k)
<1>1. CASE \E w \in Threads : Writing(w) /\ k \in op[w].keys /\ op[w].kind = "version"
  BY <1>1 DEF FilesInv, FilesAhead, Ahead, KeepsFile
<1>2. CASE ~\E w \in Threads : Writing(w) /\ k \in op[w].keys
  BY <1>2 DEF FilesInv, FilesMatch
<1> QED BY <1>1, <1>2 DEF Changing

LEMMA ReadJsonCache ==
  ASSUME FilesInv, SignalsInv, CacheInv, NEW t \in Threads, ReadJson(t)
  PROVE  CacheInv'
<1>1. /\ UNCHANGED <<row, torn, cache, posted, queue, overlapped>>
      /\ op[t].step = "reading" /\ DOMAIN op[t].got # op[t].keys
  BY DEF ReadJson, Reading, dbVars, signalVars
<1>2. ReadGood(t) /\ Reading(t)
  BY <1>1 DEF CacheInv, Reading
<1>0. PICK k : k = CHOOSE x \in op[t].keys : x \notin DOMAIN op[t].got
  OBVIOUS
<1>3. k \in op[t].keys /\ k \in Keys /\ Exists(row[k])
  <2>1. \E x \in op[t].keys : x \notin DOMAIN op[t].got
    BY <1>1, <1>2 DEF ReadGood
  <2> QED BY <1>0, <1>2, <2>1 DEF ReadGood, SignalsInv, GoodKeys
<1>8. PICK got : got = [x \in DOMAIN op[t].got \cup {k} |-> IF x = k THEN file[k] ELSE op[t].got[x]]
  OBVIOUS
<1>9. op' = [op EXCEPT ![t] = IF file[k] = None THEN Idle ELSE [op[t] EXCEPT !.got = got]]
  <2>1. op' = [op EXCEPT ![t] = IF file[k] = None THEN Idle ELSE WithFile(op[t], k)]
    BY <1>0 DEF ReadJson
  <2>2. WithFile(op[t], k) = [op[t] EXCEPT !.got = got]
    BY <1>8 DEF WithFile
  <2> QED BY <2>1, <2>2
<1>4. IsTransaction(op[t])
  BY DEF FilesInv, TypesInv
<1>5. \A u \in Threads \ {t} : op'[u] = op[u]
  BY <1>9 DEF FilesInv, TypesInv
<1>6. CASE file[k] = None
  <2>1. op'[t] = Idle
    BY <1>6, <1>9 DEF FilesInv, TypesInv
  <2>2. Idle.step = "idle"
    BY DEF Idle, Op
  <2>3. ReadGood(t)'
    BY <2>1, <2>2, FreshRead
  <2> QED BY <1>1, <1>5, <2>1, <2>2, <2>3, QuietCache, SameRowsSameData DEF Aside
<1>7. CASE file[k] # None
  <2>1. op'[t] = [op[t] EXCEPT !.got = got]
    BY <1>7, <1>9 DEF FilesInv, TypesInv
  <2>2. /\ op'[t].step = "reading" /\ op'[t].keys = op[t].keys /\ op'[t].got = got
    BY <1>1, <1>4, <2>1 DEF IsTransaction
  <2>3. \A u \in Threads : Writing(u)' <=> Writing(u)
    BY <1>1, <1>5, <2>2 DEF Writing
  <2>4. \A u \in Threads : Writing(u) => op'[u] = op[u]
    BY <1>1, <1>5 DEF Writing
  <2>5. \A x : (Changing(x)' <=> Changing(x)) /\ Stored(x)' = Stored(x)
    BY <1>1, <2>3, <2>4 DEF Changing, Stored
  <2>6. file[k] = Stored(k) \/ k \in torn \/ Changing(k)
    BY <1>3, FileOfKey
  <2>7. \A w \in Threads : Writing(w) /\ op[w].kind = "store" /\ k \in op[w].keys =>
          file[k] = op[w].new.content
    BY <1>3 DEF FilesInv, FilesAhead, Ahead, StoresFile
  <2>8. DOMAIN got = DOMAIN op[t].got \cup {k} /\ got[k] = file[k]
        /\ \A x \in DOMAIN op[t].got \ {k} : got[x] = op[t].got[x]
    BY <1>8
  <2>9. GotStored(t, k)' /\ GotSaved(t, k)'
    <3>1. GotStored(t, k)'
      BY <1>1, <2>2, <2>5, <2>6, <2>8 DEF GotStored
    <3>2. GotSaved(t, k)'
      BY <1>1, <2>2, <2>3, <2>4, <2>7, <2>8 DEF GotSaved
    <3> QED BY <3>1, <3>2
  <2>10. ASSUME NEW x \in DOMAIN op[t].got \ {k} PROVE GotStored(t, x)' /\ GotSaved(t, x)'
    <3>1. GotStored(t, x) /\ GotSaved(t, x) /\ op'[t].got[x] = op[t].got[x]
      BY <1>2, <2>2, <2>8, <2>10 DEF ReadGood
    <3>2. GotStored(t, x)'
      BY <1>1, <2>5, <3>1 DEF GotStored
    <3>3. GotSaved(t, x)'
      BY <1>1, <2>3, <2>4, <3>1 DEF GotSaved
    <3> QED BY <3>2, <3>3
  <2>11. ReadGood(t)'
    <3>1. \A x \in op'[t].keys : Exists(row'[x])
      BY <1>1, <1>2, <2>2 DEF ReadGood
    <3>2. DOMAIN op'[t].got \subseteq op'[t].keys
      BY <1>2, <1>3, <2>2, <2>8 DEF ReadGood
    <3>3. \A x \in DOMAIN op'[t].got : GotStored(t, x)' /\ GotSaved(t, x)'
      BY <2>2, <2>8, <2>9, <2>10
    <3> QED BY <3>1, <3>2, <3>3 DEF ReadGood
  <2> QED BY <1>1, <1>5, <2>2, <2>11, QuietCache, SameRowsSameData DEF Aside
<1> QED BY <1>6, <1>7

\* Steps that change no data and may only drop keys from caches.
LEMMA SignalCache ==
  ASSUME SignalsInv, CacheInv, UNCHANGED <<row, torn, overlapped>>,
         NEW t \in Threads, \A u \in Threads \ {t} : op'[u] = op[u],
         op'[t] = op[t] \/ (op[t].step # "written" /\ op'[t].step \in {"idle", "reload"}),
         \A p \in Processes, k \in Keys :
           /\ cache'[p][k] = cache[p][k] \/ cache'[p][k] = None
           /\ CacheDue(p, k) => CacheDue(p, k)' \/ cache'[p][k] = None
  PROVE  CacheInv'
<1>1. \A u \in Threads : op'[u] = op[u] \/ (op[u].step # "written" /\ op'[u].step \in {"idle", "reload"})
  OBVIOUS
<1>2. \A u \in Threads : Writing(u)' <=> Writing(u)
  BY <1>1 DEF Writing
<1>3. \A u \in Threads : Writing(u) => op'[u] = op[u]
  BY <1>1 DEF Writing
<1>4. \A k : (Changing(k)' <=> Changing(k)) /\ Stored(k)' = Stored(k)
  BY <1>2, <1>3 DEF Changing, Stored
<1>5. ASSUME NEW u \in Threads PROVE CacheAhead(u)'
  <2> SUFFICES ASSUME Writing(u)', op'[u].kind = "store", NEW k \in op'[u].keys
               PROVE  \/ <<ProcessOf(u), k>> \in overlapped'
                      \/ cache'[ProcessOf(u)][k] \in {None, op'[u].new.content}
    BY DEF CacheAhead
  <2>1. Writing(u) /\ op'[u] = op[u]
    BY <1>2, <1>3
  <2>2. k \in Keys /\ ProcessOf(u) \in Processes
    BY <2>1 DEF SignalsInv, GoodKeys, ProcessOf, Processes
  <2>3. CacheAhead(u)
    BY DEF CacheInv
  <2> QED BY <2>1, <2>2, <2>3 DEF CacheAhead
<1>6. ASSUME NEW u \in Threads PROVE ReadGood(u)'
  <2> SUFFICES ASSUME Reading(u)' PROVE ReadGood(u)'
    BY DEF ReadGood
  <2>1. op'[u] = op[u] /\ Reading(u)
    BY <1>1 DEF Reading
  <2>2. ReadGood(u)
    BY DEF CacheInv
  <2>3. ASSUME NEW k \in DOMAIN op[u].got PROVE GotStored(u, k)' /\ GotSaved(u, k)'
    <3>1. GotStored(u, k) /\ GotSaved(u, k)
      BY <2>1, <2>2 DEF ReadGood
    <3>2. GotStored(u, k)'
      BY <1>4, <2>1, <3>1 DEF GotStored
    <3>3. GotSaved(u, k)'
      BY <1>2, <1>3, <2>1, <3>1 DEF GotSaved
    <3> QED BY <3>2, <3>3
  <2> QED BY <2>1, <2>2, <2>3 DEF ReadGood
<1>7. \A p \in Processes, k \in Keys : CacheGood(p, k)'
  BY <1>4 DEF CacheInv, CacheGood
<1>8. \A p \in Processes, k \in Keys : OverlapGood(p, k)'
  BY <1>2, <1>3 DEF CacheInv, OverlapGood
<1> QED BY <1>5, <1>6, <1>7, <1>8 DEF CacheInv

LEMMA AnnounceCache ==
  ASSUME FilesInv, SignalsInv, CacheInv, NEW t \in Threads, Announce(t)
  PROVE  CacheInv'
<1> DEFINE event == [keys |-> op[t].keys, deleted |-> op[t].kind # "store", origin |-> t]
<1>1. PICK here, e : here = ProcessOf(t) /\ e = event
  OBVIOUS
<1>2. /\ op[t].step = "committed" /\ UNCHANGED <<row, torn, overlapped, queue>>
      /\ cache' = IF op[t].kind # "store" THEN Dropped(here, op[t].keys) ELSE cache
      /\ posted' = [posted EXCEPT ![here] = Append(@, e)]
      /\ op' = [op EXCEPT ![t] =
           IF t \in ActiveUsers /\ op[t].kind = "store" THEN ReloadOp(op[t].keys) ELSE Idle]
  BY <1>1 DEF Announce
<1>3. e.keys = op[t].keys /\ (e.deleted <=> op[t].kind # "store")
  BY <1>1
<1>4. here \in Processes /\ e \in EventsOf(here)
  <2>1. GoodKeys(op[t])
    BY DEF SignalsInv
  <2> QED BY <1>1, <1>2, <2>1
    DEF EventsOf, GoodEvent, Event, GoodKeys, OfOneKey, Processes, ProcessOf
<1>5. (\A u \in Threads \ {t} : op'[u] = op[u]) /\ op'[t].step \in {"idle", "reload"}
  BY <1>2 DEF FilesInv, TypesInv, ReloadOp, Idle, Op
<1>6. /\ Waiting(posted'[here]) = Waiting(posted[here]) \cup {e}
      /\ \A q \in Processes \ {here} : posted'[q] = posted[q]
  BY <1>2, <1>4, WaitingAppend DEF SignalsInv
<1>7. ASSUME NEW p \in Processes, NEW k \in Keys
      PROVE  /\ cache'[p][k] = cache[p][k] \/ cache'[p][k] = None
             /\ p = here /\ k \in op[t].keys /\ op[t].kind # "store" => cache'[p][k] = None
  BY <1>2, <1>4 DEF Dropped, SignalsInv
<1>8. ASSUME NEW p \in Processes, NEW k \in Keys, CacheDue(p, k), cache'[p][k] # None
      PROVE  CacheDue(p, k)'
  <2>1. \A x : Tells(x, k)' <=> Tells(x, k)
    BY <1>2 DEF Tells, Counts
  <2>2. CASE \E u \in Threads \ {t} :
               /\ op[u].step = "committed" /\ k \in op[u].keys
               /\ op[u].kind = "store" => ProcessOf(u) # p /\ Exists(row[k])
    BY <1>2, <1>5, <2>2 DEF CacheDue
  <2>3. CASE k \in op[t].keys /\ (op[t].kind = "store" => ProcessOf(t) # p /\ Exists(row[k]))
    <3>1. p # here
      BY <1>1, <1>7, <1>8, <2>3
    <3>2. Tells(e, k)
      BY <1>3, <2>3 DEF Tells, Counts
    <3> QED BY <1>4, <1>6, <2>1, <3>1, <3>2 DEF CacheDue
  <2>4. CASE \E q \in Processes \ {p} : \E x \in Waiting(posted[q]) : Tells(x, k)
    BY <1>6, <2>1, <2>4 DEF CacheDue
  <2>5. CASE p \in PassiveUsers /\ \E x \in Waiting(queue[p]) : Tells(x, k)
    BY <1>2, <2>1, <2>5 DEF CacheDue
  <2> QED BY <1>8, <2>2, <2>3, <2>4, <2>5 DEF CacheDue
<1> QED BY <1>2, <1>5, <1>7, <1>8, SignalCache

LEMMA DispatchCache ==
  ASSUME FilesInv, SignalsInv, CacheInv, NEW from \in Processes, Dispatch(from)
  PROVE  CacheInv'
<1>1. PICK e : e = Head(posted[from])
  OBVIOUS
<1>2. /\ posted[from] # << >> /\ UNCHANGED <<row, torn, overlapped, op>>
      /\ cache' = IF from \in PassiveUsers THEN Dropped(Engine, e.keys) ELSE cache
      /\ queue' = [t \in Users |-> Append(queue[t], e)]
      /\ posted' = [posted EXCEPT ![from] = Tail(@)]
  BY <1>1 DEF Dispatch
<1>3. e \in GoodEvent /\ Waiting(posted[from]) = {e} \cup Waiting(posted'[from])
  BY <1>1, <1>2, WaitingTail DEF SignalsInv, EventsOf
<1>4. \A q \in Processes \ {from} : posted'[q] = posted[q]
  BY <1>2 DEF SignalsInv
<1>5. \A t \in Users : Waiting(queue'[t]) = Waiting(queue[t]) \cup {e}
  BY <1>2, <1>3, WaitingAppend DEF SignalsInv
<1>6. ASSUME NEW p \in Processes, NEW k \in Keys
      PROVE  /\ cache'[p][k] = cache[p][k] \/ cache'[p][k] = None
             /\ p = Engine /\ from \in PassiveUsers /\ k \in e.keys => cache'[p][k] = None
  BY <1>2 DEF Dropped, SignalsInv
<1>7. ASSUME NEW p \in Processes, NEW k \in Keys, CacheDue(p, k), cache'[p][k] # None
      PROVE  CacheDue(p, k)'
  <2>1. \A x : Tells(x, k)' <=> Tells(x, k)
    BY <1>2 DEF Tells, Counts
  <2>2. CASE \E u \in Threads :
               /\ op[u].step = "committed" /\ k \in op[u].keys
               /\ op[u].kind = "store" => ProcessOf(u) # p /\ Exists(row[k])
    BY <1>2, <2>2 DEF CacheDue
  <2>3. CASE p \in PassiveUsers /\ \E x \in Waiting(queue[p]) : Tells(x, k)
    BY <1>5, <2>1, <2>3 DEF CacheDue, Users
  <2>4. ASSUME NEW q \in Processes \ {p}, NEW x \in Waiting(posted[q]), Tells(x, k)
        PROVE  CacheDue(p, k)'
    <3>1. CASE q # from \/ x # e
      BY <1>3, <1>4, <2>1, <2>4, <3>1 DEF CacheDue
    <3>2. CASE q = from /\ x = e
      <4>1. k \in e.keys
        BY <2>4, <3>2 DEF Tells
      <4>2. CASE p \in PassiveUsers
        BY <1>5, <2>1, <2>4, <3>2, <4>2 DEF CacheDue, Users
      <4>3. CASE p = Engine
        BY <1>6, <1>7, <3>2, <4>1, <4>3 DEF Processes
      <4> QED BY <4>2, <4>3 DEF Processes
    <3> QED BY <3>1, <3>2
  <2> QED BY <1>7, <2>2, <2>3, <2>4 DEF CacheDue
<1> Engine \in Threads
  BY DEF Threads
<1> QED BY <1>2, <1>6, <1>7, SignalCache

LEMMA HandleCache ==
  ASSUME FilesInv, SignalsInv, CacheInv, NEW t \in Users, Handle(t)
  PROVE  CacheInv'
<1>1. PICK e : e = Head(queue[t])
  OBVIOUS
<1>2. /\ queue[t] # << >> /\ UNCHANGED <<row, torn, overlapped, posted>>
      /\ cache' = IF t \in PassiveUsers THEN Dropped(t, e.keys) ELSE cache
      /\ queue' = [queue EXCEPT ![t] = Tail(@)]
      /\ op[t].step = "idle"
      /\ op' = op \/ op' = [op EXCEPT ![t] = ReloadOp(e.keys)]
  BY <1>1 DEF Handle
<1>3. Waiting(queue[t]) = {e} \cup Waiting(queue'[t])
  BY <1>1, <1>2, WaitingTail DEF SignalsInv
<1>4. \A u \in Users \ {t} : queue'[u] = queue[u]
  BY <1>2 DEF SignalsInv
<1>5. t \in Threads /\ (\A u \in Threads \ {t} : op'[u] = op[u])
      /\ (op'[t] = op[t] \/ op'[t].step = "reload")
  BY <1>2 DEF FilesInv, TypesInv, Threads, ReloadOp, Op
<1>6. ASSUME NEW p \in Processes, NEW k \in Keys
      PROVE  /\ cache'[p][k] = cache[p][k] \/ cache'[p][k] = None
             /\ p = t /\ t \in PassiveUsers /\ k \in e.keys => cache'[p][k] = None
  BY <1>2 DEF Dropped, SignalsInv
<1>7. ASSUME NEW p \in Processes, NEW k \in Keys, CacheDue(p, k), cache'[p][k] # None
      PROVE  CacheDue(p, k)'
  <2>1. \A x : Tells(x, k)' <=> Tells(x, k)
    BY <1>2 DEF Tells, Counts
  <2>2. CASE \E u \in Threads :
               /\ op[u].step = "committed" /\ k \in op[u].keys
               /\ op[u].kind = "store" => ProcessOf(u) # p /\ Exists(row[k])
    BY <1>2, <1>5, <2>2 DEF CacheDue
  <2>3. CASE \E q \in Processes \ {p} : \E x \in Waiting(posted[q]) : Tells(x, k)
    BY <1>2, <2>1, <2>3 DEF CacheDue
  <2>4. ASSUME p \in PassiveUsers, NEW x \in Waiting(queue[p]), Tells(x, k)
        PROVE  CacheDue(p, k)'
    <3>1. CASE p # t \/ x # e
      BY <1>3, <1>4, <2>1, <2>4, <3>1 DEF CacheDue, Users
    <3>2. CASE p = t /\ x = e
      BY <1>6, <1>7, <2>4, <3>2 DEF Tells
    <3> QED BY <3>1, <3>2
  <2> QED BY <1>7, <2>2, <2>3, <2>4 DEF CacheDue
<1> QED BY <1>2, <1>5, <1>6, <1>7, SignalCache

LEMMA FinishReadCache ==
  ASSUME FilesInv, SignalsInv, CacheInv, NEW t \in Threads, FinishRead(t)
  PROVE  CacheInv'
<1>1. PICK here, got : here = ProcessOf(t) /\ got = op[t].got
  OBVIOUS
<1>2. /\ Reading(t) /\ DOMAIN got = op[t].keys
      /\ UNCHANGED <<row, torn, overlapped, posted, queue>>
      /\ op' = [op EXCEPT ![t] = Idle]
      /\ cache' = [cache EXCEPT ![here] = [k \in Keys |-> IF k \in DOMAIN got THEN got[k] ELSE @[k]]]
  BY <1>1 DEF FinishRead, PutCached, dbVars, signalVars
<1>3. here \in Processes /\ op'[t] = Idle /\ \A u \in Threads \ {t} : op'[u] = op[u]
  BY <1>1, <1>2 DEF FilesInv, TypesInv, ProcessOf, Processes
<1>4. \A p \in Processes, k \in Keys :
        cache'[p][k] = IF p = here /\ k \in DOMAIN got THEN got[k] ELSE cache[p][k]
  BY <1>2, <1>3 DEF SignalsInv
<1>5. /\ op[t].step = "reading" /\ op'[t].step = "idle"
  BY <1>2, <1>3 DEF Reading, Idle, Op
<1>6. \A u \in Threads : Writing(u)' <=> Writing(u)
  BY <1>3, <1>5 DEF Writing
<1>7. \A u \in Threads : Writing(u) \/ op[u].step = "committed" \/ op'[u].step = "committed" => op'[u] = op[u]
  BY <1>3, <1>5 DEF Writing
<1>8. ReadGood(t)
  BY DEF CacheInv
<1>9. \A k \in DOMAIN got : (k \in torn \/ got[k] = Stored(k) \/ Changing(k)) /\ GotSaved(t, k)
  BY <1>1, <1>2, <1>8 DEF ReadGood, GotStored
<1>10. \A k : (Changing(k)' <=> Changing(k)) /\ Stored(k)' = Stored(k)
  BY <1>2, <1>6, <1>7 DEF Changing, Stored
<1>11. ASSUME NEW p \in Processes, NEW k \in Keys PROVE CacheGood(p, k)'
  <2>1. CacheDue(p, k) => CacheDue(p, k)'
    <3>1. \A e : Tells(e, k)' <=> Tells(e, k)
      BY <1>2 DEF Tells, Counts
    <3> QED BY <1>2, <1>7, <3>1 DEF CacheDue
  <2>2. CacheGood(p, k)
    BY DEF CacheInv
  <2> QED BY <1>2, <1>4, <1>9, <1>10, <2>1, <2>2 DEF CacheGood
<1>12. ASSUME NEW u \in Threads PROVE CacheAhead(u)'
  <2> SUFFICES ASSUME Writing(u)', op'[u].kind = "store", NEW k \in op'[u].keys
               PROVE  \/ <<ProcessOf(u), k>> \in overlapped'
                      \/ cache'[ProcessOf(u)][k] \in {None, op'[u].new.content}
    BY DEF CacheAhead
  <2>1. Writing(u) /\ op'[u] = op[u]
    BY <1>6, <1>7
  <2>2. k \in Keys /\ ProcessOf(u) \in Processes
    BY <2>1 DEF SignalsInv, GoodKeys, ProcessOf, Processes
  <2>3. CacheAhead(u)
    BY DEF CacheInv
  <2>4. CASE ProcessOf(u) = here /\ k \in DOMAIN got
    BY <1>1, <1>2, <1>4, <1>9, <2>1, <2>2, <2>4 DEF GotSaved
  <2>5. CASE ~(ProcessOf(u) = here /\ k \in DOMAIN got)
    BY <1>2, <1>4, <2>1, <2>2, <2>3, <2>5 DEF CacheAhead
  <2> QED BY <2>4, <2>5
<1>13. ASSUME NEW u \in Threads PROVE ReadGood(u)'
  <2> SUFFICES ASSUME Reading(u)' PROVE ReadGood(u)'
    BY DEF ReadGood
  <2>1. op'[u] = op[u] /\ Reading(u)
    BY <1>3, <1>5 DEF Reading
  <2>2. ReadGood(u)
    BY DEF CacheInv
  <2>3. ASSUME NEW k \in DOMAIN op[u].got PROVE GotStored(u, k)' /\ GotSaved(u, k)'
    <3>1. GotStored(u, k) /\ GotSaved(u, k)
      BY <2>1, <2>2 DEF ReadGood
    <3>2. GotStored(u, k)'
      BY <1>2, <1>10, <2>1, <3>1 DEF GotStored
    <3>3. GotSaved(u, k)'
      BY <1>2, <1>6, <1>7, <2>1, <3>1 DEF GotSaved
    <3> QED BY <3>2, <3>3
  <2> QED BY <1>2, <2>1, <2>2, <2>3 DEF ReadGood
<1>14. \A p \in Processes, k \in Keys : OverlapGood(p, k)'
  BY <1>2, <1>6, <1>7 DEF CacheInv, OverlapGood
<1> QED BY <1>11, <1>12, <1>13, <1>14 DEF CacheInv

\* A transaction that fails leaves keys that are torn.
LEMMA CommitFailsCache ==
  ASSUME FilesInv, SignalsInv, CacheInv, NEW t \in Threads, CommitFails(t)
  PROVE  CacheInv'
<1>1. /\ Writing(t) /\ UNCHANGED <<row, posted, queue, overlapped>>
      /\ torn' = IF op[t].kind = "version" THEN torn ELSE torn \cup op[t].keys
      /\ op' = [op EXCEPT ![t] = Idle]
      /\ cache' = IF t \in Users /\ op[t].kind = "store" THEN Dropped(ProcessOf(t), op[t].keys) ELSE cache
  BY DEF CommitFails, dbVars, signalVars
<1>2. op'[t].step = "idle" /\ \A u \in Threads \ {t} : op'[u] = op[u]
  BY <1>1 DEF FilesInv, TypesInv, Idle, Op
<1>3. \A u \in Threads : ~Writing(u)' /\ (Writing(u) => u = t)
  BY <1>1, <1>2 DEF FilesInv, OneWriter, Writing
<1>4. \A u \in Threads : op[u].step = "committed" => op'[u] = op[u]
  BY <1>1, <1>2 DEF Writing
<1>5. \A k : Changing(k) => k \in torn'
  BY <1>1, <1>3 DEF Changing
<1>6. \A k : Stored(k)' = Stored(k)
  BY <1>1 DEF Stored
<1>7. \A p \in Processes, k \in Keys : cache'[p][k] = cache[p][k] \/ cache'[p][k] = None
  BY <1>1 DEF Dropped, SignalsInv
<1>8. ASSUME NEW p \in Processes, NEW k \in Keys PROVE CacheGood(p, k)'
  <2>1. CacheDue(p, k) => CacheDue(p, k)'
    <3>1. \A e : Tells(e, k)' <=> Tells(e, k)
      BY <1>1 DEF Tells, Counts
    <3> QED BY <1>1, <1>4, <3>1 DEF CacheDue
  <2>2. CacheGood(p, k) /\ torn \subseteq torn'
    BY <1>1 DEF CacheInv
  <2> QED BY <1>1, <1>5, <1>6, <1>7, <2>1, <2>2 DEF CacheGood
<1>9. ASSUME NEW u \in Threads PROVE ReadGood(u)'
  <2> SUFFICES ASSUME Reading(u)' PROVE ReadGood(u)'
    BY DEF ReadGood
  <2>1. op'[u] = op[u] /\ Reading(u)
    BY <1>2 DEF Reading
  <2>2. ReadGood(u) /\ torn \subseteq torn'
    BY <1>1 DEF CacheInv
  <2>3. ASSUME NEW k \in DOMAIN op[u].got PROVE GotStored(u, k)' /\ GotSaved(u, k)'
    <3>1. GotStored(u, k)
      BY <2>1, <2>2 DEF ReadGood
    <3>2. GotStored(u, k)'
      BY <1>5, <1>6, <2>1, <2>2, <3>1 DEF GotStored
    <3> QED BY <1>3, <3>2 DEF GotSaved
  <2> QED BY <1>1, <2>1, <2>2, <2>3 DEF ReadGood
<1>10. \A p \in Processes, k \in Keys : OverlapGood(p, k)'
  BY <1>1, <1>3 DEF CacheInv, OverlapGood
<1>11. \A u \in Threads : CacheAhead(u)'
  BY <1>3 DEF CacheAhead
<1> QED BY <1>8, <1>9, <1>10, <1>11 DEF CacheInv

\* A commit leaves the data of the keys alone that it does not cover, and of those of
\* which it only raises the version.
LEMMA CommitKeeps ==
  ASSUME FilesInv, NEW t \in Threads, Commit(t), NEW k \in Keys,
         k \notin op[t].keys \/ op[t].kind = "version"
  PROVE  Stored(k)' = Stored(k) /\ (Exists(row[k])' <=> Exists(row[k]))
<1>1. Writing(t) /\ row' = [x \in Keys |-> NewRow(op[t], x)]
  BY DEF Commit
<1>2. CASE k \notin op[t].keys
  BY <1>1, <1>2 DEF NewRow, Stored
<1>3. CASE k \in op[t].keys /\ op[t].kind = "version"
  <2>1. KeepsFile(op[t], k) /\ row'[k] = op[t].new
    BY <1>1, <1>3 DEF FilesInv, FilesAhead, Ahead, NewRow
  <2> QED BY <2>1 DEF KeepsFile, Stored, Exists
<1> QED BY <1>2, <1>3

\* A commit of a save stores its data.
LEMMA CommitSaves ==
  ASSUME FilesInv, NEW t \in Threads, Commit(t), NEW k \in Keys, k \in op[t].keys,
         op[t].kind = "store"
  PROVE  Exists(row[k])' /\ Stored(k)' = op[t].new.content
<1>1. Writing(t) /\ row' = [x \in Keys |-> NewRow(op[t], x)]
  BY DEF Commit
<1>2. StoresFile(op[t], k)
  BY <1>1 DEF FilesInv, FilesAhead, Ahead
<1> QED BY <1>1, <1>2 DEF StoresFile, NewRow, Stored, Exists

\* A transaction that commits leaves the others' caches behind.
LEMMA CommitCache ==
  ASSUME FilesInv, SignalsInv, CacheInv, NEW t \in Threads, Commit(t)
  PROVE  CacheInv'
<1>1. /\ Writing(t) /\ UNCHANGED <<cache, posted, queue, overlapped>>
      /\ \A u \in Threads : ~Reading(u)
      /\ row' = [k \in Keys |-> NewRow(op[t], k)]
      /\ torn' = IF op[t].kind = "version" THEN torn ELSE torn \ op[t].keys
  BY DEF Commit, NoReaders, signalVars
<1>2. IsTransaction(op[t]) /\ op[t].kind \in WriteKinds /\ \A k \in op[t].keys : Ahead(op[t], k)
  BY <1>1 DEF FilesInv, TypesInv, FilesAhead
<1>3. /\ op[t].kind = "version" => op'[t].step = "idle"
      /\ op[t].kind # "version" =>
           op'[t].step = "committed" /\ op'[t].kind = op[t].kind /\ op'[t].keys = op[t].keys
      /\ \A u \in Threads \ {t} : op'[u] = op[u]
  BY <1>2 DEF Commit, FilesInv, TypesInv, Idle, Op, IsTransaction
<1>4. \A u \in Threads : ~Writing(u)' /\ ~Reading(u)'
  BY <1>1, <1>3 DEF FilesInv, OneWriter, Writing, Reading
<1>5. \A k : Changing(k) => op[t].kind # "version" /\ k \in op[t].keys
  BY <1>1 DEF Changing, FilesInv, OneWriter
<1>6. ASSUME NEW k \in Keys, k \notin op[t].keys \/ op[t].kind = "version"
      PROVE  Stored(k)' = Stored(k) /\ (Exists(row[k])' <=> Exists(row[k]))
  BY <1>6, CommitKeeps
<1>7. ASSUME NEW k \in op[t].keys, k \in Keys, op[t].kind = "store"
      PROVE  Exists(row[k])' /\ Stored(k)' = op[t].new.content
  BY <1>7, CommitSaves
<1>8. \A u \in Threads : op[u].step = "committed" => op'[u] = op[u]
  BY <1>1, <1>3 DEF Writing
<1>9. ASSUME NEW p \in Processes, NEW k \in Keys PROVE CacheGood(p, k)'
  <2>1. CacheGood(p, k)
    BY DEF CacheInv
  <2>2. CASE k \notin op[t].keys \/ op[t].kind = "version"
    <3>1. CacheDue(p, k) => CacheDue(p, k)'
      <4>1. \A e : Tells(e, k)' <=> Tells(e, k)
        BY <1>6, <2>2 DEF Tells, Counts
      <4> QED BY <1>1, <1>6, <1>8, <2>2, <4>1 DEF CacheDue
    <3>2. ~Changing(k) /\ (k \in torn => k \in torn')
      BY <1>1, <1>5, <2>2
    <3> QED BY <1>1, <1>6, <2>1, <2>2, <3>1, <3>2 DEF CacheGood
  <2>3. CASE k \in op[t].keys /\ op[t].kind = "store" /\ ProcessOf(t) = p
    <3>1. CacheAhead(t)
      BY DEF CacheInv
    <3>2. <<p, k>> \in overlapped \/ cache[p][k] \in {None, op[t].new.content}
      BY <1>1, <2>3, <3>1 DEF CacheAhead
    <3> QED BY <1>1, <1>7, <2>3, <3>2 DEF CacheGood
  <2>4. CASE k \in op[t].keys /\ op[t].kind # "version" /\ ~(op[t].kind = "store" /\ ProcessOf(t) = p)
    <3>1. op[t].kind = "store" => Exists(row[k])'
      BY <1>7, <2>4
    <3>2. CacheDue(p, k)'
      BY <1>3, <2>4, <3>1 DEF CacheDue
    <3> QED BY <3>2 DEF CacheGood
  <2> QED BY <2>2, <2>3, <2>4
<1>10. ASSUME NEW p \in Processes, NEW k \in Keys PROVE OverlapGood(p, k)'
  <2>1. OverlapGood(p, k)
    BY DEF CacheInv
  <2>2. CASE k \notin op[t].keys \/ op[t].kind = "version"
    BY <1>1, <1>4, <1>6, <2>1, <2>2 DEF OverlapGood
  <2>3. CASE k \in op[t].keys /\ op[t].kind # "version"
    <3>1. <<p, k>> \in overlapped => op[t].kind = "store"
      BY <1>1, <1>2, <2>1, <2>3 DEF OverlapGood, WriteKinds
    <3> QED BY <1>1, <1>4, <1>7, <2>3, <3>1 DEF OverlapGood
  <2> QED BY <2>2, <2>3
<1> QED BY <1>4, <1>9, <1>10 DEF CacheInv, CacheAhead, ReadGood

\* After a crash, caches hold what has been loaded.
LEMMA CrashCache ==
  ASSUME FilesInv, SignalsInv, CacheInv, Crash
  PROVE  CacheInv'
<1>1. /\ row' = row /\ overlapped' = {} /\ op' = [t \in Threads |-> Idle]
      /\ cache' = [p \in Processes |-> [k \in Keys |-> IF Exists(row[k]) THEN file[k] ELSE None]]
      /\ file' = file
  BY DEF Crash
<1>2. \A t \in Threads : ~Writing(t)' /\ ~Reading(t)'
  BY <1>1 DEF Writing, Reading, Idle, Op
<1>3. FilesMatch'
  BY CrashStep DEF FilesInv
<1>4. \A k \in Keys : k \in torn' \/ file'[k] = Stored(k)'
  BY <1>2, <1>3 DEF FilesMatch
<1>5. \A p \in Processes, k \in Keys : CacheGood(p, k)'
  BY <1>1, <1>4 DEF CacheGood
<1> QED BY <1>1, <1>2, <1>5 DEF CacheInv, CacheAhead, ReadGood, OverlapGood

--------------------------------------------------------------------------------
(* Views.                                                                    *)

\* A thread of the active process has told its view before.
Own(t, e) == t \in ActiveUsers /\ e.origin = t

\* The view of t is about to load k.
Loading(t, k) ==
  /\ k \in op[t].keys
  /\ op[t].step = "reload" \/ (op[t].step = "reading" /\ op[t].kind = "none")

\* The view of t still has to hear of k, or to load it.
ViewDue(t, k) ==
  \/ \E u \in Threads :
       /\ op[u].step = "committed" /\ k \in op[u].keys
       /\ op[u].kind = "store" => Exists(row[k])
  \/ \E q \in Processes : \E e \in Waiting(posted[q]) : Tells(e, k) /\ ~Own(t, e)
  \/ \E e \in Waiting(queue[t]) : Tells(e, k) /\ ~Own(t, e)
  \/ Loading(t, k) /\ Exists(row[k])

Shows(t, k) == view[t][k] = Stored(k) \/ (k \in misled[t] /\ view[t][k] = None)

ViewGood(t, k) ==
  k \in torn \/ <<ProcessOf(t), k>> \in overlapped \/ Shows(t, k) \/ ViewDue(t, k) \/ Changing(k)

ViewInv == \A t \in Users, k \in Keys : ViewGood(t, k)

\* Steps that change no data and no signal, of a thread that has nothing to
\* announce; a view that does not load any more is good by itself.
LEMMA QuietView ==
  ASSUME SignalsInv, ViewInv, SameData, UNCHANGED <<torn, posted, queue, overlapped>>,
         NEW t \in Threads, \A u \in Threads \ {t} : op'[u] = op[u],
         op'[t] = op[t] \/ (Aside(op[t]) /\ Aside(op'[t])),
         \A s \in Users \ {t}, k \in Keys : Shows(s, k) => Shows(s, k)',
         t \in Users => \A k \in Keys :
           \/ k \in torn \/ <<ProcessOf(t), k>> \in overlapped \/ Changing(k)
           \/ Shows(t, k)' \/ ViewDue(t, k)'
           \/ (Shows(t, k) => Shows(t, k)') /\ (Loading(t, k) /\ Exists(row[k]) => Loading(t, k)')
  PROVE  ViewInv'
<1>1. \A u \in Threads : op'[u] = op[u] \/ (Aside(op[u]) /\ Aside(op'[u]))
  OBVIOUS
<1>2. \A u \in Threads : Writing(u)' <=> Writing(u)
  BY <1>1 DEF Aside, Writing
<1>3. \A u \in Threads : Writing(u) \/ op[u].step = "committed" => op'[u] = op[u]
  BY <1>1 DEF Aside, Writing
<1>4. \A k : Changing(k)' <=> Changing(k)
  BY <1>2, <1>3 DEF Changing
<1>5. ASSUME NEW s \in Users, NEW k \in Keys, ViewDue(s, k),
             Loading(s, k) /\ Exists(row[k]) => Loading(s, k)'
      PROVE  ViewDue(s, k)'
  <2>1. \A e : Tells(e, k)' <=> Tells(e, k)
    BY DEF Tells, Counts, SameData
  <2>2. Exists(row[k])' <=> Exists(row[k])
    BY DEF SameData
  <2>3. CASE \E u \in Threads : /\ op[u].step = "committed" /\ k \in op[u].keys
                                /\ op[u].kind = "store" => Exists(row[k])
    BY <1>3, <2>2, <2>3 DEF ViewDue
  <2>4. CASE \/ \E q \in Processes : \E e \in Waiting(posted[q]) : Tells(e, k) /\ ~Own(s, e)
             \/ \E e \in Waiting(queue[s]) : Tells(e, k) /\ ~Own(s, e)
    BY <2>1, <2>4 DEF ViewDue, Own
  <2>5. CASE Loading(s, k) /\ Exists(row[k])
    BY <1>5, <2>2, <2>5 DEF ViewDue
  <2> QED BY <1>5, <2>3, <2>4, <2>5 DEF ViewDue
<1>6. ASSUME NEW s \in Users, NEW k \in Keys PROVE ViewGood(s, k)'
  <2>1. ViewGood(s, k)
    BY DEF ViewInv
  <2>2. CASE s # t
    <3>1. s \in Threads /\ op'[s] = op[s]
      BY <2>2 DEF Threads
    <3>2. Loading(s, k)' <=> Loading(s, k)
      BY <3>1 DEF Loading
    <3>3. ViewDue(s, k) => ViewDue(s, k)'
      BY <1>5, <3>2
    <3> QED BY <1>4, <2>1, <2>2, <3>3 DEF ViewGood
  <2>3. CASE s = t
    BY <1>4, <1>5, <2>1, <2>3 DEF ViewGood
  <2> QED BY <2>2, <2>3
<1> QED BY <1>6 DEF ViewInv

\* Steps that leave the views alone.
LEMMA SameShows ==
  ASSUME SameData, UNCHANGED <<view, misled>>, NEW t \in Users, NEW k \in Keys
  PROVE  Shows(t, k) => Shows(t, k)'
BY DEF Shows, SameData

LEMMA MarkUnchangedView ==
  ASSUME FilesInv, SignalsInv, ViewInv, NEW k \in Keys, MarkUnchanged(k)
  PROVE  ViewInv'
<1>1. SameData
  BY MarkUnchangedData
<1>2. UNCHANGED <<torn, posted, queue, overlapped, op, view, misled>> /\ Engine \in Threads
      /\ Engine \notin Users
  BY ThreadsAssumption DEF MarkUnchanged, Threads
<1> QED BY <1>1, <1>2, SameShows, QuietView

LEMMA LoadView ==
  ASSUME FilesInv, SignalsInv, ViewInv, NEW t \in Users,
         LoadAll(t) \/ (\E k \in Keys : Load(t, k)) \/ (\E matching \in Queries : Find(t, matching))
  PROVE  ViewInv'
<1>1. /\ UNCHANGED <<row, torn, posted, queue, overlapped, view, misled>>
      /\ op[t].step = "idle"
  BY DEF LoadAll, Load, Find, dbVars, signalVars, userVars
<1>2. PICK keys : StartRead(t, "load", keys)
  BY LoadsStored DEF Threads
<1>3. t \in Threads /\ op'[t].step = "reading" /\ \A u \in Threads \ {t} : op'[u] = op[u]
  BY <1>2 DEF StartRead, Op, FilesInv, TypesInv, Threads
<1>4. \A k : ~Loading(t, k)
  BY <1>1 DEF Loading
<1> QED BY <1>1, <1>2, <1>3, <1>4, SameShows, SameRowsSameData, QuietView DEF Aside

\* What a view shows after it has loaded k.
LEMMA ShowsData ==
  ASSUME SignalsInv, NEW t \in Users, NEW k \in Keys, NEW data, Show(t, k, data)
  PROVE  /\ view'[t][k] = data
         /\ \A x \in Keys \ {k} : view'[t][x] = view[t][x] /\ (x \in misled'[t] <=> x \in misled[t])
         /\ \A s \in Users \ {t} : view'[s] = view[s] /\ misled'[s] = misled[s]
BY DEF Show, SignalsInv

\* A cache that has to hear of k belongs to threads whose views have to.
LEMMA CacheDueIsViewDue ==
  ASSUME SignalsInv, NEW t \in Users, NEW k \in Keys, CacheDue(ProcessOf(t), k)
  PROVE  \/ \E u \in Threads :
              /\ op[u].step = "committed" /\ k \in op[u].keys
              /\ op[u].kind = "store" => Exists(row[k])
         \/ \E q \in Processes : \E e \in Waiting(posted[q]) : Tells(e, k) /\ ~Own(t, e)
         \/ \E e \in Waiting(queue[t]) : Tells(e, k) /\ ~Own(t, e)
<1>1. ASSUME NEW q \in Processes \ {ProcessOf(t)}, NEW e \in Waiting(posted[q])
      PROVE  ~Own(t, e)
  <2>1. posted[q] \in Seq(EventsOf(q))
    BY DEF SignalsInv
  <2>2. e \in EventsOf(q)
    BY <2>1, WaitingTypes
  <2>3. ProcessOf(e.origin) = q
    BY <2>2 DEF EventsOf
  <2> QED BY <1>1, <2>3 DEF Own
<1>2. ProcessOf(t) \in PassiveUsers => t = ProcessOf(t) /\ t \notin ActiveUsers
  BY ThreadsAssumption DEF ProcessOf, Users
<1> QED BY <1>1, <1>2 DEF CacheDue, Own

LEMMA ReloadView ==
  ASSUME FilesInv, SignalsInv, CacheInv, ViewInv, NEW t \in Users, Reload(t)
  PROVE  ViewInv'
<1>1. /\ UNCHANGED <<row, torn, posted, queue, overlapped>> /\ op[t].step = "reload" /\ t \in Threads
      /\ SameData
  BY SameRowsSameData DEF Reload, dbVars, signalVars, Threads
<1>2. PICK k \in op[t].keys :
        \/ /\ cache[ProcessOf(t)][k] # None
           /\ Show(t, k, cache[ProcessOf(t)][k])
           /\ op' = [op EXCEPT ![t] = Idle]
        \/ /\ IF Exists(row[k]) THEN StartRead(t, "none", {k}) ELSE op' = [op EXCEPT ![t] = Idle]
           /\ UNCHANGED <<view, misled>>
  BY DEF Reload
<1>3. k \in Keys /\ op[t].keys = {k}
  <2>1. GoodKeys(op[t])
    BY <1>1 DEF SignalsInv
  <2> QED BY <1>1, <1>2, <2>1 DEF GoodKeys, OfOneKey
<1>4. \A x \in Keys \ {k} : ~Loading(t, x)
  BY <1>3 DEF Loading
<1>5. CASE Show(t, k, cache[ProcessOf(t)][k]) /\ op' = [op EXCEPT ![t] = Idle]
  <2>1. op'[t] = Idle /\ \A u \in Threads \ {t} : op'[u] = op[u]
    BY <1>1, <1>5 DEF FilesInv, TypesInv
  <2>2. Aside(op[t]) /\ Aside(op'[t]) /\ op'[t].step = "idle"
    BY <1>1, <2>1 DEF Aside, Idle, Op
  <2>3. view'[t][k] = cache[ProcessOf(t)][k]
    BY <1>3, <1>5, ShowsData
  <2>4. \A x \in Keys \ {k} : Shows(t, x) => Shows(t, x)'
    BY <1>3, <1>5, <1>1, ShowsData DEF Shows, SameData
  <2>5. \A s \in Users \ {t}, x \in Keys : Shows(s, x) => Shows(s, x)'
    BY <1>3, <1>5, <1>1, ShowsData DEF Shows, SameData
  <2>6. CacheGood(ProcessOf(t), k)
    BY <1>3 DEF CacheInv, ProcessOf, Processes
  <2>7. \/ k \in torn \/ <<ProcessOf(t), k>> \in overlapped \/ Changing(k)
        \/ Shows(t, k)' \/ ViewDue(t, k)' \/ cache[ProcessOf(t)][k] = None
    <3>1. CASE CacheDue(ProcessOf(t), k)
      <4>1. \A e : Tells(e, k)' <=> Tells(e, k)
        BY <1>1 DEF Tells, Counts
      <4>2. \A u \in Threads : op[u].step = "committed" => op'[u] = op[u]
        BY <1>1, <2>1
      <4> QED BY <1>1, <1>3, <3>1, <4>1, <4>2, CacheDueIsViewDue DEF ViewDue, Own
    <3>2. CASE cache[ProcessOf(t)][k] = Stored(k)
      BY <1>1, <1>3, <2>3, <3>2 DEF Shows, SameData
    <3> QED BY <2>6, <3>1, <3>2 DEF CacheGood
  <2>8. CASE cache[ProcessOf(t)][k] # None
    BY <1>1, <1>4, <2>1, <2>2, <2>4, <2>5, <2>7, <2>8, QuietView
  <2>9. CASE cache[ProcessOf(t)][k] = None
    <3>1. Exists(row[k]) => StartRead(t, "none", {k})
      BY <1>2, <2>9
    <3>2. ~Exists(row[k])
      <4>1. StartRead(t, "none", {k}) => op'[t].step = "reading"
        BY <1>1 DEF StartRead, Op, FilesInv, TypesInv
      <4> QED BY <2>2, <3>1, <4>1
    <3>3. Stored(k) = None /\ view'[t][k] = None /\ Shows(t, k)'
      BY <1>1, <1>3, <2>3, <2>9, <3>2 DEF Stored, Shows, SameData
    <3> QED BY <1>1, <1>4, <2>1, <2>2, <2>4, <2>5, <3>3, QuietView
  <2> QED BY <2>8, <2>9
<1>6. CASE /\ IF Exists(row[k]) THEN StartRead(t, "none", {k}) ELSE op' = [op EXCEPT ![t] = Idle]
           /\ UNCHANGED <<view, misled>>
  <2>1. PICK o : o = IF Exists(row[k]) THEN Op("reading", "none", {k}, NoRow) ELSE Idle
    OBVIOUS
  <2>2. op' = [op EXCEPT ![t] = o]
    BY <1>6, <2>1 DEF StartRead
  <2>3. op'[t] = o /\ \A u \in Threads \ {t} : op'[u] = op[u]
    BY <1>1, <2>2 DEF FilesInv, TypesInv
  <2>4. Aside(o) /\ Aside(op[t])
    BY <1>1, <2>1 DEF Aside, Idle, Op
  <2>5. Exists(row[k]) => Loading(t, k)'
    BY <2>1, <2>3 DEF Loading, Op
  <2>6. \A s \in Users, x \in Keys : Shows(s, x) => Shows(s, x)'
    BY <1>1, <1>6, SameShows
  <2> QED BY <1>1, <1>4, <2>3, <2>4, <2>5, <2>6, QuietView
<1> QED BY <1>2, <1>5, <1>6

LEMMA ReadJsonView ==
  ASSUME FilesInv, SignalsInv, CacheInv, ViewInv, NEW t \in Users, ReadJson(t)
  PROVE  ViewInv'
<1>1. /\ UNCHANGED <<row, torn, posted, queue, overlapped, view, misled>>
      /\ op[t].step = "reading" /\ Reading(t) /\ DOMAIN op[t].got # op[t].keys
  BY DEF ReadJson, Reading, dbVars, signalVars, userVars
<1>2. t \in Threads /\ ReadGood(t) /\ GoodKeys(op[t]) /\ IsTransaction(op[t])
  BY DEF CacheInv, SignalsInv, FilesInv, TypesInv, Threads
<1>3. PICK k : k = CHOOSE x \in op[t].keys : x \notin DOMAIN op[t].got
  OBVIOUS
<1>4. k \in op[t].keys /\ k \in Keys /\ Exists(row[k])
  <2>1. \E x \in op[t].keys : x \notin DOMAIN op[t].got
    BY <1>1, <1>2 DEF ReadGood
  <2> QED BY <1>1, <1>2, <1>3, <2>1 DEF ReadGood, GoodKeys
<1>5. op' = [op EXCEPT ![t] = IF file[k] = None THEN Idle ELSE WithFile(op[t], k)]
  BY <1>3 DEF ReadJson
<1>6. /\ op'[t] = IF file[k] = None THEN Idle ELSE WithFile(op[t], k)
      /\ \A u \in Threads \ {t} : op'[u] = op[u]
  BY <1>2, <1>5 DEF FilesInv, TypesInv
<1>7. \A s \in Users, x \in Keys : Shows(s, x) => Shows(s, x)'
  BY <1>1, SameRowsSameData, SameShows
<1>8. CASE file[k] = None
  <2>1. op'[t].step = "idle"
    BY <1>6, <1>8 DEF Idle, Op
  <2>2. \A x \in Keys : Loading(t, x) => x = k
    BY <1>1, <1>2, <1>4 DEF Loading, GoodKeys, OfOneKey
  <2>3. k \in torn \/ Changing(k)
    <3>1. Stored(k) # None
      BY <1>4, ThreadsAssumption DEF Stored, Exists
    <3> QED BY <1>4, <1>8, <3>1, FileOfKey
  <2>4. Aside(op[t]) /\ Aside(op'[t])
    BY <1>1, <2>1 DEF Aside
  <2> QED BY <1>1, <1>2, <1>6, <1>7, <2>2, <2>3, <2>4, SameRowsSameData, QuietView
<1>9. CASE file[k] # None
  <2>1. \E got : op'[t] = [op[t] EXCEPT !.got = got]
    BY <1>6, <1>9 DEF WithFile
  <2>2. op'[t].step = op[t].step /\ op'[t].keys = op[t].keys /\ op'[t].kind = op[t].kind
    BY <1>2, <2>1 DEF IsTransaction
  <2>3. \A x \in Keys : Loading(t, x) => Loading(t, x)'
    BY <2>2 DEF Loading
  <2>4. Aside(op[t]) /\ Aside(op'[t])
    BY <1>1, <2>2 DEF Aside
  <2> QED BY <1>1, <1>2, <1>6, <1>7, <2>3, <2>4, SameRowsSameData, QuietView
<1> QED BY <1>8, <1>9

LEMMA FinishReadView ==
  ASSUME FilesInv, SignalsInv, CacheInv, ViewInv, NEW t \in Users, FinishRead(t)
  PROVE  ViewInv'
<1>1. /\ UNCHANGED <<row, torn, posted, queue, overlapped>> /\ SameData
      /\ op[t].step = "reading" /\ Reading(t) /\ DOMAIN op[t].got = op[t].keys
      /\ op' = [op EXCEPT ![t] = Idle]
  BY SameRowsSameData DEF FinishRead, Reading, dbVars, signalVars
<1>2. t \in Threads /\ ReadGood(t) /\ GoodKeys(op[t])
  BY DEF CacheInv, SignalsInv, Threads
<1>3. op'[t] = Idle /\ \A u \in Threads \ {t} : op'[u] = op[u]
  BY <1>1, <1>2 DEF FilesInv, TypesInv
<1>4. Aside(op[t]) /\ Aside(op'[t])
  BY <1>1, <1>3 DEF Aside, Idle, Op
<1>5. CASE op[t].kind = "load"
  <2>1. UNCHANGED <<view, misled>>
    BY <1>5 DEF FinishRead
  <2>2. \A s \in Users, x \in Keys : Shows(s, x) => Shows(s, x)'
    BY <1>1, <2>1, SameShows
  <2>3. \A x : ~Loading(t, x)
    BY <1>1, <1>5 DEF Loading
  <2> QED BY <1>1, <1>2, <1>3, <1>4, <2>2, <2>3, QuietView
<1>6. CASE op[t].kind # "load"
  <2>1. PICK k \in op[t].keys : Show(t, k, op[t].got[k])
    BY <1>6 DEF FinishRead
  <2>2. k \in Keys /\ (k \in torn \/ op[t].got[k] = Stored(k) \/ Changing(k))
    BY <1>1, <1>2, <2>1 DEF ReadGood, GotStored, GoodKeys
  <2>3. \A x \in Keys \ {k} : ~Loading(t, x)
    BY <1>1, <1>2, <2>1 DEF Loading, GoodKeys, OfOneKey
  <2>4. view'[t][k] = op[t].got[k]
    BY <2>1, <2>2, ShowsData
  <2>5. \A x \in Keys \ {k} : Shows(t, x) => Shows(t, x)'
    BY <1>1, <2>1, <2>2, ShowsData DEF Shows, SameData
  <2>6. \A s \in Users \ {t}, x \in Keys : Shows(s, x) => Shows(s, x)'
    BY <1>1, <2>1, <2>2, ShowsData DEF Shows, SameData
  <2>7. k \in torn \/ Changing(k) \/ Shows(t, k)'
    BY <1>1, <2>2, <2>4 DEF Shows, SameData
  <2> QED BY <1>1, <1>2, <1>3, <1>4, <2>3, <2>5, <2>6, <2>7, QuietView
<1> QED BY <1>5, <1>6

--------------------------------------------------------------------------------
(* Signals reach the views.                                                  *)

\* Steps that change no data: whoever does not hear any more of a key shows it.
LEMMA SignalView ==
  ASSUME ViewInv, UNCHANGED <<row, torn, overlapped>>,
         NEW t \in Threads, \A u \in Threads \ {t} : op'[u] = op[u],
         op'[t] = op[t] \/ (~Writing(t) /\ ~Writing(t)'),
         \A s \in Users, k \in Keys :
           Shows(s, k) \/ ViewDue(s, k) => Shows(s, k)' \/ ViewDue(s, k)'
  PROVE  ViewInv'
<1>1. \A u \in Threads : Writing(u)' <=> Writing(u)
  BY DEF Writing
<1>2. \A u \in Threads : Writing(u) => op'[u] = op[u]
  OBVIOUS
<1>3. \A k : Changing(k)' <=> Changing(k)
  BY <1>1, <1>2 DEF Changing
<1> QED BY <1>3 DEF ViewInv, ViewGood

\* A view that forgets keys shows what it has heard.
LEMMA ForgetShows ==
  ASSUME SignalsInv, row' = row, NEW t \in Users, NEW keys \in SUBSET Keys, Forget(t, keys)
  PROVE  /\ \A k \in keys : Shows(t, k)'
         /\ \A s \in Users, k \in Keys : Shows(s, k) => Shows(s, k)'
<1>1. /\ \A k \in keys : view'[t][k] = None
      /\ \A k \in Keys \ keys : view'[t][k] = view[t][k]
      /\ \A s \in Users \ {t} : view'[s] = view[s]
  BY DEF Forget, SignalsInv
<1>2. /\ misled'[t] = (misled[t] \ keys) \cup (keys \cap StoredKeys)
      /\ \A s \in Users \ {t} : misled'[s] = misled[s]
  BY DEF Forget, SignalsInv
<1>3. \A k \in Keys : Stored(k)' = Stored(k) /\ (k \notin StoredKeys => Stored(k) = None)
  BY DEF Stored, StoredKeys
<1> QED BY <1>1, <1>2, <1>3 DEF Shows

LEMMA AnnounceView ==
  ASSUME FilesInv, SignalsInv, ViewInv, NEW t \in Threads, Announce(t)
  PROVE  ViewInv'
<1>1. PICK here, e : /\ here = ProcessOf(t)
                     /\ e = [keys |-> op[t].keys, deleted |-> op[t].kind # "store", origin |-> t]
  OBVIOUS
<1>2. /\ op[t].step = "committed" /\ UNCHANGED <<row, torn, overlapped, queue>>
      /\ posted' = [posted EXCEPT ![here] = Append(@, e)]
      /\ op' = [op EXCEPT ![t] =
           IF t \in ActiveUsers /\ op[t].kind = "store" THEN ReloadOp(op[t].keys) ELSE Idle]
      /\ IF t \in ActiveUsers /\ op[t].kind # "store"
           THEN Forget(t, op[t].keys) ELSE UNCHANGED <<view, misled>>
  BY <1>1 DEF Announce
<1>3. e.keys = op[t].keys /\ (e.deleted <=> op[t].kind # "store") /\ e.origin = t
  BY <1>1
<1>4. here \in Processes /\ e \in EventsOf(here) /\ op[t].keys \in SUBSET Keys
  <2>1. GoodKeys(op[t])
    BY DEF SignalsInv
  <2> QED BY <1>1, <1>2, <2>1
    DEF EventsOf, GoodEvent, Event, GoodKeys, OfOneKey, Processes, ProcessOf
<1>5. /\ \A u \in Threads \ {t} : op'[u] = op[u]
      /\ op'[t] = IF t \in ActiveUsers /\ op[t].kind = "store" THEN ReloadOp(op[t].keys) ELSE Idle
      /\ op'[t].step \in {"idle", "reload"}
  BY <1>2 DEF FilesInv, TypesInv, ReloadOp, Idle, Op
<1>6. /\ Waiting(posted'[here]) = Waiting(posted[here]) \cup {e}
      /\ \A q \in Processes \ {here} : posted'[q] = posted[q]
  BY <1>2, <1>4, WaitingAppend DEF SignalsInv
<1>7. \A s \in Users, k \in Keys : Shows(s, k) => Shows(s, k)'
  BY <1>2, <1>4, ForgetShows, SameShows, SameRowsSameData DEF Users
<1>8. ASSUME NEW s \in Users, NEW k \in Keys, ViewDue(s, k)
      PROVE  Shows(s, k)' \/ ViewDue(s, k)'
  <2>1. \A x : Tells(x, k)' <=> Tells(x, k)
    BY <1>2 DEF Tells, Counts
  <2>2. CASE \E u \in Threads \ {t} :
               /\ op[u].step = "committed" /\ k \in op[u].keys
               /\ op[u].kind = "store" => Exists(row[k])
    BY <1>2, <1>5, <2>2 DEF ViewDue
  <2>3. CASE k \in op[t].keys /\ (op[t].kind = "store" => Exists(row[k]))
    <3>1. Tells(e, k)
      BY <1>3, <2>3 DEF Tells, Counts
    <3>2. CASE ~Own(s, e)
      BY <1>4, <1>6, <2>1, <3>1, <3>2 DEF ViewDue, Own
    <3>3. CASE Own(s, e) /\ op[t].kind # "store"
      BY <1>2, <1>3, <1>4, <2>3, <3>3, ForgetShows DEF Own
    <3>4. CASE Own(s, e) /\ op[t].kind = "store"
      <4>1. s = t /\ op'[t] = ReloadOp(op[t].keys)
        BY <1>3, <1>5, <3>4 DEF Own
      <4>2. Loading(s, k)'
        BY <2>3, <4>1 DEF Loading, ReloadOp, Op
      <4> QED BY <1>2, <2>3, <3>4, <4>2 DEF ViewDue
    <3> QED BY <3>2, <3>3, <3>4
  <2>4. CASE \E q \in Processes : \E x \in Waiting(posted[q]) : Tells(x, k) /\ ~Own(s, x)
    BY <1>6, <2>1, <2>4 DEF ViewDue, Own
  <2>5. CASE \E x \in Waiting(queue[s]) : Tells(x, k) /\ ~Own(s, x)
    BY <1>2, <2>1, <2>5 DEF ViewDue, Own
  <2>6. CASE Loading(s, k) /\ Exists(row[k])
    <3>1. s # t /\ op'[s] = op[s]
      BY <1>2, <1>5, <2>6 DEF Loading, Threads
    <3> QED BY <1>2, <2>6, <3>1 DEF ViewDue, Loading
  <2> QED BY <1>8, <2>2, <2>3, <2>4, <2>5, <2>6 DEF ViewDue
<1> QED BY <1>2, <1>5, <1>7, <1>8, SignalView DEF Writing

LEMMA DispatchView ==
  ASSUME FilesInv, SignalsInv, ViewInv, NEW from \in Processes, Dispatch(from)
  PROVE  ViewInv'
<1>1. PICK e : e = Head(posted[from])
  OBVIOUS
<1>2. /\ posted[from] # << >> /\ UNCHANGED <<row, torn, overlapped, op, view, misled>>
      /\ queue' = [t \in Users |-> Append(queue[t], e)]
      /\ posted' = [posted EXCEPT ![from] = Tail(@)]
  BY <1>1 DEF Dispatch
<1>3. e \in GoodEvent /\ Waiting(posted[from]) = {e} \cup Waiting(posted'[from])
  BY <1>1, <1>2, WaitingTail DEF SignalsInv, EventsOf
<1>4. \A q \in Processes \ {from} : posted'[q] = posted[q]
  BY <1>2 DEF SignalsInv
<1>5. \A t \in Users : Waiting(queue'[t]) = Waiting(queue[t]) \cup {e}
  BY <1>2, <1>3, WaitingAppend DEF SignalsInv
<1>6. \A s \in Users, k \in Keys : Shows(s, k) => Shows(s, k)'
  BY <1>2, SameShows, SameRowsSameData
<1>7. ASSUME NEW s \in Users, NEW k \in Keys, ViewDue(s, k) PROVE ViewDue(s, k)'
  <2>1. \A x : Tells(x, k)' <=> Tells(x, k)
    BY <1>2 DEF Tells, Counts
  <2>2. CASE \E u \in Threads :
               /\ op[u].step = "committed" /\ k \in op[u].keys
               /\ op[u].kind = "store" => Exists(row[k])
    BY <1>2, <2>2 DEF ViewDue
  <2>3. CASE \E x \in Waiting(queue[s]) : Tells(x, k) /\ ~Own(s, x)
    BY <1>5, <2>1, <2>3 DEF ViewDue, Own
  <2>4. ASSUME NEW q \in Processes, NEW x \in Waiting(posted[q]), Tells(x, k), ~Own(s, x)
        PROVE  ViewDue(s, k)'
    <3>1. CASE q # from \/ x # e
      BY <1>3, <1>4, <2>1, <2>4, <3>1 DEF ViewDue, Own
    <3>2. CASE q = from /\ x = e
      BY <1>5, <2>1, <2>4, <3>2 DEF ViewDue, Own
    <3> QED BY <3>1, <3>2
  <2>5. CASE Loading(s, k) /\ Exists(row[k])
    BY <1>2, <2>5 DEF ViewDue, Loading
  <2> QED BY <1>7, <2>2, <2>3, <2>4, <2>5 DEF ViewDue
<1> Engine \in Threads
  BY DEF Threads
<1> QED BY <1>2, <1>6, <1>7, SignalView

LEMMA HandleView ==
  ASSUME FilesInv, SignalsInv, ViewInv, NEW t \in Users, Handle(t)
  PROVE  ViewInv'
<1>1. PICK e : e = Head(queue[t])
  OBVIOUS
<1>2. /\ queue[t] # << >> /\ UNCHANGED <<row, torn, overlapped, posted>>
      /\ queue' = [queue EXCEPT ![t] = Tail(@)]
      /\ op[t].step = "idle"
      /\ op' = IF Own(t, e) \/ e.deleted THEN op ELSE [op EXCEPT ![t] = ReloadOp(e.keys)]
      /\ IF e.deleted /\ ~Own(t, e) THEN Forget(t, e.keys) ELSE UNCHANGED <<view, misled>>
  BY <1>1 DEF Handle, Own
<1>3. e \in GoodEvent /\ Waiting(queue[t]) = {e} \cup Waiting(queue'[t])
  BY <1>1, <1>2, WaitingTail DEF SignalsInv
<1>4. (\A u \in Users \ {t} : queue'[u] = queue[u]) /\ e.keys \in SUBSET Keys
  BY <1>2, <1>3 DEF SignalsInv, GoodEvent, Event
<1>5. /\ t \in Threads /\ \A u \in Threads \ {t} : op'[u] = op[u]
      /\ op'[t] = IF Own(t, e) \/ e.deleted THEN op[t] ELSE ReloadOp(e.keys)
      /\ op'[t].step \in {"idle", "reload"}
  BY <1>2 DEF FilesInv, TypesInv, Threads, ReloadOp, Op
<1>6. \A s \in Users, k \in Keys : Shows(s, k) => Shows(s, k)'
  BY <1>2, <1>4, ForgetShows, SameShows, SameRowsSameData
<1>7. ASSUME NEW s \in Users, NEW k \in Keys, ViewDue(s, k)
      PROVE  Shows(s, k)' \/ ViewDue(s, k)'
  <2>1. \A x : Tells(x, k)' <=> Tells(x, k)
    BY <1>2 DEF Tells, Counts
  <2>2. CASE \E u \in Threads :
               /\ op[u].step = "committed" /\ k \in op[u].keys
               /\ op[u].kind = "store" => Exists(row[k])
    BY <1>2, <1>5, <2>2 DEF ViewDue
  <2>3. CASE \E q \in Processes : \E x \in Waiting(posted[q]) : Tells(x, k) /\ ~Own(s, x)
    BY <1>2, <2>1, <2>3 DEF ViewDue, Own
  <2>4. ASSUME NEW x \in Waiting(queue[s]), Tells(x, k), ~Own(s, x)
        PROVE  Shows(s, k)' \/ ViewDue(s, k)'
    <3>1. CASE s # t \/ x # e
      BY <1>3, <1>4, <2>1, <2>4, <3>1 DEF ViewDue, Own
    <3>2. CASE s = t /\ x = e /\ e.deleted
      BY <1>2, <1>4, <2>4, <3>2, ForgetShows DEF Tells
    <3>3. CASE s = t /\ x = e /\ ~e.deleted
      <4>1. k \in e.keys /\ Exists(row[k]) /\ op'[t] = ReloadOp(e.keys)
        BY <1>5, <2>4, <3>3 DEF Tells, Counts
      <4>2. Loading(s, k)'
        BY <3>3, <4>1 DEF Loading, ReloadOp, Op
      <4> QED BY <1>2, <4>1, <4>2 DEF ViewDue
    <3> QED BY <3>1, <3>2, <3>3
  <2>5. CASE Loading(s, k) /\ Exists(row[k])
    <3>1. s # t /\ op'[s] = op[s]
      BY <1>2, <1>5, <2>5 DEF Loading, Threads
    <3> QED BY <1>2, <2>5, <3>1 DEF ViewDue, Loading
  <2> QED BY <1>7, <2>2, <2>3, <2>4, <2>5 DEF ViewDue
<1> QED BY <1>2, <1>5, <1>6, <1>7, SignalView DEF Writing

--------------------------------------------------------------------------------
(* Views while the data changes.                                             *)

\* What a view has heard and is loading stays due while nothing of k changes.
LEMMA StaysDue ==
  ASSUME UNCHANGED <<posted, queue>>, NEW t \in Threads, op[t].step \in {"idle", "written"},
         \A u \in Threads \ {t} : op'[u] = op[u],
         NEW s \in Users, NEW k \in Keys, Exists(row[k])' <=> Exists(row[k])
  PROVE  ViewDue(s, k) => ViewDue(s, k)'
<1>1. \A e : Tells(e, k)' <=> Tells(e, k)
  BY DEF Tells, Counts
<1>2. \A u \in Threads : op[u].step = "committed" => op'[u] = op[u]
  OBVIOUS
<1>3. Loading(s, k) => op'[s] = op[s]
  BY DEF Loading, Threads
<1>4. CASE \E u \in Threads : /\ op[u].step = "committed" /\ k \in op[u].keys
                              /\ op[u].kind = "store" => Exists(row[k])
  BY <1>2, <1>4 DEF ViewDue
<1>5. CASE \/ \E q \in Processes : \E e \in Waiting(posted[q]) : Tells(e, k) /\ ~Own(s, e)
           \/ \E e \in Waiting(queue[s]) : Tells(e, k) /\ ~Own(s, e)
  BY <1>1, <1>5 DEF ViewDue, Own
<1>6. CASE Loading(s, k) /\ Exists(row[k])
  BY <1>3, <1>6 DEF ViewDue, Loading
<1> QED BY <1>4, <1>5, <1>6 DEF ViewDue

LEMMA BeginView ==
  ASSUME FilesInv, ViewInv, NEW t \in Threads, NEW kind \in WriteKinds,
         NEW keys \in SUBSET Keys, NEW new, Begin(t, kind, keys, new),
         \A p \in Processes, k \in Keys : k \notin keys \/ kind = "version" =>
           (<<p, k>> \in overlapped => <<p, k>> \in overlapped')
  PROVE  ViewInv'
<1>1. /\ \A u \in Threads : ~Writing(u)
      /\ UNCHANGED <<row, torn, posted, queue, view, misled>>
      /\ op[t].step = "idle"
      /\ op' = [op EXCEPT ![t] = Op("written", kind, keys, new)]
  BY DEF Begin, CanWrite, dbVars, signalVars, userVars
<1>2. /\ op'[t].step = "written" /\ op'[t].kind = kind /\ op'[t].keys = keys
      /\ \A u \in Threads \ {t} : op'[u] = op[u]
  BY <1>1 DEF FilesInv, TypesInv, Op
<1>3. \A k : ~Changing(k) /\ (kind # "version" /\ k \in keys => Changing(k)')
  BY <1>1, <1>2 DEF Changing, Writing
<1>4. ASSUME NEW s \in Users, NEW k \in Keys PROVE ViewGood(s, k)'
  <2>1. ViewGood(s, k) /\ ProcessOf(s) \in Processes
    BY DEF ViewInv, ProcessOf, Processes
  <2>2. Shows(s, k) => Shows(s, k)'
    BY <1>1, SameShows, SameRowsSameData
  <2>3. ViewDue(s, k) => ViewDue(s, k)'
    BY <1>1, <1>2, StaysDue
  <2>4. CASE kind # "version" /\ k \in keys
    BY <1>3, <2>4 DEF ViewGood
  <2>5. CASE ~(kind # "version" /\ k \in keys)
    BY <1>1, <1>3, <2>1, <2>2, <2>3, <2>5 DEF ViewGood
  <2> QED BY <2>4, <2>5
<1> QED BY <1>4 DEF ViewInv

\* Whoever commits has something to announce about the keys it has changed.
LEMMA CommitView ==
  ASSUME FilesInv, SignalsInv, ViewInv, NEW t \in Threads, Commit(t)
  PROVE  ViewInv'
<1>1. /\ Writing(t) /\ UNCHANGED <<posted, queue, overlapped, view, misled>>
      /\ torn' = IF op[t].kind = "version" THEN torn ELSE torn \ op[t].keys
  BY DEF Commit, signalVars, userVars
<1>2. /\ op[t].kind # "version" =>
           op'[t].step = "committed" /\ op'[t].kind = op[t].kind /\ op'[t].keys = op[t].keys
      /\ \A u \in Threads \ {t} : op'[u] = op[u]
  BY DEF Commit, FilesInv, TypesInv, IsTransaction
<1>3. \A k : Changing(k) => op[t].kind # "version" /\ k \in op[t].keys
  BY <1>1 DEF Changing, FilesInv, OneWriter
<1>4. ASSUME NEW s \in Users, NEW k \in Keys PROVE ViewGood(s, k)'
  <2>1. ViewGood(s, k)
    BY DEF ViewInv
  <2>2. CASE k \notin op[t].keys \/ op[t].kind = "version"
    <3>1. Stored(k)' = Stored(k) /\ (Exists(row[k])' <=> Exists(row[k]))
      BY <2>2, CommitKeeps
    <3>2. Shows(s, k) => Shows(s, k)'
      BY <1>1, <3>1 DEF Shows
    <3>3. ViewDue(s, k) => ViewDue(s, k)'
      BY <1>1, <1>2, <3>1, StaysDue DEF Writing
    <3>4. ~Changing(k) /\ (k \in torn => k \in torn')
      BY <1>1, <1>3, <2>2
    <3> QED BY <1>1, <2>1, <3>2, <3>3, <3>4 DEF ViewGood
  <2>3. CASE k \in op[t].keys /\ op[t].kind # "version"
    <3>1. op[t].kind = "store" => Exists(row[k])'
      BY <2>3, CommitSaves
    <3>2. ViewDue(s, k)'
      BY <1>2, <2>3, <3>1 DEF ViewDue
    <3> QED BY <3>2 DEF ViewGood
  <2> QED BY <2>2, <2>3
<1> QED BY <1>4 DEF ViewInv

LEMMA CommitFailsView ==
  ASSUME FilesInv, SignalsInv, ViewInv, NEW t \in Threads, CommitFails(t)
  PROVE  ViewInv'
<1>1. /\ Writing(t) /\ UNCHANGED <<row, posted, queue, overlapped, view, misled>>
      /\ torn' = IF op[t].kind = "version" THEN torn ELSE torn \cup op[t].keys
      /\ op' = [op EXCEPT ![t] = Idle]
  BY DEF CommitFails, dbVars, signalVars, userVars
<1>2. \A u \in Threads \ {t} : op'[u] = op[u]
  BY <1>1 DEF FilesInv, TypesInv
<1>3. \A k : Changing(k) => k \in torn'
  BY <1>1 DEF Changing, FilesInv, OneWriter
<1>4. ASSUME NEW s \in Users, NEW k \in Keys PROVE ViewGood(s, k)'
  <2>1. ViewGood(s, k) /\ torn \subseteq torn'
    BY <1>1 DEF ViewInv
  <2>2. Shows(s, k) => Shows(s, k)'
    BY <1>1, SameShows, SameRowsSameData
  <2>3. ViewDue(s, k) => ViewDue(s, k)'
    BY <1>1, <1>2, StaysDue DEF Writing
  <2> QED BY <1>1, <1>3, <2>1, <2>2, <2>3 DEF ViewGood
<1> QED BY <1>4 DEF ViewInv

LEMMA CrashView ==
  ASSUME FilesInv, SignalsInv, ViewInv, Crash
  PROVE  ViewInv'
<1>1. /\ row' = row /\ file' = file /\ op' = [t \in Threads |-> Idle]
      /\ view' = [t \in Users |-> [k \in Keys |-> IF Exists(row[k]) THEN file[k] ELSE None]]
  BY DEF Crash
<1>2. \A t \in Threads : ~Writing(t)'
  BY <1>1 DEF Writing, Idle, Op
<1>3. FilesMatch'
  BY CrashStep DEF FilesInv
<1>4. \A k \in Keys : k \in torn' \/ file'[k] = Stored(k)'
  BY <1>2, <1>3 DEF FilesMatch
<1>5. \A t \in Users, k \in Keys : k \in torn' \/ view'[t][k] = Stored(k)'
  BY <1>1, <1>4 DEF Stored
<1> QED BY <1>5 DEF ViewInv, ViewGood, Shows

LEMMA ViewAtFirst == ASSUME Init PROVE ViewInv
<1>1. \A t \in Users, k \in Keys : view[t][k] = Stored(k)
  BY DEF Init, Stored
<1> QED BY <1>1 DEF ViewInv, ViewGood, Shows

\* A transaction begins: what it changes is under way, and a load that has read the
\* file before is noted.
LEMMA BeginCache ==
  ASSUME FilesInv, SignalsInv, CacheInv, NEW t \in Threads, NEW kind \in WriteKinds,
         NEW keys \in SUBSET Keys, NEW new, Begin(t, kind, keys, new),
         \A p \in Processes, k \in Keys : <<p, k>> \in overlapped' =>
           Exists(row[k]) /\ (k \in keys => kind \notin {"delete", "clear", "reset"}),
         \A p \in Processes, k \in Keys : k \notin keys \/ kind = "version" =>
           cache'[p][k] = cache[p][k] /\ (<<p, k>> \in overlapped => <<p, k>> \in overlapped'),
         kind = "store" => \A k \in keys :
           /\ cache'[ProcessOf(t)][k] = new.content
           /\ Overlaps(t, k) => <<ProcessOf(t), k>> \in overlapped'
  PROVE  CacheInv'
<1>1. /\ \A u \in Threads : ~Writing(u)
      /\ UNCHANGED <<row, torn, posted, queue>>
      /\ op[t].step = "idle"
      /\ op' = [op EXCEPT ![t] = Op("written", kind, keys, new)]
  BY DEF Begin, CanWrite, dbVars, signalVars
<1>2. /\ op'[t].step = "written" /\ op'[t].kind = kind /\ op'[t].keys = keys /\ op'[t].new = new
      /\ \A u \in Threads \ {t} : op'[u] = op[u]
  BY <1>1 DEF FilesInv, TypesInv, Op
<1>3. Writing(t)' /\ \A u \in Threads : Writing(u)' => u = t
  BY <1>1, <1>2 DEF Writing
<1>4. \A u \in Threads : op[u].step = "committed" => op'[u] = op[u]
  BY <1>1, <1>2
<1>5. \A k : ~Changing(k) /\ (Changing(k)' <=> kind # "version" /\ k \in keys)
  BY <1>1, <1>2, <1>3 DEF Changing
<1>6. \A k : Stored(k)' = Stored(k)
  BY <1>1 DEF Stored
<1>7. ASSUME NEW p \in Processes, NEW k \in Keys PROVE CacheGood(p, k)'
  <2>1. CacheDue(p, k) => CacheDue(p, k)'
    <3>1. \A e : Tells(e, k)' <=> Tells(e, k)
      BY <1>1 DEF Tells, Counts
    <3> QED BY <1>1, <1>4, <3>1 DEF CacheDue
  <2>2. CacheGood(p, k)
    BY DEF CacheInv
  <2>3. CASE kind # "version" /\ k \in keys
    BY <1>5, <2>3 DEF CacheGood
  <2>4. CASE ~(kind # "version" /\ k \in keys)
    BY <1>1, <1>5, <1>6, <2>1, <2>2, <2>4 DEF CacheGood
  <2> QED BY <2>3, <2>4
<1>8. ASSUME NEW p \in Processes, NEW k \in Keys PROVE OverlapGood(p, k)'
  BY <1>1, <1>2, <1>3 DEF OverlapGood
<1>9. ASSUME NEW u \in Threads PROVE CacheAhead(u)'
  BY <1>2, <1>3 DEF CacheAhead
<1>10. ASSUME NEW u \in Threads PROVE ReadGood(u)'
  <2> SUFFICES ASSUME Reading(u)' PROVE ReadGood(u)'
    BY DEF ReadGood
  <2>1. op'[u] = op[u] /\ Reading(u) /\ u # t
    BY <1>2 DEF Reading
  <2>2. ReadGood(u)
    BY DEF CacheInv
  <2>3. ASSUME NEW k \in DOMAIN op[u].got PROVE GotStored(u, k)' /\ GotSaved(u, k)'
    <3>1. GotStored(u, k)
      BY <2>1, <2>2 DEF ReadGood
    <3>2. GotStored(u, k)'
      BY <1>1, <1>5, <1>6, <2>1, <3>1 DEF GotStored
    <3>3. ProcessOf(u) = ProcessOf(t) => Overlaps(t, k)
      BY <2>1 DEF Overlaps
    <3>4. GotSaved(u, k)'
      BY <1>2, <1>3, <2>1, <3>3 DEF GotSaved
    <3> QED BY <3>2, <3>4
  <2> QED BY <1>1, <2>1, <2>2, <2>3 DEF ReadGood
<1> QED BY <1>7, <1>8, <1>9, <1>10 DEF CacheInv

LEMMA StoreBegins ==
  ASSUME FilesInv, SignalsInv, CacheInv, ViewInv, NEW t \in Threads, NEW k \in Keys, NEW new,
         Begin(t, "store", {k}, new), StoreFile(t, k, new.content)
  PROVE  CacheInv' /\ ViewInv'
<1>1. PICK here : here = ProcessOf(t)
  OBVIOUS
<1>2. here \in Processes
  BY <1>1 DEF ProcessOf, Processes
<1>3. /\ cache' = [cache EXCEPT ![here] = [x \in Keys |-> IF x \in {k} THEN new.content ELSE @[x]]]
      /\ overlapped' = (overlapped \ (Processes \X {k})) \cup
           (IF Overlaps(t, k) THEN {<<here, k>>} ELSE {})
  BY <1>1 DEF StoreFile, PutCached
<1>4. \A p \in Processes, x \in Keys :
        cache'[p][x] = IF p = here /\ x = k THEN new.content ELSE cache[p][x]
  BY <1>2, <1>3 DEF SignalsInv
<1>5. Overlaps(t, k) => Exists(row[k])
  BY DEF Overlaps, CacheInv, ReadGood
<1>6. \A p \in Processes, x \in Keys : <<p, x>> \in overlapped' => Exists(row[x])
  BY <1>3, <1>5 DEF CacheInv, OverlapGood
<1>7. \A p \in Processes, x \in Keys : x # k => (<<p, x>> \in overlapped => <<p, x>> \in overlapped')
  BY <1>3
<1>8. CacheInv'
  BY <1>1, <1>2, <1>3, <1>4, <1>6, <1>7, BeginCache DEF WriteKinds
<1> QED BY <1>7, <1>8, BeginView DEF WriteKinds

LEMMA DeleteBegins ==
  ASSUME FilesInv, SignalsInv, CacheInv, ViewInv, NEW t \in Threads, NEW kind \in {"delete", "clear", "reset"},
         NEW keys \in SUBSET Keys, NEW gone \in SUBSET Keys, NEW new,
         Begin(t, kind, keys, new), DeleteFiles(gone),
         keys \subseteq gone, \A k \in gone \ keys : ~Exists(row[k])
  PROVE  CacheInv' /\ ViewInv'
<1>1. cache' = cache /\ overlapped' = overlapped \ (Processes \X gone)
  BY DEF DeleteFiles
<1>2. \A p \in Processes, k \in Keys : <<p, k>> \in overlapped => Exists(row[k])
  BY DEF CacheInv, OverlapGood
<1>3. \A p \in Processes, k \in Keys : <<p, k>> \in overlapped' => Exists(row[k]) /\ k \notin keys
  BY <1>1, <1>2
<1>4. \A p \in Processes, k \in Keys : k \notin keys => (<<p, k>> \in overlapped => <<p, k>> \in overlapped')
  BY <1>1, <1>2
<1>5. kind \in WriteKinds /\ kind # "version" /\ kind # "store"
  BY DEF WriteKinds
<1> QED BY <1>1, <1>3, <1>4, <1>5, BeginCache, BeginView

LEMMA BeginsAreSeen ==
  ASSUME FilesInv, SignalsInv, CacheInv, ViewInv,
         \/ \E t \in Users, k \in Keys : (\E d \in Data : Save(t, k, d)) \/ RemoveKey(t, k)
         \/ \E t \in Users : Clear(t)
         \/ Reset
         \/ \E k \in Keys, v \in Nat, c \in Payload : Merge(k, v, c)
  PROVE  CacheInv' /\ ViewInv'
<1>0. Users \subseteq Threads /\ Engine \in Threads
  BY DEF Threads
<1>1. ASSUME NEW t \in Users, NEW k \in Keys, NEW d \in Data, Save(t, k, d) PROVE CacheInv' /\ ViewInv'
  <2>1. save(row[k], d).content = d
    BY DEF save, MakeRow
  <2> QED BY <1>0, <1>1, <2>1, StoreBegins DEF Save
<1>2. ASSUME NEW t \in Users, NEW k \in Keys, RemoveKey(t, k) PROVE CacheInv' /\ ViewInv'
  BY <1>0, <1>2, DeleteBegins DEF RemoveKey
<1>3. ASSUME NEW t \in Users, Clear(t) PROVE CacheInv' /\ ViewInv'
  <2>1. StoredKeys \subseteq Keys /\ \A k \in Keys \ StoredKeys : ~Exists(row[k])
    BY DEF StoredKeys
  <2> QED BY <1>0, <1>3, <2>1, DeleteBegins DEF Clear
<1>4. CASE Reset
  BY <1>0, <1>4, DeleteBegins DEF Reset
<1>5. ASSUME NEW k \in Keys, NEW v \in Nat, NEW c \in Payload, Merge(k, v, c) PROVE CacheInv' /\ ViewInv'
  <2> DEFINE new == syncChange(row[k], v, c)
  <2>1. \/ Begin(Engine, "store", {k}, new) /\ StoreFile(Engine, k, new.content)
        \/ Begin(Engine, "delete", {k}, new) /\ DeleteFiles({k})
        \/ Begin(Engine, "version", {k}, new) /\ UNCHANGED <<cache, overlapped>>
    BY <1>5 DEF Merge
  <2> HIDE DEF new
  <2>2. CASE Begin(Engine, "store", {k}, new) /\ StoreFile(Engine, k, new.content)
    BY <1>0, <2>2, StoreBegins
  <2>3. CASE Begin(Engine, "delete", {k}, new) /\ DeleteFiles({k})
    BY <1>0, <2>3, DeleteBegins
  <2>4. CASE Begin(Engine, "version", {k}, new) /\ UNCHANGED <<cache, overlapped>>
    <3>1. \A p \in Processes, x \in Keys : <<p, x>> \in overlapped' => Exists(row[x])
      BY <2>4 DEF CacheInv, OverlapGood
    <3> QED BY <1>0, <2>4, <3>1, BeginCache, BeginView DEF WriteKinds
  <2> QED BY <2>1, <2>2, <2>3, <2>4
<1> QED BY <1>1, <1>2, <1>3, <1>4, <1>5

LEMMA CacheAtFirst == ASSUME Init PROVE CacheInv
<1>1. \A t \in Threads : ~Writing(t) /\ ~Reading(t)
  BY DEF Init, Writing, Reading, Idle, Op
<1>2. \A p \in Processes, k \in Keys : cache[p][k] = Stored(k)
  BY DEF Init, Stored
<1>3. overlapped = {}
  BY DEF Init
<1> QED BY <1>1, <1>2, <1>3 DEF CacheInv, CacheAhead, ReadGood, CacheGood, OverlapGood

LEMMA SeenStep ==
  FilesInv /\ SignalsInv /\ CacheInv /\ ViewInv /\ [Next]_vars => CacheInv' /\ ViewInv'
<1> SUFFICES ASSUME FilesInv, SignalsInv, CacheInv, ViewInv, [Next]_vars
             PROVE  CacheInv' /\ ViewInv'
  OBVIOUS
<1>0. Users \subseteq Threads /\ Engine \in Threads
  BY DEF Threads
<1>1. \A k \in Keys : row[k].version \in Nat
  BY DEF FilesInv, TypesInv, Row
<1>2. \A k \in Keys : \A v \in 1 .. row[k].version + 1 : v \in Nat
  BY <1>1
<1>3. ASSUME NEW k \in Keys, MarkUnchanged(k) PROVE CacheInv' /\ ViewInv'
  BY <1>3, MarkUnchangedCache, MarkUnchangedView
<1>4. CASE UNCHANGED vars
  <2>1. SameData /\ UNCHANGED <<torn, cache, posted, queue, overlapped, op, view, misled>>
    BY <1>4, SameRowsSameData DEF vars
  <2>2. \A s \in Users, k \in Keys : Shows(s, k) => Shows(s, k)'
    BY <2>1, SameShows
  <2> QED BY <1>0, <2>1, <2>2, QuietCache, QuietView DEF Loading
<1>5. CASE \/ \E t \in Users, k \in Keys : (\E d \in Data : Save(t, k, d)) \/ RemoveKey(t, k)
           \/ \E t \in Users : Clear(t)
           \/ Reset
           \/ \E k \in Keys, v \in Nat, c \in Payload : Merge(k, v, c)
  BY <1>5, BeginsAreSeen
<1>6. ASSUME NEW t \in Users,
         \/ LoadAll(t) \/ (\E k \in Keys : Load(t, k)) \/ (\E matching \in Queries : Find(t, matching))
         \/ Reload(t)
      PROVE  CacheInv' /\ ViewInv'
  BY <1>0, <1>6, LoadCache, LoadView, ReloadView
<1>7. ASSUME NEW t \in Users, ReadJson(t) PROVE CacheInv' /\ ViewInv'
  BY <1>0, <1>7, ReadJsonCache, ReadJsonView
<1>8. ASSUME NEW t \in Users, FinishRead(t) PROVE CacheInv' /\ ViewInv'
  BY <1>0, <1>8, FinishReadCache, FinishReadView
<1>9. ASSUME NEW t \in Threads, Commit(t) PROVE CacheInv' /\ ViewInv'
  BY <1>9, CommitCache, CommitView
<1>10. ASSUME NEW t \in Threads, CommitFails(t) PROVE CacheInv' /\ ViewInv'
  BY <1>10, CommitFailsCache, CommitFailsView
<1>11. ASSUME NEW t \in Threads, Announce(t) PROVE CacheInv' /\ ViewInv'
  BY <1>11, AnnounceCache, AnnounceView
<1>12. ASSUME NEW p \in Processes, Dispatch(p) PROVE CacheInv' /\ ViewInv'
  BY <1>12, DispatchCache, DispatchView
<1>13. ASSUME NEW t \in Users, Handle(t) PROVE CacheInv' /\ ViewInv'
  BY <1>13, HandleCache, HandleView
<1>14. CASE Crash
  BY <1>14, CrashCache, CrashView
<1> QED
  BY <1>2, <1>3, <1>4, <1>5, <1>6, <1>7, <1>8, <1>9, <1>10, <1>11, <1>12, <1>13, <1>14 DEF Next

\* When nothing waits, nobody has to hear of anything.
LEMMA NothingDue ==
  ASSUME SignalsInv, Quiescent, NEW k \in Keys
  PROVE  /\ ~Changing(k)
         /\ \A p \in Processes : ~CacheDue(p, k)
         /\ \A t \in Users : ~ViewDue(t, k)
<1>1. \A t \in Threads : op[t].step = "idle"
  BY DEF Quiescent
<1>2. /\ \A p \in Processes : posted[p] = << >> /\ Waiting(posted[p]) = {}
      /\ \A t \in Users : queue[t] = << >> /\ Waiting(queue[t]) = {}
  BY DEF Quiescent, Waiting
<1>3. ~Changing(k) /\ \A p \in Processes : ~CacheDue(p, k)
  BY <1>1, <1>2 DEF Changing, CacheDue, Writing, Users
<1>4. \A t \in Users : ~ViewDue(t, k)
  BY <1>1, <1>2 DEF ViewDue, Loading, Threads
<1> QED BY <1>3, <1>4

SeenInv == FilesInv /\ SignalsInv /\ CacheInv /\ ViewInv

LEMMA SeenInduction == (Init => SeenInv) /\ (SeenInv /\ [Next]_vars => SeenInv')
<1>1. Init => SeenInv
  BY FilesInit, SignalsAtFirst, CacheAtFirst, ViewAtFirst DEF SeenInv
<1>2. SeenInv /\ [Next]_vars => SeenInv'
  BY FilesStep, SignalsStep, SeenStep DEF SeenInv
<1> QED BY <1>1, <1>2

\* However saves, loads, deletions and signals of any number of threads and
\* processes interleave: when everything is delivered, a cache holds what the index
\* says or nothing, except for keys whose files a failure has torn and for loads
\* that were reading while their own process replaced the file.
THEOREM CachesAreCurrent == Spec => []CacheIsCurrent
<1>1. SeenInv => CacheIsCurrent
  BY NothingDue DEF SeenInv, CacheInv, CacheGood, CacheIsCurrent
<1> QED BY <1>1, SeenInduction, PTL DEF Spec

\* So do the views: when everything is delivered, a view shows the data of the
\* index, except for the same keys and for those whose deletion was delivered to it
\* after the change that followed it, which it lacks.
THEOREM ViewsStayCurrent == Spec => []ViewsAreCurrent
<1>1. SeenInv => ViewsAreCurrent
  BY NothingDue DEF SeenInv, ViewInv, ViewGood, Shows, ViewsAreCurrent
<1> QED BY <1>1, SeenInduction, PTL DEF Spec

--------------------------------------------------------------------------------
(* Sets of numbers and sequences of sets.                                    *)

\* The greatest of some numbers up to n.
LEMMA GreatestOne ==
  ASSUME NEW n \in Nat, NEW S \in SUBSET (1 .. n), S # {}
  PROVE  Max(S) \in S /\ \A i \in S : i <= Max(S)
<1> DEFINE R == {p \in Nat \X Nat : p[1] < p[2]}
           D == {n - i : i \in S}
<1>1. IsWellFoundedOn(R, Nat)
  BY NatLessThanWellFounded DEF OpToRel
<1>2. D \in SUBSET Nat /\ D # {}
  <2>1. \A i \in S : i \in 1 .. n /\ n - i \in Nat
    OBVIOUS
  <2> QED BY <2>1
<1>3. PICK d \in D : \A e \in D : <<e, d>> \notin R
  BY <1>1, <1>2, WFMin
<1>4. \A e \in D : e \in Nat /\ d \in Nat /\ (<<e, d>> \in R <=> e < d)
  BY <1>2
<1>5. \A e \in D : ~(e < d)
  BY <1>3, <1>4
<1>6. PICK m \in S : d = n - m
  OBVIOUS
<1>7. ASSUME NEW i \in S PROVE i <= m
  <2>1. n - i \in D
    OBVIOUS
  <2>2. ~(n - i < n - m)
    BY <1>5, <1>6, <2>1
  <2> QED BY <2>2
<1> HIDE DEF R, D
<1>8. \A i \in S : i \in Int /\ m \in Int /\ m >= i
  BY <1>7
<1>9. \E x \in S : \A y \in S : x >= y
  BY <1>8
<1>10. Max(S) \in S /\ \A y \in S : Max(S) >= y
  BY <1>9 DEF Max
<1> QED BY <1>10

\* SetToSeq lists every element.
LEMMA SetToSeqLists ==
  ASSUME NEW S, IsFiniteSet(S)
  PROVE  LET n == Cardinality(S)
             f == Seqs!SetToSeq(S)
         IN  n \in Nat /\ f \in [1 .. n -> S] /\ \A x \in S : \E i \in 1 .. n : f[i] = x
<1> DEFINE n == Cardinality(S)
           f == Seqs!SetToSeq(S)
<1>1. n \in Nat /\ ExistsBijection(1 .. n, S)
  BY FS_CardinalityType
<1>2. PICK g : g \in Bijection(1 .. n, S)
  BY <1>1 DEF ExistsBijection
<1>3. g \in [1 .. n -> S] /\ Seqs!IsInjective(g)
  BY <1>2 DEF Bijection, Injection, IsInjective, Seqs!IsInjective
<1>4. f \in [1 .. n -> S] /\ Seqs!IsInjective(f)
  <2>1. Seqs!Cardinality(S) = n
    BY DEF Seqs!Cardinality, Cardinality
  <2> QED BY <1>3, <2>1 DEF Seqs!SetToSeq
<1> HIDE DEF f
<1>5. f \in Injection(1 .. n, S)
  BY <1>4 DEF Injection, IsInjective, Seqs!IsInjective
<1>6. Cardinality(1 .. n) = n
  BY <1>1, FS_Interval
<1>7. f \in Surjection(1 .. n, S)
  BY <1>5, <1>6, FS_Injection
<1> QED BY <1>1, <1>4, <1>7 DEF Surjection, f

--------------------------------------------------------------------------------
(* The log and its cursors.                                                  *)

\* A row has a version exactly if there is a row.
HasVersion(r) == ~NoExists(r) => r.version > 0

\* What a transaction writes: a save or a removal leaves a row, and only where deleted
\* rows are kept a merge that announces nothing writes one where there was none.
LogsWell(o) ==
  /\ HasVersion(o.new)
  /\ o.kind \in {"store", "delete"} => ~NoExists(o.new)
  /\ o.kind = "version" => \A k \in o.keys : PersistDeleted \/ ~NoExists(row[k])

\* A row that was purged has no current entry.
Purged(k) == NoExists(row[k]) /\ ~PersistDeleted

\* At or after every entry of a key there is one of its current version.
LastIsCurrent ==
  \A i \in 1 .. Len(log) :
    \/ Purged(log[i].key)
    \/ \E j \in i .. Len(log) :
         log[j].key = log[i].key /\ log[j].version = row[log[i].key].version

GoodEntry == {e \in Entry : e.told => e.version > 0}

\* A signal is on its way to the thread.
LogDue(t) ==
  \/ \E u \in Threads : op[u].step = "committed"
  \/ \E q \in Processes : posted[q] # << >>
  \/ queue[t] # << >>

\* From its position, a cursor has come past every entry that was announced.
PassedFrom(position) ==
  \A i \in 1 .. Len(log) : log[i].told => position >= trimmed + i \/ Purged(log[i].key)

LogInv ==
  /\ log \in Seq(GoodEntry) /\ trimmed \in Nat
  /\ DOMAIN cursor = Users /\ \A t \in Users : cursor[t] \in Nat
  /\ \A k \in Keys : HasVersion(row[k])
  /\ \A t \in Threads : Writing(t) => LogsWell(op[t])
  /\ LastIsCurrent
  /\ \A t \in Users : LogDue(t) \/ PassedFrom(cursor[t])

\* Steps that leave rows, log and cursors alone.
LEMMA QuietLog ==
  ASSUME LogInv, UNCHANGED <<row, log, trimmed, cursor>>,
         \A t \in Threads : Writing(t)' => op'[t] = op[t] \/ LogsWell(op[t])',
         \A t \in Users : LogDue(t) => LogDue(t)'
  PROVE  LogInv'
<1>1. \A t \in Threads : Writing(t)' => LogsWell(op[t])'
  BY DEF LogInv, Writing, LogsWell
<1>2. LastIsCurrent'
  BY DEF LogInv, LastIsCurrent, Purged
<1>3. \A t \in Users : PassedFrom(cursor[t]) => PassedFrom(cursor[t])'
  BY DEF PassedFrom, Purged
<1>4. \A k \in Keys : HasVersion(row[k])'
  BY DEF LogInv
<1> QED BY <1>1, <1>2, <1>3, <1>4 DEF LogInv

\* Signals wait as long as nobody takes them.
LEMMA StaysLogDue ==
  ASSUME UNCHANGED <<posted, queue>>,
         \A u \in Threads : op[u].step = "committed" => op'[u] = op[u],
         NEW t \in Users
  PROVE  LogDue(t) => LogDue(t)'
BY DEF LogDue

\* A cursor that reads comes past everything that was announced.
LEMMA ScannedPasses ==
  ASSUME FilesInv, LogInv, NEW t \in Users, NEW from \in Nat
  PROVE  Scanned(t, from) \in Nat /\ PassedFrom(Scanned(t, from))
<1> DEFINE found == {i \in 1 .. Len(log) :
             /\ trimmed + i > from
             /\ t \in SkipObsolete => log[i].version = row[log[i].key].version}
           to == Scanned(t, from)
<1>1. to = IF found = {} THEN from ELSE trimmed + Max(found)
  BY DEF Scanned
<1>2. Len(log) \in Nat /\ trimmed \in Nat /\ found \in SUBSET (1 .. Len(log))
  BY LenProperties DEF LogInv
<1>3. ASSUME NEW i \in 1 .. Len(log), ~Purged(log[i].key), trimmed + i > from
      PROVE  \E j \in found : j >= i
  <2>1. PICK j \in i .. Len(log) :
          log[j].key = log[i].key /\ log[j].version = row[log[i].key].version
    BY <1>3 DEF LogInv, LastIsCurrent
  <2>2. j \in 1 .. Len(log) /\ trimmed + j > from /\ j >= i
    BY <1>2, <1>3, <2>1
  <2>3. j \in found
    BY <2>1, <2>2
  <2> QED BY <2>2, <2>3
<1>4. CASE found = {}
  <2>1. to = from
    BY <1>1, <1>4
  <2>2. \A i \in 1 .. Len(log) : Purged(log[i].key) \/ ~(trimmed + i > from)
    BY <1>3, <1>4
  <2> HIDE DEF found, to
  <2>3. \A i \in 1 .. Len(log) : Purged(log[i].key) \/ to >= trimmed + i
    BY <1>2, <2>1, <2>2
  <2> QED BY <2>1, <2>3 DEF PassedFrom, to
<1>5. CASE found # {}
  <2>1. PICK m : m = Max(found)
    OBVIOUS
  <2>2. m \in found /\ \A i \in found : i <= m
    BY <1>2, <1>5, <2>1, GreatestOne
  <2>3. to = trimmed + m /\ m \in 1 .. Len(log) /\ trimmed + m > from
    BY <1>1, <1>5, <2>1, <2>2
  <2> HIDE DEF to
  <2>4. ASSUME NEW i \in 1 .. Len(log), ~Purged(log[i].key) PROVE to >= trimmed + i
    <3>1. CASE trimmed + i > from
      <4>1. PICK j \in found : j >= i
        BY <1>3, <2>4, <3>1
      <4>2. j <= m /\ j \in 1 .. Len(log)
        BY <2>2, <4>1
      <4> HIDE DEF found
      <4> QED BY <1>2, <2>3, <4>1, <4>2
    <3>2. CASE ~(trimmed + i > from)
      BY <1>2, <2>3, <3>2
    <3> QED BY <3>1, <3>2
  <2>5. to \in Nat
    BY <1>2, <2>3
  <2> QED BY <2>4, <2>5 DEF PassedFrom, to
<1> QED BY <1>4, <1>5

LEMMA HandleLog ==
  ASSUME FilesInv, SignalsInv, LogInv, NEW t \in Users, Handle(t)
  PROVE  LogInv'
<1>1. /\ UNCHANGED <<row, log, trimmed, posted>> /\ op[t].step = "idle" /\ t \in Threads
      /\ cursor' = [cursor EXCEPT ![t] = Scanned(t, @)]
      /\ \A s \in Users \ {t} : queue'[s] = queue[s]
  BY DEF Handle, Threads, SignalsInv
<1>2. /\ \A u \in Threads \ {t} : op'[u] = op[u]
      /\ op'[t].step \in {"idle", "reload"}
  BY <1>1 DEF Handle, FilesInv, TypesInv, ReloadOp, Op
<1>3. /\ \A s \in Users \ {t} : cursor'[s] = cursor[s]
      /\ cursor'[t] = Scanned(t, cursor[t]) /\ DOMAIN cursor' = Users
      /\ cursor[t] \in Nat
  BY <1>1 DEF LogInv
<1>4. cursor'[t] \in Nat /\ PassedFrom(cursor'[t])
  BY <1>3, ScannedPasses
<1>6. ASSUME NEW s \in Users PROVE LogDue(s)' \/ PassedFrom(cursor[s])'
  <2>1. CASE s = t
    BY <1>1, <1>4, <2>1 DEF PassedFrom, Purged
  <2>2. CASE s # t /\ LogDue(s)
    BY <1>1, <1>2, <2>2 DEF LogDue
  <2>3. CASE s # t /\ PassedFrom(cursor[s])
    BY <1>1, <1>3, <2>3 DEF PassedFrom, Purged
  <2> QED BY <2>1, <2>2, <2>3 DEF LogInv
<1>7. \A u \in Threads : Writing(u)' => LogsWell(op[u])'
  BY <1>1, <1>2 DEF LogInv, Writing, LogsWell
<1>8. LastIsCurrent'
  BY <1>1 DEF LogInv, LastIsCurrent, Purged
<1> QED BY <1>1, <1>3, <1>4, <1>6, <1>7, <1>8 DEF LogInv

LEMMA CrashLog ==
  ASSUME FilesInv, SignalsInv, LogInv, Crash
  PROVE  LogInv'
<1>1. /\ UNCHANGED <<row, log, trimmed>> /\ op' = [t \in Threads |-> Idle]
      /\ cursor' = [t \in Users |-> Scanned(t, IF cursor[t] > trimmed THEN cursor[t] ELSE 0)]
  BY DEF Crash
<1>2. \A t \in Users : (IF cursor[t] > trimmed THEN cursor[t] ELSE 0) \in Nat
  BY DEF LogInv
<1>3. \A t \in Users : cursor'[t] \in Nat /\ PassedFrom(cursor'[t])
  BY <1>1, <1>2, ScannedPasses
<1>4. \A t \in Users : PassedFrom(cursor[t])'
  BY <1>1, <1>3 DEF PassedFrom, Purged
<1>5. \A u \in Threads : ~Writing(u)'
  BY <1>1 DEF Writing, Idle, Op
<1>6. LastIsCurrent'
  BY <1>1 DEF LogInv, LastIsCurrent, Purged
<1> QED BY <1>1, <1>3, <1>4, <1>5, <1>6 DEF LogInv

LEMMA MarkUnchangedLog ==
  ASSUME FilesInv, SignalsInv, LogInv, NEW k \in Keys, MarkUnchanged(k)
  PROVE  LogInv'
<1> DEFINE new == markUnchanged(row[k], row[k].version, TRUE)
<1>1. /\ UNCHANGED <<log, trimmed, op, posted, queue, cursor>>
      /\ row' = [row EXCEPT ![k] = new] /\ ExistsDeleted(row[k])
      /\ \A t \in Threads : ~Writing(t)
  BY DEF MarkUnchanged, CanWrite
<1>2. GoodRow(row[k])
  BY DEF FilesInv, TypesInv
<1>3. \/ new = NoRow /\ ~PersistDeleted
      \/ new.version = row[k].version /\ ~NoExists(row[k])
  BY <1>1, <1>2, DataAssumption
  DEF markUnchanged, GoodRow, Row, ExistsDeleted, NoExists
<1>4. row'[k] = new /\ \A x \in Keys \ {k} : row'[x] = row[x]
  BY <1>1 DEF FilesInv, TypesInv
<1> HIDE DEF new
<1>5. NoExists(NoRow)
  BY DEF NoExists, NoRow
<1>6. \A x \in Keys : Purged(x)' \/ (row'[x].version = row[x].version /\ ~Purged(x)) \/ (Purged(x) /\ x # k)
  BY <1>3, <1>4, <1>5 DEF Purged
<1>7. \A x \in Keys : Purged(x) => Purged(x)'
  BY <1>3, <1>4, <1>5 DEF Purged
<1>8. \A x \in Keys : HasVersion(row[x])'
  BY <1>3, <1>4, <1>5 DEF LogInv, HasVersion
<1>9. \A i \in 1 .. Len(log) : log[i].key \in Keys
  BY ElementOfSeq DEF LogInv, GoodEntry, Entry
<1>10. LastIsCurrent'
  BY <1>1, <1>6, <1>7, <1>9 DEF LogInv, LastIsCurrent
<1>11. \A t \in Users : LogDue(t)' \/ PassedFrom(cursor[t])'
  BY <1>1, <1>7, <1>9 DEF LogInv, LogDue, PassedFrom
<1> QED BY <1>1, <1>8, <1>10, <1>11 DEF LogInv, Writing

\* What a commit makes of a row: a change that is announced leaves a version.
LEMMA NewVersions ==
  ASSUME FilesInv, LogInv, NEW t \in Threads, Writing(t), NEW k \in Keys
  PROVE  LET n == NewRow(op[t], k) IN
         /\ GoodRow(n) /\ n.version \in Nat /\ HasVersion(n)
         /\ op[t].kind \notin {"reset", "version"} /\ n.version # row[k].version => n.version > 0
         /\ k \notin op[t].keys => n = row[k]
<1> DEFINE n == NewRow(op[t], k)
<1>1. GoodRow(n) /\ n.version \in Nat
  <2>1. GoodRow(n)
    BY NewRows
  <2> QED BY <2>1 DEF GoodRow, Row
<1>2. GoodRow(row[k]) /\ HasVersion(row[k]) /\ LogsWell(op[t]) /\ op[t].kind \in WriteKinds
  BY DEF FilesInv, TypesInv, FilesAhead, LogInv
<1>3. CASE k \notin op[t].keys
  BY <1>1, <1>2, <1>3 DEF NewRow
<1>4. CASE k \in op[t].keys /\ op[t].kind = "reset"
  <2>1. n = NoRow
    BY <1>4 DEF NewRow
  <2> QED BY <1>1, <1>4, <2>1 DEF HasVersion, NoRow, NoExists
<1>5. CASE k \in op[t].keys /\ op[t].kind = "clear"
  <2>1. n = remove(row[k])
    BY <1>5 DEF NewRow
  <2> HIDE DEF n
  <2>2. row[k].version \in Nat
    BY <1>2 DEF GoodRow, Row
  <2>3. CASE Exists(row[k])
    <3>1. n.version = row[k].version + 1
      BY <2>1, <2>3 DEF remove, MakeRow
    <3>2. n.version > 0
      BY <2>2, <3>1
    <3> QED BY <1>1, <1>5, <3>2 DEF HasVersion, n
  <2>4. CASE ~Exists(row[k])
    <3>1. n = row[k]
      BY <2>1, <2>4 DEF remove
    <3> QED BY <1>1, <1>2, <1>5, <3>1 DEF n
  <2> QED BY <2>3, <2>4
<1>6. CASE k \in op[t].keys /\ op[t].kind \notin {"reset", "clear"}
  <2>1. n = op[t].new
    BY <1>6 DEF NewRow
  <2>2. op[t].kind = "version" \/ ~NoExists(op[t].new)
    BY <1>2, <1>6 DEF LogsWell, WriteKinds
  <2> HIDE DEF n
  <2> QED BY <1>1, <1>2, <1>6, <2>1, <2>2 DEF LogsWell, HasVersion, n
<1> QED BY <1>3, <1>4, <1>5, <1>6

\* The trigger inserts an entry for each row whose version changes.
LEMMA LoggedEntries ==
  ASSUME FilesInv, SignalsInv, LogInv, NEW t \in Threads, Writing(t), op[t].kind # "reset"
  PROVE  LET L == Logged(op[t]) IN
         /\ L \in Seq(GoodEntry)
         /\ \A i \in 1 .. Len(L) :
              /\ L[i].version = NewRow(op[t], L[i].key).version
              /\ L[i].told => op[t].kind # "version"
         /\ \A k \in op[t].keys : NewRow(op[t], k).version # row[k].version =>
              \E i \in 1 .. Len(L) : L[i].key = k
<1> DEFINE changed == {k \in op[t].keys : NewRow(op[t], k).version # row[k].version}
<1>1. PICK C : C = changed
  OBVIOUS
<1>2. op[t].keys \subseteq Keys
  BY DEF SignalsInv, GoodKeys
<1>3. IsFiniteSet(C) /\ C \subseteq Keys
  BY <1>1, <1>2, ThreadsAssumption, FS_Subset
<1>4. PICK n, f : n = Cardinality(C) /\ f = Seqs!SetToSeq(C)
  OBVIOUS
<1>5. n \in Nat /\ f \in [1 .. n -> C] /\ \A x \in C : \E i \in 1 .. n : f[i] = x
  BY <1>3, <1>4, SetToSeqLists
<1> DEFINE E(i) == [key |-> f[i], version |-> NewRow(op[t], f[i]).version,
                    removed |-> ~Exists(NewRow(op[t], f[i])), told |-> op[t].kind # "version"]
<1>6. Logged(op[t]) = [i \in 1 .. n |-> E(i)]
  BY <1>1, <1>4 DEF Logged
<1>7. ASSUME NEW i \in 1 .. n PROVE E(i) \in GoodEntry
  <2>1. f[i] \in C /\ f[i] \in Keys
    BY <1>3, <1>5
  <2>2. PICK k \in Keys : k = f[i] /\ k \in C
    BY <2>1
  <2>3. PICK r : r = NewRow(op[t], k)
    OBVIOUS
  <2>4. r.version \in Nat /\ (op[t].kind # "version" => r.version > 0)
    <3>1. r.version # row[k].version
      BY <1>1, <2>2, <2>3
    <3> QED BY <2>3, <3>1, NewVersions
  <2>5. PICK removed \in BOOLEAN : removed = ~Exists(r)
    BY Zenon DEF Exists
  <2>6. PICK told \in BOOLEAN : told = (op[t].kind # "version")
    BY Zenon
  <2>7. E(i) = [key |-> k, version |-> r.version, removed |-> removed, told |-> told]
    BY <2>2, <2>3, <2>5, <2>6
  <2>8. told => r.version > 0
    BY <2>4, <2>6
  <2> HIDE DEF E
  <2> QED BY <2>4, <2>7, <2>8 DEF GoodEntry, Entry
<1>8. PICK L : L = [i \in 1 .. n |-> E(i)]
  OBVIOUS
<1>9. \A i \in 1 .. n : L[i] = E(i)
  BY <1>8
<1> HIDE DEF E
<1>10. L \in Seq(GoodEntry)
  BY <1>5, <1>7, <1>8, IsASeq
<1>11. Len(L) = n /\ L = Logged(op[t])
  <2>1. L = Logged(op[t]) /\ DOMAIN L = 1 .. n
    BY <1>6, <1>8
  <2> QED BY <1>5, <1>10, <2>1, LenProperties
<1>12. \A i \in 1 .. n : /\ L[i].key = f[i] /\ L[i].version = NewRow(op[t], f[i]).version
                         /\ L[i].told => op[t].kind # "version"
  <2> SUFFICES ASSUME NEW i \in 1 .. n
               PROVE  /\ L[i].key = f[i] /\ L[i].version = NewRow(op[t], f[i]).version
                      /\ L[i].told => op[t].kind # "version"
    OBVIOUS
  <2>1. PICK v, removed, told :
          /\ v = NewRow(op[t], f[i]).version
          /\ removed = ~Exists(NewRow(op[t], f[i]))
          /\ told = (op[t].kind # "version")
    OBVIOUS
  <2>2. L[i] = [key |-> f[i], version |-> v, removed |-> removed, told |-> told]
    BY <1>9, <2>1 DEF E
  <2>3. told => op[t].kind # "version"
    BY <2>1
  <2> QED BY <2>1, <2>2, <2>3
<1>13. \A k \in op[t].keys : NewRow(op[t], k).version # row[k].version => k \in C
  BY <1>1
<1> HIDE DEF changed
<1>14. \A k \in op[t].keys : NewRow(op[t], k).version # row[k].version =>
         \E i \in 1 .. Len(L) : L[i].key = k
  <2> SUFFICES ASSUME NEW k \in op[t].keys, NewRow(op[t], k).version # row[k].version
               PROVE  \E i \in 1 .. Len(L) : L[i].key = k
    OBVIOUS
  <2>1. PICK i \in 1 .. n : f[i] = k
    BY <1>5, <1>13
  <2>2. L[i].key = k /\ i \in 1 .. Len(L)
    BY <1>11, <1>12, <2>1
  <2> QED
    BY <2>2
<1>15. \A i \in 1 .. Len(L) : /\ L[i].version = NewRow(op[t], L[i].key).version
                              /\ L[i].told => op[t].kind # "version"
  BY <1>11, <1>12
<1> QED BY <1>10, <1>11, <1>14, <1>15

LEMMA CommitLog ==
  ASSUME FilesInv, SignalsInv, LogInv, NEW t \in Threads, Commit(t)
  PROVE  LogInv'
<1>1. /\ Writing(t) /\ UNCHANGED <<posted, queue, cursor>>
      /\ \A k \in Keys : row'[k] = NewRow(op[t], k)
  BY DEF Commit, signalVars, userVars
<1>2. /\ op[t].kind # "version" => op'[t].step = "committed"
      /\ op'[t].step # "written"
      /\ \A u \in Threads \ {t} : op'[u] = op[u]
  BY DEF Commit, FilesInv, TypesInv, IsTransaction, Idle, Op
<1>3. \A u \in Threads : ~Writing(u)'
  BY <1>1, <1>2 DEF FilesInv, OneWriter, Writing
<1>4. \A k \in Keys : HasVersion(row[k])'
  BY <1>1, NewVersions
<1>5. op[t].kind # "version" => \A s \in Users : LogDue(s)'
  BY <1>2 DEF LogDue
<1>6. CASE op[t].kind = "reset"
  <2>1. log' = << >> /\ trimmed' = trimmed + Len(log)
    BY <1>6 DEF Commit, WriteLog
  <2>2. log' \in Seq(GoodEntry) /\ Len(log') = 0 /\ trimmed' \in Nat
    BY <2>1, EmptySeq, LenProperties DEF LogInv
  <2>3. LastIsCurrent'
    BY <2>2 DEF LastIsCurrent
  <2> QED BY <1>1, <1>3, <1>4, <1>5, <1>6, <2>2, <2>3 DEF LogInv
<1>7. CASE op[t].kind # "reset"
  <2>1. PICK L : L = Logged(op[t])
    OBVIOUS
  <2>2. log' = log \o L /\ trimmed' = trimmed
    BY <1>7, <2>1 DEF Commit, WriteLog
  <2>3. /\ L \in Seq(GoodEntry)
        /\ \A i \in 1 .. Len(L) : /\ L[i].version = NewRow(op[t], L[i].key).version
                                  /\ L[i].told => op[t].kind # "version"
        /\ \A k \in op[t].keys : NewRow(op[t], k).version # row[k].version =>
              \E i \in 1 .. Len(L) : L[i].key = k
    BY <1>1, <1>7, <2>1, LoggedEntries
  <2>4. PICK m, n : m = Len(log) /\ n = Len(L)
    OBVIOUS
  <2>5. m \in Nat /\ n \in Nat /\ log \in Seq(GoodEntry)
    BY <2>3, <2>4, LenProperties DEF LogInv
  <2>6. log' \in Seq(GoodEntry) /\ Len(log') = m + n
        /\ \A i \in 1 .. m + n : log'[i] = IF i <= m THEN log[i] ELSE L[i - m]
    BY <2>2, <2>3, <2>4, <2>5, ConcatProperties
  <2>7. /\ \A i \in 1 .. m : i \in 1 .. m + n /\ log'[i] = log[i] /\ log[i].key \in Keys
        /\ \A i \in 1 .. n : m + i \in 1 .. m + n /\ log'[m + i] = L[i]
    <3>1. \A i \in 1 .. m : i \in 1 .. m + n /\ i <= m
      BY <2>5
    <3>2. \A i \in 1 .. n : m + i \in 1 .. m + n /\ ~(m + i <= m) /\ (m + i) - m = i
      BY <2>5
    <3>3. \A i \in 1 .. m : log[i].key \in Keys
      BY <2>4, <2>5, ElementOfSeq DEF GoodEntry, Entry
    <3> QED BY <2>6, <3>1, <3>2, <3>3
  <2>8. \A i \in 1 .. m + n : i \in 1 .. m \/ \E j \in 1 .. n : i = m + j
    <3> SUFFICES ASSUME NEW i \in 1 .. m + n, i \notin 1 .. m PROVE \E j \in 1 .. n : i = m + j
      OBVIOUS
    <3>1. i - m \in 1 .. n /\ i = m + (i - m)
      BY <2>5
    <3> QED BY <3>1
  <2>9. \A i \in 1 .. n : L[i].key \in Keys /\ L[i].version = row'[L[i].key].version
    BY <1>1, <2>3, <2>4, ElementOfSeq DEF GoodEntry, Entry
  <2>10. ASSUME NEW k \in Keys
         PROVE  \/ \E j \in 1 .. n : L[j].key = k
                \/ row'[k].version = row[k].version
    <3>1. CASE k \in op[t].keys
      BY <1>1, <2>3, <2>4, <3>1
    <3>2. CASE k \notin op[t].keys
      BY <1>1, <3>2, NewVersions
    <3> QED BY <3>1, <3>2
  <2>11. LastIsCurrent'
    <3>1. ASSUME NEW j \in 1 .. n, NEW i \in 1 .. m + n, i <= m + j, log'[i].key = L[j].key
          PROVE  \E x \in i .. m + n : log'[x].key = log'[i].key
                                       /\ log'[x].version = row'[log'[i].key].version
      <4>1. m + j \in i .. m + n
        BY <2>5, <3>1
      <4> QED BY <2>7, <2>9, <3>1, <4>1
    <3>2. ASSUME NEW i \in 1 .. m
          PROVE  \/ (NoExists(row'[log'[i].key]) /\ ~PersistDeleted)
                 \/ \E x \in i .. m + n : log'[x].key = log'[i].key
                                          /\ log'[x].version = row'[log'[i].key].version
      <4>1. PICK k \in Keys : k = log[i].key /\ log'[i].key = k
        BY <2>7
      <4>2. CASE \E j \in 1 .. n : L[j].key = k
        <5>1. PICK j \in 1 .. n : L[j].key = k
          BY <4>2
        <5>2. i <= m + j /\ i \in 1 .. m + n
          BY <2>5
        <5> QED BY <3>1, <4>1, <5>1, <5>2
      <4>3. CASE row'[k].version = row[k].version /\ Purged(k)
        <5>1. row[k].version = 0
          BY <4>3 DEF Purged, FilesInv, TypesInv, GoodRow, WellFormed
        <5>2. NoExists(row'[k])
          BY <1>4, <4>3, <5>1 DEF HasVersion
        <5> QED BY <4>1, <4>3, <5>2 DEF Purged
      <4>4. CASE row'[k].version = row[k].version /\ ~Purged(k)
        <5>1. PICK j \in i .. m : log[j].key = k /\ log[j].version = row[k].version
          BY <2>4, <4>1, <4>4 DEF LogInv, LastIsCurrent
        <5>2. j \in 1 .. m /\ j \in i .. m + n
          BY <2>5
        <5>3. log'[j].key = k /\ log'[j].version = row'[k].version
          BY <2>7, <4>4, <5>1, <5>2
        <5> QED BY <4>1, <5>2, <5>3
      <4> QED BY <2>10, <4>2, <4>3, <4>4
    <3>3. ASSUME NEW j \in 1 .. n
          PROVE  \E x \in m + j .. m + n : log'[x].key = log'[m + j].key
                                           /\ log'[x].version = row'[log'[m + j].key].version
      <4>1. m + j \in m + j .. m + n
        BY <2>5
      <4> QED BY <2>7, <2>9, <4>1
    <3>4. ASSUME NEW i \in 1 .. m + n
          PROVE  \/ NoExists(row'[log'[i].key]) /\ ~PersistDeleted
                 \/ \E x \in i .. m + n : log'[x].key = log'[i].key
                                          /\ log'[x].version = row'[log'[i].key].version
      BY <2>8, <3>2, <3>3
    <3> QED BY <2>6, <3>4 DEF LastIsCurrent, Purged
  <2>12. CASE op[t].kind # "version"
    BY <1>1, <1>3, <1>4, <1>5, <2>2, <2>6, <2>11, <2>12 DEF LogInv
  <2>13. CASE op[t].kind = "version"
    <3>1. \A k \in Keys : Purged(k) => Purged(k)'
      <4>1. LogsWell(op[t])
        BY <1>1 DEF LogInv
      <4>2. \A k \in Keys : k \in op[t].keys => ~Purged(k)
        BY <2>13, <4>1 DEF LogsWell, Purged
      <4>3. \A k \in Keys : k \notin op[t].keys => row'[k] = row[k]
        BY <1>1, NewVersions
      <4> QED BY <4>2, <4>3 DEF Purged
    <3>2. ASSUME NEW s \in Users, PassedFrom(cursor[s]) PROVE PassedFrom(cursor[s])'
      <4>1. ASSUME NEW i \in 1 .. m, log'[i].told
            PROVE  cursor[s] >= trimmed + i \/ (NoExists(row'[log'[i].key]) /\ ~PersistDeleted)
        <5>1. log'[i] = log[i] /\ log[i].key \in Keys /\ i \in 1 .. Len(log)
          BY <2>4, <2>7
        <5>2. cursor[s] >= trimmed + i \/ Purged(log[i].key)
          BY <3>2, <4>1, <5>1 DEF PassedFrom
        <5> QED BY <3>1, <5>1, <5>2 DEF Purged
      <4>2. \A j \in 1 .. n : ~log'[m + j].told
        BY <2>3, <2>4, <2>7, <2>13
      <4>3. ASSUME NEW i \in 1 .. m + n, log'[i].told
            PROVE  cursor[s] >= trimmed + i \/ (NoExists(row'[log'[i].key]) /\ ~PersistDeleted)
        BY <2>8, <4>1, <4>2, <4>3
      <4> QED BY <1>1, <2>2, <2>6, <4>3 DEF PassedFrom, Purged
    <3>3. \A s \in Users : LogDue(s) => LogDue(s)'
      BY <1>1, <1>2, StaysLogDue DEF Writing
    <3> QED BY <1>1, <1>3, <1>4, <2>2, <2>6, <2>11, <3>2, <3>3 DEF LogInv
  <2> QED BY <2>12, <2>13
<1> QED BY <1>6, <1>7

\* Steps of a thread that does not announce anything and does not begin to write.
LEMMA ThreadLog ==
  ASSUME LogInv, UNCHANGED <<row, log, trimmed, cursor, posted, queue>>, NEW t \in Threads,
         op[t].step # "committed", \A u \in Threads \ {t} : op'[u] = op[u],
         op'[t].step # "written" \/ LogsWell(op[t])'
  PROVE  LogInv'
<1>1. \A u \in Threads : Writing(u)' => op'[u] = op[u] \/ LogsWell(op[u])'
  BY DEF Writing
<1>2. \A s \in Users : LogDue(s) => LogDue(s)'
  BY StaysLogDue
<1> QED BY <1>1, <1>2, QuietLog

LEMMA ReadLog ==
  ASSUME FilesInv, LogInv, NEW t \in Users,
         \/ LoadAll(t) \/ (\E k \in Keys : Load(t, k)) \/ (\E matching \in Queries : Find(t, matching))
         \/ Reload(t) \/ ReadJson(t) \/ FinishRead(t)
  PROVE  LogInv'
<1>1. /\ UNCHANGED <<row, log, trimmed, cursor, posted, queue>> /\ t \in Threads
      /\ op[t].step \in {"idle", "reload", "reading"}
  BY DEF LoadAll, Load, Find, Reload, ReadJson, FinishRead, Reading, dbVars, signalVars, userVars,
         Threads
<1>2. PICK o : op' = [op EXCEPT ![t] = o]
  BY DEF LoadAll, Load, Find, Reload, ReadJson, FinishRead, StartRead
<1>3. op'[t] = o /\ \A u \in Threads \ {t} : op'[u] = op[u]
  BY <1>1, <1>2 DEF FilesInv, TypesInv
<1>4. op'[t].step # "written"
  <2>1. ASSUME NEW kind, NEW keys, StartRead(t, kind, keys) PROVE op'[t].step = "reading"
    BY <1>1, <2>1 DEF StartRead, Op, FilesInv, TypesInv
  <2>2. op' = [op EXCEPT ![t] = Idle] => op'[t].step = "idle"
    BY <1>1 DEF Idle, Op, FilesInv, TypesInv
  <2>3. CASE LoadAll(t) \/ (\E k \in Keys : Load(t, k)) \/ (\E matching \in Queries : Find(t, matching))
    BY <1>1, <2>1, <2>3, LoadsStored
  <2>4. CASE Reload(t)
    BY <2>1, <2>2, <2>4 DEF Reload
  <2>5. CASE ReadJson(t)
    <3>1. IsTransaction(op[t])
      BY <1>1 DEF FilesInv, TypesInv
    <3>2. o = Idle \/ \E got : o = [op[t] EXCEPT !.got = got]
      <4>0. PICK k : k = CHOOSE x \in op[t].keys : x \notin DOMAIN op[t].got
        OBVIOUS
      <4>1. op' = [op EXCEPT ![t] = IF file[k] = None THEN Idle ELSE WithFile(op[t], k)]
        BY <2>5, <4>0 DEF ReadJson
      <4>2. op'[t] = IF file[k] = None THEN Idle ELSE WithFile(op[t], k)
        BY <1>1, <4>1 DEF FilesInv, TypesInv
      <4> QED BY <1>3, <4>2 DEF WithFile
    <3>3. ASSUME NEW got, o = [op[t] EXCEPT !.got = got] PROVE o.step = op[t].step
      BY <3>1, <3>3 DEF IsTransaction
    <3>4. Idle.step = "idle"
      BY DEF Idle, Op
    <3> QED BY <1>1, <1>3, <3>2, <3>3, <3>4
  <2>6. CASE FinishRead(t)
    BY <2>2, <2>6 DEF FinishRead
  <2> QED BY <2>3, <2>4, <2>5, <2>6
<1> QED BY <1>1, <1>3, <1>4, ThreadLog

LEMMA CommitFailsLog ==
  ASSUME FilesInv, LogInv, NEW t \in Threads, CommitFails(t)
  PROVE  LogInv'
<1>1. /\ UNCHANGED <<row, log, trimmed, cursor, posted, queue>> /\ op[t].step = "written"
      /\ op' = [op EXCEPT ![t] = Idle]
  BY DEF CommitFails, Writing, dbVars, signalVars, userVars
<1>2. op'[t].step = "idle" /\ \A u \in Threads \ {t} : op'[u] = op[u]
  BY <1>1 DEF FilesInv, TypesInv, Idle, Op
<1> QED BY <1>1, <1>2, ThreadLog

LEMMA AnnounceLog ==
  ASSUME FilesInv, SignalsInv, LogInv, NEW t \in Threads, Announce(t)
  PROVE  LogInv'
<1>1. PICK here, e : /\ here = ProcessOf(t)
                     /\ e = [keys |-> op[t].keys, deleted |-> op[t].kind # "store", origin |-> t]
  OBVIOUS
<1>2. /\ op[t].step = "committed" /\ UNCHANGED <<row, log, trimmed, cursor>>
      /\ posted' = [posted EXCEPT ![here] = Append(@, e)]
      /\ op' = [op EXCEPT ![t] =
           IF t \in ActiveUsers /\ op[t].kind = "store" THEN ReloadOp(op[t].keys) ELSE Idle]
  BY <1>1 DEF Announce
<1>3. op'[t].step \in {"idle", "reload"} /\ \A u \in Threads \ {t} : op'[u] = op[u]
  BY <1>2 DEF FilesInv, TypesInv, ReloadOp, Idle, Op
<1>4. here \in Processes /\ posted'[here] # << >>
  <2>1. here \in Processes /\ e \in EventsOf(here)
    <3>1. GoodKeys(op[t])
      BY DEF SignalsInv
    <3> QED BY <1>1, <1>2, <3>1
      DEF EventsOf, GoodEvent, Event, GoodKeys, OfOneKey, Processes, ProcessOf
  <2>2. posted[here] \in Seq(EventsOf(here)) /\ posted'[here] = Append(posted[here], e)
    BY <1>2, <2>1 DEF SignalsInv
  <2>3. Append(posted[here], e) # << >>
    BY <2>1, <2>2, AppendProperties
  <2> QED BY <2>1, <2>2, <2>3
<1>5. \A s \in Users : LogDue(s)'
  BY <1>4 DEF LogDue
<1>6. \A u \in Threads : Writing(u)' => op'[u] = op[u]
  BY <1>3 DEF Writing
<1> QED BY <1>2, <1>5, <1>6, QuietLog

LEMMA DispatchLog ==
  ASSUME FilesInv, SignalsInv, LogInv, NEW p \in Processes, Dispatch(p)
  PROVE  LogInv'
<1>1. PICK e : e = Head(posted[p])
  OBVIOUS
<1>2. /\ posted[p] # << >> /\ UNCHANGED <<row, log, trimmed, cursor, op>>
      /\ queue' = [t \in Users |-> Append(queue[t], e)]
  BY <1>1 DEF Dispatch
<1>3. e \in GoodEvent
  BY <1>1, <1>2, WaitingTail DEF SignalsInv, EventsOf
<1>4. \A s \in Users : queue'[s] # << >>
  BY <1>2, <1>3, AppendProperties DEF SignalsInv
<1> QED BY <1>2, <1>4, QuietLog DEF LogDue

\* A transaction begins.
LEMMA BeginLog ==
  ASSUME FilesInv, LogInv, NEW t \in Threads, NEW kind \in WriteKinds, NEW keys \in SUBSET Keys,
         NEW new, Begin(t, kind, keys, new), HasVersion(new),
         kind \in {"store", "delete"} => ~NoExists(new),
         kind = "version" => \A k \in keys : PersistDeleted \/ ~NoExists(row[k])
  PROVE  LogInv'
<1>1. /\ UNCHANGED <<row, log, trimmed, cursor, posted, queue>> /\ op[t].step = "idle"
      /\ op' = [op EXCEPT ![t] = Op("written", kind, keys, new)]
  BY DEF Begin, dbVars, signalVars, userVars
<1>2. /\ op'[t].kind = kind /\ op'[t].keys = keys /\ op'[t].new = new
      /\ \A u \in Threads \ {t} : op'[u] = op[u]
  BY <1>1 DEF FilesInv, TypesInv, Op
<1>3. LogsWell(op[t])'
  BY <1>1, <1>2 DEF LogsWell
<1> QED BY <1>1, <1>2, <1>3, ThreadLog

\* A merge of a version that was uploaded never writes a row without one.
LEMMA MergedVersion ==
  ASSUME NEW r, GoodRow(r), HasVersion(r), NEW v \in Nat, v > 0, NEW c \in Payload
  PROVE  HasVersion(syncChange(r, v, c))
<1>1. r \in Row /\ r.version \in Nat /\ r.content \in Data \cup {Deleted, Absent}
  BY DEF GoodRow, Row
<1>2. CASE c = Deleted
  <2>1. CASE Exists(r)
    <3>1. syncChange(r, v, c) = ExistsVsDeleted(r, v)
      BY <1>2, <2>1, DataAssumption DEF syncChange, Exists, ExistsDeleted, NoExists
    <3> QED BY <1>1, <3>1 DEF ExistsVsDeleted, storeDeleted, updateVersion, MakeRow, HasVersion
  <2>2. CASE ExistsDeleted(r)
    <3>1. syncChange(r, v, c) = CachedDeleteVsDeleted(r, v)
      BY <1>2, <2>2, DataAssumption DEF syncChange, Exists, ExistsDeleted, NoExists
    <3> QED
      BY <1>1, <2>2, <3>1, DataAssumption
      DEF CachedDeleteVsDeleted, markUnchanged, updateVersion, MakeRow, NoRow, HasVersion,
          ExistsDeleted, NoExists
  <2>3. CASE NoExists(r)
    <3>1. syncChange(r, v, c) = NoExistsVsDeleted(r, v)
      BY <1>2, <2>3, DataAssumption DEF syncChange, Exists, ExistsDeleted, NoExists
    <3> QED BY <2>3, <3>1 DEF NoExistsVsDeleted, storeDeleted, MakeRow, HasVersion
  <2> QED BY <1>1, <2>1, <2>2, <2>3 DEF Exists, ExistsDeleted, NoExists
<1>3. CASE c # Deleted
  <2>1. CASE Exists(r)
    <3>1. syncChange(r, v, c) = ExistsVsChanged(r, v, c)
      BY <1>3, <2>1, DataAssumption DEF syncChange, Exists, ExistsDeleted, NoExists
    <3>2. r.version > 0
      BY <2>1, DataAssumption DEF HasVersion, Exists, NoExists
    <3>3. CASE r.version = v /\ r.content = c
      BY <1>1, <3>1, <3>2, <3>3 DEF ExistsVsChanged, markUnchanged, HasVersion, Row
    <3>4. CASE r.version = v /\ r.content # c
      <4>1. syncChange(r, v, c) = Conflict(r, v, c)
        BY <1>1, <3>1, <3>4 DEF ExistsVsChanged
      <4> QED BY <1>1, <4>1 DEF Conflict, storeChanged, updateVersion, MakeRow, HasVersion
    <3>5. CASE r.version < v
      <4>1. syncChange(r, v, c) = storeChanged(v, c, FALSE)
        BY <1>1, <3>1, <3>5
        DEF ExistsVsChanged, storeChanged, MakeRow, markUnchanged, Conflict, updateVersion,
            NoRow, NoExists, ExistsDeleted
      <4> QED BY <4>1 DEF storeChanged, MakeRow, HasVersion
    <3>6. CASE r.version > v
      <4>1. syncChange(r, v, c) = r
        BY <1>1, <3>1, <3>6
        DEF ExistsVsChanged, storeChanged, MakeRow, markUnchanged, Conflict, updateVersion,
            NoRow, NoExists, ExistsDeleted
      <4> QED BY <4>1
    <3> QED BY <1>1, <3>3, <3>4, <3>5, <3>6
  <2>2. CASE ExistsDeleted(r)
    <3>1. syncChange(r, v, c) = CachedDeleteVsChanged(r, v, c)
      BY <1>3, <2>2, DataAssumption DEF syncChange, Exists, ExistsDeleted, NoExists
    <3> QED
      BY <1>1, <3>1 DEF CachedDeleteVsChanged, storeChanged, updateVersion, MakeRow, HasVersion
  <2>3. CASE NoExists(r)
    <3>1. syncChange(r, v, c) = storeChanged(v, c, FALSE)
      BY <1>3, <2>3, DataAssumption DEF syncChange, Exists, ExistsDeleted, NoExists
    <3> QED BY <3>1 DEF storeChanged, MakeRow, HasVersion
  <2> QED BY <1>1, <2>1, <2>2, <2>3 DEF Exists, ExistsDeleted, NoExists
<1> QED BY <1>2, <1>3

LEMMA BeginsAreLogged ==
  ASSUME FilesInv, LogInv,
         \/ \E t \in Users, k \in Keys : (\E d \in Data : Save(t, k, d)) \/ RemoveKey(t, k)
         \/ \E t \in Users : Clear(t)
         \/ Reset
         \/ \E k \in Keys, v \in Nat \ {0}, c \in Payload : Merge(k, v, c)
  PROVE  LogInv'
<1>0. Users \subseteq Threads /\ Engine \in Threads
  BY DEF Threads
<1>1. \A k \in Keys : GoodRow(row[k]) /\ row[k].version \in Nat /\ HasVersion(row[k])
  BY DEF FilesInv, TypesInv, LogInv, GoodRow, Row
<1>2. ASSUME NEW t \in Users, NEW k \in Keys, NEW d \in Data, Save(t, k, d) PROVE LogInv'
  <2>1. PICK new : new = save(row[k], d)
    OBVIOUS
  <2>2. HasVersion(new) /\ ~NoExists(new)
    BY <1>1, <2>1, DataAssumption DEF save, MakeRow, HasVersion, NoExists
  <2>3. Begin(t, "store", {k}, new)
    BY <1>2, <2>1 DEF Save
  <2> QED BY <1>0, <2>2, <2>3, BeginLog DEF WriteKinds
<1>3. ASSUME NEW t \in Users, NEW k \in Keys, RemoveKey(t, k) PROVE LogInv'
  <2>1. PICK new : new = remove(row[k])
    OBVIOUS
  <2>2. HasVersion(new) /\ ~NoExists(new)
    BY <1>1, <1>3, <2>1, DataAssumption DEF RemoveKey, remove, MakeRow, HasVersion, NoExists
  <2>3. Begin(t, "delete", {k}, new)
    BY <1>3, <2>1 DEF RemoveKey
  <2> QED BY <1>0, <2>2, <2>3, BeginLog DEF WriteKinds
<1>4. HasVersion(NoRow)
  BY DEF HasVersion, NoRow, NoExists
<1>5. ASSUME NEW t \in Users, Clear(t) PROVE LogInv'
  <2>1. StoredKeys \in SUBSET Keys /\ Begin(t, "clear", StoredKeys, NoRow)
    BY <1>5 DEF Clear, StoredKeys
  <2> QED BY <1>0, <1>4, <2>1, BeginLog DEF WriteKinds
<1>6. CASE Reset
  BY <1>0, <1>4, <1>6, BeginLog DEF Reset, WriteKinds
<1>7. ASSUME NEW k \in Keys, NEW v \in Nat \ {0}, NEW c \in Payload, Merge(k, v, c) PROVE LogInv'
  <2>1. PICK new : new = syncChange(row[k], v, c)
    OBVIOUS
  <2>2. HasVersion(new)
    BY <1>1, <2>1, MergedVersion
  <2>3. CASE MergeStores(row[k], v, c)
    <3>1. new.content \in Data
      BY <2>1, <2>3 DEF MergeStores
    <3>2. Begin(Engine, "store", {k}, new)
      BY <1>7, <2>1, <2>3, <3>1, DataAssumption DEF Merge
    <3> QED BY <1>0, <2>2, <3>1, <3>2, BeginLog, DataAssumption DEF WriteKinds, NoExists
  <2>4. CASE ~MergeStores(row[k], v, c) /\ Exists(row[k]) /\ new.content = Deleted
    <3>1. Begin(Engine, "delete", {k}, new)
      BY <1>7, <2>1, <2>4 DEF Merge
    <3> QED BY <1>0, <2>2, <2>4, <3>1, BeginLog, DataAssumption DEF WriteKinds, NoExists
  <2>5. CASE ~MergeStores(row[k], v, c) /\ ~(Exists(row[k]) /\ new.content = Deleted)
    <3>1. Begin(Engine, "version", {k}, new) /\ new # row[k]
      BY <1>7, <2>1, <2>5 DEF Merge
    <3>2. PersistDeleted \/ ~NoExists(row[k])
      <4> SUFFICES ASSUME NoExists(row[k]), ~PersistDeleted PROVE FALSE
        OBVIOUS
      <4>1. CASE c = Deleted
        <5>1. new = row[k]
          BY <2>1, <4>1, DataAssumption
          DEF syncChange, NoExistsVsDeleted, Exists, ExistsDeleted, NoExists
        <5> QED BY <3>1, <5>1
      <4>2. CASE c # Deleted
        <5>1. c \in Data
          BY <4>2 DEF Payload
        <5>2. new.content = c
          BY <2>1, <4>2, DataAssumption
          DEF syncChange, storeChanged, MakeRow, Exists, ExistsDeleted, NoExists
        <5>3. MergeStores(row[k], v, c)
          BY <2>1, <5>1, <5>2, DataAssumption DEF MergeStores, NoExists
        <5> QED BY <2>5, <5>3
      <4> QED BY <4>1, <4>2
    <3> QED BY <1>0, <2>2, <3>1, <3>2, BeginLog DEF WriteKinds
  <2> QED BY <2>3, <2>4, <2>5
<1> QED BY <1>2, <1>3, <1>5, <1>6, <1>7

LEMMA LogAtFirst == ASSUME Init PROVE LogInv
<1>1. log = << >> /\ trimmed = 0 /\ cursor = [t \in Users |-> 0]
  BY DEF Init
<1>2. log \in Seq(GoodEntry) /\ Len(log) = 0
  BY <1>1, EmptySeq
<1>3. \A k \in Keys : HasVersion(row[k])
  BY DEF Init, HasVersion, MakeRow, NoRow, NoExists
<1>4. \A t \in Threads : ~Writing(t)
  BY DEF Init, Writing, Idle, Op
<1> QED BY <1>1, <1>2, <1>3, <1>4 DEF LogInv, LastIsCurrent, PassedFrom

LEMMA LogStep == FilesInv /\ SignalsInv /\ LogInv /\ [Next]_vars => LogInv'
<1> SUFFICES ASSUME FilesInv, SignalsInv, LogInv, [Next]_vars PROVE LogInv'
  OBVIOUS
<1>1. \A k \in Keys : row[k].version \in Nat
  BY DEF FilesInv, TypesInv, Row
<1>2. \A k \in Keys : \A v \in 1 .. row[k].version + 1 : v \in Nat \ {0}
  BY <1>1
<1>3. ASSUME NEW k \in Keys, MarkUnchanged(k) PROVE LogInv'
  BY <1>3, MarkUnchangedLog
<1>4. CASE UNCHANGED vars
  BY <1>4, QuietLog DEF vars, LogDue
<1>5. CASE \/ \E t \in Users, k \in Keys : (\E d \in Data : Save(t, k, d)) \/ RemoveKey(t, k)
           \/ \E t \in Users : Clear(t)
           \/ Reset
           \/ \E k \in Keys, v \in Nat \ {0}, c \in Payload : Merge(k, v, c)
  BY <1>5, BeginsAreLogged
<1>6. ASSUME NEW t \in Users,
         \/ LoadAll(t) \/ (\E k \in Keys : Load(t, k)) \/ (\E matching \in Queries : Find(t, matching))
         \/ Reload(t) \/ ReadJson(t) \/ FinishRead(t)
      PROVE  LogInv'
  BY <1>6, ReadLog
<1>7. ASSUME NEW t \in Threads, Commit(t) PROVE LogInv'
  BY <1>7, CommitLog
<1>8. ASSUME NEW t \in Threads, CommitFails(t) PROVE LogInv'
  BY <1>8, CommitFailsLog
<1>9. ASSUME NEW t \in Threads, Announce(t) PROVE LogInv'
  BY <1>9, AnnounceLog
<1>10. ASSUME NEW p \in Processes, Dispatch(p) PROVE LogInv'
  BY <1>10, DispatchLog
<1>11. ASSUME NEW t \in Users, Handle(t) PROVE LogInv'
  BY <1>11, HandleLog
<1>12. CASE Crash
  BY <1>12, CrashLog
<1> QED
  BY <1>2, <1>3, <1>4, <1>5, <1>6, <1>7, <1>8, <1>9, <1>10, <1>11, <1>12 DEF Next

\* However signals and crashes fall between commits and reads: when everything is
\* delivered, the cursor of every thread has come past the entry of every current
\* version whose change was announced, also one that skips obsolete entries.
THEOREM CursorsCatchUp == Spec => []LogIsRead
<1>1. ASSUME FilesInv, LogInv PROVE LogIsRead
  <2> SUFFICES ASSUME Quiescent, NEW t \in Users, NEW i \in 1 .. Len(log), log[i].told,
                      log[i].version = row[log[i].key].version
               PROVE  cursor[t] >= trimmed + i
    BY DEF LogIsRead
  <2>1. ~LogDue(t)
    BY DEF Quiescent, LogDue
  <2>2. cursor[t] >= trimmed + i \/ Purged(log[i].key)
    BY <1>1, <2>1 DEF LogInv, PassedFrom
  <2>3. log[i] \in GoodEntry
    BY <1>1, ElementOfSeq DEF LogInv
  <2>4. log[i].version > 0 /\ log[i].key \in Keys
    BY <2>3 DEF GoodEntry, Entry
  <2>5. ~NoExists(row[log[i].key])
    BY <1>1, <2>4 DEF FilesInv, TypesInv, GoodRow, WellFormed
  <2> QED BY <2>2, <2>5 DEF Purged
<1>2. Init => FilesInv /\ SignalsInv /\ LogInv
  BY FilesInit, SignalsAtFirst, LogAtFirst
<1>3. FilesInv /\ SignalsInv /\ LogInv /\ [Next]_vars => (FilesInv /\ SignalsInv /\ LogInv)'
  BY FilesStep, SignalsStep, LogStep
<1> QED BY <1>1, <1>2, <1>3, PTL DEF Spec

================================================================================
