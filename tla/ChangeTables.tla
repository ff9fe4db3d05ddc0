------------------------------ MODULE ChangeTables -----------------------------
(***************************************************************************)
(* The tables of the server's database that hold the changes of one        *)
(* account, and the operations of DatabaseController on them.  Every       *)
(* operation is one database transaction: it maps the tables to the tables *)
(* it commits, or reports why it was rolled back.                          *)
(*                                                                         *)
(* Transactions are isolated as READ COMMITTED, the default: a statement   *)
(* sees what was committed before it began.  The one transaction whose     *)
(* outcome rests on such a view of rows that it does not lock is           *)
(* completeChange; its view is an operator, and a parameter of its own.    *)
(***************************************************************************)
EXTENDS Naturals, FiniteSetsExt

CONSTANTS
  Devices,   \* the devices that may be members of the account
  Datasets,  \* what a dataid names
  Size       \* Size[x]: length of the encrypted data of dataset x

ASSUME TablesAssumption ==
  /\ IsFiniteSet(Devices)
  /\ IsFiniteSet(Datasets)
  /\ Size \in [Datasets -> Nat]

(***************************************************************************)
(* devices   ids in the table devices                                      *)
(* changes   rows of datachanges                                           *)
(* todo      rows of devicechanges: changes.id and the device it is for    *)
(* quota     the account's users.quota, and limit its users.quotalimit     *)
(* nextId    the sequence behind datachanges.id                            *)
(***************************************************************************)
Change == [id : Nat, device : Devices, dataset : Datasets]

Tables == [devices : SUBSET Devices, changes : SUBSET Change,
           todo : SUBSET (Nat \X Devices), quota : Nat, limit : Nat, nextId : Nat]

--------------------------------------------------------------------------------
(* Reading.                                                                  *)

PendingFor(t, d) == {e[1] : e \in {e \in t.todo : e[2] = d}}

TotalSize(C) == MapThenSumSet(LAMBDA c : Size[c.dataset], C)

changeCount(t, d) == Cardinality(PendingFor(t, d))

\* Mutant: skips one too many.
LoadBehind(t, d, count, skip) ==
  LET pending == PendingFor(t, d)
      position(i) == Cardinality({j \in pending : j < i}) IN
  {i \in pending : skip < position(i) /\ position(i) <= skip + count}

\* ORDER BY datachanges.id LIMIT count OFFSET skip, as the set of what is selected.
loadNextChanges(t, d, count, skip) ==
  LET pending == PendingFor(t, d)
      position(i) == Cardinality({j \in pending : j < i}) IN
  {i \in pending : skip <= position(i) /\ position(i) < skip + count}

--------------------------------------------------------------------------------
(* Deleting rows.  downquota() runs for every row and finds the account      *)
(* through the row of the device that sent the change.                       *)

DeleteChanges(t, C) ==
  LET freed == TotalSize({c \in C : c.device \in t.devices}) IN
  [t EXCEPT !.changes = @ \ C,
            !.todo = {e \in @ : \A c \in C : e[1] # c.id},
            !.quota = IF @ > freed THEN @ - freed ELSE 0]

\* The rows of the devices are gone when the deletion cascades, so that the
\* changes they sent leave the quota as it is.  An account without devices is
\* deleted with them.
DeleteDevices(t, D) ==
  LET left == [t EXCEPT !.devices = @ \ D, !.todo = {e \in @ : e[2] \notin D}]
      after == DeleteChanges(left, {c \in t.changes : c.device \in D}) IN
  IF after.devices = {} THEN [after EXCEPT !.quota = 0] ELSE after

--------------------------------------------------------------------------------
(* Changing.  A result is the new tables, or the reason of the rollback.     *)

Committed(t) == [is |-> "ok", tables |-> t]
QuotaHit == [is |-> "quota"]
Failed == [is |-> "error"]

Stored(t, d, x) == {c \in t.changes : c.device = d /\ c.dataset = x}

\* Mutant: the limit itself may be reached.
InsertUpToLimit(t, d, x) ==
  IF d \notin t.devices THEN Failed
  ELSE IF t.quota + Size[x] > t.limit THEN QuotaHit
  ELSE Committed([t EXCEPT !.changes = @ \cup {[id |-> t.nextId, device |-> d, dataset |-> x]},
                           !.quota = @ + Size[x],
                           !.nextId = @ + 1])

\* INSERT INTO datachanges with upquota(): a foreign key of devices, and the
\* CHECK of users.  Numbers that a rollback skips are not counted.
InsertChange(t, d, x) ==
  IF d \notin t.devices THEN Failed
  ELSE IF t.quota + Size[x] >= t.limit THEN QuotaHit
  ELSE Committed([t EXCEPT !.changes = @ \cup {[id |-> t.nextId, device |-> d, dataset |-> x]},
                           !.quota = @ + Size[x],
                           !.nextId = @ + 1])

\* A change replaces the one the same device sent of the dataset and is for
\* every other device; without one it is not kept.
addChange(t, d, x) ==
  LET inserted == InsertChange(DeleteChanges(t, Stored(t, d, x)), d, x)
      targets == t.devices \ {d} IN
  IF inserted.is # "ok" THEN inserted
  ELSE IF targets = {}
    THEN Committed(DeleteChanges(inserted.tables, Stored(inserted.tables, d, x)))
  ELSE Committed([inserted.tables EXCEPT !.todo = @ \cup {<<t.nextId, e>> : e \in targets}])

\* A change for one device keeps the one that is stored already.
addDeviceChange(t, d, target, x) ==
  LET inserted == IF Stored(t, d, x) = {} THEN InsertChange(t, d, x) ELSE Committed(t) IN
  IF inserted.is # "ok" THEN inserted
  ELSE IF target \notin t.devices THEN Failed
  ELSE Committed([inserted.tables EXCEPT
                    !.todo = @ \cup {<<c.id, target>> : c \in Stored(inserted.tables, d, x)}])

\* Mutant: without the condition, the change is deleted with the first confirmation.
FirstConfirms(t, d, i) == TRUE

\* NOT EXISTS (SELECT 1 FROM devicechanges ...), behind the DELETE of d's entry.
NobodyElse(t, d, i) == \A e \in t.todo : e[1] = i => e[2] = d

\* What is committed, when the statement that deletes the change has found an
\* entry of someone else, or none.  In the second case it deletes the entries that
\* have been added meanwhile, too: it waits for the transactions that add them,
\* does not look for them again, and cascades.
completeChange(t, d, i, nobody) ==
  LET left == [t EXCEPT !.todo = @ \ {<<i, d>>}] IN
  IF nobody THEN DeleteChanges(left, {c \in t.changes : c.id = i}) ELSE left

\* Only devices of the same account can be removed, by one that is still in it.
removeDevice(t, d, target) ==
  IF d \in t.devices THEN DeleteDevices(t, {target}) ELSE t

\* With force, an account at the new limit is deleted with all its devices.
updateQuotaLimit(t, limit, force) ==
  IF t.limit = limit THEN t
  ELSE IF t.quota < limit THEN [t EXCEPT !.limit = limit]
  ELSE IF force THEN DeleteDevices(t, t.devices)
  ELSE t

\* notifyDeviceChange(): who is notified when a transaction commits.
Notified(t, new) == {e[2] : e \in new.todo \ t.todo}
================================================================================
