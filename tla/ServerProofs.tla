------------------------------ MODULE ServerProofs -----------------------------
(***************************************************************************)
(* Theorems about the server, for every set of devices, any number of      *)
(* connections and all orders of tasks, events and transactions: its       *)
(* tables, connections and tasks implement the mailboxes, the registry     *)
(* never holds a client that was destroyed, and no wakeup of a download is *)
(* lost.                                                                   *)
(***************************************************************************)
EXTENDS Server, FiniteSetTheorems, SequenceTheorems, WellFoundedInduction, TLAPS

--------------------------------------------------------------------------------
(* The tables.                                                               *)

IsTables(t) ==
  t = [devices |-> t.devices, changes |-> t.changes, todo |-> t.todo,
       quota |-> t.quota, limit |-> t.limit, nextId |-> t.nextId]

\* The ids that have been given away.
Known(t) == 1..(t.nextId - 1)

\* Rows refer to devices that are there, and their ids have been given away.
TablesInv(t) ==
  /\ IsTables(t)
  /\ t.devices \subseteq Devices
  /\ t.nextId \in Nat \ {0}
  /\ t.changes \subseteq [id : Known(t), device : t.devices, dataset : Datasets]
  /\ t.todo \subseteq Known(t) \X t.devices

LEMMA PendingIsTodo ==
  ASSUME NEW t, TablesInv(t), NEW d, NEW i
  PROVE  i \in PendingFor(t, d) <=> <<i, d>> \in t.todo
  BY DEF PendingFor, TablesInv

LEMMA DeleteChangesRows ==
  ASSUME NEW t, IsTables(t), NEW C
  PROVE  LET u == DeleteChanges(t, C) IN
         /\ IsTables(u)
         /\ u.devices = t.devices /\ u.nextId = t.nextId
         /\ u.changes = t.changes \ C
         /\ u.todo = {e \in t.todo : \A c \in C : e[1] # c.id}
<1> DEFINE freed == TotalSize({c \in C : c.device \in t.devices})
           quota == IF t.quota > freed THEN t.quota - freed ELSE 0
           rest == t.changes \ C
           todo == {e \in t.todo : \A c \in C : e[1] # c.id}
<1>1. DeleteChanges(t, C) = [t EXCEPT !.changes = rest, !.todo = todo, !.quota = quota]
  BY DEF DeleteChanges, IsTables
<1> HIDE DEF quota, rest, todo
<1>2. DeleteChanges(t, C) = [devices |-> t.devices, changes |-> rest, todo |-> todo,
                             quota |-> quota, limit |-> t.limit, nextId |-> t.nextId]
  BY <1>1 DEF IsTables
<1> QED
  BY <1>2 DEF IsTables, rest, todo

LEMMA DeleteDevicesRows ==
  ASSUME NEW t, IsTables(t), NEW D
  PROVE  LET u == DeleteDevices(t, D) IN
         /\ IsTables(u)
         /\ u.devices = t.devices \ D /\ u.nextId = t.nextId
         /\ u.changes = {c \in t.changes : c.device \notin D}
         /\ u.todo = {e \in t.todo :
              e[2] \notin D /\ \A c \in t.changes : c.device \in D => e[1] # c.id}
<1> DEFINE kept == t.devices \ D
           mine == {e \in t.todo : e[2] \notin D}
           gone == {c \in t.changes : c.device \in D}
           left == [t EXCEPT !.devices = kept, !.todo = mine]
           after == DeleteChanges(left, gone)
<1>1. DeleteDevices(t, D) = IF after.devices = {} THEN [after EXCEPT !.quota = 0] ELSE after
  BY DEF DeleteDevices, IsTables
<1>2. left = [t EXCEPT !.devices = kept, !.todo = mine]
  OBVIOUS
<1> HIDE DEF kept, mine, left
<1>3. left = [devices |-> kept, changes |-> t.changes, todo |-> mine,
              quota |-> t.quota, limit |-> t.limit, nextId |-> t.nextId]
  BY <1>2 DEF IsTables
<1>4. IsTables(left)
  BY <1>3 DEF IsTables
<1> HIDE DEF gone
<1>5. /\ IsTables(after)
      /\ after.devices = left.devices /\ after.nextId = left.nextId
      /\ after.changes = left.changes \ gone
      /\ after.todo = {e \in left.todo : \A c \in gone : e[1] # c.id}
  BY <1>4, DeleteChangesRows
<1> HIDE DEF after
<1>6. LET u == DeleteDevices(t, D) IN
      /\ IsTables(u) /\ u.devices = after.devices /\ u.nextId = after.nextId
      /\ u.changes = after.changes /\ u.todo = after.todo
  BY <1>1, <1>5 DEF IsTables
<1>7. left.devices = kept /\ left.changes = t.changes /\ left.todo = mine /\ left.nextId = t.nextId
  BY <1>3
<1> QED
  BY <1>5, <1>6, <1>7 DEF kept, mine, gone

LEMMA InsertChangeRows ==
  ASSUME NEW t, IsTables(t), NEW d, NEW x, InsertChange(t, d, x).is = "ok"
  PROVE  LET u == InsertChange(t, d, x).tables IN
         /\ d \in t.devices
         /\ IsTables(u)
         /\ u.devices = t.devices /\ u.nextId = t.nextId + 1 /\ u.todo = t.todo
         /\ u.changes = t.changes \cup {[id |-> t.nextId, device |-> d, dataset |-> x]}
  BY DEF InsertChange, Failed, QuotaHit, Committed, IsTables

\* addChange: replaces the earlier change, and keeps the new one if there is
\* somebody it is for.
LEMMA AddChangeRows ==
  ASSUME NEW t, TablesInv(t), NEW d, NEW x, addChange(t, d, x).is = "ok"
  PROVE  LET u == addChange(t, d, x).tables
             new == [id |-> t.nextId, device |-> d, dataset |-> x]
             targets == t.devices \ {d} IN
         /\ d \in t.devices
         /\ IsTables(u)
         /\ u.devices = t.devices /\ u.nextId = t.nextId + 1
         /\ u.changes = (t.changes \ Stored(t, d, x)) \cup (IF targets = {} THEN {} ELSE {new})
         /\ u.todo = {e \in t.todo : \A c \in Stored(t, d, x) : e[1] # c.id}
                       \cup {<<t.nextId, e>> : e \in targets}
<1> DEFINE new == [id |-> t.nextId, device |-> d, dataset |-> x]
           targets == t.devices \ {d}
           emptied == DeleteChanges(t, Stored(t, d, x))
           inserted == InsertChange(emptied, d, x)
           full == inserted.tables
           kept == {e \in t.todo : \A c \in Stored(t, d, x) : e[1] # c.id}
           added == {<<t.nextId, e>> : e \in targets}
<1>1. addChange(t, d, x) =
        IF inserted.is # "ok" THEN inserted
        ELSE IF targets = {} THEN Committed(DeleteChanges(full, Stored(full, d, x)))
        ELSE Committed([full EXCEPT !.todo = @ \cup added])
  BY DEF addChange
<1>2. /\ IsTables(emptied)
      /\ emptied.devices = t.devices /\ emptied.nextId = t.nextId
      /\ emptied.changes = t.changes \ Stored(t, d, x) /\ emptied.todo = kept
  BY DeleteChangesRows DEF TablesInv
<1> HIDE DEF emptied, kept
<1>3. inserted.is = "ok"
  BY <1>1
<1>4. /\ d \in t.devices /\ IsTables(full)
      /\ full.devices = t.devices /\ full.nextId = t.nextId + 1 /\ full.todo = kept
      /\ full.changes = (t.changes \ Stored(t, d, x)) \cup {new}
  BY <1>2, <1>3, InsertChangeRows
<1> HIDE DEF inserted, full, targets, added
<1>5. CASE targets = {}
  <2>1. addChange(t, d, x).tables = DeleteChanges(full, Stored(full, d, x))
    BY <1>1, <1>3, <1>5 DEF Committed
  <2>2. Stored(full, d, x) = {new}
    BY <1>4 DEF Stored
  <2>3. \A e \in kept : e[1] # new.id
    BY DEF TablesInv, Known, kept
  <2>4. new \notin t.changes
    BY DEF TablesInv, Known
  <2>5. added = {}
    BY <1>5 DEF added
  <2> QED
    BY <1>4, <1>5, <2>1, <2>2, <2>3, <2>4, <2>5, DeleteChangesRows DEF targets, kept, added
<1>6. CASE targets # {}
  <2>1. addChange(t, d, x).tables = [full EXCEPT !.todo = @ \cup added]
    BY <1>1, <1>3, <1>6 DEF Committed
  <2>2. LET u == addChange(t, d, x).tables IN
        /\ IsTables(u)
        /\ u.devices = full.devices /\ u.nextId = full.nextId
        /\ u.changes = full.changes /\ u.todo = full.todo \cup added
    BY <1>4, <2>1 DEF IsTables
  <2> QED
    BY <1>4, <1>6, <2>2 DEF targets, kept, added
<1> QED
  BY <1>5, <1>6

\* addDeviceChange: for one device, with the change that is stored if there is one.
AddedFor(t, u, d, target, x) ==
  LET new == [id |-> t.nextId, device |-> d, dataset |-> x]
      old == Stored(t, d, x) IN
  /\ target \in t.devices /\ (old = {} => d \in t.devices)
  /\ IsTables(u)
  /\ u.devices = t.devices
  /\ u.nextId = IF old = {} THEN t.nextId + 1 ELSE t.nextId
  /\ u.changes = IF old = {} THEN t.changes \cup {new} ELSE t.changes
  /\ u.todo = IF old = {} THEN t.todo \cup {<<t.nextId, target>>}
              ELSE t.todo \cup {<<c.id, target>> : c \in old}

LEMMA AddDeviceChangeRows ==
  ASSUME NEW t, TablesInv(t), NEW d, NEW target, NEW x,
         addDeviceChange(t, d, target, x).is = "ok"
  PROVE  AddedFor(t, addDeviceChange(t, d, target, x).tables, d, target, x)
<1> DEFINE new == [id |-> t.nextId, device |-> d, dataset |-> x]
           old == Stored(t, d, x)
           inserted == IF old = {} THEN InsertChange(t, d, x) ELSE Committed(t)
           full == inserted.tables
           added == {<<c.id, target>> : c \in Stored(full, d, x)}
<1>1. addDeviceChange(t, d, target, x) =
        IF inserted.is # "ok" THEN inserted
        ELSE IF target \notin t.devices THEN Failed
        ELSE Committed([full EXCEPT !.todo = @ \cup added])
  BY DEF addDeviceChange
<1>2. inserted.is = "ok" /\ target \in t.devices
  BY <1>1 DEF Failed
<1>3. /\ IsTables(full) /\ full.devices = t.devices /\ full.todo = t.todo
      /\ full.nextId = IF old = {} THEN t.nextId + 1 ELSE t.nextId
      /\ full.changes = IF old = {} THEN t.changes \cup {new} ELSE t.changes
      /\ old = {} => d \in t.devices
  <2>1. CASE old = {}
    BY <1>2, <2>1, InsertChangeRows DEF TablesInv
  <2>2. CASE old # {}
    BY <2>2 DEF TablesInv, Committed
  <2> QED
    BY <2>1, <2>2
<1>4. added = IF old = {} THEN {<<t.nextId, target>>} ELSE {<<c.id, target>> : c \in old}
  <2>1. CASE old = {}
    <3>1. Stored(full, d, x) = {new}
      BY <1>3, <2>1 DEF Stored
    <3>2. added = {<<new.id, target>>}
      BY <3>1
    <3>3. new.id = t.nextId
      OBVIOUS
    <3> QED
      BY <2>1, <3>2, <3>3
  <2>2. CASE old # {}
    BY <1>3, <2>2 DEF Stored
  <2> QED
    BY <2>1, <2>2
<1> HIDE DEF inserted, full, added
<1>5. addDeviceChange(t, d, target, x).tables = [full EXCEPT !.todo = @ \cup added]
  BY <1>1, <1>2 DEF Committed
<1>6. LET u == addDeviceChange(t, d, target, x).tables IN
      /\ IsTables(u) /\ u.devices = full.devices /\ u.nextId = full.nextId
      /\ u.changes = full.changes /\ u.todo = full.todo \cup added
  BY <1>3, <1>5 DEF IsTables
<1> QED
  BY <1>2, <1>3, <1>4, <1>6 DEF AddedFor

\* completeChange: one entry goes, and with nobody else the change and what is left.
LEMMA CompleteChangeRows ==
  ASSUME NEW t, TablesInv(t), NEW d, NEW i, NEW nobody \in BOOLEAN
  PROVE  LET u == completeChange(t, d, i, nobody) IN
         /\ IsTables(u)
         /\ u.devices = t.devices /\ u.nextId = t.nextId
         /\ nobody /\ (\E c \in t.changes : c.id = i) =>
              /\ u.changes = {c \in t.changes : c.id # i}
              /\ u.todo = {e \in t.todo : e[1] # i}
         /\ ~(nobody /\ \E c \in t.changes : c.id = i) =>
              u.changes = t.changes /\ u.todo = t.todo \ {<<i, d>>}
<1> DEFINE rest == t.todo \ {<<i, d>>}
           left == [t EXCEPT !.todo = rest]
           done == {c \in t.changes : c.id = i}
<1>1. left = [t EXCEPT !.todo = rest]
  OBVIOUS
<1>2. completeChange(t, d, i, nobody) = IF nobody THEN DeleteChanges(left, done) ELSE left
  BY DEF completeChange
<1> HIDE DEF rest, left
<1>3. IsTables(left) /\ left.devices = t.devices /\ left.nextId = t.nextId
        /\ left.changes = t.changes /\ left.todo = rest
  BY <1>1 DEF TablesInv, IsTables
<1>4. CASE nobody
  <2> DEFINE u == DeleteChanges(left, done)
  <2>1. /\ IsTables(u) /\ u.devices = t.devices /\ u.nextId = t.nextId
        /\ u.changes = t.changes \ done
        /\ u.todo = {e \in rest : \A c \in done : e[1] # c.id}
    BY <1>3, DeleteChangesRows
  <2> HIDE DEF u
  <2>2. completeChange(t, d, i, nobody) = u
    BY <1>2, <1>4 DEF u
  <2>3. CASE \E c \in t.changes : c.id = i
    <3>1. u.todo = {e \in t.todo : e[1] # i}
      BY <2>1, <2>3 DEF rest
    <3>2. t.changes \ done = {c \in t.changes : c.id # i}
      OBVIOUS
    <3> HIDE DEF done
    <3> QED
      BY <1>4, <2>1, <2>2, <2>3, <3>1, <3>2
  <2>4. CASE ~\E c \in t.changes : c.id = i
    <3>1. done = {}
      BY <2>4
    <3> HIDE DEF done
    <3>2. u.changes = t.changes /\ u.todo = t.todo \ {<<i, d>>}
      BY <2>1, <3>1 DEF rest
    <3> QED
      BY <2>1, <2>2, <2>4, <3>2
  <2> QED
    BY <2>3, <2>4
<1>5. CASE ~nobody
  BY <1>2, <1>3, <1>5 DEF rest
<1> QED
  BY <1>4, <1>5

\* What transactions do to the tables they leave alone otherwise.
LEMMA TablesStay ==
  /\ \A t, d, target : TablesInv(t) =>
       \/ removeDevice(t, d, target) = t
       \/ removeDevice(t, d, target) = DeleteDevices(t, {target})
  /\ \A t, limit, force : TablesInv(t) =>
       LET u == updateQuotaLimit(t, limit, force) IN
       \/ u = DeleteDevices(t, t.devices)
       \/ /\ IsTables(u) /\ u.devices = t.devices /\ u.nextId = t.nextId
          /\ u.changes = t.changes /\ u.todo = t.todo
  BY DEF removeDevice, updateQuotaLimit, TablesInv, IsTables

--------------------------------------------------------------------------------
(* Each transaction is a step of the mailboxes.                              *)

LEMMA PostStep ==
  ASSUME TablesInv(db), NEW d \in Devices, NEW x \in Datasets,
         addChange(db, d, x).is = "ok", db' = addChange(db, d, x).tables, got' = got
  PROVE  TablesInv(db') /\ db.nextId <= db'.nextId /\ Promise!Post(d, x)
<1> DEFINE old == Stored(db, d, x)
           new == [id |-> db.nextId, device |-> d, dataset |-> x]
           targets == db.devices \ {d}
<1>1. /\ d \in db.devices /\ IsTables(db')
      /\ db'.devices = db.devices /\ db'.nextId = db.nextId + 1
      /\ db'.changes = (db.changes \ old) \cup (IF targets = {} THEN {} ELSE {new})
      /\ db'.todo = {e \in db.todo : \A c \in old : e[1] # c.id}
                      \cup {<<db.nextId, e>> : e \in targets}
  BY AddChangeRows
<1>2. TablesInv(db')
  BY <1>1 DEF TablesInv, Known
<1>3. old = Promise!On(d, x)
  BY DEF Stored, Promise!On
<1>4. \A e \in Devices : PendingFor(db', e) =
        (PendingFor(db, e) \ Promise!Ids(old)) \cup (IF e \in targets THEN {db.nextId} ELSE {})
  <2>1. SUFFICES ASSUME NEW e \in Devices, NEW i
                 PROVE  <<i, e>> \in db'.todo <=>
                          \/ <<i, e>> \in db.todo /\ i \notin Promise!Ids(old)
                          \/ e \in targets /\ i = db.nextId
    BY <1>2, PendingIsTodo
  <2> QED
    BY <1>1 DEF Promise!Ids
<1>5. db.devices = {d} <=> targets = {}
  BY <1>1
<1> QED
  BY <1>1, <1>2, <1>3, <1>4, <1>5 DEF Promise!Post, TablesInv

LEMMA ShareStep ==
  ASSUME TablesInv(db), NEW d \in Devices, NEW target \in Devices, NEW x \in Datasets,
         addDeviceChange(db, d, target, x).is = "ok",
         db' = addDeviceChange(db, d, target, x).tables, got' = got
  PROVE  TablesInv(db') /\ db.nextId <= db'.nextId /\ Promise!Share(d, target, x)
<1> DEFINE old == Stored(db, d, x)
           new == [id |-> db.nextId, device |-> d, dataset |-> x]
<1>1. /\ target \in db.devices /\ (old = {} => d \in db.devices)
      /\ IsTables(db') /\ db'.devices = db.devices
      /\ db'.nextId = IF old = {} THEN db.nextId + 1 ELSE db.nextId
      /\ db'.changes = IF old = {} THEN db.changes \cup {new} ELSE db.changes
      /\ db'.todo = IF old = {} THEN db.todo \cup {<<db.nextId, target>>}
                    ELSE db.todo \cup {<<c.id, target>> : c \in old}
  <2>1. AddedFor(db, db', d, target, x)
    BY AddDeviceChangeRows
  <2> QED
    BY <2>1 DEF AddedFor
<1>2. d \in db.devices
  BY <1>1 DEF Stored, TablesInv
<1>3. old \subseteq db.changes
  BY DEF Stored
<1>4. TablesInv(db')
  BY <1>1, <1>2, <1>3 DEF TablesInv, Known
<1>5. old = Promise!On(d, x)
  BY DEF Stored, Promise!On
<1> DEFINE shared == IF old = {} THEN {db.nextId} ELSE Promise!Ids(old)
<1>6. db'.todo = db.todo \cup {<<i, target>> : i \in shared}
  BY <1>1 DEF Promise!Ids
<1> HIDE DEF shared
<1>7. \A e \in Devices : PendingFor(db', e) =
        IF e = target THEN PendingFor(db, e) \cup shared ELSE PendingFor(db, e)
  <2>1. \A e \in Devices : \A i : i \in PendingFor(db', e) <=>
          i \in PendingFor(db, e) \/ (e = target /\ i \in shared)
    <3>1. \A e, i : <<i, e>> \in db'.todo <=> <<i, e>> \in db.todo \/ (e = target /\ i \in shared)
      BY <1>6
    <3> QED
      BY <1>4, <3>1, PendingIsTodo
  <2> QED
    BY <2>1
<1>8. CASE old = {}
  <2>1. shared = {db.nextId}
    BY <1>8 DEF shared
  <2>2. Promise!Share(d, target, x)
    BY <1>1, <1>2, <1>5, <1>7, <1>8, <2>1 DEF Promise!Share
  <2> QED
    BY <1>1, <1>4, <1>8, <2>2 DEF TablesInv
<1>9. CASE old # {}
  <2>1. shared = Promise!Ids(Promise!On(d, x))
    BY <1>5, <1>9 DEF shared
  <2>2. Promise!Share(d, target, x)
    BY <1>1, <1>2, <1>5, <1>7, <1>9, <2>1 DEF Promise!Share
  <2> QED
    BY <1>1, <1>4, <1>9, <2>2 DEF TablesInv
<1> QED
  BY <1>8, <1>9

\* A device confirms, or repeats its confirmation.
LEMMA ConfirmStep ==
  ASSUME TablesInv(db), NEW d \in Devices, NEW i, <<d, i>> \in got, NEW nobody \in BOOLEAN,
         nobody => <<d, i>> \in Closing,
         db' = completeChange(db, d, i, nobody), got' = got
  PROVE  /\ TablesInv(db') /\ db.nextId <= db'.nextId
         /\ Promise!Handle \/ UNCHANGED Promise!mail
<1>1. /\ IsTables(db') /\ db'.devices = db.devices /\ db'.nextId = db.nextId
      /\ nobody /\ (\E c \in db.changes : c.id = i) =>
           /\ db'.changes = {c \in db.changes : c.id # i}
           /\ db'.todo = {e \in db.todo : e[1] # i}
      /\ ~(nobody /\ \E c \in db.changes : c.id = i) =>
           db'.changes = db.changes /\ db'.todo = db.todo \ {<<i, d>>}
  BY CompleteChangeRows
<1>2. db'.changes \subseteq db.changes /\ db'.todo \subseteq db.todo
  BY <1>1
<1>3. TablesInv(db') /\ db.nextId <= db'.nextId
  BY <1>1, <1>2 DEF TablesInv, Known
<1>4. CASE nobody /\ \E c \in db.changes : c.id = i
  <2>1. \A e \in Devices : PendingFor(db', e) = PendingFor(db, e) \ {i}
    <3>1. \A e, j : j \in PendingFor(db', e) <=> j \in PendingFor(db, e) /\ j # i
      BY <1>1, <1>3, <1>4, PendingIsTodo
    <3> QED
      BY <3>1
  <2> DEFINE p == <<d, i>>
  <2>2. Promise!Finish(p[1], p[2])
    BY <1>1, <1>4, <2>1 DEF Promise!Finish
  <2>3. p \in Closing
    BY <1>4
  <2> HIDE DEF p
  <2>4. Promise!Handle
    BY <2>2, <2>3 DEF Promise!Handle
  <2> QED
    BY <1>3, <2>4
<1>5. CASE ~(nobody /\ \E c \in db.changes : c.id = i)
  <2>1. \A e \in Devices : PendingFor(db', e) = IF e = d THEN PendingFor(db, e) \ {i} ELSE PendingFor(db, e)
    <3>1. \A e, j : j \in PendingFor(db', e) <=> j \in PendingFor(db, e) /\ ~(j = i /\ e = d)
      BY <1>1, <1>3, <1>5, PendingIsTodo
    <3> TAKE e \in Devices
    <3>2. CASE e = d
      <4>1. \A j : j \in PendingFor(db', e) <=> j \in PendingFor(db, e) \ {i}
        BY <3>1, <3>2
      <4>2. PendingFor(db', e) = PendingFor(db, e) \ {i}
        BY <4>1
      <4> QED
        BY <3>2, <4>2
    <3>3. CASE e # d
      <4>1. \A j : j \in PendingFor(db', e) <=> j \in PendingFor(db, e)
        BY <3>1, <3>3
      <4>2. PendingFor(db', e) = PendingFor(db, e)
        BY <4>1
      <4> QED
        BY <3>3, <4>2
    <3> QED
      BY <3>2, <3>3
  <2>2. CASE i \in PendingFor(db, d)
    <3>1. i \in 1..db.nextId
      <4>1. <<i, d>> \in db.todo
        BY <2>2, PendingIsTodo
      <4> QED
        BY <4>1 DEF TablesInv, Known
    <3>2. Promise!Confirm(d, i)
      BY <1>1, <1>5, <2>1, <2>2 DEF Promise!Confirm
    <3>3. Promise!Handle
      BY <3>1, <3>2 DEF Promise!Handle
    <3> QED
      BY <1>3, <3>3
  <2>3. CASE i \notin PendingFor(db, d)
    <3>1. \A e \in Devices : PendingFor(db', e) = PendingFor(db, e)
      BY <2>1, <2>3
    <3> QED
      BY <1>1, <1>3, <1>5, <3>1 DEF Promise!mail
  <2> QED
    BY <2>2, <2>3
<1> QED
  BY <1>4, <1>5

\* Devices are removed, some of which may not be there.
LEMMA LeaveStep ==
  ASSUME TablesInv(db), NEW D, db' = DeleteDevices(db, D), got' = got
  PROVE  /\ TablesInv(db') /\ db.nextId = db'.nextId
         /\ (\E E \in SUBSET Devices : Promise!Leave(E)) \/ UNCHANGED Promise!mail
<1> DEFINE E == D \cap db.devices
<1>1. /\ IsTables(db') /\ db'.devices = db.devices \ D /\ db'.nextId = db.nextId
      /\ db'.changes = {c \in db.changes : c.device \notin D}
      /\ db'.todo = {e \in db.todo :
           e[2] \notin D /\ \A c \in db.changes : c.device \in D => e[1] # c.id}
  BY DeleteDevicesRows DEF TablesInv
<1>2. TablesInv(db')
  <2>1. \A c \in db'.changes : c \in [id : Known(db'), device : db'.devices, dataset : Datasets]
    BY <1>1 DEF TablesInv, Known
  <2>2. \A e \in db'.todo : e \in Known(db') \X db'.devices
    BY <1>1 DEF TablesInv, Known
  <2> QED
    BY <1>1, <2>1, <2>2 DEF TablesInv
<1>3. \A c \in db.changes : c.device \in D <=> c.device \in E
  BY DEF TablesInv
<1> DEFINE gone == Promise!Ids({m \in db.changes : m.device \in E})
<1>4. \A d \in Devices : PendingFor(db', d) = IF d \in E THEN {} ELSE PendingFor(db, d) \ gone
  <2>1. \A i : i \in gone <=> \E c \in db.changes : c.device \in D /\ i = c.id
    BY <1>3 DEF Promise!Ids
  <2> HIDE DEF gone
  <2>2. \A i, d : <<i, d>> \in db'.todo <=> <<i, d>> \in db.todo /\ d \notin D /\ i \notin gone
    BY <1>1, <2>1
  <2>3. \A i, d : <<i, d>> \in db.todo => (d \in D <=> d \in E)
    BY DEF TablesInv
  <2>4. \A d \in Devices : \A i : i \in PendingFor(db', d) <=>
          d \notin E /\ i \in PendingFor(db, d) /\ i \notin gone
    BY <1>2, <2>2, <2>3, PendingIsTodo
  <2> QED
    BY <2>4
<1>5. CASE E # {}
  <2>1. Promise!Leave(E)
    <3>1. db'.changes = {m \in db.changes : m.device \notin E}
      BY <1>1, <1>3
    <3>2. db'.devices = db.devices \ E
      BY <1>1
    <3> QED
      BY <1>1, <1>4, <1>5, <3>1, <3>2 DEF Promise!Leave
  <2>2. E \in SUBSET Devices
    BY DEF TablesInv
  <2> QED
    BY <1>1, <1>2, <2>1, <2>2
<1>6. CASE E = {}
  <2>1. db'.changes = db.changes /\ db'.devices = db.devices
    BY <1>1, <1>3, <1>6
  <2>2. \A d \in Devices : PendingFor(db', d) = PendingFor(db, d)
    BY <1>4, <1>6 DEF Promise!Ids
  <2> QED
    BY <1>1, <1>2, <2>1, <2>2 DEF Promise!mail
<1> QED
  BY <1>5, <1>6

--------------------------------------------------------------------------------
(* What the connections hold.                                                *)

\* What is loaded has been given an id, a task that has begun is in the queue, and
\* a confirmation that waits for its turn is one of a change the device has received.
GoodConnection(r, c, t, g) ==
  /\ r \in Connection
  /\ r.at # "start" => r.queue # << >>
  /\ r.at \in {"confirm", "close"} => r.queue[1][1] = "changedAck"
  /\ r.loaded \subseteq Known(t)
  /\ \A k \in 1..Len(r.queue) :
       r.queue[k][1] = "changedAck" => r.socket # "unused" /\ <<Owner[c], r.queue[k][2]>> \in g

\* A connection that is closing a change has been doing so.
Keeps(r, n) == n.at = "close" => r.at = "close" /\ n.queue[1] = r.queue[1]

LEMMA Handled ==
  ASSUME Promise!Handle \/ UNCHANGED Promise!mail,
         \A c \in Clients : Keeps(conn[c], conn'[c])
  PROVE  [Promise!Next]_(Promise!vars)
<1>1. Closing' \subseteq Closing
  BY DEF Closing, Keeps
<1> QED
  BY <1>1 DEF Promise!Next

\* What is sent has been given an id.
Carries(m) == m.type \in {"changed", "changedInfo"}
GoodMessages(s, t) ==
  /\ s \in Seq(DownMessage)
  /\ \A k \in 1..Len(s) : Carries(s[k]) => s[k].id \in Known(t)

ServerInv ==
  /\ TablesInv(db)
  /\ conn = [c \in Clients |-> conn[c]]
  /\ out = [c \in Clients |-> out[c]]
  /\ \A c \in Clients : GoodConnection(conn[c], c, db, got)
  /\ \A c \in Clients : GoodMessages(out[c], db)

\* What stays good when ids are given away and changes are received.
LEMMA StillGood ==
  ASSUME NEW t, NEW u, t.nextId \in Nat, u.nextId \in Nat, t.nextId <= u.nextId,
         NEW g, NEW h, g \subseteq h
  PROVE  /\ \A r, c : GoodConnection(r, c, t, g) => GoodConnection(r, c, u, h)
         /\ \A s : GoodMessages(s, t) => GoodMessages(s, u)
<1>1. Known(t) \subseteq Known(u)
  BY DEF Known
<1> QED
  BY <1>1 DEF GoodConnection, GoodMessages

LEMMA ServerInvStep ==
  ASSUME ServerInv, TablesInv(db'), db.nextId <= db'.nextId, got \subseteq got',
         conn' = [c \in Clients |-> conn'[c]],
         out' = [c \in Clients |-> out'[c]],
         \A c \in Clients : \/ conn'[c] = conn[c] \/ GoodConnection(conn'[c], c, db, got)
                          \/ GoodConnection(conn'[c], c, db', got'),
         \A c \in Clients : out'[c] = out[c] \/ GoodMessages(out'[c], db)
  PROVE  ServerInv'
<1>1. db.nextId \in Nat /\ db'.nextId \in Nat
  BY DEF ServerInv, TablesInv
<1>2. \A c \in Clients : GoodConnection(conn'[c], c, db', got')
  BY <1>1, StillGood DEF ServerInv
<1>3. \A c \in Clients : GoodMessages(out'[c], db')
  BY <1>1, StillGood DEF ServerInv
<1> QED
  BY <1>2, <1>3 DEF ServerInv

LEMMA Tasks ==
  \A task \in Task :
    /\ task[1] = "change" => task[2] \in Datasets
    /\ task[1] = "deviceChange" => task[2] \in Devices /\ task[3] \in Datasets
    /\ task[1] = "remove" => task[2] \in Devices
  BY DEF Task, SyncMessage, ChangeMessage, DeviceChangeMessage, ChangedAckMessage, RemoveMessage

\* A task is put at the end of the queue.
LEMMA QueuedGood ==
  ASSUME NEW r, NEW c, NEW t, NEW g, GoodConnection(r, c, t, g), NEW task \in Task,
         task[1] = "changedAck" => r.socket # "unused" /\ <<Owner[c], task[2]>> \in g
  PROVE  /\ GoodConnection([r EXCEPT !.queue = Append(@, task)], c, t, g)
         /\ Keeps(r, [r EXCEPT !.queue = Append(@, task)])
<1>1. r.queue \in Seq(Task)
  BY DEF GoodConnection, Connection
<1> DEFINE queue == Append(r.queue, task)
<1>2. /\ queue \in Seq(Task) /\ queue # << >>
      /\ \A k \in 1..Len(queue) : queue[k] = task \/ (k \in 1..Len(r.queue) /\ queue[k] = r.queue[k])
      /\ r.queue # << >> => queue[1] = r.queue[1]
  <2>1. queue \in Seq(Task) /\ Len(queue) = Len(r.queue) + 1 /\ Len(r.queue) \in Nat
    BY <1>1
  <2>2. queue # << >>
    <3> HIDE DEF queue
    <3> QED
      BY <2>1
  <2> QED
    BY <1>1, <2>1, <2>2
<1> HIDE DEF queue
<1>3. [r EXCEPT !.queue = queue] \in Connection
  BY <1>2 DEF GoodConnection, Connection
<1> DEFINE n == [r EXCEPT !.queue = queue]
<1>4. n.queue = queue /\ n.loaded = r.loaded /\ n.at = r.at /\ n.socket = r.socket
  BY DEF GoodConnection, Connection
<1> HIDE DEF n
<1>5. GoodConnection(n, c, t, g)
  BY <1>2, <1>3, <1>4 DEF GoodConnection, n
<1>6. Keeps(r, n)
  BY <1>2, <1>4 DEF GoodConnection, Keeps
<1> QED
  BY <1>5, <1>6 DEF queue, n

\* A task has come to its end.
LEMMA DoneGood ==
  ASSUME NEW r, NEW c, NEW t, NEW g, GoodConnection(r, c, t, g), r.queue # << >>
  PROVE  GoodConnection(Done(r), c, t, g) /\ Done(r).at = "start"
<1>1. r.queue \in Seq(Task)
  BY DEF GoodConnection, Connection
<1> DEFINE queue == Tail(r.queue)
<1>2. /\ queue \in Seq(Task)
      /\ \A k \in 1..Len(queue) : k + 1 \in 1..Len(r.queue) /\ queue[k] = r.queue[k + 1]
  BY <1>1
<1>3. Done(r) = [r EXCEPT !.queue = queue, !.at = "start", !.loaded = {}]
  BY DEF Done, GoodConnection, Connection
<1> HIDE DEF queue
<1>4. /\ Done(r) \in Connection
      /\ Done(r).queue = queue /\ Done(r).loaded = {} /\ Done(r).at = "start"
      /\ Done(r).socket = r.socket
  BY <1>2, <1>3 DEF GoodConnection, Connection
<1> QED
  BY <1>2, <1>4 DEF GoodConnection

\* Tasks are dropped, and only the one that runs is left.
LEMMA ClosedGood ==
  ASSUME NEW r, NEW c, NEW t, NEW g, GoodConnection(r, c, t, g)
  PROVE  /\ GoodConnection(Closed(r), c, t, g) /\ GoodConnection(Dropped(r), c, t, g)
         /\ Keeps(r, Closed(r)) /\ Keeps(r, Dropped(r))
<1>1. r.queue \in Seq(Task)
  BY DEF GoodConnection, Connection
<1> DEFINE queue == IF r.queue = << >> THEN r.queue ELSE <<Head(r.queue)>>
<1>2. /\ queue \in Seq(Task) /\ (r.queue # << >> => queue # << >>)
      /\ \A k \in 1..Len(queue) : k \in 1..Len(r.queue) /\ queue[k] = r.queue[k]
      /\ r.queue # << >> => queue[1] = r.queue[1]
  <2>1. CASE r.queue = << >>
    BY <1>1, <2>1
  <2>2. CASE r.queue # << >>
    BY <1>1, <2>2
  <2> QED
    BY <2>1, <2>2
<1>3. Closed(r) = [r EXCEPT !.socket = "closed", !.queue = queue]
  BY DEF Closed, GoodConnection, Connection
<1> HIDE DEF queue
<1>4. /\ Closed(r) \in Connection
      /\ Closed(r).queue = queue /\ Closed(r).loaded = r.loaded /\ Closed(r).at = r.at
      /\ Closed(r).socket = "closed"
  BY <1>2, <1>3 DEF GoodConnection, Connection
<1>5. GoodConnection(Closed(r), c, t, g)
  BY <1>2, <1>4 DEF GoodConnection
<1>6. Keeps(r, Closed(r))
  BY <1>2, <1>4 DEF GoodConnection, Keeps
<1> QED
  BY <1>5, <1>6 DEF Dropped, Keeps

LEMMA SentGood ==
  ASSUME ServerInv, NEW c \in Clients, NEW messages, Sent(c, messages),
         \/ messages = << >>
         \/ \E m \in DownMessage : messages = <<m>> /\ (Carries(m) => m.id \in Known(db))
  PROVE  /\ out' = [d \in Clients |-> out'[d]]
         /\ \A d \in Clients : out'[d] = out[d] \/ GoodMessages(out'[d], db)
<1>1. /\ out' = [d \in Clients |-> out'[d]]
      /\ \A d \in Clients : out'[d] = out[d] \/ out'[d] = out[d] \o messages
  BY DEF Sent, ServerInv
<1>2. \A d \in Clients : GoodMessages(out[d] \o messages, db)
  <2>1. CASE messages = << >>
    BY <2>1 DEF ServerInv, GoodMessages
  <2>2. CASE messages # << >>
    <3>1. PICK m \in DownMessage : messages = <<m>> /\ (Carries(m) => m.id \in Known(db))
      BY <2>2
    <3> SUFFICES ASSUME NEW d \in Clients
                 PROVE  GoodMessages(out[d] \o messages, db)
      OBVIOUS
    <3>2. out[d] \in Seq(DownMessage) /\ GoodMessages(out[d], db)
      BY DEF ServerInv, GoodMessages
    <3> DEFINE all == out[d] \o messages
    <3>3. /\ all \in Seq(DownMessage)
          /\ \A k \in 1..Len(all) : all[k] = m \/ (k \in 1..Len(out[d]) /\ all[k] = out[d][k])
      BY <3>1, <3>2
    <3> HIDE DEF all
    <3>4. GoodMessages(all, db)
      BY <3>1, <3>2, <3>3 DEF GoodMessages
    <3> QED
      BY <3>4 DEF all
  <2> QED
    BY <2>1, <2>2
<1> QED
  BY <1>1, <1>2

--------------------------------------------------------------------------------
(* Numbers.                                                                  *)

LEMMA WordIsNat == ASSUME NEW n \in Int PROVE Word(n) \in Nat
<1>1. Words \in Nat \ {0}
  BY ServerAssumption
<1> QED
  BY <1>1 DEF Word

LEMMA CountIsNat ==
  ASSUME NEW t, TablesInv(t), NEW d
  PROVE  changeCount(t, d) \in Nat
<1>1. PendingFor(t, d) \subseteq 1..(t.nextId - 1)
  <2> SUFFICES ASSUME NEW i \in PendingFor(t, d)
               PROVE  i \in Known(t)
    BY DEF Known
  <2>1. <<i, d>> \in t.todo
    BY PendingIsTodo
  <2> QED
    BY <2>1 DEF TablesInv
<1>2. IsFiniteSet(1..(t.nextId - 1))
  BY FS_Interval DEF TablesInv
<1>3. IsFiniteSet(PendingFor(t, d))
  BY <1>1, <1>2, FS_Subset
<1> QED
  BY <1>3, FS_CardinalityType DEF changeCount

\* The first occurrence exists as the naturals are well-founded.
LEMMA RemovedType ==
  ASSUME NEW s \in Seq(Nat), NEW i
  PROVE  RemoveFirst(s, i) \in Seq(Nat)
<1> DEFINE I == {k \in 1..Len(s) : s[k] = i}
<1>1. CASE I = {}
  BY <1>1 DEF RemoveFirst
<1>2. CASE I # {}
  <2>1. RemoveFirst(s, i) = RemoveAt(s, Min(I))
    BY <1>2 DEF RemoveFirst, SelectInSeq
  <2>2. \E k \in I : \A l \in I : k <= l
    <3> DEFINE R == {p \in Nat \X Nat : p[1] < p[2]}
    <3>1. IsWellFoundedOn(R, Nat)
      BY NatLessThanWellFounded DEF OpToRel
    <3>2. PICK k \in I : \A l \in I : <<l, k>> \notin R
      BY <1>2, <3>1, WFMin
    <3>3. \A l \in I : l \in Nat /\ (<<l, k>> \in R <=> l < k)
      OBVIOUS
    <3>4. k \in Nat /\ \A l \in I : l \in Nat /\ ~(l < k)
      BY <3>2, <3>3
    <3> QED
      BY <3>2, <3>4
  <2> DEFINE k == Min(I)
  <2>3. k \in I
    BY <2>2 DEF Min
  <2> HIDE DEF k
  <2>4. SubSeq(s, 1, k - 1) \in Seq(Nat) /\ SubSeq(s, k + 1, Len(s)) \in Seq(Nat)
    BY <2>3, SubSeqProperties, ElementOfSeq
  <2>5. RemoveAt(s, k) \in Seq(Nat)
    BY <2>4, ConcatProperties DEF RemoveAt
  <2> QED
    BY <2>1, <2>5 DEF k
<1> QED
  BY <1>1, <1>2

--------------------------------------------------------------------------------
(* Steps of tasks.                                                           *)

Implements == ServerInv' /\ [Promise!Next]_(Promise!vars)

\* A step that leaves the tables and what was received alone is a stutter.
LEMMA QuietStep ==
  ASSUME ServerInv, UNCHANGED <<db, got>>,
         conn' = [c \in Clients |-> conn'[c]],
         out' = [c \in Clients |-> out'[c]],
         \A c \in Clients : conn'[c] = conn[c] \/ GoodConnection(conn'[c], c, db, got),
         \A c \in Clients : Keeps(conn[c], conn'[c]),
         \A c \in Clients : out'[c] = out[c] \/ GoodMessages(out'[c], db)
  PROVE  Implements
<1>1. TablesInv(db') /\ db.nextId <= db'.nextId /\ got \subseteq got'
  BY DEF ServerInv, TablesInv
<1>2. ServerInv'
  BY <1>1, ServerInvStep
<1>3. UNCHANGED Promise!mail
  BY DEF Promise!mail
<1> QED
  BY <1>2, <1>3, Handled DEF Implements

\* The connection of one client changes, and only its fields that do not matter.
LEMMA SameQueue ==
  ASSUME NEW r, NEW n \in Connection, NEW c, NEW t, NEW g, GoodConnection(r, c, t, g),
         n.queue = r.queue, n.at = r.at, n.socket = r.socket, n.loaded \subseteq Known(t)
  PROVE  GoodConnection(n, c, t, g)
  BY DEF GoodConnection

LEMMA OneConnection ==
  ASSUME ServerInv, NEW c \in Clients, NEW n, conn' = [conn EXCEPT ![c] = n]
  PROVE  /\ conn' = [d \in Clients |-> conn'[d]]
         /\ conn'[c] = n /\ \A d \in Clients \ {c} : conn'[d] = conn[d]
         /\ Keeps(conn[c], n) => \A d \in Clients : Keeps(conn[d], conn'[d])
  BY DEF ServerInv, Keeps

\* A task that is not at the end of completeChange keeps nothing.
LEMMA KeepsNothing ==
  ASSUME NEW r \in Connection
  PROVE  /\ \A q : Keeps(q, Done(r))
         /\ \A q, state : Keeps(q, [Done(r) EXCEPT !.state = state])
         /\ \A q, count : Keeps(q, [Done(r) EXCEPT !.cached = count])
         /\ \A q, n : n.at # "close" => Keeps(q, n)
         /\ \A n : n.at = r.at /\ n.queue = r.queue => Keeps(r, n)
<1>1. Done(r).at = "start" /\ (\A state : [Done(r) EXCEPT !.state = state].at = "start")
      /\ (\A count : [Done(r) EXCEPT !.cached = count].at = "start")
  BY DEF Done, Connection
<1> QED
  BY <1>1 DEF Keeps

\* A task that only moves on, and sends at most one message, or none is left.
LEMMA TaskMoves ==
  ASSUME ServerInv, NEW c \in Clients, NEW n, conn' = [conn EXCEPT ![c] = n],
         GoodConnection(n, c, db, got), Keeps(conn[c], n), UNCHANGED <<db, got>>,
         \/ UNCHANGED out
         \/ out' = [out EXCEPT ![c] = << >>]
         \/ Sent(c, << >>)
         \/ \E m \in DownMessage : Sent(c, <<m>>) /\ (Carries(m) => m.id \in Known(db))
  PROVE  Implements
<1>1. /\ conn' = [d \in Clients |-> conn'[d]]
      /\ conn'[c] = n /\ \A d \in Clients \ {c} : conn'[d] = conn[d]
      /\ \A d \in Clients : Keeps(conn[d], conn'[d])
  BY OneConnection
<1>2. /\ out' = [d \in Clients |-> out'[d]]
      /\ \A d \in Clients : out'[d] = out[d] \/ GoodMessages(out'[d], db)
  <2>1. CASE UNCHANGED out
    BY <2>1 DEF ServerInv
  <2>2. CASE Sent(c, << >>)
    BY <2>2, SentGood
  <2>4. CASE out' = [out EXCEPT ![c] = << >>]
    <3>1. GoodMessages(<< >>, db)
      BY DEF GoodMessages
    <3>2. /\ out' = [d \in Clients |-> out'[d]]
          /\ \A d \in Clients : out'[d] = out[d] \/ out'[d] = << >>
      BY <2>4 DEF ServerInv
    <3> QED
      BY <3>1, <3>2
  <2>3. CASE \E m \in DownMessage : Sent(c, <<m>>) /\ (Carries(m) => m.id \in Known(db))
    BY <2>3, SentGood
  <2> QED
    BY <2>1, <2>2, <2>3, <2>4
<1> QED
  BY <1>1, <1>2, QuietStep

\* What the steps of a task change besides its queue.
LEMMA MovedGood ==
  ASSUME NEW r, NEW c, NEW t, NEW g, GoodConnection(r, c, t, g), r.queue # << >>
  PROVE  /\ \A at \in {"announce", "load"} : GoodConnection([r EXCEPT !.at = at], c, t, g)
         /\ \A count \in Nat : GoodConnection([r EXCEPT !.cached = count, !.at = "announce"], c, t, g)
         /\ GoodConnection([r EXCEPT !.state = "Idle", !.at = "load"], c, t, g)
         /\ \A L \in SUBSET Known(t) : GoodConnection([r EXCEPT !.at = "send", !.loaded = L], c, t, g)
         /\ \A active \in Seq(Nat) : GoodConnection([r EXCEPT !.active = active, !.at = "load"], c, t, g)
         /\ r.queue[1][1] = "changedAck" =>
              \A at \in {"confirm", "close"} : GoodConnection([r EXCEPT !.at = at], c, t, g)
         /\ \A active \in Seq(Nat), count \in Nat, L \in SUBSET Known(t) :
              GoodConnection([r EXCEPT !.loaded = L, !.active = active, !.cached = count], c, t, g)
<1>1. r \in Connection /\ r.loaded \subseteq Known(t) /\ Known(t) \subseteq Nat
  BY DEF GoodConnection, Known
<1>2. \A at \in {"announce", "load"} : GoodConnection([r EXCEPT !.at = at], c, t, g)
  BY <1>1 DEF GoodConnection, Connection
<1>3. \A count \in Nat : GoodConnection([r EXCEPT !.cached = count, !.at = "announce"], c, t, g)
  BY <1>1 DEF GoodConnection, Connection
<1>4. GoodConnection([r EXCEPT !.state = "Idle", !.at = "load"], c, t, g)
  BY <1>1 DEF GoodConnection, Connection
<1>5. \A L \in SUBSET Known(t) : GoodConnection([r EXCEPT !.at = "send", !.loaded = L], c, t, g)
  BY <1>1 DEF GoodConnection, Connection
<1>6. \A active \in Seq(Nat) : GoodConnection([r EXCEPT !.active = active, !.at = "load"], c, t, g)
  BY <1>1 DEF GoodConnection, Connection
<1>8. r.queue[1][1] = "changedAck" =>
        \A at \in {"confirm", "close"} : GoodConnection([r EXCEPT !.at = at], c, t, g)
  BY <1>1 DEF GoodConnection, Connection
<1>7. \A active \in Seq(Nat), count \in Nat, L \in SUBSET Known(t) :
        GoodConnection([r EXCEPT !.loaded = L, !.active = active, !.cached = count], c, t, g)
  <2> TAKE active \in Seq(Nat), count \in Nat, L \in SUBSET Known(t)
  <2> DEFINE n == [r EXCEPT !.loaded = L, !.active = active, !.cached = count]
  <2>1. /\ n \in Connection /\ n.queue = r.queue /\ n.loaded = L
        /\ n.at = r.at /\ n.socket = r.socket
    BY <1>1 DEF Connection
  <2> HIDE DEF n
  <2>2. GoodConnection(n, c, t, g)
    BY <2>1, SameQueue
  <2> QED
    BY <2>2 DEF n
<1> QED
  BY <1>2, <1>3, <1>4, <1>5, <1>6, <1>7, <1>8

\* What may change after the end of a task, too.
LEMMA MarkedGood ==
  ASSUME NEW r, NEW c, NEW t, NEW g, GoodConnection(r, c, t, g)
  PROVE  /\ \A count \in Nat : GoodConnection([r EXCEPT !.cached = count], c, t, g)
         /\ \A n : n.at = r.at /\ n.queue = r.queue => Keeps(r, n)
         /\ \A state \in {"Authenticating", "Idle", "Error"} :
              GoodConnection([r EXCEPT !.state = state], c, t, g)
         /\ \A peer \in {"login", "ready", "left"} :
              GoodConnection([r EXCEPT !.peer = peer], c, t, g)
         /\ \A b \in BOOLEAN : GoodConnection([r EXCEPT !.registered = b], c, t, g)
         /\ GoodConnection([r EXCEPT !.socket = "destroyed", !.peer = "left"], c, t, g)
<1>1. \A count \in Nat : GoodConnection([r EXCEPT !.cached = count], c, t, g)
  BY DEF GoodConnection, Connection
<1>2. \A state \in {"Authenticating", "Idle", "Error"} :
        GoodConnection([r EXCEPT !.state = state], c, t, g)
  BY DEF GoodConnection, Connection
<1>3. \A peer \in {"login", "ready", "left"} : GoodConnection([r EXCEPT !.peer = peer], c, t, g)
  BY DEF GoodConnection, Connection
<1>4. \A b \in BOOLEAN : GoodConnection([r EXCEPT !.registered = b], c, t, g)
  BY DEF GoodConnection, Connection
<1>5. GoodConnection([r EXCEPT !.socket = "destroyed", !.peer = "left"], c, t, g)
  BY DEF GoodConnection, Connection
<1> QED
  BY <1>1, <1>2, <1>3, <1>4, <1>5 DEF Keeps

LEMMA SendErrorStep ==
  ASSUME ServerInv, NEW c \in Clients, conn[c].queue # << >>, SendError(c), UNCHANGED got
  PROVE  Implements
<1> DEFINE n == [Done(conn[c]) EXCEPT !.state = "Error"]
<1>1. GoodConnection(Done(conn[c]), c, db, got)
  BY DoneGood DEF ServerInv
<1>2. GoodConnection(n, c, db, got)
  BY <1>1, MarkedGood
<1>3. conn' = [conn EXCEPT ![c] = n] /\ Sent(c, <<ErrorMessage>>) /\ UNCHANGED db
  BY DEF SendError
<1>5. Keeps(conn[c], n)
  BY KeepsNothing DEF ServerInv, GoodConnection
<1> HIDE DEF n
<1>4. ErrorMessage \in DownMessage /\ ~Carries(ErrorMessage)
  BY DEF DownMessage, ErrorMessage, Carries
<1> QED
  BY <1>2, <1>3, <1>4, <1>5, TaskMoves

LEMMA IgnoredStep ==
  ASSUME ServerInv, NEW c \in Clients, Ignored(c), UNCHANGED got
  PROVE  Implements
<1>1. GoodConnection(Done(conn[c]), c, db, got)
  BY DoneGood DEF ServerInv, Ignored
<1>2. Keeps(conn[c], Done(conn[c]))
  BY KeepsNothing DEF ServerInv, GoodConnection
<1> QED
  BY <1>1, <1>2, TaskMoves DEF Ignored

LEMMA LoginStep ==
  ASSUME ServerInv, NEW c \in Clients, onLogin(c) \/ Announce(c) \/ onSync(c), UNCHANGED got
  PROVE  Implements
<1> DEFINE r == conn[c]
<1>1. GoodConnection(r, c, db, got) /\ r.queue # << >>
  BY DEF ServerInv, GoodConnection, onLogin, Announce, onSync, Runs
<1>2. CASE onLogin(c)
  <2>1. CASE Owner[c] \notin db.devices
    BY <1>2, <2>1, SendErrorStep DEF onLogin, Runs
  <2>2. CASE Owner[c] \in db.devices
    <3> DEFINE n == [r EXCEPT !.cached = changeCount(db, Owner[c]), !.at = "announce"]
    <3>1. conn' = [conn EXCEPT ![c] = n] /\ UNCHANGED <<db, out>>
      BY <1>2, <2>2 DEF onLogin
    <3>2. changeCount(db, Owner[c]) \in Nat
      BY CountIsNat DEF ServerInv
    <3>3. GoodConnection(n, c, db, got)
      BY <1>1, <3>2, MovedGood
    <3>4. Keeps(r, n)
      BY <1>1 DEF Keeps, GoodConnection, Connection
    <3> QED
      BY <3>1, <3>3, <3>4, TaskMoves
  <2> QED
    BY <2>1, <2>2
<1>3. CASE Announce(c)
  <2> DEFINE n == [r EXCEPT !.state = "Idle", !.at = "load"]
             m == WelcomeMessage(r.cached > 0)
  <2>1. conn' = [conn EXCEPT ![c] = n] /\ Sent(c, <<m>>) /\ UNCHANGED db
    BY <1>3 DEF Announce
  <2>2. GoodConnection(n, c, db, got)
    <3> HIDE DEF m
    <3> QED
      BY <1>1, MovedGood
  <2>4. Keeps(r, n)
    BY <1>1 DEF Keeps, GoodConnection, Connection
  <2>3. m \in DownMessage /\ ~Carries(m)
    <3>1. \A b \in BOOLEAN : WelcomeMessage(b) \in DownMessage
      BY DEF DownMessage
    <3>2. \A b \in BOOLEAN : ~Carries(WelcomeMessage(b))
      BY DEF WelcomeMessage, Carries
    <3>3. (r.cached > 0) \in BOOLEAN
      OBVIOUS
    <3> QED
      BY <3>1, <3>2, <3>3
  <2> HIDE DEF n, m
  <2> QED
    BY <2>1, <2>2, <2>3, <2>4, TaskMoves
<1>4. CASE onSync(c)
  <2> DEFINE n == [r EXCEPT !.at = "load"]
  <2>1. conn' = [conn EXCEPT ![c] = n] /\ UNCHANGED <<db, out>>
    BY <1>4 DEF onSync
  <2>2. GoodConnection(n, c, db, got)
    BY <1>1, MovedGood
  <2>3. Keeps(r, n)
    BY <1>1 DEF Keeps, GoodConnection, Connection
  <2> QED
    BY <2>1, <2>2, <2>3, TaskMoves
<1> QED
  BY <1>2, <1>3, <1>4

\* triggerDownload only touches what has been given an id.
LEMMA DownloadStep ==
  ASSUME ServerInv, NEW c \in Clients,
         LoadChanges(c) \/ SendChange(c) \/ EndDownload(c), UNCHANGED got
  PROVE  Implements
<1> DEFINE r == conn[c]
<1>1. /\ GoodConnection(r, c, db, got) /\ r.queue # << >>
      /\ r.active \in Seq(Nat) /\ r.cached \in Nat /\ Len(r.active) \in Nat
  <2>1. GoodConnection(r, c, db, got)
    BY DEF ServerInv
  <2>2. r.at = "load" \/ r.at = "send"
    BY DEF LoadChanges, SendChange, EndDownload
  <2>3. r.queue # << >>
    BY <2>1, <2>2 DEF GoodConnection
  <2>4. r.active \in Seq(Nat) /\ r.cached \in Nat
    BY <2>1 DEF GoodConnection, Connection
  <2> QED
    BY <2>1, <2>3, <2>4
<1>2. CASE LoadChanges(c)
  <2> DEFINE used == Len(r.active)
             count == Word(DownLimit - used)
             loaded == IF count >= DownThreshold
                         THEN loadNextChanges(db, Owner[c], count, used) ELSE {}
             n == [r EXCEPT !.at = "send", !.loaded = loaded]
  <2>1. conn' = [conn EXCEPT ![c] = n] /\ UNCHANGED <<db, out>>
    BY <1>2 DEF LoadChanges
  <2>2. PendingFor(db, Owner[c]) \subseteq Known(db)
    <3> SUFFICES ASSUME NEW i \in PendingFor(db, Owner[c])
                 PROVE  i \in Known(db)
      OBVIOUS
    <3>1. TablesInv(db) /\ <<i, Owner[c]>> \in db.todo
      BY PendingIsTodo DEF ServerInv
    <3> QED
      BY <3>1 DEF TablesInv
  <2>3. loaded \subseteq Known(db)
    BY <2>2 DEF loadNextChanges
  <2> HIDE DEF loaded
  <2>4. GoodConnection(n, c, db, got)
    BY <1>1, <2>3, MovedGood
  <2>5. Keeps(r, n)
    BY <1>1 DEF Keeps, GoodConnection, Connection
  <2> QED
    BY <2>1, <2>4, <2>5, TaskMoves
<1>3. CASE SendChange(c)
  <2> DEFINE used == Len(r.active)
             counted == r.cached = 0
             count == IF counted THEN Word(changeCount(db, Owner[c]) - used) ELSE r.cached
             info == counted \/ (r.queue[1] = <<"login">> /\ used = 0)
  <2>1. PICK i \in r.loaded :
          /\ conn' = [conn EXCEPT ![c].loaded = @ \ {i}, ![c].active = Append(@, i),
                                  ![c].cached = Word(count - 1)]
          /\ Sent(c, <<IF info THEN ChangedInfoMessage(i, count) ELSE ChangedMessage(i)>>)
    BY <1>3 DEF SendChange
  <2>2. changeCount(db, Owner[c]) \in Nat
    BY CountIsNat DEF ServerInv
  <2>3. count \in Nat /\ Word(count - 1) \in Nat
    <3>1. changeCount(db, Owner[c]) - used \in Int
      BY <1>1, <2>2
    <3>2. Word(changeCount(db, Owner[c]) - used) \in Nat
      BY <3>1, WordIsNat
    <3>3. count \in Nat
      BY <1>1, <3>2
    <3> HIDE DEF count
    <3>4. count - 1 \in Int
      BY <3>3
    <3> QED
      BY <3>3, <3>4, WordIsNat
  <2>4. i \in Known(db) /\ i \in Nat
    BY <1>1 DEF GoodConnection, Known
  <2> DEFINE m == IF info THEN ChangedInfoMessage(i, count) ELSE ChangedMessage(i)
             n == [r EXCEPT !.loaded = r.loaded \ {i}, !.active = Append(r.active, i),
                            !.cached = Word(count - 1)]
  <2> HIDE DEF info, count
  <2>5. m \in DownMessage /\ m.id = i
    BY <2>3, <2>4 DEF DownMessage, ChangedInfoMessage, ChangedMessage
  <2>6. Append(r.active, i) \in Seq(Nat) /\ r.loaded \ {i} \in SUBSET Known(db)
    BY <1>1, <2>4 DEF GoodConnection
  <2>7. GoodConnection(n, c, db, got)
    BY <1>1, <2>3, <2>6, MovedGood
  <2>8. conn' = [conn EXCEPT ![c] = n]
    BY <2>1 DEF ServerInv
  <2>9. Sent(c, <<m>>) /\ UNCHANGED db
    BY <1>3, <2>1 DEF SendChange
  <2>10. n.at = r.at /\ n.queue = r.queue
    BY <1>1 DEF GoodConnection, Connection
  <2> HIDE DEF m, n
  <2>11. Keeps(r, n)
    BY <2>10 DEF Keeps
  <2> QED
    BY <2>4, <2>5, <2>7, <2>8, <2>9, <2>11, TaskMoves
<1>4. CASE EndDownload(c)
  <2> DEFINE last == r.active = << >> /\ ~(r.queue[1] = <<"login">> /\ r.cached = 0)
             n == IF last THEN [Done(r) EXCEPT !.cached = 0] ELSE Done(r)
  <2>1. /\ conn' = [conn EXCEPT ![c] = n]
        /\ Sent(c, IF last THEN <<LastChangedMessage>> ELSE << >>)
        /\ UNCHANGED db
    BY <1>4 DEF EndDownload
  <2>2. GoodConnection(Done(r), c, db, got)
    BY <1>1, DoneGood
  <2>3. GoodConnection([Done(r) EXCEPT !.cached = 0], c, db, got)
    BY <2>2, MarkedGood
  <2>4. GoodConnection(n, c, db, got)
    BY <2>2, <2>3
  <2>5. LastChangedMessage \in DownMessage /\ ~Carries(LastChangedMessage)
    BY DEF DownMessage, LastChangedMessage, Carries
  <2>6. Keeps(r, n)
    BY <1>1, KeepsNothing DEF GoodConnection
  <2> HIDE DEF n, last
  <2> QED
    BY <2>1, <2>4, <2>5, <2>6, TaskMoves
<1> QED
  BY <1>2, <1>3, <1>4

\* A transaction of a task that is a step of the mailboxes.
LEMMA TransactionStep ==
  ASSUME ServerInv, TablesInv(db'), db.nextId <= db'.nextId,
         Promise!Handle \/ UNCHANGED Promise!mail,
         NEW c \in Clients, NEW n, conn' = [conn EXCEPT ![c] = n],
         GoodConnection(n, c, db, got), Keeps(conn[c], n), UNCHANGED <<out, got>>
  PROVE  Implements
<1>1. /\ conn' = [d \in Clients |-> conn'[d]]
      /\ conn'[c] = n /\ \A d \in Clients \ {c} : conn'[d] = conn[d]
      /\ \A d \in Clients : Keeps(conn[d], conn'[d])
  BY OneConnection
<1>2. out' = [d \in Clients |-> out'[d]]
  BY DEF ServerInv
<1>3. ServerInv'
  BY <1>1, <1>2, ServerInvStep
<1> QED
  BY <1>1, <1>3, Handled DEF Implements

\* A change is posted, or the device is told of an error.
LEMMA ChangeStep ==
  ASSUME ServerInv, NEW c \in Clients, onChange(c) \/ onDeviceChange(c), UNCHANGED got
  PROVE  Implements
<1> DEFINE task == conn[c].queue[1]
           d == Owner[c]
           result == IF onChange(c) THEN addChange(db, d, task[2])
                     ELSE addDeviceChange(db, d, task[2], task[3])
<1>1. /\ GoodConnection(conn[c], c, db, got) /\ conn[c].queue # << >>
      /\ conn[c].queue \in Seq(Task) /\ d \in Devices /\ TablesInv(db)
  BY ServerAssumption DEF ServerInv, GoodConnection, Connection, onChange, onDeviceChange, Runs, Clients
<1>2. task \in Task
  BY <1>1
<1>3. Transaction(c, result)
  BY DEF onChange, onDeviceChange
<1>4. CASE result.is # "ok"
  BY <1>1, <1>3, <1>4, SendErrorStep DEF Transaction
<1>5. CASE result.is = "ok"
  <2>1. db' = result.tables /\ conn' = [conn EXCEPT ![c] = Done(@)] /\ UNCHANGED out
    BY <1>3, <1>5 DEF Transaction
  <2>2. TablesInv(db') /\ db.nextId <= db'.nextId /\ Promise!Handle
    <3>1. CASE onChange(c)
      <4>1. task[2] \in Datasets
        BY <1>2, <3>1, Tasks DEF onChange, Runs
      <4>2. TablesInv(db') /\ db.nextId <= db'.nextId /\ Promise!Post(d, task[2])
        BY <1>1, <1>5, <2>1, <3>1, <4>1, PostStep
      <4> QED
        BY <4>1, <4>2 DEF Promise!Handle, Promise!Post
    <3>2. CASE ~onChange(c)
      <4>1. task[2] \in Devices /\ task[3] \in Datasets
        BY <1>2, <3>2, Tasks DEF onDeviceChange, Runs
      <4>2. TablesInv(db') /\ db.nextId <= db'.nextId /\ Promise!Share(d, task[2], task[3])
        BY <1>1, <1>5, <2>1, <3>2, <4>1, ShareStep
      <4> QED
        BY <4>1, <4>2 DEF Promise!Handle, Promise!Share
    <3> QED
      BY <3>1, <3>2
  <2>3. GoodConnection(Done(conn[c]), c, db, got)
    BY <1>1, DoneGood
  <2>4. UNCHANGED got
    OBVIOUS
  <2>5. Keeps(conn[c], Done(conn[c]))
    BY <1>1, KeepsNothing DEF GoodConnection
  <2> QED
    BY <2>1, <2>2, <2>3, <2>4, <2>5, TransactionStep
<1> QED
  BY <1>4, <1>5

LEMMA RemoveStep ==
  ASSUME ServerInv, NEW c \in Clients, onRemove(c), UNCHANGED got
  PROVE  Implements
<1> DEFINE target == conn[c].queue[1][2]
           n == IF target = Owner[c] THEN [Done(conn[c]) EXCEPT !.state = "Error"]
                ELSE Done(conn[c])
<1>1. /\ db' = removeDevice(db, Owner[c], target)
      /\ conn' = [conn EXCEPT ![c] = n] /\ UNCHANGED out /\ conn[c].queue # << >>
  BY DEF onRemove, Runs
<1>2. GoodConnection(conn[c], c, db, got)
  BY DEF ServerInv
<1>3. GoodConnection(Done(conn[c]), c, db, got)
  BY <1>1, <1>2, DoneGood
<1>4. GoodConnection([Done(conn[c]) EXCEPT !.state = "Error"], c, db, got)
  BY <1>3, MarkedGood
<1>5. GoodConnection(n, c, db, got)
  BY <1>3, <1>4
<1>6. TablesInv(db) /\ db.nextId \in Nat
  BY DEF ServerInv, TablesInv
<1>7. db' = db \/ db' = DeleteDevices(db, {target})
  BY <1>1, <1>6, TablesStay
<1>9. Keeps(conn[c], n)
  BY <1>2, KeepsNothing DEF GoodConnection
<1> HIDE DEF n, target
<1>8. TablesInv(db') /\ db.nextId <= db'.nextId /\ (Promise!Handle \/ UNCHANGED Promise!mail)
  <2>1. CASE db' = db
    BY <1>6, <2>1 DEF Promise!mail
  <2>2. CASE db' = DeleteDevices(db, {target})
    BY <1>6, <2>2, LeaveStep DEF Promise!Handle
  <2> QED
    BY <1>7, <2>1, <2>2
<1> QED
  BY <1>1, <1>5, <1>8, <1>9, TransactionStep

\* A device confirms only what it has received, and finds who else is to have it.
LEMMA AckStep ==
  ASSUME ServerInv, NEW c \in Clients, onChangedAck(c), UNCHANGED got
  PROVE  Implements
<1> DEFINE r == conn[c]
           i == r.queue[1][2]
           at == IF NobodyElse(db, Owner[c], i) THEN "close" ELSE "confirm"
           n == [r EXCEPT !.at = at]
<1>1. /\ r.queue # << >> /\ r.queue[1][1] = "changedAck" /\ r.at = "start"
      /\ conn' = [conn EXCEPT ![c] = n] /\ UNCHANGED <<db, out>>
  BY DEF onChangedAck, Runs
<1>2. GoodConnection(r, c, db, got) /\ TablesInv(db)
  BY DEF ServerInv
<1>3. at \in {"confirm", "close"}
  OBVIOUS
<1>4. GoodConnection(n, c, db, got) /\ n.at = at /\ n.queue = r.queue
  <2> HIDE DEF at
  <2>1. GoodConnection(n, c, db, got)
    BY <1>1, <1>2, <1>3, MovedGood
  <2> QED
    BY <1>2, <2>1 DEF GoodConnection, Connection
<1>5. <<Owner[c], i>> \in got
  <2>1. r.queue \in Seq(Task)
    BY <1>2 DEF GoodConnection, Connection
  <2>2. 1 \in 1..Len(r.queue)
    BY <1>1, <2>1
  <2> QED
    BY <1>1, <1>2, <2>2 DEF GoodConnection
<1>6. NobodyElse(db, Owner[c], i) => \A e \in Devices \ {Owner[c]} : i \notin PendingFor(db, e)
  <2>1. ASSUME NobodyElse(db, Owner[c], i), NEW e \in Devices, i \in PendingFor(db, e)
        PROVE  e = Owner[c]
    <3> DEFINE p == <<i, e>>
    <3>1. p \in db.todo /\ p[1] = i /\ p[2] = e
      BY <1>2, <2>1, PendingIsTodo
    <3> HIDE DEF p
    <3> QED
      BY <2>1, <3>1 DEF NobodyElse
  <2> QED
    BY <2>1
<1> DEFINE p == <<Owner[c], i>>
<1>7. CASE at = "confirm"
  <2>1. Keeps(r, n)
    BY <1>4, <1>7 DEF Keeps
  <2> HIDE DEF n
  <2> QED
    BY <1>1, <1>4, <2>1, TaskMoves
<1>8. CASE at = "close"
  <2>1. /\ conn' = [d \in Clients |-> conn'[d]]
        /\ conn'[c] = n /\ \A d \in Clients \ {c} : conn'[d] = conn[d]
    BY <1>1, OneConnection
  <2>2. Closing' = Closing \cup {p}
    <3>1. n.queue[1][2] = r.queue[1][2]
      BY <1>4
    <3> HIDE DEF n
    <3> DEFINE q(d) == <<Owner[d], conn[d].queue[1][2]>>
    <3>2. \A d \in Clients : conn'[d].at = "close" <=> d = c \/ conn[d].at = "close"
      BY <1>1, <1>4, <1>8, <2>1
    <3>3. \A d \in Clients : <<Owner[d], conn'[d].queue[1][2]>> = q(d)
      BY <2>1, <3>1
    <3>4. q(c) = p
      OBVIOUS
    <3>5. Closing = {q(d) : d \in {d \in Clients : conn[d].at = "close"}}
      BY DEF Closing
    <3>6. Closing' = {q(d) : d \in {d \in Clients : conn'[d].at = "close"}}
      BY <3>3 DEF Closing
    <3> HIDE DEF q, p
    <3> QED
      BY <3>2, <3>4, <3>5, <3>6
  <2>3. UNCHANGED Promise!mail
    BY <1>1 DEF Promise!mail
  <2>4. Promise!Close(p[1], p[2])
    BY <1>6, <1>8, <2>2, <2>3 DEF Promise!Close
  <2> HIDE DEF p, n
  <2>5. Promise!Next
    BY <1>5, <2>4 DEF Promise!Next, p
  <2>6. TablesInv(db') /\ db.nextId <= db'.nextId /\ out' = [d \in Clients |-> out'[d]]
    BY <1>1, <1>2 DEF TablesInv, ServerInv
  <2>7. ServerInv'
    BY <1>1, <1>4, <2>1, <2>6, ServerInvStep
  <2> QED
    BY <2>5, <2>7 DEF Implements
<1> QED
  BY <1>3, <1>7, <1>8

\* The transaction of a confirmation ends.
LEMMA CommitStep ==
  ASSUME ServerInv, NEW c \in Clients, CommitChangedAck(c), UNCHANGED got
  PROVE  Implements
<1> DEFINE r == conn[c]
           i == r.queue[1][2]
           nobody == r.at = "close"
           active == RemoveFirst(r.active, i)
           n == [r EXCEPT !.active = active, !.at = "load"]
<1>1. /\ r.at \in {"confirm", "close"}
      /\ db' = completeChange(db, Owner[c], i, nobody)
      /\ conn' = [conn EXCEPT ![c] = n] /\ UNCHANGED out
  BY DEF CommitChangedAck
<1>2. GoodConnection(r, c, db, got) /\ TablesInv(db)
  BY DEF ServerInv
<1>3. /\ r.queue \in Seq(Task) /\ r.active \in Seq(Nat)
      /\ r.queue # << >> /\ r.queue[1][1] = "changedAck"
  BY <1>1, <1>2 DEF GoodConnection, Connection
<1>4. <<Owner[c], i>> \in got
  <2>1. 1 \in 1..Len(r.queue)
    BY <1>3
  <2> QED
    BY <1>2, <1>3, <2>1 DEF GoodConnection
<1>5. active \in Seq(Nat)
  BY <1>3, RemovedType
<1>6. GoodConnection(n, c, db, got)
  <2> HIDE DEF active, r
  <2> QED
    BY <1>2, <1>3, <1>5, MovedGood
<1>7. Keeps(r, n)
  <2>1. n.at = "load"
    BY <1>2 DEF GoodConnection, Connection
  <2> QED
    BY <2>1 DEF Keeps
<1>8. Owner[c] \in Devices
  BY ServerAssumption DEF Clients
<1>9. nobody => <<Owner[c], i>> \in Closing
  BY DEF Closing
<1>10. nobody \in BOOLEAN
  OBVIOUS
<1> HIDE DEF n, i, nobody
<1>11. /\ TablesInv(db') /\ db.nextId <= db'.nextId
       /\ Promise!Handle \/ UNCHANGED Promise!mail
  BY <1>1, <1>2, <1>4, <1>8, <1>9, <1>10, ConfirmStep
<1> QED
  BY <1>1, <1>6, <1>7, <1>11, TransactionStep

\* A transaction is rolled back.
LEMMA RollBackStep ==
  ASSUME ServerInv, NEW c \in Clients, RollBack(c)
  PROVE  Implements
<1>1. conn[c].queue # << >>
  BY DEF RollBack, Runs, ServerInv, GoodConnection
<1> QED
  BY <1>1, SendErrorStep DEF RollBack

LEMMA TaskStepImplements ==
  ASSUME ServerInv, NEW c \in Clients, TaskStep(c)
  PROVE  Implements
<1>1. UNCHANGED got
  BY DEF TaskStep
<1>2. CASE Ignored(c)
  BY <1>1, <1>2, IgnoredStep
<1>3. CASE onLogin(c) \/ Announce(c) \/ onSync(c)
  BY <1>1, <1>3, LoginStep
<1>4. CASE onChange(c) \/ onDeviceChange(c)
  BY <1>1, <1>4, ChangeStep
<1>5. CASE onRemove(c)
  BY <1>1, <1>5, RemoveStep
<1>6. CASE onChangedAck(c)
  BY <1>1, <1>6, AckStep
<1>8. CASE CommitChangedAck(c)
  BY <1>1, <1>8, CommitStep
<1>7. CASE LoadChanges(c) \/ SendChange(c) \/ EndDownload(c)
  BY <1>1, <1>7, DownloadStep
<1> QED
  BY <1>2, <1>3, <1>4, <1>5, <1>6, <1>7, <1>8 DEF TaskStep

--------------------------------------------------------------------------------
(* Steps of devices.                                                         *)

LEMMA RequestStep ==
  ASSUME ServerInv, NEW c \in Clients, NewConnection(c) \/ Request(c)
  PROVE  Implements
<1> DEFINE r == conn[c]
<1>1. GoodConnection(r, c, db, got)
  BY DEF ServerInv
<1>2. CASE NewConnection(c)
  <2> DEFINE n == [r EXCEPT !.socket = "open", !.peer = "login", !.queue = << <<"login">> >>]
  <2>1. conn' = [conn EXCEPT ![c] = n] /\ UNCHANGED <<db, got, out>>
    BY <1>2 DEF NewConnection
  <2>2. << <<"login">> >> \in Seq(Task)
    BY DEF Task
  <2>3. n \in Connection /\ n.loaded = r.loaded /\ n.queue = << <<"login">> >> /\ n.at = r.at
    BY <1>1, <2>2 DEF GoodConnection, Connection
  <2>4. r.at \notin {"confirm", "close"}
    <3>1. r.queue \in Seq(Task) /\ r.socket = "unused"
      BY <1>1, <1>2 DEF GoodConnection, Connection, NewConnection
    <3>2. r.queue # << >> => 1 \in 1..Len(r.queue)
      BY <3>1
    <3> QED
      BY <1>1, <3>1, <3>2 DEF GoodConnection
  <2> HIDE DEF n
  <2>5. GoodConnection(n, c, db, got)
    BY <1>1, <2>3, <2>4 DEF GoodConnection
  <2>6. Keeps(r, n)
    BY <2>3, <2>4 DEF Keeps
  <2> QED
    BY <2>1, <2>5, <2>6, TaskMoves
<1>3. CASE Request(c)
  <2>1. PICK task \in Requests[Owner[c]] :
          conn' = [conn EXCEPT ![c].queue = Append(@, task)]
    BY <1>3 DEF Request
  <2>2. task \in Task /\ task[1] # "changedAck"
    BY ServerAssumption, RequestsAssumption
       DEF Task, Clients, SyncMessage, ChangeMessage, DeviceChangeMessage, RemoveMessage
  <2> DEFINE n == [r EXCEPT !.queue = Append(@, task)]
  <2>3. conn' = [conn EXCEPT ![c] = n] /\ UNCHANGED <<db, got, out>>
    BY <1>3, <2>1 DEF Request
  <2>4. GoodConnection(n, c, db, got) /\ Keeps(r, n)
    BY <1>1, <2>2, QueuedGood
  <2> QED
    BY <2>3, <2>4, TaskMoves
<1> QED
  BY <1>2, <1>3

\* Only what has been given an id is received, and only that is confirmed.
LEMMA ReceiveStep ==
  ASSUME ServerInv, NEW c \in Clients, Receive(c)
  PROVE  Implements
<1> DEFINE r == conn[c]
           m == Head(out[c])
           peer == CASE m.type = "welcome" -> "ready"
                     [] m.type = "error" -> "left"
                     [] OTHER -> r.peer
           met == [r EXCEPT !.peer = peer]
           task == <<"changedAck", m.id>>
           n == [met EXCEPT !.queue = Append(@, task)]
<1>1. /\ out[c] # << >> /\ UNCHANGED db
      /\ out' = [out EXCEPT ![c] = Tail(@)]
      /\ got' = got \cup (IF Carries(m) THEN {<<Owner[c], m.id>>} ELSE {})
  BY DEF Receive, Carries
<1>2. conn' = [conn EXCEPT ![c] = IF Carries(m) /\ Open(c) THEN n ELSE met]
  <2>1. conn' = [conn EXCEPT ![c].peer = peer,
                   ![c].queue = IF Carries(m) /\ Open(c) THEN Append(@, task) ELSE @]
    BY DEF Receive, Carries
  <2>2. r \in Connection
    BY DEF ServerInv, GoodConnection
  <2> HIDE DEF peer, task
  <2> QED
    BY <2>1, <2>2 DEF Connection, ServerInv
<1>3. GoodConnection(r, c, db, got) /\ GoodMessages(out[c], db) /\ TablesInv(db)
  BY DEF ServerInv
<1>4. /\ m \in DownMessage /\ (Carries(m) => m.id \in Known(db))
      /\ GoodMessages(Tail(out[c]), db)
  <2> DEFINE rest == Tail(out[c])
  <2>1. out[c] \in Seq(DownMessage)
    BY <1>3 DEF GoodMessages
  <2>2. /\ rest \in Seq(DownMessage) /\ 1 \in 1..Len(out[c]) /\ m = out[c][1]
        /\ \A k \in 1..Len(rest) : k + 1 \in 1..Len(out[c]) /\ rest[k] = out[c][k + 1]
    BY <1>1, <2>1
  <2> HIDE DEF rest, m
  <2>3. m \in DownMessage
    BY <2>1, <2>2
  <2>4. Carries(m) => m.id \in Known(db)
    BY <1>3, <2>2 DEF GoodMessages
  <2>5. GoodMessages(rest, db)
    BY <1>3, <2>2 DEF GoodMessages
  <2> QED
    BY <2>3, <2>4, <2>5 DEF rest
<1>5. peer \in {"login", "ready", "left"}
  BY <1>3 DEF GoodConnection, Connection
<1>6. GoodConnection(met, c, db, got) /\ Keeps(r, met) /\ met.socket = r.socket
  <2> HIDE DEF peer
  <2>1. met.at = r.at /\ met.queue = r.queue /\ met.socket = r.socket
    BY <1>3 DEF GoodConnection, Connection
  <2> QED
    BY <1>3, <1>5, <2>1, MarkedGood
<1>7. got \subseteq got' /\ db.nextId \in Nat
  BY <1>1, <1>3 DEF TablesInv
<1> HIDE DEF m, met
<1>8. GoodConnection(met, c, db, got')
  BY <1>6, <1>7, StillGood
<1>9. Carries(m) /\ Open(c) => GoodConnection(n, c, db, got') /\ Keeps(r, n)
  <2> SUFFICES ASSUME Carries(m), Open(c)
               PROVE  GoodConnection(n, c, db, got') /\ Keeps(r, n)
    OBVIOUS
  <2>1. task \in Task /\ <<Owner[c], task[2]>> \in got' /\ met.socket # "unused"
    BY <1>1, <1>4, <1>6 DEF Task, ChangedAckMessage, Known, Open
  <2>2. GoodConnection(n, c, db, got') /\ Keeps(met, n)
    BY <1>8, <2>1, QueuedGood
  <2> QED
    BY <1>6, <2>2 DEF Keeps
<1> HIDE DEF n
<1>10. /\ conn' = [d \in Clients |-> conn'[d]]
       /\ \A d \in Clients : conn'[d] = conn[d] \/ GoodConnection(conn'[d], d, db', got')
       /\ \A d \in Clients : Keeps(conn[d], conn'[d])
  <2>1. /\ conn' = [d \in Clients |-> conn'[d]]
        /\ conn'[c] = IF Carries(m) /\ Open(c) THEN n ELSE met
        /\ \A d \in Clients \ {c} : conn'[d] = conn[d]
    BY <1>2 DEF ServerInv
  <2>2. GoodConnection(conn'[c], c, db', got') /\ Keeps(r, conn'[c])
    BY <1>1, <1>6, <1>8, <1>9, <2>1
  <2> QED
    BY <2>1, <2>2 DEF Keeps
<1>11. /\ out' = [d \in Clients |-> out'[d]]
       /\ \A d \in Clients : out'[d] = out[d] \/ GoodMessages(out'[d], db)
  <2>1. /\ out' = [d \in Clients |-> out'[d]]
        /\ out'[c] = Tail(out[c]) /\ \A d \in Clients \ {c} : out'[d] = out[d]
    BY <1>1 DEF ServerInv
  <2> QED
    BY <1>4, <2>1
<1>12. TablesInv(db') /\ db.nextId <= db'.nextId
  BY <1>1, <1>3, <1>7
<1>13. ServerInv'
  BY <1>7, <1>10, <1>11, <1>12, ServerInvStep
<1>14. Promise!Handle \/ UNCHANGED Promise!mail
  <2>1. CASE Carries(m)
    <3>1. m.id \in 1..(db.nextId - 1) /\ m.id \in 1..db.nextId /\ Owner[c] \in Devices
      BY <1>4, <1>7, <2>1, ServerAssumption DEF Known, Clients
    <3>2. Promise!Receive(Owner[c], m.id)
      BY <1>1, <2>1, <3>1 DEF Promise!Receive
    <3> QED
      BY <3>1, <3>2 DEF Promise!Handle
  <2>2. CASE ~Carries(m)
    BY <1>1, <2>2 DEF Promise!mail
  <2> QED
    BY <2>1, <2>2
<1> QED
  BY <1>10, <1>13, <1>14, Handled DEF Implements

LEMMA LeaveIsQuiet ==
  ASSUME ServerInv, NEW c \in Clients, Leave(c)
  PROVE  Implements
<1> DEFINE n == [conn[c] EXCEPT !.peer = "left"]
<1>1. conn' = [conn EXCEPT ![c] = n] /\ out' = [out EXCEPT ![c] = << >>] /\ UNCHANGED <<db, got>>
  BY DEF Leave
<1>2. GoodConnection(n, c, db, got)
  BY MarkedGood DEF ServerInv
<1>3. Keeps(conn[c], n)
  BY DEF Keeps, ServerInv, GoodConnection, Connection
<1> QED
  BY <1>1, <1>2, <1>3, TaskMoves

--------------------------------------------------------------------------------
(* Steps of the main thread and the administrator.                           *)

\* Connections close, and are destroyed.
LEMMA CloseStep ==
  ASSUME ServerInv, NEW c \in Clients, MainStep(c) \/ Fault(c)
  PROVE  Implements
<1>1. GoodConnection(conn[c], c, db, got)
  BY DEF ServerInv
<1>2. GoodConnection(Closed(conn[c]), c, db, got) /\ Keeps(conn[c], Closed(conn[c]))
  BY <1>1, ClosedGood
<1>3. CASE closeClient(c) \/ closeLater(c)
  <2>1. conn' = [conn EXCEPT ![c] = Closed(conn[c])] /\ UNCHANGED <<db, got, out>>
    BY <1>3 DEF closeClient, closeLater
  <2> QED
    BY <1>2, <2>1, TaskMoves
<1>4. CASE Destroy(c)
  <2> DEFINE n == [conn[c] EXCEPT !.socket = "destroyed", !.peer = "left"]
  <2>1. conn' = [conn EXCEPT ![c] = n] /\ out' = [out EXCEPT ![c] = << >>] /\ UNCHANGED <<db, got>>
    BY <1>4 DEF Destroy
  <2>2. GoodConnection(n, c, db, got)
    BY <1>1, MarkedGood
  <2>3. Keeps(conn[c], n)
    BY <1>1 DEF Keeps, GoodConnection, Connection
  <2> QED
    BY <2>1, <2>2, <2>3, TaskMoves
<1>5. CASE Fault(c)
  <2>1. PICK state \in {"Error"} \cup (IF conn[c].queue = << >> THEN {} ELSE {conn[c].state}) :
          conn' = [conn EXCEPT ![c] = [Closed(@) EXCEPT !.state = state]]
    BY <1>5 DEF Fault
  <2> DEFINE n == [Closed(conn[c]) EXCEPT !.state = state]
  <2>2. state \in {"Authenticating", "Idle", "Error"}
    BY <1>1 DEF GoodConnection, Connection
  <2>3. GoodConnection(n, c, db, got)
    BY <1>2, <2>2, MarkedGood
  <2>4. conn' = [conn EXCEPT ![c] = n] /\ UNCHANGED <<db, got, out>>
    BY <1>5, <2>1 DEF Fault
  <2>5. n.at = Closed(conn[c]).at /\ n.queue = Closed(conn[c]).queue
    BY <1>2 DEF GoodConnection, Connection
  <2> HIDE DEF n
  <2>6. Keeps(conn[c], n)
    BY <1>2, <2>5 DEF Keeps
  <2> QED
    BY <2>3, <2>4, <2>6, TaskMoves
<1> QED
  BY <1>3, <1>4, <1>5 DEF MainStep

\* Each connection is as it was, closed, or has one task more; or is registered.
LEMMA EventStep ==
  ASSUME ServerInv, Listen \/ HandleEvent \/ disconnectAll \/ Resume
  PROVE  Implements
<1>1. UNCHANGED <<db, got, out>>
  BY DEF Listen, onNotify, HandleEvent, notifyChanged, forceDisconnect, clientConnected,
         disconnectAll, Resume
<1>2. out' = [c \in Clients |-> out'[c]]
  BY <1>1 DEF ServerInv
<1>3. \A c \in Clients : /\ GoodConnection(Dropped(conn[c]), c, db, got)
                         /\ GoodConnection([conn[c] EXCEPT !.registered = TRUE], c, db, got)
  BY ClosedGood, MarkedGood DEF ServerInv
<1>4. <<"notify">> \in Task /\ <<"notify">>[1] # "changedAck"
  BY DEF Task
<1>5. \A c \in Clients :
        /\ GoodConnection([conn[c] EXCEPT !.queue = Append(@, <<"notify">>)], c, db, got)
        /\ Keeps(conn[c], [conn[c] EXCEPT !.queue = Append(@, <<"notify">>)])
  BY <1>4, QueuedGood DEF ServerInv
<1>6. conn = [c \in Clients |-> conn[c]]
  BY DEF ServerInv
<1> DEFINE Touched(c) ==
             \/ conn'[c] = conn[c] \/ conn'[c] = Dropped(conn[c])
             \/ conn'[c] = [conn[c] EXCEPT !.registered = TRUE]
             \/ conn'[c] = [conn[c] EXCEPT !.queue = Append(@, <<"notify">>)]
<1>7. conn' = [c \in Clients |-> conn'[c]] /\ \A c \in Clients : Touched(c)
  <2>1. CASE Listen \/ Resume
    BY <1>6, <2>1 DEF Listen, onNotify, Resume
  <2>2. CASE disconnectAll
    BY <2>2 DEF disconnectAll
  <2>3. ASSUME NEW c \in Clients, clientConnected(c)
        PROVE  conn' = [e \in Clients |-> conn'[e]] /\ \A e \in Clients : Touched(e)
    BY <1>6, <2>3 DEF clientConnected
  <2>4. ASSUME NEW d \in Devices, notifyChanged(d)
        PROVE  conn' = [e \in Clients |-> conn'[e]] /\ \A e \in Clients : Touched(e)
    BY <1>6, <2>4 DEF notifyChanged
  <2>5. ASSUME NEW d \in Devices, forceDisconnect(d)
        PROVE  conn' = [e \in Clients |-> conn'[e]] /\ \A e \in Clients : Touched(e)
    BY <1>6, <2>5 DEF forceDisconnect
  <2> QED
    BY <2>1, <2>2, <2>3, <2>4, <2>5 DEF HandleEvent
<1>8. \A c \in Clients : conn'[c] = conn[c] \/ GoodConnection(conn'[c], c, db, got)
  BY <1>3, <1>5, <1>7
<1>9. \A c \in Clients : /\ Keeps(conn[c], conn[c]) /\ Keeps(conn[c], Dropped(conn[c]))
                         /\ Keeps(conn[c], [conn[c] EXCEPT !.registered = TRUE])
  <2>1. \A c \in Clients : LET n == [conn[c] EXCEPT !.registered = TRUE] IN
          n.at = conn[c].at /\ n.queue = conn[c].queue
    BY DEF ServerInv, GoodConnection, Connection
  <2> QED
    BY <2>1, ClosedGood DEF ServerInv, Keeps
<1>10. \A c \in Clients : Keeps(conn[c], conn'[c])
  BY <1>5, <1>7, <1>9
<1> QED
  BY <1>1, <1>2, <1>7, <1>8, <1>10, QuietStep

\* Devices are removed, or the limit of the quota changes.
LEMMA AdminStep ==
  ASSUME ServerInv, UpdateQuota \/ cleanupDevices
  PROVE  Implements
<1>1. UNCHANGED <<conn, out, got>> /\ TablesInv(db) /\ db.nextId \in Nat
  BY DEF UpdateQuota, cleanupDevices, ServerInv, TablesInv
<1>2. \/ \E D : db' = DeleteDevices(db, D)
      \/ /\ IsTables(db') /\ db'.devices = db.devices /\ db'.nextId = db.nextId
         /\ db'.changes = db.changes /\ db'.todo = db.todo
  <2>1. CASE cleanupDevices
    BY <2>1 DEF cleanupDevices
  <2>2. CASE UpdateQuota
    BY <1>1, <2>2, TablesStay DEF UpdateQuota
  <2> QED
    BY <2>1, <2>2
<1>3. TablesInv(db') /\ db.nextId <= db'.nextId /\ (Promise!Handle \/ UNCHANGED Promise!mail)
  <2>1. CASE \E D : db' = DeleteDevices(db, D)
    BY <1>1, <2>1, LeaveStep DEF Promise!Handle
  <2>2. CASE /\ IsTables(db') /\ db'.devices = db.devices /\ db'.nextId = db.nextId
             /\ db'.changes = db.changes /\ db'.todo = db.todo
    <3>1. TablesInv(db') /\ db.nextId <= db'.nextId
      BY <1>1, <2>2 DEF TablesInv, Known
    <3>2. \A d : PendingFor(db', d) = PendingFor(db, d)
      BY <2>2 DEF PendingFor
    <3> QED
      BY <1>1, <2>2, <3>1, <3>2 DEF Promise!mail
  <2> QED
    BY <1>2, <2>1, <2>2
<1>4. conn' = [c \in Clients |-> conn'[c]] /\ out' = [c \in Clients |-> out'[c]]
  BY <1>1 DEF ServerInv
<1>5. ServerInv'
  BY <1>1, <1>3, <1>4, ServerInvStep
<1>6. \A c \in Clients : Keeps(conn[c], conn'[c])
  BY <1>1 DEF Keeps
<1> QED
  BY <1>3, <1>5, <1>6, Handled DEF Implements

LEMMA NextImplements ==
  ASSUME ServerInv, [Next]_vars
  PROVE  Implements
<1>1. ASSUME NEW c \in Clients, TaskStep(c) \/ RollBack(c) \/ MainStep(c) \/ Fault(c)
                                  \/ NewConnection(c) \/ Request(c) \/ Receive(c) \/ Leave(c)
      PROVE  Implements
  BY <1>1, TaskStepImplements, RollBackStep, CloseStep, RequestStep, ReceiveStep, LeaveIsQuiet
<1>2. CASE Listen \/ HandleEvent \/ disconnectAll \/ Resume
  BY <1>2, EventStep
<1>3. CASE UpdateQuota \/ cleanupDevices
  BY <1>3, AdminStep
<1>4. CASE UNCHANGED vars
  <2>1. UNCHANGED <<db, conn, out, got>>
    BY <1>4 DEF vars
  <2>2. \A c \in Clients : Keeps(conn[c], conn'[c])
    BY <2>1 DEF Keeps
  <2> QED
    BY <2>1, <2>2, QuietStep DEF ServerInv
<1> QED
  BY <1>1, <1>2, <1>3, <1>4 DEF Next

LEMMA InitImplements ==
  ASSUME Init
  PROVE  ServerInv /\ Promise!Init
<1>1. PICK history \in Histories : db = Filled(history)
  BY DEF Init
<1>2. /\ history \in Seq(Devices \X Datasets)
      /\ \A j, k \in DOMAIN history : history[j] = history[k] => j = k
  BY ServerAssumption
<1> DEFINE changes == Kept(history)
           pairs == {<<c.id, d>> : c \in changes, d \in Devices \ Newcomers}
           own == {<<c.id, c.device>> : c \in changes}
           quota == TotalSize(changes)
<1>3. /\ IsTables(db) /\ db.devices = Devices /\ db.nextId = Len(history) + 1
      /\ db.changes = changes /\ db.todo = pairs \ own
  <2> HIDE DEF changes, pairs, own, quota
  <2>1. db = [devices |-> Devices, changes |-> changes, todo |-> pairs \ own,
              quota |-> quota, limit |-> InitialQuota, nextId |-> Len(history) + 1]
    BY <1>1 DEF Filled, changes, pairs, own, quota
  <2> QED
    BY <2>1 DEF IsTables
<1>4. \A c \in changes :
        /\ c.id \in DOMAIN history /\ c.device \in Devices /\ c.dataset \in Datasets
        /\ c = [id |-> c.id, device |-> history[c.id][1], dataset |-> history[c.id][2]]
  BY <1>2 DEF Kept
<1>5. DOMAIN history = 1..Len(history) /\ Len(history) \in Nat
  BY <1>2
<1> HIDE DEF changes
<1>6. db.changes \subseteq [id : Known(db), device : Devices, dataset : Datasets]
  BY <1>3, <1>4, <1>5 DEF Known
<1>7. db.todo \subseteq Known(db) \X Devices
  BY <1>3, <1>4, <1>5 DEF Known
<1>8. TablesInv(db)
  BY <1>3, <1>5, <1>6, <1>7 DEF TablesInv
<1>9. ServerInv
  <2>1. conn = [c \in Clients |->
           [socket |-> "unused", peer |-> "left", state |-> "Authenticating",
            queue |-> << >>, at |-> "start", loaded |-> {}, active |-> << >>,
            cached |-> 0, registered |-> FALSE]]
    BY DEF Init
  <2>2. \A c \in Clients : GoodConnection(conn[c], c, db, got)
    BY <2>1 DEF GoodConnection, Connection
  <2>3. out = [c \in Clients |-> << >>]
    BY DEF Init
  <2>4. \A c \in Clients : GoodMessages(out[c], db)
    BY <2>3 DEF GoodMessages
  <2>5. conn = [c \in Clients |-> conn[c]] /\ out = [c \in Clients |-> out[c]]
    BY <2>1, <2>3
  <2> QED
    BY <1>8, <2>2, <2>4, <2>5 DEF ServerInv
<1>10. \A l, m \in changes :
         (l.id = m.id \/ (l.device = m.device /\ l.dataset = m.dataset)) => l = m
  <2> SUFFICES ASSUME NEW l \in changes, NEW m \in changes,
                      l.id = m.id \/ (l.device = m.device /\ l.dataset = m.dataset)
               PROVE  l = m
    OBVIOUS
  <2>1. CASE l.id = m.id
    BY <1>4, <2>1
  <2>2. CASE l.device = m.device /\ l.dataset = m.dataset
    <3>1. history[l.id] \in Devices \X Datasets /\ history[m.id] \in Devices \X Datasets
      BY <1>2, <1>4
    <3>2. history[l.id] = history[m.id]
      BY <1>4, <2>2, <3>1
    <3>3. l.id = m.id
      BY <1>2, <1>4, <3>2
    <3> QED
      BY <2>1, <3>3
  <2> QED
    BY <2>1, <2>2
<1>11. \A d \in Devices : PendingFor(db, d) \subseteq {m.id : m \in {m \in changes : m.device # d}}
  <2> SUFFICES ASSUME NEW d \in Devices, NEW i \in PendingFor(db, d)
               PROVE  \E m \in changes : m.device # d /\ i = m.id
    OBVIOUS
  <2>1. <<i, d>> \in db.todo
    BY <1>8, PendingIsTodo
  <2>2. <<i, d>> \in pairs /\ <<i, d>> \notin own
    BY <1>3, <2>1
  <2>3. PICK m \in changes, e \in Devices \ Newcomers : <<i, d>> = <<m.id, e>>
    BY <2>2
  <2>4. i = m.id
    BY <2>3
  <2>5. m.device # d
    BY <2>2, <2>4
  <2> QED
    BY <2>4, <2>5
<1>12. got = {} /\ Closing = {}
  <2>1. \A c \in Clients : conn[c].at = "start"
    BY DEF Init
  <2> QED
    BY <2>1 DEF Init, Closing
<1>13. changes \subseteq [id : 1..(db.nextId - 1), device : Devices, dataset : Datasets]
  BY <1>3, <1>6 DEF Known
<1> QED
  BY <1>3, <1>9, <1>10, <1>11, <1>12, <1>13 DEF Promise!Init

\* Every entry of devicechanges is kept until its device has received the change,
\* until its sender replaces it, or until one of the two leaves, but for one that is
\* added while the last other device confirms the change: the server with its
\* transactions, tasks and connections implements the mailboxes.
THEOREM ServerImplementsMailbox == Spec => Delivery
<1>1. Init => ServerInv /\ Promise!Init
  BY InitImplements
<1>2. ServerInv /\ [Next]_vars => ServerInv' /\ [Promise!Next]_(Promise!vars)
  BY NextImplements DEF Implements
<1> QED
  BY <1>1, <1>2, PTL DEF Spec, Delivery, Promise!Spec

--------------------------------------------------------------------------------
(* The registry: it never holds a client that was destroyed, and no wakeup   *)
(* of a download is lost.                                                    *)

\* The kinds of tasks that end by a download.
Loading == {"login", "sync", "notify", "changedAck"}

\* How far a task can be, and what a client is before it is used.
GoodTask(r) ==
  /\ r.at = "announce" => r.queue[1][1] = "login"
  /\ r.at \in {"load", "send"} => r.queue[1][1] \in Loading
  /\ r.loaded # {} => r.at = "send"
  /\ r.socket = "unused" => r.queue = << >> /\ r.state = "Authenticating" /\ ~r.registered

\* The client serves a device, and no task of its own will load changes.
Idling(r) ==
  /\ r.socket = "open" /\ r.state = "Idle" /\ r.peer # "left"
  /\ r.active = << >> /\ r.loaded = {}
  /\ \A k \in 1..Len(r.queue) : r.queue[k][1] \in Loading => k = 1 /\ r.at = "send"

NotifiedAfter(p, d) == \E j \in 1..Len(events) : p < j /\ events[j] = <<"notify", d>>

\* A client with nothing to do has nothing to deliver or will be told: a notification
\* comes after the client is registered, if that is still to happen.
Awake(c) ==
  Idling(conn[c]) /\ PendingFor(db, Owner[c]) # {} =>
    \/ Owner[c] \in notes
    \/ /\ clients[Owner[c]] = c => NotifiedAfter(0, Owner[c])
       /\ \A k \in 1..Len(events) :
            events[k] = <<"connected", c>> => NotifiedAfter(k, Owner[c])

\* Whom the registry holds is registered, and a client that is not there any more
\* is held by nobody.
GoodEntry(d) ==
  clients[d] # None =>
    /\ clients[d] \in Clients /\ Owner[clients[d]] = d
    /\ conn[clients[d]].registered /\ conn[clients[d]].socket # "destroyed"

RegistryInv ==
  /\ events \in Seq(Event)
  /\ clients = [d \in Devices |-> clients[d]]
  /\ \A d \in Devices : GoodEntry(d)
  /\ \A c \in Clients : GoodTask(conn[c])
  /\ \A c \in Clients, k \in 1..Len(events) :
       events[k] = <<"connected", c>> => conn[c].socket # "unused"
  /\ \A c \in Clients : Awake(c)

--------------------------------------------------------------------------------
(* Steps of connections.                                                     *)

\* r becomes n, and neither leaves the registry nor goes to sleep while changes are
\* pending.
Steady(r, n, pending) ==
  /\ GoodTask(n)
  /\ Idling(n) => Idling(r) \/ pending = {}
  /\ r.registered => n.registered
  /\ n.socket = "unused" => r.socket = "unused"
  /\ n.socket = "destroyed" => r.socket = "destroyed"

\* No device has more changes waiting, unless it is notified.
Announces == \A d \in Devices : PendingFor(db', d) # {} => PendingFor(db, d) # {} \/ d \in notes'

LEMMA Owned == \A c \in Clients : Owner[c] \in Devices
  BY ServerAssumption DEF Clients

\* Events are added at the end.
LEMMA Appended ==
  ASSUME events \in Seq(Event), NEW e \in Event, events' = Append(events, e)
  PROVE  /\ events' \in Seq(Event)
         /\ Len(events) \in Nat /\ Len(events') = Len(events) + 1
         /\ \A k \in 1..Len(events) : events'[k] = events[k]
         /\ events'[Len(events) + 1] = e
  OBVIOUS

\* Whatever connections do, apart from the registry.
LEMMA SteadyStep ==
  ASSUME RegistryInv, notes \subseteq notes', UNCHANGED clients, Announces,
         \A c \in Clients : \/ conn'[c] = conn[c]
                          \/ Steady(conn[c], conn'[c], PendingFor(db', Owner[c])),
         \/ UNCHANGED events
         \/ \E e \in Event :
              /\ events' = Append(events, e)
              /\ \A c \in Clients : e = <<"connected", c>> =>
                   ~Idling(conn'[c]) /\ conn'[c].socket # "unused"
  PROVE  RegistryInv'
<1>1. /\ events' \in Seq(Event) /\ Len(events) \in Nat /\ Len(events') \in Nat
      /\ Len(events) <= Len(events')
      /\ \A k \in 1..Len(events) : events'[k] = events[k]
      /\ \A c \in Clients, k \in 1..Len(events') :
           events'[k] = <<"connected", c>> =>
             \/ k \in 1..Len(events)
             \/ ~Idling(conn'[c]) /\ conn'[c].socket # "unused"
  <2>1. CASE UNCHANGED events
    BY <2>1 DEF RegistryInv
  <2>2. CASE ~UNCHANGED events
    <3>1. PICK e \in Event :
            /\ events' = Append(events, e)
            /\ \A c \in Clients : e = <<"connected", c>> =>
                 ~Idling(conn'[c]) /\ conn'[c].socket # "unused"
      BY <2>2
    <3>2. /\ events' \in Seq(Event)
          /\ Len(events) \in Nat /\ Len(events') = Len(events) + 1
          /\ \A k \in 1..Len(events) : events'[k] = events[k]
          /\ events'[Len(events) + 1] = e
      BY <3>1, Appended DEF RegistryInv
    <3>3. \A k \in 1..Len(events') : k \in 1..Len(events) \/ k = Len(events) + 1
      BY <3>2
    <3>4. \A c \in Clients : events'[Len(events) + 1] = <<"connected", c>> =>
            ~Idling(conn'[c]) /\ conn'[c].socket # "unused"
      BY <3>1, <3>2
    <3>5. \A c \in Clients, k \in 1..Len(events') :
            events'[k] = <<"connected", c>> =>
              \/ k \in 1..Len(events)
              \/ ~Idling(conn'[c]) /\ conn'[c].socket # "unused"
      BY <3>3, <3>4
    <3> QED
      BY <3>2, <3>5
  <2> QED
    BY <2>1, <2>2
<1>2. \A d \in Devices : GoodEntry(d)'
  BY DEF RegistryInv, GoodEntry, Steady
<1>3. \A c \in Clients : GoodTask(conn'[c])
  BY DEF RegistryInv, Steady
<1>4. \A c \in Clients, k \in 1..Len(events') :
        events'[k] = <<"connected", c>> => conn'[c].socket # "unused"
  BY <1>1 DEF RegistryInv, Steady
<1>5. \A c \in Clients : Awake(c)'
  <2> SUFFICES ASSUME NEW c \in Clients, Idling(conn'[c]), PendingFor(db', Owner[c]) # {},
                      Owner[c] \notin notes'
               PROVE  /\ clients[Owner[c]] = c => NotifiedAfter(0, Owner[c])'
                      /\ \A k \in 1..Len(events') :
                           events'[k] = <<"connected", c>> => NotifiedAfter(k, Owner[c])'
    BY DEF Awake
  <2>1. Idling(conn[c])
    BY DEF Steady
  <2>2. PendingFor(db, Owner[c]) # {} /\ Owner[c] \notin notes
    BY Owned DEF Announces
  <2>3. /\ clients[Owner[c]] = c => NotifiedAfter(0, Owner[c])
        /\ \A k \in 1..Len(events) :
             events[k] = <<"connected", c>> => NotifiedAfter(k, Owner[c])
    BY <2>1, <2>2 DEF RegistryInv, Awake
  <2>4. \A p : NotifiedAfter(p, Owner[c]) => NotifiedAfter(p, Owner[c])'
    BY <1>1 DEF NotifiedAfter
  <2>5. \A k \in 1..Len(events') :
          events'[k] = <<"connected", c>> => NotifiedAfter(k, Owner[c])'
    BY <1>1, <2>3, <2>4
  <2> QED
    BY <2>3, <2>4, <2>5
<1> QED
  BY <1>1, <1>2, <1>3, <1>4, <1>5 DEF RegistryInv

\* A task ends that would not load changes, or has.
LEMMA EndIsSteady ==
  ASSUME NEW r \in Connection, GoodTask(r), r.queue # << >>,
         NEW n, n.queue = Tail(r.queue), n.at = "start", n.loaded = {}, n.active = r.active,
         n.socket = r.socket, n.peer = r.peer, n.registered = r.registered,
         \/ n.state = "Error"
         \/ /\ n.state = r.state
            /\ \/ r.state # "Idle"
               \/ r.queue[1][1] \notin Loading
               \/ r.at = "send" /\ r.loaded = {}
  PROVE  \A p : Steady(r, n, p)
<1>1. r.queue \in Seq(Task) /\ Len(r.queue) \in Nat /\ Len(n.queue) = Len(r.queue) - 1
      /\ \A k \in 1..Len(n.queue) : n.queue[k] = r.queue[k + 1]
  BY DEF Connection
<1>2. GoodTask(n)
  BY DEF GoodTask
<1>3. ASSUME Idling(n)
      PROVE  Idling(r)
  <2>1. /\ r.socket = "open" /\ r.state = "Idle" /\ r.peer # "left" /\ r.active = << >>
        /\ r.queue[1][1] \notin Loading \/ (r.at = "send" /\ r.loaded = {})
    BY <1>3 DEF Idling
  <2>2. r.loaded = {}
    BY <2>1 DEF GoodTask
  <2>3. \A k \in 1..Len(n.queue) : n.queue[k][1] \notin Loading
    BY <1>3 DEF Idling
  <2>4. ASSUME NEW k \in 1..Len(r.queue), r.queue[k][1] \in Loading
        PROVE  k = 1 /\ r.at = "send"
    <3>1. CASE k = 1
      BY <2>1, <2>4, <3>1
    <3>2. CASE k # 1
      <4>1. k - 1 \in 1..Len(n.queue) /\ n.queue[k - 1] = r.queue[k]
        BY <1>1, <3>2
      <4> QED
        BY <2>3, <2>4, <4>1
    <3> QED
      BY <3>1, <3>2
  <2> QED
    BY <2>1, <2>2, <2>4 DEF Idling
<1> QED
  BY <1>2, <1>3 DEF Steady

\* A task moves on that will load changes.
LEMMA MoveIsSteady ==
  ASSUME NEW r \in Connection, GoodTask(r), r.queue # << >>,
         NEW n, n.queue = r.queue,
         n.at \in {"confirm", "close", "load"} \/ (n.at = "announce" /\ r.queue[1][1] = "login"),
         r.queue[1][1] \in Loading, r.at # "send",
         n.loaded = r.loaded, n.socket = r.socket, n.registered = r.registered
  PROVE  ~Idling(n) /\ \A p : Steady(r, n, p)
<1>1. 1 \in 1..Len(n.queue)
  BY DEF Connection
<1>2. ~Idling(n)
  BY <1>1 DEF Idling
<1>3. GoodTask(n)
  BY DEF GoodTask
<1> QED
  BY <1>2, <1>3 DEF Steady

\* A task may be added, and the device may know more of the connection.
LEMMA QueueIsSteady ==
  ASSUME NEW r \in Connection, GoodTask(r), r.at # "start" => r.queue # << >>,
         NEW n, NEW task \in Task,
         n.queue = r.queue \/ (n.queue = Append(r.queue, task) /\ r.socket # "unused"),
         n.at = r.at, n.loaded = r.loaded, n.active = r.active, n.state = r.state,
         n.registered = r.registered, n.socket = r.socket, r.peer = "left" => n.peer = "left"
  PROVE  \A p : Steady(r, n, p)
<1>1. /\ r.queue \in Seq(Task) /\ Len(r.queue) \in Nat /\ Len(n.queue) \in Nat
      /\ Len(r.queue) <= Len(n.queue)
      /\ \A k \in 1..Len(r.queue) : n.queue[k] = r.queue[k]
  <2>1. r.queue \in Seq(Task)
    BY DEF Connection
  <2> QED
    BY <2>1
<1>2. GoodTask(n)
  <2>1. r.at # "start" => n.queue[1] = r.queue[1]
    BY <1>1
  <2> QED
    BY <2>1 DEF GoodTask
<1>3. Idling(n) => Idling(r)
  BY <1>1 DEF Idling
<1> QED
  BY <1>2, <1>3 DEF Steady

\* A connection that is not open does not count.
LEMMA CloseIsSteady ==
  ASSUME NEW r \in Connection, GoodTask(r), r.at # "start" => r.queue # << >>,
         NEW n, n.socket \in {"closed", "destroyed"}, n.socket = "destroyed" => r.queue = << >>,
         r.queue = << >> => n.queue = << >>, r.queue # << >> => n.queue[1] = r.queue[1],
         n.at = r.at, n.loaded = r.loaded, n.registered = r.registered
  PROVE  GoodTask(n) /\ ~Idling(n) /\ (n.socket = "closed" => \A p : Steady(r, n, p))
<1>1. GoodTask(n)
  BY DEF GoodTask
<1>2. ~Idling(n)
  BY DEF Idling
<1> QED
  BY <1>1, <1>2 DEF Steady

\* The step of a connection.
LEMMA ClientStep ==
  ASSUME ServerInv, RegistryInv, NEW c \in Clients,
         NEW n, conn' = [conn EXCEPT ![c] = n],
         Steady(conn[c], n, PendingFor(db', Owner[c])),
         notes \subseteq notes', UNCHANGED clients, Announces,
         \/ UNCHANGED events
         \/ \E e \in Event :
              /\ events' = Append(events, e)
              /\ e[1] = "connected" => e[2] = c /\ ~Idling(n) /\ n.socket # "unused"
  PROVE  RegistryInv'
<1>1. conn'[c] = n /\ \A d \in Clients \ {c} : conn'[d] = conn[d]
  BY DEF ServerInv
<1>2. \A d \in Clients : \/ conn'[d] = conn[d]
                         \/ Steady(conn[d], conn'[d], PendingFor(db', Owner[d]))
  BY <1>1
<1>3. \/ UNCHANGED events
      \/ \E e \in Event :
           /\ events' = Append(events, e)
           /\ \A d \in Clients : e = <<"connected", d>> =>
                ~Idling(conn'[d]) /\ conn'[d].socket # "unused"
  BY <1>1
<1> QED
  BY <1>2, <1>3, SteadyStep

LEMMA NothingNew ==
  ASSUME TablesInv(db), TablesInv(db'), db'.todo \subseteq db.todo
  PROVE  Announces
<1>1. \A d, i : i \in PendingFor(db', d) => i \in PendingFor(db, d)
  BY PendingIsTodo
<1> QED
  BY <1>1 DEF Announces

\* Whoever has a new entry is notified when the transaction commits.
LEMMA NewIsNotified ==
  ASSUME TablesInv(db), TablesInv(db'), notes' = notes \cup Notified(db, db')
  PROVE  Announces
<1> SUFFICES ASSUME NEW d \in Devices, PendingFor(db', d) # {}, PendingFor(db, d) = {}
             PROVE  d \in notes'
  BY DEF Announces
<1>1. PICK i : i \in PendingFor(db', d)
  OBVIOUS
<1>2. <<i, d>> \in db'.todo /\ <<i, d>> \notin db.todo
  BY <1>1, PendingIsTodo
<1>3. <<i, d>>[2] \in Notified(db, db')
  BY <1>2 DEF Notified
<1> QED
  BY <1>3

LEMMA SameTables ==
  ASSUME UNCHANGED db
  PROVE  Announces
  BY DEF Announces

--------------------------------------------------------------------------------
(* Steps of tasks.                                                           *)

\* What is known of the connection whose task runs.
LEMMA Running ==
  ASSUME ServerInv, RegistryInv, NEW c \in Clients
  PROVE  /\ conn[c] \in Connection /\ GoodTask(conn[c])
         /\ conn[c].at # "start" => conn[c].queue # << >>
         /\ conn[c].queue # << >> => conn[c].socket # "unused"
         /\ TablesInv(db) /\ Owner[c] \in Devices
  BY Owned DEF ServerInv, GoodConnection, RegistryInv, GoodTask

LEMMA TaskEnds ==
  ASSUME ServerInv, RegistryInv, NEW c \in Clients, conn[c].queue # << >>,
         notes \subseteq notes', UNCHANGED clients, Announces,
         \/ /\ conn' = [conn EXCEPT ![c] = [Done(@) EXCEPT !.state = "Error"]]
            /\ \/ UNCHANGED events
               \/ \E d \in Devices : events' = Append(events, <<"forceDisconnect", d>>)
         \/ /\ \/ conn' = [conn EXCEPT ![c] = Done(@)]
               \/ conn' = [conn EXCEPT ![c] = [Done(@) EXCEPT !.cached = 0]]
            /\ \/ conn[c].state # "Idle"
               \/ conn[c].queue[1][1] \notin Loading
               \/ conn[c].at = "send" /\ conn[c].loaded = {}
            /\ \/ UNCHANGED events
               \/ \E d \in Devices : events' = Append(events, <<"forceDisconnect", d>>)
  PROVE  RegistryInv'
<1> DEFINE r == conn[c]
<1>1. r \in Connection /\ GoodTask(r)
  BY Running
<1>2. /\ Done(r).queue = Tail(r.queue) /\ Done(r).at = "start" /\ Done(r).loaded = {}
      /\ Done(r).active = r.active /\ Done(r).socket = r.socket /\ Done(r).peer = r.peer
      /\ Done(r).registered = r.registered /\ Done(r).state = r.state
      /\ DOMAIN Done(r) = DOMAIN r
  BY <1>1 DEF Done, Connection
<1>3. DOMAIN r = {"socket", "peer", "state", "queue", "at", "loaded", "active", "cached", "registered"}
  BY <1>1 DEF Connection
<1>4. \/ UNCHANGED events
      \/ \E e \in Event : events' = Append(events, e) /\ e[1] # "connected"
  <2>1. \A d \in Devices : <<"forceDisconnect", d>> \in Event
    BY DEF Event
  <2>2. \/ UNCHANGED events
        \/ \E d \in Devices : events' = Append(events, <<"forceDisconnect", d>>)
    OBVIOUS
  <2> QED
    BY <2>1, <2>2
<1>5. CASE conn' = [conn EXCEPT ![c] = [Done(@) EXCEPT !.state = "Error"]]
  <2> DEFINE n == [Done(r) EXCEPT !.state = "Error"]
  <2>1. /\ n.queue = Tail(r.queue) /\ n.at = "start" /\ n.loaded = {} /\ n.active = r.active
        /\ n.socket = r.socket /\ n.peer = r.peer /\ n.registered = r.registered
        /\ n.state = "Error"
    BY <1>1 DEF Done, Connection
  <2>2. conn' = [conn EXCEPT ![c] = n]
    BY <1>5
  <2> HIDE DEF n
  <2>3. \A p : Steady(r, n, p)
    BY <1>1, <2>1, EndIsSteady
  <2> QED
    BY <1>4, <2>2, <2>3, ClientStep
<1>6. CASE /\ \/ conn' = [conn EXCEPT ![c] = Done(@)]
              \/ conn' = [conn EXCEPT ![c] = [Done(@) EXCEPT !.cached = 0]]
           /\ \/ r.state # "Idle" \/ r.queue[1][1] \notin Loading
              \/ r.at = "send" /\ r.loaded = {}
  <2>1. PICK n \in {Done(r), [Done(r) EXCEPT !.cached = 0]} : conn' = [conn EXCEPT ![c] = n]
    BY <1>6
  <2>2. \A p : Steady(r, n, p)
    BY <1>1, <1>2, <1>3, <1>6, EndIsSteady
  <2> QED
    BY <1>4, <2>1, <2>2, ClientStep
<1> QED
  BY <1>5, <1>6

\* A task moves on to its download.
LEMMA TaskLoads ==
  ASSUME ServerInv, RegistryInv, NEW c \in Clients, NEW n, conn' = [conn EXCEPT ![c] = n],
         conn[c].queue # << >>, conn[c].queue[1][1] \in Loading, conn[c].at # "send",
         n.at \in {"confirm", "close", "load"} \/ (n.at = "announce" /\ conn[c].queue[1][1] = "login"),
         n.queue = conn[c].queue, n.loaded = conn[c].loaded, n.socket = conn[c].socket,
         n.registered = conn[c].registered,
         UNCHANGED <<notes, clients>>, Announces,
         UNCHANGED events \/ events' = Append(events, <<"connected", c>>)
  PROVE  RegistryInv'
<1>1. ~Idling(n) /\ \A p : Steady(conn[c], n, p)
  BY Running, MoveIsSteady
<1>2. n.socket # "unused"
  BY Running
<1>3. <<"connected", c>> \in Event
  BY DEF Event
<1> QED
  BY <1>1, <1>2, <1>3, ClientStep

LEMMA ErrorEnds ==
  ASSUME ServerInv, RegistryInv, NEW c \in Clients, conn[c].queue # << >>, SendError(c),
         UNCHANGED clients
  PROVE  RegistryInv'
<1>1. Announces
  BY SameTables DEF SendError
<1> QED
  BY <1>1, TaskEnds DEF SendError

LEMMA LoginEnds ==
  ASSUME ServerInv, RegistryInv, NEW c \in Clients, UNCHANGED clients,
         Ignored(c) \/ onLogin(c) \/ Announce(c) \/ onSync(c)
  PROVE  RegistryInv'
<1> DEFINE r == conn[c]
<1>1. r \in Connection /\ GoodTask(r) /\ (r.at # "start" => r.queue # << >>)
  BY Running
<1>2. CASE Ignored(c)
  <2>1. Announces /\ r.queue # << >> /\ conn' = [conn EXCEPT ![c] = Done(@)]
          /\ UNCHANGED <<notes, events>> /\ r.state # "Idle"
    BY <1>2, SameTables DEF Ignored
  <2> QED
    BY <2>1, TaskEnds
<1>3. CASE onLogin(c)
  <2>1. r.queue # << >> /\ r.queue[1][1] = "login" /\ r.at = "start"
    BY <1>3 DEF onLogin, Runs
  <2>2. CASE Owner[c] \notin db.devices
    BY <1>3, <2>1, <2>2, ErrorEnds DEF onLogin
  <2>3. CASE Owner[c] \in db.devices
    <3> DEFINE n == [r EXCEPT !.cached = changeCount(db, Owner[c]), !.at = "announce"]
    <3>1. conn' = [conn EXCEPT ![c] = n] /\ UNCHANGED <<db, notes, events>>
      BY <1>3, <2>3 DEF onLogin
    <3>2. /\ n.at = "announce" /\ n.queue = r.queue /\ n.loaded = r.loaded
          /\ n.socket = r.socket /\ n.registered = r.registered
      BY <1>1 DEF Connection
    <3> HIDE DEF n
    <3>3. Announces
      BY <3>1, SameTables
    <3> QED
      BY <2>1, <3>1, <3>2, <3>3, TaskLoads DEF Loading
  <2> QED
    BY <2>2, <2>3
<1>4. CASE Announce(c) \/ onSync(c)
  <2>1. r.queue # << >> /\ r.queue[1][1] \in Loading /\ r.at # "send"
    BY <1>1, <1>4 DEF Announce, onSync, Runs, GoodTask, Loading
  <2>2. PICK n \in {[r EXCEPT !.state = "Idle", !.at = "load"], [r EXCEPT !.at = "load"]} :
          conn' = [conn EXCEPT ![c] = n]
    BY <1>4 DEF Announce, onSync
  <2>3. /\ n.at = "load" /\ n.queue = r.queue /\ n.loaded = r.loaded
        /\ n.socket = r.socket /\ n.registered = r.registered
    BY <1>1, <2>2 DEF Connection
  <2>4. /\ UNCHANGED <<db, notes>>
        /\ UNCHANGED events \/ events' = Append(events, <<"connected", c>>)
    BY <1>4 DEF Announce, onSync
  <2>5. Announces
    BY <2>4, SameTables
  <2> QED
    BY <2>1, <2>2, <2>3, <2>4, <2>5, TaskLoads
<1> QED
  BY <1>2, <1>3, <1>4

LEMMA ChangeEnds ==
  ASSUME ServerInv, ServerInv', RegistryInv, NEW c \in Clients, UNCHANGED clients,
         onChange(c) \/ onDeviceChange(c)
  PROVE  RegistryInv'
<1>1. conn[c].queue # << >> /\ conn[c].queue[1][1] \notin Loading
  BY DEF onChange, onDeviceChange, Runs, Loading
<1>2. PICK result : Transaction(c, result)
  BY DEF onChange, onDeviceChange
<1>3. CASE result.is # "ok"
  BY <1>1, <1>2, <1>3, ErrorEnds DEF Transaction
<1>4. CASE result.is = "ok"
  <2>1. /\ notes' = notes \cup Notified(db, db')
        /\ conn' = [conn EXCEPT ![c] = Done(@)] /\ UNCHANGED events
    BY <1>2, <1>4 DEF Transaction
  <2>2. Announces
    BY <2>1, NewIsNotified DEF ServerInv
  <2> QED
    BY <1>1, <2>1, <2>2, TaskEnds
<1> QED
  BY <1>3, <1>4

LEMMA RemoveEnds ==
  ASSUME ServerInv, ServerInv', RegistryInv, NEW c \in Clients, UNCHANGED clients, onRemove(c)
  PROVE  RegistryInv'
<1> DEFINE target == conn[c].queue[1][2]
<1>1. /\ conn[c].queue # << >> /\ conn[c].queue[1][1] = "remove" /\ UNCHANGED notes
      /\ db' = removeDevice(db, Owner[c], target)
      /\ UNCHANGED events \/ events' = Append(events, <<"forceDisconnect", target>>)
      /\ \/ conn' = [conn EXCEPT ![c] = [Done(@) EXCEPT !.state = "Error"]]
         \/ conn' = [conn EXCEPT ![c] = Done(@)]
  BY DEF onRemove, Runs
<1>2. conn[c].queue[1] \in Task
  BY <1>1, Running DEF Connection
<1>3. target \in Devices
  BY <1>1, <1>2, Tasks
<1>4. Announces
  <2>1. TablesInv(db) /\ TablesInv(db')
    BY DEF ServerInv
  <2>2. db' = db \/ db' = DeleteDevices(db, {target})
    BY <1>1, <2>1, TablesStay
  <2>3. db'.todo \subseteq db.todo
    BY <2>1, <2>2, DeleteDevicesRows DEF TablesInv
  <2> QED
    BY <2>1, <2>3, NothingNew
<1>5. conn[c].queue[1][1] \notin Loading
  BY <1>1 DEF Loading
<1>6. UNCHANGED events \/ \E d \in Devices : events' = Append(events, <<"forceDisconnect", d>>)
  BY <1>1, <1>3
<1> HIDE DEF target
<1> QED
  BY <1>1, <1>4, <1>5, <1>6, TaskEnds

LEMMA AckLoads ==
  ASSUME ServerInv, ServerInv', RegistryInv, NEW c \in Clients, UNCHANGED clients,
         onChangedAck(c) \/ CommitChangedAck(c)
  PROVE  RegistryInv'
<1> DEFINE r == conn[c]
           i == r.queue[1][2]
           at == IF NobodyElse(db, Owner[c], i) THEN "close" ELSE "confirm"
           active == RemoveFirst(r.active, i)
<1>1. /\ r.queue # << >> /\ r.queue[1][1] \in Loading /\ r.at # "send"
      /\ UNCHANGED <<notes, events>>
  <2>1. CASE onChangedAck(c)
    BY <2>1 DEF onChangedAck, Runs, Loading
  <2>2. CASE CommitChangedAck(c)
    BY <2>2 DEF CommitChangedAck, ServerInv, GoodConnection, Loading
  <2> QED
    BY <2>1, <2>2
<1>2. Announces
  <2>1. TablesInv(db) /\ TablesInv(db')
    BY DEF ServerInv
  <2>2. db'.todo \subseteq db.todo
    <3>1. CASE onChangedAck(c)
      BY <3>1 DEF onChangedAck
    <3>2. CASE CommitChangedAck(c)
      <4> DEFINE nobody == r.at = "close"
      <4>1. db' = completeChange(db, Owner[c], i, nobody) /\ nobody \in BOOLEAN
        BY <3>2 DEF CommitChangedAck
      <4> HIDE DEF nobody, i
      <4> DEFINE last == nobody /\ \E k \in db.changes : k.id = i
      <4>2. /\ last => db'.todo = {e \in db.todo : e[1] # i}
            /\ ~last => db'.todo = db.todo \ {<<i, Owner[c]>>}
        BY <2>1, <4>1, CompleteChangeRows
      <4> HIDE DEF last
      <4> QED
        BY <4>2
    <3> QED
      BY <3>1, <3>2
  <2> QED
    BY <2>1, <2>2, NothingNew
<1>3. PICK n \in {[r EXCEPT !.at = at], [r EXCEPT !.active = active, !.at = "load"]} :
        conn' = [conn EXCEPT ![c] = n]
  BY DEF onChangedAck, CommitChangedAck
<1>4. at \in {"confirm", "close"}
  OBVIOUS
<1> HIDE DEF active, at
<1>5. /\ n.at \in {"confirm", "close", "load"} /\ n.queue = r.queue /\ n.loaded = r.loaded
      /\ n.socket = r.socket /\ n.registered = r.registered
  BY <1>3, <1>4, Running DEF Connection
<1> QED
  BY <1>1, <1>2, <1>3, <1>5, TaskLoads

LEMMA RollBackEnds ==
  ASSUME ServerInv, RegistryInv, NEW c \in Clients, RollBack(c)
  PROVE  RegistryInv'
<1>1. conn[c].queue # << >>
  BY DEF RollBack, Runs, ServerInv, GoodConnection
<1> QED
  BY <1>1, ErrorEnds DEF RollBack

\* The least of some numbers.
LEMMA LeastOne ==
  ASSUME NEW S \in SUBSET Nat, S # {}
  PROVE  \E i \in S : \A j \in S : i <= j
<1> DEFINE R == {p \in Nat \X Nat : p[1] < p[2]}
<1>1. IsWellFoundedOn(R, Nat)
  BY NatLessThanWellFounded DEF OpToRel
<1>2. PICK i \in S : \A j \in S : <<j, i>> \notin R
  BY <1>1, WFMin
<1>3. \A j \in S : j \in Nat /\ (<<j, i>> \in R <=> j < i)
  OBVIOUS
<1> HIDE DEF R
<1>4. i \in Nat /\ \A j \in S : j \in Nat /\ ~(j < i)
  BY <1>2, <1>3
<1> QED
  BY <1>4

\* An empty window is filled if anything is left.
LEMMA WindowIsFilled ==
  ASSUME NEW t, TablesInv(t), NEW d, PendingFor(t, d) # {}
  PROVE  /\ Word(DownLimit - 0) >= DownThreshold
         /\ loadNextChanges(t, d, Word(DownLimit - 0), 0) # {}
<1>1. /\ DownLimit \in Nat /\ DownThreshold \in 1..DownLimit
      /\ Words \in Nat /\ DownLimit < Words
  BY ServerAssumption
<1>2. Word(DownLimit - 0) = DownLimit
  BY <1>1 DEF Word
<1>3. PendingFor(t, d) \in SUBSET Nat
  <2> SUFFICES ASSUME NEW i \in PendingFor(t, d)
               PROVE  i \in Nat
    OBVIOUS
  <2>1. <<i, d>> \in t.todo
    BY PendingIsTodo
  <2> QED
    BY <2>1 DEF TablesInv, Known
<1>4. PICK i \in PendingFor(t, d) : \A j \in PendingFor(t, d) : i <= j
  BY <1>3, LeastOne
<1> DEFINE before == {j \in PendingFor(t, d) : j < i}
<1>5. before = {}
  BY <1>3, <1>4
<1>6. Cardinality(before) = 0
  BY <1>5, FS_EmptySet
<1>7. 0 <= Cardinality(before) /\ Cardinality(before) < 0 + DownLimit
  BY <1>1, <1>6
<1> HIDE DEF before
<1>8. i \in loadNextChanges(t, d, DownLimit, 0)
  BY <1>4, <1>7 DEF loadNextChanges, before
<1> QED
  BY <1>1, <1>2, <1>8

LEMMA DownloadEnds ==
  ASSUME ServerInv, RegistryInv, NEW c \in Clients, UNCHANGED clients,
         LoadChanges(c) \/ SendChange(c) \/ EndDownload(c)
  PROVE  RegistryInv'
<1> DEFINE r == conn[c]
<1>1. /\ r \in Connection /\ GoodTask(r) /\ (r.at # "start" => r.queue # << >>)
      /\ TablesInv(db)
  BY Running
<1>2. /\ r.at \in {"load", "send"} /\ r.queue # << >> /\ r.queue[1][1] \in Loading
      /\ UNCHANGED <<db, notes, events>>
  BY <1>1 DEF LoadChanges, SendChange, EndDownload, GoodTask
<1>3. Announces
  BY <1>2, SameTables
<1>4. CASE LoadChanges(c)
  <2> DEFINE used == Len(r.active)
             count == Word(DownLimit - used)
             loaded == IF count >= DownThreshold
                         THEN loadNextChanges(db, Owner[c], count, used) ELSE {}
             n == [r EXCEPT !.at = "send", !.loaded = loaded]
  <2>1. conn' = [conn EXCEPT ![c] = n]
    BY <1>4 DEF LoadChanges
  <2>2. r.active = << >> => used = 0
    OBVIOUS
  <2> HIDE DEF used
  <2>3. r.active = << >> => loaded # {} \/ PendingFor(db, Owner[c]) = {}
    BY <1>1, <2>2, WindowIsFilled
  <2> HIDE DEF loaded
  <2>4. /\ n.at = "send" /\ n.loaded = loaded /\ n.queue = r.queue /\ n.active = r.active
        /\ n.socket = r.socket /\ n.state = r.state /\ n.registered = r.registered
    BY <1>1 DEF Connection
  <2> HIDE DEF n
  <2>5. GoodTask(n)
    BY <1>1, <1>2, <2>4 DEF GoodTask
  <2>6. Idling(n) => PendingFor(db, Owner[c]) = {}
    BY <2>3, <2>4 DEF Idling
  <2>7. Steady(r, n, PendingFor(db', Owner[c]))
    BY <1>2, <2>4, <2>5, <2>6 DEF Steady
  <2> QED
    BY <1>2, <1>3, <2>1, <2>7, ClientStep
<1>5. CASE SendChange(c)
  <2> DEFINE used == Len(r.active)
             count == IF r.cached = 0 THEN Word(changeCount(db, Owner[c]) - used) ELSE r.cached
  <2>1. PICK i \in r.loaded :
          conn' = [conn EXCEPT ![c].loaded = @ \ {i}, ![c].active = Append(@, i),
                               ![c].cached = Word(count - 1)]
    BY <1>5 DEF SendChange
  <2> DEFINE left == Word(count - 1)
             n == [r EXCEPT !.loaded = r.loaded \ {i}, !.active = Append(r.active, i),
                            !.cached = left]
  <2> HIDE DEF left
  <2>2. conn' = [conn EXCEPT ![c] = n]
    BY <2>1 DEF ServerInv, left
  <2>3. /\ n.at = r.at /\ n.queue = r.queue /\ n.active = Append(r.active, i)
        /\ n.socket = r.socket /\ n.registered = r.registered /\ n.state = r.state
        /\ r.active \in Seq(Nat)
    BY <1>1 DEF Connection
  <2> HIDE DEF n
  <2>4. r.at = "send"
    BY <1>5 DEF SendChange
  <2>5. GoodTask(n)
    BY <1>1, <1>2, <2>3, <2>4 DEF GoodTask
  <2>6. i \in Nat
    BY <1>1 DEF Connection
  <2>7. n.active # << >>
    BY <2>3, <2>6
  <2>8. \A p : Steady(r, n, p)
    BY <2>3, <2>5, <2>7 DEF Steady, Idling
  <2> QED
    BY <1>2, <1>3, <2>2, <2>8, ClientStep
<1>6. CASE EndDownload(c)
  <2>1. /\ r.at = "send" /\ r.loaded = {}
        /\ \/ conn' = [conn EXCEPT ![c] = Done(@)]
           \/ conn' = [conn EXCEPT ![c] = [Done(@) EXCEPT !.cached = 0]]
    BY <1>6 DEF EndDownload
  <2> QED
    BY <1>2, <1>3, <2>1, TaskEnds
<1> QED
  BY <1>4, <1>5, <1>6

--------------------------------------------------------------------------------
(* Steps of devices and sockets.                                             *)

LEMMA DeviceSteps ==
  ASSUME ServerInv, RegistryInv, NEW c \in Clients,
         NewConnection(c) \/ Request(c) \/ Receive(c) \/ Leave(c)
  PROVE  RegistryInv'
<1> DEFINE r == conn[c]
<1>1. /\ r \in Connection /\ GoodTask(r) /\ (r.at # "start" => r.queue # << >>)
      /\ UNCHANGED <<db, notes, events, clients>>
  BY Running DEF NewConnection, Request, Receive, Leave
<1>2. Announces
  BY <1>1, SameTables
<1>3. CASE NewConnection(c)
  <2> DEFINE n == [r EXCEPT !.socket = "open", !.peer = "login", !.queue = << <<"login">> >>]
  <2>1. conn' = [conn EXCEPT ![c] = n] /\ r.socket = "unused"
    BY <1>3 DEF NewConnection
  <2>2. /\ n.at = r.at /\ n.loaded = r.loaded /\ n.state = r.state
        /\ n.registered = r.registered /\ n.socket = "open"
    BY <1>1 DEF Connection
  <2> HIDE DEF n
  <2>3. r.state = "Authenticating" /\ r.at = "start" /\ r.loaded = {} /\ ~r.registered
    BY <1>1, <2>1 DEF GoodTask
  <2>4. \A p : Steady(r, n, p)
    BY <2>2, <2>3 DEF Steady, GoodTask, Idling
  <2> QED
    BY <1>1, <1>2, <2>1, <2>4, ClientStep
<1>4. CASE Request(c)
  <2>1. PICK task \in Requests[Owner[c]] : conn' = [conn EXCEPT ![c].queue = Append(@, task)]
    BY <1>4 DEF Request
  <2>2. task \in Task
    BY <2>1, Owned, RequestsAssumption DEF Task
  <2> DEFINE queue == Append(r.queue, task)
             n == [r EXCEPT !.queue = queue]
  <2>3. conn' = [conn EXCEPT ![c] = n] /\ r.socket # "unused"
    BY <1>4, <2>1 DEF Request, Open
  <2> HIDE DEF queue
  <2>4. /\ n.queue = queue /\ n.at = r.at /\ n.loaded = r.loaded /\ n.active = r.active
        /\ n.state = r.state /\ n.registered = r.registered /\ n.socket = r.socket
        /\ n.peer = r.peer
    BY <1>1 DEF Connection
  <2> HIDE DEF n
  <2>5. \A p : Steady(r, n, p)
    BY <1>1, <2>2, <2>3, <2>4, QueueIsSteady DEF queue
  <2> QED
    BY <1>1, <1>2, <2>3, <2>5, ClientStep
<1>5. CASE Receive(c)
  <2> DEFINE message == Head(out[c])
             confirms == message.type \in {"changed", "changedInfo"} /\ Open(c)
             peer == CASE message.type = "welcome" -> "ready"
                       [] message.type = "error" -> "left"
                       [] OTHER -> r.peer
             task == <<"changedAck", message.id>>
             queue == IF confirms THEN Append(r.queue, task) ELSE r.queue
             n == [r EXCEPT !.peer = peer, !.queue = queue]
  <2>1. conn' = [conn EXCEPT ![c] = n] /\ r.peer # "left" /\ out[c] # << >>
    BY <1>5 DEF Receive
  <2>2. confirms => task \in Task /\ r.socket # "unused"
    <3>1. out[c] \in Seq(DownMessage)
      BY DEF ServerInv, GoodMessages
    <3>2. message \in DownMessage
      BY <2>1, <3>1
    <3>3. message.type \in {"changed", "changedInfo"} => message.id \in Nat
      BY <3>2 DEF DownMessage, WelcomeMessage, LastChangedMessage, ErrorMessage
    <3> HIDE DEF message
    <3> QED
      BY <3>3 DEF Task, ChangedAckMessage, Open
  <2>3. <<"notify">> \in Task
    BY DEF Task
  <2> HIDE DEF confirms, peer, message
  <2>4. PICK added \in Task : queue = r.queue \/ (queue = Append(r.queue, added) /\ r.socket # "unused")
    BY <2>2, <2>3
  <2> HIDE DEF queue
  <2>5. /\ n.queue = queue /\ n.at = r.at /\ n.loaded = r.loaded /\ n.active = r.active
        /\ n.state = r.state /\ n.registered = r.registered /\ n.socket = r.socket
    BY <1>1 DEF Connection
  <2> HIDE DEF n
  <2>6. \A p : Steady(r, n, p)
    BY <1>1, <2>1, <2>4, <2>5, QueueIsSteady
  <2> QED
    BY <1>1, <1>2, <2>1, <2>6, ClientStep
<1>6. CASE Leave(c)
  <2> DEFINE n == [r EXCEPT !.peer = "left"]
  <2>1. conn' = [conn EXCEPT ![c] = n]
    BY <1>6 DEF Leave
  <2>2. /\ n.queue = r.queue /\ n.at = r.at /\ n.loaded = r.loaded /\ n.active = r.active
        /\ n.state = r.state /\ n.registered = r.registered /\ n.socket = r.socket
        /\ n.peer = "left"
    BY <1>1 DEF Connection
  <2> HIDE DEF n
  <2>3. <<"notify">> \in Task
    BY DEF Task
  <2>4. \A p : Steady(r, n, p)
    BY <1>1, <2>2, <2>3, QueueIsSteady
  <2> QED
    BY <1>1, <1>2, <2>1, <2>4, ClientStep
<1> QED
  BY <1>3, <1>4, <1>5, <1>6

LEMMA ClosedIsSteady ==
  ASSUME NEW r \in Connection, GoodTask(r), r.at # "start" => r.queue # << >>, NEW state,
         NEW n, n = Closed(r) \/ n = [Closed(r) EXCEPT !.state = state]
  PROVE  \A p : Steady(r, n, p)
<1> DEFINE queue == IF r.queue = << >> THEN r.queue ELSE <<Head(r.queue)>>
<1>1. (r.queue = << >> => queue = << >>) /\ (r.queue # << >> => queue[1] = r.queue[1])
  BY DEF Connection
<1>2. Closed(r) = [r EXCEPT !.socket = "closed", !.queue = queue]
  BY DEF Closed, Connection
<1> HIDE DEF queue
<1>3. CASE n = Closed(r)
  <2>1. /\ n.socket = "closed" /\ n.queue = queue /\ n.at = r.at /\ n.loaded = r.loaded
        /\ n.registered = r.registered
    BY <1>2, <1>3 DEF Connection
  <2> QED
    BY <1>1, <2>1, CloseIsSteady
<1>4. CASE n = [Closed(r) EXCEPT !.state = state]
  <2>1. n = [[r EXCEPT !.socket = "closed", !.queue = queue] EXCEPT !.state = state]
    BY <1>2, <1>4
  <2>2. /\ n.socket = "closed" /\ n.queue = queue /\ n.at = r.at /\ n.loaded = r.loaded
        /\ n.registered = r.registered
    BY <2>1 DEF Connection
  <2> QED
    BY <1>1, <2>2, CloseIsSteady
<1> QED
  BY <1>3, <1>4

LEMMA CloseSteps ==
  ASSUME ServerInv, RegistryInv, NEW c \in Clients, closeClient(c) \/ closeLater(c) \/ Fault(c)
  PROVE  RegistryInv'
<1>1. UNCHANGED <<db, notes, events, clients>>
  BY DEF closeClient, closeLater, Fault
<1>2. Announces
  BY <1>1, SameTables
<1>3. \/ conn' = [conn EXCEPT ![c] = Closed(conn[c])]
      \/ \E state : conn' = [conn EXCEPT ![c] = [Closed(conn[c]) EXCEPT !.state = state]]
  BY DEF closeClient, closeLater, Fault
<1>4. PICK state : \/ conn' = [conn EXCEPT ![c] = Closed(conn[c])]
                   \/ conn' = [conn EXCEPT ![c] = [Closed(conn[c]) EXCEPT !.state = state]]
  BY <1>3
<1>5. PICK n \in {Closed(conn[c]), [Closed(conn[c]) EXCEPT !.state = state]} :
        conn' = [conn EXCEPT ![c] = n]
  BY <1>4
<1>6. \A p : Steady(conn[c], n, p)
  BY <1>5, Running, ClosedIsSteady
<1> QED
  BY <1>1, <1>2, <1>5, <1>6, ClientStep

LEMMA DestroyStep ==
  ASSUME ServerInv, RegistryInv, NEW c \in Clients, Destroy(c)
  PROVE  RegistryInv'
<1> DEFINE r == conn[c]
           n == [r EXCEPT !.socket = "destroyed", !.peer = "left"]
<1>1. /\ r \in Connection /\ GoodTask(r) /\ (r.at # "start" => r.queue # << >>)
      /\ UNCHANGED <<db, notes, events>> /\ conn' = [conn EXCEPT ![c] = n]
      /\ clients' = IF r.registered THEN [clients EXCEPT ![Owner[c]] = None] ELSE clients
      /\ r.queue = << >>
  BY Running DEF Destroy
<1>2. /\ n.socket = "destroyed" /\ n.queue = r.queue /\ n.at = r.at /\ n.loaded = r.loaded
      /\ n.registered = r.registered
  BY <1>1 DEF Connection
<1> HIDE DEF n
<1>3. GoodTask(n) /\ ~Idling(n)
  BY <1>1, <1>2 DEF GoodTask, Idling
<1>4. conn'[c] = n /\ \A e \in Clients \ {c} : conn'[e] = conn[e]
  BY <1>1 DEF ServerInv
<1>5. /\ clients' = [d \in Devices |-> clients'[d]]
      /\ \A d \in Devices : clients'[d] = clients[d] \/ clients'[d] = None
      /\ r.registered => clients'[Owner[c]] = None
  BY <1>1, Owned DEF RegistryInv
<1>6. ASSUME NEW d \in Devices
      PROVE  GoodEntry(d)'
  <2> SUFFICES ASSUME clients'[d] # None
               PROVE  /\ clients'[d] \in Clients /\ Owner[clients'[d]] = d
                      /\ conn'[clients'[d]].registered /\ conn'[clients'[d]].socket # "destroyed"
    BY DEF GoodEntry
  <2>1. clients'[d] = clients[d] /\ GoodEntry(d)
    BY <1>5 DEF RegistryInv
  <2>2. clients[d] # c
    BY <1>5, <2>1 DEF GoodEntry
  <2> QED
    BY <1>4, <2>1, <2>2 DEF GoodEntry
<1>7. ASSUME NEW e \in Clients
      PROVE  Awake(e)'
  <2>1. CASE e = c
    BY <1>3, <1>4, <2>1 DEF Awake
  <2>2. CASE e # c
    <3>1. conn'[e] = conn[e] /\ (clients'[Owner[e]] = e => clients[Owner[e]] = e)
      BY <1>4, <1>5, <2>2, Owned, ServerAssumption DEF Clients
    <3>2. \A p : NotifiedAfter(p, Owner[e])' <=> NotifiedAfter(p, Owner[e])
      BY <1>1 DEF NotifiedAfter
    <3>3. Awake(e)
      BY DEF RegistryInv
    <3> QED
      BY <1>1, <3>1, <3>2, <3>3 DEF Awake
  <2> QED
    BY <2>1, <2>2
<1> QED
  BY <1>1, <1>2, <1>3, <1>4, <1>5, <1>6, <1>7 DEF RegistryInv

--------------------------------------------------------------------------------
(* Steps of the main thread.                                                 *)

\* A notification of the database becomes an event behind all others.
LEMMA ListenStep ==
  ASSUME ServerInv, RegistryInv, NEW d \in Devices, onNotify(d)
  PROVE  RegistryInv'
<1>1. /\ notes' = notes \ {d} /\ events' = Append(events, <<"notify", d>>)
      /\ UNCHANGED <<db, clients, conn>> /\ events \in Seq(Event)
  BY DEF onNotify, RegistryInv
<1>2. <<"notify", d>> \in Event
  BY DEF Event
<1>3. /\ events' \in Seq(Event)
      /\ Len(events) \in Nat /\ Len(events') = Len(events) + 1
      /\ \A k \in 1..Len(events) : events'[k] = events[k]
      /\ events'[Len(events) + 1] = <<"notify", d>>
  BY <1>1, <1>2, Appended
<1>4. \A c, k \in 1..Len(events') :
        events'[k] = <<"connected", c>> => k \in 1..Len(events) /\ events[k] = <<"connected", c>>
  <2>1. \A k \in 1..Len(events') : k \in 1..Len(events) \/ k = Len(events) + 1
    BY <1>3
  <2> QED
    BY <1>3, <2>1
<1>5. /\ \A p, e : NotifiedAfter(p, e) => NotifiedAfter(p, e)'
      /\ \A p \in 0..Len(events) : NotifiedAfter(p, d)'
  <2>1. Len(events) + 1 \in 1..Len(events')
    BY <1>3
  <2> QED
    BY <1>3, <2>1 DEF NotifiedAfter
<1>6. ASSUME NEW c \in Clients
      PROVE  Awake(c)'
  <2>1. Awake(c)
    BY DEF RegistryInv
  <2>2. CASE Owner[c] = d
    BY <1>3, <1>4, <1>5, <2>2 DEF Awake
  <2>3. CASE Owner[c] # d
    BY <1>1, <1>4, <1>5, <2>1, <2>3 DEF Awake
  <2> QED
    BY <2>2, <2>3
<1>7. \A c \in Clients, k \in 1..Len(events') :
        events'[k] = <<"connected", c>> => conn'[c].socket # "unused"
  BY <1>1, <1>4 DEF RegistryInv
<1> QED
  BY <1>1, <1>3, <1>6, <1>7 DEF RegistryInv, GoodEntry

\* The first event is handled.
LEMMA EventHandled ==
  ASSUME RegistryInv, events # << >>, events' = Tail(events), UNCHANGED <<db, notes>>,
         clients' = [d \in Devices |-> clients'[d]],
         \A d \in Devices : GoodEntry(d)',
         \A c \in Clients :
           /\ GoodTask(conn'[c])
           /\ conn'[c].socket = "unused" => conn[c].socket = "unused"
           /\ Idling(conn'[c]) =>
                /\ Idling(conn[c])
                /\ clients'[Owner[c]] = c =>
                     \/ Head(events) = <<"connected", c>>
                     \/ clients[Owner[c]] = c /\ Head(events) # <<"notify", Owner[c]>>
  PROVE  RegistryInv'
<1>1. /\ events \in Seq(Event) /\ Head(events) = events[1]
      /\ Len(events) \in Nat \ {0} /\ events' \in Seq(Event)
      /\ Len(events') = Len(events) - 1
      /\ \A k \in 1..Len(events') : events'[k] = events[k + 1]
  BY DEF RegistryInv
<1>2. \A k \in 1..Len(events') : k + 1 \in 1..Len(events)
  BY <1>1
<1>3. ASSUME NEW d, NEW p \in Nat, NotifiedAfter(p + 1, d)
      PROVE  NotifiedAfter(p, d)'
  <2>1. PICK j \in 1..Len(events) : p + 1 < j /\ events[j] = <<"notify", d>>
    BY <1>3 DEF NotifiedAfter
  <2>2. j - 1 \in 1..Len(events') /\ p < j - 1 /\ events'[j - 1] = events[j]
    BY <1>1, <2>1
  <2> QED
    BY <2>1, <2>2 DEF NotifiedAfter
<1>4. ASSUME NEW d, NotifiedAfter(0, d), Head(events) # <<"notify", d>>
      PROVE  NotifiedAfter(1, d)
  <2>1. PICK j \in 1..Len(events) : 0 < j /\ events[j] = <<"notify", d>>
    BY <1>4 DEF NotifiedAfter
  <2>2. j # 1
    BY <1>1, <1>4, <2>1
  <2> QED
    BY <1>1, <2>1, <2>2 DEF NotifiedAfter
<1>5. ASSUME NEW c \in Clients, Idling(conn'[c]), PendingFor(db', Owner[c]) # {},
             Owner[c] \notin notes'
      PROVE  /\ clients'[Owner[c]] = c => NotifiedAfter(0, Owner[c])'
             /\ \A k \in 1..Len(events') :
                  events'[k] = <<"connected", c>> => NotifiedAfter(k, Owner[c])'
  <2>1. /\ clients[Owner[c]] = c => NotifiedAfter(0, Owner[c])
        /\ \A k \in 1..Len(events) :
             events[k] = <<"connected", c>> => NotifiedAfter(k, Owner[c])
    BY <1>5 DEF RegistryInv, Awake
  <2>2. ASSUME clients'[Owner[c]] = c
        PROVE  NotifiedAfter(0, Owner[c])'
    <3>1. CASE Head(events) = <<"connected", c>>
      <4>1. NotifiedAfter(1, Owner[c])
        BY <1>1, <2>1, <3>1
      <4> QED
        BY <1>3, <4>1
    <3>2. CASE clients[Owner[c]] = c /\ Head(events) # <<"notify", Owner[c]>>
      <4>1. NotifiedAfter(1, Owner[c])
        BY <1>4, <2>1, <3>2
      <4> QED
        BY <1>3, <4>1
    <3> QED
      BY <1>5, <2>2, <3>1, <3>2
  <2>3. ASSUME NEW k \in 1..Len(events'), events'[k] = <<"connected", c>>
        PROVE  NotifiedAfter(k, Owner[c])'
    <3>1. NotifiedAfter(k + 1, Owner[c])
      BY <1>1, <1>2, <2>1, <2>3
    <3> QED
      BY <1>3, <3>1
  <2> QED
    BY <2>2, <2>3
<1>6. \A c \in Clients : Awake(c)'
  BY <1>5 DEF Awake
<1>7. \A c \in Clients, k \in 1..Len(events') :
        events'[k] = <<"connected", c>> => conn'[c].socket # "unused"
  BY <1>1, <1>2 DEF RegistryInv
<1> QED
  BY <1>1, <1>6, <1>7 DEF RegistryInv

\* What a connection is when it is dropped, or left alone.
LEMMA DroppedIsSteady ==
  ASSUME ServerInv, RegistryInv, NEW c \in Clients, NEW n, n = conn[c] \/ n = Dropped(conn[c])
  PROVE  /\ GoodTask(n) /\ (Idling(n) => Idling(conn[c]))
         /\ conn[c].registered => n.registered
         /\ n.socket = "unused" => conn[c].socket = "unused"
         /\ n.socket = "destroyed" => conn[c].socket = "destroyed"
         /\ n = conn[c] \/ \A p : Steady(conn[c], n, p)
<1>1. CASE n = conn[c]
  BY <1>1, Running
<1>2. CASE n = Closed(conn[c])
  <2>1. \A p : Steady(conn[c], n, p)
    BY <1>2, Running, ClosedIsSteady
  <2>2. Steady(conn[c], n, {0})
    BY <2>1
  <2> QED
    BY <2>1, <2>2 DEF Steady
<1> QED
  BY <1>1, <1>2 DEF Dropped

LEMMA ForceDisconnectStep ==
  ASSUME ServerInv, RegistryInv, NEW d \in Devices, forceDisconnect(d)
  PROVE  RegistryInv'
<1>1. /\ events # << >> /\ Head(events) = <<"forceDisconnect", d>> /\ events' = Tail(events)
      /\ UNCHANGED <<db, notes, clients>>
      /\ conn' = IF clients[d] = None THEN conn ELSE [conn EXCEPT ![clients[d]] = Dropped(@)]
  BY DEF forceDisconnect
<1>2. \A c \in Clients : conn'[c] = conn[c] \/ conn'[c] = Dropped(conn[c])
  BY <1>1 DEF ServerInv
<1>3. \A c \in Clients :
        /\ GoodTask(conn'[c]) /\ (Idling(conn'[c]) => Idling(conn[c]))
        /\ conn[c].registered => conn'[c].registered
        /\ conn'[c].socket = "unused" => conn[c].socket = "unused"
        /\ conn'[c].socket = "destroyed" => conn[c].socket = "destroyed"
  BY <1>2, DroppedIsSteady
<1>4. \A e \in Devices : GoodEntry(e)'
  BY <1>1, <1>3 DEF RegistryInv, GoodEntry
<1>5. clients' = [e \in Devices |-> clients'[e]]
  BY <1>1 DEF RegistryInv
<1>6. \A e : Head(events) # <<"notify", e>>
  BY <1>1
<1> QED
  BY <1>1, <1>3, <1>4, <1>5, <1>6, EventHandled

LEMMA NotifyChangedStep ==
  ASSUME ServerInv, RegistryInv, NEW d \in Devices, notifyChanged(d)
  PROVE  RegistryInv'
<1> DEFINE h == clients[d]
<1>1. /\ events # << >> /\ Head(events) = <<"notify", d>> /\ events' = Tail(events)
      /\ UNCHANGED <<db, notes, clients>>
      /\ conn' = IF h = None THEN conn ELSE [conn EXCEPT ![h].queue = Append(@, <<"notify">>)]
  BY DEF notifyChanged
<1>2. clients' = [e \in Devices |-> clients'[e]]
  BY <1>1 DEF RegistryInv
<1>3. \A e \in Devices : Head(events) = <<"notify", e>> => e = d
  BY <1>1
<1>4. \A c : Head(events) # <<"connected", c>>
  BY <1>1
<1>5. CASE h = None
  <2>1. \A c \in Clients : clients[Owner[c]] = c => Owner[c] # d
    BY <1>5, ServerAssumption
  <2>2. UNCHANGED conn
    BY <1>1, <1>5
  <2>3. \A e \in Devices : GoodEntry(e)'
    BY <1>1, <2>2 DEF RegistryInv, GoodEntry
  <2>4. \A c \in Clients : GoodTask(conn'[c])
    BY <2>2 DEF RegistryInv
  <2> QED
    BY <1>1, <1>2, <1>3, <2>1, <2>2, <2>3, <2>4, Owned, EventHandled
<1>6. CASE h # None
  <2>1. h \in Clients /\ Owner[h] = d /\ conn[h].registered /\ conn[h].socket # "destroyed"
    BY <1>6 DEF RegistryInv, GoodEntry
  <2> DEFINE r == conn[h]
             queue == Append(r.queue, <<"notify">>)
             n == [r EXCEPT !.queue = queue]
  <2>2. /\ r \in Connection /\ GoodTask(r) /\ (r.at # "start" => r.queue # << >>)
    BY <2>1, Running
  <2>3. /\ queue # << >> /\ Len(queue) \in 1..Len(queue) /\ queue[Len(queue)] = <<"notify">>
        /\ (r.queue # << >> => Len(queue) # 1 /\ queue[1] = r.queue[1])
    <3>1. r.queue \in Seq(Task) /\ <<"notify">> \in Task
      BY <2>2 DEF Connection, Task
    <3>2. /\ Len(r.queue) \in Nat /\ Len(queue) = Len(r.queue) + 1
          /\ queue[Len(r.queue) + 1] = <<"notify">>
          /\ \A k \in 1..Len(r.queue) : queue[k] = r.queue[k]
      BY <3>1
    <3>3. queue # << >> /\ (r.queue # << >> => Len(r.queue) # 0)
      BY <3>1
    <3> HIDE DEF r, queue
    <3> QED
      BY <3>2, <3>3
  <2>4. conn' = [conn EXCEPT ![h] = n]
    BY <1>1, <1>6
  <2> HIDE DEF queue
  <2>5. /\ n.queue = queue /\ n.at = r.at /\ n.loaded = r.loaded /\ n.state = r.state
        /\ n.registered = r.registered /\ n.socket = r.socket
    BY <2>2 DEF Connection
  <2> HIDE DEF n
  <2>6. ~Idling(n)
    <3>1. queue[Len(queue)][1] \in Loading
      BY <2>3 DEF Loading
    <3>2. Idling(n) => Len(queue) = 1 /\ r.at = "send"
      BY <2>3, <2>5, <3>1 DEF Idling
    <3> QED
      BY <2>2, <2>3, <3>2
  <2>7. GoodTask(n)
    <3>1. r.socket # "unused"
      BY <2>1, <2>2 DEF GoodTask
    <3> QED
      BY <2>2, <2>3, <2>5, <3>1 DEF GoodTask
  <2>8. conn'[h] = n /\ \A c \in Clients \ {h} : conn'[c] = conn[c]
    BY <2>1, <2>4 DEF ServerInv
  <2>9. \A e \in Devices : GoodEntry(e)'
    BY <1>1, <2>5, <2>8 DEF RegistryInv, GoodEntry
  <2>10. \A c \in Clients :
           /\ GoodTask(conn'[c])
           /\ conn'[c].socket = "unused" => conn[c].socket = "unused"
           /\ Idling(conn'[c]) => Idling(conn[c]) /\ c # h
    BY <2>5, <2>6, <2>7, <2>8 DEF RegistryInv
  <2>11. \A c \in Clients : clients'[Owner[c]] = c /\ c # h =>
           clients[Owner[c]] = c /\ Head(events) # <<"notify", Owner[c]>>
    BY <1>1, <1>3, Owned
  <2> QED
    BY <1>1, <1>2, <2>9, <2>10, <2>11, EventHandled
<1> QED
  BY <1>5, <1>6

LEMMA ClientConnectedStep ==
  ASSUME ServerInv, RegistryInv, NEW c \in Clients, clientConnected(c)
  PROVE  RegistryInv'
<1> DEFINE r == conn[c]
           n == [r EXCEPT !.registered = TRUE]
<1>1. /\ events # << >> /\ Head(events) = <<"connected", c>> /\ events' = Tail(events)
      /\ UNCHANGED <<db, notes>>
      /\ \/ r.socket = "destroyed" /\ UNCHANGED <<clients, conn>>
         \/ /\ r.socket # "destroyed"
            /\ clients' = [clients EXCEPT ![Owner[c]] = c]
            /\ conn' = [conn EXCEPT ![c] = n]
  BY DEF clientConnected
<1>2. \A e : Head(events) # <<"notify", e>>
  BY <1>1
<1>3. CASE UNCHANGED <<clients, conn>>
  <2>1. clients' = [e \in Devices |-> clients'[e]]
    BY <1>3 DEF RegistryInv
  <2>2. \A e \in Devices : GoodEntry(e)'
    BY <1>3 DEF RegistryInv, GoodEntry
  <2>3. \A e \in Clients : GoodTask(conn'[e])
    BY <1>3 DEF RegistryInv
  <2> QED
    BY <1>1, <1>2, <1>3, <2>1, <2>2, <2>3, EventHandled
<1>4. CASE /\ r.socket # "destroyed"
           /\ clients' = [clients EXCEPT ![Owner[c]] = c] /\ conn' = [conn EXCEPT ![c] = n]
  <2>1. r \in Connection /\ GoodTask(r) /\ Owner[c] \in Devices
    BY Running
  <2>2. /\ n.queue = r.queue /\ n.at = r.at /\ n.loaded = r.loaded /\ n.state = r.state
        /\ n.active = r.active /\ n.peer = r.peer /\ n.socket = r.socket /\ n.registered
    BY <2>1 DEF Connection
  <2> HIDE DEF n
  <2>3. r.socket # "unused"
    <3>1. 1 \in 1..Len(events) /\ events[1] = <<"connected", c>>
      BY <1>1 DEF RegistryInv
    <3> QED
      BY <3>1 DEF RegistryInv
  <2>4. GoodTask(n) /\ (Idling(n) => Idling(r))
    BY <2>1, <2>2, <2>3 DEF GoodTask, Idling
  <2>5. conn'[c] = n /\ \A e \in Clients \ {c} : conn'[e] = conn[e]
    BY <1>4 DEF ServerInv
  <2>6. /\ clients' = [e \in Devices |-> clients'[e]]
        /\ clients'[Owner[c]] = c
        /\ \A e \in Devices \ {Owner[c]} : clients'[e] = clients[e]
    BY <1>4, <2>1 DEF RegistryInv
  <2>7. ASSUME NEW d \in Devices
        PROVE  GoodEntry(d)'
    <3>1. CASE d = Owner[c]
      BY <1>4, <2>2, <2>5, <2>6, <3>1 DEF GoodEntry
    <3>2. CASE d # Owner[c]
      <4>1. clients'[d] = clients[d] /\ GoodEntry(d)
        BY <2>6, <3>2 DEF RegistryInv
      <4>2. clients[d] # None => clients[d] # c
        BY <3>2, <4>1 DEF GoodEntry
      <4> QED
        BY <2>5, <4>1, <4>2 DEF GoodEntry
    <3> QED
      BY <3>1, <3>2
  <2>8. \A e \in Clients :
          /\ GoodTask(conn'[e])
          /\ conn'[e].socket = "unused" => conn[e].socket = "unused"
          /\ Idling(conn'[e]) => Idling(conn[e])
    BY <2>2, <2>4, <2>5 DEF RegistryInv
  <2>9. \A e \in Clients : clients'[Owner[e]] = e => e = c \/ clients[Owner[e]] = e
    BY <2>6, Owned
  <2> QED
    BY <1>1, <1>2, <2>6, <2>7, <2>8, <2>9, EventHandled
<1> QED
  BY <1>1, <1>3, <1>4

LEMMA PauseStep ==
  ASSUME ServerInv, RegistryInv, disconnectAll \/ Resume
  PROVE  RegistryInv'
<1>1. UNCHANGED <<db, notes, events, clients>>
  BY DEF disconnectAll, Resume
<1>2. \A c \in Clients : conn'[c] = conn[c] \/ conn'[c] = Dropped(conn[c])
  BY DEF disconnectAll, Resume
<1>3. \A c \in Clients : \/ conn'[c] = conn[c]
                         \/ Steady(conn[c], conn'[c], PendingFor(db', Owner[c]))
  BY <1>2, DroppedIsSteady
<1>4. Announces
  BY <1>1, SameTables
<1> QED
  BY <1>1, <1>3, <1>4, SteadyStep

\* An administrator only takes changes away.
LEMMA RemovalStep ==
  ASSUME ServerInv, ServerInv', RegistryInv, UpdateQuota \/ cleanupDevices
  PROVE  RegistryInv'
<1>1. UNCHANGED <<notes, events, clients, conn>> /\ TablesInv(db) /\ TablesInv(db')
  BY DEF UpdateQuota, cleanupDevices, ServerInv
<1>2. db'.todo \subseteq db.todo
  <2>1. \A D : DeleteDevices(db, D).todo \subseteq db.todo
    BY <1>1, DeleteDevicesRows DEF TablesInv
  <2>2. (\E D : db' = DeleteDevices(db, D)) \/ db'.todo = db.todo
    BY <1>1, TablesStay DEF UpdateQuota, cleanupDevices
  <2> QED
    BY <2>1, <2>2
<1>3. Announces
  BY <1>1, <1>2, NothingNew
<1> QED
  BY <1>1, <1>3, SteadyStep

--------------------------------------------------------------------------------
(* The theorems.                                                             *)

LEMMA RegistryInvIsKept ==
  ASSUME ServerInv, RegistryInv, [Next]_vars
  PROVE  ServerInv' /\ RegistryInv'
<1>1. ServerInv'
  BY NextImplements DEF Implements
<1>2. ASSUME NEW c \in Clients, TaskStep(c)
      PROVE  RegistryInv'
  <2>1. UNCHANGED clients
    BY <1>2 DEF TaskStep
  <2> QED
    BY <1>1, <1>2, <2>1, LoginEnds, ChangeEnds, RemoveEnds, AckLoads, DownloadEnds DEF TaskStep
<1>3. ASSUME NEW c \in Clients, MainStep(c) \/ Fault(c)
      PROVE  RegistryInv'
  BY <1>3, CloseSteps, DestroyStep DEF MainStep
<1>4. ASSUME NEW c \in Clients,
             RollBack(c) \/ NewConnection(c) \/ Request(c) \/ Receive(c) \/ Leave(c)
      PROVE  RegistryInv'
  BY <1>4, DeviceSteps, RollBackEnds
<1>5. CASE Listen \/ HandleEvent
  BY <1>1, <1>5, ListenStep, ForceDisconnectStep, NotifyChangedStep, ClientConnectedStep
  DEF Listen, HandleEvent
<1>6. CASE disconnectAll \/ Resume
  BY <1>1, <1>6, PauseStep
<1>7. CASE UpdateQuota \/ cleanupDevices
  BY <1>1, <1>7, RemovalStep
<1>8. CASE UNCHANGED vars
  <2>1. UNCHANGED <<db, notes, events, clients, conn>>
    BY <1>8 DEF vars
  <2> QED
    BY <1>1, <2>1, SameTables, SteadyStep
<1> QED
  BY <1>1, <1>2, <1>3, <1>4, <1>5, <1>6, <1>7, <1>8 DEF Next

LEMMA RegistryInvAtFirst ==
  ASSUME Init
  PROVE  ServerInv /\ RegistryInv
<1>1. ServerInv
  BY InitImplements
<1>2. events = << >> /\ clients = [d \in Devices |-> None]
  BY DEF Init
<1>3. \A c \in Clients :
        /\ conn[c].socket = "unused" /\ conn[c].state = "Authenticating"
        /\ conn[c].queue = << >> /\ conn[c].at = "start" /\ conn[c].loaded = {}
        /\ ~conn[c].registered
  BY DEF Init
<1>4. events \in Seq(Event) /\ 1..Len(events) = {}
  BY <1>2
<1>5. \A c \in Clients : GoodTask(conn[c]) /\ Awake(c)
  BY <1>3 DEF GoodTask, Awake, Idling
<1> QED
  BY <1>1, <1>2, <1>4, <1>5 DEF RegistryInv, GoodEntry

\* The registry of connected devices never holds a client that was destroyed, nor
\* one of another device, whatever the order in which the clients of a device are
\* registered and destroyed (ClientConnector::clients, clientConnected and the
\* slot of Client::destroyed).
THEOREM RegistryStaysAlive == Spec => []RegistryIsAlive
<1>1. Init => ServerInv /\ RegistryInv
  BY RegistryInvAtFirst
<1>2. ServerInv /\ RegistryInv /\ [Next]_vars => ServerInv' /\ RegistryInv'
  BY RegistryInvIsKept
<1>3. RegistryInv => RegistryIsAlive
  BY DEF RegistryInv, GoodEntry, RegistryIsAlive
<1> QED
  BY <1>1, <1>2, <1>3, PTL DEF Spec

\* No wakeup is lost: while a registered connection is in use and its device has
\* changes waiting, one of its tasks runs, a notification is on its way, or a
\* download has to be confirmed first (onLogin, triggerDownload, notifyChanged and
\* the trigger of devicechanges).
THEOREM NoWakeupIsLost == Spec => []NothingForgotten
<1>1. Init => ServerInv /\ RegistryInv
  BY RegistryInvAtFirst
<1>2. ServerInv /\ RegistryInv /\ [Next]_vars => ServerInv' /\ RegistryInv'
  BY RegistryInvIsKept
<1>3. ServerInv /\ RegistryInv => NothingForgotten
  <2> SUFFICES ASSUME ServerInv, RegistryInv, NEW d \in Devices, Serving(d),
                      PendingFor(db, d) # {}, ~Announced(d), conn[clients[d]].active = << >>
               PROVE  FALSE
    BY DEF NothingForgotten
  <2> DEFINE c == clients[d]
  <2>1. c \in Clients /\ Owner[c] = d
    BY DEF RegistryInv, GoodEntry, Serving
  <2>2. conn[c].queue = << >>
    BY DEF Announced
  <2>3. conn[c].loaded = {}
    BY <2>1, <2>2, Running DEF GoodTask
  <2>4. Idling(conn[c])
    BY <2>2, <2>3 DEF Idling, Serving, Open
  <2>5. d \notin notes /\ ~NotifiedAfter(0, d)
    BY DEF Announced, NotifiedAfter
  <2>6. Awake(c)
    BY <2>1 DEF RegistryInv
  <2> QED
    BY <2>1, <2>4, <2>5, <2>6 DEF Awake
<1> QED
  BY <1>1, <1>2, <1>3, PTL DEF Spec
================================================================================
