----------------------------- MODULE ExchangeProofs -----------------------------
(***************************************************************************)
(* Theorems about the exchange of a dataset, for every set of devices,     *)
(* every set of contents and every bound: the type invariant, the growth   *)
(* of versions, and the invariant that no version that counts as           *)
(* synchronized is lost.  Before them, what the operations on rows return, *)
(* and the agreement of two devices that merge each other's row.           *)
(***************************************************************************)
EXTENDS Exchange, FiniteSetTheorems, SequenceTheorems, TLAPS

--------------------------------------------------------------------------------
(* Rows.                                                                     *)

\* What the operations on rows return is a well-formed row.
GoodRow(r) == r \in Row /\ WellFormed(r)

LEMMA EditsAreRows ==
  ASSUME NEW r \in Row, NEW data \in Data
  PROVE  /\ GoodRow(save(r, data)) /\ save(r, data).version = r.version + 1
         /\ save(r, data).changed
  BY DataAssumption DEF GoodRow, WellFormed, Row, save, MakeRow, NoExists

LEMMA RemoveIsRow ==
  ASSUME NEW r \in Row, Exists(r)
  PROVE  /\ GoodRow(remove(r)) /\ remove(r).version = r.version + 1
         /\ remove(r).changed
  BY DataAssumption DEF GoodRow, WellFormed, Row, remove, MakeRow, NoExists, Exists

LEMMA MarkUnchangedIsRow ==
  ASSUME NEW r, GoodRow(r), NEW v \in Nat, NEW b \in BOOLEAN
  PROVE  GoodRow(markUnchanged(r, v, b))
  BY DataAssumption DEF GoodRow, WellFormed, Row, markUnchanged, NoRow, NoExists, ExistsDeleted

\* A merge returns a good row.
LEMMA MergeIsRow ==
  ASSUME NEW r, GoodRow(r), NEW v \in Nat, NEW c \in Payload
  PROVE  GoodRow(syncChange(r, v, c))
<1>1. r \in Row /\ r.version \in Nat /\ r.content \in Data \cup {Deleted, Absent}
  BY DEF GoodRow, WellFormed, Row
<1>2. CASE Exists(r) /\ c = Deleted
  <2>1. syncChange(r, v, c) = ExistsVsDeleted(r, v)
    BY <1>2, DataAssumption DEF syncChange, Exists, ExistsDeleted, NoExists
  <2> QED
    BY <1>1, <1>2, <2>1, DataAssumption, ConfigAssumption
    DEF ExistsVsDeleted, GoodRow, WellFormed, Row, storeDeleted, updateVersion, MakeRow,
        NoExists, Exists
<1>3. CASE Exists(r) /\ c # Deleted
  <2>1. syncChange(r, v, c) = ExistsVsChanged(r, v, c) /\ c \in Data
    BY <1>3, DataAssumption DEF syncChange, Exists, ExistsDeleted, NoExists, Payload
  <2>2. CASE r.version = v /\ r.content = c
    <3>1. syncChange(r, v, c) = [r EXCEPT !.changed = FALSE]
      BY <1>1, <1>3, <2>1, <2>2, DataAssumption
      DEF ExistsVsChanged, markUnchanged, NoExists, Exists
    <3> QED
      BY <1>1, <1>3, <3>1, DataAssumption DEF GoodRow, WellFormed, Row, NoExists, Exists
  <2>3. CASE r.version = v /\ r.content # c
    <3>1. syncChange(r, v, c) = Conflict(r, v, c)
      BY <1>1, <2>1, <2>3 DEF ExistsVsChanged
    <3> QED
      BY <1>1, <1>3, <2>1, <3>1, DataAssumption, ResolverAssumption
      DEF Conflict, GoodRow, WellFormed, Row, storeChanged, updateVersion, MakeRow, NoExists, Exists
  <2>4. CASE r.version # v
    BY <1>1, <2>1, <2>4, DataAssumption
    DEF ExistsVsChanged, storeChanged, MakeRow, GoodRow, WellFormed, Row, NoExists
  <2> QED BY <2>2, <2>3, <2>4
<1>4. CASE ExistsDeleted(r) /\ c = Deleted
  <2>1. syncChange(r, v, c) = CachedDeleteVsDeleted(r, v)
    BY <1>4, DataAssumption DEF syncChange, Exists, ExistsDeleted, NoExists
  <2>2. syncChange(r, v, c) \in {r, NoRow, MakeRow(v, Deleted, FALSE)}
    BY <1>1, <1>4, <2>1, DataAssumption, ConfigAssumption
    DEF CachedDeleteVsDeleted, markUnchanged, updateVersion, MakeRow, NoExists,
        ExistsDeleted
  <2>3. GoodRow(NoRow)
    BY DEF GoodRow, WellFormed, Row, NoRow
  <2>4. GoodRow(MakeRow(v, Deleted, FALSE))
    BY DataAssumption DEF GoodRow, WellFormed, Row, MakeRow, NoExists
  <2> QED
    BY <2>2, <2>3, <2>4
<1>5. CASE ExistsDeleted(r) /\ c # Deleted
  <2>1. syncChange(r, v, c) = CachedDeleteVsChanged(r, v, c) /\ c \in Data
    BY <1>5, DataAssumption DEF syncChange, Exists, ExistsDeleted, NoExists, Payload
  <2> QED
    BY <1>1, <1>5, <2>1, DataAssumption, ConfigAssumption
    DEF CachedDeleteVsChanged, GoodRow, WellFormed, Row, storeChanged, updateVersion, MakeRow,
        NoExists, ExistsDeleted
<1>6. CASE NoExists(r) /\ c = Deleted
  <2>1. syncChange(r, v, c) = NoExistsVsDeleted(r, v)
    BY <1>6, DataAssumption DEF syncChange, Exists, ExistsDeleted, NoExists
  <2> QED
    BY <1>1, <1>6, <2>1, DataAssumption, ConfigAssumption
    DEF NoExistsVsDeleted, GoodRow, WellFormed, Row, storeDeleted, MakeRow, NoExists
<1>7. CASE NoExists(r) /\ c # Deleted
  <2>1. syncChange(r, v, c) = storeChanged(v, c, FALSE) /\ c \in Data
    BY <1>7, DataAssumption DEF syncChange, Exists, ExistsDeleted, NoExists, Payload
  <2> QED
    BY <1>1, <2>1, DataAssumption DEF GoodRow, WellFormed, Row, storeChanged, MakeRow, NoExists
<1> QED
  BY <1>1, <1>2, <1>3, <1>4, <1>5, <1>6, <1>7 DEF Exists, ExistsDeleted, NoExists

\* A merge that keeps the remote version does not go back behind the row either,
\* what it leaves unchanged is the remote version or the row as it was, and it
\* never gives a version of either side other data.  When deletions persist every
\* merge keeps it.
LEMMA MergeGrows ==
  ASSUME NEW r, GoodRow(r), NEW v \in Nat, NEW c \in Payload
  PROVE  LET m == syncChange(r, v, c) IN
         /\ PersistDeleted => m.version >= v
         /\ m.version >= v =>
              /\ m.version >= r.version
              /\ m.changed \/ m.version = v \/ m = r
              /\ m.version = r.version /\ r.version > 0 => m.content = r.content
              /\ m.version = v /\ v > 0 => m.content = c
<1>1. r \in Row /\ r.version \in Nat /\ r.content \in Data \cup {Deleted, Absent}
  BY DEF GoodRow, WellFormed, Row
<1>2. CASE Exists(r) /\ c = Deleted
  <2>1. syncChange(r, v, c) = ExistsVsDeleted(r, v)
    BY <1>2, DataAssumption DEF syncChange, Exists, ExistsDeleted, NoExists
  <2> QED
    BY <1>1, <1>2, <2>1, ConfigAssumption
    DEF ExistsVsDeleted, storeDeleted, updateVersion, MakeRow
<1>3. CASE Exists(r) /\ c # Deleted
  <2>1. syncChange(r, v, c) = ExistsVsChanged(r, v, c) /\ c \in Data
    BY <1>3, DataAssumption DEF syncChange, Exists, ExistsDeleted, NoExists, Payload
  <2>2. CASE r.version = v /\ r.content = c
    BY <1>1, <1>3, <2>1, <2>2, DataAssumption
    DEF ExistsVsChanged, markUnchanged, Row, NoExists, Exists
  <2>3. CASE r.version = v /\ r.content # c
    BY <1>1, <2>1, <2>3
    DEF ExistsVsChanged, Conflict, storeChanged, updateVersion, MakeRow
  <2>4. CASE r.version < v
    <3>1. syncChange(r, v, c) = [version |-> v, content |-> c, changed |-> FALSE]
      BY <1>1, <2>1, <2>4
      DEF ExistsVsChanged, storeChanged, MakeRow, markUnchanged, Conflict,
          updateVersion, NoRow, NoExists, ExistsDeleted
    <3> QED BY <1>1, <2>4, <3>1
  <2>5. CASE r.version > v
    <3>1. syncChange(r, v, c) = r
      BY <1>1, <2>1, <2>5
      DEF ExistsVsChanged, storeChanged, MakeRow, markUnchanged, Conflict,
          updateVersion, NoRow, NoExists, ExistsDeleted
    <3> QED BY <1>1, <2>5, <3>1
  <2> QED BY <1>1, <2>2, <2>3, <2>4, <2>5
<1>4. CASE ExistsDeleted(r) /\ c = Deleted
  <2>1. syncChange(r, v, c) = CachedDeleteVsDeleted(r, v)
    BY <1>4, DataAssumption DEF syncChange, Exists, ExistsDeleted, NoExists
  <2> QED
    BY <1>1, <1>4, <2>1
    DEF CachedDeleteVsDeleted, updateVersion, MakeRow, markUnchanged, NoRow, NoExists,
        ExistsDeleted
<1>5. CASE ExistsDeleted(r) /\ c # Deleted
  <2>1. syncChange(r, v, c) = CachedDeleteVsChanged(r, v, c)
    BY <1>5, DataAssumption DEF syncChange, Exists, ExistsDeleted, NoExists
  <2> QED
    BY <1>1, <2>1, ConfigAssumption
    DEF CachedDeleteVsChanged, storeChanged, updateVersion, MakeRow
<1>6. CASE NoExists(r) /\ c = Deleted
  <2>1. syncChange(r, v, c) = IF PersistDeleted THEN storeDeleted(v, FALSE) ELSE r
    BY <1>6, DataAssumption
    DEF syncChange, Exists, ExistsDeleted, NoExists, NoExistsVsDeleted
  <2> QED
    BY <1>1, <1>6, <2>1, ConfigAssumption DEF storeDeleted, MakeRow, GoodRow, WellFormed
<1>7. CASE NoExists(r) /\ c # Deleted
  <2>1. syncChange(r, v, c) = storeChanged(v, c, FALSE)
    BY <1>7, DataAssumption DEF syncChange, Exists, ExistsDeleted, NoExists
  <2> QED
    BY <1>1, <1>7, <2>1 DEF storeChanged, MakeRow, GoodRow, WellFormed
<1> QED
  BY <1>1, <1>2, <1>3, <1>4, <1>5, <1>6, <1>7 DEF Exists, ExistsDeleted, NoExists

\* A resolver whose answer does not depend on which side is the local one.
ResolverIsSymmetric ==
  \A x, y \in Data :
    /\ <<x, y>> \in DOMAIN Resolver <=> <<y, x>> \in DOMAIN Resolver
    /\ <<x, y>> \in DOMAIN Resolver => Resolver[<<x, y>>] = Resolver[<<y, x>>]

\* Two devices that hold different contents of one version and merge each other's
\* change get the same content and the same new version, which both upload:
\* whatever the policy is, syncChange decides a conflict alike on both sides.
THEOREM MergesAgree ==
  ASSUME ResolverIsSymmetric, NEW v \in Nat, NEW a \in Payload, NEW b \in Payload,
         a # b, NEW x \in BOOLEAN, NEW y \in BOOLEAN
  PROVE  LET left == syncChange(MakeRow(v, a, x), v, b)
             right == syncChange(MakeRow(v, b, y), v, a)
         IN  /\ left.content = right.content
             /\ left.version = v + 1 /\ right.version = v + 1
             /\ left.changed = TRUE /\ right.changed = TRUE
<1> DEFINE Agree(l, r) == /\ l.content = r.content
                          /\ l.version = v + 1 /\ r.version = v + 1
                          /\ l.changed = TRUE /\ r.changed = TRUE
           rowA == MakeRow(v, a, x)
           rowB == MakeRow(v, b, y)
<1>1. /\ rowA.content = a /\ rowA.version = v /\ rowB.content = b /\ rowB.version = v
      /\ v + 1 > v /\ ~(v < v) /\ ~(v > v)
  BY DEF MakeRow
<1>2. ASSUME NEW p \in Data, NEW q \in Data, p # q, NEW s, s.content = p, s.version = v
      PROVE  syncChange(s, v, q) = Conflict(s, v, q)
  BY <1>1, <1>2, DataAssumption
  DEF syncChange, Exists, ExistsDeleted, NoExists, ExistsVsChanged
<1>3. ASSUME NEW p \in Data, NEW s, s.content = p, s.version = v
      PROVE  syncChange(s, v, Deleted) =
               IF PreferDeleted THEN MakeRow(v + 1, Deleted, TRUE)
                                ELSE MakeRow(v + 1, p, TRUE)
  BY <1>1, <1>3, DataAssumption
  DEF syncChange, Exists, ExistsDeleted, NoExists, ExistsVsDeleted, storeDeleted,
      updateVersion
<1>4. ASSUME NEW q \in Data, NEW s, s.content = Deleted, s.version = v
      PROVE  syncChange(s, v, q) =
               IF PreferDeleted THEN MakeRow(v + 1, Deleted, TRUE)
                                ELSE MakeRow(v + 1, q, TRUE)
  BY <1>1, <1>4, DataAssumption
  DEF syncChange, Exists, ExistsDeleted, NoExists, CachedDeleteVsChanged, storeChanged,
      updateVersion
<1> HIDE DEF rowA, rowB
<1>5. CASE a \in Data /\ b \in Data
  <2>1. /\ syncChange(rowA, v, b) = Conflict(rowA, v, b)
        /\ syncChange(rowB, v, a) = Conflict(rowB, v, a)
    BY <1>1, <1>2, <1>5
  <2>2. a \in Nat /\ b \in Nat /\ (a > b <=> ~(b > a))
    BY <1>5, DataAssumption
  <2>3. Agree(Conflict(rowA, v, b), Conflict(rowB, v, a))
    BY <1>1, <1>5, <2>2
    DEF Conflict, ResolverIsSymmetric, storeChanged, updateVersion, MakeRow
  <2> QED BY <2>1, <2>3 DEF rowA, rowB
<1>6. CASE a \in Data /\ b = Deleted
  <2>1. syncChange(rowA, v, b) = syncChange(rowB, v, a)
    BY <1>1, <1>3, <1>4, <1>6
  <2>2. syncChange(rowA, v, b) \in {MakeRow(v + 1, Deleted, TRUE), MakeRow(v + 1, a, TRUE)}
    BY <1>1, <1>3, <1>6
  <2> QED BY <2>1, <2>2 DEF rowA, rowB, MakeRow
<1>7. CASE a = Deleted /\ b \in Data
  <2>1. syncChange(rowA, v, b) = syncChange(rowB, v, a)
    BY <1>1, <1>3, <1>4, <1>7
  <2>2. syncChange(rowA, v, b) \in {MakeRow(v + 1, Deleted, TRUE), MakeRow(v + 1, b, TRUE)}
    BY <1>1, <1>4, <1>7
  <2> QED BY <2>1, <2>2 DEF rowA, rowB, MakeRow
<1> QED
  BY <1>5, <1>6, <1>7 DEF Payload

--------------------------------------------------------------------------------
(* Messages and downloads.                                                   *)

\* A function on an initial segment of the positive naturals is a sequence.
LEMMA FunctionIsSeq ==
  ASSUME NEW S, NEW n \in Nat, NEW f \in [1..n -> S]
  PROVE  f \in Seq(S) /\ Len(f) = n
<1>1. f \in Seq(S)
  BY SeqDef
<1>2. DOMAIN f = 1..n /\ DOMAIN f = 1..Len(f) /\ Len(f) \in Nat
  BY <1>1, LenProperties
<1> QED
  BY <1>1, <1>2

LEMMA UpMessages ==
  /\ \A v \in Nat, c \in Payload :
       [type |-> "change", version |-> v, content |-> c] \in UpMessage
  /\ \A id \in Nat : [type |-> "changedAck", id |-> id] \in UpMessage
  /\ \A m \in UpMessage :
       /\ m.type \in {"change", "changedAck"}
       /\ m.type = "change" => m.version \in Nat /\ m.content \in Payload
       /\ m.type = "changedAck" => m.id \in Nat
  BY DEF UpMessage

LEMMA DownMessages ==
  /\ \A b \in BOOLEAN : [type |-> "welcome", hasChanges |-> b] \in DownMessage
  /\ \A c \in Change, b \in BOOLEAN : ChangedFor(c, b) \in DownMessage
  /\ [type |-> "lastChanged"] \in DownMessage
  /\ [type |-> "changeAck"] \in DownMessage
  /\ \A m \in DownMessage :
       /\ m.type \in {"welcome", "changed", "lastChanged", "changeAck"}
       /\ m.type = "changed" =>
            /\ m.id \in Nat /\ m.version \in Nat
            /\ m.content \in Payload /\ m.info \in BOOLEAN
       /\ m.type = "welcome" => m.hasChanges \in BOOLEAN
  BY DEF DownMessage, ChangedFor, Change

LEMMA RemoveOneType ==
  ASSUME NEW S, NEW seq \in Seq(S), NEW x, NEW rest \in RemoveOne(seq, x)
  PROVE  rest \in Seq(S)
<1>1. CASE rest = seq
  BY <1>1
<1>2. CASE rest # seq
  <2>1. PICK i \in DOMAIN seq : rest = SubSeq(seq, 1, i - 1) \o SubSeq(seq, i + 1, Len(seq))
    BY <1>2 DEF RemoveOne
  <2>2. i \in 1..Len(seq) /\ Len(seq) \in Nat
    BY LenProperties
  <2>3. /\ SubSeq(seq, 1, i - 1) \in Seq(S)
        /\ SubSeq(seq, i + 1, Len(seq)) \in Seq(S)
    BY <2>2, SubSeqProperties, ElementOfSeq
  <2> QED BY <2>1, <2>3, ConcatProperties
<1> QED BY <1>1, <1>2

\* The messages that follow those already on their way to d.
Sends(d, added) ==
  /\ down' = [down EXCEPT ![d] = @ \o added]
  /\ \A i \in 1..Len(added) :
       \/ added[i].type = "lastChanged"
       \/ /\ added[i].type = "changed"
          /\ \E s \in pending'[d] : /\ added[i].id = change'[s].id
                                   /\ added[i].version = change'[s].version
                                   /\ added[i].content = change'[s].content

\* What triggerDownload sends is the end of the changes, or changes that the
\* database still has to deliver.
LEMMA TriggerDownloadSends ==
  ASSUME NEW d \in Devices, NEW actives \in Seq(Nat), NEW cache,
         NEW force \in BOOLEAN, NEW skip \in BOOLEAN,
         change' \in [Devices -> Change], pending' \in [Devices -> SUBSET Devices],
         inflight \in [Devices -> Seq(Nat)], cached \in [Devices -> 0..CacheSize-1],
         down \in [Devices -> Seq(DownMessage)],
         TriggerDownload(d, actives, cache, force, skip)
  PROVE  /\ inflight' \in [Devices -> Seq(Nat)]
         /\ cached' \in [Devices -> 0..CacheSize-1]
         /\ down' \in [Devices -> Seq(DownMessage)]
         /\ \E added \in Seq(DownMessage) : Sends(d, added)
<1>1. PICK rows \in DeliveryOrders(d) :
        LET fresh == FreshCount(rows, actives)
            Entry(i) == change'[rows[Len(actives) + i]]
            all == actives \o [i \in 1..fresh |-> Entry(i).id]
            done == all = << >> /\ ~skip
        IN \E counts \in CountDowns(d, actives, cache, fresh) :
             LET messages == [i \in 1..fresh |->
                                ChangedFor(Entry(i), (i = 1 /\ force) \/ counts[i] = 0)]
             IN
             /\ inflight' = [inflight EXCEPT ![d] = all]
             /\ cached' = [cached EXCEPT ![d] = IF done THEN 0 ELSE counts[fresh + 1]]
             /\ down' = [down EXCEPT ![d] =
                  @ \o (IF done THEN <<[type |-> "lastChanged"]>> ELSE messages)]
  BY DEF TriggerDownload
<1> DEFINE fresh == FreshCount(rows, actives)
           Entry(i) == change'[rows[Len(actives) + i]]
           ids == [i \in 1..fresh |-> Entry(i).id]
           done == actives \o ids = << >> /\ ~skip
<1>2. PICK counts \in CountDowns(d, actives, cache, fresh) :
        /\ inflight' = [inflight EXCEPT ![d] = actives \o ids]
        /\ cached' = [cached EXCEPT ![d] = IF done THEN 0 ELSE counts[fresh + 1]]
        /\ down' = [down EXCEPT ![d] = @ \o
             (IF done THEN <<[type |-> "lastChanged"]>>
              ELSE [i \in 1..fresh |->
                      ChangedFor(Entry(i), (i = 1 /\ force) \/ counts[i] = 0)])]
  BY <1>1
<1> DEFINE message(i) == ChangedFor(Entry(i), (i = 1 /\ force) \/ counts[i] = 0)
           messages == [i \in 1..fresh |-> message(i)]
           added == IF done THEN <<[type |-> "lastChanged"]>> ELSE messages
<1>3. Cardinality(pending'[d]) \in Nat
  BY DevicesAssumption, FS_Subset, FS_CardinalityType
<1>4. rows \in [1..Cardinality(pending'[d]) -> pending'[d]]
  BY DEF DeliveryOrders
<1>5. rows \in Seq(pending'[d]) /\ Len(rows) = Cardinality(pending'[d])
  BY <1>3, <1>4, FunctionIsSeq
<1>6. fresh \in Nat /\ (fresh > 0 => fresh = Len(rows) - Len(actives))
  BY <1>5 DEF FreshCount
<1>7. \A i \in 1..fresh : rows[Len(actives) + i] \in pending'[d]
  BY <1>3, <1>4, <1>5, <1>6, SMTT(60)
<1>8. \A i \in 1..fresh : Entry(i) \in Change
  BY <1>7
<1>9. \A i \in 1..fresh : message(i) \in DownMessage
  BY <1>8, DownMessages
<1>10. messages \in Seq(DownMessage) /\ Len(messages) = fresh
  <2>1. messages \in [1..fresh -> DownMessage]
    BY <1>9
  <2> HIDE DEF message, messages, fresh
  <2> QED BY <1>6, <2>1, FunctionIsSeq
<1>11. ids \in Seq(Nat)
  <2>1. \A i \in 1..fresh : Entry(i).id \in Nat
    BY <1>8 DEF Change
  <2>2. ids \in [1..fresh -> Nat]
    BY <2>1
  <2> HIDE DEF ids, fresh
  <2> QED BY <1>6, <2>2, FunctionIsSeq
<1>12. added \in Seq(DownMessage)
  <2>1. <<[type |-> "lastChanged"]>> \in Seq(DownMessage)
    BY DownMessages
  <2> QED BY <1>10, <2>1
<1>13. ASSUME NEW i \in 1..Len(added)
       PROVE  \/ added[i].type = "lastChanged"
              \/ /\ added[i].type = "changed"
                 /\ \E s \in pending'[d] : /\ added[i].id = change'[s].id
                                          /\ added[i].version = change'[s].version
                                          /\ added[i].content = change'[s].content
  <2>1. CASE done
    BY <2>1
  <2>2. CASE ~done
    <3>1. i \in 1..fresh /\ added[i] = message(i)
      BY <1>10, <2>2
    <3>2. /\ message(i).type = "changed" /\ message(i).id = Entry(i).id
          /\ message(i).version = Entry(i).version
          /\ message(i).content = Entry(i).content
      BY DEF ChangedFor
    <3> QED BY <1>7, <3>1, <3>2
  <2> QED BY <2>1, <2>2
<1>14. inflight' \in [Devices -> Seq(Nat)]
  <2>1. actives \o ids \in Seq(Nat)
    BY <1>11, ConcatProperties
  <2> HIDE DEF ids
  <2> QED BY <1>2, <2>1
<1>15. cached' \in [Devices -> 0..CacheSize-1]
  <2>1. counts[fresh + 1] \in 0..CacheSize-1
    <3>1. counts \in [1..fresh + 1 -> 0..CacheSize-1]
      BY DEF CountDowns
    <3> HIDE DEF fresh
    <3>2. fresh + 1 \in 1..fresh + 1
      BY <1>6
    <3> QED BY <3>1, <3>2
  <2>2. 0 \in 0..CacheSize-1
    BY BoundsAssumption
  <2> HIDE DEF done, fresh
  <2> QED BY <1>2, <2>1, <2>2
<1>16. down' = [down EXCEPT ![d] = @ \o added]
  BY <1>2
<1>17. Sends(d, added)
  <2> HIDE DEF added
  <2> QED BY <1>13, <1>16 DEF Sends
<1> HIDE DEF added
<1>18. down' \in [Devices -> Seq(DownMessage)]
  <2>1. down[d] \o added \in Seq(DownMessage)
    BY <1>12, ConcatProperties
  <2> QED BY <1>16, <2>1
<1> QED
  BY <1>12, <1>14, <1>15, <1>17, <1>18

--------------------------------------------------------------------------------
(* Types.  The type invariant is inductive together with the form of rows:   *)
(* what is uploaded is the content of a row that exists.                     *)

TypeInv == TypeOK /\ RowsAreWellFormed

LEMMA TypeInit == Init => TypeInv
<1> SUFFICES ASSUME Init PROVE TypeInv
  OBVIOUS
<1>1. PICK r \in {NoRow} \cup {MakeRow(1, data, FALSE) : data \in Data} :
        row = [d \in Devices |-> r]
  BY DEF Init
<1>2. r \in Row /\ WellFormed(r)
  <2>1. NoRow \in Row /\ WellFormed(NoRow)
    BY DEF Row, NoRow, WellFormed
  <2>2. \A data \in Data : /\ MakeRow(1, data, FALSE) \in Row
                           /\ WellFormed(MakeRow(1, data, FALSE))
    BY DataAssumption DEF Row, MakeRow, WellFormed, NoExists
  <2> QED BY <2>1, <2>2
<1>3. row \in [Devices -> Row] /\ RowsAreWellFormed
  BY <1>1, <1>2 DEF RowsAreWellFormed
<1>4. NoUpload \in Upload /\ NoChange \in Change
  BY DEF NoUpload, Upload, NoChange, Change, Payload
<1>5. << >> \in Seq(UpMessage) /\ << >> \in Seq(DownMessage) /\ << >> \in Seq(Nat)
  BY EmptySeq
<1>6. forgot \in BOOLEAN /\ overtaken \in BOOLEAN /\ 0 \in 0..CacheSize-1
  <2>1. forgot \in BOOLEAN /\ overtaken \in BOOLEAN
    BY Zenon DEF Init
  <2>2. 0 \in 0..CacheSize-1
    BY BoundsAssumption
  <2> QED BY <2>1, <2>2
<1>7. /\ active \in [Devices -> Upload] /\ change \in [Devices -> Change]
      /\ up \in [Devices -> Seq(UpMessage)] /\ down \in [Devices -> Seq(DownMessage)]
      /\ inflight \in [Devices -> Seq(Nat)] /\ cached \in [Devices -> 0..CacheSize-1]
  BY <1>4, <1>5, <1>6 DEF Init
<1>8. /\ late \in [Devices -> SUBSET (Nat \X UpMessage)]
      /\ pending \in [Devices -> SUBSET Devices]
      /\ events \in [Devices -> SUBSET {"uploadNext", "changeTriggered"}]
  BY DEF Init
<1>9. /\ session \in [Devices -> {"offline", "login", "idle"}]
      /\ uploading \in [Devices -> BOOLEAN] /\ notified \in [Devices -> BOOLEAN]
      /\ loading \in [Devices -> BOOLEAN]
      /\ nextId \in Nat \ {0} /\ edits \in Nat /\ drops \in Nat
  BY DEF Init
<1> QED
  BY <1>3, <1>6, <1>7, <1>8, <1>9 DEF TypeInv, TypeOK

\* The rows after one of them was replaced by a good row.
LEMMA RowStep ==
  ASSUME TypeInv, NEW d \in Devices, NEW r, GoodRow(r),
         row' = [row EXCEPT ![d] = r]
  PROVE  row' \in [Devices -> Row] /\ RowsAreWellFormed'
  BY DEF TypeInv, TypeOK, RowsAreWellFormed, GoodRow

LEMMA UploadNextTypes ==
  ASSUME TypeInv, NEW d \in Devices, UploadNext(d)
  PROVE  active' \in [Devices -> Upload] /\ up' \in [Devices -> Seq(UpMessage)]
<1> DEFINE start == row[d].changed /\ active[d] = NoUpload
           upload == [version |-> row[d].version, isDelete |-> ExistsDeleted(row[d])]
           message == [type |-> "change", version |-> row[d].version,
                       content |-> row[d].content]
<1>1. row[d] \in Row /\ up[d] \in Seq(UpMessage) /\ WellFormed(row[d])
  BY DEF TypeInv, TypeOK, RowsAreWellFormed
<1>2. upload \in Upload
  BY <1>1 DEF Upload, Row, ExistsDeleted
<1>3. row[d].changed => message \in UpMessage
  BY <1>1, UpMessages DEF WellFormed, Row, Payload, NoExists
<1>4. row[d].changed => Append(up[d], message) \in Seq(UpMessage)
  BY <1>1, <1>3, AppendProperties
<1>5. /\ active' = [active EXCEPT ![d] = IF start THEN upload ELSE @]
      /\ up' = [up EXCEPT ![d] = IF start /\ session'[d] = "idle"
                                   THEN Append(@, message) ELSE @]
  BY DEF UploadNext
<1> HIDE DEF upload, message
<1> QED
  BY <1>2, <1>4, <1>5 DEF TypeInv, TypeOK

LEMMA LoginTypes ==
  ASSUME TypeOK, RowsAreWellFormed, NEW d \in Devices, Login(d)
  PROVE  TypeOK' /\ RowsAreWellFormed'
<1> DEFINE some == pending[d] # {}
           count == Cardinality(pending[d]) % CacheSize
           welcome == [type |-> "welcome", hasChanges |-> some]
<1>1. count \in 0..CacheSize-1
  <2>1. Cardinality(pending[d]) \in Nat
    BY DevicesAssumption, FS_Subset, FS_CardinalityType DEF TypeOK
  <2> QED BY <2>1, BoundsAssumption
<1>2. /\ UNCHANGED <<storeVars, uploading, events, up, tableVars, inflight, dropVars>>
      /\ session' = [session EXCEPT ![d] = "login"]
      /\ active' = [active EXCEPT ![d] = NoUpload]
      /\ loading' = [loading EXCEPT ![d] = TRUE]
      /\ cached' = [cached EXCEPT ![d] = count]
      /\ down' = [down EXCEPT ![d] = Append(@, welcome)]
  BY DEF Login
<1>3. down' \in [Devices -> Seq(DownMessage)]
  <2>1. some \in BOOLEAN
    OBVIOUS
  <2> HIDE DEF some
  <2>2. welcome \in DownMessage
    BY <2>1, DownMessages
  <2> HIDE DEF welcome
  <2>3. Append(down[d], welcome) \in Seq(DownMessage)
    BY <2>2, AppendProperties DEF TypeOK
  <2> QED BY <1>2, <2>3 DEF TypeOK
<1> HIDE DEF count, welcome
<1>4. cached' \in [Devices -> 0..CacheSize-1]
  BY <1>1, <1>2 DEF TypeOK
<1>5. NoUpload \in Upload
  BY DEF NoUpload, Upload
<1> QED
  BY <1>2, <1>3, <1>4, <1>5
  DEF TypeOK, RowsAreWellFormed, storeVars, tableVars, dropVars

LEMMA LoadChangesTypes ==
  ASSUME TypeOK, RowsAreWellFormed, NEW d \in Devices, LoadChanges(d)
  PROVE  TypeOK' /\ RowsAreWellFormed'
<1> DEFINE force == TRUE
           none == cached[d] = 0
           nothing == << >>
<1>1. /\ UNCHANGED <<storeVars, deviceVars, up, tableVars, dropVars>>
      /\ loading' = [loading EXCEPT ![d] = FALSE]
      /\ TriggerDownload(d, nothing, cached[d], force, none)
  BY DEF LoadChanges
<1>2. /\ nothing \in Seq(Nat) /\ force \in BOOLEAN /\ none \in BOOLEAN
      /\ inflight \in [Devices -> Seq(Nat)] /\ cached \in [Devices -> 0..CacheSize-1]
      /\ down \in [Devices -> Seq(DownMessage)]
      /\ change' \in [Devices -> Change] /\ pending' \in [Devices -> SUBSET Devices]
  BY <1>1, EmptySeq DEF TypeOK, tableVars
<1> HIDE DEF force, none, nothing
<1>3. /\ inflight' \in [Devices -> Seq(Nat)]
      /\ cached' \in [Devices -> 0..CacheSize-1]
      /\ down' \in [Devices -> Seq(DownMessage)]
  BY <1>1, <1>2, TriggerDownloadSends, ZenonT(60)
<1> QED
  BY <1>1, <1>3
  DEF TypeOK, RowsAreWellFormed, storeVars, deviceVars, tableVars, dropVars

LEMMA NotifyChangedTypes ==
  ASSUME TypeOK, RowsAreWellFormed, NEW d \in Devices, NotifyChanged(d)
  PROVE  TypeOK' /\ RowsAreWellFormed'
<1>1. UNCHANGED <<storeVars, deviceVars, up, change, pending, nextId, loading, dropVars>>
  BY DEF NotifyChanged
<1>2. CASE session[d] = "offline"
  BY <1>1, <1>2
  DEF NotifyChanged, TypeOK, RowsAreWellFormed, storeVars, deviceVars, dropVars
<1>3. CASE session[d] # "offline"
  <2> DEFINE no == FALSE
  <2>1. TriggerDownload(d, inflight[d], cached[d], no, no) /\ no \in BOOLEAN
    BY <1>3 DEF NotifyChanged
  <2>2. /\ inflight[d] \in Seq(Nat)
        /\ inflight \in [Devices -> Seq(Nat)] /\ cached \in [Devices -> 0..CacheSize-1]
        /\ down \in [Devices -> Seq(DownMessage)]
        /\ change' \in [Devices -> Change] /\ pending' \in [Devices -> SUBSET Devices]
    BY <1>1 DEF TypeOK
  <2> HIDE DEF no
  <2>3. /\ inflight' \in [Devices -> Seq(Nat)]
        /\ cached' \in [Devices -> 0..CacheSize-1]
        /\ down' \in [Devices -> Seq(DownMessage)]
    BY <2>1, <2>2, TriggerDownloadSends, ZenonT(60)
  <2> QED
    BY <1>1, <2>3
    DEF NotifyChanged, TypeOK, RowsAreWellFormed, storeVars, deviceVars, dropVars
<1> QED BY <1>2, <1>3

\* addChange and completeChange keep the types of the tables.
LEMMA TablesTypes ==
  ASSUME TypeOK, NEW d \in Devices
  PROVE  /\ \A m \in UpMessage : m.type = "change" /\ AddChange(d, m) =>
              /\ change' \in [Devices -> Change] /\ pending' \in [Devices -> SUBSET Devices]
              /\ notified' \in [Devices -> BOOLEAN] /\ nextId' \in Nat \ {0}
         /\ \A id : CompleteChange(d, id) =>
              change' \in [Devices -> Change] /\ pending' \in [Devices -> SUBSET Devices]
<1>1. NoChange \in Change
  BY DEF NoChange, Change, Payload
<1>2. ASSUME NEW m \in UpMessage, m.type = "change", AddChange(d, m)
      PROVE  /\ change' \in [Devices -> Change] /\ pending' \in [Devices -> SUBSET Devices]
             /\ notified' \in [Devices -> BOOLEAN] /\ nextId' \in Nat \ {0}
  <2>1. m.version \in Nat /\ m.content \in Payload
    BY <1>2, UpMessages
  <2>2. [id |-> nextId, version |-> m.version, content |-> m.content] \in Change
    BY <2>1 DEF TypeOK, Change
  <2>3. \E c \in Change : change' = [change EXCEPT ![d] = c]
    BY <1>1, <1>2, <2>2 DEF AddChange
  <2> QED BY <1>2, <2>3 DEF AddChange, TypeOK
<1>3. ASSUME NEW id, CompleteChange(d, id)
      PROVE  change' \in [Devices -> Change] /\ pending' \in [Devices -> SUBSET Devices]
  BY <1>1, <1>3 DEF CompleteChange, TypeOK
<1> QED BY <1>2, <1>3

LEMMA OnChangedAckTypes ==
  ASSUME TypeOK, RowsAreWellFormed, NEW d \in Devices, OnChangedAck(d)
  PROVE  TypeOK' /\ RowsAreWellFormed'
<1> DEFINE id == Head(up[d]).id
           no == FALSE
<1>1. Tail(up[d]) \in Seq(UpMessage)
  BY HeadTailProperties DEF OnChangedAck, TypeOK
<1>2. change' \in [Devices -> Change] /\ pending' \in [Devices -> SUBSET Devices]
  BY TablesTypes DEF OnChangedAck
<1>3. PICK rest \in RemoveOne(inflight[d], id) :
        TriggerDownload(d, rest, cached[d], no, no)
  BY DEF OnChangedAck
<1>4. rest \in Seq(Nat)
  BY RemoveOneType DEF TypeOK
<1>5. /\ no \in BOOLEAN
      /\ inflight \in [Devices -> Seq(Nat)] /\ cached \in [Devices -> 0..CacheSize-1]
      /\ down \in [Devices -> Seq(DownMessage)]
  BY DEF TypeOK
<1> HIDE DEF no
<1>6. /\ inflight' \in [Devices -> Seq(Nat)]
      /\ cached' \in [Devices -> 0..CacheSize-1]
      /\ down' \in [Devices -> Seq(DownMessage)]
  BY <1>2, <1>3, <1>4, <1>5, TriggerDownloadSends, ZenonT(60)
<1> QED
  BY <1>1, <1>2, <1>6
  DEF OnChangedAck, TypeOK, RowsAreWellFormed, storeVars, deviceVars, dropVars

LEMMA LateStepTypes ==
  ASSUME TypeOK, RowsAreWellFormed, NEW d \in Devices, LateStep(d)
  PROVE  TypeOK' /\ RowsAreWellFormed'
<1>1. PICK x \in late[d] :
        /\ late' = [late EXCEPT ![d] = @ \ {x}]
        /\ LateChange(d, x[2]) \/ LateAck(d, x[2])
  BY DEF LateStep
<1>2. x[2] \in UpMessage /\ UNCHANGED <<storeVars, deviceVars, up, down, clientVars, drops>>
  BY DEF LateStep, TypeOK
<1>3. late' \in [Devices -> SUBSET (Nat \X UpMessage)]
  BY <1>1 DEF TypeOK
<1>4. CASE LateChange(d, x[2])
  <2>1. /\ change' \in [Devices -> Change] /\ pending' \in [Devices -> SUBSET Devices]
        /\ notified' \in [Devices -> BOOLEAN] /\ nextId' \in Nat \ {0}
    BY <1>2, <1>4, TablesTypes DEF LateChange
  <2>2. overtaken' \in BOOLEAN
    BY <1>4 DEF LateChange
  <2> QED
    BY <1>2, <1>3, <2>1, <2>2
    DEF TypeOK, RowsAreWellFormed, storeVars, deviceVars, clientVars
<1>5. CASE LateAck(d, x[2])
  <2>1. change' \in [Devices -> Change] /\ pending' \in [Devices -> SUBSET Devices]
    BY <1>5, TablesTypes DEF LateAck
  <2> QED
    BY <1>2, <1>3, <1>5, <2>1
    DEF LateAck, TypeOK, RowsAreWellFormed, storeVars, deviceVars, clientVars
<1> QED BY <1>1, <1>4, <1>5

LEMMA TypeStep == TypeInv /\ [Next]_vars => TypeInv'
<1> SUFFICES ASSUME TypeInv, [Next]_vars PROVE TypeInv'
  OBVIOUS
<1> USE DEF TypeInv
<1>1. ASSUME NEW d \in Devices, NEW data \in Data, Save(d, data)
      PROVE  TypeInv'
  <2>1. GoodRow(save(row[d], data)) /\ Edit(d, save(row[d], data))
    BY <1>1, EditsAreRows DEF TypeOK, Save
  <2>2. row' \in [Devices -> Row] /\ RowsAreWellFormed'
    BY <2>1, RowStep DEF Edit
  <2> QED
    BY <2>1, <2>2 DEF Edit, TypeOK, tableVars, clientVars, dropVars
<1>2. ASSUME NEW d \in Devices, Remove(d)
      PROVE  TypeInv'
  <2>1. GoodRow(remove(row[d])) /\ Edit(d, remove(row[d]))
    BY <1>2, RemoveIsRow DEF TypeOK, Remove
  <2>2. row' \in [Devices -> Row] /\ RowsAreWellFormed'
    BY <2>1, RowStep DEF Edit
  <2> QED
    BY <2>1, <2>2 DEF Edit, TypeOK, tableVars, clientVars, dropVars
<1>3. ASSUME NEW d \in Devices, Login(d)
      PROVE  TypeInv'
  BY <1>3, LoginTypes
<1>4. ASSUME NEW d \in Devices, OnWelcome(d)
      PROVE  TypeInv'
  <2>1. down' \in [Devices -> Seq(DownMessage)]
    BY <1>4, HeadTailProperties DEF OnWelcome, Receive, TypeOK
  <2>2. CASE Head(down[d]).hasChanges
    BY <1>4, <2>1, <2>2
    DEF OnWelcome, OnReadyWithChanges, TypeOK, RowsAreWellFormed, storeVars, tableVars,
        clientVars, dropVars
  <2>3. CASE ~Head(down[d]).hasChanges
    <3>6. active' \in [Devices -> Upload] /\ up' \in [Devices -> Seq(UpMessage)]
      BY <1>4, <2>3, UploadNextTypes DEF OnWelcome, OnReady
    <3> QED
      BY <1>4, <2>1, <2>3, <3>6
      DEF OnWelcome, OnReady, TypeOK, RowsAreWellFormed, storeVars, tableVars, clientVars, dropVars
  <2> QED BY <2>2, <2>3
<1>5. ASSUME NEW d \in Devices, OnLastChanged(d)
      PROVE  TypeInv'
  <2>1. down' \in [Devices -> Seq(DownMessage)]
    BY <1>5, HeadTailProperties DEF OnLastChanged, Receive, TypeOK
  <2>2. active' \in [Devices -> Upload] /\ up' \in [Devices -> Seq(UpMessage)]
    BY <1>5, UploadNextTypes DEF OnLastChanged, OnReady
  <2> QED
    BY <1>5, <2>1, <2>2
    DEF OnLastChanged, OnReady, TypeOK, RowsAreWellFormed, storeVars, tableVars,
        clientVars, dropVars
<1>6. ASSUME NEW d \in Devices, OnChanged(d)
      PROVE  TypeInv'
  <2> DEFINE m == Head(down[d])
             merged == syncChange(row[d], m.version, m.content)
             ack == [type |-> "changedAck", id |-> m.id]
  <2>1. down' \in [Devices -> Seq(DownMessage)] /\ m \in DownMessage
    BY <1>6, HeadTailProperties DEF OnChanged, Receive, TypeOK
  <2>2. m.id \in Nat /\ m.version \in Nat /\ m.content \in Payload
    BY <1>6, <2>1, DownMessages DEF OnChanged, Receive
  <2>3. GoodRow(merged)
    BY <2>2, MergeIsRow DEF TypeOK, RowsAreWellFormed, GoodRow
  <2>4. row' = [row EXCEPT ![d] = merged]
    BY <1>6 DEF OnChanged
  <2>5. row' \in [Devices -> Row] /\ RowsAreWellFormed'
    <3> HIDE DEF merged
    <3> QED BY <2>3, <2>4, RowStep
  <2>6. up' \in [Devices -> Seq(UpMessage)]
    <3>1. ack \in UpMessage
      BY <2>2, UpMessages
    <3>2. Append(up[d], ack) \in Seq(UpMessage)
      BY <3>1, AppendProperties DEF TypeOK
    <3>3. up' = [up EXCEPT ![d] = Append(@, ack)]
      BY <1>6 DEF OnChanged
    <3> HIDE DEF ack
    <3> QED BY <3>2, <3>3 DEF TypeOK
  <2>7. uploading' \in [Devices -> BOOLEAN]
    BY <1>6 DEF OnChanged, OnReadyWithChanges, TypeOK
  <2>8. events' \in [Devices -> SUBSET {"uploadNext", "changeTriggered"}]
    <3>1. \E b \in BOOLEAN :
            events' = [events EXCEPT ![d] = IF b THEN @ \cup {"changeTriggered"} ELSE @]
      BY <1>6 DEF OnChanged
    <3> QED BY <3>1 DEF TypeOK
  <2> QED
    BY <1>6, <2>1, <2>5, <2>6, <2>7, <2>8
    DEF OnChanged, TypeOK, tableVars, clientVars, dropVars
<1>7. ASSUME NEW d \in Devices, OnChangeAck(d)
      PROVE  TypeInv'
  <2>1. down' \in [Devices -> Seq(DownMessage)]
    BY <1>7, HeadTailProperties DEF OnChangeAck, Receive, TypeOK
  <2>2. NoUpload \in Upload
    BY DEF NoUpload, Upload
  <2>3. CASE active[d] = NoUpload
    BY <1>7, <2>1, <2>3
    DEF OnChangeAck, TypeOK, RowsAreWellFormed, tableVars, clientVars, dropVars
  <2>4. CASE active[d] # NoUpload
    <3> DEFINE marked == markUnchanged(row[d], active[d].version, active[d].isDelete)
    <3>1. GoodRow(marked)
      BY MarkUnchangedIsRow DEF TypeOK, RowsAreWellFormed, GoodRow, Upload
    <3>2. row' = [row EXCEPT ![d] = marked]
      BY <1>7, <2>4 DEF OnChangeAck
    <3>3. row' \in [Devices -> Row] /\ RowsAreWellFormed'
      <4> HIDE DEF marked
      <4> QED BY <3>1, <3>2, RowStep
    <3>4. /\ active' \in [Devices -> Upload]
          /\ events' \in [Devices -> SUBSET {"uploadNext", "changeTriggered"}]
      <4>1. /\ active' = [active EXCEPT ![d] = NoUpload]
            /\ events' = [events EXCEPT ![d] =
                  IF uploading[d] THEN @ \cup {"uploadNext"} ELSE @]
        BY <1>7, <2>4, Zenon DEF OnChangeAck
      <4> QED BY <2>2, <4>1 DEF TypeOK
    <3> QED
      BY <1>7, <2>1, <3>3, <3>4 DEF OnChangeAck, TypeOK, tableVars, clientVars, dropVars
  <2> QED BY <2>3, <2>4
<1>8. ASSUME NEW d \in Devices, RunUploadNext(d)
      PROVE  TypeInv'
  <2>1. active' \in [Devices -> Upload] /\ up' \in [Devices -> Seq(UpMessage)]
    BY <1>8, UploadNextTypes DEF RunUploadNext
  <2> QED
    BY <1>8, <2>1
    DEF RunUploadNext, TypeOK, RowsAreWellFormed, storeVars, tableVars, clientVars, dropVars
<1>9. ASSUME NEW d \in Devices, RunChangeTriggered(d)
      PROVE  TypeInv'
  <2>1. active' \in [Devices -> Upload] /\ up' \in [Devices -> Seq(UpMessage)]
    BY <1>9, UploadNextTypes DEF RunChangeTriggered, TypeOK
  <2> QED
    BY <1>9, <2>1
    DEF RunChangeTriggered, TypeOK, RowsAreWellFormed, storeVars, tableVars, clientVars, dropVars
<1>10. ASSUME NEW d \in Devices, NotifyChanged(d)
       PROVE  TypeInv'
  BY <1>10, NotifyChangedTypes
<1>11. ASSUME NEW d \in Devices, OnChange(d)
       PROVE  TypeInv'
  <2> DEFINE m == Head(up[d])
             ack == [type |-> "changeAck"]
  <2>1. m \in UpMessage /\ m.type = "change" /\ Tail(up[d]) \in Seq(UpMessage)
    BY <1>11, HeadTailProperties DEF OnChange, TypeOK
  <2>2. /\ change' \in [Devices -> Change] /\ pending' \in [Devices -> SUBSET Devices]
        /\ notified' \in [Devices -> BOOLEAN] /\ nextId' \in Nat \ {0}
    BY <1>11, <2>1, TablesTypes DEF OnChange
  <2>3. down' = [down EXCEPT ![d] = Append(@, ack)]
    BY <1>11 DEF OnChange
  <2>4. Append(down[d], ack) \in Seq(DownMessage)
    BY DownMessages, AppendProperties DEF TypeOK
  <2>5. up' = [up EXCEPT ![d] = Tail(@)]
    BY <1>11 DEF OnChange
  <2>6. UNCHANGED <<storeVars, deviceVars, clientVars, dropVars>>
    BY <1>11 DEF OnChange
  <2> HIDE DEF ack, m
  <2> QED
    BY <2>1, <2>2, <2>3, <2>4, <2>5, <2>6
    DEF TypeOK, RowsAreWellFormed, storeVars, deviceVars, clientVars, dropVars
<1>12. ASSUME NEW d \in Devices, OnChangedAck(d)
       PROVE  TypeInv'
  BY <1>12, OnChangedAckTypes
<1>13. ASSUME NEW d \in Devices, LoadChanges(d)
       PROVE  TypeInv'
  BY <1>13, LoadChangesTypes
<1>14. ASSUME NEW d \in Devices, LateStep(d)
       PROVE  TypeInv'
  BY <1>14, LateStepTypes
<1>15. ASSUME NEW d \in Devices, Disconnect(d)
       PROVE  TypeInv'
  <2>1. NoUpload \in Upload /\ 0 \in 0..CacheSize-1 /\ << >> \in Seq(Nat)
        /\ << >> \in Seq(UpMessage) /\ << >> \in Seq(DownMessage)
    BY BoundsAssumption, EmptySeq DEF NoUpload, Upload
  <2> DEFINE taken(n) == {<<drops', up[d][i]>> : i \in 1..n}
  <2>2. PICK n \in 0..Len(up[d]) : late' = [late EXCEPT ![d] = @ \cup taken(n)]
    BY <1>15 DEF Disconnect
  <2>3. taken(n) \subseteq Nat \X UpMessage
    <3>1. \A i \in 1..n : up[d][i] \in UpMessage
      BY ElementOfSeq, LenProperties, <2>2 DEF TypeInv, TypeOK
    <3>2. drops' \in Nat
      BY <1>15 DEF Disconnect, TypeInv, TypeOK
    <3> QED BY <3>1, <3>2
  <2>4. late' \in [Devices -> SUBSET (Nat \X UpMessage)]
    <3>1. late \in [Devices -> SUBSET (Nat \X UpMessage)]
      BY DEF TypeInv, TypeOK
    <3> HIDE DEF taken
    <3> QED BY <2>2, <2>3, <3>1
  <2>5. /\ session' \in [Devices -> {"offline", "login", "idle"}]
        /\ uploading' \in [Devices -> BOOLEAN] /\ loading' \in [Devices -> BOOLEAN]
        /\ active' \in [Devices -> Upload] /\ drops' \in Nat
        /\ up' \in [Devices -> Seq(UpMessage)] /\ down' \in [Devices -> Seq(DownMessage)]
        /\ inflight' \in [Devices -> Seq(Nat)] /\ cached' \in [Devices -> 0..CacheSize-1]
    BY <1>15, <2>1 DEF Disconnect, TypeOK
  <2>6. UNCHANGED <<row, edits, forgot, events, change, pending, nextId, notified, overtaken>>
    BY <1>15 DEF Disconnect, storeVars, tableVars
  <2> QED
    BY <2>4, <2>5, <2>6 DEF TypeOK, RowsAreWellFormed
<1>16. CASE UNCHANGED vars
  BY <1>16 DEF vars, TypeOK, RowsAreWellFormed
<1> QED
  BY <1>1, <1>2, <1>3, <1>4, <1>5, <1>6, <1>7, <1>8, <1>9, <1>10, <1>11, <1>12, <1>13,
     <1>14, <1>15, <1>16
  DEF Next, UserStep, DeviceStep, ServerStep

\* Every variable keeps its type: only contents that a change can carry are
\* uploaded and handled late, and rows stay well-formed.
THEOREM Typing == Spec => []TypeOK
<1>1. Spec => []TypeInv
  BY TypeInit, TypeStep, PTL DEF Spec
<1>2. TypeInv => TypeOK
  BY DEF TypeInv
<1> QED
  BY <1>1, <1>2, PTL

--------------------------------------------------------------------------------
(* The order on rows, changes and messages by which one is as new as another. *)

LEMMA NewerOrder ==
  ASSUME NEW a, NEW b, NEW c,
         a.version \in Nat, b.version \in Nat, c.version \in Nat,
         AsNew(a, b), AsNew(b, c)
  PROVE  AsNew(a, c) /\ a.version >= b.version
  BY DEF AsNew

\* Only the version and the content count.
LEMMA AlikeIsAsNew ==
  ASSUME NEW a, NEW b, a.version = b.version, a.content = b.content
  PROVE  AsNew(a, b)
  BY DEF AsNew

\* No step by which nothing is forgotten takes the row of a device back to an older
\* version, or to other data of the same version.
LEMMA RowsGrow ==
  ASSUME TypeInv, [Next]_vars, ~forgot'
  PROVE  \A e \in Devices : AsNew(row'[e], row[e])
<1> DEFINE Grown == \A e \in Devices : AsNew(row'[e], row[e])
<1>1. \A e \in Devices : /\ row[e].version \in Nat /\ GoodRow(row[e])
                         /\ AsNew(row[e], row[e])
  BY DEF TypeInv, TypeOK, RowsAreWellFormed, GoodRow, Row, AsNew
<1>2. ASSUME NEW d \in Devices, NEW r, row' = [row EXCEPT ![d] = r],
             AsNew(r, row[d])
      PROVE  Grown
  BY <1>1, <1>2 DEF TypeInv, TypeOK
<1>3. ASSUME row' = row PROVE Grown
  BY <1>1, <1>3
<1>4. ASSUME NEW d \in Devices, NEW data \in Data, Save(d, data) PROVE Grown
  <2>1. AsNew(save(row[d], data), row[d])
    BY <1>1, EditsAreRows DEF GoodRow, AsNew
  <2> QED BY <1>2, <1>4, <2>1 DEF Save, Edit
<1>5. ASSUME NEW d \in Devices, Remove(d) PROVE Grown
  <2>1. AsNew(remove(row[d]), row[d])
    BY <1>1, <1>5, RemoveIsRow DEF GoodRow, Remove, AsNew
  <2> QED BY <1>2, <1>5, <2>1 DEF Remove, Edit
<1>6. ASSUME NEW d \in Devices, OnChanged(d) PROVE Grown
  <2> DEFINE m == Head(down[d])
             merged == syncChange(row[d], m.version, m.content)
  <2>1. m.version \in Nat /\ m.content \in Payload
    BY <1>6, HeadTailProperties, DownMessages DEF OnChanged, Receive, TypeInv, TypeOK
  <2>2. merged.version \in Nat
    BY <1>1, <2>1, MergeIsRow DEF GoodRow, Row
  <2>3. row' = [row EXCEPT ![d] = merged] /\ ~(merged.version < m.version)
    BY <1>6 DEF OnChanged
  <2>5. merged.version >= m.version
    BY <2>1, <2>2, <2>3
  <2>6. /\ merged.version >= row[d].version
        /\ merged.version = row[d].version /\ row[d].version > 0
             => merged.content = row[d].content
    BY <1>1, <2>1, <2>5, MergeGrows
  <2> HIDE DEF merged
  <2>4. AsNew(merged, row[d])
    BY <1>1, <2>2, <2>6 DEF AsNew
  <2> QED BY <1>2, <2>3, <2>4
<1>7. ASSUME NEW d \in Devices, OnChangeAck(d) PROVE Grown
  <2>1. CASE active[d] = NoUpload
    BY <1>3, <1>7, <2>1 DEF OnChangeAck
  <2>2. CASE active[d] # NoUpload
    <3> DEFINE marked == markUnchanged(row[d], active[d].version, active[d].isDelete)
    <3>1. /\ row' = [row EXCEPT ![d] = marked]
          /\ ~(row'[d].version < row[d].version)
      BY <1>7, <2>2 DEF OnChangeAck
    <3>2. row'[d] = marked
      BY <3>1 DEF TypeInv, TypeOK
    <3>3. AsNew(marked, row[d])
      <4>1. CASE marked = NoRow
        BY <1>1, <3>1, <3>2, <4>1 DEF NoRow, AsNew
      <4>2. CASE marked.version = row[d].version /\ marked.content = row[d].content
        BY <4>2, AlikeIsAsNew
      <4> QED
        BY <1>1, <4>1, <4>2 DEF markUnchanged, GoodRow, Row
    <3> QED BY <1>2, <3>1, <3>3
  <2> QED BY <2>1, <2>2
<1>8. ASSUME NEW d \in Devices,
             \/ Login(d) \/ OnWelcome(d) \/ OnLastChanged(d) \/ RunUploadNext(d)
             \/ RunChangeTriggered(d) \/ NotifyChanged(d) \/ OnChange(d)
             \/ OnChangedAck(d) \/ LoadChanges(d) \/ LateStep(d) \/ Disconnect(d)
      PROVE  Grown
  BY <1>3, <1>8
  DEF Login, OnWelcome, OnLastChanged, RunUploadNext, RunChangeTriggered,
      NotifyChanged, OnChange, OnChangedAck, LoadChanges, LateStep, Disconnect,
      storeVars
<1>9. CASE UNCHANGED vars
  BY <1>3, <1>9 DEF vars
<1> QED
  BY <1>4, <1>5, <1>6, <1>7, <1>8, <1>9 DEF Next, UserStep, DeviceStep, ServerStep

\* When deletions persist nothing is forgotten.
LEMMA NothingForgottenStep ==
  ASSUME PersistDeleted = TRUE, TypeInv, [Next]_vars
  PROVE  forgot' = forgot
<1>1. \A e \in Devices : row[e].version \in Nat /\ GoodRow(row[e])
  BY DEF TypeInv, TypeOK, RowsAreWellFormed, GoodRow, Row
<1>2. ASSUME NEW d \in Devices, OnChanged(d) PROVE forgot' = forgot
  <2> DEFINE m == Head(down[d])
             merged == syncChange(row[d], m.version, m.content)
  <2>1. m.version \in Nat /\ m.content \in Payload
    BY <1>2, HeadTailProperties, DownMessages DEF OnChanged, Receive, TypeInv, TypeOK
  <2>2. merged.version \in Nat /\ merged.version >= m.version
    BY <1>1, <2>1, MergeGrows, MergeIsRow DEF GoodRow, Row
  <2>3. forgot' = (forgot \/ merged.version < m.version)
    BY <1>2 DEF OnChanged
  <2> HIDE DEF m, merged
  <2>4. ~(merged.version < m.version)
    BY <2>1, <2>2
  <2> QED
    BY <2>3, <2>4 DEF TypeInv, TypeOK
<1>3. ASSUME NEW d \in Devices, OnChangeAck(d) PROVE forgot' = forgot
  <2>1. CASE active[d] = NoUpload
    BY <1>3, <2>1 DEF OnChangeAck
  <2>2. CASE active[d] # NoUpload
    <3> DEFINE marked == markUnchanged(row[d], active[d].version, active[d].isDelete)
    <3>1. row'[d] = marked /\ forgot' = (forgot \/ row'[d].version < row[d].version)
      BY <1>3, <2>2 DEF OnChangeAck, TypeInv, TypeOK
    <3>2. marked.version = row[d].version
      BY <1>1 DEF markUnchanged, GoodRow, Row
    <3> HIDE DEF marked
    <3>3. ~(row'[d].version < row[d].version)
      BY <1>1, <3>1, <3>2
    <3> QED
      BY <3>1, <3>3 DEF TypeInv, TypeOK
  <2> QED
    BY <2>1, <2>2
<1>4. ASSUME NEW d \in Devices,
             \/ UserStep(d) \/ Login(d) \/ OnWelcome(d) \/ OnLastChanged(d)
             \/ RunUploadNext(d) \/ RunChangeTriggered(d) \/ NotifyChanged(d)
             \/ OnChange(d) \/ OnChangedAck(d) \/ LoadChanges(d) \/ LateStep(d)
             \/ Disconnect(d)
      PROVE  forgot' = forgot
  BY <1>4
  DEF UserStep, Save, Remove, Edit, Login, OnWelcome, OnLastChanged, RunUploadNext,
      RunChangeTriggered, NotifyChanged, OnChange, OnChangedAck, LoadChanges, LateStep, Disconnect,
      storeVars
<1>5. CASE UNCHANGED vars
  BY <1>5 DEF vars
<1> QED
  BY <1>2, <1>3, <1>4, <1>5 DEF Next, DeviceStep, ServerStep

LEMMA NothingForgotten ==
  ASSUME PersistDeleted = TRUE
  PROVE  Spec => []~forgot
<1>1. Init => ~forgot /\ TypeInv
  BY TypeInit DEF Init
<1>2. TypeInv /\ ~forgot /\ [Next]_vars => TypeInv' /\ ~forgot'
  BY TypeStep, NothingForgottenStep
<1> QED
  BY <1>1, <1>2, PTL DEF Spec

\* While deletions persist, no device ever forgets how new its data is, whatever
\* it merges and whatever is acknowledged to it.
THEOREM VersionsNeverGoBack ==
  ASSUME PersistDeleted = TRUE
  PROVE  Spec => VersionsGrow
<1>1. TypeInv /\ ~forgot' /\ [Next]_vars
        => [\A d \in Devices : row'[d].version >= row[d].version]_vars
  <2> SUFFICES ASSUME TypeInv, ~forgot', [Next]_vars, NEW d \in Devices
               PROVE  row'[d].version >= row[d].version
    OBVIOUS
  <2>1. row[d].version \in Nat /\ row'[d].version \in Nat
    BY TypeStep DEF TypeInv, TypeOK, Row
  <2>2. AsNew(row'[d], row[d])
    BY RowsGrow
  <2> QED BY <2>1, <2>2 DEF AsNew
<1>2. Spec => []TypeInv
  BY TypeInit, TypeStep, PTL DEF Spec
<1>3. Spec => []~forgot
  BY NothingForgotten
<1> QED
  BY <1>1, <1>2, <1>3, PTL DEF Spec, VersionsGrow

--------------------------------------------------------------------------------
(* Synchronized data is covered.                                             *)

\* Covered in the next state, for a row, a change or a message of this state.
CoveredNext(x) ==
  \A e \in Devices :
    \/ AsNew(row'[e], x)
    \/ \E s \in pending'[e] : AsNew(change'[s], x)

\* A step keeps covered what is covered.
CoverKeeps == \A x : x.version \in Nat /\ Covered(x) => CoveredNext(x)

LEMMA AlikeIsCovered ==
  ASSUME NEW a, NEW b, a.version = b.version, a.content = b.content, CoveredNext(a)
  PROVE  CoveredNext(b)
<1>1. \A x : AsNew(x, a) => AsNew(x, b)
  BY DEF AsNew
<1> QED BY <1>1 DEF CoveredNext

\* What is covered stays covered when rows do not go back and the database
\* forgets an entry only when its device has caught up with it.
LEMMA CoverStays ==
  ASSUME TypeOK, TypeOK',
         \A e \in Devices : AsNew(row'[e], row[e]),
         \A e \in Devices : \A s \in pending[e] :
           \/ AsNew(row'[e], change[s])
           \/ s \in pending'[e] /\ AsNew(change'[s], change[s])
  PROVE  CoverKeeps
<1> SUFFICES ASSUME NEW x, x.version \in Nat, Covered(x), NEW e \in Devices
             PROVE  \/ AsNew(row'[e], x)
                    \/ \E s \in pending'[e] : AsNew(change'[s], x)
  BY DEF CoverKeeps, CoveredNext
<1>1. /\ row[e].version \in Nat /\ row'[e].version \in Nat
      /\ \A s \in Devices : change[s].version \in Nat /\ change'[s].version \in Nat
      /\ pending[e] \subseteq Devices
  BY DEF TypeOK, Row, Change
<1>2. CASE AsNew(row[e], x)
  <2>1. AsNew(row'[e], row[e])
    OBVIOUS
  <2> QED BY <1>1, <1>2, <2>1, NewerOrder
<1>3. CASE \E s \in pending[e] : AsNew(change[s], x)
  <2>1. PICK s \in pending[e] : AsNew(change[s], x)
    BY <1>3
  <2>2. change[s].version \in Nat /\ change'[s].version \in Nat
    BY <1>1
  <2>3. CASE AsNew(row'[e], change[s])
    BY <1>1, <2>1, <2>2, <2>3, NewerOrder
  <2>4. CASE s \in pending'[e] /\ AsNew(change'[s], change[s])
    <3>1. AsNew(change'[s], x)
      BY <2>1, <2>2, <2>4, NewerOrder
    <3> QED BY <2>4, <3>1
  <2> QED BY <2>3, <2>4
<1> QED BY <1>2, <1>3 DEF Covered

\* In particular when the database is left alone.
LEMMA CoverKept ==
  ASSUME TypeOK, TypeOK', UNCHANGED <<change, pending>>,
         \A e \in Devices : AsNew(row'[e], row[e])
  PROVE  CoverKeeps
<1>1. \A e \in Devices : \A s \in pending[e] :
        s \in pending'[e] /\ AsNew(change'[s], change[s])
  BY DEF AsNew
<1> QED BY <1>1, CoverStays

\* The conditions of the invariant on one message on its way to d, after a step.
ArrivesCovered(d, m) ==
  /\ m.type = "changeAck" =>
       /\ active'[d].version <= row'[d].version
       /\ active'[d].version = row'[d].version => CoveredNext(row'[d])
  /\ m.type = "changed" =>
       /\ CoveredNext(m) /\ m.version > 0
       /\ m.id > 0 /\ m.id < nextId'
       /\ \A s \in Devices : change'[s].id = m.id =>
            change'[s].version = m.version /\ change'[s].content = m.content

\* The conditions on one change that the database holds, after a step.
HeldCovered(s) == CoveredNext(change'[s]) /\ AsNew(row'[s], change'[s])

\* What is on its way to d was on its way before, or says nothing that is not covered.
DownGrows(d) ==
  /\ \A e \in Devices \ {d} : down'[e] = down[e]
  /\ \A i \in 1..Len(down'[d]) :
       \/ i \in 1..Len(down[d]) /\ down'[d][i] = down[d][i]
       \/ down'[d][i].type # "changeAck" /\ ArrivesCovered(d, down'[d][i])

\* It is enough that this holds of the messages that were added.
LEMMA AddedArrives ==
  ASSUME TypeOK, NEW d \in Devices, NEW added \in Seq(DownMessage),
         down' = [down EXCEPT ![d] = @ \o added],
         \A i \in 1..Len(added) : added[i].type # "changeAck" /\ ArrivesCovered(d, added[i])
  PROVE  DownGrows(d)
<1> DEFINE all == down[d] \o added
<1>1. /\ down[d] \in Seq(DownMessage) /\ down'[d] = all
      /\ \A e \in Devices \ {d} : down'[e] = down[e]
  BY DEF TypeOK
<1>2. /\ Len(all) = Len(down[d]) + Len(added)
      /\ \A k \in 1..Len(down[d]) + Len(added) :
           all[k] = IF k <= Len(down[d]) THEN down[d][k] ELSE added[k - Len(down[d])]
  BY <1>1, ConcatProperties
<1>3. Len(down[d]) \in Nat /\ Len(added) \in Nat
  BY <1>1, LenProperties
<1> HIDE DEF all
<1>4. ASSUME NEW i \in 1..Len(all)
      PROVE  \/ i \in 1..Len(down[d]) /\ all[i] = down[d][i]
             \/ \E j \in 1..Len(added) : all[i] = added[j]
  <2>1. CASE i <= Len(down[d])
    BY <1>2, <1>3, <2>1
  <2>2. CASE i > Len(down[d])
    <3>1. i - Len(down[d]) \in 1..Len(added) /\ all[i] = added[i - Len(down[d])]
      BY <1>2, <1>3, <2>2
    <3> QED BY <3>1
  <2> QED BY <1>2, <1>3, <2>1, <2>2
<1> QED BY <1>1, <1>4 DEF DownGrows

\* triggerDownload adds such messages.
LEMMA DownloadArrives ==
  ASSUME TypeOK, TypeOK', NEW d \in Devices, NEW actives \in Seq(Nat), NEW cache,
         NEW force \in BOOLEAN, NEW skip \in BOOLEAN,
         TriggerDownload(d, actives, cache, force, skip),
         IdsAreUnique', \A s \in Devices : CoveredNext(change'[s])
  PROVE  DownGrows(d)
<1>1. PICK added \in Seq(DownMessage) : Sends(d, added)
  <2>1. /\ change' \in [Devices -> Change] /\ pending' \in [Devices -> SUBSET Devices]
        /\ inflight \in [Devices -> Seq(Nat)] /\ cached \in [Devices -> 0..CacheSize-1]
        /\ down \in [Devices -> Seq(DownMessage)]
    BY DEF TypeOK
  <2> QED BY <2>1, TriggerDownloadSends, ZenonT(60)
<1>2. ASSUME NEW i \in 1..Len(added)
      PROVE  added[i].type # "changeAck" /\ ArrivesCovered(d, added[i])
  <2>1. CASE added[i].type = "lastChanged"
    BY <2>1 DEF ArrivesCovered
  <2>2. CASE added[i].type # "lastChanged"
    <3>1. PICK s \in pending'[d] : /\ added[i].type = "changed"
                                   /\ added[i].id = change'[s].id
                                   /\ added[i].version = change'[s].version
                                   /\ added[i].content = change'[s].content
      BY <1>1, <2>2 DEF Sends
    <3>2. s \in Devices
      BY DEF TypeOK
    <3>3. CoveredNext(added[i])
      BY <3>1, <3>2, AlikeIsCovered
    <3>4. /\ added[i].id > 0 /\ added[i].id < nextId' /\ added[i].version > 0
          /\ \A t \in Devices : change'[t].id = added[i].id =>
               change'[t].version = added[i].version /\ change'[t].content = added[i].content
      BY <3>1, <3>2 DEF IdsAreUnique
    <3> QED BY <3>1, <3>3, <3>4 DEF ArrivesCovered
  <2> QED BY <2>1, <2>2
<1>3. down' = [down EXCEPT ![d] = @ \o added]
  BY <1>1 DEF Sends
<1> QED BY <1>2, <1>3, AddedArrives

LEMMA CoverInit == Init => CoverInv
<1> SUFFICES ASSUME Init PROVE CoverInv
  OBVIOUS
<1>1. TypeOK /\ RowsAreWellFormed
  BY TypeInit DEF TypeInv
<1>2. PICK r \in {NoRow} \cup {MakeRow(1, data, FALSE) : data \in Data} :
        row = [d \in Devices |-> r]
  BY DEF Init
<1>3. \A d \in Devices : row[d] = r /\ r.version \in Nat
  BY <1>1, <1>2 DEF TypeOK, Row
<1>4. /\ \A d \in Devices : up[d] = << >> /\ down[d] = << >>
      /\ \A s \in Devices : change[s].id = 0 /\ change[s].version = 0
      /\ \A d \in Devices : pending[d] = {}
      /\ nextId = 1
  BY DEF Init, NoChange
<1>5. Len(<< >>) = 0
  BY EmptySeq
<1>6. OneUpload /\ OfflineIsSilent /\ UploadIsCurrent /\ AckedIsMerged
  BY <1>4, <1>5
  DEF OneUpload, OfflineIsSilent, UploadIsCurrent, AckedIsMerged, Uploads, Acks
<1>7. IdsAreUnique
  BY <1>4 DEF IdsAreUnique
<1>8. AcceptedIsCovered
  BY <1>4, <1>5 DEF AcceptedIsCovered, Covered, AsNew
<1>9. SyncedCovered
  BY <1>3 DEF SyncedCovered, Covered, AsNew
<1>10. RowsHaveVersions
  BY <1>2, <1>3 DEF RowsHaveVersions, NoRow, MakeRow, NoExists
<1> QED
  BY <1>1, <1>6, <1>7, <1>8, <1>9, <1>10 DEF CoverInv

LEMMA VersionTypes ==
  ASSUME TypeOK
  PROVE  /\ \A e \in Devices : row[e].version \in Nat /\ active[e].version \in Nat
         /\ \A s \in Devices : change[s].version \in Nat /\ change[s].id \in Nat
         /\ \A e \in Devices : \A i \in 1..Len(up[e]) : up[e][i] \in UpMessage
         /\ \A e \in Devices : \A i \in 1..Len(down[e]) : down[e][i] \in DownMessage
  BY ElementOfSeq DEF TypeOK, Row, Change, Upload

LEMMA UploadTypes ==
  ASSUME TypeOK, NEW e \in Devices, NEW i \in Uploads(e)
  PROVE  up[e][i].version \in Nat
<1>1. up[e][i] \in UpMessage /\ up[e][i].type = "change"
  BY VersionTypes DEF Uploads
<1> QED BY <1>1, UpMessages

\* A row that grows stays as new as what it was as new as.
LEMMA RowKeepsUp ==
  ASSUME TypeOK, TypeOK', NEW e \in Devices, AsNew(row'[e], row[e]),
         NEW x, x.version \in Nat, AsNew(row[e], x)
  PROVE  AsNew(row'[e], x)
<1>1. row[e].version \in Nat /\ row'[e].version \in Nat
  BY DEF TypeOK, Row
<1> QED BY <1>1, NewerOrder

LEMMA HeldKept ==
  ASSUME TypeOK, TypeOK', AcceptedIsCovered, UNCHANGED change, CoverKeeps,
         \A e \in Devices : AsNew(row'[e], row[e])
  PROVE  \A s \in Devices : HeldCovered(s)
<1> SUFFICES ASSUME NEW s \in Devices PROVE HeldCovered(s)
  OBVIOUS
<1>1. /\ change[s].version \in Nat /\ change'[s] = change[s]
      /\ Covered(change[s]) /\ AsNew(row[s], change[s])
  BY VersionTypes DEF AcceptedIsCovered
<1>2. CoveredNext(change[s])
  BY <1>1 DEF CoverKeeps
<1>3. AsNew(row'[s], change[s])
  BY <1>1, RowKeepsUp
<1> QED BY <1>1, <1>2, <1>3 DEF HeldCovered

LEMMA AcceptedNext ==
  ASSUME \A s \in Devices : HeldCovered(s),
         \A e \in Devices : \A i \in 1..Len(down'[e]) : ArrivesCovered(e, down'[e][i])
  PROVE  AcceptedIsCovered'
  BY DEF AcceptedIsCovered, HeldCovered, ArrivesCovered, CoveredNext, Covered

\* Messages that were already on their way to devices stay in order when what is
\* covered stays covered and the database is left alone.
LEMMA OldArrives ==
  ASSUME TypeOK, TypeOK', AcceptedIsCovered, CoverKeeps,
         UNCHANGED change, nextId' >= nextId,
         NEW e \in Devices, AsNew(row'[e], row[e]), NEW i \in 1..Len(down[e]),
         down[e][i].type = "changeAck" => active'[e] = active[e]
  PROVE  ArrivesCovered(e, down[e][i])
<1>1. /\ down[e][i] \in DownMessage /\ active[e].version \in Nat
      /\ row[e].version \in Nat /\ row'[e].version \in Nat
      /\ nextId \in Nat /\ nextId' \in Nat
  BY VersionTypes DEF TypeOK, Row
<1>2. CASE down[e][i].type = "changeAck"
  <2>1. /\ active'[e] = active[e] /\ active[e].version <= row[e].version
        /\ active[e].version = row[e].version => Covered(row[e])
    BY <1>2 DEF AcceptedIsCovered
  <2>2. row'[e].version >= row[e].version
    BY <1>1 DEF AsNew
  <2>3. ASSUME active'[e].version = row'[e].version PROVE CoveredNext(row'[e])
    <3>1. row'[e].version = row[e].version /\ CoveredNext(row[e])
      BY <1>1, <2>1, <2>2, <2>3 DEF CoverKeeps
    <3>2. CASE row[e].version = 0
      BY <3>1, <3>2 DEF CoveredNext, AsNew
    <3>3. CASE row[e].version # 0
      <4>1. row'[e].content = row[e].content
        BY <1>1, <3>1, <3>3 DEF AsNew
      <4> QED BY <3>1, <4>1, AlikeIsCovered
    <3> QED BY <3>2, <3>3
  <2> QED BY <1>1, <1>2, <2>1, <2>2, <2>3 DEF ArrivesCovered
<1>3. CASE down[e][i].type = "changed"
  <2>1. down[e][i].version \in Nat /\ down[e][i].id \in Nat
    BY <1>1, <1>3, DownMessages
  <2>2. /\ Covered(down[e][i]) /\ down[e][i].version > 0
        /\ down[e][i].id > 0 /\ down[e][i].id < nextId
        /\ \A s \in Devices : change[s].id = down[e][i].id =>
             /\ change[s].version = down[e][i].version
             /\ change[s].content = down[e][i].content
    BY <1>3 DEF AcceptedIsCovered
  <2>3. CoveredNext(down[e][i]) /\ down[e][i].id < nextId'
    BY <1>1, <2>1, <2>2 DEF CoverKeeps
  <2> QED BY <1>3, <2>2, <2>3 DEF ArrivesCovered
<1>4. CASE down[e][i].type \notin {"changeAck", "changed"}
  BY <1>4 DEF ArrivesCovered
<1> QED BY <1>2, <1>3, <1>4

\* A user's edit: the row gets a newer version that waits for its upload.
LEMMA EditCovers ==
  ASSUME CoverInv, TypeOK', RowsAreWellFormed', NEW d \in Devices, NEW r,
         GoodRow(r), r.changed, r.version = row[d].version + 1, Edit(d, r)
  PROVE  CoverInv'
<1>1. /\ row' = [row EXCEPT ![d] = r]
      /\ UNCHANGED <<session, active, up, down, change, pending, nextId>>
  BY DEF Edit, tableVars
<1>2. /\ row'[d] = r /\ \A e \in Devices \ {d} : row'[e] = row[e]
      /\ \A e \in Devices : row[e].version \in Nat /\ change[e].version \in Nat
  <2>1. row'[d] = r /\ \A e \in Devices \ {d} : row'[e] = row[e]
    BY <1>1 DEF CoverInv, TypeOK
  <2> QED BY <2>1, VersionTypes DEF CoverInv
<1>3. \A e \in Devices : AsNew(row'[e], row[e])
  BY <1>2 DEF AsNew
<1>4. CoverKeeps
  BY <1>1, <1>3, CoverKept DEF CoverInv
<1>5. OneUpload' /\ OfflineIsSilent' /\ IdsAreUnique'
  BY <1>1 DEF CoverInv, OneUpload, OfflineIsSilent, IdsAreUnique, Uploads, Acks
<1>6. UploadIsCurrent'
  <2> SUFFICES ASSUME NEW e \in Devices, NEW i \in Uploads(e)
               PROVE  /\ up[e][i].version = active[e].version
                      /\ up[e][i].version > 0
                      /\ AsNew(row'[e], up[e][i]) /\ AsNew(up[e][i], change[e])
    BY <1>1 DEF UploadIsCurrent, Uploads
  <2>1. up[e][i].version \in Nat
    BY UploadTypes DEF CoverInv
  <2>2. AsNew(row'[e], up[e][i])
    BY <1>3, <2>1, RowKeepsUp DEF CoverInv, UploadIsCurrent
  <2> QED BY <2>2 DEF CoverInv, UploadIsCurrent
<1>7. AckedIsMerged'
  <2> SUFFICES ASSUME NEW e \in Devices, NEW i \in 1..Len(up[e]),
                      up[e][i].type = "changedAck"
               PROVE  /\ up[e][i].id > 0 /\ up[e][i].id < nextId
                      /\ \A s \in Devices : change[s].id = up[e][i].id
                                             => AsNew(row'[e], change[s])
    BY <1>1 DEF AckedIsMerged
  <2> QED BY <1>2, <1>3, RowKeepsUp DEF CoverInv, AckedIsMerged
<1>8. AcceptedIsCovered'
  <2>1. ASSUME NEW e \in Devices, NEW i \in 1..Len(down'[e])
        PROVE  ArrivesCovered(e, down'[e][i])
    <3>1. down'[e][i] = down[e][i] /\ i \in 1..Len(down[e]) /\ nextId' >= nextId
      BY <1>1 DEF CoverInv, TypeOK
    <3> QED BY <1>1, <1>3, <1>4, <3>1, OldArrives DEF CoverInv
  <2> QED BY <1>1, <1>3, <1>4, <2>1, HeldKept, AcceptedNext DEF CoverInv
<1>9. SyncedCovered'
  <2> SUFFICES ASSUME NEW e \in Devices, ~row'[e].changed
               PROVE  CoveredNext(row'[e])
    BY DEF SyncedCovered, CoveredNext, Covered
  <2>1. e # d
    BY <1>2
  <2> QED BY <1>2, <1>4, <2>1 DEF CoverInv, SyncedCovered, CoverKeeps
<1>10. RowsHaveVersions'
  BY <1>2 DEF CoverInv, RowsHaveVersions
<1> QED
  BY <1>5, <1>6, <1>7, <1>8, <1>9, <1>10 DEF CoverInv

\* The first message may have been taken off the connection to d; nothing else
\* happened to the messages on their way to devices.
DownShrinks(d) ==
  /\ \A e \in Devices \ {d} : down'[e] = down[e]
  /\ \E k \in {0, 1} :
       /\ Len(down'[d]) = Len(down[d]) - k
       /\ \A i \in 1..Len(down'[d]) : down'[d][i] = down[d][i + k]

LEMMA ReceiveShrinks ==
  ASSUME TypeOK, NEW d \in Devices, NEW type, Receive(d, type)
  PROVE  DownShrinks(d)
<1>1. down' = [down EXCEPT ![d] = Tail(@)] /\ down[d] # << >>
  BY DEF Receive
<1>2. /\ down'[d] = Tail(down[d]) /\ down[d] \in Seq(DownMessage)
      /\ \A e \in Devices \ {d} : down'[e] = down[e]
  BY <1>1 DEF TypeOK
<1>3. /\ Len(down'[d]) = Len(down[d]) - 1
      /\ \A i \in 1..Len(down'[d]) : down'[d][i] = down[d][i + 1]
  <2>1. /\ Len(Tail(down[d])) = Len(down[d]) - 1
        /\ \A i \in 1..Len(Tail(down[d])) : Tail(down[d])[i] = down[d][i + 1]
    BY <1>1, <1>2, HeadTailProperties
  <2> QED BY <1>2, <2>1
<1> QED BY <1>2, <1>3 DEF DownShrinks

LEMMA KeptShrinks ==
  ASSUME TypeOK, NEW d \in Devices, down' = down
  PROVE  DownShrinks(d)
<1>1. Len(down[d]) \in Nat
  BY LenProperties DEF TypeOK
<1> QED BY <1>1 DEF DownShrinks

\* uploadNext, or nothing, on d: an upload registers the version of the row, and
\* no other upload was registered or on its way.
LEMMA UploadCovers ==
  ASSUME CoverInv, TypeOK', RowsAreWellFormed', NEW d \in Devices,
         UploadNext(d) \/ UNCHANGED <<active, up>>,
         UNCHANGED <<row, change, pending, nextId>>,
         DownShrinks(d), OfflineIsSilent'
  PROVE  CoverInv'
<1> DEFINE Kept == up'[d] = up[d] /\ active'[d] = active[d]
           Started ==
             /\ active[d] = NoUpload /\ active'[d] # NoUpload
             /\ active'[d].version = row[d].version
             /\ Len(up'[d]) \in {Len(up[d]), Len(up[d]) + 1}
             /\ \A i \in 1..Len(up[d]) : up'[d][i] = up[d][i]
             /\ \A i \in 1..Len(up'[d]) : i > Len(up[d]) =>
                  /\ up'[d][i].type = "change" /\ row[d].version > 0
                  /\ up'[d][i].version = row[d].version
                  /\ up'[d][i].content = row[d].content
<1>1. /\ \A e \in Devices \ {d} : up'[e] = up[e] /\ active'[e] = active[e]
      /\ Len(up[d]) \in Nat /\ Len(down[d]) \in Nat
  BY LenProperties DEF CoverInv, TypeOK, UploadNext
<1>2. Kept \/ Started
  <2>1. CASE row[d].changed /\ active[d] = NoUpload /\ UploadNext(d)
    <3> DEFINE message == [type |-> "change", version |-> row[d].version,
                           content |-> row[d].content]
    <3>1. /\ active'[d] = [version |-> row[d].version, isDelete |-> ExistsDeleted(row[d])]
          /\ up'[d] \in {up[d], Append(up[d], message)}
      BY <2>1 DEF CoverInv, TypeOK, UploadNext
    <3>2. row[d].version > 0 /\ row[d].version \in Nat
      BY <2>1, VersionTypes DEF CoverInv, RowsAreWellFormed, WellFormed
    <3>3. active'[d] # NoUpload /\ active'[d].version = row[d].version
      BY <3>1, <3>2 DEF NoUpload
    <3>4. message \in UpMessage
      BY <2>1, UpMessages
      DEF CoverInv, TypeOK, RowsAreWellFormed, WellFormed, NoExists, Row, Payload
    <3>5. /\ Len(Append(up[d], message)) = Len(up[d]) + 1
          /\ \A i \in 1..Len(up[d]) : Append(up[d], message)[i] = up[d][i]
          /\ Append(up[d], message)[Len(up[d]) + 1] = message
      BY <3>4, AppendProperties DEF CoverInv, TypeOK
    <3>6. CASE up'[d] = up[d]
      BY <1>1, <2>1, <3>3, <3>6
    <3>7. CASE up'[d] = Append(up[d], message)
      <4>1. /\ message.type = "change" /\ message.version = row[d].version
            /\ message.content = row[d].content
        OBVIOUS
      <4> HIDE DEF message
      <4> QED BY <1>1, <2>1, <3>2, <3>3, <3>5, <3>7, <4>1
    <3> QED BY <3>1, <3>6, <3>7
  <2>2. CASE ~(row[d].changed /\ active[d] = NoUpload /\ UploadNext(d))
    BY <2>2 DEF CoverInv, TypeOK, UploadNext
  <2> QED BY <2>1, <2>2
<1> HIDE DEF Kept, Started
<1>3. /\ \A e \in Devices : row[e].version \in Nat /\ active[e].version \in Nat
      /\ \A e \in Devices : change[e].version \in Nat
  BY VersionTypes DEF CoverInv
<1>4. CoverKeeps /\ \A e \in Devices : AsNew(row'[e], row[e])
  <2>1. \A e \in Devices : AsNew(row'[e], row[e])
    BY DEF AsNew
  <2> QED BY <2>1, CoverKept DEF CoverInv
<1>5. PICK k \in {0, 1} : /\ \A i \in Acks(d)' : i + k \in Acks(d)
                          /\ Acks(d)' \subseteq Nat
  <2>1. Len(down[d]) \in Nat
    BY LenProperties DEF CoverInv, TypeOK
  <2>2. PICK k \in {0, 1} : /\ Len(down'[d]) = Len(down[d]) - k
                            /\ \A i \in 1..Len(down'[d]) : down'[d][i] = down[d][i + k]
    BY <1>1 DEF DownShrinks
  <2>3. \A i \in 1..Len(down'[d]) : i \in Nat /\ i + k \in 1..Len(down[d])
    BY <2>1, <2>2
  <2> QED BY <2>2, <2>3 DEF Acks
<1>6. /\ \A e \in Devices \ {d} : Uploads(e)' = Uploads(e) /\ Acks(e)' = Acks(e)
      /\ Kept => Uploads(d)' = Uploads(d)
      /\ Started => Uploads(d) = {} /\ Uploads(d)' \subseteq {Len(up[d]) + 1} /\ Acks(d) = {}
  <2>1. \A e \in Devices \ {d} : Uploads(e)' = Uploads(e) /\ Acks(e)' = Acks(e)
    BY <1>1 DEF DownShrinks, Uploads, Acks
  <2>2. ASSUME Kept PROVE Uploads(d)' = Uploads(d)
    BY <2>2 DEF Kept, Uploads
  <2>3. ASSUME Started
        PROVE  Uploads(d) = {} /\ Uploads(d)' \subseteq {Len(up[d]) + 1} /\ Acks(d) = {}
    <3>1. Uploads(d) = {} /\ Acks(d) = {}
      BY <2>3 DEF Started, CoverInv, OneUpload
    <3>2. ASSUME NEW i \in Uploads(d)' PROVE i = Len(up[d]) + 1
      BY <1>1, <2>3, <3>1 DEF Started, Uploads
    <3> QED BY <3>1, <3>2
  <2> QED BY <2>1, <2>2, <2>3
<1>7. OneUpload'
  <2> SUFFICES ASSUME NEW e \in Devices
               PROVE  /\ \A i, j \in Uploads(e)' : i = j
                      /\ \A i, j \in Acks(e)' : i = j
                      /\ Uploads(e)' = {} \/ Acks(e)' = {}
                      /\ active'[e] = NoUpload => Uploads(e)' = {} /\ Acks(e)' = {}
    BY DEF OneUpload
  <2>1. CASE e # d
    BY <1>1, <1>6, <2>1 DEF CoverInv, OneUpload
  <2>2. CASE e = d /\ Kept
    BY <1>5, <1>6, <2>2 DEF CoverInv, OneUpload, Kept
  <2>3. CASE e = d /\ Started
    BY <1>5, <1>6, <2>3 DEF Started
  <2> QED BY <1>2, <2>1, <2>2, <2>3
<1>8. IdsAreUnique'
  BY DEF CoverInv, IdsAreUnique
<1>9. UploadIsCurrent'
  <2> SUFFICES ASSUME NEW e \in Devices, NEW i \in Uploads(e)'
               PROVE  /\ up'[e][i].version = active'[e].version
                      /\ up'[e][i].version > 0
                      /\ AsNew(row'[e], up'[e][i]) /\ AsNew(up'[e][i], change'[e])
    BY DEF UploadIsCurrent
  <2>1. CASE e # d
    BY <1>1, <1>6, <2>1 DEF CoverInv, UploadIsCurrent
  <2>2. CASE e = d /\ Kept
    BY <1>6, <2>2 DEF CoverInv, UploadIsCurrent, Kept
  <2>3. CASE e = d /\ Started
    <3>1. i \in 1..Len(up'[d]) /\ i > Len(up[d])
      BY <1>1, <1>6, <2>3 DEF Uploads
    <3>2. /\ up'[d][i].version = row[d].version /\ up'[d][i].content = row[d].content
          /\ row[d].version > 0 /\ active'[d].version = row[d].version
      BY <2>3, <3>1 DEF Started
    <3>3. AsNew(row[d], up'[d][i]) /\ AsNew(up'[d][i], change[d])
      BY <3>2 DEF AsNew, CoverInv, AcceptedIsCovered
    <3> QED BY <2>3, <3>2, <3>3
  <2> QED BY <1>2, <2>1, <2>2, <2>3
<1>10. AckedIsMerged'
  BY <1>1, <1>2 DEF CoverInv, AckedIsMerged, Kept, Started
<1>11. AcceptedIsCovered'
  <2>1. ASSUME NEW e \in Devices, NEW i \in 1..Len(down'[e])
        PROVE  ArrivesCovered(e, down'[e][i])
    <3>1. PICK j \in {0, 1} : i + j \in 1..Len(down[e]) /\ down'[e][i] = down[e][i + j]
      BY <1>1, SMTT(60) DEF DownShrinks
    <3>2. down[e][i + j].type = "changeAck" => active'[e] = active[e]
      BY <1>1, <1>2, <1>6, <3>1 DEF Acks, Kept
    <3>3. nextId' >= nextId
      BY DEF CoverInv, TypeOK
    <3> QED BY <1>4, <3>1, <3>2, <3>3, OldArrives DEF CoverInv
  <2> QED BY <1>4, <2>1, HeldKept, AcceptedNext DEF CoverInv
<1>12. SyncedCovered'
  BY <1>3, <1>4 DEF CoverInv, SyncedCovered, CoverKeeps, CoveredNext, Covered
<1>13. RowsHaveVersions'
  BY DEF CoverInv, RowsHaveVersions
<1> QED
  BY <1>7, <1>8, <1>9, <1>10, <1>11, <1>12, <1>13 DEF CoverInv

\* A download is merged: the row catches up with the change that is acknowledged.
LEMMA OnChangedCovers ==
  ASSUME CoverInv, TypeOK', RowsAreWellFormed', ~forgot',
         \A e \in Devices : AsNew(row'[e], row[e]),
         NEW d \in Devices, OnChanged(d)
  PROVE  CoverInv'
<1> DEFINE m == Head(down[d])
           merged == syncChange(row[d], m.version, m.content)
           ack == [type |-> "changedAck", id |-> m.id]
<1>1. /\ Receive(d, "changed")
      /\ row' = [row EXCEPT ![d] = merged]
      /\ up' = [up EXCEPT ![d] = Append(@, ack)]
      /\ ~(merged.version < m.version)
      /\ UNCHANGED <<session, active, change, pending, nextId>>
  BY DEF OnChanged, tableVars
<1>2. /\ down[d] \in Seq(DownMessage) /\ down[d] # << >> /\ up[d] \in Seq(UpMessage)
      /\ 1 \in 1..Len(down[d]) /\ m = down[d][1] /\ m.type = "changed"
  BY <1>1, EmptySeq DEF CoverInv, TypeOK, Receive
<1>3. /\ m.id \in Nat /\ m.version \in Nat /\ m.content \in Payload
      /\ m.id > 0 /\ m.id < nextId /\ m.version > 0 /\ Covered(m)
      /\ \A s \in Devices : change[s].id = m.id =>
           change[s].version = m.version /\ change[s].content = m.content
  <2>1. m \in DownMessage
    BY <1>2, VersionTypes DEF CoverInv
  <2> QED BY <1>2, <2>1, DownMessages DEF CoverInv, AcceptedIsCovered
<1>4. /\ \A e \in Devices : row[e].version \in Nat /\ active[e].version \in Nat
      /\ \A e \in Devices : row'[e].version \in Nat /\ change[e].version \in Nat
  <2>1. \A e \in Devices : row'[e].version \in Nat
    BY DEF TypeOK, Row
  <2> QED BY <2>1, VersionTypes DEF CoverInv
<1>5. /\ merged.version >= m.version
      /\ merged.changed \/ merged.version = m.version \/ merged = row[d]
      /\ merged.version = m.version => merged.content = m.content
      /\ merged.version \in Nat
  <2>1. GoodRow(row[d])
    BY DEF CoverInv, TypeOK, RowsAreWellFormed, GoodRow
  <2>2. merged \in Row
    BY <1>3, <2>1, MergeIsRow DEF GoodRow
  <2>3. merged.version \in Nat /\ merged.version >= m.version
    BY <1>1, <1>3, <2>2 DEF Row
  <2> QED BY <1>3, <2>1, <2>3, MergeGrows
<1>6. row'[d] = merged /\ \A e \in Devices \ {d} : row'[e] = row[e]
  BY <1>1 DEF CoverInv, TypeOK
<1>7. /\ \A e \in Devices \ {d} : up'[e] = up[e]
      /\ Len(up'[d]) = Len(up[d]) + 1 /\ Len(up[d]) \in Nat
      /\ \A i \in 1..Len(up[d]) : up'[d][i] = up[d][i]
      /\ up'[d][Len(up[d]) + 1] = ack
  <2>1. ack \in UpMessage
    BY <1>3, UpMessages
  <2>2. up'[d] = Append(up[d], ack) /\ \A e \in Devices \ {d} : up'[e] = up[e]
    BY <1>1 DEF CoverInv, TypeOK
  <2>3. /\ Len(Append(up[d], ack)) = Len(up[d]) + 1
        /\ \A i \in 1..Len(up[d]) : Append(up[d], ack)[i] = up[d][i]
        /\ Append(up[d], ack)[Len(up[d]) + 1] = ack
    BY <1>2, <2>1, AppendProperties
  <2> HIDE DEF ack
  <2> QED BY <1>2, <2>2, <2>3, LenProperties
<1>8. DownShrinks(d)
  BY <1>1, ReceiveShrinks DEF CoverInv
<1>9. ack.type = "changedAck" /\ ack.id = m.id
  OBVIOUS
<1> HIDE DEF m, merged, ack
<1>10. CoverKeeps
  BY <1>1, CoverKept DEF CoverInv
<1>11. PICK k \in {0, 1} : /\ \A i \in Acks(d)' : i + k \in Acks(d)
                           /\ Acks(d)' \subseteq Nat
  <2>1. Len(down[d]) \in Nat
    BY <1>2, LenProperties
  <2> QED BY <1>8, <2>1, SMTT(60) DEF DownShrinks, Acks
<1>12. /\ \A e \in Devices : Uploads(e)' = Uploads(e)
       /\ \A e \in Devices \ {d} : Acks(e)' = Acks(e)
  <2>1. \A e \in Devices \ {d} : Uploads(e)' = Uploads(e) /\ Acks(e)' = Acks(e)
    BY <1>7, <1>8 DEF DownShrinks, Uploads, Acks
  <2>2. Uploads(d)' = Uploads(d)
    BY <1>7, <1>9 DEF Uploads
  <2> QED BY <2>1, <2>2
<1>13. OneUpload'
  <2> SUFFICES ASSUME NEW e \in Devices
               PROVE  /\ \A i, j \in Uploads(e)' : i = j
                      /\ \A i, j \in Acks(e)' : i = j
                      /\ Uploads(e)' = {} \/ Acks(e)' = {}
                      /\ active'[e] = NoUpload => Uploads(e)' = {} /\ Acks(e)' = {}
    BY DEF OneUpload
  <2>1. CASE e # d
    BY <1>1, <1>12, <2>1 DEF CoverInv, OneUpload
  <2>2. CASE e = d
    BY <1>1, <1>11, <1>12, <2>2 DEF CoverInv, OneUpload
  <2> QED BY <2>1, <2>2
<1>14. OfflineIsSilent'
  BY <1>1, <1>2, <1>7, <1>8 DEF CoverInv, OfflineIsSilent, DownShrinks
<1>15. UploadIsCurrent'
  <2> SUFFICES ASSUME NEW e \in Devices, NEW i \in Uploads(e)
               PROVE  /\ up'[e][i].version = active[e].version
                      /\ up'[e][i].version > 0
                      /\ AsNew(row'[e], up'[e][i]) /\ AsNew(up'[e][i], change[e])
    BY <1>1, <1>12, ZenonT(60) DEF UploadIsCurrent
  <2>1. up'[e][i] = up[e][i]
    BY <1>7 DEF Uploads
  <2>2. AsNew(row'[e], up[e][i])
    BY UploadTypes, RowKeepsUp DEF CoverInv, UploadIsCurrent
  <2> QED BY <2>1, <2>2 DEF CoverInv, UploadIsCurrent
<1>16. IdsAreUnique'
  BY <1>1 DEF CoverInv, IdsAreUnique
<1>17. AckedIsMerged'
  <2> SUFFICES ASSUME NEW e \in Devices, NEW i \in 1..Len(up'[e]),
                      up'[e][i].type = "changedAck"
               PROVE  /\ up'[e][i].id > 0 /\ up'[e][i].id < nextId
                      /\ \A s \in Devices : change[s].id = up'[e][i].id
                                             => AsNew(row'[e], change[s])
    BY <1>1 DEF AckedIsMerged
  <2>1. CASE i \in 1..Len(up[e]) /\ up'[e][i] = up[e][i]
    BY <1>4, <2>1, RowKeepsUp DEF CoverInv, AckedIsMerged
  <2>2. CASE e = d /\ i = Len(up[d]) + 1
    <3>1. \A s \in Devices : change[s].id = m.id => AsNew(merged, change[s])
      BY <1>3, <1>5 DEF AsNew
    <3> QED BY <1>3, <1>6, <1>7, <1>9, <2>2, <3>1
  <2> QED BY <1>7, <2>1, <2>2
<1>18. AcceptedIsCovered'
  <2>1. ASSUME NEW e \in Devices, NEW i \in 1..Len(down'[e])
        PROVE  ArrivesCovered(e, down'[e][i])
    <3>1. Len(down[d]) \in Nat /\ nextId' >= nextId
      BY <1>1, <1>2, LenProperties DEF CoverInv, TypeOK
    <3>2. PICK j \in {0, 1} : i + j \in 1..Len(down[e]) /\ down'[e][i] = down[e][i + j]
      BY <1>8, <3>1 DEF DownShrinks
    <3> QED BY <1>1, <1>10, <3>1, <3>2, OldArrives DEF CoverInv
  <2> QED BY <1>1, <1>10, <2>1, HeldKept, AcceptedNext DEF CoverInv
<1>19. SyncedCovered'
  <2> SUFFICES ASSUME NEW e \in Devices, ~row'[e].changed
               PROVE  CoveredNext(row'[e])
    BY DEF SyncedCovered, CoveredNext, Covered
  <2>1. CASE row'[e] = row[e]
    BY <1>4, <1>10, <2>1 DEF CoverInv, SyncedCovered, CoverKeeps
  <2>2. CASE e = d /\ merged.version = m.version
    <3>1. CoveredNext(m)
      BY <1>3, <1>10 DEF CoverKeeps
    <3> QED BY <1>5, <1>6, <2>2, <3>1, AlikeIsCovered
  <2> QED BY <1>5, <1>6, <2>1, <2>2
<1>20. RowsHaveVersions'
  BY <1>3, <1>5, <1>6 DEF CoverInv, RowsHaveVersions
<1> QED
  BY <1>13, <1>14, <1>15, <1>16, <1>17, <1>18, <1>19, <1>20 DEF CoverInv

\* An upload is acknowledged: only the version that was uploaded is marked, and
\* the server has made sure that it is covered.
LEMMA OnChangeAckCovers ==
  ASSUME CoverInv, TypeOK', RowsAreWellFormed', ~forgot',
         \A e \in Devices : AsNew(row'[e], row[e]),
         NEW d \in Devices, OnChangeAck(d)
  PROVE  CoverInv'
<1> DEFINE marked == markUnchanged(row[d], active[d].version, active[d].isDelete)
<1>1. /\ Receive(d, "changeAck")
      /\ UNCHANGED <<session, up, change, pending, nextId>>
  BY DEF OnChangeAck, tableVars
<1>2. /\ down[d] \in Seq(DownMessage) /\ down[d] # << >>
      /\ 1 \in 1..Len(down[d]) /\ down[d][1].type = "changeAck"
  BY <1>1, EmptySeq DEF CoverInv, TypeOK, Receive
<1>3. /\ 1 \in Acks(d) /\ active[d] # NoUpload
      /\ active[d].version = row[d].version => Covered(row[d])
  BY <1>2 DEF Acks, CoverInv, OneUpload, AcceptedIsCovered
<1>4. /\ \A e \in Devices : row[e].version \in Nat /\ active[e].version \in Nat
      /\ \A e \in Devices : row'[e].version \in Nat /\ change[e].version \in Nat
  <2>1. \A e \in Devices : row'[e].version \in Nat
    BY DEF TypeOK, Row
  <2> QED BY <2>1, VersionTypes DEF CoverInv
<1>5. /\ row'[d] = marked /\ \A e \in Devices \ {d} : row'[e] = row[e]
      /\ active'[d] = NoUpload /\ \A e \in Devices \ {d} : active'[e] = active[e]
  BY <1>3, SMTT(60) DEF OnChangeAck, CoverInv, TypeOK
<1>6. /\ marked = row[d] \/ marked.version = active[d].version
      /\ marked.version = row[d].version /\ marked.content = row[d].content
  <2>1. ~(row'[d].version < row[d].version)
    BY <1>3 DEF OnChangeAck
  <2>2. ASSUME marked = NoRow, ExistsDeleted(row[d]) PROVE FALSE
    <3>1. row[d].version = 0
      BY <1>4, <1>5, <2>1, <2>2 DEF NoRow
    <3> QED
      BY <2>2, <3>1, DataAssumption DEF CoverInv, RowsHaveVersions, NoExists, ExistsDeleted
  <2> QED
    BY <1>4, <2>2 DEF markUnchanged, CoverInv, TypeOK, Row
<1>7. DownShrinks(d)
  BY <1>1, ReceiveShrinks DEF CoverInv
<1> HIDE DEF marked
<1>8. CoverKeeps
  BY <1>1, CoverKept DEF CoverInv
<1>9. /\ Uploads(d) = {} /\ Acks(d)' = {}
      /\ \A e \in Devices : Uploads(e)' = Uploads(e)
      /\ \A e \in Devices \ {d} : Acks(e)' = Acks(e)
  <2>1. down'[d] = Tail(down[d]) /\ \A e \in Devices \ {d} : down'[e] = down[e]
    BY <1>1 DEF Receive, CoverInv, TypeOK
  <2>2. /\ Len(Tail(down[d])) = Len(down[d]) - 1
        /\ \A i \in 1..Len(Tail(down[d])) : Tail(down[d])[i] = down[d][i + 1]
    BY <1>2, HeadTailProperties
  <2>3. Len(down[d]) \in Nat
    BY <1>2, LenProperties
  <2>4. \A i \in Acks(d)' : i \in Nat /\ i > 0 /\ i + 1 \in Acks(d)
    BY <2>1, <2>2, <2>3 DEF Acks
  <2>5. Acks(d)' = {}
    BY <1>3, <2>4 DEF CoverInv, OneUpload
  <2> QED BY <1>1, <1>3, <2>1, <2>5 DEF CoverInv, OneUpload, Uploads, Acks
<1>10. OneUpload'
  <2> SUFFICES ASSUME NEW e \in Devices
               PROVE  /\ \A i, j \in Uploads(e)' : i = j
                      /\ \A i, j \in Acks(e)' : i = j
                      /\ Uploads(e)' = {} \/ Acks(e)' = {}
                      /\ active'[e] = NoUpload => Uploads(e)' = {} /\ Acks(e)' = {}
    BY DEF OneUpload
  <2>1. CASE e # d
    BY <1>5, <1>9, <2>1 DEF CoverInv, OneUpload
  <2>2. CASE e = d
    BY <1>9, <2>2
  <2> QED BY <2>1, <2>2
<1>11. OfflineIsSilent'
  BY <1>1, <1>2, <1>7 DEF CoverInv, OfflineIsSilent, DownShrinks
<1>12. UploadIsCurrent'
  <2> SUFFICES ASSUME NEW e \in Devices, NEW i \in Uploads(e)
               PROVE  /\ up[e][i].version = active'[e].version
                      /\ up[e][i].version > 0
                      /\ AsNew(row'[e], up[e][i]) /\ AsNew(up[e][i], change[e])
    BY <1>1, <1>9 DEF UploadIsCurrent
  <2>1. e # d
    BY <1>9
  <2> QED BY <1>5, <2>1 DEF CoverInv, UploadIsCurrent
<1>13. IdsAreUnique'
  BY <1>1 DEF CoverInv, IdsAreUnique
<1>14. AckedIsMerged'
  <2> SUFFICES ASSUME NEW e \in Devices, NEW i \in 1..Len(up[e]),
                      up[e][i].type = "changedAck"
               PROVE  /\ up[e][i].id > 0 /\ up[e][i].id < nextId
                      /\ \A s \in Devices : change[s].id = up[e][i].id
                                             => AsNew(row'[e], change[s])
    BY <1>1 DEF AckedIsMerged
  <2> QED BY <1>4, RowKeepsUp DEF CoverInv, AckedIsMerged
<1>15. AcceptedIsCovered'
  <2>1. ASSUME NEW e \in Devices, NEW i \in 1..Len(down'[e])
        PROVE  ArrivesCovered(e, down'[e][i])
    <3>1. Len(down[d]) \in Nat /\ nextId' >= nextId
      BY <1>1, <1>2, LenProperties DEF CoverInv, TypeOK
    <3>2. PICK j \in {0, 1} : i + j \in 1..Len(down[e]) /\ down'[e][i] = down[e][i + j]
      BY <1>7, <3>1, SMTT(60) DEF DownShrinks
    <3>3. down[e][i + j].type = "changeAck" => active'[e] = active[e]
      BY <1>5, <1>9, <3>2 DEF Acks
    <3> QED BY <1>1, <1>8, <3>1, <3>2, <3>3, OldArrives DEF CoverInv
  <2> QED BY <1>1, <1>8, <2>1, HeldKept, AcceptedNext DEF CoverInv
<1>16. SyncedCovered'
  <2> SUFFICES ASSUME NEW e \in Devices, ~row'[e].changed
               PROVE  CoveredNext(row'[e])
    BY DEF SyncedCovered, CoveredNext, Covered
  <2>1. CASE row'[e] = row[e]
    BY <1>4, <1>8, <2>1 DEF CoverInv, SyncedCovered, CoverKeeps
  <2>2. CASE e = d /\ marked.version = active[d].version
    <3>1. CoveredNext(row[d])
      BY <1>3, <1>4, <1>6, <1>8, <2>2 DEF CoverKeeps
    <3> QED BY <1>5, <1>6, <2>2, <3>1, AlikeIsCovered
  <2> QED BY <1>5, <1>6, <2>1, <2>2
<1>17. RowsHaveVersions'
  BY <1>5, <1>6 DEF CoverInv, RowsHaveVersions, NoExists
<1> QED
  BY <1>10, <1>11, <1>12, <1>13, <1>14, <1>15, <1>16, <1>17 DEF CoverInv

\* What addChange does for a change m of d, when the row of d does not go behind m
\* and nobody still has to get a newer change of d.
LEMMA AddChangeCovers ==
  ASSUME CoverInv, TypeOK', NEW d \in Devices, NEW m, AddChange(d, m), UNCHANGED row,
         m.version \in Nat, m.version > 0, AsNew(row[d], m),
         AsNew(m, change[d]) \/ \A e \in Devices : d \notin pending[e]
  PROVE  /\ CoverKeeps /\ CoveredNext(m) /\ IdsAreUnique' /\ nextId' = nextId + 1
         /\ \A s \in Devices : HeldCovered(s)
         /\ \A e \in Devices \ {d} : change'[e] = change[e]
         /\ \A x : AsNew(x, m) => AsNew(x, change'[d])
         /\ \A e \in Devices : active'[e] = active[e] =>
              \A i \in 1..Len(down[e]) : ArrivesCovered(e, down[e][i])
         /\ \A e \in Devices : \A i \in 1..Len(up[e]) : up[e][i].type = "changedAck" =>
              /\ up[e][i].id > 0 /\ up[e][i].id < nextId'
              /\ \A s \in Devices : change'[s].id = up[e][i].id => AsNew(row'[e], change'[s])
<1>1. nextId \in Nat /\ nextId > 0 /\ nextId' = nextId + 1
  BY DEF AddChange, CoverInv, TypeOK
<1>2. /\ \A e \in Devices : row[e].version \in Nat /\ active[e].version \in Nat
      /\ \A e \in Devices : change[e].version \in Nat /\ change[e].id \in Nat
  BY VersionTypes DEF CoverInv
<1>3. /\ \A e \in Devices \ {d} : change'[e] = change[e] /\ pending'[e] = pending[e] \cup {d}
      /\ pending'[d] = pending[d]
      /\ Devices = {d} => change'[d].id = 0 /\ change'[d].version = 0
      /\ Devices # {d} => /\ change'[d].id = nextId
                          /\ change'[d].version = m.version
                          /\ change'[d].content = m.content
  <2>1. /\ change' = [change EXCEPT ![d] =
             IF Devices = {d} THEN NoChange
             ELSE [id |-> nextId, version |-> m.version, content |-> m.content]]
        /\ pending' = [e \in Devices |-> IF e = d THEN pending[e] ELSE pending[e] \cup {d}]
        /\ change \in [Devices -> Change]
    BY DEF AddChange, CoverInv, TypeOK
  <2>2. CASE Devices = {d}
    BY <2>1, <2>2 DEF NoChange
  <2>3. CASE Devices # {d}
    BY <2>1, <2>3
  <2> QED BY <2>2, <2>3
<1>4. ASSUME NEW id \in Nat, id > 0, id < nextId, NEW s \in Devices, change'[s].id = id
      PROVE  s # d /\ change'[s] = change[s]
  BY <1>1, <1>3, <1>4
<1>5. \A x : AsNew(x, m) => AsNew(x, change'[d])
  BY <1>3 DEF AsNew
<1>6. CoverKeeps
  <2>1. ASSUME NEW e \in Devices, NEW s \in pending[e]
        PROVE  s \in pending'[e] /\ AsNew(change'[s], change[s])
    <3>1. s \in Devices /\ s # e
      BY DEF CoverInv, TypeOK, IdsAreUnique
    <3>2. s \in pending'[e]
      BY <1>3
    <3>3. CASE s = d
      <4>1. change'[s].version = m.version /\ change'[s].content = m.content
        BY <1>3, <3>1, <3>3
      <4> QED BY <3>2, <3>3, <4>1 DEF AsNew
    <3>4. CASE s # d
      BY <1>3, <3>1, <3>2, <3>4 DEF AsNew
    <3> QED BY <3>3, <3>4
  <2>2. \A e \in Devices : AsNew(row'[e], row[e])
    BY DEF AsNew
  <2> QED BY <2>1, <2>2, CoverStays DEF CoverInv
<1>7. CoveredNext(m)
  <2> SUFFICES ASSUME NEW e \in Devices
               PROVE  \/ AsNew(row'[e], m)
                      \/ \E s \in pending'[e] : AsNew(change'[s], m)
    BY DEF CoveredNext
  <2>1. CASE e = d
    BY <2>1
  <2>2. CASE e # d
    <3>1. AsNew(change'[d], m)
      BY <1>3, <2>2, AlikeIsAsNew
    <3> QED BY <1>3, <2>2, <3>1
  <2> QED BY <2>1, <2>2
<1>8. IdsAreUnique'
  <2>1. \A s \in Devices : change'[s].id < nextId'
    BY <1>1, <1>2, <1>3 DEF CoverInv, IdsAreUnique
  <2>2. ASSUME NEW s \in Devices, NEW t \in Devices, change'[s].id = change'[t].id
        PROVE  s = t \/ change'[s].id = 0
    BY <1>1, <1>2, <1>3, <2>2 DEF CoverInv, IdsAreUnique
  <2>3. ASSUME NEW e \in Devices, NEW s \in pending'[e]
        PROVE  change'[s].id > 0 /\ s # e
    <3>1. s \in Devices
      BY DEF TypeOK
    <3>2. CASE s \in pending[e]
      BY <1>1, <1>3, <3>1, <3>2 DEF CoverInv, IdsAreUnique
    <3>3. CASE s = d /\ e # d
      BY <1>1, <1>3, <3>3
    <3> QED BY <1>3, <3>2, <3>3
  <2>4. \A s \in Devices : change'[s].id > 0 => change'[s].version > 0
    BY <1>2, <1>3 DEF CoverInv, IdsAreUnique
  <2> QED BY <2>1, <2>2, <2>3, <2>4 DEF IdsAreUnique
<1>9. ASSUME NEW s \in Devices PROVE HeldCovered(s)
  <2>1. CASE s # d
    <3>1. Covered(change[s]) /\ AsNew(row[s], change[s]) /\ change'[s] = change[s]
      BY <1>3, <2>1 DEF CoverInv, AcceptedIsCovered
    <3> QED BY <1>2, <1>6, <3>1 DEF HeldCovered, CoverKeeps
  <2>2. CASE s = d /\ Devices # {d}
    <3>1. CoveredNext(change'[d])
      BY <1>3, <1>7, <2>2, AlikeIsCovered
    <3> QED BY <1>5, <2>2, <3>1 DEF HeldCovered
  <2>3. CASE s = d /\ Devices = {d}
    BY <1>3, <2>3 DEF HeldCovered, CoveredNext, AsNew
  <2> QED BY <2>1, <2>2, <2>3
<1>10. ASSUME NEW e \in Devices, active'[e] = active[e], NEW i \in 1..Len(down[e])
       PROVE  ArrivesCovered(e, down[e][i])
  <2>1. down[e][i] \in DownMessage
    BY VersionTypes DEF CoverInv
  <2>2. ASSUME down[e][i].type = "changeAck"
        PROVE  /\ active'[e].version <= row'[e].version
               /\ active'[e].version = row'[e].version => CoveredNext(row'[e])
    BY <1>2, <1>6, <1>10, <2>2 DEF CoverInv, AcceptedIsCovered, CoverKeeps
  <2>3. ASSUME down[e][i].type = "changed"
        PROVE  /\ CoveredNext(down[e][i]) /\ down[e][i].version > 0
               /\ down[e][i].id > 0 /\ down[e][i].id < nextId'
               /\ \A s \in Devices : change'[s].id = down[e][i].id =>
                    /\ change'[s].version = down[e][i].version
                    /\ change'[s].content = down[e][i].content
    <3>1. down[e][i].id \in Nat /\ down[e][i].version \in Nat
      BY <2>1, <2>3, DownMessages
    <3>2. /\ Covered(down[e][i]) /\ down[e][i].version > 0
          /\ down[e][i].id > 0 /\ down[e][i].id < nextId
          /\ \A s \in Devices : change[s].id = down[e][i].id =>
               /\ change[s].version = down[e][i].version
               /\ change[s].content = down[e][i].content
      BY <2>3 DEF CoverInv, AcceptedIsCovered
    <3>3. CoveredNext(down[e][i]) /\ down[e][i].id < nextId'
      BY <1>1, <1>6, <3>1, <3>2 DEF CoverKeeps
    <3> QED BY <1>4, <3>1, <3>2, <3>3
  <2> QED BY <2>2, <2>3 DEF ArrivesCovered
<1>11. ASSUME NEW e \in Devices, NEW i \in 1..Len(up[e]), up[e][i].type = "changedAck"
       PROVE  /\ up[e][i].id > 0 /\ up[e][i].id < nextId'
              /\ \A s \in Devices : change'[s].id = up[e][i].id => AsNew(row'[e], change'[s])
  <2>1. /\ up[e][i].id > 0 /\ up[e][i].id < nextId
        /\ \A s \in Devices : change[s].id = up[e][i].id => AsNew(row[e], change[s])
    BY <1>11 DEF CoverInv, AckedIsMerged
  <2>2. up[e][i].id \in Nat
    BY <1>11, VersionTypes, UpMessages DEF CoverInv
  <2>3. up[e][i].id < nextId'
    BY <1>1, <2>1, <2>2
  <2> QED BY <1>4, <2>1, <2>2, <2>3
<1> QED
  BY <1>1, <1>3, <1>5, <1>6, <1>7, <1>8, <1>9, <1>10, <1>11

\* An upload reaches the server: the change takes the place of an older one of the
\* device and waits for every other device.
LEMMA OnChangeCovers ==
  ASSUME CoverInv, TypeOK', RowsAreWellFormed', NEW d \in Devices, OnChange(d)
  PROVE  CoverInv'
<1> DEFINE m == Head(up[d])
           ack == [type |-> "changeAck"]
<1>1. /\ up' = [up EXCEPT ![d] = Tail(@)]
      /\ down' = [down EXCEPT ![d] = Append(@, ack)]
      /\ UNCHANGED <<row, session, active>>
      /\ AddChange(d, m)
  BY DEF OnChange, storeVars, deviceVars
<1>2. /\ up[d] \in Seq(UpMessage) /\ up[d] # << >> /\ down[d] \in Seq(DownMessage)
      /\ 1 \in 1..Len(up[d]) /\ m = up[d][1] /\ m.type = "change"
  BY EmptySeq DEF OnChange, CoverInv, TypeOK
<1>3. 1 \in Uploads(d) /\ Acks(d) = {} /\ active[d] # NoUpload
  BY <1>2 DEF Uploads, CoverInv, OneUpload
<1>4. \A e \in Devices : row[e].version \in Nat /\ active[e].version \in Nat
  BY VersionTypes DEF CoverInv
<1>5. /\ m.version = active[d].version /\ m.version > 0 /\ m.version \in Nat
      /\ AsNew(row[d], m) /\ AsNew(m, change[d])
  BY <1>2, <1>3, <1>4 DEF CoverInv, UploadIsCurrent
<1>6. /\ \A e \in Devices \ {d} : up'[e] = up[e] /\ down'[e] = down[e]
      /\ Len(up'[d]) = Len(up[d]) - 1 /\ Len(up[d]) \in Nat
      /\ \A i \in 1..Len(up'[d]) : up'[d][i] = up[d][i + 1]
      /\ Len(down'[d]) = Len(down[d]) + 1 /\ Len(down[d]) \in Nat
      /\ \A i \in 1..Len(down[d]) : down'[d][i] = down[d][i]
      /\ down'[d][Len(down[d]) + 1] = ack
  <2>1. /\ up'[d] = Tail(up[d]) /\ down'[d] = Append(down[d], ack)
        /\ \A e \in Devices \ {d} : up'[e] = up[e] /\ down'[e] = down[e]
    BY <1>1 DEF CoverInv, TypeOK
  <2>2. /\ Len(Tail(up[d])) = Len(up[d]) - 1
        /\ \A i \in 1..Len(Tail(up[d])) : Tail(up[d])[i] = up[d][i + 1]
    BY <1>2, HeadTailProperties
  <2>3. ack \in DownMessage
    BY DownMessages
  <2> HIDE DEF ack
  <2>4. /\ Len(Append(down[d], ack)) = Len(down[d]) + 1
        /\ \A i \in 1..Len(down[d]) : Append(down[d], ack)[i] = down[d][i]
        /\ Append(down[d], ack)[Len(down[d]) + 1] = ack
    BY <1>2, <2>3, AppendProperties
  <2>5. Len(up[d]) \in Nat /\ Len(down[d]) \in Nat
    BY <1>2, LenProperties
  <2> QED BY <2>1, <2>2, <2>4, <2>5
<1>7. ack.type = "changeAck"
  OBVIOUS
<1> HIDE DEF m, ack
<1>8. /\ CoverKeeps /\ CoveredNext(m) /\ IdsAreUnique' /\ nextId' = nextId + 1
      /\ \A s \in Devices : HeldCovered(s)
      /\ \A e \in Devices \ {d} : change'[e] = change[e]
      /\ \A e \in Devices : \A i \in 1..Len(down[e]) : ArrivesCovered(e, down[e][i])
      /\ \A e \in Devices : \A i \in 1..Len(up[e]) : up[e][i].type = "changedAck" =>
           /\ up[e][i].id > 0 /\ up[e][i].id < nextId'
           /\ \A s \in Devices : change'[s].id = up[e][i].id => AsNew(row'[e], change'[s])
  BY <1>1, <1>5, AddChangeCovers
<1>9. /\ \A e \in Devices \ {d} : Uploads(e)' = Uploads(e) /\ Acks(e)' = Acks(e)
      /\ Uploads(d)' = {} /\ Acks(d)' \subseteq {Len(down[d]) + 1}
  <2>1. \A e \in Devices \ {d} : Uploads(e)' = Uploads(e) /\ Acks(e)' = Acks(e)
    BY <1>6 DEF Uploads, Acks
  <2>2. \A i \in Uploads(d)' : i \in Nat /\ i > 0 /\ i + 1 \in Uploads(d)
    BY <1>6, SMTT(60) DEF Uploads
  <2>3. Uploads(d)' = {}
    BY <1>3, <2>2 DEF CoverInv, OneUpload
  <2>4. ASSUME NEW i \in Acks(d)' PROVE i = Len(down[d]) + 1
    <3>1. i \in 1..Len(down[d]) + 1 /\ down'[d][i].type = "changeAck"
      BY <1>6 DEF Acks
    <3>2. i \notin 1..Len(down[d])
      BY <1>3, <1>6, <3>1 DEF Acks
    <3> QED BY <1>6, <3>1, <3>2
  <2> QED BY <2>1, <2>3, <2>4
<1>10. OneUpload'
  <2> SUFFICES ASSUME NEW e \in Devices
               PROVE  /\ \A i, j \in Uploads(e)' : i = j
                      /\ \A i, j \in Acks(e)' : i = j
                      /\ Uploads(e)' = {} \/ Acks(e)' = {}
                      /\ active'[e] = NoUpload => Uploads(e)' = {} /\ Acks(e)' = {}
    BY DEF OneUpload
  <2>1. CASE e # d
    BY <1>1, <1>9, <2>1 DEF CoverInv, OneUpload
  <2>2. CASE e = d
    BY <1>1, <1>3, <1>9, <2>2
  <2> QED BY <2>1, <2>2
<1>11. OfflineIsSilent'
  BY <1>1, <1>2, <1>6 DEF CoverInv, OfflineIsSilent
<1>12. UploadIsCurrent'
  <2> SUFFICES ASSUME NEW e \in Devices, NEW i \in Uploads(e)'
               PROVE  /\ up'[e][i].version = active'[e].version
                      /\ up'[e][i].version > 0
                      /\ AsNew(row'[e], up'[e][i]) /\ AsNew(up'[e][i], change'[e])
    BY DEF UploadIsCurrent
  <2>1. e # d
    BY <1>9
  <2> QED BY <1>1, <1>6, <1>8, <1>9, <2>1 DEF CoverInv, UploadIsCurrent
<1>13. AckedIsMerged'
  <2> SUFFICES ASSUME NEW e \in Devices, NEW i \in 1..Len(up'[e]),
                      up'[e][i].type = "changedAck"
               PROVE  /\ up'[e][i].id > 0 /\ up'[e][i].id < nextId'
                      /\ \A s \in Devices : change'[s].id = up'[e][i].id
                                             => AsNew(row'[e], change'[s])
    BY DEF AckedIsMerged
  <2>1. PICK j \in 1..Len(up[e]) : up'[e][i] = up[e][j]
    <3>1. CASE e = d
      <4>1. i + 1 \in 1..Len(up[e]) /\ up'[e][i] = up[e][i + 1]
        BY <1>6, <3>1
      <4> QED BY <4>1
    <3>2. CASE e # d
      BY <1>6, <3>2
    <3> QED BY <3>1, <3>2
  <2> QED BY <1>8, <2>1
<1>14. AcceptedIsCovered'
  <2>1. ASSUME NEW e \in Devices, NEW i \in 1..Len(down'[e])
        PROVE  ArrivesCovered(e, down'[e][i])
    <3>1. CASE i \in 1..Len(down[e]) /\ down'[e][i] = down[e][i]
      BY <1>8, <3>1
    <3>2. CASE e = d /\ down'[e][i] = ack
      <4>1. active[d].version <= row[d].version
        BY <1>4, <1>5 DEF AsNew
      <4>2. ASSUME active[d].version = row[d].version PROVE CoveredNext(row[d])
        <5>1. row[d].version = m.version /\ row[d].content = m.content
          BY <1>4, <1>5, <4>2 DEF AsNew
        <5> QED BY <1>8, <5>1, AlikeIsCovered
      <4> QED BY <1>1, <1>7, <3>2, <4>1, <4>2 DEF ArrivesCovered
    <3> QED BY <1>6, <3>1, <3>2
  <2> QED BY <1>8, <2>1, AcceptedNext
<1>15. SyncedCovered' /\ RowsHaveVersions'
  <2> SUFFICES ASSUME NEW e \in Devices, ~row[e].changed PROVE CoveredNext(row[e])
    BY <1>1 DEF CoverInv, SyncedCovered, RowsHaveVersions, CoveredNext, Covered
  <2> QED BY <1>4, <1>8 DEF CoverInv, SyncedCovered, CoverKeeps
<1> QED
  BY <1>8, <1>10, <1>11, <1>12, <1>13, <1>14, <1>15 DEF CoverInv

\* A change of a lost connection: nothing of d is on its way that is older.
LEMMA LateChangeCovers ==
  ASSUME CoverInv, TypeOK', RowsAreWellFormed', NEW d \in Devices, NEW m \in UpMessage,
         m.type = "change", m.version > 0, AsNew(row[d], m),
         \A i \in Uploads(d) : AsNew(up[d][i], m),
         AsNew(m, change[d]) \/ \A e \in Devices : d \notin pending[e],
         AddChange(d, m), UNCHANGED <<row, session, active, up, down>>
  PROVE  CoverInv'
<1>1. m.version \in Nat
  BY UpMessages
<1>2. /\ CoverKeeps /\ IdsAreUnique' /\ nextId' = nextId + 1
      /\ \A s \in Devices : HeldCovered(s)
      /\ \A e \in Devices \ {d} : change'[e] = change[e]
      /\ \A x : AsNew(x, m) => AsNew(x, change'[d])
      /\ \A e \in Devices : \A i \in 1..Len(down[e]) : ArrivesCovered(e, down[e][i])
      /\ \A e \in Devices : \A i \in 1..Len(up[e]) : up[e][i].type = "changedAck" =>
           /\ up[e][i].id > 0 /\ up[e][i].id < nextId'
           /\ \A s \in Devices : change'[s].id = up[e][i].id => AsNew(row'[e], change'[s])
  BY <1>1, AddChangeCovers
<1>3. OneUpload' /\ OfflineIsSilent' /\ AckedIsMerged'
  BY <1>2 DEF CoverInv, OneUpload, OfflineIsSilent, AckedIsMerged, Uploads, Acks
<1>4. UploadIsCurrent'
  <2> SUFFICES ASSUME NEW e \in Devices, NEW i \in Uploads(e)
               PROVE  /\ up[e][i].version = active[e].version
                      /\ up[e][i].version > 0
                      /\ AsNew(row[e], up[e][i]) /\ AsNew(up[e][i], change'[e])
    BY DEF UploadIsCurrent, Uploads
  <2> QED BY <1>2 DEF CoverInv, UploadIsCurrent
<1>5. AcceptedIsCovered'
  BY <1>2, AcceptedNext
<1>6. SyncedCovered' /\ RowsHaveVersions'
  <2> SUFFICES ASSUME NEW e \in Devices, ~row[e].changed PROVE CoveredNext(row[e])
    BY DEF CoverInv, SyncedCovered, RowsHaveVersions, CoveredNext, Covered
  <2> QED BY <1>2, VersionTypes DEF CoverInv, SyncedCovered, CoverKeeps
<1> QED
  BY <1>2, <1>3, <1>4, <1>5, <1>6 DEF CoverInv

\* The first message may have been taken off the connection from d.
UpShrinks(d) ==
  /\ \A e \in Devices \ {d} : up'[e] = up[e]
  /\ \E k \in {0, 1} :
       /\ Len(up'[d]) = Len(up[d]) - k
       /\ \A i \in 1..Len(up'[d]) : up'[d][i] = up[d][i + k]

\* What the database still holds was there before.
ChangesShrink == \A s \in Devices : change'[s] = change[s] \/ change'[s] = NoChange

LEMMA ShrunkIsHeld ==
  ASSUME CoverInv, CoverKeeps, ChangesShrink, UNCHANGED row
  PROVE  \A s \in Devices : HeldCovered(s)
<1> SUFFICES ASSUME NEW s \in Devices PROVE HeldCovered(s)
  OBVIOUS
<1>1. change[s].version \in Nat /\ NoChange.version = 0
  BY VersionTypes DEF CoverInv, NoChange
<1>2. CASE change'[s] = change[s]
  BY <1>1, <1>2 DEF CoverInv, AcceptedIsCovered, HeldCovered, CoverKeeps
<1>3. CASE change'[s] = NoChange
  BY <1>1, <1>3 DEF HeldCovered, CoveredNext, AsNew
<1> QED BY <1>2, <1>3 DEF ChangesShrink

\* The server sends d something, or takes a message of d, or both, and may have
\* removed changes from the database, and what is covered stays covered.
LEMMA ServerCovers ==
  ASSUME CoverInv, TypeOK', RowsAreWellFormed', NEW d \in Devices,
         DownGrows(d), UpShrinks(d), UNCHANGED <<row, nextId>>,
         OfflineIsSilent', IdsAreUnique', CoverKeeps, ChangesShrink,
         \A e \in Devices : \/ active'[e] = active[e]
                            \/ Uploads(e) = {} /\ Acks(e) = {}
  PROVE  CoverInv'
<1>1. /\ \A e \in Devices : row[e].version \in Nat /\ active[e].version \in Nat
      /\ \A e \in Devices : change[e].version \in Nat /\ change[e].id \in Nat
      /\ NoChange.id = 0 /\ NoChange.version = 0
  BY VersionTypes DEF CoverInv, NoChange
<1>2. \A s \in Devices : HeldCovered(s)
  BY ShrunkIsHeld
<1>3. /\ \A e \in Devices \ {d} : down'[e] = down[e]
      /\ \A i \in 1..Len(down'[d]) :
           \/ i \in 1..Len(down[d]) /\ down'[d][i] = down[d][i]
           \/ down'[d][i].type # "changeAck" /\ ArrivesCovered(d, down'[d][i])
  BY DEF DownGrows
<1>4. PICK k \in {0, 1} : /\ Uploads(d)' \subseteq Nat
                          /\ \A i \in Uploads(d)' : /\ i + k \in Uploads(d)
                                                    /\ up'[d][i] = up[d][i + k]
                          /\ \A i \in 1..Len(up'[d]) : /\ i + k \in 1..Len(up[d])
                                                      /\ up'[d][i] = up[d][i + k]
  <2>1. Len(up[d]) \in Nat
    BY LenProperties DEF CoverInv, TypeOK
  <2>2. PICK k \in {0, 1} : /\ Len(up'[d]) = Len(up[d]) - k
                            /\ \A i \in 1..Len(up'[d]) : up'[d][i] = up[d][i + k]
    BY DEF UpShrinks
  <2>3. \A i \in 1..Len(up'[d]) : i + k \in 1..Len(up[d]) /\ up'[d][i] = up[d][i + k]
    BY <2>1, <2>2
  <2>4. /\ Uploads(d)' \subseteq Nat
        /\ \A i \in Uploads(d)' : i + k \in Uploads(d) /\ up'[d][i] = up[d][i + k]
    BY <2>3 DEF Uploads
  <2> QED BY <2>3, <2>4
<1>5. /\ \A e \in Devices \ {d} : Uploads(e)' = Uploads(e)
      /\ \A e \in Devices : Acks(e)' \subseteq Acks(e)
  <2>1. \A e \in Devices \ {d} : Uploads(e)' = Uploads(e) /\ Acks(e)' = Acks(e)
    BY <1>3 DEF UpShrinks, Uploads, Acks
  <2>2. Acks(d)' \subseteq Acks(d)
    BY <1>3 DEF Acks
  <2> QED BY <2>1, <2>2
<1>6. OneUpload'
  <2> SUFFICES ASSUME NEW e \in Devices
               PROVE  /\ \A i, j \in Uploads(e)' : i = j
                      /\ \A i, j \in Acks(e)' : i = j
                      /\ Uploads(e)' = {} \/ Acks(e)' = {}
                      /\ active'[e] = NoUpload => Uploads(e)' = {} /\ Acks(e)' = {}
    BY DEF OneUpload
  <2>1. /\ \A i, j \in Uploads(e) : i = j
        /\ \A i, j \in Acks(e) : i = j
        /\ Uploads(e) = {} \/ Acks(e) = {}
        /\ active'[e] = NoUpload => Uploads(e) = {} /\ Acks(e) = {}
    BY DEF CoverInv, OneUpload
  <2>2. Acks(e)' \subseteq Acks(e)
    BY <1>5
  <2>3. CASE e # d
    BY <1>5, <2>1, <2>2, <2>3
  <2>4. CASE e = d
    BY <1>4, <2>1, <2>2, <2>4
  <2> QED BY <2>3, <2>4
<1>7. UploadIsCurrent'
  <2> SUFFICES ASSUME NEW e \in Devices, NEW i \in Uploads(e)'
               PROVE  /\ up'[e][i].version = active'[e].version
                      /\ up'[e][i].version > 0
                      /\ AsNew(row'[e], up'[e][i]) /\ AsNew(up'[e][i], change'[e])
    BY DEF UploadIsCurrent
  <2>1. PICK j \in Uploads(e) : up'[e][i] = up[e][j]
    <3>1. CASE e = d
      BY <1>4, <3>1
    <3>2. CASE e # d
      BY <1>5, <3>2 DEF UpShrinks
    <3> QED BY <3>1, <3>2
  <2>2. /\ up[e][j].version = active[e].version /\ up[e][j].version > 0
        /\ AsNew(row[e], up[e][j]) /\ AsNew(up[e][j], change[e])
    BY DEF CoverInv, UploadIsCurrent
  <2>3. active'[e] = active[e]
    BY <2>1
  <2>4. AsNew(up[e][j], change'[e])
    BY <1>1, <2>2 DEF AsNew, ChangesShrink
  <2> QED BY <2>1, <2>2, <2>3, <2>4
<1>8. AckedIsMerged'
  <2> SUFFICES ASSUME NEW e \in Devices, NEW i \in 1..Len(up'[e]),
                      up'[e][i].type = "changedAck"
               PROVE  /\ up'[e][i].id > 0 /\ up'[e][i].id < nextId
                      /\ \A s \in Devices : change'[s].id = up'[e][i].id
                                             => AsNew(row[e], change'[s])
    BY DEF AckedIsMerged
  <2>1. PICK j \in 1..Len(up[e]) : up'[e][i] = up[e][j]
    <3>1. CASE e = d
      <4>1. i + k \in 1..Len(up[e]) /\ up'[e][i] = up[e][i + k]
        BY <1>4, <3>1
      <4> QED BY <4>1
    <3>2. CASE e # d
      BY <3>2 DEF UpShrinks
    <3> QED BY <3>1, <3>2
  <2>2. /\ up[e][j].id > 0 /\ up[e][j].id < nextId
        /\ \A s \in Devices : change[s].id = up[e][j].id
                               => AsNew(row[e], change[s])
    BY <2>1 DEF CoverInv, AckedIsMerged
  <2>3. up[e][j].id \in Nat
    BY <2>1, VersionTypes, UpMessages DEF CoverInv
  <2>4. \A s \in Devices : change'[s].id = up[e][j].id => change'[s] = change[s]
    BY <1>1, <2>2, <2>3 DEF ChangesShrink
  <2> QED BY <2>1, <2>2, <2>4
<1>9. AcceptedIsCovered'
  <2>1. ASSUME NEW e \in Devices, NEW i \in 1..Len(down[e]), i \in 1..Len(down'[e]),
               down'[e][i] = down[e][i]
        PROVE  ArrivesCovered(e, down'[e][i])
    <3>1. down[e][i] \in DownMessage
      BY VersionTypes DEF CoverInv
    <3>2. ASSUME down[e][i].type = "changeAck"
          PROVE  /\ active'[e].version <= row'[e].version
                 /\ active'[e].version = row'[e].version => CoveredNext(row'[e])
      <4>1. i \in Acks(e)
        BY <3>2 DEF Acks
      <4>2. active'[e] = active[e]
        BY <4>1
      <4> QED BY <1>1, <3>2, <4>2 DEF CoverInv, AcceptedIsCovered, CoverKeeps
    <3>3. ASSUME down[e][i].type = "changed"
          PROVE  /\ CoveredNext(down[e][i]) /\ down[e][i].version > 0
                 /\ down[e][i].id > 0 /\ down[e][i].id < nextId'
                 /\ \A s \in Devices : change'[s].id = down[e][i].id =>
                      /\ change'[s].version = down[e][i].version
                      /\ change'[s].content = down[e][i].content
      <4>1. down[e][i].id \in Nat /\ down[e][i].version \in Nat
        BY <3>1, <3>3, DownMessages
      <4>2. /\ Covered(down[e][i]) /\ down[e][i].version > 0
            /\ down[e][i].id > 0 /\ down[e][i].id < nextId
            /\ \A s \in Devices : change[s].id = down[e][i].id =>
                 /\ change[s].version = down[e][i].version
                 /\ change[s].content = down[e][i].content
        BY <3>3 DEF CoverInv, AcceptedIsCovered
      <4>3. \A s \in Devices : change'[s].id = down[e][i].id => change'[s] = change[s]
        BY <1>1, <4>1, <4>2 DEF ChangesShrink
      <4>4. CoveredNext(down[e][i])
        BY <4>1, <4>2 DEF CoverKeeps
      <4> QED BY <4>1, <4>2, <4>3, <4>4
    <3> QED BY <2>1, <3>2, <3>3 DEF ArrivesCovered
  <2>2. ASSUME NEW e \in Devices, NEW i \in 1..Len(down'[e])
        PROVE  ArrivesCovered(e, down'[e][i])
    <3>1. CASE i \in 1..Len(down[e]) /\ down'[e][i] = down[e][i]
      BY <2>1, <3>1
    <3>2. CASE e = d /\ ~(i \in 1..Len(down[e]) /\ down'[e][i] = down[e][i])
      BY <1>3, <3>2
    <3>3. CASE e # d
      BY <1>3, <2>1, <3>3
    <3> QED BY <3>1, <3>2, <3>3
  <2> QED BY <1>2, <2>2, AcceptedNext
<1>10. SyncedCovered' /\ RowsHaveVersions'
  <2> SUFFICES ASSUME NEW e \in Devices, ~row[e].changed PROVE CoveredNext(row[e])
    BY DEF CoverInv, SyncedCovered, RowsHaveVersions, CoveredNext, Covered
  <2> QED BY <1>1 DEF CoverInv, SyncedCovered, CoverKeeps
<1> QED
  BY <1>6, <1>7, <1>8, <1>9, <1>10 DEF CoverInv

\* When the database is left alone.
LEMMA TablesKept ==
  ASSUME CoverInv, TypeOK', UNCHANGED <<row, change, pending, nextId>>
  PROVE  CoverKeeps /\ ChangesShrink /\ IdsAreUnique'
<1>1. \A e \in Devices : AsNew(row'[e], row[e])
  BY DEF AsNew
<1>2. CoverKeeps
  BY <1>1, CoverKept DEF CoverInv
<1> QED BY <1>2 DEF CoverInv, ChangesShrink, IdsAreUnique

LEMMA UpKept ==
  ASSUME TypeOK, NEW d \in Devices, up' = up
  PROVE  UpShrinks(d)
<1>1. Len(up[d]) \in Nat
  BY LenProperties DEF TypeOK
<1> QED BY <1>1 DEF UpShrinks

\* The server answers a login: nothing was on its way to or from the device.
LEMMA LoginCovers ==
  ASSUME CoverInv, TypeOK', RowsAreWellFormed', NEW d \in Devices, Login(d)
  PROVE  CoverInv'
<1> DEFINE some == pending[d] # {}
           welcome == [type |-> "welcome", hasChanges |-> some]
           added == <<welcome>>
<1>1. /\ UNCHANGED <<row, nextId, up, change, pending>>
      /\ session[d] = "offline" /\ session' = [session EXCEPT ![d] = "login"]
      /\ active' = [active EXCEPT ![d] = NoUpload]
      /\ down' = [down EXCEPT ![d] = Append(@, welcome)]
  BY DEF Login, storeVars, tableVars
<1>2. /\ added \in Seq(DownMessage)
      /\ \A i \in 1..Len(added) :
           added[i].type # "changeAck" /\ ArrivesCovered(d, added[i])
  <2>1. welcome \in DownMessage /\ welcome.type = "welcome"
    BY DownMessages
  <2> HIDE DEF welcome
  <2>2. added \in Seq(DownMessage) /\ \A i \in 1..Len(added) : added[i] = welcome
    BY <2>1
  <2> QED BY <2>1, <2>2 DEF ArrivesCovered
<1>3. up[d] = << >> /\ down[d] = << >> /\ Len(<< >>) = 0
  BY <1>1, EmptySeq DEF CoverInv, OfflineIsSilent
<1>4. DownGrows(d)
  <2>1. Append(down[d], welcome) = down[d] \o added
    BY <1>3
  <2>2. down' = [down EXCEPT ![d] = @ \o added]
    <3> HIDE DEF welcome
    <3> QED BY <1>1, <2>1
  <2> HIDE DEF added
  <2> QED BY <1>2, <2>2, AddedArrives DEF CoverInv
<1> HIDE DEF added, welcome
<1>5. Uploads(d) = {} /\ Acks(d) = {}
  BY <1>3 DEF Uploads, Acks
<1>6. UpShrinks(d)
  BY <1>1, UpKept DEF CoverInv
<1>7. \A e \in Devices : active'[e] = active[e] \/ (Uploads(e) = {} /\ Acks(e) = {})
  BY <1>1, <1>5 DEF CoverInv, TypeOK
<1>8. OfflineIsSilent'
  BY <1>1, <1>4 DEF CoverInv, TypeOK, OfflineIsSilent, DownGrows
<1> QED
  BY <1>1, <1>4, <1>6, <1>7, <1>8, TablesKept, ServerCovers

\* triggerDownload for a device that is connected.
LEMMA DownloadCovers ==
  ASSUME CoverInv, TypeOK', RowsAreWellFormed', NEW d \in Devices,
         NEW actives \in Seq(Nat), NEW cache, NEW force \in BOOLEAN, NEW skip \in BOOLEAN,
         TriggerDownload(d, actives, cache, force, skip), session[d] # "offline",
         UNCHANGED <<row, nextId, session, active>>, UpShrinks(d),
         IdsAreUnique', CoverKeeps, ChangesShrink
  PROVE  CoverInv'
<1>1. DownGrows(d)
  <2>1. \A s \in Devices : CoveredNext(change'[s])
    BY ShrunkIsHeld DEF HeldCovered
  <2> QED BY <2>1, DownloadArrives DEF CoverInv
<1>2. OfflineIsSilent'
  BY <1>1 DEF CoverInv, OfflineIsSilent, DownGrows, UpShrinks
<1> QED
  BY <1>1, <1>2, ServerCovers

LEMMA LoadChangesCovers ==
  ASSUME CoverInv, TypeOK', RowsAreWellFormed', NEW d \in Devices, LoadChanges(d)
  PROVE  CoverInv'
<1> DEFINE first == TRUE
           none == cached[d] = 0
           nothing == << >>
<1>1. /\ TriggerDownload(d, nothing, cached[d], first, none) /\ session[d] # "offline"
      /\ UNCHANGED <<row, nextId, session, active, up, change, pending>>
  BY DEF LoadChanges, storeVars, deviceVars, tableVars
<1>2. nothing \in Seq(Nat) /\ first \in BOOLEAN /\ none \in BOOLEAN
  OBVIOUS
<1>3. UpShrinks(d)
  BY <1>1, UpKept DEF CoverInv
<1> HIDE DEF first, none, nothing
<1> QED
  BY <1>1, <1>2, <1>3, TablesKept, DownloadCovers

LEMMA NotifyChangedCovers ==
  ASSUME CoverInv, TypeOK', RowsAreWellFormed', NEW d \in Devices,
         NotifyChanged(d), session[d] # "offline"
  PROVE  CoverInv'
<1> DEFINE no == FALSE
<1>1. /\ TriggerDownload(d, inflight[d], cached[d], no, no)
      /\ UNCHANGED <<row, nextId, session, active, up, change, pending>>
  BY DEF NotifyChanged, storeVars, deviceVars
<1>2. inflight[d] \in Seq(Nat) /\ no \in BOOLEAN
  BY DEF CoverInv, TypeOK
<1>3. UpShrinks(d)
  BY <1>1, UpKept DEF CoverInv
<1> HIDE DEF no
<1> QED
  BY <1>1, <1>2, <1>3, TablesKept, DownloadCovers

\* A download is acknowledged: the device has caught up with the change whose
\* entry is dropped, and a change is deleted only when no entry is left.
LEMMA CompletionCovers ==
  ASSUME CoverInv, TypeOK', NEW d \in Devices, NEW id \in Nat, id > 0,
         \A s \in Devices : change[s].id = id => AsNew(row[d], change[s]),
         CompleteChange(d, id), UNCHANGED <<row, nextId>>
  PROVE  CoverKeeps /\ ChangesShrink /\ IdsAreUnique'
<1> DEFINE left == {s \in pending[d] : change[s].id # id}
           held == left \cup UNION {pending[e] : e \in Devices \ {d}}
<1>1. /\ pending'[d] = left
      /\ \A e \in Devices \ {d} : pending'[e] = pending[e]
      /\ \A s \in Devices : change'[s] = change[s] \/ (change'[s] = NoChange /\ s \notin held)
  <2> DEFINE done == {s \in Devices \ held : change[s].id = id}
  <2>1. pending' = [pending EXCEPT ![d] = left]
    BY DEF CompleteChange
  <2>2. PICK kept : change' = [s \in Devices |->
                               IF s \in done \ kept THEN NoChange ELSE change[s]]
    BY DEF CompleteChange
  <2>3. pending \in [Devices -> SUBSET Devices]
    BY DEF CoverInv, TypeOK
  <2>4. \A s \in Devices : change'[s] = change[s] \/ (change'[s] = NoChange /\ s \notin held)
    <3> HIDE DEF held
    <3> QED BY <2>2
  <2> HIDE DEF left, held
  <2> QED BY <2>1, <2>3, <2>4
<1>2. \A e \in Devices : pending'[e] \subseteq pending[e] /\ pending'[e] \subseteq held
  BY <1>1
<1>3. \A e \in Devices : \A s \in pending'[e] : s \in Devices /\ change'[s] = change[s]
  BY <1>1, <1>2 DEF CoverInv, TypeOK
<1>4. ChangesShrink
  BY <1>1 DEF ChangesShrink
<1>5. \A e \in Devices : row[e].version \in Nat /\ change[e].version \in Nat
  BY VersionTypes DEF CoverInv
<1>6. CoverKeeps
  <2>1. ASSUME NEW e \in Devices, NEW s \in pending[e]
        PROVE  \/ AsNew(row'[e], change[s])
               \/ s \in pending'[e] /\ AsNew(change'[s], change[s])
    <3>1. s \in Devices
      BY DEF CoverInv, TypeOK
    <3>2. CASE e = d /\ change[s].id = id
      BY <1>5, <3>1, <3>2
    <3>3. CASE ~(e = d /\ change[s].id = id)
      <4>1. s \in pending'[e]
        BY <1>1, <3>3
      <4> QED BY <1>3, <3>1, <4>1 DEF AsNew
    <3> QED BY <3>2, <3>3
  <2>2. \A e \in Devices : AsNew(row'[e], row[e])
    BY DEF AsNew
  <2> QED BY <2>1, <2>2, CoverStays DEF CoverInv
<1>7. IdsAreUnique'
  <2>1. NoChange.id = 0 /\ nextId \in Nat /\ nextId > 0
    BY DEF NoChange, CoverInv, TypeOK
  <2>2. \A s \in Devices : change'[s].id < nextId'
    BY <1>1, <2>1 DEF CoverInv, IdsAreUnique
  <2>3. \A s, t \in Devices : change'[s].id = change'[t].id => s = t \/ change'[s].id = 0
    BY <1>1, <2>1 DEF CoverInv, IdsAreUnique
  <2>4. \A e \in Devices : \A s \in pending'[e] : change'[s].id > 0 /\ s # e
    BY <1>2, <1>3 DEF CoverInv, IdsAreUnique
  <2>5. \A s \in Devices : change'[s].id > 0 => change'[s].version > 0
    BY <1>1, <2>1 DEF CoverInv, IdsAreUnique
  <2> QED BY <2>2, <2>3, <2>4, <2>5 DEF IdsAreUnique
<1> QED BY <1>4, <1>6, <1>7

LEMMA OnChangedAckCovers ==
  ASSUME CoverInv, TypeOK', RowsAreWellFormed', NEW d \in Devices, OnChangedAck(d)
  PROVE  CoverInv'
<1> DEFINE id == Head(up[d]).id
           no == FALSE
<1>1. /\ up' = [up EXCEPT ![d] = Tail(@)]
      /\ UNCHANGED <<row, nextId, session, active>>
      /\ CompleteChange(d, id)
      /\ \E rest \in RemoveOne(inflight[d], id) :
           TriggerDownload(d, rest, cached[d], no, no)
  BY DEF OnChangedAck, storeVars, deviceVars
<1>2. /\ up[d] \in Seq(UpMessage) /\ up[d] # << >> /\ 1 \in 1..Len(up[d])
      /\ up[d][1].type = "changedAck" /\ id = up[d][1].id
  BY EmptySeq DEF OnChangedAck, CoverInv, TypeOK
<1>3. /\ id > 0 /\ id \in Nat
      /\ \A s \in Devices : change[s].id = id => AsNew(row[d], change[s])
  <2>1. id \in Nat
    BY <1>2, VersionTypes, UpMessages DEF CoverInv
  <2> QED BY <1>2, <2>1 DEF CoverInv, AckedIsMerged
<1> HIDE DEF id
<1>4. CoverKeeps /\ ChangesShrink /\ IdsAreUnique'
  BY <1>1, <1>3, CompletionCovers
<1>5. UpShrinks(d)
  <2>1. /\ Len(Tail(up[d])) = Len(up[d]) - 1
        /\ \A i \in 1..Len(Tail(up[d])) : Tail(up[d])[i] = up[d][i + 1]
    BY <1>2, HeadTailProperties
  <2>2. up'[d] = Tail(up[d]) /\ \A e \in Devices \ {d} : up'[e] = up[e]
    BY <1>1 DEF CoverInv, TypeOK
  <2> QED BY <2>1, <2>2 DEF UpShrinks
<1>6. PICK rest \in RemoveOne(inflight[d], id) :
        TriggerDownload(d, rest, cached[d], no, no)
  BY <1>1
<1>7. rest \in Seq(Nat) /\ no \in BOOLEAN
  <2>1. inflight[d] \in Seq(Nat)
    BY DEF CoverInv, TypeOK
  <2> QED BY <2>1, RemoveOneType
<1>8. session[d] # "offline"
  BY <1>2 DEF CoverInv, OfflineIsSilent
<1> HIDE DEF no
<1> QED
  BY <1>1, <1>4, <1>5, <1>6, <1>7, <1>8, DownloadCovers

\* The same confirmation, brought by a connection that is lost: nothing is sent.
LEMMA LateAckCovers ==
  ASSUME CoverInv, TypeOK', RowsAreWellFormed', NEW d \in Devices, NEW id \in Nat, id > 0,
         \A s \in Devices : change[s].id = id => AsNew(row[d], change[s]),
         CompleteChange(d, id), UNCHANGED <<row, nextId, session, active, up, down>>
  PROVE  CoverInv'
<1>1. CoverKeeps /\ ChangesShrink /\ IdsAreUnique'
  BY CompletionCovers
<1>2. UpShrinks(d)
  BY UpKept DEF CoverInv
<1>3. DownGrows(d)
  BY DEF DownGrows
<1>4. OfflineIsSilent'
  BY DEF CoverInv, OfflineIsSilent
<1> QED
  BY <1>1, <1>2, <1>3, <1>4, ServerCovers

\* A message of a lost connection is handled and does not overtake a newer change.
LEMMA LateStepCovers ==
  ASSUME CoverInv, LateIsOld, TypeOK', RowsAreWellFormed', ~overtaken',
         NEW d \in Devices, LateStep(d)
  PROVE  CoverInv'
<1>1. PICK x \in late[d] : LateChange(d, x[2]) \/ LateAck(d, x[2])
  BY DEF LateStep
<1>2. x[2] \in UpMessage
  BY DEF CoverInv, TypeOK
<1>3. UNCHANGED <<row, session, active, up, down>>
  BY DEF LateStep, storeVars, deviceVars
<1>4. CASE LateChange(d, x[2])
  <2>1. x[2].type = "change" /\ AddChange(d, x[2])
    BY <1>4 DEF LateChange
  <2>2. AsNew(x[2], change[d]) \/ \A e \in Devices : d \notin pending[e]
    BY <1>4 DEF LateChange
  <2>3. /\ x[2].version > 0 /\ AsNew(row[d], x[2])
        /\ \A i \in Uploads(d) : AsNew(up[d][i], x[2])
    BY <2>1 DEF LateIsOld
  <2> QED BY <1>2, <1>3, <2>1, <2>2, <2>3, LateChangeCovers
<1>5. CASE LateAck(d, x[2])
  <2>1. /\ x[2].type = "changedAck" /\ CompleteChange(d, x[2].id)
        /\ UNCHANGED nextId
    BY <1>5 DEF LateAck
  <2>2. /\ x[2].id > 0
        /\ \A s \in Devices : change[s].id = x[2].id => AsNew(row[d], change[s])
    BY <2>1 DEF LateIsOld
  <2>3. x[2].id \in Nat
    BY <1>2, <2>1, UpMessages
  <2> QED BY <1>3, <2>1, <2>2, <2>3, LateAckCovers
<1> QED BY <1>1, <1>4, <1>5

\* A connection that is lost takes messages away and nothing else.
LEMMA DisconnectCovers ==
  ASSUME CoverInv, TypeOK', RowsAreWellFormed', NEW d \in Devices, Disconnect(d)
  PROVE  CoverInv'
<1>1. /\ UNCHANGED <<row, change, pending, nextId>>
      /\ up'[d] = << >> /\ \A e \in Devices \ {d} : up'[e] = up[e]
      /\ down'[d] = << >> /\ \A e \in Devices \ {d} : down'[e] = down[e]
      /\ \A e \in Devices \ {d} : active'[e] = active[e] /\ session'[e] = session[e]
  BY DEF Disconnect, storeVars, tableVars, CoverInv, TypeOK
<1>2. Len(<< >>) = 0
  BY EmptySeq
<1>3. OneUpload'
  <2>1. Uploads(d)' = {} /\ Acks(d)' = {}
    BY <1>1, <1>2 DEF Uploads, Acks
  <2>2. \A e \in Devices \ {d} : Uploads(e)' = Uploads(e) /\ Acks(e)' = Acks(e)
    BY <1>1 DEF Uploads, Acks
  <2> SUFFICES ASSUME NEW e \in Devices
               PROVE  /\ \A i, j \in Uploads(e)' : i = j
                      /\ \A i, j \in Acks(e)' : i = j
                      /\ Uploads(e)' = {} \/ Acks(e)' = {}
                      /\ active'[e] = NoUpload => Uploads(e)' = {} /\ Acks(e)' = {}
    BY DEF OneUpload
  <2>3. CASE e = d
    BY <2>1, <2>3
  <2>4. CASE e # d
    BY <1>1, <2>2, <2>4 DEF CoverInv, OneUpload
  <2> QED BY <2>3, <2>4
<1>4. OfflineIsSilent'
  BY <1>1 DEF CoverInv, OfflineIsSilent
<1>5. UploadIsCurrent'
  BY <1>1, <1>2 DEF CoverInv, UploadIsCurrent, Uploads
<1>6. IdsAreUnique' /\ SyncedCovered' /\ RowsHaveVersions'
  BY <1>1 DEF CoverInv, IdsAreUnique, SyncedCovered, RowsHaveVersions, Covered
<1>7. AcceptedIsCovered'
  BY <1>1, <1>2 DEF CoverInv, AcceptedIsCovered, Covered
<1>8. AckedIsMerged'
  BY <1>1, <1>2 DEF CoverInv, AckedIsMerged
<1> QED
  BY <1>3, <1>4, <1>5, <1>6, <1>7, <1>8 DEF CoverInv

LEMMA StutterCovers ==
  ASSUME CoverInv, UNCHANGED <<row, session, active, up, down, change, pending, nextId>>,
         TypeOK', RowsAreWellFormed'
  PROVE  CoverInv'
<1>1. /\ OneUpload' /\ OfflineIsSilent' /\ UploadIsCurrent' /\ IdsAreUnique'
      /\ AckedIsMerged'
  BY DEF CoverInv, OneUpload, OfflineIsSilent, UploadIsCurrent, IdsAreUnique,
         AckedIsMerged, Uploads, Acks
<1>2. AcceptedIsCovered' /\ SyncedCovered' /\ RowsHaveVersions'
  BY DEF CoverInv, AcceptedIsCovered, SyncedCovered, RowsHaveVersions, Covered
<1> QED BY <1>1, <1>2 DEF CoverInv

LEMMA CoverStep ==
  ASSUME CoverInv, LateIsOld, [Next]_vars, ~forgot', ~overtaken'
  PROVE  CoverInv'
<1>1. TypeInv
  BY DEF CoverInv, TypeInv
<1>2. TypeOK' /\ RowsAreWellFormed'
  BY <1>1, TypeStep DEF TypeInv
<1>3. \A e \in Devices : AsNew(row'[e], row[e])
  BY <1>1, RowsGrow
<1>4. \A e \in Devices : GoodRow(row[e]) /\ row[e].version \in Nat
  BY <1>1 DEF TypeInv, TypeOK, RowsAreWellFormed, GoodRow, Row
<1>5. ASSUME NEW d \in Devices, NEW data \in Data, Save(d, data)
      PROVE  CoverInv'
  <2> DEFINE r == save(row[d], data)
  <2>1. GoodRow(r) /\ r.changed /\ r.version = row[d].version + 1 /\ Edit(d, r)
    BY <1>4, <1>5, EditsAreRows DEF Save, GoodRow
  <2> HIDE DEF r
  <2> QED BY <1>2, <2>1, EditCovers
<1>6. ASSUME NEW d \in Devices, Remove(d)
      PROVE  CoverInv'
  <2> DEFINE r == remove(row[d])
  <2>1. GoodRow(r) /\ r.changed /\ r.version = row[d].version + 1 /\ Edit(d, r)
    BY <1>4, <1>6, RemoveIsRow DEF Remove, GoodRow
  <2> HIDE DEF r
  <2> QED BY <1>2, <2>1, EditCovers
<1>7. ASSUME NEW d \in Devices, Login(d)
      PROVE  CoverInv'
  BY <1>2, <1>7, LoginCovers
<1>8. ASSUME NEW d \in Devices, OnWelcome(d)
      PROVE  CoverInv'
  <2>1. /\ Receive(d, "welcome") /\ UNCHANGED <<row, change, pending, nextId>>
        /\ session' = [session EXCEPT ![d] = "idle"]
        /\ UploadNext(d) \/ UNCHANGED <<active, up>>
    BY <1>8 DEF OnWelcome, OnReady, storeVars, tableVars
  <2>2. DownShrinks(d)
    BY <2>1, ReceiveShrinks DEF CoverInv
  <2>3. OfflineIsSilent'
    <3>1. \A e \in Devices \ {d} : up'[e] = up[e] /\ down'[e] = down[e]
      BY <2>1, <2>2 DEF UploadNext, DownShrinks, CoverInv, TypeOK
    <3> QED BY <2>1, <3>1 DEF CoverInv, TypeOK, OfflineIsSilent
  <2> QED BY <1>2, <2>1, <2>2, <2>3, UploadCovers
<1>9. ASSUME NEW d \in Devices, OnLastChanged(d)
      PROVE  CoverInv'
  <2>1. /\ Receive(d, "lastChanged") /\ UNCHANGED <<row, session, change, pending, nextId>>
        /\ UploadNext(d)
    BY <1>9 DEF OnLastChanged, OnReady, storeVars, tableVars
  <2>2. DownShrinks(d) /\ session[d] # "offline"
    BY <2>1, ReceiveShrinks DEF CoverInv, OfflineIsSilent, Receive
  <2>3. OfflineIsSilent'
    <3>1. \A e \in Devices \ {d} : up'[e] = up[e] /\ down'[e] = down[e]
      BY <2>1, <2>2 DEF UploadNext, DownShrinks, CoverInv, TypeOK
    <3> QED BY <2>1, <2>2, <3>1 DEF CoverInv, TypeOK, OfflineIsSilent
  <2> QED BY <1>2, <2>1, <2>2, <2>3, UploadCovers
<1>10. ASSUME NEW d \in Devices, OnChanged(d)
       PROVE  CoverInv'
  BY <1>2, <1>3, <1>10, OnChangedCovers
<1>11. ASSUME NEW d \in Devices, OnChangeAck(d)
       PROVE  CoverInv'
  BY <1>2, <1>3, <1>11, OnChangeAckCovers
<1>12. ASSUME NEW d \in Devices, RunUploadNext(d) \/ RunChangeTriggered(d)
       PROVE  CoverInv'
  <2>1. /\ UNCHANGED <<row, session, down, change, pending, nextId>>
        /\ UploadNext(d) \/ UNCHANGED <<active, up>>
    BY <1>12 DEF RunUploadNext, RunChangeTriggered, storeVars, tableVars
  <2>2. DownShrinks(d)
    BY <2>1, KeptShrinks DEF CoverInv
  <2>3. OfflineIsSilent'
    <3>1. session[d] = "offline" => up'[d] = up[d]
      BY <2>1 DEF UploadNext, CoverInv, TypeOK
    <3>2. \A e \in Devices \ {d} : up'[e] = up[e]
      BY <2>1 DEF UploadNext, CoverInv, TypeOK
    <3> QED BY <2>1, <3>1, <3>2 DEF CoverInv, OfflineIsSilent
  <2> QED BY <1>2, <2>1, <2>2, <2>3, UploadCovers
<1>13. ASSUME NEW d \in Devices, NotifyChanged(d)
       PROVE  CoverInv'
  <2>1. CASE session[d] = "offline"
    BY <1>2, <1>13, <2>1, StutterCovers
    DEF NotifyChanged, storeVars, deviceVars, clientVars, dropVars
  <2>2. CASE session[d] # "offline"
    BY <1>2, <1>13, <2>2, NotifyChangedCovers
  <2> QED BY <2>1, <2>2
<1>14. ASSUME NEW d \in Devices, OnChange(d)
       PROVE  CoverInv'
  BY <1>2, <1>14, OnChangeCovers
<1>15. ASSUME NEW d \in Devices, OnChangedAck(d)
       PROVE  CoverInv'
  BY <1>2, <1>15, OnChangedAckCovers
<1>16. ASSUME NEW d \in Devices, Disconnect(d)
       PROVE  CoverInv'
  BY <1>2, <1>16, DisconnectCovers
<1>17. ASSUME NEW d \in Devices, LoadChanges(d)
       PROVE  CoverInv'
  BY <1>2, <1>17, LoadChangesCovers
<1>18. ASSUME NEW d \in Devices, LateStep(d)
       PROVE  CoverInv'
  BY <1>2, <1>18, LateStepCovers
<1>19. CASE UNCHANGED vars
  BY <1>2, <1>19, StutterCovers DEF vars
<1> QED
  BY <1>5, <1>6, <1>7, <1>8, <1>9, <1>10, <1>11, <1>12, <1>13, <1>14, <1>15, <1>16,
     <1>17, <1>18, <1>19
  DEF Next, UserStep, DeviceStep, ServerStep

LEMMA ForgottenStays ==
  ASSUME TypeOK, [Next]_vars, ~forgot'
  PROVE  ~forgot
<1>1. ASSUME NEW d \in Devices, OnChanged(d) PROVE ~forgot
  BY <1>1 DEF OnChanged
<1>2. ASSUME NEW d \in Devices, OnChangeAck(d) PROVE ~forgot
  BY <1>2 DEF OnChangeAck
<1>3. ASSUME NEW d \in Devices,
             \/ UserStep(d) \/ Login(d) \/ OnWelcome(d) \/ OnLastChanged(d)
             \/ RunUploadNext(d) \/ RunChangeTriggered(d) \/ NotifyChanged(d)
             \/ OnChange(d) \/ OnChangedAck(d) \/ LoadChanges(d) \/ LateStep(d)
             \/ Disconnect(d)
      PROVE  ~forgot
  BY <1>3
  DEF UserStep, Save, Remove, Edit, Login, OnWelcome, OnLastChanged, RunUploadNext,
      RunChangeTriggered, NotifyChanged, OnChange, OnChangedAck, LoadChanges, LateStep, Disconnect,
      storeVars
<1>4. CASE UNCHANGED vars
  BY <1>4 DEF vars
<1> QED
  BY <1>1, <1>2, <1>3, <1>4 DEF Next, DeviceStep, ServerStep

LEMMA OvertakenStays ==
  ASSUME TypeOK, [Next]_vars, ~overtaken'
  PROVE  ~overtaken
<1>1. ASSUME NEW d \in Devices, LateStep(d) PROVE ~overtaken
  BY <1>1 DEF LateStep, LateChange, LateAck
<1>2. ASSUME NEW d \in Devices,
             \/ UserStep(d) \/ DeviceStep(d) \/ LoadChanges(d) \/ NotifyChanged(d)
             \/ OnChange(d) \/ OnChangedAck(d) \/ Disconnect(d)
      PROVE  ~overtaken
  BY <1>2
  DEF UserStep, Save, Remove, Edit, DeviceStep, Login, OnWelcome, OnLastChanged, OnChanged,
      OnChangeAck, RunUploadNext, RunChangeTriggered, LoadChanges, NotifyChanged, OnChange,
      OnChangedAck, Disconnect, dropVars
<1>3. CASE UNCHANGED vars
  BY <1>3 DEF vars
<1> QED
  BY <1>1, <1>2, <1>3 DEF Next, ServerStep

--------------------------------------------------------------------------------
(* Messages of lost connections stay old.                                    *)

\* An id that was given out names the change that it named, or none.
IdsKeep ==
  /\ nextId' >= nextId
  /\ \A s \in Devices : change'[s] = change[s] \/ change'[s].id = 0 \/ change'[s].id = nextId

\* What a device uploads is the data of its row or was on its way before.
UploadsFollow ==
  \A e \in Devices : \A i \in Uploads(e)' :
    \/ \E j \in Uploads(e) : up'[e][i] = up[e][j]
    \/ up'[e][i].version = row[e].version /\ up'[e][i].content = row[e].content

\* Messages of a lost connection were on their way on it.
LateFollows ==
  \A e \in Devices : \A x \in late'[e] :
    \/ x \in late[e]
    \/ Uploads(e)' = {} /\ \E i \in 1..Len(up[e]) : x[2] = up[e][i]

LEMMA LateKept ==
  ASSUME CoverInv, LateIsOld, TypeOK', \A e \in Devices : AsNew(row'[e], row[e]),
         IdsKeep, UploadsFollow, LateFollows
  PROVE  LateIsOld'
<1> SUFFICES ASSUME NEW e \in Devices, NEW x \in late'[e]
             PROVE  /\ x[2].type = "change" =>
                         /\ x[2].version > 0
                         /\ AsNew(row'[e], x[2])
                         /\ \A i \in Uploads(e)' : AsNew(up'[e][i], x[2])
                    /\ x[2].type = "changedAck" =>
                         /\ x[2].id > 0 /\ x[2].id < nextId'
                         /\ \A s \in Devices : change'[s].id = x[2].id
                                                => AsNew(row'[e], change'[s])
  BY DEF LateIsOld
<1>1. x[2] \in UpMessage
  BY DEF TypeOK
<1>2. nextId \in Nat /\ nextId' \in Nat /\ nextId' >= nextId /\ nextId > 0
  BY DEF CoverInv, TypeOK, IdsKeep
<1>3. ASSUME x[2].type = "change"
      PROVE  /\ x[2].version > 0
             /\ AsNew(row'[e], x[2])
             /\ \A i \in Uploads(e)' : AsNew(up'[e][i], x[2])
  <2>1. x[2].version \in Nat
    BY <1>1, <1>3, UpMessages
  <2>2. /\ x[2].version > 0 /\ AsNew(row[e], x[2])
        /\ Uploads(e)' = {} \/ \A i \in Uploads(e) : AsNew(up[e][i], x[2])
    <3>1. CASE x \in late[e]
      BY <1>3, <3>1 DEF LateIsOld
    <3>2. CASE Uploads(e)' = {} /\ \E i \in 1..Len(up[e]) : x[2] = up[e][i]
      <4>1. PICK i \in Uploads(e) : x[2] = up[e][i]
        BY <1>3, <3>2 DEF Uploads
      <4> QED BY <3>2, <4>1 DEF CoverInv, UploadIsCurrent
    <3> QED BY <3>1, <3>2 DEF LateFollows
  <2>3. AsNew(row'[e], x[2])
    BY <2>1, <2>2, RowKeepsUp DEF CoverInv
  <2>4. ASSUME NEW i \in Uploads(e)' PROVE AsNew(up'[e][i], x[2])
    <3>1. CASE \E j \in Uploads(e) : up'[e][i] = up[e][j]
      BY <2>2, <3>1
    <3>2. CASE up'[e][i].version = row[e].version /\ up'[e][i].content = row[e].content
      BY <2>2, <3>2 DEF AsNew
    <3> QED BY <3>1, <3>2 DEF UploadsFollow
  <2> QED BY <2>2, <2>3, <2>4
<1>4. ASSUME x[2].type = "changedAck"
      PROVE  /\ x[2].id > 0 /\ x[2].id < nextId'
             /\ \A s \in Devices : change'[s].id = x[2].id => AsNew(row'[e], change'[s])
  <2>1. x[2].id \in Nat
    BY <1>1, <1>4, UpMessages
  <2>2. /\ x[2].id > 0 /\ x[2].id < nextId
        /\ \A s \in Devices : change[s].id = x[2].id => AsNew(row[e], change[s])
    <3>1. CASE x \in late[e]
      BY <1>4, <3>1 DEF LateIsOld
    <3>2. CASE \E i \in 1..Len(up[e]) : x[2] = up[e][i]
      BY <1>4, <3>2 DEF CoverInv, AckedIsMerged
    <3> QED BY <3>1, <3>2 DEF LateFollows
  <2>3. ASSUME NEW s \in Devices, change'[s].id = x[2].id
        PROVE  AsNew(row'[e], change'[s])
    <3>1. change'[s] = change[s]
      BY <1>2, <2>1, <2>2, <2>3 DEF IdsKeep
    <3>2. change[s].version \in Nat /\ AsNew(row[e], change[s])
      BY <2>2, <2>3, <3>1, VersionTypes DEF CoverInv
    <3> QED BY <3>1, <3>2, RowKeepsUp DEF CoverInv
  <2> QED BY <1>2, <2>1, <2>2, <2>3
<1> QED BY <1>3, <1>4

\* addChange gives out a new id, and a confirmation only removes changes.
LEMMA AddChangeKeepsIds ==
  ASSUME TypeOK, NEW d \in Devices, NEW m, AddChange(d, m)
  PROVE  IdsKeep
  BY DEF AddChange, IdsKeep, NoChange, TypeOK

LEMMA CompleteChangeKeepsIds ==
  ASSUME TypeOK, NEW d \in Devices, NEW id, CompleteChange(d, id), UNCHANGED nextId
  PROVE  IdsKeep
  BY DEF CompleteChange, IdsKeep, NoChange, TypeOK

\* uploadNext sends the row, other messages leave what is uploaded as it is.
LEMMA AppendedFollows ==
  ASSUME TypeOK, NEW d \in Devices, NEW m \in UpMessage,
         up' = [up EXCEPT ![d] = Append(@, m)],
         m.type = "change" => m.version = row[d].version /\ m.content = row[d].content
  PROVE  UploadsFollow
<1>1. /\ up[d] \in Seq(UpMessage) /\ up'[d] = Append(up[d], m)
      /\ \A e \in Devices \ {d} : up'[e] = up[e]
  BY DEF TypeOK
<1>2. /\ Len(up'[d]) = Len(up[d]) + 1 /\ Len(up[d]) \in Nat
      /\ \A i \in 1..Len(up[d]) : up'[d][i] = up[d][i]
      /\ up'[d][Len(up[d]) + 1] = m
  BY <1>1, AppendProperties, LenProperties
<1> SUFFICES ASSUME NEW e \in Devices, NEW i \in Uploads(e)'
             PROVE  \/ \E j \in Uploads(e) : up'[e][i] = up[e][j]
                    \/ up'[e][i].version = row[e].version /\ up'[e][i].content = row[e].content
  BY DEF UploadsFollow
<1>3. i \in 1..Len(up'[e]) /\ up'[e][i].type = "change"
  BY DEF Uploads
<1>4. CASE e # d
  BY <1>1, <1>3, <1>4 DEF Uploads
<1>5. CASE e = d /\ i \in 1..Len(up[d])
  BY <1>2, <1>3, <1>5 DEF Uploads
<1>6. CASE e = d /\ i = Len(up[d]) + 1
  BY <1>2, <1>3, <1>6
<1> QED BY <1>2, <1>3, <1>4, <1>5, <1>6

LEMMA ShrunkFollows ==
  ASSUME TypeOK, NEW d \in Devices, UpShrinks(d)
  PROVE  UploadsFollow
<1>1. PICK k \in {0, 1} : /\ Len(up'[d]) = Len(up[d]) - k /\ Len(up[d]) \in Nat
                          /\ \A i \in 1..Len(up'[d]) : up'[d][i] = up[d][i + k]
  BY LenProperties DEF UpShrinks, TypeOK
<1>2. \A i \in 1..Len(up'[d]) : i + k \in 1..Len(up[d])
  BY <1>1
<1>3. \A e \in Devices \ {d} : up'[e] = up[e]
  BY DEF UpShrinks
<1> QED BY <1>1, <1>2, <1>3 DEF UploadsFollow, Uploads

LEMMA TakenFollows ==
  ASSUME TypeOK, NEW d \in Devices, up[d] # << >>, up' = [up EXCEPT ![d] = Tail(@)]
  PROVE  UploadsFollow
<1>1. up[d] \in Seq(UpMessage)
  BY DEF TypeOK
<1>2. /\ Len(Tail(up[d])) = Len(up[d]) - 1
      /\ \A i \in 1..Len(Tail(up[d])) : Tail(up[d])[i] = up[d][i + 1]
  BY <1>1, HeadTailProperties
<1>3. up'[d] = Tail(up[d]) /\ \A e \in Devices \ {d} : up'[e] = up[e]
  BY DEF TypeOK
<1>4. UpShrinks(d)
  BY <1>2, <1>3 DEF UpShrinks
<1> QED BY <1>4, ShrunkFollows

LEMMA UploadNextFollows ==
  ASSUME TypeInv, NEW d \in Devices, UploadNext(d)
  PROVE  UploadsFollow
<1> DEFINE m == [type |-> "change", version |-> row[d].version, content |-> row[d].content]
<1>1. (row[d].changed /\ up' = [up EXCEPT ![d] = Append(@, m)]) \/ up' = up
  BY DEF UploadNext, TypeInv, TypeOK
<1>2. CASE up' = up
  BY <1>2 DEF UploadsFollow, Uploads
<1>3. CASE row[d].changed /\ up' = [up EXCEPT ![d] = Append(@, m)]
  <2>1. row[d] \in Row /\ WellFormed(row[d])
    BY DEF TypeInv, TypeOK, RowsAreWellFormed
  <2>2. m \in UpMessage
    BY <1>3, <2>1, UpMessages DEF WellFormed, Row, Payload, NoExists
  <2>3. m.version = row[d].version /\ m.content = row[d].content
    OBVIOUS
  <2> HIDE DEF m
  <2> QED BY <1>3, <2>2, <2>3, AppendedFollows DEF TypeInv
<1> QED BY <1>1, <1>2, <1>3

\* Messages of a lost connection are never news: its confirmations are about
\* downloads that the device has merged, and its changes are not newer than the
\* device's row or than what the device uploads on its next connection.
LEMMA LateStays ==
  ASSUME CoverInv, LateIsOld, [Next]_vars, ~forgot'
  PROVE  LateIsOld'
<1>1. TypeInv /\ TypeOK
  BY DEF CoverInv, TypeInv
<1>2. TypeOK'
  BY <1>1, TypeStep DEF TypeInv
<1>3. \A e \in Devices : AsNew(row'[e], row[e])
  BY <1>1, RowsGrow
<1>4. ASSUME UNCHANGED <<change, nextId>> PROVE IdsKeep
  BY <1>1, <1>4 DEF IdsKeep, TypeOK
<1>5. ASSUME UNCHANGED up PROVE UploadsFollow
  BY <1>5 DEF UploadsFollow, Uploads
<1>6. ASSUME UNCHANGED late PROVE LateFollows
  BY <1>6 DEF LateFollows
<1>7. ASSUME NEW d \in Devices,
             UserStep(d) \/ Login(d) \/ OnChangeAck(d) \/ LoadChanges(d) \/ NotifyChanged(d)
      PROVE  LateIsOld'
  <2>1. UNCHANGED <<change, nextId, up, late>>
    BY <1>7 DEF UserStep, Save, Remove, Edit, Login, OnChangeAck, LoadChanges, NotifyChanged,
                tableVars, dropVars
  <2> QED BY <1>2, <1>3, <1>4, <1>5, <1>6, <2>1, LateKept
<1>8. ASSUME NEW d \in Devices,
             OnWelcome(d) \/ OnLastChanged(d) \/ RunUploadNext(d) \/ RunChangeTriggered(d)
      PROVE  LateIsOld'
  <2>1. UNCHANGED <<change, nextId, late>> /\ (UploadNext(d) \/ UNCHANGED up)
    BY <1>8 DEF OnWelcome, OnLastChanged, OnReady, RunUploadNext, RunChangeTriggered,
                tableVars, dropVars
  <2>2. UploadsFollow
    BY <1>1, <1>5, <2>1, UploadNextFollows
  <2> QED BY <1>2, <1>3, <1>4, <1>6, <2>1, <2>2, LateKept
<1>9. ASSUME NEW d \in Devices, OnChanged(d) PROVE LateIsOld'
  <2> DEFINE ack == [type |-> "changedAck", id |-> Head(down[d]).id]
  <2>1. UNCHANGED <<change, nextId, late>> /\ up' = [up EXCEPT ![d] = Append(@, ack)]
    BY <1>9 DEF OnChanged, tableVars, dropVars
  <2>2. ack \in UpMessage /\ ack.type # "change"
    BY <1>1, <1>9, HeadTailProperties, DownMessages, UpMessages
    DEF OnChanged, Receive, TypeOK
  <2> HIDE DEF ack
  <2>3. UploadsFollow
    BY <1>1, <2>1, <2>2, AppendedFollows
  <2> QED BY <1>2, <1>3, <1>4, <1>6, <2>1, <2>3, LateKept
<1>10. ASSUME NEW d \in Devices, OnChange(d) PROVE LateIsOld'
  <2>1. /\ up[d] # << >> /\ up' = [up EXCEPT ![d] = Tail(@)] /\ AddChange(d, Head(up[d]))
        /\ UNCHANGED late
    BY <1>10 DEF OnChange, dropVars
  <2>2. IdsKeep /\ UploadsFollow
    BY <1>1, <2>1, AddChangeKeepsIds, TakenFollows
  <2> QED BY <1>2, <1>3, <1>6, <2>1, <2>2, LateKept
<1>11. ASSUME NEW d \in Devices, OnChangedAck(d) PROVE LateIsOld'
  <2>1. /\ up[d] # << >> /\ up' = [up EXCEPT ![d] = Tail(@)]
        /\ CompleteChange(d, Head(up[d]).id) /\ UNCHANGED <<late, nextId>>
    BY <1>11 DEF OnChangedAck, dropVars
  <2>2. IdsKeep /\ UploadsFollow
    BY <1>1, <2>1, CompleteChangeKeepsIds, TakenFollows
  <2> QED BY <1>2, <1>3, <1>6, <2>1, <2>2, LateKept
<1>12. ASSUME NEW d \in Devices, LateStep(d) PROVE LateIsOld'
  <2>1. PICK x \in late[d] : /\ late' = [late EXCEPT ![d] = @ \ {x}]
                             /\ LateChange(d, x[2]) \/ LateAck(d, x[2])
    BY <1>12 DEF LateStep
  <2>2. UploadsFollow /\ LateFollows
    BY <1>1, <1>5, <1>12, <2>1 DEF LateStep, LateFollows, TypeOK
  <2>3. IdsKeep
    BY <1>1, <2>1, AddChangeKeepsIds, CompleteChangeKeepsIds DEF LateChange, LateAck
  <2> QED BY <1>2, <1>3, <2>2, <2>3, LateKept
<1>13. ASSUME NEW d \in Devices, Disconnect(d) PROVE LateIsOld'
  <2>1. /\ UNCHANGED <<change, nextId>> /\ up' = [up EXCEPT ![d] = << >>]
        /\ \E n \in 0..Len(up[d]) :
             late' = [late EXCEPT ![d] = @ \cup {<<drops', up[d][i]>> : i \in 1..n}]
    BY <1>13 DEF Disconnect, tableVars
  <2>2. Uploads(d)' = {} /\ \A e \in Devices \ {d} : up'[e] = up[e]
    BY <1>1, <2>1, EmptySeq DEF Uploads, TypeOK
  <2>3. UploadsFollow
    BY <2>2 DEF UploadsFollow, Uploads
  <2>4. PICK n \in 0..Len(up[d]) :
          late' = [late EXCEPT ![d] = @ \cup {<<drops', up[d][i]>> : i \in 1..n}]
    BY <2>1
  <2>5. Len(up[d]) \in Nat
    BY <1>1, LenProperties DEF TypeOK
  <2>6. LateFollows
    BY <1>1, <2>2, <2>4, <2>5 DEF LateFollows, TypeOK
  <2> QED BY <1>2, <1>3, <1>4, <2>1, <2>3, <2>6, LateKept
<1>14. CASE UNCHANGED vars
  BY <1>2, <1>3, <1>4, <1>5, <1>6, <1>14, LateKept DEF vars
<1> QED
  BY <1>7, <1>8, <1>9, <1>10, <1>11, <1>12, <1>13, <1>14 DEF Next, DeviceStep, ServerStep

\* The inductive invariant of the exchange holds until something is forgotten, or a
\* change of a lost connection replaces a newer one.
THEOREM CoverInvariance == Spec => [](~forgot /\ ~overtaken => CoverInv /\ LateIsOld)
<1> DEFINE Inv == TypeInv /\ (~forgot /\ ~overtaken => CoverInv /\ LateIsOld)
<1>1. Init => Inv
  <2>1. Init => LateIsOld
    BY DEF Init, LateIsOld
  <2> QED BY <2>1, CoverInit, TypeInit
<1>2. Inv /\ [Next]_vars => Inv'
  <2> SUFFICES ASSUME Inv, [Next]_vars PROVE Inv'
    OBVIOUS
  <2>1. TypeInv'
    BY TypeStep
  <2>2. ASSUME ~forgot', ~overtaken' PROVE CoverInv' /\ LateIsOld'
    BY <2>2, ForgottenStays, OvertakenStays, CoverStep, LateStays DEF TypeInv
  <2> QED
    BY <2>1, <2>2
<1>3. Inv => (~forgot /\ ~overtaken => CoverInv /\ LateIsOld)
  OBVIOUS
<1> HIDE DEF Inv
<1> QED
  BY <1>1, <1>2, <1>3, PTL DEF Spec

\* When everything is synchronized, all devices hold the same version of the
\* dataset with the same content, or none has ever had it.
LEMMA SyncedDevicesAgree ==
  ASSUME CoverInv, AllSynced
  PROVE  \A d, e \in Devices : /\ row[d].version = row[e].version
                               /\ row[d].content = row[e].content
<1> SUFFICES ASSUME NEW d \in Devices, NEW e \in Devices
             PROVE  row[d].version = row[e].version /\ row[d].content = row[e].content
  OBVIOUS
<1>1. row[d].version \in Nat /\ row[e].version \in Nat
  BY VersionTypes DEF CoverInv
<1>2. AsNew(row[d], row[e]) /\ AsNew(row[e], row[d])
  BY DEF CoverInv, SyncedCovered, Covered, AllSynced
<1>3. CASE row[d].version = 0 \/ row[e].version = 0
  BY <1>1, <1>2, <1>3 DEF AsNew, CoverInv, RowsHaveVersions, NoExists
<1>4. CASE row[d].version # 0 /\ row[e].version # 0
  BY <1>1, <1>2, <1>4 DEF AsNew
<1> QED BY <1>3, <1>4

\* The promise of the whole exchange in every configuration.  As long as no device
\* has forgotten a version and no change of a lost connection has replaced a newer one
\* on the server, no data that counts as synchronized is lost before every device has
\* it or newer data; and once no device has anything to upload and the server nothing
\* to deliver, all devices hold the same data, whichever changes, deletions and
\* conflicts were merged in which order.
THEOREM RememberedIsAgreed == Spec => []AgreementWhileRemembered
<1>1. CoverInv => SyncedCovered /\ (AllSynced => Agreement)
  BY SyncedDevicesAgree DEF Agreement, CoverInv
<1>2. (~forgot /\ ~overtaken => CoverInv /\ LateIsOld) => AgreementWhileRemembered
  BY <1>1 DEF AgreementWhileRemembered, SyncedIsCovered, Agreement
<1> QED
  BY <1>2, CoverInvariance, PTL

\* While deletions persist nothing is ever forgotten.  Unless a change of a lost
\* connection has replaced a newer one, no data that counts as synchronized is lost
\* before every device has it or newer data, however uploads, merges,
\* acknowledgements, lost connections and their unfinished work interleave.
THEOREM SyncedStaysCovered ==
  ASSUME PersistDeleted = TRUE
  PROVE  Spec => []SyncedIsCovered
<1>1. AgreementWhileRemembered /\ ~forgot => SyncedIsCovered
  BY DEF AgreementWhileRemembered
<1> QED
  BY <1>1, RememberedIsAgreed, NothingForgotten, PTL

\* And with the same exception all devices agree when everything is synchronized.
THEOREM DevicesAgree ==
  ASSUME PersistDeleted = TRUE
  PROVE  Spec => []Agreement
<1>1. AgreementWhileRemembered /\ ~forgot => Agreement
  BY DEF AgreementWhileRemembered
<1> QED
  BY <1>1, RememberedIsAgreed, NothingForgotten, PTL
================================================================================
