----------------------------- MODULE MigrationProofs ----------------------------
(***************************************************************************)
(* Proofs about ItemModel and Migration: the rows of the item model are    *)
(* those of the store, and no migration loses what the old store held.     *)
(***************************************************************************)
EXTENDS Migration, FiniteSetTheorems, TLAPS

--------------------------------------------------------------------------------
(* The inductive invariants.                                                 *)

\* An announcement tells of a dataset; those that are made or on their way.
Tells(n, k) == n = ResetNews \/ n.key = k
Awaited(k) ==
  \/ \E w \in Writers : Tells(posting[w], k)
  \/ \E i \in DOMAIN news : Tells(news[i], k)

Different(s) == \A i, j \in 1..Len(s) : s[i] = s[j] => i = j
First(s, n) == {s[i] : i \in 1..n}

\* The keys of the model are different and of its type, and what has been fetched
\* is a beginning of the list.
GoodModel(m) ==
  /\ m \in [type : Types \cup {NoType}, keyList : Seq(Keys), dataHash : {m.dataHash},
            stale : SUBSET Keys, blind : BOOLEAN]
  /\ Different(m.keyList)
  /\ \A i \in 1..Len(m.keyList) : TypeOf[m.keyList[i]] = m.type
  /\ \E n \in 0..Len(m.keyList) : DOMAIN m.dataHash = First(m.keyList, n)
  /\ m.dataHash = [k \in DOMAIN m.dataHash |-> m.dataHash[k]]
  /\ m.stale \subseteq DOMAIN m.dataHash

\* The model lists what exists.
ListIsKnown ==
  ~model.blind =>
    \A k \in Keys : TypeOf[k] = model.type /\ k \notin misled /\ ~Awaited(k) =>
      (k \in ToSet(model.keyList) <=> Exists(row[k]))

\* The model shows what is stored.
Stored(k, data) == Exists(row[k]) /\ data = row[k].content

DataIsKnown ==
  \A k \in DOMAIN model.dataHash : k \notin model.stale /\ ~Awaited(k) =>
    Stored(k, model.dataHash[k])

StoreOK ==
  /\ row \in [Keys -> Row] /\ torn \subseteq Keys
  /\ posting \in [Writers -> News \cup {NoNews}] /\ news \in Seq(News)
  /\ misled \subseteq Keys

ModelInv ==
  /\ StoreOK
  /\ GoodModel(model)
  /\ ListIsKnown
  /\ DataIsKnown

\* What an entry holds has been in the current store, if it has not been discarded.
Had(k) == ~discarded /\ k \in Readable /\ Changed[k] # 2 => k \in taken

JobsInv ==
  /\ old \in [there : BOOLEAN, db : BOOLEAN, files : SUBSET Readable]
  /\ lock \in Jobs \cup {Nobody} /\ job \in [Jobs -> Job] /\ taken \subseteq Keys
  /\ \A k \in Keys : ~NoExists(row[k]) => k \in taken
  /\ discarded \in BOOLEAN
  /\ \A j \in Jobs : At(j, "idle") => job[j].next = 1
  /\ \A j \in Jobs : At(j, "entries") => lock = j
  /\ \A j \in Jobs : At(j, "entries") =>
       \A i \in 1..Len(Entries) : i < job[j].next => Had(Entries[i])
  /\ \A j \in Jobs : At(j, "cleanup") /\ "data" \in job[j].flags =>
       \A i \in 1..Len(Entries) : Had(Entries[i])
  /\ NothingIsLost

--------------------------------------------------------------------------------
(* Lists of keys.                                                            *)

LEMMA Members ==
  ASSUME NEW s \in Seq(Keys), NEW k
  PROVE  k \in ToSet(s) <=> \E i \in 1..Len(s) : s[i] = k
<1>1. DOMAIN s = 1..Len(s)
  OBVIOUS
<1> QED
  BY <1>1 DEF ToSet

\* A beginning of a list has as many keys as places.
LEMMA Counted ==
  ASSUME NEW s \in Seq(Keys), Different(s), NEW n \in 0..Len(s)
  PROVE  IsFiniteSet(First(s, n)) /\ Cardinality(First(s, n)) = n
<1> DEFINE f == [i \in 1..n |-> s[i]]
<1>1. f \in Surjection(1..n, First(s, n))
  <2>1. \A i \in 1..n : s[i] \in First(s, n)
    BY DEF First
  <2> QED
    BY <2>1 DEF Surjection, First
<1>2. f \in Injection(1..n, First(s, n))
  <2>1. f \in [1..n -> First(s, n)]
    BY <1>1 DEF Surjection
  <2>2. \A i, j \in 1..n : f[i] = f[j] => i = j
    BY DEF Different
  <2> QED
    BY <2>1, <2>2 DEF Injection, IsInjective
<1> HIDE DEF f
<1>3. IsFiniteSet(1..n) /\ Cardinality(1..n) = n
  BY FS_Interval
<1>4. ExistsBijection(1..n, First(s, n))
  BY <1>1, <1>2 DEF ExistsBijection, Bijection
<1> QED
  BY <1>1, <1>3, <1>4, FS_Surjection, FS_CountingElements

\* All sequences of a set list it completely.
LEMMA ListsAll ==
  ASSUME NEW S \in SUBSET Keys, NEW s \in SetToSeqs(S)
  PROVE  s \in Seq(Keys) /\ Different(s) /\ ToSet(s) = S
<1>1. IsFiniteSet(S) /\ Cardinality(S) \in Nat
  BY ItemModelAssumption, FS_Subset, FS_CardinalityType
<1> DEFINE D == 1..Cardinality(S)
<1>2. s \in [D -> S] /\ \A i, j \in D : i # j => s[i] # s[j]
  BY DEF SetToSeqs
<1>3. s \in Injection(D, S)
  BY <1>2 DEF Injection, IsInjective
<1>4. Cardinality(D) = Cardinality(S)
  BY <1>1, FS_Interval
<1>5. s \in Surjection(D, S)
  BY <1>1, <1>3, <1>4, FS_Injection
<1>6. s \in Seq(Keys) /\ Len(s) = Cardinality(S)
  BY <1>1, <1>2
<1>7. \A k \in S : \E i \in D : s[i] = k
  BY <1>5 DEF Surjection
<1> QED
  BY <1>2, <1>6, <1>7 DEF Different, ToSet

\* Removing a key leaves the other keys, and the beginning of the list.
LEMMA Removed ==
  ASSUME NEW s \in Seq(Keys), Different(s), NEW k \in Keys
  PROVE  LET t == RemoveFirst(s, k) IN
         /\ t \in Seq(Keys) /\ Different(t) /\ ToSet(t) = ToSet(s) \ {k}
         /\ \A n \in 0..Len(s) :
              /\ k \notin First(s, n) => n <= Len(t) /\ First(t, n) = First(s, n)
              /\ k \in First(s, n) => n - 1 \in 0..Len(t) /\ First(t, n - 1) = First(s, n) \ {k}
<1> DEFINE t == RemoveFirst(s, k)
<1>1. CASE \A i \in 1..Len(s) : s[i] # k
  <2>1. t = s
    BY <1>1 DEF RemoveFirst
  <2>2. \A n \in 0..Len(s) : k \notin First(s, n)
    BY <1>1 DEF First
  <2>3. k \notin ToSet(s)
    BY <1>1 DEF ToSet
  <2> QED
    BY <2>1, <2>2, <2>3
<1>2. ASSUME NEW p \in 1..Len(s), s[p] = k
      PROVE  /\ t \in Seq(Keys) /\ Different(t) /\ ToSet(t) = ToSet(s) \ {k}
             /\ \A n \in 0..Len(s) :
                  /\ k \notin First(s, n) => n <= Len(t) /\ First(t, n) = First(s, n)
                  /\ k \in First(s, n) => n - 1 \in 0..Len(t) /\ First(t, n - 1) = First(s, n) \ {k}
  <2>1. {i \in 1..Len(s) : s[i] = k} = {p}
    BY <1>2 DEF Different
  <2>2. Min({p}) = p
    BY DEF Min
  <2>3. SelectInSeq(s, LAMBDA v : v = k) = p
    BY <2>1, <2>2 DEF SelectInSeq
  <2>4. t = RemoveAt(s, p)
    BY <1>2, <2>3 DEF RemoveFirst
  <2>5. /\ t \in Seq(Keys) /\ Len(t) = Len(s) - 1
        /\ \A i \in 1..Len(s) - 1 : t[i] = IF i < p THEN s[i] ELSE s[i + 1]
    <3> DEFINE a == SubSeq(s, 1, p - 1)
               b == SubSeq(s, p + 1, Len(s))
    <3>1. a \in Seq(Keys) /\ Len(a) = p - 1 /\ \A i \in 1..p - 1 : a[i] = s[i]
      OBVIOUS
    <3>2. /\ b \in Seq(Keys) /\ Len(b) = Len(s) - p
          /\ \A i \in 1..Len(s) - p : b[i] = s[p + i]
      OBVIOUS
    <3>3. t = a \o b
      BY <2>4 DEF RemoveAt
    <3> HIDE DEF a, b, t
    <3>4. /\ t \in Seq(Keys) /\ Len(t) = Len(s) - 1
          /\ \A i \in 1..Len(s) - 1 : t[i] = IF i <= p - 1 THEN a[i] ELSE b[i - (p - 1)]
      BY <3>1, <3>2, <3>3
    <3>5. \A i \in 1..Len(s) - 1 : i >= p => i - (p - 1) \in 1..Len(s) - p /\ p + (i - (p - 1)) = i + 1
      OBVIOUS
    <3> QED
      BY <3>1, <3>2, <3>4, <3>5
  <2> HIDE DEF t
  <2>6. Different(t)
    BY <2>5 DEF Different
  <2>7. ASSUME NEW n \in 0..Len(s)
        PROVE  k \in First(s, n) <=> p <= n
    BY <1>2, <2>7 DEF First, Different
  <2>8. ASSUME NEW n \in 0..Len(s), p > n
        PROVE  n <= Len(t) /\ First(t, n) = First(s, n)
    BY <2>5, <2>8 DEF First
  <2>9. ASSUME NEW n \in 0..Len(s), p <= n
        PROVE  n - 1 \in 0..Len(t) /\ First(t, n - 1) = First(s, n) \ {k}
    <3>1. \A x \in First(t, n - 1) : x \in First(s, n) /\ x # k
      <4> SUFFICES ASSUME NEW i \in 1..n - 1 PROVE t[i] \in First(s, n) /\ t[i] # k
        BY DEF First
      <4>1. CASE i < p
        BY <4>1, <1>2, <2>5, <2>9 DEF First, Different
      <4>2. CASE i >= p
        <5>1. t[i] = s[i + 1] /\ i + 1 \in 1..n /\ i + 1 # p
          BY <4>2, <2>5, <2>9
        <5> QED
          BY <5>1, <1>2 DEF First, Different
      <4> QED
        BY <4>1, <4>2
    <3>2. \A x \in First(s, n) : x # k => x \in First(t, n - 1)
      <4> SUFFICES ASSUME NEW i \in 1..n, s[i] # k PROVE s[i] \in First(t, n - 1)
        BY DEF First
      <4>1. CASE i < p
        BY <4>1, <2>5, <2>9 DEF First
      <4>2. CASE i > p
        <5>1. s[i] = t[i - 1] /\ i - 1 \in 1..n - 1
          BY <4>2, <2>5, <2>9
        <5> QED
          BY <5>1 DEF First
      <4> QED
        BY <4>1, <4>2, <1>2
    <3> QED
      BY <3>1, <3>2, <2>5, <2>9
  <2>10. ToSet(s) = First(s, Len(s)) /\ ToSet(t) = First(t, Len(s) - 1)
    BY <2>5 DEF ToSet, First
  <2>11. p <= Len(s) /\ Len(s) \in 0..Len(s)
    OBVIOUS
  <2>12. ToSet(t) = ToSet(s) \ {k}
    BY <2>9, <2>10, <2>11
  <2> QED
    BY <2>5, <2>6, <2>7, <2>8, <2>9, <2>12
<1> QED
  BY <1>1, <1>2

--------------------------------------------------------------------------------
(* Operations of the model.                                                  *)

\* The datasets that were fetched are a beginning of the list.
LEMMA FetchedFirst ==
  ASSUME NEW m, GoodModel(m)
  PROVE  /\ Different(m.keyList)
         /\ rowCount(m) \in 0..Len(m.keyList)
         /\ DOMAIN m.dataHash = First(m.keyList, rowCount(m))
         /\ activeKeys(m) = DOMAIN m.dataHash
<1>1. m.keyList \in Seq(Keys) /\ Different(m.keyList)
  BY DEF GoodModel
<1>2. PICK n \in 0..Len(m.keyList) : DOMAIN m.dataHash = First(m.keyList, n)
  BY DEF GoodModel
<1>3. rowCount(m) = n
  BY <1>1, <1>2, Counted DEF rowCount
<1>4. ToSet(SubSeq(m.keyList, 1, n)) = First(m.keyList, n)
  <2>1. /\ Len(SubSeq(m.keyList, 1, n)) = n
        /\ \A i \in 1..n : SubSeq(m.keyList, 1, n)[i] = m.keyList[i]
        /\ DOMAIN SubSeq(m.keyList, 1, n) = 1..n
    BY <1>1
  <2> QED
    BY <2>1 DEF ToSet, First
<1> QED
  BY <1>1, <1>2, <1>3, <1>4 DEF activeKeys

\* A model with other data for the first n of its keys.
LEMMA WithData ==
  ASSUME NEW m, GoodModel(m), NEW h, NEW n \in 0..Len(m.keyList),
         h = [k \in First(m.keyList, n) |-> h[k]], m.stale \subseteq First(m.keyList, n)
  PROVE  GoodModel([m EXCEPT !.dataHash = h])
<1> DEFINE r == [m EXCEPT !.dataHash = h]
<1>1. /\ r.keyList = m.keyList /\ r.type = m.type /\ r.stale = m.stale /\ r.dataHash = h
      /\ r \in [type : Types \cup {NoType}, keyList : Seq(Keys), dataHash : {h},
                stale : SUBSET Keys, blind : BOOLEAN]
  BY DEF GoodModel
<1>2. DOMAIN h = First(m.keyList, n)
  OBVIOUS
<1> HIDE DEF r
<1>3. GoodModel(r)
  BY <1>1, <1>2 DEF GoodModel
<1> QED
  BY <1>3 DEF r

\* The next batch: it continues the beginning.
LEMMA NextBatch ==
  ASSUME NEW m, GoodModel(m)
  PROVE  \E n \in rowCount(m)..Len(m.keyList) :
           First(m.keyList, n) = DOMAIN m.dataHash \cup Batch(m)
<1> DEFINE a == rowCount(m) + FetchSize
           b == Len(m.keyList)
           n == Min({a, b})
<1>1. rowCount(m) \in Nat /\ rowCount(m) <= b /\ b \in Nat
  BY FetchedFirst DEF GoodModel
<1>2. a \in Nat /\ a >= rowCount(m)
  BY <1>1, ItemModelAssumption
<1> HIDE DEF a, b
<1>3. n \in {a, b} /\ n <= a /\ n <= b
  <2>1. \E x \in {a, b} : \A y \in {a, b} : x =< y
    BY <1>1, <1>2
  <2> QED
    BY <2>1 DEF Min
<1>4. n \in rowCount(m)..b /\ n \in Nat
  BY <1>1, <1>2, <1>3
<1>5. Batch(m) = {m.keyList[i] : i \in rowCount(m) + 1 .. n}
  BY DEF Batch, a, b
<1> HIDE DEF n
<1>6. First(m.keyList, n) = First(m.keyList, rowCount(m)) \cup Batch(m)
  <2>1. \A i \in 1..n : i \in 1..rowCount(m) \/ i \in rowCount(m) + 1 .. n
    BY <1>1, <1>4
  <2>2. \A i \in 1..rowCount(m) : i \in 1..n
    BY <1>1, <1>4
  <2>3. \A i \in rowCount(m) + 1 .. n : i \in 1..n
    BY <1>1, <1>4
  <2> QED
    BY <1>5, <2>1, <2>2, <2>3 DEF First
<1> QED
  BY <1>4, <1>6, FetchedFirst DEF b

LEMMA Fetches ==
  ASSUME NEW m, GoodModel(m)
  PROVE  LET r == fetchMore(m) IN
         /\ GoodModel(r)
         /\ r.keyList = m.keyList /\ r.type = m.type /\ r.blind = m.blind /\ r.stale = m.stale
         /\ \A k \in DOMAIN r.dataHash :
              \/ k \in DOMAIN m.dataHash /\ r.dataHash[k] = m.dataHash[k]
              \/ Stored(k, r.dataHash[k])
<1> DEFINE r == fetchMore(m)
           h == Loaded(m.dataHash, Batch(m))
<1>1. \/ r = m
      \/ r = [m EXCEPT !.dataHash = h] /\ \A k \in Batch(m) : Loadable(k)
  <2>1. CASE \A k \in Batch(m) : Loadable(k)
    BY <2>1 DEF fetchMore
  <2>2. CASE ~\A k \in Batch(m) : Loadable(k)
    BY <2>2 DEF fetchMore
  <2> QED
    BY <2>1, <2>2
<1>2. CASE r = m
  BY <1>2
<1>3. CASE r = [m EXCEPT !.dataHash = h] /\ \A k \in Batch(m) : Loadable(k)
  <2>1. /\ r.keyList = m.keyList /\ r.type = m.type /\ r.blind = m.blind /\ r.stale = m.stale
        /\ r.dataHash = h
    BY <1>3 DEF GoodModel
  <2>2. \A k \in DOMAIN h :
          \/ k \in DOMAIN m.dataHash /\ h[k] = m.dataHash[k]
          \/ Stored(k, h[k])
    BY <1>3 DEF Stored, Loadable, Loaded
  <2>3. PICK n \in rowCount(m)..Len(m.keyList) :
          First(m.keyList, n) = DOMAIN m.dataHash \cup Batch(m)
    BY NextBatch
  <2>4. n \in 0..Len(m.keyList)
    BY FetchedFirst
  <2>5. h = [k \in First(m.keyList, n) |-> h[k]]
    BY <2>3 DEF Loaded
  <2>6. m.stale \subseteq First(m.keyList, n)
    BY <2>3 DEF GoodModel
  <2> HIDE DEF h
  <2>7. GoodModel([m EXCEPT !.dataHash = h])
    BY <2>4, <2>5, <2>6, WithData
  <2> QED
    BY <1>3, <2>1, <2>2, <2>7
<1> QED
  BY <1>1, <1>2, <1>3

\* What an operation about dataset k leaves: every row shows what is stored,
\* except one that could not be loaded, and one that was not touched.
Shows(m, r, k) ==
  \A x \in DOMAIN r.dataHash :
    \/ x \in r.stale
    \/ Stored(x, r.dataHash[x])
    \/ x # k /\ x \in DOMAIN m.dataHash /\ x \notin m.stale /\ r.dataHash[x] = m.dataHash[x]

LEMMA Drops ==
  ASSUME NEW m, GoodModel(m), NEW k \in Keys
  PROVE  LET r == Drop(m, k) IN
         /\ GoodModel(r) /\ r.type = m.type /\ r.blind = m.blind
         /\ ToSet(r.keyList) = ToSet(m.keyList) \ {k}
         /\ Shows(m, r, k)
<1> DEFINE r == Drop(m, k)
           t == RemoveFirst(m.keyList, k)
           h == IF k \in activeKeys(m) THEN Restrict(m.dataHash, DOMAIN m.dataHash \ {k}) ELSE m.dataHash
           n == rowCount(m)
<1>1. /\ m.keyList \in Seq(Keys) /\ Different(m.keyList) /\ n \in 0..Len(m.keyList)
      /\ DOMAIN m.dataHash = First(m.keyList, n) /\ activeKeys(m) = DOMAIN m.dataHash
  BY FetchedFirst DEF GoodModel
<1>2. /\ r.type = m.type /\ r.blind = m.blind /\ r.keyList = t /\ r.dataHash = h
      /\ r.stale = m.stale \ {k}
  BY DEF Drop, GoodModel
<1>3. /\ t \in Seq(Keys) /\ Different(t) /\ ToSet(t) = ToSet(m.keyList) \ {k}
      /\ k \notin First(m.keyList, n) => n <= Len(t) /\ First(t, n) = First(m.keyList, n)
      /\ k \in First(m.keyList, n) => n - 1 \in 0..Len(t) /\ First(t, n - 1) = First(m.keyList, n) \ {k}
  BY <1>1, Removed
<1>4. /\ DOMAIN h = DOMAIN m.dataHash \ {k}
      /\ h = [x \in DOMAIN h |-> h[x]]
      /\ \A x \in DOMAIN h : h[x] = m.dataHash[x]
  BY <1>1 DEF Restrict, GoodModel
<1>5. r \in [type : Types \cup {NoType}, keyList : Seq(Keys), dataHash : {h},
             stale : SUBSET Keys, blind : BOOLEAN]
  BY <1>3 DEF Drop, GoodModel
<1> HIDE DEF r, t, h
<1>6. \E i \in 0..Len(t) : DOMAIN h = First(t, i)
  BY <1>1, <1>3, <1>4
<1>7. \A i \in 1..Len(t) : TypeOf[t[i]] = m.type
  <2>1. \A i \in 1..Len(t) : t[i] \in ToSet(m.keyList)
    BY <1>3, Members
  <2>2. \A k2 \in ToSet(m.keyList) : TypeOf[k2] = m.type
    BY <1>1, Members DEF GoodModel
  <2> QED
    BY <2>1, <2>2
<1>8. GoodModel(r)
  BY <1>2, <1>3, <1>4, <1>5, <1>6, <1>7 DEF GoodModel
<1>9. Shows(m, r, k)
  BY <1>2, <1>4 DEF Shows
<1> QED
  BY <1>2, <1>3, <1>8, <1>9 DEF r

\* The row of a dataset is set to some data.
Holding(m, r, k, data, S) == r = [Hold(m, k, data) EXCEPT !.stale = S]

LEMMA Holds ==
  ASSUME NEW m, GoodModel(m), NEW k \in DOMAIN m.dataHash, NEW data, NEW S \in SUBSET DOMAIN m.dataHash,
         NEW r, Holding(m, r, k, data, S)
  PROVE  /\ GoodModel(r) /\ r.type = m.type /\ r.blind = m.blind /\ r.keyList = m.keyList
         /\ r.stale = S /\ DOMAIN r.dataHash = DOMAIN m.dataHash
         /\ r.dataHash[k] = data
         /\ \A x \in DOMAIN m.dataHash : x # k => r.dataHash[x] = m.dataHash[x]
<1> DEFINE h == [x \in DOMAIN m.dataHash |-> IF x = k THEN data ELSE m.dataHash[x]]
<1>0. DOMAIN m.dataHash \cup {k} = DOMAIN m.dataHash
  OBVIOUS
<1>1. Hold(m, k, data) = [m EXCEPT !.dataHash = h]
  BY <1>0 DEF Hold
<1>2. DOMAIN m.dataHash \subseteq Keys
  BY FetchedFirst DEF GoodModel, First
<1>3. DOMAIN h = DOMAIN m.dataHash /\ h = [x \in DOMAIN h |-> h[x]]
  OBVIOUS
<1>4. h[k] = data /\ \A x \in DOMAIN m.dataHash : x # k => h[x] = m.dataHash[x]
  OBVIOUS
<1> HIDE DEF h
<1>5. /\ r.type = m.type /\ r.blind = m.blind /\ r.keyList = m.keyList /\ r.stale = S
      /\ r.dataHash = h
      /\ r \in [type : Types \cup {NoType}, keyList : Seq(Keys), dataHash : {h},
                stale : SUBSET Keys, blind : BOOLEAN]
  BY <1>1, <1>2 DEF GoodModel, Holding
<1>6. GoodModel(r)
  BY <1>3, <1>5 DEF GoodModel
<1> QED
  BY <1>3, <1>4, <1>5, <1>6

LEMMA Refreshes ==
  ASSUME NEW m, GoodModel(m), NEW k \in Keys
  PROVE  LET r == Refresh(m, k) IN
         /\ GoodModel(r) /\ r.type = m.type /\ r.blind = m.blind /\ r.keyList = m.keyList
         /\ Shows(m, r, k)
<1> DEFINE r == Refresh(m, k)
<1>1. activeKeys(m) = DOMAIN m.dataHash /\ m.stale \subseteq DOMAIN m.dataHash
  BY FetchedFirst DEF GoodModel
<1>2. CASE k \notin activeKeys(m)
  BY <1>1, <1>2 DEF Refresh, Shows
<1>3. CASE k \in activeKeys(m) /\ Loadable(k)
  <2> DEFINE S == m.stale \ {k}
  <2>0. (Hold(m, k, row[k].content)).stale = m.stale
    BY DEF Hold, GoodModel
  <2>1. r = [Hold(m, k, row[k].content) EXCEPT !.stale = S]
    BY <1>3, <2>0 DEF Refresh
  <2>2. S \in SUBSET DOMAIN m.dataHash
    BY <1>1
  <2>3. /\ GoodModel(r) /\ r.type = m.type /\ r.blind = m.blind /\ r.keyList = m.keyList
        /\ r.stale = S /\ DOMAIN r.dataHash = DOMAIN m.dataHash
        /\ r.dataHash[k] = row[k].content
        /\ \A x \in DOMAIN m.dataHash : x # k => r.dataHash[x] = m.dataHash[x]
    <3>1. k \in DOMAIN m.dataHash
      BY <1>1, <1>3
    <3> DEFINE data == row[k].content
    <3>2. Holding(m, r, k, data, S)
      BY <2>1 DEF Holding
    <3> HIDE DEF S, data, r
    <3>3. /\ GoodModel(r) /\ r.type = m.type /\ r.blind = m.blind /\ r.keyList = m.keyList
          /\ r.stale = S /\ DOMAIN r.dataHash = DOMAIN m.dataHash
          /\ r.dataHash[k] = data
          /\ \A x \in DOMAIN m.dataHash : x # k => r.dataHash[x] = m.dataHash[x]
      BY <2>2, <3>1, <3>2, Holds
    <3> QED
      BY <3>3 DEF data
  <2>4. Exists(row[k])
    BY <1>3 DEF Loadable
  <2> HIDE DEF r
  <2> QED
    BY <2>3, <2>4 DEF Shows, Stored, r
<1>4. CASE k \in activeKeys(m) /\ ~Loadable(k)
  <2>1. /\ r = [m EXCEPT !.stale = @ \cup {k}]
    BY <1>4 DEF Refresh
  <2>2. GoodModel(r)
    BY <1>1, <1>4, <2>1 DEF GoodModel
  <2> QED
    BY <1>1, <1>4, <2>1, <2>2 DEF Shows, GoodModel
<1> QED
  BY <1>2, <1>3, <1>4

LEMMA Adds ==
  ASSUME NEW m, GoodModel(m), NEW k \in Keys, TypeOf[k] = m.type, k \notin ToSet(m.keyList)
  PROVE  LET r == Add(m, k) IN
         /\ GoodModel(r) /\ r.type = m.type /\ r.blind = m.blind
         /\ ToSet(r.keyList) = ToSet(m.keyList) \cup {k}
         /\ Shows(m, r, k)
<1> DEFINE r == Add(m, k)
           l == [m EXCEPT !.keyList = Append(@, k)]
           t == Append(m.keyList, k)
<1>1. /\ m.keyList \in Seq(Keys) /\ Different(m.keyList) /\ rowCount(m) \in 0..Len(m.keyList)
      /\ DOMAIN m.dataHash = First(m.keyList, rowCount(m)) /\ m.stale \subseteq DOMAIN m.dataHash
  BY FetchedFirst DEF GoodModel
<1>0. t \in Seq(Keys)
  BY <1>1
<1>2. /\ l.keyList = t /\ l.type = m.type /\ l.blind = m.blind /\ l.stale = m.stale
      /\ l.dataHash = m.dataHash
      /\ l \in [type : Types \cup {NoType}, keyList : Seq(Keys), dataHash : {m.dataHash},
                stale : SUBSET Keys, blind : BOOLEAN]
  BY <1>0 DEF GoodModel
<1>3. /\ t \in Seq(Keys) /\ Len(t) = Len(m.keyList) + 1 /\ t[Len(t)] = k
      /\ \A i \in 1..Len(m.keyList) : t[i] = m.keyList[i]
  BY <1>1
<1>4. \A i \in 1..Len(m.keyList) : m.keyList[i] # k
  BY <1>1 DEF ToSet
<1> HIDE DEF t, l
<1>5. Different(t)
  BY <1>1, <1>3, <1>4 DEF Different
<1>6. First(t, rowCount(m)) = First(m.keyList, rowCount(m))
  BY <1>1, <1>3 DEF First
<1>7. \A i \in 1..Len(t) : TypeOf[t[i]] = m.type
  BY <1>1, <1>3 DEF GoodModel
<1>8. GoodModel(l)
  <2>1. rowCount(m) \in 0..Len(t)
    BY <1>1, <1>3
  <2>2. \E i \in 0..Len(t) : DOMAIN m.dataHash = First(t, i)
    BY <1>1, <1>6, <2>1
  <2> QED
    BY <1>2, <1>5, <1>7, <2>2 DEF GoodModel
<1>9. ToSet(t) = ToSet(m.keyList) \cup {k}
  <2>1. DOMAIN t = 1..Len(m.keyList) + 1 /\ DOMAIN m.keyList = 1..Len(m.keyList)
    BY <1>1, <1>3
  <2> QED
    BY <1>3, <2>1 DEF ToSet
<1>10. r = l \/ r = fetchMore(l)
  BY DEF Add, l
<1>11. k \notin DOMAIN m.dataHash
  BY <1>1, <1>4 DEF First
<1>12. CASE r = l
  BY <1>1, <1>2, <1>8, <1>9, <1>11, <1>12 DEF Shows
<1>13. CASE r = fetchMore(l)
  <2>1. /\ GoodModel(r)
        /\ r.keyList = t /\ r.type = m.type /\ r.blind = m.blind /\ r.stale = m.stale
        /\ \A x \in DOMAIN r.dataHash :
             \/ x \in DOMAIN m.dataHash /\ r.dataHash[x] = m.dataHash[x]
             \/ Stored(x, r.dataHash[x])
    BY <1>2, <1>8, <1>13, Fetches
  <2> HIDE DEF r
  <2> QED
    BY <1>9, <1>11, <2>1 DEF Shows, r
<1> QED
  BY <1>10, <1>12, <1>13

\* storeChanged: a dataset of the model's type is listed if it was not deleted.
LEMMA StoreRemoves ==
  ASSUME NEW m, GoodModel(m), NEW k \in Keys
  PROVE  LET r == onStoreChanged(m, k, TRUE) IN
         /\ GoodModel(r) /\ r.type = m.type /\ r.blind = m.blind
         /\ ToSet(r.keyList) \ {k} = ToSet(m.keyList) \ {k}
         /\ TypeOf[k] = m.type => k \notin ToSet(r.keyList)
         /\ Shows(m, r, k)
<1> DEFINE r == onStoreChanged(m, k, TRUE)
<1>1. CASE TypeOf[k] # m.type
  <2>1. r = m
    BY <1>1 DEF onStoreChanged
  <2>2. k \notin DOMAIN m.dataHash
    BY <1>1, FetchedFirst DEF GoodModel, First
  <2> QED
    BY <1>1, <2>1, <2>2 DEF Shows
<1>2. CASE TypeOf[k] = m.type
  <2>1. r = Drop(m, k)
    BY <1>2 DEF onStoreChanged
  <2> HIDE DEF r
  <2>2. /\ GoodModel(r) /\ r.type = m.type /\ r.blind = m.blind
        /\ ToSet(r.keyList) = ToSet(m.keyList) \ {k}
        /\ Shows(m, r, k)
    BY <2>1, Drops
  <2> QED
    BY <2>2 DEF r
<1> QED
  BY <1>1, <1>2

LEMMA StoreSaves ==
  ASSUME NEW m, GoodModel(m), NEW k \in Keys
  PROVE  LET r == onStoreChanged(m, k, FALSE) IN
         /\ GoodModel(r) /\ r.type = m.type /\ r.blind = m.blind
         /\ ToSet(r.keyList) \ {k} = ToSet(m.keyList) \ {k}
         /\ TypeOf[k] = m.type => k \in ToSet(r.keyList)
         /\ Shows(m, r, k)
<1> DEFINE r == onStoreChanged(m, k, FALSE)
<1>1. CASE TypeOf[k] # m.type
  <2>1. r = m
    BY <1>1 DEF onStoreChanged
  <2>2. k \notin DOMAIN m.dataHash
    BY <1>1, FetchedFirst DEF GoodModel, First
  <2> QED
    BY <1>1, <2>1, <2>2 DEF Shows
<1>2. CASE TypeOf[k] = m.type /\ k \in ToSet(m.keyList)
  <2>1. r = Refresh(m, k)
    BY <1>2 DEF onStoreChanged
  <2> HIDE DEF r
  <2>2. /\ GoodModel(r) /\ r.type = m.type /\ r.blind = m.blind /\ r.keyList = m.keyList
        /\ Shows(m, r, k)
    BY <2>1, Refreshes
  <2> QED
    BY <1>2, <2>2 DEF r
<1>3. CASE TypeOf[k] = m.type /\ k \notin ToSet(m.keyList)
  <2>1. r = Add(m, k)
    BY <1>3 DEF onStoreChanged
  <2> HIDE DEF r
  <2>2. /\ GoodModel(r) /\ r.type = m.type /\ r.blind = m.blind
        /\ ToSet(r.keyList) = ToSet(m.keyList) \cup {k}
        /\ Shows(m, r, k)
    BY <1>3, <2>1, Adds
  <2> QED
    BY <2>2 DEF r
<1> QED
  BY <1>1, <1>2, <1>3

LEMMA EmptyIsGood ==
  ASSUME NEW type \in Types \cup {NoType}
  PROVE  /\ GoodModel(Empty(type)) /\ ToSet(Empty(type).keyList) = {}
         /\ DOMAIN Empty(type).dataHash = {} /\ Empty(type).type = type
<1>1. DOMAIN << >> = {} /\ << >> \in Seq(Keys) /\ Len(<< >>) = 0
  OBVIOUS
<1>2. {(<< >>)[i] : i \in 1..0} = {}
  OBVIOUS
<1>3. << >> = [k \in {} |-> << >>[k]]
  OBVIOUS
<1> QED
  BY <1>1, <1>2, <1>3 DEF GoodModel, Empty, ToSet, First, Different

--------------------------------------------------------------------------------
(* Announcements.                                                            *)

LEMMA NoNewsTellsNothing ==
  ASSUME NEW k \in Keys
  PROVE  ~Tells(NoNews, k)
  BY ItemModelAssumption DEF Tells, NoNews, ResetNews

\* What one thread has committed is awaited, and what was awaited still is.
LEMMA Posted ==
  ASSUME StoreOK, NEW w \in Writers, posting[w] = NoNews, NEW n,
         posting' = [posting EXCEPT ![w] = n], news' = news
  PROVE  \A k \in Keys : Awaited(k)' <=> Awaited(k) \/ Tells(n, k)
<1>1. posting \in [Writers -> News \cup {NoNews}]
  BY DEF StoreOK
<1>2. posting'[w] = n /\ \A v \in Writers : v # w => posting'[v] = posting[v]
  BY <1>1
<1> SUFFICES ASSUME NEW k \in Keys
             PROVE  Awaited(k)' <=> Awaited(k) \/ Tells(n, k)
  OBVIOUS
<1>3. ~Tells(posting[w], k)
  BY NoNewsTellsNothing
<1>4. (\E v \in Writers : Tells(posting'[v], k)) <=> (\E v \in Writers : Tells(posting[v], k)) \/ Tells(n, k)
  BY <1>2, <1>3
<1>5. Awaited(k)' <=> (\E v \in Writers : Tells(posting'[v], k)) \/ \E i \in DOMAIN news : Tells(news[i], k)
  BY DEF Awaited, Tells
<1> QED
  BY <1>4, <1>5 DEF Awaited

\* An announcement that is passed on is awaited as before.
LEMMA PassedOn ==
  ASSUME StoreOK, NEW w \in Writers, Announce(w)
  PROVE  \A k \in Keys : Awaited(k)' <=> Awaited(k)
<1>1. /\ posting \in [Writers -> News \cup {NoNews}] /\ news \in Seq(News)
      /\ posting[w] # NoNews /\ posting[w] \in News
  BY DEF StoreOK, Announce
<1>2. posting'[w] = NoNews /\ \A v \in Writers : v # w => posting'[v] = posting[v]
  BY <1>1 DEF Announce
<1>3. /\ DOMAIN news = 1..Len(news) /\ DOMAIN news' = 1..Len(news) + 1
      /\ news'[Len(news) + 1] = posting[w]
      /\ \A i \in 1..Len(news) : news'[i] = news[i]
  BY <1>1 DEF Announce
<1> SUFFICES ASSUME NEW k \in Keys
             PROVE  Awaited(k)' <=> Awaited(k)
  OBVIOUS
<1>4. ~Tells(posting'[w], k)
  BY <1>2, NoNewsTellsNothing
<1>5. (\E v \in Writers : Tells(posting[v], k)) <=>
        (\E v \in Writers : Tells(posting'[v], k)) \/ Tells(posting[w], k)
  BY <1>2, <1>4
<1>6. (\E i \in DOMAIN news' : Tells(news'[i], k)) <=>
        (\E i \in DOMAIN news : Tells(news[i], k)) \/ Tells(posting[w], k)
  <2>1. Len(news) \in Nat
    BY <1>1
  <2> QED
    BY <1>3, <2>1
<1>7. Awaited(k)' <=>
        (\E v \in Writers : Tells(posting'[v], k)) \/ \E i \in DOMAIN news' : Tells(news'[i], k)
  BY DEF Awaited, Tells
<1> QED
  BY <1>5, <1>6, <1>7 DEF Awaited

\* One that is handled is not awaited any more, unless there is another.
LEMMA Handled ==
  ASSUME StoreOK, news # << >>, news' = Tail(news), posting' = posting
  PROVE  \A k \in Keys : Awaited(k) => Awaited(k)' \/ Tells(Head(news), k)
<1>1. news \in Seq(News) /\ Len(news) \in Nat \ {0} /\ DOMAIN news = 1..Len(news)
  BY DEF StoreOK
<1>2. /\ Head(news) = news[1] /\ DOMAIN news' = 1..Len(news) - 1
      /\ \A i \in 1..Len(news) - 1 : news'[i] = news[i + 1]
  BY <1>1
<1> SUFFICES ASSUME NEW k \in Keys, Awaited(k)
             PROVE  Awaited(k)' \/ Tells(Head(news), k)
  OBVIOUS
<1>3. CASE \E v \in Writers : Tells(posting[v], k)
  BY <1>3 DEF Awaited, Tells
<1>4. ASSUME NEW i \in DOMAIN news, Tells(news[i], k)
      PROVE  Awaited(k)' \/ Tells(Head(news), k)
  <2>1. CASE i = 1
    BY <1>2, <1>4, <2>1
  <2>2. CASE i # 1
    <3>1. i - 1 \in DOMAIN news' /\ news'[i - 1] = news[i]
      BY <1>1, <1>2, <2>2
    <3>2. Tells(news'[i - 1], k)
      BY <1>4, <3>1
    <3> QED
      BY <3>1, <3>2 DEF Awaited, Tells
  <2> QED
    BY <2>1, <2>2
<1> QED
  BY <1>3, <1>4 DEF Awaited

--------------------------------------------------------------------------------
(* Steps of the store and of the model.                                      *)

\* A step that leaves the model alone, and announces what it does to rows.
LEMMA ModelKept ==
  ASSUME ModelInv, StoreOK', model' = model, misled' = misled,
         \A k \in Keys : Awaited(k) => Awaited(k)',
         \A k \in Keys : ~Awaited(k)' =>
           /\ Exists(row'[k]) <=> Exists(row[k])
           /\ Exists(row[k]) => row'[k].content = row[k].content
  PROVE  ModelInv'
<1>1. GoodModel(model)' /\ GoodModel(model)
  BY DEF ModelInv, GoodModel
<1>2. DOMAIN model.dataHash \subseteq Keys
  BY <1>1, FetchedFirst DEF GoodModel, First
<1>3. ListIsKnown'
  <2> SUFFICES ASSUME ~model.blind, NEW k \in Keys, TypeOf[k] = model.type,
                      k \notin misled, ~Awaited(k)'
               PROVE  k \in ToSet(model.keyList) <=> Exists(row'[k])
    BY DEF ListIsKnown, Exists, ToSet
  <2>1. k \in ToSet(model.keyList) <=> Exists(row[k])
    BY DEF ModelInv, ListIsKnown
  <2>2. Exists(row'[k]) <=> Exists(row[k])
    OBVIOUS
  <2> QED
    BY <2>1, <2>2
<1>4. DataIsKnown'
  <2> SUFFICES ASSUME NEW k \in DOMAIN model.dataHash, k \notin model.stale, ~Awaited(k)'
               PROVE  Exists(row'[k]) /\ model.dataHash[k] = row'[k].content
    BY DEF DataIsKnown, Stored, Exists
  <2>1. k \in Keys
    BY <1>2
  <2>2. Stored(k, model.dataHash[k])
    BY <2>1 DEF ModelInv, DataIsKnown
  <2> QED
    BY <2>1, <2>2 DEF Stored
<1> QED
  BY <1>1, <1>3, <1>4 DEF ModelInv

LEMMA CommitIsKnown ==
  ASSUME ModelInv, NEW w \in Writers, NEW k \in Keys, NEW new \in Row, NEW deleted \in BOOLEAN,
         Commit(w, k, new, deleted), deleted => ~Exists(new), UNCHANGED <<news, model, misled>>
  PROVE  ModelInv'
<1> DEFINE n == [key |-> k, deleted |-> deleted]
           quiet == deleted /\ ~Exists(row[k])
<1>1. /\ posting[w] = NoNews /\ row' = [row EXCEPT ![k] = new] /\ torn' = torn \ {k}
      /\ posting' = [posting EXCEPT ![w] = IF quiet THEN @ ELSE n]
  BY DEF Commit
<1>2. n \in News /\ Tells(n, k)
  BY DEF News, Tells
<1> HIDE DEF n, quiet
<1>3. StoreOK'
  BY <1>1, <1>2 DEF ModelInv, StoreOK
<1>4. \A x \in Keys : x # k => row'[x] = row[x]
  BY <1>1 DEF ModelInv, StoreOK
<1>5. CASE quiet
  <2>1. \A x : Awaited(x)' <=> Awaited(x)
    <3>1. posting' = posting
      BY <1>1, <1>5 DEF ModelInv, StoreOK
    <3> QED
      BY <3>1 DEF Awaited, Tells
  <2>2. ~Exists(row'[k]) /\ ~Exists(row[k])
    BY <1>1, <1>5 DEF ModelInv, StoreOK, quiet
  <2>3. \A x \in Keys : ~Awaited(x)' =>
          /\ Exists(row'[x]) <=> Exists(row[x])
          /\ Exists(row[x]) => row'[x].content = row[x].content
    BY <1>4, <2>2
  <2> QED
    BY <1>3, <2>1, <2>3, ModelKept
<1>6. CASE ~quiet
  <2>1. posting' = [posting EXCEPT ![w] = n]
    BY <1>1, <1>6
  <2>2. \A x \in Keys : Awaited(x)' <=> Awaited(x) \/ Tells(n, x)
    BY <1>1, <2>1, Posted DEF ModelInv
  <2>3. \A x \in Keys : ~Awaited(x)' =>
          /\ Exists(row'[x]) <=> Exists(row[x])
          /\ Exists(row[x]) => row'[x].content = row[x].content
    BY <1>2, <1>4, <2>2
  <2> QED
    BY <1>3, <2>2, <2>3, ModelKept
<1> QED
  BY <1>5, <1>6

LEMMA SaveIsRow ==
  ASSUME NEW r \in Row, NEW data \in Data
  PROVE  save(r, data) \in Row /\ save(r, data).content = data
  BY DEF Row, save, MakeRow

LEMMA RemoveIsRow ==
  ASSUME NEW r \in Row
  PROVE  remove(r) \in Row /\ ~Exists(remove(r))
  BY DataAssumption DEF Row, remove, MakeRow, Exists

LEMMA MarkIsRow ==
  ASSUME NEW r \in Row, ExistsDeleted(r)
  PROVE  markUnchanged(r, r.version, TRUE) \in Row /\ ~Exists(markUnchanged(r, r.version, TRUE))
  BY DataAssumption DEF Row, markUnchanged, NoRow, NoExists, Exists, ExistsDeleted

LEMMA WriterIsKnown ==
  ASSUME ModelInv, NEW w \in Writers, WriterStep(w)
  PROVE  ModelInv'
<1>1. /\ row \in [Keys -> Row] /\ torn \subseteq Keys
      /\ posting \in [Writers -> News \cup {NoNews}] /\ news \in Seq(News) /\ misled \subseteq Keys
  BY DEF ModelInv, StoreOK
<1>2. CASE Announce(w)
  <2>1. StoreOK'
    BY <1>1, <1>2 DEF StoreOK, Announce
  <2>2. \A k \in Keys : Awaited(k)' <=> Awaited(k)
    BY <1>2, PassedOn DEF ModelInv
  <2> QED
    BY <1>2, <2>1, <2>2, ModelKept DEF Announce
<1>3. CASE Reset(w)
  <2>1. /\ posting[w] = NoNews /\ row' = [k \in Keys |-> NoRow] /\ torn' = {}
        /\ posting' = [posting EXCEPT ![w] = ResetNews]
        /\ UNCHANGED <<news, model, misled>>
    BY <1>3 DEF Reset
  <2>2. NoRow \in Row /\ ResetNews \in News
    BY DEF NoRow, Row, News
  <2>3. StoreOK'
    BY <1>1, <2>1, <2>2 DEF StoreOK
  <2>4. \A k \in Keys : Awaited(k)'
    BY <2>1, Posted DEF ModelInv, Tells
  <2> QED
    BY <2>1, <2>3, <2>4, ModelKept
<1>4. ASSUME NEW k \in Keys, RemoveRow(w, k)
      PROVE  ModelInv'
  <2>1. remove(row[k]) \in Row /\ ~Exists(remove(row[k]))
    BY <1>1, RemoveIsRow
  <2> QED
    BY <1>4, <2>1, CommitIsKnown DEF RemoveRow
<1>5. ASSUME NEW k \in Keys, RemoveFails(w, k)
      PROVE  ModelInv'
  <2>1. /\ torn' = torn \cup {k} /\ UNCHANGED <<row, posting, news, model, misled>>
    BY <1>5 DEF RemoveFails
  <2>2. StoreOK'
    BY <1>1, <2>1 DEF StoreOK
  <2>3. \A x : Awaited(x)' <=> Awaited(x)
    BY <2>1 DEF Awaited, Tells
  <2> QED
    BY <2>1, <2>2, <2>3, ModelKept
<1>6. ASSUME NEW k \in Keys, NEW data \in Data, SaveRow(w, k, data)
      PROVE  ModelInv'
  <2>1. save(row[k], data) \in Row
    BY <1>1, SaveIsRow
  <2> QED
    BY <1>6, <2>1, CommitIsKnown DEF SaveRow
<1> QED
  BY <1>2, <1>3, <1>4, <1>5, <1>6 DEF WriterStep

LEMMA NewsAreKnown ==
  ASSUME ModelInv, HandleNews
  PROVE  ModelInv'
<1>1. /\ row \in [Keys -> Row] /\ torn \subseteq Keys
      /\ posting \in [Writers -> News \cup {NoNews}] /\ news \in Seq(News) /\ misled \subseteq Keys
      /\ GoodModel(model) /\ ListIsKnown /\ DataIsKnown
  BY DEF ModelInv, StoreOK
<1>2. /\ news # << >> /\ news' = Tail(news) /\ posting' = posting /\ row' = row /\ torn' = torn
  BY DEF HandleNews, storeVars
<1> DEFINE n == Head(news)
<1>3. n \in News /\ news' \in Seq(News)
  BY <1>1, <1>2
<1>4. \A k \in Keys : Awaited(k) => Awaited(k)' \/ Tells(n, k)
  BY <1>2, Handled DEF ModelInv
<1>5. model.type \in Types \cup {NoType}
  BY <1>1 DEF GoodModel
<1>6. CASE n = ResetNews
  <2>1. model' = Empty(model.type) /\ misled' = KeysOf(model.type)
    BY <1>6 DEF HandleNews, onStoreResetted
  <2>2. /\ GoodModel(model') /\ ToSet(model'.keyList) = {} /\ DOMAIN model'.dataHash = {}
        /\ model'.type = model.type
    BY <1>5, <2>1, EmptyIsGood
  <2>3. StoreOK'
    BY <1>1, <1>2, <1>3, <2>1 DEF StoreOK, KeysOf
  <2>4. ListIsKnown'
    BY <1>2, <2>1, <2>2 DEF ListIsKnown, KeysOf
  <2>5. DataIsKnown'
    BY <2>2 DEF DataIsKnown
  <2>6. GoodModel(model)'
    BY <2>2 DEF GoodModel
  <2> QED
    BY <2>3, <2>4, <2>5, <2>6 DEF ModelInv
<1>7. CASE n # ResetNews
  <2> DEFINE k == n.key
             d == n.deleted
  <2>1. k \in Keys /\ d \in BOOLEAN
    BY <1>3, <1>7 DEF News
  <2>2. /\ model' = onStoreChanged(model, k, d)
        /\ misled' = IF Exists(row[k]) = d THEN misled \cup {k} ELSE misled \ {k}
    BY <1>7 DEF HandleNews
  <2>3. \A x : Tells(n, x) => x = k
    BY <1>7 DEF Tells
  <2> HIDE DEF k, d
  <2>4. /\ GoodModel(model') /\ model'.type = model.type /\ model'.blind = model.blind
        /\ ToSet(model'.keyList) \ {k} = ToSet(model.keyList) \ {k}
        /\ TypeOf[k] = model.type /\ d => k \notin ToSet(model'.keyList)
        /\ TypeOf[k] = model.type /\ ~d => k \in ToSet(model'.keyList)
        /\ Shows(model, model', k)
    <3>1. CASE d = TRUE
      <4>1. model' = onStoreChanged(model, k, TRUE)
        BY <2>2, <3>1
      <4> QED
        BY <1>1, <2>1, <3>1, <4>1, StoreRemoves
    <3>2. CASE d = FALSE
      <4>1. model' = onStoreChanged(model, k, FALSE)
        BY <2>2, <3>2
      <4> QED
        BY <1>1, <2>1, <3>2, <4>1, StoreSaves
    <3> QED
      BY <2>1, <3>1, <3>2
  <2>5. StoreOK'
    BY <1>1, <1>2, <1>3, <2>1, <2>2 DEF StoreOK
  <2>6. ListIsKnown'
    <3> SUFFICES ASSUME ~model'.blind, NEW x \in Keys, TypeOf[x] = model'.type,
                        x \notin misled', ~Awaited(x)'
                 PROVE  x \in ToSet(model'.keyList) <=> Exists(row[x])
      BY <1>2 DEF ListIsKnown
    <3>1. CASE x = k
      <4>1. ~(Exists(row[k]) = d)
        BY <2>1, <2>2, <3>1
      <4>2. Exists(row[k]) \in BOOLEAN
        BY DEF Exists
      <4>3. Exists(row[k]) <=> ~d
        BY <2>1, <4>1, <4>2
      <4>4. k \in ToSet(model'.keyList) <=> ~d
        BY <2>4, <3>1
      <4> QED
        BY <3>1, <4>3, <4>4
    <3>2. CASE x # k
      <4>1. x \notin misled /\ ~Awaited(x)
        BY <1>4, <2>2, <2>3, <3>2
      <4>2. x \in ToSet(model.keyList) <=> Exists(row[x])
        BY <1>1, <2>4, <4>1 DEF ListIsKnown
      <4> QED
        BY <2>4, <3>2, <4>2
    <3> QED
      BY <3>1, <3>2
  <2>7. DataIsKnown'
    <3> SUFFICES ASSUME NEW x \in DOMAIN model'.dataHash, x \notin model'.stale, ~Awaited(x)'
                 PROVE  Stored(x, model'.dataHash[x])
      BY <1>2 DEF DataIsKnown, Stored
    <3>1. CASE Stored(x, model'.dataHash[x])
      BY <3>1
    <3>2. CASE /\ x # k /\ x \in DOMAIN model.dataHash /\ x \notin model.stale
               /\ model'.dataHash[x] = model.dataHash[x]
      <4>1. x \in Keys
        BY <1>1, <3>2, FetchedFirst DEF GoodModel, First
      <4>2. ~Awaited(x)
        BY <1>4, <2>3, <3>2, <4>1
      <4> QED
        BY <1>1, <3>2, <4>2 DEF DataIsKnown
    <3> QED
      BY <2>4, <3>1, <3>2 DEF Shows
  <2>8. GoodModel(model)'
    BY <2>4 DEF GoodModel
  <2> QED
    BY <2>5, <2>6, <2>7, <2>8 DEF ModelInv
<1> QED
  BY <1>6, <1>7

LEMMA LoadIsKnown ==
  ASSUME ModelInv, NEW type \in Types \cup {NoType}, Load(type)
  PROVE  ModelInv'
<1>1. UNCHANGED <<row, torn, posting, news>> /\ misled' = {}
  BY DEF Load, storeVars
<1>2. StoreOK'
  BY <1>1 DEF ModelInv, StoreOK
<1> DEFINE e == Empty(type)
<1>3. /\ GoodModel(e) /\ ToSet(e.keyList) = {} /\ DOMAIN e.dataHash = {} /\ e.type = type
      /\ e.blind = FALSE
  BY EmptyIsGood DEF Empty
<1>4. /\ e \in [type : Types \cup {NoType}, keyList : Seq(Keys), dataHash : {e.dataHash},
                stale : SUBSET Keys, blind : BOOLEAN]
      /\ e.dataHash = [k \in DOMAIN e.dataHash |-> e.dataHash[k]]
      /\ e.stale \subseteq DOMAIN e.dataHash
  BY <1>3 DEF GoodModel
<1>5. ASSUME NEW keys \in SetToSeqs(KeysOf(type)), model' = [e EXCEPT !.keyList = keys]
      PROVE  ModelInv'
  <2>1. KeysOf(type) \in SUBSET Keys
    BY DEF KeysOf
  <2>2. keys \in Seq(Keys) /\ Different(keys) /\ ToSet(keys) = KeysOf(type)
    BY <2>1, ListsAll
  <2> HIDE DEF e
  <2>3. /\ model'.keyList = keys /\ model'.type = type /\ model'.dataHash = e.dataHash
        /\ model'.stale = e.stale
        /\ model' \in [type : Types \cup {NoType}, keyList : Seq(Keys), dataHash : {e.dataHash},
                       stale : SUBSET Keys, blind : BOOLEAN]
    BY <1>3, <1>4, <1>5, <2>2
  <2>4. \A i \in 1..Len(keys) : TypeOf[keys[i]] = type
    BY <2>2, Members DEF KeysOf
  <2>5. DOMAIN e.dataHash = First(keys, 0) /\ 0 \in 0..Len(keys)
    BY <1>3, <2>2 DEF First
  <2>6. GoodModel(model')
    BY <1>4, <2>2, <2>3, <2>4, <2>5 DEF GoodModel
  <2>7. ListIsKnown'
    BY <1>1, <2>2, <2>3 DEF ListIsKnown, KeysOf
  <2>8. DataIsKnown'
    BY <1>3, <2>3 DEF DataIsKnown
  <2>9. GoodModel(model)'
    BY <2>6 DEF GoodModel
  <2> QED
    BY <1>2, <2>7, <2>8, <2>9 DEF ModelInv
<1>6. CASE model' = [e EXCEPT !.blind = TRUE]
  <2> HIDE DEF e
  <2>1. /\ model'.keyList = e.keyList /\ model'.type = type /\ model'.dataHash = e.dataHash
        /\ model'.stale = e.stale /\ model'.blind = TRUE
        /\ model' \in [type : Types \cup {NoType}, keyList : Seq(Keys), dataHash : {e.dataHash},
                       stale : SUBSET Keys, blind : BOOLEAN]
    BY <1>3, <1>4, <1>6
  <2>2. GoodModel(model')
    BY <1>3, <2>1 DEF GoodModel
  <2>3. ListIsKnown'
    BY <2>1 DEF ListIsKnown
  <2>4. DataIsKnown'
    BY <1>3, <2>1 DEF DataIsKnown
  <2>5. GoodModel(model)'
    BY <2>2 DEF GoodModel
  <2> QED
    BY <1>2, <2>3, <2>4, <2>5 DEF ModelInv
<1> QED
  BY <1>5, <1>6 DEF Load

LEMMA FetchIsKnown ==
  ASSUME ModelInv, ViewFetches
  PROVE  ModelInv'
<1>1. UNCHANGED <<row, torn, posting, news, misled>> /\ model' = fetchMore(model)
  BY DEF ViewFetches, storeVars
<1>2. StoreOK'
  BY <1>1 DEF ModelInv, StoreOK
<1>3. /\ GoodModel(model')
      /\ model'.keyList = model.keyList /\ model'.type = model.type
      /\ model'.blind = model.blind /\ model'.stale = model.stale
      /\ \A k \in DOMAIN model'.dataHash :
           \/ k \in DOMAIN model.dataHash /\ model'.dataHash[k] = model.dataHash[k]
           \/ Stored(k, model'.dataHash[k])
  BY <1>1, Fetches DEF ModelInv
<1>4. \A k : Awaited(k)' <=> Awaited(k)
  BY <1>1 DEF Awaited, Tells
<1>5. ListIsKnown'
  BY <1>1, <1>3, <1>4 DEF ModelInv, ListIsKnown
<1>6. DataIsKnown'
  BY <1>1, <1>3, <1>4 DEF ModelInv, DataIsKnown, Stored
<1>7. GoodModel(model)'
  BY <1>3 DEF GoodModel
<1> QED
  BY <1>2, <1>5, <1>6, <1>7 DEF ModelInv

\* What the model saves itself is announced at once.
LEMMA SetIsKnown ==
  ASSUME ModelInv, NEW k \in Keys, NEW data \in Data, setData(k, data)
  PROVE  ModelInv'
<1>1. /\ StoreOK /\ GoodModel(model) /\ ListIsKnown /\ DataIsKnown
      /\ row \in [Keys -> Row] /\ misled \subseteq Keys
  BY DEF ModelInv, StoreOK
<1>2. /\ UNCHANGED <<posting, news>> /\ k \in DOMAIN model.dataHash
      /\ model.stale \subseteq DOMAIN model.dataHash
      /\ WriteProperty(k, data)
  BY <1>1, FetchedFirst DEF setData, GoodModel
<1>3. \A x : Awaited(x)' <=> Awaited(x)
  BY <1>2 DEF Awaited, Tells
<1>4. (Hold(model, k, data)).stale = model.stale
  BY <1>1 DEF Hold, GoodModel
<1>5. k \in ToSet(model.keyList)
  BY <1>1, <1>2, FetchedFirst, Members DEF GoodModel, First
<1>6. CASE /\ row' = [row EXCEPT ![k] = save(@, data)] /\ torn' = torn \ {k}
           /\ model' = [Hold(model, k, data) EXCEPT !.stale = @ \ {k}]
           /\ misled' = misled \ {k}
  <2> DEFINE S == model.stale \ {k}
  <2>1. Holding(model, model', k, data, S)
    BY <1>4, <1>6 DEF Holding
  <2>2. S \in SUBSET DOMAIN model.dataHash
    BY <1>2
  <2> HIDE DEF S
  <2>3. /\ GoodModel(model') /\ model'.type = model.type /\ model'.blind = model.blind
        /\ model'.keyList = model.keyList
        /\ model'.stale = S /\ DOMAIN model'.dataHash = DOMAIN model.dataHash
        /\ model'.dataHash[k] = data
        /\ \A x \in DOMAIN model.dataHash : x # k => model'.dataHash[x] = model.dataHash[x]
    BY <1>1, <1>2, <2>1, <2>2, Holds
  <2>4. save(row[k], data) \in Row /\ save(row[k], data).content = data
    BY <1>1, SaveIsRow
  <2>5. /\ row' \in [Keys -> Row] /\ row'[k].content = data
        /\ \A x \in Keys : x # k => row'[x] = row[x]
    BY <1>1, <1>6, <2>4
  <2>6. StoreOK'
    BY <1>1, <1>2, <1>6, <2>5 DEF StoreOK
  <2>7. ListIsKnown'
    <3> SUFFICES ASSUME ~model.blind, NEW x \in Keys, TypeOf[x] = model.type,
                        x \notin misled', ~Awaited(x)
                 PROVE  x \in ToSet(model.keyList) <=> Exists(row'[x])
      BY <1>3, <2>3 DEF ListIsKnown, Exists
    <3>1. CASE x = k
      BY <1>5, <2>5, <3>1 DEF Exists
    <3>2. CASE x # k
      BY <1>1, <1>6, <2>5, <3>2 DEF ListIsKnown
    <3> QED
      BY <3>1, <3>2
  <2>8. DataIsKnown'
    <3> SUFFICES ASSUME NEW x \in DOMAIN model.dataHash, x \notin model'.stale, ~Awaited(x)
                 PROVE  Exists(row'[x]) /\ model'.dataHash[x] = row'[x].content
      BY <1>3, <2>3 DEF DataIsKnown, Stored, Exists
    <3>1. CASE x = k
      BY <2>3, <2>5, <3>1 DEF Exists
    <3>2. CASE x # k
      <4>1. x \in Keys
        BY <1>1, FetchedFirst DEF GoodModel, First
      <4>2. x \notin model.stale
        BY <2>3, <3>2 DEF S
      <4> QED
        BY <1>1, <2>3, <2>5, <3>2, <4>1, <4>2 DEF DataIsKnown, Stored
    <3> QED
      BY <3>1, <3>2
  <2>9. GoodModel(model)'
    BY <2>3 DEF GoodModel
  <2> QED
    BY <2>6, <2>7, <2>8, <2>9 DEF ModelInv
<1>7. CASE /\ model' = [Hold(model, k, data) EXCEPT !.stale = @ \cup {k}]
           /\ UNCHANGED <<storeVars, misled>>
  <2> DEFINE S == model.stale \cup {k}
  <2>1. Holding(model, model', k, data, S)
    BY <1>4, <1>7 DEF Holding
  <2>2. S \in SUBSET DOMAIN model.dataHash
    BY <1>2
  <2> HIDE DEF S
  <2>3. /\ GoodModel(model') /\ model'.type = model.type /\ model'.blind = model.blind
        /\ model'.keyList = model.keyList
        /\ model'.stale = S /\ DOMAIN model'.dataHash = DOMAIN model.dataHash
        /\ \A x \in DOMAIN model.dataHash : x # k => model'.dataHash[x] = model.dataHash[x]
    BY <1>1, <1>2, <2>1, <2>2, Holds
  <2>4. row' = row /\ torn' = torn /\ misled' = misled
    BY <1>7 DEF storeVars
  <2>5. StoreOK'
    BY <1>1, <1>2, <2>4 DEF StoreOK
  <2>6. ListIsKnown'
    BY <1>1, <1>3, <2>3, <2>4 DEF ListIsKnown
  <2>7. DataIsKnown'
    BY <1>1, <1>3, <2>3, <2>4 DEF DataIsKnown, Stored, S
  <2>8. GoodModel(model)'
    BY <2>3 DEF GoodModel
  <2> QED
    BY <2>5, <2>6, <2>7, <2>8 DEF ModelInv
<1> QED
  BY <1>2, <1>6, <1>7 DEF WriteProperty

LEMMA UploadIsKnown ==
  ASSUME ModelInv, NEW k \in Keys, Uploaded(k)
  PROVE  ModelInv'
<1>1. StoreOK /\ row \in [Keys -> Row]
  BY DEF ModelInv, StoreOK
<1>2. /\ ExistsDeleted(row[k])
      /\ row' = [row EXCEPT ![k] = markUnchanged(row[k], row[k].version, TRUE)]
      /\ UNCHANGED <<torn, posting, news, model, misled>>
  BY DEF Uploaded
<1>3. /\ markUnchanged(row[k], row[k].version, TRUE) \in Row
      /\ ~Exists(markUnchanged(row[k], row[k].version, TRUE))
  BY <1>1, <1>2, MarkIsRow
<1>4. /\ row' \in [Keys -> Row] /\ ~Exists(row'[k]) /\ ~Exists(row[k])
      /\ \A x \in Keys : x # k => row'[x] = row[x]
  BY <1>1, <1>2, <1>3, DataAssumption DEF Exists, ExistsDeleted
<1>5. StoreOK'
  BY <1>1, <1>2, <1>4 DEF StoreOK
<1>6. \A x : Awaited(x)' <=> Awaited(x)
  BY <1>2 DEF Awaited, Tells
<1>7. \A x \in Keys : /\ Exists(row'[x]) <=> Exists(row[x])
                      /\ Exists(row[x]) => row'[x].content = row[x].content
  BY <1>4
<1> QED
  BY <1>2, <1>5, <1>6, <1>7, ModelKept

\* A new model knows nothing, and nothing is asked of it.
LEMMA NewModel ==
  ASSUME StoreOK', model' = Empty(NoType)
  PROVE  ModelInv'
<1>1. /\ GoodModel(model') /\ DOMAIN model'.dataHash = {} /\ model'.type = NoType
  BY EmptyIsGood
<1>2. \A k \in Keys : TypeOf[k] # NoType
  BY ItemModelAssumption
<1>3. ListIsKnown' /\ DataIsKnown'
  BY <1>1, <1>2 DEF ListIsKnown, DataIsKnown
<1>4. GoodModel(model)'
  BY <1>1 DEF GoodModel
<1> QED
  BY <1>3, <1>4 DEF ModelInv

LEMMA ModelStepIsKnown ==
  ASSUME ModelInv, ModelStep
  PROVE  ModelInv'
<1>1. CASE HandleNews
  BY <1>1, NewsAreKnown
<1>2. CASE ViewFetches
  BY <1>2, FetchIsKnown
<1>3. CASE reload
  <2>1. model.type \in Types \cup {NoType}
    BY DEF ModelInv, GoodModel
  <2> QED
    BY <1>3, <2>1, LoadIsKnown DEF reload
<1>4. ASSUME NEW k \in Keys, Uploaded(k)
      PROVE  ModelInv'
  BY <1>4, UploadIsKnown
<1>5. ASSUME NEW type \in Types, setTypeId(type)
      PROVE  ModelInv'
  BY <1>5, LoadIsKnown DEF setTypeId
<1>6. ASSUME NEW k \in Keys, NEW data \in Data, setData(k, data)
      PROVE  ModelInv'
  BY <1>6, SetIsKnown
<1> QED
  BY <1>1, <1>2, <1>3, <1>4, <1>5, <1>6 DEF ModelStep

--------------------------------------------------------------------------------
(* Migrations, for the model.                                                *)

LEMMA MigratedIsRow ==
  ASSUME NEW j \in Jobs, NEW k \in Keys, row \in [Keys -> Row]
  PROVE  Migrated(j, k) \in Row /\ (Changed[k] = 2 => ~Exists(Migrated(j, k)))
  BY MigrationAssumption, DataAssumption DEF Migrated, storeDeleted, storeChanged, MakeRow, Row, Exists

\* A step that is of no concern to the model.
LEMMA Unconcerned ==
  ASSUME ModelInv, UNCHANGED <<row, torn, posting, news, model, misled>>
  PROVE  ModelInv'
<1>1. StoreOK'
  BY DEF ModelInv, StoreOK
<1>2. \A x : Awaited(x)' <=> Awaited(x)
  BY DEF Awaited, Tells
<1> QED
  BY <1>1, <1>2, ModelKept

LEMMA EntryIsKnown ==
  ASSUME ModelInv, JobsInv, NEW j \in Jobs, MigrateEntry(j)
  PROVE  ModelInv'
<1> DEFINE k == Entries[job[j].next]
<1>1. k \in Keys /\ j \in Writers
  BY MigrationAssumption DEF JobsInv, Job, MigrateEntry
<1>2. UNCHANGED <<news, model, misled>>
  BY DEF MigrateEntry
<1>3. CASE Skips(j, k)
  BY <1>2, <1>3, Unconcerned DEF MigrateEntry
<1>4. CASE ~Skips(j, k)
  <2>1. Commit(j, k, Migrated(j, k), Changed[k] = 2)
    BY <1>4 DEF MigrateEntry
  <2>2. Migrated(j, k) \in Row /\ (Changed[k] = 2 => ~Exists(Migrated(j, k)))
    BY <1>1, MigratedIsRow DEF ModelInv, StoreOK
  <2>3. (Changed[k] = 2) \in BOOLEAN
    OBVIOUS
  <2> HIDE DEF k
  <2> QED
    BY <1>1, <1>2, <2>1, <2>2, <2>3, CommitIsKnown
<1> QED
  BY <1>3, <1>4

LEMMA ModelInvIsKept ==
  ASSUME ModelInv, JobsInv, Next
  PROVE  ModelInv'
<1>1. ASSUME NEW j \in Jobs, MigrationStep(j), ~EntryThrows(j)
      PROVE  ModelInv'
  <2>1. CASE MigrateEntry(j)
    BY <2>1, EntryIsKnown
  <2>2. CASE EndEntries(j)
    BY <2>2, Unconcerned DEF EndEntries, itemVars
  <2>3. CASE Cleanup(j)
    BY <2>3, Unconcerned DEF Cleanup, storeVars
  <2> QED
    BY <1>1, <2>1, <2>2, <2>3 DEF MigrationStep
<1>2. ASSUME NEW j \in Jobs, NEW flags \in FlagSets, run(j, flags)
      PROVE  ModelInv'
  BY <1>2, Unconcerned DEF run, itemVars
<1>3. CASE ApplicationStep
  <2>1. ASSUME NEW w \in App, WriterStep(w)
        PROVE  ModelInv'
    BY <2>1, WriterIsKnown, MigrationAssumption
  <2>2. ASSUME NEW j \in Jobs, Announce(j)
        PROVE  ModelInv'
    BY <2>2, WriterIsKnown, MigrationAssumption DEF WriterStep
  <2>3. CASE ModelStep
    BY <2>3, ModelStepIsKnown
  <2> QED
    BY <1>3, <2>1, <2>2, <2>3 DEF ApplicationStep
<1>4. CASE Ended
  <2>1. /\ posting' = [w \in Writers |-> NoNews] /\ news' = << >>
        /\ model' = Empty(NoType) /\ misled' = {} /\ UNCHANGED <<row, torn>>
    BY <1>4 DEF Ended, RestartModel, storeVars
  <2>2. StoreOK'
    BY <2>1 DEF ModelInv, StoreOK
  <2> QED
    BY <2>1, <2>2, NewModel
<1> QED
  BY <1>1, <1>2, <1>3, <1>4 DEF Next, Crash, EntryThrows

--------------------------------------------------------------------------------
(* Migrations: what the old store held.                                      *)

\* A dataset that has a row has been taken, whoever makes the row.
LEMMA Typed ==
  ASSUME ModelInv, JobsInv
  PROVE  /\ row \in [Keys -> Row] /\ taken \subseteq Keys
         /\ \A k \in Keys : ~NoExists(row[k]) => k \in taken
         /\ job \in [Jobs -> Job]
         /\ \A k \in Readable \cap ToSet(Entries) :
              ~discarded /\ Changed[k] # 2 /\ k \notin taken => old.there /\ old.db /\ k \in old.files
  BY DEF ModelInv, StoreOK, JobsInv, NothingIsLost

LEMMA EntriesListed ==
  /\ Len(Entries) \in Nat
  /\ \A i \in 1..Len(Entries) : Entries[i] \in Keys /\ Entries[i] \in ToSet(Entries)
  /\ \A k \in ToSet(Entries) : \E i \in 1..Len(Entries) : Entries[i] = k
  BY MigrationAssumption, Members

\* The application takes nothing away.
LEMMA RowsAreTaken ==
  ASSUME ModelInv, JobsInv, ApplicationStep
  PROVE  /\ taken \subseteq taken' /\ taken' \subseteq Keys
         /\ \A k \in Keys : ~NoExists(row'[k]) => k \in taken'
<1>1. /\ row \in [Keys -> Row] /\ taken \subseteq Keys
      /\ \A k \in Keys : ~NoExists(row[k]) => k \in taken
      /\ taken' = taken \cup {k \in Keys : Exists(row'[k])}
  BY Typed DEF ApplicationStep
<1>2. ASSUME NEW k \in Keys, ~NoExists(row'[k])
      PROVE  ~NoExists(row[k]) \/ Exists(row'[k])
  <2>1. ASSUME NEW w \in Writers, WriterStep(w)
        PROVE  ~NoExists(row[k]) \/ Exists(row'[k])
    <3>1. CASE Announce(w)
      BY <1>2, <3>1 DEF Announce
    <3>2. CASE Reset(w)
      BY <1>2, <3>2 DEF Reset, NoRow, NoExists
    <3>3. ASSUME NEW x \in Keys, RemoveRow(w, x)
          PROVE  ~NoExists(row[k]) \/ Exists(row'[k])
      BY <1>1, <1>2, <3>3, DataAssumption DEF RemoveRow, Commit, Loadable, Exists, NoExists
    <3>4. ASSUME NEW x \in Keys, RemoveFails(w, x)
          PROVE  ~NoExists(row[k]) \/ Exists(row'[k])
      BY <1>2, <3>4 DEF RemoveFails
    <3>5. ASSUME NEW x \in Keys, NEW data \in Data, SaveRow(w, x, data)
          PROVE  ~NoExists(row[k]) \/ Exists(row'[k])
      BY <1>1, <1>2, <3>5, SaveIsRow DEF SaveRow, Commit, Exists
    <3> QED
      BY <2>1, <3>1, <3>2, <3>3, <3>4, <3>5 DEF WriterStep
  <2>2. CASE ModelStep
    <3>1. ASSUME NEW x \in Keys, Uploaded(x)
          PROVE  ~NoExists(row[k]) \/ Exists(row'[k])
      BY <1>1, <1>2, <3>1, DataAssumption DEF Uploaded, ExistsDeleted, NoExists
    <3>2. ASSUME NEW x \in Keys, NEW data \in Data, setData(x, data)
          PROVE  ~NoExists(row[k]) \/ Exists(row'[k])
      <4>1. row' = row \/ row' = [row EXCEPT ![x] = save(row[x], data)]
        BY <3>2 DEF setData, WriteProperty, storeVars
      <4> QED
        BY <1>1, <1>2, <4>1, SaveIsRow DEF Exists
    <3>3. CASE HandleNews \/ ViewFetches \/ reload \/ \E type \in Types : setTypeId(type)
      BY <1>2, <3>3 DEF HandleNews, ViewFetches, reload, setTypeId, Load, storeVars
    <3> QED
      BY <2>2, <3>1, <3>2, <3>3 DEF ModelStep
  <2> QED
    BY <2>1, <2>2, MigrationAssumption DEF ApplicationStep, WriterStep
<1> QED
  BY <1>1, <1>2

\* What is taken stays taken.
LEMMA HadStays ==
  ASSUME NEW k, Had(k), taken \subseteq taken', discarded => discarded'
  PROVE  Had(k)'
  BY DEF Had

LEMMA EntryIsTaken ==
  ASSUME ModelInv, JobsInv, NEW j \in Jobs, MigrateEntry(j)
  PROVE  JobsInv'
<1>0. PICK n \in 1..Len(Entries) : n = job[j].next
  BY Typed, EntriesListed DEF MigrateEntry, Job
<1> DEFINE k == Entries[n]
<1>1. /\ job[j] \in Job /\ n \in 1..Len(Entries) /\ k \in Keys /\ k \in ToSet(Entries)
      /\ At(j, "entries") /\ job[j].next = n
  BY <1>0, Typed, EntriesListed DEF MigrateEntry
<1>2. /\ job' = [job EXCEPT ![j].next = n + 1] /\ old' = old /\ lock' = lock
      /\ discarded' = discarded
  BY <1>1 DEF MigrateEntry, Advance
<1>3. /\ job' \in [Jobs -> Job] /\ job'[j].next = n + 1
      /\ \A i \in Jobs : job'[i].at = job[i].at /\ job'[i].flags = job[i].flags
      /\ \A i \in Jobs : i # j => job'[i].next = job[i].next
  <2>1. n + 1 \in 1..Len(Entries) + 1
    BY <1>1, EntriesListed
  <2>2. [job[j] EXCEPT !.next = n + 1] \in Job
    BY <1>1, <2>1 DEF Job
  <2> QED
    BY <1>1, <1>2, <2>1, <2>2, Typed DEF Job
<1>4. /\ taken \subseteq taken' /\ taken' \subseteq Keys
      /\ \A x \in Keys : ~NoExists(row'[x]) => x \in taken'
      /\ Skips(j, k) => taken' = taken
      /\ ~Skips(j, k) => k \in taken'
  <2>1. CASE Skips(j, k)
    BY <1>1, <2>1, Typed DEF MigrateEntry
  <2>2. CASE ~Skips(j, k)
    <3>1. row' = [row EXCEPT ![k] = Migrated(j, k)] /\ taken' = taken \cup {k}
      BY <1>1, <2>2 DEF MigrateEntry, Commit
    <3> HIDE DEF k
    <3> QED
      BY <1>1, <2>2, <3>1, Typed
  <2> QED
    BY <2>1, <2>2
<1> HIDE DEF k
<1>5. Had(k)'
  <2>1. CASE Skips(j, k)
    <3>1. ~discarded /\ Changed[k] # 2 /\ k \in Readable => k \in taken
      BY <1>1, <2>1, Typed DEF Skips
    <3> QED
      BY <1>2, <1>4, <3>1 DEF Had
  <2>2. CASE ~Skips(j, k)
    BY <1>4, <2>2 DEF Had
  <2> QED
    BY <2>1, <2>2
<1>6. \A i \in Jobs : \A place : At(i, place)' <=> At(i, place)
  BY <1>3 DEF At
<1>7. ASSUME NEW i \in Jobs, At(i, "entries"), NEW e \in 1..Len(Entries), e < job'[i].next
      PROVE  Had(Entries[e])'
  <2>1. CASE i = j
    <3>1. e = n \/ e < n
      BY <1>1, <1>3, <1>7, <2>1
    <3>2. CASE e = n
      BY <1>5, <3>2 DEF k
    <3>3. CASE e < n
      BY <1>1, <1>2, <1>4, <3>3, HadStays DEF JobsInv
    <3> QED
      BY <3>1, <3>2, <3>3
  <2>2. CASE i # j
    BY <1>2, <1>3, <1>4, <1>7, <2>2, HadStays DEF JobsInv
  <2> QED
    BY <2>1, <2>2
<1>8. ASSUME NEW i \in Jobs, At(i, "cleanup"), "data" \in job[i].flags, NEW e \in 1..Len(Entries)
      PROVE  Had(Entries[e])'
  BY <1>2, <1>4, <1>8, HadStays DEF JobsInv
<1>9. NothingIsLost'
  BY <1>2, <1>4 DEF JobsInv, NothingIsLost
<1>10. \A i \in Jobs : At(i, "idle")' => job'[i].next = 1
  BY <1>1, <1>3, <1>6 DEF JobsInv, At
<1>11. \A i \in Jobs : At(i, "entries") => lock' = i
  BY <1>2 DEF JobsInv
<1>12. /\ old' \in [there : BOOLEAN, db : BOOLEAN, files : SUBSET Readable]
       /\ lock' \in Jobs \cup {Nobody} /\ discarded' \in BOOLEAN
  BY <1>2 DEF JobsInv
<1> QED
  BY <1>3, <1>4, <1>6, <1>7, <1>8, <1>9, <1>10, <1>11, <1>12 DEF JobsInv

\* Files of the old directory are gone.
LEMMA CutOffOld ==
  ASSUME old \in [there : BOOLEAN, db : BOOLEAN, files : SUBSET Readable], CutOff
  PROVE  old' \in [there : BOOLEAN, db : BOOLEAN, files : SUBSET Readable]
<1>1. PICK files \in SUBSET old.files, db \in {FALSE, old.db} :
        old' = [old EXCEPT !.db = db, !.files = files]
  BY DEF CutOff
<1>2. old' = [there |-> old.there, db |-> db, files |-> files]
  BY <1>1
<1> QED
  BY <1>2

\* Once a job that has migrated the data cleans up, whatever it removes has been taken.
LEMMA CleanedUp ==
  ASSUME JobsInv, NEW j \in Jobs, Removes(j), ~Discards(j)
  PROVE  \A k \in Readable \cap ToSet(Entries) : ~discarded /\ Changed[k] # 2 => k \in taken
  BY EntriesListed DEF JobsInv, Had, Removes, Discards

\* The other steps of jobs: none gets further than before.
LEMMA JobsKept ==
  ASSUME ModelInv, JobsInv, taken' = taken, row' = row, job' \in [Jobs -> Job],
         lock' \in Jobs \cup {Nobody}, discarded' \in BOOLEAN, discarded => discarded',
         old' \in [there : BOOLEAN, db : BOOLEAN, files : SUBSET Readable],
         NothingIsLost',
         \A i \in Jobs : At(i, "idle")' => At(i, "idle") /\ job'[i].next = job[i].next,
         \A i \in Jobs : At(i, "entries")' =>
           /\ lock' = i
           /\ \/ job'[i].next = 1
              \/ At(i, "entries") /\ job'[i].next = job[i].next,
         \A i \in Jobs : At(i, "cleanup")' /\ "data" \in job'[i].flags =>
           \/ At(i, "cleanup") /\ job'[i].flags = job[i].flags
           \/ At(i, "entries") /\ job[i].next > Len(Entries)
  PROVE  JobsInv'
<1>1. \A k : Had(k) => Had(k)'
  BY DEF Had
<1>2. \A k \in Keys : ~NoExists(row'[k]) => k \in taken'
  BY Typed
<1>3. ASSUME NEW i \in Jobs, At(i, "entries")', NEW e \in 1..Len(Entries), e < job'[i].next
      PROVE  Had(Entries[e])'
  BY <1>1, <1>3 DEF JobsInv
<1>4. ASSUME NEW i \in Jobs, At(i, "cleanup")', "data" \in job'[i].flags, NEW e \in 1..Len(Entries)
      PROVE  Had(Entries[e])'
  <2>1. CASE At(i, "cleanup") /\ job'[i].flags = job[i].flags
    BY <1>1, <1>4, <2>1 DEF JobsInv
  <2>2. CASE At(i, "entries") /\ job[i].next > Len(Entries)
    <3>1. e < job[i].next
      BY <2>2, EntriesListed, Typed DEF Job
    <3> QED
      BY <1>1, <2>2, <3>1 DEF JobsInv
  <2> QED
    BY <1>4, <2>1, <2>2
<1>5. taken' \subseteq Keys
  BY Typed
<1> QED
  BY <1>2, <1>3, <1>4, <1>5 DEF JobsInv

LEMMA JobsInvIsKept ==
  ASSUME ModelInv, JobsInv, Next
  PROVE  JobsInv'
<1>1. /\ old \in [there : BOOLEAN, db : BOOLEAN, files : SUBSET Readable]
      /\ lock \in Jobs \cup {Nobody} /\ job \in [Jobs -> Job]
      /\ \A i \in Jobs : At(i, "entries") => lock = i
      /\ discarded \in BOOLEAN /\ NothingIsLost
  BY DEF JobsInv
<1>2. ASSUME NEW j \in Jobs, MigrateEntry(j)
      PROVE  JobsInv'
  BY <1>2, EntryIsTaken
<1>3. ASSUME NEW j \in Jobs, EndEntries(j)
      PROVE  JobsInv'
  <2>1. /\ job' = [job EXCEPT ![j].at = "cleanup"] /\ Release(j)
        /\ At(j, "entries") /\ job[j].next > Len(Entries)
        /\ UNCHANGED <<row, old, taken, discarded>>
    BY <1>3 DEF EndEntries, itemVars
  <2>2. [job[j] EXCEPT !.at = "cleanup"] \in Job
    BY <1>1 DEF Job
  <2>3. /\ job' \in [Jobs -> Job] /\ job'[j].at = "cleanup"
        /\ \A i \in Jobs : i # j => job'[i] = job[i]
    BY <1>1, <2>1, <2>2 DEF Job
  <2>4. lock' \in Jobs \cup {Nobody} /\ \A i \in Jobs : i # j /\ lock = i => lock' = i
    BY <1>1, <2>1 DEF Release
  <2>5. NothingIsLost'
    BY <1>1, <2>1 DEF NothingIsLost
  <2>6. \A i \in Jobs : At(i, "entries")' => i # j
    BY <2>3 DEF At
  <2>0. \A i \in Jobs : At(i, "idle")' => At(i, "idle") /\ job'[i].next = job[i].next
    BY <2>3 DEF At
  <2>7. \A i \in Jobs : At(i, "entries")' => lock' = i /\ At(i, "entries") /\ job'[i].next = job[i].next
    BY <1>1, <2>3, <2>4, <2>6 DEF At
  <2>8. \A i \in Jobs : At(i, "cleanup")' /\ "data" \in job'[i].flags =>
           \/ At(i, "cleanup") /\ job'[i].flags = job[i].flags
           \/ At(i, "entries") /\ job[i].next > Len(Entries)
    BY <2>1, <2>3 DEF At
  <2> QED
    BY <1>1, <2>0, <2>1, <2>3, <2>4, <2>5, <2>7, <2>8, JobsKept
<1>4. ASSUME NEW j \in Jobs, Cleanup(j)
      PROVE  JobsInv'
  <2>1. /\ job' = [job EXCEPT ![j] = NoJob("over")] /\ Release(j) /\ At(j, "cleanup")
        /\ UNCHANGED <<row, taken>>
        /\ \/ old' = old
           \/ Removes(j) /\ old' = [there |-> FALSE, db |-> FALSE, files |-> {}]
           \/ Removes(j) /\ CutOff
        /\ discarded' = (discarded \/ Discards(j))
    BY <1>4 DEF Cleanup, storeVars
  <2>2. NoJob("over") \in Job /\ NoJob("over").at = "over"
    BY EntriesListed DEF NoJob, Job
  <2>3. /\ job' \in [Jobs -> Job] /\ job'[j].at = "over"
        /\ \A i \in Jobs : i # j => job'[i] = job[i]
    BY <1>1, <2>1, <2>2
  <2>4. lock' \in Jobs \cup {Nobody} /\ \A i \in Jobs : i # j /\ lock = i => lock' = i
    BY <1>1, <2>1 DEF Release
  <2>5. old' \in [there : BOOLEAN, db : BOOLEAN, files : SUBSET Readable]
    <3>1. CASE old' = [there |-> FALSE, db |-> FALSE, files |-> {}]
      BY <3>1
    <3>2. CASE CutOff
      BY <1>1, <3>2, CutOffOld
    <3> QED
      BY <1>1, <2>1, <3>1, <3>2
  <2>6. NothingIsLost'
    <3>1. CASE old' = old
      BY <1>1, <2>1, <3>1 DEF NothingIsLost
    <3>2. CASE Removes(j) /\ ~Discards(j)
      BY <2>1, <3>2, CleanedUp DEF NothingIsLost
    <3>3. CASE Discards(j)
      BY <2>1, <3>3 DEF NothingIsLost
    <3> QED
      BY <2>1, <3>1, <3>2, <3>3
  <2>9. discarded' \in BOOLEAN /\ (discarded => discarded')
    BY <2>1
  <2>0. \A i \in Jobs : At(i, "idle")' => At(i, "idle") /\ job'[i].next = job[i].next
    BY <2>3 DEF At
  <2>7. \A i \in Jobs : At(i, "entries")' => lock' = i /\ At(i, "entries") /\ job'[i].next = job[i].next
    BY <1>1, <2>3, <2>4 DEF At
  <2>8. \A i \in Jobs : At(i, "cleanup")' => At(i, "cleanup") /\ job'[i].flags = job[i].flags
    BY <2>3 DEF At
  <2> QED
    BY <2>0, <2>1, <2>3, <2>4, <2>5, <2>6, <2>7, <2>8, <2>9, JobsKept
<1>5. ASSUME NEW j \in Jobs, NEW flags \in FlagSets, run(j, flags)
      PROVE  JobsInv'
  <2> DEFINE new == IF Place(flags) = "over" THEN NoJob("over")
                    ELSE [job[j] EXCEPT !.at = Place(flags), !.flags = flags]
  <2>1. /\ job' = [job EXCEPT ![j] = new] /\ UNCHANGED <<row, old, taken, discarded>>
        /\ lock' = IF Place(flags) = "entries" THEN j ELSE lock
        /\ At(j, "idle")
    BY <1>5 DEF run, itemVars
  <2>2. /\ Place(flags) \in {"over", "entries", "cleanup"}
        /\ Place(flags) = "entries" => lock = Nobody
        /\ Place(flags) = "cleanup" => "data" \notin flags
    BY DEF Place, Fails, NothingToDo
  <2>3. /\ new \in Job
        /\ new.at = Place(flags)
        /\ new.flags = IF Place(flags) = "over" THEN {} ELSE flags
        /\ Place(flags) # "over" => new.next = job[j].next
    <3>1. CASE Place(flags) = "over"
      BY <3>1, EntriesListed DEF NoJob, Job
    <3>2. CASE Place(flags) # "over"
      BY <1>1, <2>2, <3>2 DEF Job
    <3> QED
      BY <3>1, <3>2
  <2> HIDE DEF new
  <2>4. /\ job' \in [Jobs -> Job] /\ job'[j] = new
        /\ \A i \in Jobs : i # j => job'[i] = job[i]
    BY <1>1, <2>1, <2>3
  <2> QED
    <3>1. lock' \in Jobs \cup {Nobody}
      BY <1>1, <2>1
    <3>2. NothingIsLost'
      BY <1>1, <2>1 DEF NothingIsLost
    <3>3. \A i \in Jobs : i # j /\ At(i, "entries") => lock' = i
      BY <1>1, <2>1, <2>2, MigrationAssumption
    <3>4. \A i \in Jobs : At(i, "entries")' =>
            /\ lock' = i
            /\ \/ job'[i].next = 1
               \/ At(i, "entries") /\ job'[i].next = job[i].next
      <4>1. ASSUME At(j, "entries")'
            PROVE  lock' = j /\ job'[j].next = 1
        <5>1. Place(flags) = "entries"
          BY <2>3, <2>4, <4>1 DEF At
        <5>2. job[j].next = 1
          BY <2>1 DEF JobsInv
        <5> QED
          BY <1>1, <2>1, <2>2, <2>3, <2>4, <5>1, <5>2
      <4>2. \A i \in Jobs : i # j /\ At(i, "entries")' =>
              lock' = i /\ At(i, "entries") /\ job'[i].next = job[i].next
        BY <2>4, <3>3 DEF At
      <4> QED
        BY <4>1, <4>2
    <3>5. \A i \in Jobs : At(i, "idle")' => At(i, "idle") /\ job'[i].next = job[i].next
      BY <2>2, <2>3, <2>4 DEF At
    <3>6. \A i \in Jobs : At(i, "cleanup")' /\ "data" \in job'[i].flags =>
             At(i, "cleanup") /\ job'[i].flags = job[i].flags
      BY <2>2, <2>3, <2>4 DEF At
    <3> QED
      BY <1>1, <2>1, <2>4, <3>1, <3>2, <3>4, <3>5, <3>6, JobsKept
<1>6. CASE ApplicationStep
  <2>1. UNCHANGED <<old, lock, job, discarded>>
    BY <1>6 DEF ApplicationStep
  <2>2. /\ taken \subseteq taken' /\ taken' \subseteq Keys
        /\ \A k \in Keys : ~NoExists(row'[k]) => k \in taken'
    BY <1>6, RowsAreTaken
  <2>3. \A i \in Jobs : \A place : At(i, place)' <=> At(i, place)
    BY <2>1 DEF At
  <2>4. ASSUME NEW i \in Jobs, At(i, "entries"), NEW e \in 1..Len(Entries), e < job[i].next
        PROVE  Had(Entries[e])'
    BY <2>1, <2>2, <2>4, HadStays DEF JobsInv
  <2>5. ASSUME NEW i \in Jobs, At(i, "cleanup"), "data" \in job[i].flags, NEW e \in 1..Len(Entries)
        PROVE  Had(Entries[e])'
    BY <2>1, <2>2, <2>5, HadStays DEF JobsInv
  <2>6. NothingIsLost'
    BY <1>1, <2>1, <2>2 DEF NothingIsLost
  <2> QED
    BY <2>1, <2>2, <2>3, <2>4, <2>5, <2>6 DEF JobsInv
<1>7. CASE Ended
  <2>1. /\ lock' = Nobody /\ UNCHANGED <<row, taken>>
        /\ job' = [j \in Jobs |-> IF At(j, "idle") THEN job[j] ELSE NoJob("over")]
        /\ old' = old \/ (CutOff /\ \E j \in Jobs : Removes(j))
        /\ discarded' = (discarded \/ \E j \in Jobs : Discards(j))
    BY <1>7 DEF Ended, storeVars
  <2>2. NoJob("over") \in Job /\ NoJob("over").at = "over"
    BY EntriesListed DEF NoJob, Job
  <2>3. /\ job' \in [Jobs -> Job]
        /\ \A i \in Jobs : job'[i].at \in {"idle", "over"}
        /\ \A i \in Jobs : At(i, "idle")' => At(i, "idle") /\ job'[i].next = job[i].next
    BY <1>1, <2>1, <2>2 DEF At
  <2>4. old' \in [there : BOOLEAN, db : BOOLEAN, files : SUBSET Readable]
    BY <1>1, <2>1, CutOffOld
  <2>5. NothingIsLost'
    <3>1. CASE old' = old
      BY <1>1, <2>1, <3>1 DEF NothingIsLost
    <3>2. CASE \E j \in Jobs : Removes(j) /\ ~Discards(j)
      BY <2>1, <3>2, CleanedUp DEF NothingIsLost
    <3>3. CASE \E j \in Jobs : Discards(j)
      BY <2>1, <3>3 DEF NothingIsLost
    <3> QED
      BY <2>1, <3>1, <3>2, <3>3
  <2>7. discarded' \in BOOLEAN /\ (discarded => discarded')
    BY <2>1
  <2>6. \A i \in Jobs : ~At(i, "entries")' /\ ~At(i, "cleanup")'
    BY <2>3 DEF At
  <2> QED
    BY <2>1, <2>3, <2>4, <2>5, <2>6, <2>7, JobsKept
<1> QED
  BY <1>2, <1>3, <1>4, <1>5, <1>6, <1>7 DEF Next, MigrationStep, Crash, EntryThrows

LEMMA FirstInvs ==
  ASSUME Init
  PROVE  ModelInv /\ JobsInv
<1>1. PICK there \in SUBSET Keys :
        /\ row = [k \in Keys |-> IF k \in there THEN MakeRow(1, OldData[k], FALSE) ELSE NoRow]
        /\ torn = {} /\ posting = [w \in Writers |-> NoNews] /\ news = << >>
        /\ model = Empty(NoType) /\ misled = {} /\ taken = there
  BY DEF Init, ItemInit
<1>2. \A k \in Keys : MakeRow(1, OldData[k], FALSE) \in Row /\ NoRow \in Row
  BY MigrationAssumption DEF MakeRow, Row, NoRow
<1>3. StoreOK
  <2>1. row \in [Keys -> Row]
    BY <1>1, <1>2
  <2>2. posting \in [Writers -> News \cup {NoNews}] /\ news \in Seq(News)
    BY <1>1
  <2> QED
    BY <1>1, <2>1, <2>2 DEF StoreOK
<1>4. GoodModel(model) /\ DOMAIN model.dataHash = {} /\ model.type = NoType
  BY <1>1, EmptyIsGood
<1>5. ListIsKnown /\ DataIsKnown
  BY <1>4, ItemModelAssumption DEF ListIsKnown, DataIsKnown
<1>6. /\ old = [there |-> TRUE, db |-> TRUE, files |-> Readable] /\ lock = Nobody
      /\ discarded = FALSE
      /\ job = [j \in Jobs |-> NoJob("idle")]
  BY DEF Init
<1>7. /\ NoJob("idle") \in Job /\ NoJob("idle").at = "idle" /\ NoJob("idle").next = 1
  BY EntriesListed DEF NoJob, Job
<1>8. \A k \in Keys : ~NoExists(row[k]) => k \in taken
  BY <1>1 DEF NoExists, NoRow
<1>9. NothingIsLost
  BY <1>6 DEF NothingIsLost
<1>10. \A j \in Jobs : job[j].at = "idle" /\ job[j].next = 1
  BY <1>6, <1>7
<1>11. JobsInv
  BY <1>1, <1>6, <1>7, <1>8, <1>9, <1>10 DEF JobsInv, At
<1> QED
  BY <1>3, <1>4, <1>5, <1>11 DEF ModelInv

LEMMA InvsHold == Spec => [](ModelInv /\ JobsInv)
<1>1. ASSUME ModelInv, JobsInv, [Next]_vars
      PROVE  ModelInv' /\ JobsInv'
  <2>1. CASE Next
    BY <1>1, <2>1, ModelInvIsKept, JobsInvIsKept
  <2>2. CASE UNCHANGED vars
    <3>1. UNCHANGED <<row, torn, posting, news, model, misled>> /\ UNCHANGED <<old, lock, job, taken, discarded>>
      BY <2>2 DEF vars, itemVars
    <3>2. ModelInv'
      BY <1>1, <3>1, Unconcerned
    <3>3. NothingIsLost'
      BY <1>1, <3>1 DEF JobsInv, NothingIsLost
    <3>4. JobsInv'
      BY <1>1, <3>1, <3>3 DEF JobsInv, At, Had
    <3> QED
      BY <3>2, <3>4
  <2> QED
    BY <1>1, <2>1, <2>2
<1> QED
  BY FirstInvs, <1>1, PTL DEF Spec

\* An item model lists exactly the datasets of its type that exist and shows what
\* is stored, once every announcement has been handled (storeChanged, fetchMore),
\* however many threads save, remove and announce in whatever order, for any
\* number of datasets and any FetchSize; where it cannot, the model itself
\* has noticed (stale, blind), or the announcements came in the wrong order.
THEOREM ModelsAreCurrent == Spec => []ModelIsCurrent
<1>1. ASSUME ModelInv
      PROVE  ModelIsCurrent
  <2> SUFFICES ASSUME news = << >>, \A w \in Writers : posting[w] = NoNews, ~model.blind
               PROVE  /\ ToSet(model.keyList) \ misled = KeysOf(model.type) \ misled
                      /\ \A k \in activeKeys(model) \ model.stale :
                           model.dataHash[k] = row[k].content
    BY DEF ModelIsCurrent
  <2>1. GoodModel(model) /\ ListIsKnown /\ DataIsKnown /\ model.keyList \in Seq(Keys)
    BY <1>1 DEF ModelInv, GoodModel
  <2>2. \A k \in Keys : ~Awaited(k)
    <3>1. DOMAIN news = {}
      OBVIOUS
    <3> QED
      BY <3>1, NoNewsTellsNothing DEF Awaited
  <2>3. \A k \in ToSet(model.keyList) : k \in Keys /\ TypeOf[k] = model.type
    BY <2>1, Members DEF GoodModel
  <2>4. activeKeys(model) = DOMAIN model.dataHash /\ DOMAIN model.dataHash \subseteq Keys
    BY <2>1, FetchedFirst DEF GoodModel, First
  <2>5. ToSet(model.keyList) \ misled = KeysOf(model.type) \ misled
    BY <2>1, <2>2, <2>3 DEF ListIsKnown, KeysOf
  <2>6. \A k \in activeKeys(model) \ model.stale : model.dataHash[k] = row[k].content
    BY <2>1, <2>2, <2>4 DEF DataIsKnown, Stored
  <2> QED
    BY <2>5, <2>6
<1> QED
  BY InvsHold, <1>1, PTL

\* No migration loses anything: whatever a readable file of the old store holds
\* stays in the old directory until the current store has had it (MigrationRunnable,
\* run), for any number of migrations, entries and crashes, in any order, as long as
\* none of them has been told to remove the directory without migrating it.
THEOREM OldDataIsSafe == Spec => []NothingIsLost
<1>1. JobsInv => NothingIsLost
  BY DEF JobsInv
<1> QED
  BY InvsHold, <1>1, PTL
================================================================================
