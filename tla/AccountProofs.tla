----------------------------- MODULE AccountProofs -----------------------------
(***************************************************************************)
(* Theorems about accounts and their exchange keys, for every set of       *)
(* devices, any number of exports, imports, key changes and lost           *)
(* connections, and all orders of messages, calls and transactions.        *)
(***************************************************************************)
EXTENDS Account, SequenceTheorems, TLAPS

--------------------------------------------------------------------------------
(* The invariant, of what a world w holds: its devices, the server's tables,  *)
(* the history and the counters.                                             *)

World == [device |-> device, tables |-> tables, history |-> history, used |-> used]

HistoryKeys(w) ==
  /\ DOMAIN w.history.keys = 0..w.tables.keycount
  /\ \A i \in 0..w.tables.keycount : w.history.keys[i] \in Key /\ w.history.keys[i].index = i

\* A mac or a signature with the key k fits the device with the id: the device has
\* used the key or uses it, or has made it for an index the server has accepted.
Fits(w, id, k) ==
  LET r == w.device[id[1]] IN
  /\ r.attempt < id[2] => k = NoKey
  /\ r.attempt = id[2] /\ k # NoKey =>
       \/ k.index < r.ring.local
       \/ k.index = r.ring.local /\ k = CurrentKey(r.ring)
       \/ /\ k.index > r.ring.local /\ k.index <= w.tables.keycount
          /\ k.maker = id[1] /\ k = w.history.keys[k.index]

\* As long as the index can become the next one, no device lags behind.
Free(w, i) ==
  /\ i \in Nat /\ i <= w.tables.keycount + 1
  /\ i = w.tables.keycount + 1 => w.tables.changes = {}

\* The key a partner hands on: the account's, or one it has activated itself.
Handed(w, i, key) ==
  /\ i \in Nat /\ i <= w.tables.keycount /\ key \in Key /\ key.index = i
  /\ key = w.history.keys[i] \/ key.maker = Partner

\* A device is never ahead of the server, and only its own key can be prepared.
GoodRing(w, d, ring) ==
  /\ ring.local <= w.tables.keycount
  /\ \A i \in DOMAIN ring.keys :
       ring.keys[i].index = i /\ (i > ring.local => ring.keys[i].maker = d)

Shared(w, d, key) ==
  \/ key = w.history.keys[key.index]
  \/ key.maker = d
  \/ key.maker = Partner /\ d \notin Members

GoodDevice(w, d, r) ==
  /\ r = [state |-> r.state, registered |-> r.registered, attempt |-> r.attempt,
          sendCmac |-> r.sendCmac, import |-> r.import, exports |-> r.exports,
          proofs |-> r.proofs, prepared |-> r.prepared, ring |-> r.ring]
  /\ r.ring = [local |-> r.ring.local, next |-> r.ring.next, keys |-> r.ring.keys]
  /\ IsDevice(r) /\ GoodRing(w, d, r.ring)
  /\ d \in Members => r.registered
  /\ r.state \in {"login", "idle"} => r.registered
  /\ r.state = "granting" => ~r.registered
  /\ r.attempt <= w.used.attempts
  /\ r.registered => Shared(w, d, CurrentKey(r.ring))

GoodUp(w, d, m) ==
  LET r == w.device[d] IN
  /\ m.type = "remove" => m.id \in Ids
  /\ m.type = "accept" => m.id \in w.history.granted /\ Handed(w, m.index, m.key)
  /\ m.type = "mac" => m.key \in Key /\ Fits(w, <<d, r.attempt>>, m.key)
  /\ m.type = "newKey" =>
       /\ Free(w, m.index) /\ m.index > 0
       /\ m.key = [index |-> m.index, maker |-> d]
       /\ m.index > r.ring.local => HasKey(r.ring, m.index)
       /\ m.verify \in Key /\ m.verify.index = m.index - 1
       /\ \A id \in m.receivers : id \in Ids /\ Fits(w, id, m.verify)

GoodCall(w, m) ==
  /\ m.type # "proofResult" => m.id \in Ids
  /\ m.type = "proofResult" /\ m.success => m.id \in w.history.granted /\ Handed(w, m.index, m.key)

\* A key change brings a key the server has accepted, signed with the one before.
GoodChange(w, c) ==
  /\ c \in KeyChange
  /\ c.key.index > 0 /\ c.key.index <= w.tables.keycount
  /\ c.key = w.history.keys[c.key.index] /\ c.verify.index = c.key.index - 1

GoodDown(w, d, m) ==
  LET r == w.device[d] IN
  /\ m.type \in {"proof", "acceptAck"} => m.id \in Ids
  /\ m.type = "welcome" => \A c \in m.changes : GoodChange(w, c)
  /\ m.type = "newKeyAck" =>
       /\ m.index \in Nat /\ m.index <= w.tables.keycount
       /\ m.index > r.ring.local => HasKey(r.ring, m.index)
  /\ m.type = "grant" => Handed(w, m.index, m.key)
  /\ m.type = "deviceKeys" =>
       IF m.duplicated THEN m.index \in Nat /\ m.index <= w.tables.keycount
       ELSE /\ Free(w, m.index)
            /\ \A id \in DOMAIN m.macs :
                 id \in Ids /\ m.macs[id] \in Key \cup {NoKey} /\ Fits(w, id, m.macs[id])

\* The indices a device may take for its current key when it handles a message.
Raises(m) ==
  CASE m.type \in {"newKeyAck", "grant"} -> {m.index}
    [] m.type = "deviceKeys" -> IF m.duplicated THEN {m.index} ELSE {}
    [] m.type = "welcome" -> {c.key.index : c \in m.changes}
    [] OTHER -> {}

\* When a device is asked for a new key, it will still use an earlier one.
Ahead(local, down) ==
  \A p \in 1..Len(down) :
    down[p].type = "deviceKeys" /\ ~down[p].duplicated =>
      /\ local < down[p].index
      /\ \A q \in 1..p-1 : \A j \in Raises(down[q]) : j < down[p].index

IsSeq(s) == \E S : s \in Seq(S)

IsLink(l) ==
  /\ l = [server |-> l.server, id |-> l.id, up |-> l.up, calls |-> l.calls,
          down |-> l.down, route |-> l.route]
  /\ l.server \in {"none", "auth", "waiting", "idle", "error"}
  /\ l.route \in {"none", "asked", "ack"}
  /\ l.id \in 0..MaxAttempts
  /\ IsSeq(l.up) /\ IsSeq(l.calls) /\ IsSeq(l.down)

\* How far a device and its client are, and what they can have sent.
Phase(w, d, l) ==
  LET r == w.device[d] IN
  /\ l.server = "none" <=> r.state \in {"off", "failed"}
  /\ l.server = "none" => l = NoLink
  /\ l.server = "auth" => l.down = << >> /\ r.state \in {"login", "granting"}
  /\ r.state = "idle" => l.id = r.attempt
  /\ r.state = "login" => \A m \in Range(l.down) : m.type = "welcome" => l.id = r.attempt
  /\ r.state \in {"login", "granting"} => \A m \in Range(l.up) : m.type \in {"login", "access"}
  /\ r.state = "granting" =>
       /\ l.server = "waiting" => r.attempt < l.id /\ l.id <= w.used.attempts
       /\ \A m \in Range(l.down) :
            /\ m.type # "newKeyAck"
            /\ m.type = "grant" =>
                 m.id = <<d, l.id>> /\ r.attempt < l.id /\ l.id <= w.used.attempts

Contents(w, d, l) ==
  /\ \A m \in Range(l.up) : GoodUp(w, d, m)
  /\ \A m \in Range(l.calls) : GoodCall(w, m)
  /\ \A m \in Range(l.down) : GoodDown(w, d, m)

GoodLink(w, d, l) ==
  IsLink(l) /\ Phase(w, d, l) /\ Contents(w, d, l) /\ Ahead(w.device[d].ring.local, l.down)

GoodTables(w) ==
  /\ IsTables(w.tables)
  /\ \A id \in DOMAIN w.tables.keymac : Fits(w, id, w.tables.keymac[id])
  /\ \A c \in w.tables.changes :
       /\ GoodChange(w, c) /\ c.key.index = w.tables.keycount /\ Fits(w, c.id, c.verify)
       /\ \A o \in w.tables.changes : o.id = c.id => o = c

\* What has been done, and what the bounds allow.
GoodCounters(w) ==
  /\ w.used = [events |-> w.used.events, exports |-> w.used.exports, attempts |-> w.used.attempts]
  /\ w.used.events \in 0..MaxEvents /\ w.used.exports \in 0..w.used.events
  /\ w.used.attempts \in 0..MaxAttempts
  /\ w.history = [keys |-> w.history.keys, granted |-> w.history.granted, joined |-> w.history.joined]
  /\ \A j \in w.history.joined : j.id \in w.history.granted

GoodWorld(w) ==
  /\ HistoryKeys(w) /\ GoodTables(w) /\ GoodCounters(w)
  /\ w.tables = [keycount |-> w.tables.keycount, changes |-> w.tables.changes,
                 keymac |-> w.tables.keymac]
  /\ w.device = [d \in Devices |-> w.device[d]]
  /\ \A d \in Devices : GoodDevice(w, d, w.device[d])

Routes(L) ==
  \A d \in Devices : L[d].route # "none" => L[Partner].server \in {"idle", "error"}

AccountInv ==
  /\ GoodWorld(World)
  /\ link = [d \in Devices |-> link[d]]
  /\ \A d \in Devices : GoodLink(World, d, link[d])
  /\ Routes(link)
  /\ kicked \subseteq Ids

--------------------------------------------------------------------------------
(* Sequences.                                                                *)

LEMMA EmptyIsSeq == IsSeq(<< >>) /\ Range(<< >>) = {}
<1>1. << >> \in Seq({})
  OBVIOUS
<1>2. IsSeq(<< >>)
  BY <1>1 DEF IsSeq
<1>3. DOMAIN << >> = {}
  OBVIOUS
<1>4. Range(<< >>) = {}
  BY <1>3 DEF Range
<1> QED
  BY <1>2, <1>4

LEMMA SeqElements ==
  ASSUME NEW s, IsSeq(s)
  PROVE  /\ Len(s) \in Nat /\ DOMAIN s = 1..Len(s)
         /\ \A m : m \in Range(s) <=> \E k \in 1..Len(s) : s[k] = m
<1>1. Len(s) \in Nat /\ DOMAIN s = 1..Len(s)
  BY DEF IsSeq
<1>2. \A m : m \in Range(s) <=> \E k \in DOMAIN s : s[k] = m
  BY DEF Range
<1> QED
  BY <1>1, <1>2

LEMMA SingleSeq ==
  ASSUME NEW a
  PROVE  IsSeq(<<a>>) /\ Range(<<a>>) = {a} /\ Len(<<a>>) = 1 /\ <<a>>[1] = a
<1>1. <<a>> \in Seq({a}) /\ DOMAIN <<a>> = {1} /\ <<a>>[1] = a /\ Len(<<a>>) = 1
  OBVIOUS
<1> QED
  BY <1>1 DEF IsSeq, Range

LEMMA LongerSeq ==
  ASSUME NEW s, NEW e, IsSeq(s)
  PROVE  LET n == Append(s, e) IN
         /\ IsSeq(n) /\ Len(n) = Len(s) + 1
         /\ \A k \in 1..Len(s) : n[k] = s[k]
         /\ n[Len(s) + 1] = e
         /\ \A m \in Range(n) : m \in Range(s) \/ m = e
<1>1. PICK S : s \in Seq(S)
  BY DEF IsSeq
<1>2. s \in Seq(S \cup {e}) /\ e \in S \cup {e}
  BY <1>1
<1> DEFINE n == Append(s, e)
<1>3. /\ n \in Seq(S \cup {e}) /\ Len(n) = Len(s) + 1 /\ Len(s) \in Nat
      /\ \A k \in 1..Len(s) : n[k] = s[k]
      /\ n[Len(s) + 1] = e
  BY <1>2, AppendProperties
<1> HIDE DEF n
<1>4. IsSeq(n)
  BY <1>3 DEF IsSeq
<1>5. ASSUME NEW m \in Range(n)
      PROVE  m \in Range(s) \/ m = e
  <2>1. PICK k \in 1..Len(n) : n[k] = m
    BY <1>4, SeqElements
  <2>2. k \in 1..Len(s) \/ k = Len(s) + 1
    BY <1>3
  <2> QED
    BY <1>3, <2>1, <2>2, SeqElements
<1> QED
  BY <1>3, <1>4, <1>5 DEF n

LEMMA ShorterSeq ==
  ASSUME NEW s, IsSeq(s), s # << >>
  PROVE  LET n == Tail(s) IN
         /\ IsSeq(n) /\ Len(n) = Len(s) - 1 /\ Len(s) > 0
         /\ \A k \in 1..Len(n) : n[k] = s[k + 1]
         /\ Head(s) = s[1] /\ Head(s) \in Range(s)
         /\ Range(n) \subseteq Range(s)
<1>1. PICK S : s \in Seq(S)
  BY DEF IsSeq
<1> DEFINE n == Tail(s)
<1>2. /\ n \in Seq(S) /\ Len(n) = Len(s) - 1 /\ Len(s) > 0 /\ Len(s) \in Nat
      /\ \A k \in 1..Len(n) : n[k] = s[k + 1]
      /\ Head(s) = s[1]
  BY <1>1
<1> HIDE DEF n
<1>3. IsSeq(n)
  BY <1>2 DEF IsSeq
<1>4. ASSUME NEW m \in Range(n)
      PROVE  m \in Range(s)
  <2>1. PICK k \in 1..Len(n) : n[k] = m
    BY <1>3, SeqElements
  <2>2. k + 1 \in 1..Len(s) /\ s[k + 1] = m
    BY <1>2, <2>1
  <2> QED
    BY <2>2, SeqElements
<1>5. Head(s) \in Range(s)
  <2>1. 1 \in 1..Len(s)
    BY <1>2
  <2> QED
    BY <1>2, <2>1, SeqElements
<1> QED
  BY <1>2, <1>3, <1>4, <1>5 DEF n

LEMMA JoinedSeq ==
  ASSUME NEW s, NEW t, IsSeq(s), IsSeq(t)
  PROVE  /\ IsSeq(s \o t)
         /\ \A m \in Range(s \o t) : m \in Range(s) \/ m \in Range(t)
<1>1. PICK S : s \in Seq(S)
  BY DEF IsSeq
<1>2. PICK T : t \in Seq(T)
  BY DEF IsSeq
<1> DEFINE n == s \o t
<1>3. s \in Seq(S \cup T) /\ t \in Seq(S \cup T)
  BY <1>1, <1>2
<1>4. /\ n \in Seq(S \cup T) /\ Len(s) \in Nat /\ Len(t) \in Nat /\ Len(n) = Len(s) + Len(t)
      /\ \A k \in 1..Len(n) : n[k] = IF k <= Len(s) THEN s[k] ELSE t[k - Len(s)]
  BY <1>3, ConcatProperties
<1> HIDE DEF n
<1>5. IsSeq(n)
  BY <1>4 DEF IsSeq
<1>6. ASSUME NEW m \in Range(n)
      PROVE  m \in Range(s) \/ m \in Range(t)
  <2>1. PICK k \in 1..Len(n) : n[k] = m
    BY <1>5, SeqElements
  <2>2. \/ k \in 1..Len(s) /\ s[k] = m
        \/ k - Len(s) \in 1..Len(t) /\ t[k - Len(s)] = m
    BY <1>4, <2>1
  <2> QED
    BY <2>2, SeqElements
<1> QED
  BY <1>5, <1>6 DEF n

--------------------------------------------------------------------------------
(* How the world grows.                                                      *)

\* While a device keeps its id it never goes back to an earlier key.
Raised(w, d, old, new) ==
  /\ old.local <= new.local
  /\ new.local = old.local => CurrentKey(new) = CurrentKey(old)
  /\ new.local > old.local =>
       \/ CurrentKey(new) = [index |-> new.local, maker |-> d]
       \/ CurrentKey(new) = w.history.keys[new.local]
  /\ \A i \in DOMAIN old.keys : i > new.local => i \in DOMAIN new.keys

Rise(w, v, d) ==
  LET r == w.device[d]
      s == v.device[d] IN
  \/ s.attempt = r.attempt /\ Raised(w, d, r.ring, s.ring)
  \/ r.state = "granting" /\ r.attempt < s.attempt

Grows(w, v) ==
  /\ \/ v.tables.keycount = w.tables.keycount /\ v.tables.changes \subseteq w.tables.changes
     \/ v.tables.keycount = w.tables.keycount + 1
  /\ \A i \in 0..w.tables.keycount : v.history.keys[i] = w.history.keys[i]
  /\ w.history.granted \subseteq v.history.granted
  /\ w.used.attempts <= v.used.attempts
  /\ \A d \in Devices : Rise(w, v, d) /\ v.device[d].ring.local \in Nat
                        /\ v.device[d].attempt \in Nat

LEMMA Counted ==
  ASSUME NEW w, GoodWorld(w)
  PROVE  /\ w.tables.keycount \in Nat
         /\ \A d \in Devices : w.device[d].ring.local \in Nat /\ w.device[d].attempt \in Nat
<1>1. w.tables.keycount \in Nat
  BY DEF GoodWorld, GoodTables, IsTables
<1>2. ASSUME NEW d \in Devices
      PROVE  w.device[d].ring.local \in Nat /\ w.device[d].attempt \in Nat
  <2>1. IsDevice(w.device[d])
    BY DEF GoodWorld, GoodDevice
  <2> QED
    BY <2>1, AccountAssumption DEF IsDevice, IsRing
<1> QED
  BY <1>1, <1>2

LEMMA FitsKept ==
  ASSUME NEW w, NEW v, GoodWorld(w), Grows(w, v),
         NEW id \in Ids, NEW k \in Key \cup {NoKey}, Fits(w, id, k)
  PROVE  Fits(v, id, k)
<1> DEFINE d == id[1]
           r == w.device[d]
           s == v.device[d]
<1>1. d \in Devices /\ id[2] \in Nat
  BY AccountAssumption DEF Ids
<1>2. k.index \in Nat /\ (k # NoKey => k = [index |-> k.index, maker |-> k.maker])
  BY DEF Key, NoKey
<1>3. /\ r.attempt \in Nat /\ s.attempt \in Nat /\ r.ring.local \in Nat /\ s.ring.local \in Nat
      /\ w.tables.keycount \in Nat /\ v.tables.keycount \in Nat
      /\ w.tables.keycount <= v.tables.keycount
  BY <1>1, Counted DEF Grows
<1>4. Rise(w, v, d)
  BY <1>1 DEF Grows
<1>5. k.index <= w.tables.keycount => v.history.keys[k.index] = w.history.keys[k.index]
  BY <1>2, <1>3 DEF Grows
<1> HIDE DEF d, r, s
<1>6. /\ r.attempt < id[2] => k = NoKey
      /\ r.attempt = id[2] /\ k # NoKey =>
           \/ k.index < r.ring.local
           \/ k.index = r.ring.local /\ k = CurrentKey(r.ring)
           \/ /\ k.index > r.ring.local /\ k.index <= w.tables.keycount
              /\ k.maker = d /\ k = w.history.keys[k.index]
  BY DEF Fits, d, r
<1>7. CASE s.attempt = r.attempt /\ Raised(w, d, r.ring, s.ring)
  <2>1. SUFFICES ASSUME s.attempt = id[2], k # NoKey
                 PROVE  \/ k.index < s.ring.local
                        \/ k.index = s.ring.local /\ k = CurrentKey(s.ring)
                        \/ /\ k.index > s.ring.local /\ k.index <= v.tables.keycount
                           /\ k.maker = d /\ k = v.history.keys[k.index]
    BY <1>3, <1>6, <1>7 DEF Fits, d, s
  <2>2. CASE k.index < r.ring.local
    BY <1>2, <1>3, <1>7, <2>2 DEF Raised
  <2>3. CASE k.index = r.ring.local /\ k = CurrentKey(r.ring)
    BY <1>2, <1>3, <1>7, <2>3 DEF Raised
  <2>4. CASE /\ k.index > r.ring.local /\ k.index <= w.tables.keycount
             /\ k.maker = d /\ k = w.history.keys[k.index]
    <3>1. CASE k.index = s.ring.local
      BY <1>2, <1>3, <1>7, <2>1, <2>4, <3>1 DEF Raised
    <3>2. CASE k.index # s.ring.local
      BY <1>2, <1>3, <1>5, <2>4, <3>2
    <3> QED
      BY <3>1, <3>2
  <2> QED
    BY <1>6, <1>7, <2>1, <2>2, <2>3, <2>4
<1>8. CASE r.state = "granting" /\ r.attempt < s.attempt
  <2>1. s.attempt <= id[2] => k = NoKey
    BY <1>1, <1>3, <1>6, <1>8
  <2> QED
    BY <1>1, <1>3, <2>1 DEF Fits, d, s
<1> QED
  BY <1>4, <1>7, <1>8 DEF Rise, d, r, s

LEMMA FreeKept ==
  ASSUME NEW w, NEW v, GoodWorld(w), Grows(w, v), NEW i, Free(w, i)
  PROVE  Free(v, i)
  BY Counted DEF Grows, Free

LEMMA HandedKept ==
  ASSUME NEW w, NEW v, GoodWorld(w), Grows(w, v), NEW i, NEW key, Handed(w, i, key)
  PROVE  Handed(v, i, key)
  BY Counted DEF Grows, Handed

LEMMA ChangeKept ==
  ASSUME NEW w, NEW v, GoodWorld(w), Grows(w, v), NEW c, GoodChange(w, c)
  PROVE  GoodChange(v, c)
<1>1. c.key.index \in Nat
  BY DEF GoodChange, KeyChange, Key
<1> QED
  BY <1>1, Counted DEF Grows, GoodChange

LEMMA CallKept ==
  ASSUME NEW w, NEW v, GoodWorld(w), Grows(w, v), NEW m, GoodCall(w, m)
  PROVE  GoodCall(v, m)
<1>1. w.history.granted \subseteq v.history.granted
  BY DEF Grows
<1> QED
  BY <1>1, HandedKept DEF GoodCall

\* What a device has sent stays good: one that is granted access has sent nothing else.
LEMMA UpKept ==
  ASSUME NEW w, NEW v, GoodWorld(w), Grows(w, v), NEW d \in Devices, NEW m, GoodUp(w, d, m),
         w.device[d].state = "granting" => m.type \in {"login", "access"}
  PROVE  GoodUp(v, d, m)
<1> DEFINE r == w.device[d]
           s == v.device[d]
<1>1. w.history.granted \subseteq v.history.granted
  BY DEF Grows
<1>2. Rise(w, v, d) /\ r.ring.local \in Nat /\ s.ring.local \in Nat /\ r.attempt \in Nat
  BY Counted DEF Grows
<1>3. m.type = "accept" => m.id \in v.history.granted /\ Handed(v, m.index, m.key)
  BY <1>1, HandedKept DEF GoodUp
<1>4. ASSUME m.type = "mac"
      PROVE  m.key \in Key /\ Fits(v, <<d, s.attempt>>, m.key)
  <2>1. m.key \in Key /\ Fits(w, <<d, r.attempt>>, m.key)
    BY <1>4 DEF GoodUp
  <2>2. s.attempt = r.attempt
    BY <1>2, <1>4 DEF Rise
  <2>3. <<d, r.attempt>> \in Ids
    BY DEF GoodWorld, GoodDevice, IsDevice, Ids
  <2>4. Fits(v, <<d, r.attempt>>, m.key)
    BY <2>1, <2>3, FitsKept
  <2> QED
    BY <2>1, <2>2, <2>4
<1>5. ASSUME m.type = "newKey"
      PROVE  /\ Free(v, m.index) /\ m.index > 0
             /\ m.key = [index |-> m.index, maker |-> d]
             /\ m.index > s.ring.local => HasKey(s.ring, m.index)
             /\ m.verify \in Key /\ m.verify.index = m.index - 1
             /\ \A id \in m.receivers : id \in Ids /\ Fits(v, id, m.verify)
  <2>1. /\ Free(w, m.index) /\ m.index > 0
        /\ m.key = [index |-> m.index, maker |-> d]
        /\ m.index > r.ring.local => HasKey(r.ring, m.index)
        /\ m.verify \in Key /\ m.verify.index = m.index - 1
        /\ \A id \in m.receivers : id \in Ids /\ Fits(w, id, m.verify)
    BY <1>5 DEF GoodUp
  <2>2. Free(v, m.index) /\ m.index \in Nat
    BY <2>1, FreeKept DEF Free
  <2>3. Raised(w, d, r.ring, s.ring)
    BY <1>2, <1>5 DEF Rise
  <2>4. m.index > s.ring.local => HasKey(s.ring, m.index)
    BY <1>2, <2>1, <2>2, <2>3 DEF Raised, HasKey
  <2>5. \A id \in m.receivers : id \in Ids /\ Fits(v, id, m.verify)
    BY <2>1, FitsKept
  <2> QED
    BY <2>1, <2>2, <2>4, <2>5
<1> QED
  BY <1>3, <1>4, <1>5 DEF GoodUp

LEMMA DownKept ==
  ASSUME NEW w, NEW v, GoodWorld(w), Grows(w, v), NEW d \in Devices, NEW m, GoodDown(w, d, m),
         w.device[d].state = "granting" => m.type # "newKeyAck"
  PROVE  GoodDown(v, d, m)
<1> DEFINE r == w.device[d]
           s == v.device[d]
<1>1. /\ Rise(w, v, d) /\ r.ring.local \in Nat /\ s.ring.local \in Nat
      /\ w.tables.keycount \in Nat /\ v.tables.keycount \in Nat
      /\ w.tables.keycount <= v.tables.keycount
  BY Counted DEF Grows
<1>2. m.type = "welcome" => \A c \in m.changes : GoodChange(v, c)
  BY ChangeKept DEF GoodDown
<1>3. m.type = "grant" => Handed(v, m.index, m.key)
  BY HandedKept DEF GoodDown
<1>4. ASSUME m.type = "newKeyAck"
      PROVE  /\ m.index \in Nat /\ m.index <= v.tables.keycount
             /\ m.index > s.ring.local => HasKey(s.ring, m.index)
  <2>1. /\ m.index \in Nat /\ m.index <= w.tables.keycount
        /\ m.index > r.ring.local => HasKey(r.ring, m.index)
    BY <1>4 DEF GoodDown
  <2>2. Raised(w, d, r.ring, s.ring)
    BY <1>1, <1>4 DEF Rise
  <2> QED
    BY <1>1, <2>1, <2>2 DEF Raised, HasKey
<1>5. ASSUME m.type = "deviceKeys"
      PROVE  IF m.duplicated THEN m.index \in Nat /\ m.index <= v.tables.keycount
             ELSE /\ Free(v, m.index)
                  /\ \A id \in DOMAIN m.macs :
                       id \in Ids /\ m.macs[id] \in Key \cup {NoKey} /\ Fits(v, id, m.macs[id])
  <2>1. IF m.duplicated THEN m.index \in Nat /\ m.index <= w.tables.keycount
        ELSE /\ Free(w, m.index)
             /\ \A id \in DOMAIN m.macs :
                  id \in Ids /\ m.macs[id] \in Key \cup {NoKey} /\ Fits(w, id, m.macs[id])
    BY <1>5 DEF GoodDown
  <2>2. CASE m.duplicated
    BY <1>1, <2>1, <2>2
  <2>3. CASE ~m.duplicated
    BY <2>1, <2>3, FreeKept, FitsKept
  <2> QED
    BY <2>2, <2>3
<1> QED
  BY <1>2, <1>3, <1>4, <1>5 DEF GoodDown

LEMMA ContentsKept ==
  ASSUME NEW w, NEW v, GoodWorld(w), Grows(w, v), NEW d \in Devices, NEW l, NEW n,
         Phase(w, d, l), Contents(w, d, l),
         \A m \in Range(n.up) : m \in Range(l.up) \/ GoodUp(v, d, m),
         \A m \in Range(n.calls) : m \in Range(l.calls) \/ GoodCall(v, m),
         \A m \in Range(n.down) : m \in Range(l.down) \/ GoodDown(v, d, m)
  PROVE  Contents(v, d, n)
<1>1. ASSUME NEW m \in Range(l.up)
      PROVE  GoodUp(v, d, m)
  <2>1. GoodUp(w, d, m) /\ (w.device[d].state = "granting" => m.type \in {"login", "access"})
    BY DEF Contents, Phase
  <2> QED
    BY <2>1, UpKept
<1>2. ASSUME NEW m \in Range(l.calls)
      PROVE  GoodCall(v, m)
  BY CallKept DEF Contents
<1>3. ASSUME NEW m \in Range(l.down)
      PROVE  GoodDown(v, d, m)
  <2>1. GoodDown(w, d, m) /\ (w.device[d].state = "granting" => m.type # "newKeyAck")
    BY DEF Contents, Phase
  <2> QED
    BY <2>1, DownKept
<1> QED
  BY <1>1, <1>2, <1>3 DEF Contents

LEMMA RaisesBounded ==
  ASSUME NEW w, GoodWorld(w), NEW d \in Devices, NEW m, GoodDown(w, d, m), NEW j \in Raises(m)
  PROVE  j \in Nat /\ j <= w.tables.keycount
<1>1. CASE m.type = "newKeyAck"
  BY <1>1 DEF Raises, GoodDown
<1>2. CASE m.type = "grant"
  BY <1>2 DEF Raises, GoodDown, Handed
<1>3. CASE m.type = "deviceKeys"
  BY <1>3 DEF Raises, GoodDown
<1>4. CASE m.type = "welcome"
  <2>1. PICK c \in m.changes : j = c.key.index
    BY <1>4 DEF Raises
  <2> QED
    BY <1>4, <2>1 DEF GoodDown, GoodChange, KeyChange, Key
<1> QED
  BY <1>1, <1>2, <1>3, <1>4 DEF Raises

\* The messages that ask for a new key carry numbers.
Numbered(s) == \A m \in Range(s) : m.type = "deviceKeys" /\ ~m.duplicated => m.index \in Nat

LEMMA ContentsNumbered ==
  ASSUME NEW w, NEW d, NEW l, Contents(w, d, l)
  PROVE  Numbered(l.down)
  BY DEF Contents, GoodDown, Free, Numbered

LEMMA AheadLower ==
  ASSUME NEW i \in Nat, NEW j \in Nat, NEW s, IsSeq(s), Numbered(s), Ahead(i, s), j <= i
  PROVE  Ahead(j, s)
<1>1. ASSUME NEW p \in 1..Len(s), s[p].type = "deviceKeys", ~s[p].duplicated
      PROVE  /\ j < s[p].index
             /\ \A q \in 1..p-1 : \A k \in Raises(s[q]) : k < s[p].index
  <2>1. s[p] \in Range(s)
    BY SeqElements
  <2>2. s[p].index \in Nat
    BY <1>1, <2>1 DEF Numbered
  <2> QED
    BY <1>1, <2>2 DEF Ahead
<1> QED
  BY <1>1 DEF Ahead

LEMMA AheadShorter ==
  ASSUME NEW i \in Nat, NEW j \in Nat, NEW s, IsSeq(s), s # << >>, Numbered(s), Ahead(i, s),
         j <= i \/ j \in Raises(Head(s))
  PROVE  Ahead(j, Tail(s))
<1> DEFINE n == Tail(s)
<1>1. /\ IsSeq(n) /\ Len(n) = Len(s) - 1 /\ Len(s) \in Nat
      /\ \A k \in 1..Len(n) : n[k] = s[k + 1]
      /\ Head(s) = s[1]
  BY ShorterSeq, SeqElements
<1> HIDE DEF n
<1>2. ASSUME NEW p \in 1..Len(n), n[p].type = "deviceKeys", ~n[p].duplicated
      PROVE  /\ j < n[p].index
             /\ \A q \in 1..p-1 : \A k \in Raises(n[q]) : k < n[p].index
  <2>1. p + 1 \in 1..Len(s) /\ s[p + 1] = n[p]
    BY <1>1
  <2>2. n[p].index \in Nat
    BY <1>2, <2>1, SeqElements DEF Numbered
  <2>3. /\ i < n[p].index
        /\ \A q \in 1..(p + 1)-1 : \A k \in Raises(s[q]) : k < n[p].index
    BY <1>2, <2>1 DEF Ahead
  <2>4. j < n[p].index
    <3>1. 1 \in 1..(p + 1)-1
      BY <1>1
    <3> QED
      BY <1>1, <2>2, <2>3, <3>1
  <2>5. ASSUME NEW q \in 1..p-1, NEW k \in Raises(n[q])
        PROVE  k < n[p].index
    <3>1. q + 1 \in 1..(p + 1)-1 /\ n[q] = s[q + 1]
      BY <1>1
    <3> QED
      BY <2>3, <3>1
  <2> QED
    BY <2>4, <2>5
<1> QED
  BY <1>2 DEF Ahead, n

LEMMA AheadLonger ==
  ASSUME NEW i \in Nat, NEW s, IsSeq(s), Ahead(i, s), NEW m,
         m.type = "deviceKeys" /\ ~m.duplicated =>
           i < m.index /\ \A e \in Range(s) : \A j \in Raises(e) : j < m.index
  PROVE  Ahead(i, Append(s, m))
<1> DEFINE n == Append(s, m)
<1>1. /\ IsSeq(n) /\ Len(n) = Len(s) + 1 /\ Len(s) \in Nat
      /\ \A k \in 1..Len(s) : n[k] = s[k]
      /\ n[Len(s) + 1] = m
  BY LongerSeq, SeqElements
<1> HIDE DEF n
<1>2. ASSUME NEW p \in 1..Len(n), n[p].type = "deviceKeys", ~n[p].duplicated
      PROVE  /\ i < n[p].index
             /\ \A q \in 1..p-1 : \A k \in Raises(n[q]) : k < n[p].index
  <2>1. CASE p = Len(s) + 1
    <3>1. n[p] = m
      BY <1>1, <2>1
    <3>2. \A q \in 1..p-1 : n[q] = s[q] /\ s[q] \in Range(s)
      BY <1>1, <2>1, SeqElements
    <3> QED
      BY <1>2, <3>1, <3>2
  <2>2. CASE p \in 1..Len(s)
    <3>1. n[p] = s[p] /\ \A q \in 1..p-1 : n[q] = s[q]
      BY <1>1, <2>2
    <3> QED
      BY <1>2, <2>2, <3>1 DEF Ahead
  <2> QED
    BY <1>1, <2>1, <2>2
<1> QED
  BY <1>2 DEF Ahead, n

LEMMA AheadEmpty == ASSUME NEW i PROVE Ahead(i, << >>)
<1>1. 1..Len(<< >>) = {}
  OBVIOUS
<1> QED
  BY <1>1 DEF Ahead

--------------------------------------------------------------------------------
(* Worlds that stay good.                                                    *)

LEMMA DeviceKept ==
  ASSUME NEW w, NEW v, GoodWorld(w), Grows(w, v), NEW d \in Devices, NEW r, GoodDevice(w, d, r),
         GoodCounters(v)
  PROVE  GoodDevice(v, d, r)
<1>1. /\ w.tables.keycount \in Nat /\ v.tables.keycount \in Nat
      /\ w.tables.keycount <= v.tables.keycount
      /\ w.used.attempts \in Nat /\ v.used.attempts \in Nat /\ w.used.attempts <= v.used.attempts
      /\ r.attempt \in Nat /\ r.ring.local \in Nat
  <2>1. GoodCounters(w) /\ IsDevice(r)
    BY DEF GoodWorld, GoodDevice
  <2>2. r.attempt \in Nat /\ r.ring.local \in Nat
    BY <2>1, AccountAssumption DEF IsDevice, IsRing
  <2>3. w.used.attempts \in Nat /\ v.used.attempts \in Nat
    BY <2>1, AccountAssumption DEF GoodCounters
  <2> QED
    BY <2>2, <2>3, Counted DEF Grows
<1>2. GoodRing(v, d, r.ring)
  BY <1>1 DEF GoodDevice, GoodRing
<1>3. r.attempt <= v.used.attempts
  BY <1>1 DEF GoodDevice
<1>4. ASSUME r.registered
      PROVE  Shared(v, d, CurrentKey(r.ring))
  <2>1. CurrentKey(r.ring).index = r.ring.local
    BY <1>4 DEF GoodDevice, IsDevice, GoodRing, HasKey, CurrentKey
  <2>2. r.ring.local \in 0..w.tables.keycount
    BY <1>1 DEF GoodDevice, GoodRing
  <2>3. v.history.keys[r.ring.local] = w.history.keys[r.ring.local]
    BY <2>2 DEF Grows
  <2> QED
    BY <1>4, <2>1, <2>3 DEF GoodDevice, Shared
<1> QED
  BY <1>2, <1>3, <1>4 DEF GoodDevice

LEMMA RiseSame ==
  ASSUME NEW w, NEW v, GoodWorld(w), NEW d \in Devices,
         v.device[d].attempt = w.device[d].attempt, v.device[d].ring = w.device[d].ring
  PROVE  Rise(w, v, d)
<1>1. w.device[d].ring.local \in Nat
  BY Counted
<1> QED
  BY <1>1 DEF Rise, Raised

\* Devices change, the server does not.
LEMMA SameTables ==
  ASSUME NEW w, NEW v, GoodWorld(w), GoodCounters(v), v.tables = w.tables,
         v.history.keys = w.history.keys, w.history.granted \subseteq v.history.granted,
         w.used.attempts <= v.used.attempts,
         v.device = [d \in Devices |-> v.device[d]],
         \A d \in Devices : GoodDevice(v, d, v.device[d]) /\ Rise(w, v, d)
  PROVE  GoodWorld(v) /\ Grows(w, v)
<1>1. \A d \in Devices : v.device[d].ring.local \in Nat /\ v.device[d].attempt \in Nat
  <2>1. \A d \in Devices : IsDevice(v.device[d])
    BY DEF GoodDevice
  <2> QED
    BY <2>1, AccountAssumption DEF IsDevice, IsRing
<1>2. Grows(w, v)
  BY <1>1 DEF Grows
<1>3. HistoryKeys(v)
  BY DEF GoodWorld, HistoryKeys
<1>4. GoodTables(v)
  <2>1. GoodTables(w)
    BY DEF GoodWorld
  <2>2. IsTables(v.tables)
    BY <2>1 DEF GoodTables
  <2>3. \A id \in DOMAIN v.tables.keymac : Fits(v, id, v.tables.keymac[id])
    BY <1>2, <2>1, <2>2, FitsKept DEF GoodTables, IsTables
  <2>4. ASSUME NEW c \in v.tables.changes
        PROVE  /\ GoodChange(v, c) /\ c.key.index = v.tables.keycount /\ Fits(v, c.id, c.verify)
               /\ \A o \in v.tables.changes : o.id = c.id => o = c
    <3>1. /\ GoodChange(w, c) /\ c.key.index = w.tables.keycount /\ Fits(w, c.id, c.verify)
          /\ \A o \in w.tables.changes : o.id = c.id => o = c
      BY <2>1 DEF GoodTables
    <3>2. c.id \in Ids /\ c.verify \in Key
      BY <3>1 DEF GoodChange, KeyChange
    <3>3. Fits(v, c.id, c.verify)
      BY <1>2, <3>1, <3>2, FitsKept
    <3>4. GoodChange(v, c)
      BY <1>2, <3>1, ChangeKept
    <3> QED
      BY <3>1, <3>3, <3>4
  <2> QED
    BY <2>2, <2>3, <2>4 DEF GoodTables
<1> QED
  BY <1>2, <1>3, <1>4 DEF GoodWorld


\* A device whose account and ring stay as they are.
LEMMA DeviceAlike ==
  ASSUME NEW w, NEW d, NEW r, NEW s, GoodDevice(w, d, r),
         s = [state |-> s.state, registered |-> s.registered, attempt |-> s.attempt,
              sendCmac |-> s.sendCmac, import |-> s.import, exports |-> s.exports,
              proofs |-> s.proofs, prepared |-> s.prepared, ring |-> s.ring],
         s.registered = r.registered, s.attempt = r.attempt, s.ring = r.ring,
         s.state \in {"off", "login", "granting", "idle", "failed"},
         s.sendCmac \in BOOLEAN, s.import \in [nonce : 0..MaxEvents, trusted : BOOLEAN],
         s.exports \subseteq 1..MaxEvents, s.proofs \subseteq Ids, s.prepared \subseteq Ids,
         s.state \in {"login", "idle"} => s.registered,
         s.state = "granting" => ~s.registered
  PROVE  GoodDevice(w, d, s)
<1>1. IsDevice(r)
  BY DEF GoodDevice
<1>2. IsDevice(s)
  BY <1>1 DEF IsDevice
<1> QED
  BY <1>2 DEF GoodDevice

LEMMA Parts ==
  /\ World.device = device /\ World.tables = tables /\ World.history = history /\ World.used = used
  /\ World'.device = device' /\ World'.tables = tables'
  /\ World'.history = history' /\ World'.used = used'
BY DEF World

\* One device takes a step, and the server does not.
LEMMA DeviceStep ==
  ASSUME AccountInv, NEW d \in Devices, NEW s, device' = [device EXCEPT ![d] = s],
         tables' = tables, history'.keys = history.keys,
         history.granted \subseteq history'.granted, used.attempts <= used'.attempts,
         GoodCounters(World'), GoodDevice(World, d, s),
         \/ s.attempt = device[d].attempt /\ Raised(World, d, device[d].ring, s.ring)
         \/ device[d].state = "granting" /\ device[d].attempt < s.attempt
  PROVE  GoodWorld(World') /\ Grows(World, World')
<1>1. GoodWorld(World) /\ \A e \in Devices : GoodDevice(World, e, device[e])
  BY Parts DEF AccountInv, GoodWorld
<1>2. device = [e \in Devices |-> device[e]]
  BY Parts DEF AccountInv, GoodWorld
<1>3. /\ device' = [e \in Devices |-> device'[e]] /\ device'[d] = s
      /\ \A e \in Devices : e # d => device'[e] = device[e]
  BY <1>2
<1>4. ASSUME NEW e \in Devices
      PROVE  Rise(World, World', e)
  <2>1. CASE e = d
    BY <1>3, <2>1, Parts DEF Rise
  <2>2. CASE e # d
    BY <1>1, <1>3, <2>2, Parts, RiseSame
  <2> QED
    BY <2>1, <2>2
<1>5. \A e \in Devices : GoodDevice(World, e, device'[e])
  BY <1>1, <1>3
<1>6. Grows(World, World')
  <2>1. \A e \in Devices : IsDevice(device'[e])
    BY <1>5 DEF GoodDevice
  <2>2. \A e \in Devices : device'[e].ring.local \in Nat /\ device'[e].attempt \in Nat
    BY <2>1, AccountAssumption DEF IsDevice, IsRing
  <2> QED
    BY <1>4, <2>2, Parts DEF Grows
<1>7. \A e \in Devices : GoodDevice(World', e, device'[e])
  BY <1>1, <1>5, <1>6, DeviceKept
<1> QED
  BY <1>1, <1>3, <1>4, <1>7, Parts, SameTables

--------------------------------------------------------------------------------
(* Links that stay good.                                                     *)

\* A link whose device takes no part in a step, or loses its route.
LEMMA LinkKept ==
  ASSUME NEW w, NEW v, GoodWorld(w), Grows(w, v), NEW d \in Devices, NEW l, NEW n,
         GoodLink(w, d, l), n = l \/ n = [l EXCEPT !.route = "none"],
         v.device[d].state = w.device[d].state, v.device[d].attempt = w.device[d].attempt,
         v.device[d].ring = w.device[d].ring, v.used.attempts \in Nat
  PROVE  GoodLink(v, d, n)
<1>1. IsLink(l)
  BY DEF GoodLink
<1>2. n = [server |-> l.server, id |-> l.id, up |-> l.up, calls |-> l.calls,
           down |-> l.down, route |-> n.route] /\ n.route \in {l.route, "none"}
  BY <1>1 DEF IsLink
<1>3. /\ n.server = l.server /\ n.id = l.id /\ n.up = l.up /\ n.calls = l.calls
      /\ n.down = l.down /\ n.route \in {"none", "asked", "ack"}
  BY <1>1, <1>2 DEF IsLink
<1>4. IsLink(n)
  BY <1>1, <1>2, <1>3 DEF IsLink
<1>5. l = NoLink => n = NoLink
  BY <1>2, <1>3 DEF NoLink
<1>6. w.used.attempts \in Nat /\ w.used.attempts <= v.used.attempts /\ l.id \in Nat
      /\ w.device[d].attempt \in Nat
  BY <1>1, Counted, AccountAssumption DEF GoodWorld, GoodCounters, Grows, IsLink
<1>7. Phase(v, d, n)
  BY <1>3, <1>5, <1>6 DEF GoodLink, Phase
<1>8. Contents(v, d, n)
  BY <1>3, ContentsKept DEF GoodLink
<1>9. Ahead(v.device[d].ring.local, n.down)
  BY <1>3 DEF GoodLink
<1> QED
  BY <1>4, <1>7, <1>8, <1>9 DEF GoodLink

LEMMA ClosedLink ==
  ASSUME NEW v, NEW d \in Devices, v.device[d].state \in {"off", "failed"}
  PROVE  GoodLink(v, d, NoLink)
<1>1. /\ NoLink.server = "none" /\ NoLink.id = 0 /\ NoLink.up = << >> /\ NoLink.calls = << >>
      /\ NoLink.down = << >> /\ NoLink.route = "none"
  BY DEF NoLink
<1>2. IsLink(NoLink)
  <2>1. 0 \in 0..MaxAttempts
    BY AccountAssumption
  <2> QED
    BY <1>1, <2>1, EmptyIsSeq DEF IsLink, NoLink
<1> HIDE DEF NoLink
<1>3. Phase(v, d, NoLink)
  BY <1>1 DEF Phase
<1>4. Contents(v, d, NoLink)
  BY <1>1, EmptyIsSeq DEF Contents
<1>5. Ahead(v.device[d].ring.local, NoLink.down)
  BY <1>1, AheadEmpty
<1> QED
  BY <1>2, <1>3, <1>4, <1>5 DEF GoodLink

\* The server's client has run a task: it may have answered the device.
LEMMA Serves ==
  ASSUME NEW w, NEW v, GoodWorld(w), Grows(w, v), NEW d \in Devices, NEW l, NEW n,
         GoodLink(w, d, l), IsLink(n), v.device[d] = w.device[d], v.used.attempts \in Nat,
         l.server # "none", n.server # "none", n.id = l.id,
         n.server = "auth" => l.server = "auth" /\ n.down = l.down,
         n.server = "waiting" => l.server = "waiting",
         Range(n.up) \subseteq Range(l.up),
         \A m \in Range(n.calls) : m \in Range(l.calls) \/ GoodCall(v, m),
         \/ n.down = l.down
         \/ \E m :
              /\ n.down = Append(l.down, m)
              /\ GoodDown(v, d, m) /\ m.type # "welcome"
              /\ m.type = "newKeyAck" => w.device[d].state # "granting"
              /\ m.type = "grant" /\ w.device[d].state = "granting" =>
                   m.id = <<d, l.id>> /\ w.device[d].attempt < l.id /\ l.id <= v.used.attempts
              /\ m.type = "deviceKeys" /\ ~m.duplicated => m.index = w.tables.keycount + 1
  PROVE  GoodLink(v, d, n)
<1> DEFINE r == w.device[d]
<1>1. IsLink(l) /\ Phase(w, d, l) /\ Contents(w, d, l) /\ Ahead(r.ring.local, l.down)
  BY DEF GoodLink
<1>2. /\ w.used.attempts \in Nat /\ w.used.attempts <= v.used.attempts /\ l.id \in Nat
      /\ r.attempt \in Nat /\ r.ring.local \in Nat /\ w.tables.keycount \in Nat
      /\ r.ring.local <= w.tables.keycount
  <2>1. w.used.attempts \in Nat /\ w.used.attempts <= v.used.attempts /\ l.id \in Nat
    BY <1>1, AccountAssumption DEF GoodWorld, GoodCounters, Grows, IsLink
  <2>2. GoodRing(w, d, r.ring)
    BY DEF GoodWorld, GoodDevice
  <2> QED
    BY <2>1, <2>2, Counted DEF GoodRing
<1>3. ASSUME NEW m \in Range(n.down)
      PROVE  \/ m \in Range(l.down)
             \/ /\ GoodDown(v, d, m) /\ m.type # "welcome"
                /\ m.type = "newKeyAck" => r.state # "granting"
                /\ m.type = "grant" /\ r.state = "granting" =>
                     m.id = <<d, l.id>> /\ r.attempt < l.id /\ l.id <= v.used.attempts
  BY <1>1, LongerSeq DEF IsLink
<1>4. Phase(v, d, n)
  BY <1>1, <1>2, <1>3 DEF Phase
<1>5. Contents(v, d, n)
  BY <1>1, <1>3, ContentsKept
<1>6. Ahead(r.ring.local, n.down)
  <2>1. CASE n.down = l.down
    BY <1>1, <2>1
  <2>2. ASSUME NEW m, n.down = Append(l.down, m),
               m.type = "deviceKeys" /\ ~m.duplicated => m.index = w.tables.keycount + 1
        PROVE  Ahead(r.ring.local, n.down)
    <3>1. ASSUME NEW e \in Range(l.down), NEW j \in Raises(e)
          PROVE  j \in Nat /\ j <= w.tables.keycount
      BY <1>1, <3>1, RaisesBounded DEF Contents
    <3>2. m.type = "deviceKeys" /\ ~m.duplicated =>
            r.ring.local < m.index /\ \A e \in Range(l.down) : \A j \in Raises(e) : j < m.index
      BY <1>2, <2>2, <3>1
    <3>3. IsSeq(l.down)
      BY <1>1 DEF IsLink
    <3> QED
      BY <1>1, <1>2, <2>2, <3>2, <3>3, AheadLonger
  <2> QED
    BY <2>1, <2>2
<1> QED
  BY <1>4, <1>5, <1>6 DEF GoodLink

\* An idle device has handled a message, or its user has asked for something.
LEMMA Handles ==
  ASSUME NEW w, NEW v, GoodWorld(w), Grows(w, v), NEW d \in Devices, NEW l, NEW n, NEW messages,
         GoodLink(w, d, l), IsSeq(messages), \A m \in Range(messages) : GoodUp(v, d, m),
         n = [server |-> l.server, id |-> l.id, up |-> l.up \o messages, calls |-> l.calls,
              down |-> n.down, route |-> l.route],
         w.device[d].state \in {"login", "granting", "idle"},
         v.device[d].state = "idle", v.device[d].attempt = l.id,
         \/ /\ n.down = l.down /\ w.device[d].state = "idle"
            /\ v.device[d].ring = w.device[d].ring
         \/ /\ l.down # << >> /\ n.down = Tail(l.down)
            /\ \/ v.device[d].ring.local <= w.device[d].ring.local
               \/ v.device[d].ring.local \in Raises(Head(l.down))
  PROVE  GoodLink(v, d, n)
<1> DEFINE i == w.device[d].ring.local
           j == v.device[d].ring.local
<1>1. IsLink(l) /\ Phase(w, d, l) /\ Contents(w, d, l) /\ Ahead(i, l.down)
  BY DEF GoodLink
<1>2. i \in Nat /\ j \in Nat
  BY Counted DEF Grows
<1>3. IsSeq(l.down) /\ Numbered(l.down)
  BY <1>1, ContentsNumbered DEF IsLink
<1>4. Ahead(j, n.down) /\ IsSeq(n.down) /\ Range(n.down) \subseteq Range(l.down)
  BY <1>1, <1>2, <1>3, AheadShorter, ShorterSeq
<1>5. /\ n.server = l.server /\ n.id = l.id /\ n.up = l.up \o messages
      /\ n.calls = l.calls /\ n.route = l.route
  OBVIOUS
<1>6. IsSeq(n.up) /\ \A m \in Range(n.up) : m \in Range(l.up) \/ GoodUp(v, d, m)
  BY <1>1, <1>5, JoinedSeq DEF IsLink
<1>7. IsLink(n)
  BY <1>1, <1>4, <1>5, <1>6 DEF IsLink
<1>8. l.server \notin {"none", "auth"}
  BY <1>1 DEF Phase
<1> HIDE DEF i, j
<1>9. Phase(v, d, n)
  BY <1>5, <1>8 DEF Phase
<1>10. Contents(v, d, n)
  BY <1>1, <1>4, <1>5, <1>6, ContentsKept
<1> QED
  BY <1>4, <1>7, <1>9, <1>10 DEF GoodLink, j

--------------------------------------------------------------------------------
(* Steps of one device.                                                      *)

LEMMA Invariants ==
  ASSUME AccountInv
  PROVE  /\ GoodWorld(World) /\ device = [d \in Devices |-> device[d]]
         /\ link = [d \in Devices |-> link[d]] /\ Routes(link) /\ kicked \subseteq Ids
         /\ used.attempts \in 0..MaxAttempts /\ used.events \in 0..MaxEvents
         /\ \A d \in Devices :
              /\ GoodDevice(World, d, device[d]) /\ IsDevice(device[d])
              /\ GoodLink(World, d, link[d]) /\ IsLink(link[d])
              /\ Phase(World, d, link[d]) /\ Contents(World, d, link[d])
BY Parts DEF AccountInv, GoodWorld, GoodCounters, GoodLink, GoodDevice

\* Only the link of one device changes.
LEMMA Linked ==
  ASSUME AccountInv, GoodWorld(World'), Grows(World, World'), NEW d \in Devices, NEW n,
         link' = [link EXCEPT ![d] = n], GoodLink(World', d, n),
         \A e \in Devices : e # d =>
           /\ device'[e].state = device[e].state /\ device'[e].attempt = device[e].attempt
           /\ device'[e].ring = device[e].ring,
         n.route \in {"none", link[d].route}, kicked' \subseteq Ids,
         link[d].server \in {"idle", "error"} => n.server \in {"idle", "error"}
  PROVE  AccountInv'
<1>1. /\ link' = [e \in Devices |-> link'[e]] /\ link'[d] = n
      /\ \A e \in Devices : e # d => link'[e] = link[e]
  BY Invariants
<1>2. World'.used.attempts \in Nat
  BY AccountAssumption DEF GoodWorld, GoodCounters
<1>3. ASSUME NEW e \in Devices
      PROVE  GoodLink(World', e, link'[e])
  <2>1. CASE e = d
    BY <1>1, <2>1
  <2>2. CASE e # d
    BY <1>1, <1>2, <2>2, Invariants, Parts, LinkKept
  <2> QED
    BY <2>1, <2>2
<1>4. Routes(link')
  <2>1. Partner \in Devices /\ Routes(link)
    BY Invariants, AccountAssumption
  <2> QED
    BY <1>1, <2>1 DEF Routes
<1> QED
  BY <1>1, <1>3, <1>4 DEF AccountInv

\* The connection of a device ends.
LEMMA LinkClosed ==
  ASSUME AccountInv, GoodWorld(World'), Grows(World, World'), NEW d \in Devices,
         link' = Closed(d), device'[d].state \in {"off", "failed"},
         \A e \in Devices : e # d =>
           /\ device'[e].state = device[e].state /\ device'[e].attempt = device[e].attempt
           /\ device'[e].ring = device[e].ring,
         kicked' \subseteq Ids
  PROVE  AccountInv'
<1>1. /\ link' = [e \in Devices |-> link'[e]] /\ link'[d] = NoLink
      /\ \A e \in Devices : e # d =>
           link'[e] = IF d = Partner THEN [link[e] EXCEPT !.route = "none"] ELSE link[e]
  BY Invariants DEF Closed
<1>2. World'.used.attempts \in Nat
  BY AccountAssumption DEF GoodWorld, GoodCounters
<1>3. ASSUME NEW e \in Devices
      PROVE  GoodLink(World', e, link'[e])
  <2>1. CASE e = d
    BY <1>1, <2>1, ClosedLink, Parts
  <2>2. CASE e # d
    <3>1. link'[e] = link[e] \/ link'[e] = [link[e] EXCEPT !.route = "none"]
      BY <1>1, <2>2
    <3> QED
      BY <1>2, <2>2, <3>1, Invariants, Parts, LinkKept
  <2> QED
    BY <2>1, <2>2
<1>4. Routes(link')
  <2>1. Partner \in Devices /\ Routes(link)
    BY Invariants, AccountAssumption
  <2>2. CASE d = Partner
    <3>1. \A e \in Devices : link'[e].route = "none"
      BY <1>1, <2>2, Invariants DEF NoLink, IsLink
    <3> QED
      BY <3>1 DEF Routes
  <2>3. CASE d # Partner
    <3>1. NoLink.route = "none"
      BY DEF NoLink
    <3> QED
      BY <1>1, <2>1, <2>3, <3>1 DEF Routes
  <2> QED
    BY <2>2, <2>3
<1> QED
  BY <1>1, <1>3, <1>4 DEF AccountInv

\* A device sends something.
LEMMA LinkSent ==
  ASSUME NEW l, IsLink(l), NEW y
  PROVE  [l EXCEPT !.up = y] = [server |-> l.server, id |-> l.id, up |-> y, calls |-> l.calls,
                                down |-> l.down, route |-> l.route]
<1>1. DOMAIN l = {"server", "id", "up", "calls", "down", "route"}
  BY DEF IsLink
<1> DEFINE n == [l EXCEPT !.up = y]
<1>2. n = [f \in DOMAIN l |-> IF f = "up" THEN y ELSE l[f]]
  OBVIOUS
<1> QED
  BY <1>1, <1>2

\* An idle device has handled a message, or its user has asked for something.
LEMMA DeviceHandles ==
  ASSUME AccountInv, GoodWorld(World'), Grows(World, World'), NEW d \in Devices, NEW messages,
         IsSeq(messages), \A m \in Range(messages) : GoodUp(World', d, m),
         \A e \in Devices : e # d =>
           /\ device'[e].state = device[e].state /\ device'[e].attempt = device[e].attempt
           /\ device'[e].ring = device[e].ring,
         kicked' \subseteq Ids,
         device[d].state \in {"login", "granting", "idle"},
         device'[d].state = "idle", device'[d].attempt = link[d].id,
         \/ Send(d, messages) /\ device[d].state = "idle" /\ device'[d].ring = device[d].ring
         \/ /\ Handled(d, messages) /\ link[d].down # << >>
            /\ \/ device'[d].ring.local <= device[d].ring.local
               \/ device'[d].ring.local \in Raises(Head(link[d].down))
  PROVE  AccountInv'
<1> DEFINE l == link[d]
           n == [server |-> l.server, id |-> l.id, up |-> l.up \o messages, calls |-> l.calls,
                 down |-> link'[d].down, route |-> l.route]
<1>1. IsLink(l) /\ GoodLink(World, d, l) /\ GoodWorld(World) /\ link = [e \in Devices |-> link[e]]
  BY Invariants
<1>2. l = [server |-> l.server, id |-> l.id, up |-> l.up, calls |-> l.calls,
           down |-> l.down, route |-> l.route]
  BY <1>1 DEF IsLink
<1>3. /\ link' = [link EXCEPT ![d] = n]
      /\ \/ /\ link'[d].down = l.down /\ device[d].state = "idle"
            /\ device'[d].ring = device[d].ring
         \/ /\ l.down # << >> /\ link'[d].down = Tail(l.down)
            /\ \/ device'[d].ring.local <= device[d].ring.local
               \/ device'[d].ring.local \in Raises(Head(l.down))
  <2>1. ASSUME Handled(d, messages)
        PROVE  link' = [link EXCEPT ![d] = n] /\ link'[d].down = Tail(l.down)
    <3>1. link' = [e \in Devices |->
            IF e = d THEN [l EXCEPT !.down = Tail(l.down), !.up = l.up \o messages] ELSE link[e]]
      BY <1>1, <1>2, <2>1 DEF Handled
    <3>2. [l EXCEPT !.down = Tail(l.down), !.up = l.up \o messages]
            = [server |-> l.server, id |-> l.id, up |-> l.up \o messages, calls |-> l.calls,
               down |-> Tail(l.down), route |-> l.route]
      <4> DEFINE x == Tail(l.down)
                 y == l.up \o messages
                 o == [l EXCEPT !.down = x, !.up = y]
      <4> HIDE DEF x, y, l
      <4>1. DOMAIN l = {"server", "id", "up", "calls", "down", "route"}
        BY <1>2
      <4>2. o = [f \in DOMAIN l |-> IF f = "up" THEN y ELSE IF f = "down" THEN x ELSE l[f]]
        OBVIOUS
      <4>3. o = [server |-> l.server, id |-> l.id, up |-> y, calls |-> l.calls,
                 down |-> x, route |-> l.route]
        BY <4>1, <4>2
      <4> HIDE DEF o
      <4>4. o = [l EXCEPT !.down = x, !.up = y]
        BY DEF o
      <4> QED
        BY <4>3, <4>4 DEF x, y
    <3>3. link'[d].down = Tail(l.down)
      BY <3>1, <3>2
    <3> QED
      BY <1>1, <3>1, <3>2, <3>3
  <2>2. ASSUME Send(d, messages)
        PROVE  link' = [link EXCEPT ![d] = n] /\ link'[d].down = l.down
    <3>1. link' = [e \in Devices |->
            IF e = d THEN [l EXCEPT !.up = l.up \o messages] ELSE link[e]]
      BY <1>1, <1>2, <2>2 DEF Send
    <3>2. [l EXCEPT !.up = l.up \o messages]
            = [server |-> l.server, id |-> l.id, up |-> l.up \o messages, calls |-> l.calls,
               down |-> l.down, route |-> l.route]
      BY <1>1, LinkSent
    <3>3. link'[d].down = l.down
      BY <3>1, <3>2
    <3> QED
      BY <1>1, <3>1, <3>2, <3>3
  <2> QED
    BY <2>1, <2>2
<1>4. /\ n = [server |-> l.server, id |-> l.id, up |-> l.up \o messages, calls |-> l.calls,
              down |-> n.down, route |-> l.route]
      /\ n.down = link'[d].down /\ n.route = l.route /\ n.server = l.server
  OBVIOUS
<1> HIDE DEF n, l
<1>5. GoodLink(World', d, n)
  BY <1>1, <1>3, <1>4, Parts, Handles DEF l
<1> QED
  BY <1>3, <1>4, <1>5, Linked DEF l

--------------------------------------------------------------------------------
(* Key rings.                                                                *)

IsShaped(ring) == ring = [local |-> ring.local, next |-> ring.next, keys |-> ring.keys]

LEMMA StoredRing ==
  ASSUME NEW ring, IsShaped(ring), NEW i, NEW key
  PROVE  LET n == StoreKey(ring, i, key) IN
         /\ IsShaped(n) /\ n.local = ring.local /\ n.next = ring.next
         /\ n.keys = Put(ring.keys, i, key)
<1> DEFINE keys == Put(ring.keys, i, key)
           n == [ring EXCEPT !.keys = keys]
<1>1. n = [local |-> ring.local, next |-> ring.next, keys |-> keys]
  <2> HIDE DEF keys
  <2> QED
    BY DEF IsShaped
<1>2. StoreKey(ring, i, key) = n
  BY DEF StoreKey
<1> HIDE DEF keys
<1>3. IsShaped(n) /\ n.local = ring.local /\ n.next = ring.next /\ n.keys = keys
  BY <1>1 DEF IsShaped
<1> QED
  BY <1>2, <1>3 DEF keys

LEMMA CleanRing ==
  ASSUME NEW ring, IsShaped(ring), IsRing(ring)
  PROVE  LET n == cleanCiphers(ring) IN
         /\ IsShaped(n) /\ IsRing(n) /\ n.local = ring.local /\ n.next = ring.next
         /\ \A i \in DOMAIN n.keys : i \in DOMAIN ring.keys /\ n.keys[i] = ring.keys[i]
         /\ \A i \in DOMAIN ring.keys : i >= ring.local => i \in DOMAIN n.keys
<1> DEFINE S == {i \in DOMAIN ring.keys : i + KeptKeys >= ring.local}
           keys == Restrict(ring.keys, S)
           n == [ring EXCEPT !.keys = keys]
<1>1. n = [local |-> ring.local, next |-> ring.next, keys |-> keys]
  <2> HIDE DEF keys
  <2> QED
    BY DEF IsShaped
<1>2. cleanCiphers(ring) = n
  BY DEF cleanCiphers
<1>3. DOMAIN keys = S /\ \A i \in S : keys[i] = ring.keys[i]
  BY DEF Restrict
<1>4. \A i \in DOMAIN ring.keys : i >= ring.local => i \in S
  BY KeyRingAssumption DEF IsRing
<1>5. S \subseteq DOMAIN ring.keys
  OBVIOUS
<1> HIDE DEF keys, S
<1>6. IsShaped(n) /\ n.local = ring.local /\ n.next = ring.next /\ n.keys = keys
  BY <1>1 DEF IsShaped
<1> HIDE DEF n
<1>7. IsRing(n)
  BY <1>3, <1>5, <1>6 DEF IsRing
<1> QED
  BY <1>2, <1>3, <1>4, <1>5, <1>6, <1>7

LEMMA GoodRingIndices ==
  ASSUME NEW w, NEW d, NEW ring, GoodRing(w, d, ring), IsRing(ring), NEW i \in DOMAIN ring.keys
  PROVE  /\ ring.keys[i] \in Key /\ ring.keys[i].index = i
         /\ i > ring.local => ring.keys[i].maker = d /\ ring.keys[i] = [index |-> i, maker |-> d]
BY DEF GoodRing, IsRing, Key

LEMMA CurrentIsKey ==
  ASSUME NEW w, NEW d, NEW ring, GoodRing(w, d, ring), IsRing(ring), HasKey(ring, ring.local)
  PROVE  CurrentKey(ring) \in Key /\ CurrentKey(ring).index = ring.local
BY DEF GoodRing, IsRing, HasKey, CurrentKey

\* A device has activated the key it had prepared, or nothing.
LEMMA ActivatedRing ==
  ASSUME NEW w, GoodWorld(w), NEW d \in Devices, NEW ring, IsShaped(ring), IsRing(ring),
         GoodRing(w, d, ring), NEW i \in Nat, i <= w.tables.keycount,
         Activates(ring, i) => HasKey(ring, i)
  PROVE  LET n == activateNextKey(ring, i) IN
         \/ n = ring
         \/ /\ n.local = i /\ IsShaped(n) /\ IsRing(n) /\ GoodRing(w, d, n)
            /\ HasKey(n, n.local) /\ CurrentKey(n).maker = d /\ Raised(w, d, ring, n)
<1> DEFINE a == [ring EXCEPT !.local = i, !.next = 0]
           n == cleanCiphers(a)
<1>1. CASE ~Activates(ring, i)
  BY <1>1 DEF activateNextKey
<1>2. ASSUME Activates(ring, i)
      PROVE  /\ n.local = i /\ IsShaped(n) /\ IsRing(n) /\ GoodRing(w, d, n)
             /\ HasKey(n, n.local) /\ CurrentKey(n).maker = d /\ Raised(w, d, ring, n)
  <2>1. i = ring.local + 1 /\ ring.local \in Nat /\ i \in DOMAIN ring.keys
    BY <1>2 DEF Activates, HasKey, IsRing
  <2>2. a = [local |-> i, next |-> 0, keys |-> ring.keys]
    <3>1. DOMAIN ring = {"local", "next", "keys"}
      BY DEF IsShaped
    <3>2. a = [f \in DOMAIN ring |-> IF f = "next" THEN 0 ELSE IF f = "local" THEN i ELSE ring[f]]
      OBVIOUS
    <3> QED
      BY <3>1, <3>2
  <2>3. IsShaped(a) /\ IsRing(a) /\ a.local = i /\ a.keys = ring.keys
    BY <2>2 DEF IsShaped, IsRing
  <2> HIDE DEF a
  <2>4. /\ IsShaped(n) /\ IsRing(n) /\ n.local = i
        /\ \A k \in DOMAIN n.keys : k \in DOMAIN ring.keys /\ n.keys[k] = ring.keys[k]
        /\ \A k \in DOMAIN ring.keys : k >= i => k \in DOMAIN n.keys
    BY <2>3, CleanRing
  <2> HIDE DEF n
  <2>5. HasKey(n, i) /\ CurrentKey(n) = [index |-> i, maker |-> d]
    BY <2>1, <2>4, GoodRingIndices DEF HasKey, CurrentKey
  <2>6. DOMAIN ring.keys \subseteq Nat
    BY DEF IsRing
  <2>7. GoodRing(w, d, n)
    BY <2>1, <2>4, <2>6 DEF GoodRing
  <2>8. Raised(w, d, ring, n)
    BY <2>1, <2>4, <2>5, <2>6 DEF Raised
  <2> QED
    BY <2>4, <2>5, <2>7, <2>8
<1> QED
  BY <1>1, <1>2 DEF activateNextKey

\* A device has a key for the next index.
LEMMA GeneratedRing ==
  ASSUME NEW w, GoodWorld(w), NEW d \in Devices, NEW ring, IsShaped(ring), IsRing(ring),
         GoodRing(w, d, ring), HasKey(ring, ring.local), CanGenerate(ring)
  PROVE  LET n == generateNextKey(ring, d) IN
         /\ n.local = ring.local /\ n.next = ring.local + 1
         /\ IsShaped(n) /\ IsRing(n) /\ GoodRing(w, d, n) /\ Raised(w, d, ring, n)
         /\ HasKey(n, n.next) /\ n.keys[n.next] = [index |-> n.next, maker |-> d]
         /\ HasKey(n, n.local) /\ CurrentKey(n) = CurrentKey(ring)
<1> DEFINE i == ring.local + 1
           key == [index |-> i, maker |-> d]
           a == StoreKey(ring, i, key)
           b == [a EXCEPT !.next = i]
           n == generateNextKey(ring, d)
<1>1. ring.local \in Nat /\ i \in Nat /\ key \in Key /\ ring.local # i
  BY DEF IsRing, Key
<1>2. CASE Prepared(ring)
  <2>1. n = ring /\ ring.next = i /\ i \in DOMAIN ring.keys
    BY <1>2 DEF generateNextKey, CanGenerate, Prepared, HasKey
  <2>2. ring.keys[i] = key
    BY <1>1, <2>1, GoodRingIndices
  <2>3. Raised(w, d, ring, ring)
    BY <1>1 DEF Raised
  <2> QED
    BY <1>1, <2>1, <2>2, <2>3 DEF HasKey
<1>3. CASE ~Prepared(ring)
  <2>1. n = b
    BY <1>3 DEF generateNextKey
  <2>2. IsShaped(a) /\ a.local = ring.local /\ a.keys = Put(ring.keys, i, key)
    BY StoredRing
  <2> HIDE DEF i, key, a
  <2>3. b = [local |-> a.local, next |-> i, keys |-> a.keys]
    BY <2>2 DEF IsShaped
  <2> HIDE DEF b
  <2>4. b.local = ring.local /\ b.next = i /\ b.keys = Put(ring.keys, i, key) /\ IsShaped(b)
    BY <2>2, <2>3 DEF IsShaped
  <2>5. /\ DOMAIN b.keys = DOMAIN ring.keys \cup {i} /\ b.keys[i] = key
        /\ \A z \in DOMAIN ring.keys : z # i => b.keys[z] = ring.keys[z]
    BY <2>4 DEF Put
  <2>6. IsRing(b)
    BY <1>1, <2>4, <2>5 DEF IsRing
  <2>7. GoodRing(w, d, b)
    BY <1>1, <2>4, <2>5 DEF GoodRing, key
  <2>8. HasKey(b, b.local) /\ CurrentKey(b) = CurrentKey(ring)
    BY <1>1, <2>4, <2>5 DEF HasKey, CurrentKey
  <2>9. Raised(w, d, ring, b)
    BY <1>1, <2>4, <2>5, <2>8 DEF Raised
  <2> QED
    BY <2>1, <2>4, <2>5, <2>6, <2>7, <2>8, <2>9 DEF HasKey, i, key
<1> QED
  BY <1>2, <1>3

\* A device has the key that follows the one it used.
LEMMA ImportedRing ==
  ASSUME NEW w, GoodWorld(w), NEW d \in Devices, NEW ring, IsShaped(ring), IsRing(ring),
         GoodRing(w, d, ring), NEW key \in Key, key.index = ring.local + 1,
         key.index <= w.tables.keycount, key = w.history.keys[key.index]
  PROVE  LET n == ImportKey(ring, key.index, key) IN
         /\ n.local = key.index /\ IsShaped(n) /\ IsRing(n) /\ GoodRing(w, d, n)
         /\ HasKey(n, n.local) /\ CurrentKey(n) = key /\ Raised(w, d, ring, n)
<1> DEFINE i == key.index
           a == StoreKey(ring, i, key)
           b == [a EXCEPT !.local = i]
           n == cleanCiphers(b)
<1>1. ring.local \in Nat /\ i \in Nat /\ i > ring.local /\ i = ring.local + 1
  BY DEF IsRing, Key
<1>2. ImportKey(ring, i, key) = n
  BY <1>1 DEF ImportKey
<1>3. IsShaped(a) /\ a.next = ring.next /\ a.keys = Put(ring.keys, i, key)
  BY StoredRing
<1> HIDE DEF i, a
<1>4. b = [local |-> i, next |-> a.next, keys |-> a.keys]
  BY <1>3 DEF IsShaped
<1> HIDE DEF b
<1>5. b.local = i /\ b.next = ring.next /\ b.keys = Put(ring.keys, i, key) /\ IsShaped(b)
  BY <1>3, <1>4 DEF IsShaped
<1>6. /\ DOMAIN b.keys = DOMAIN ring.keys \cup {i} /\ b.keys[i] = key
      /\ \A z \in DOMAIN ring.keys : z # i => b.keys[z] = ring.keys[z]
  BY <1>5 DEF Put
<1>7. IsRing(b)
  BY <1>1, <1>5, <1>6 DEF IsRing
<1>8. /\ IsShaped(n) /\ IsRing(n) /\ n.local = i
      /\ \A k \in DOMAIN n.keys : k \in DOMAIN b.keys /\ n.keys[k] = b.keys[k]
      /\ \A k \in DOMAIN b.keys : k >= i => k \in DOMAIN n.keys
  BY <1>5, <1>7, CleanRing
<1> HIDE DEF n
<1>9. HasKey(n, i) /\ CurrentKey(n) = key
  BY <1>1, <1>6, <1>8 DEF HasKey, CurrentKey
<1>10. DOMAIN ring.keys \subseteq Nat
  BY DEF IsRing
<1>11. GoodRing(w, d, n)
  <2>1. ASSUME NEW k \in DOMAIN n.keys
        PROVE  n.keys[k].index = k /\ (k > i => n.keys[k].maker = d)
    <3>1. CASE k = i
      BY <1>1, <1>6, <1>8, <3>1 DEF i
    <3>2. CASE k # i
      <4>1. k \in DOMAIN ring.keys /\ n.keys[k] = ring.keys[k]
        BY <1>6, <1>8, <3>2
      <4> QED
        BY <1>1, <1>10, <4>1 DEF GoodRing
    <3> QED
      BY <3>1, <3>2
  <2> QED
    BY <1>8, <2>1 DEF GoodRing, i
<1>12. Raised(w, d, ring, n)
  BY <1>1, <1>6, <1>8, <1>9, <1>10 DEF Raised, i
<1> QED
  BY <1>2, <1>8, <1>9, <1>11, <1>12 DEF i

\* A joiner has the key of its account.
LEMMA JoinedRing ==
  ASSUME NEW w, GoodWorld(w), NEW d \in Devices, NEW ring, IsShaped(ring), IsRing(ring),
         NEW i, NEW key, Handed(w, i, key)
  PROVE  LET n == GrantedRing(ring, i, key) IN
         /\ n.local = i /\ IsShaped(n) /\ IsRing(n) /\ GoodRing(w, d, n)
         /\ HasKey(n, n.local) /\ CurrentKey(n) = key
<1> DEFINE keys == [j \in {i} |-> key]
           n == [ring EXCEPT !.local = i, !.keys = keys]
<1>1. GrantedRing(ring, i, key) = n
  BY DEF GrantedRing
<1>2. i \in Nat /\ DOMAIN keys = {i} /\ keys[i] = key /\ key \in Key /\ key.index = i
  BY DEF Handed
<1> HIDE DEF keys
<1>3. n = [local |-> i, next |-> ring.next, keys |-> keys]
  <2>1. DOMAIN ring = {"local", "next", "keys"}
    BY DEF IsShaped
  <2>2. n = [f \in DOMAIN ring |-> IF f = "keys" THEN keys ELSE IF f = "local" THEN i ELSE ring[f]]
    OBVIOUS
  <2> QED
    BY <2>1, <2>2
<1> HIDE DEF n
<1>4. IsShaped(n) /\ n.local = i /\ n.next = ring.next /\ n.keys = keys
  BY <1>3 DEF IsShaped
<1>5. IsRing(n)
  BY <1>2, <1>4 DEF IsRing
<1>6. GoodRing(w, d, n)
  BY <1>2, <1>4 DEF GoodRing, Handed
<1> QED
  BY <1>1, <1>2, <1>4, <1>5, <1>6 DEF HasKey, CurrentKey

--------------------------------------------------------------------------------
(* Connections that end or begin.                                            *)

LEMMA CountersKept ==
  ASSUME AccountInv, history' = history, used' = used \/ Event
  PROVE  GoodCounters(World') /\ used'.attempts = used.attempts
<1>1. GoodCounters(World) /\ MaxEvents \in Nat
  BY AccountAssumption DEF AccountInv, GoodWorld
<1>2. CASE used' = used
  BY <1>1, <1>2, Parts DEF GoodCounters
<1>3. CASE Event
  <2>1. used = [events |-> used.events, exports |-> used.exports, attempts |-> used.attempts]
    BY <1>1, Parts DEF GoodCounters
  <2>2. /\ used' = [events |-> used.events + 1, exports |-> used.exports, attempts |-> used.attempts]
        /\ used.events < MaxEvents
    BY <1>3, <2>1 DEF Event
  <2> QED
    BY <1>1, <2>2, Parts DEF GoodCounters
<1> QED
  BY <1>2, <1>3

LEMMA DeviceForm ==
  ASSUME AccountInv, NEW d \in Devices
  PROVE  LET r == device[d] IN
         /\ r = [state |-> r.state, registered |-> r.registered, attempt |-> r.attempt,
                 sendCmac |-> r.sendCmac, import |-> r.import, exports |-> r.exports,
                 proofs |-> r.proofs, prepared |-> r.prepared, ring |-> r.ring]
         /\ r.state \in {"off", "login", "granting", "idle", "failed"}
         /\ r.registered \in BOOLEAN /\ r.attempt \in 0..MaxAttempts /\ r.sendCmac \in BOOLEAN
         /\ r.import \in [nonce : 0..MaxEvents, trusted : BOOLEAN]
         /\ r.exports \subseteq 1..MaxEvents /\ r.proofs \subseteq Ids /\ r.prepared \subseteq Ids
         /\ r.state \in {"login", "idle"} => r.registered
         /\ r.attempt <= used.attempts
         /\ IsShaped(r.ring) /\ IsRing(r.ring) /\ GoodRing(World, d, r.ring)
         /\ r.ring.local \in Nat
         /\ r.registered => HasKey(r.ring, r.ring.local) /\ Shared(World, d, CurrentKey(r.ring))
<1>1. GoodDevice(World, d, device[d]) /\ IsDevice(device[d])
  BY Invariants
<1>2. IsRing(device[d].ring)
  BY <1>1 DEF IsDevice
<1>3. device[d].ring.local \in Nat
  BY <1>2 DEF IsRing
<1> QED
  BY <1>1, <1>2, <1>3, Parts DEF GoodDevice, IsDevice, IsShaped

\* Only what a device remembers of its connection or its users changes.
LEMMA DeviceRemembers ==
  ASSUME AccountInv, NEW d \in Devices, NEW s, device' = [device EXCEPT ![d] = s],
         s = [state |-> s.state, registered |-> s.registered, attempt |-> s.attempt,
              sendCmac |-> s.sendCmac, import |-> s.import, exports |-> s.exports,
              proofs |-> s.proofs, prepared |-> s.prepared, ring |-> s.ring],
         s.registered = device[d].registered, s.attempt = device[d].attempt,
         s.ring = device[d].ring,
         s.state \in {"off", "login", "granting", "idle", "failed"},
         s.sendCmac \in BOOLEAN, s.import \in [nonce : 0..MaxEvents, trusted : BOOLEAN],
         s.exports \subseteq 1..MaxEvents, s.proofs \subseteq Ids, s.prepared \subseteq Ids,
         s.state \in {"login", "idle"} => s.registered,
         s.state = "granting" => ~s.registered,
         tables' = tables, history'.keys = history.keys,
         history.granted \subseteq history'.granted, used.attempts <= used'.attempts,
         GoodCounters(World')
  PROVE  /\ GoodWorld(World') /\ Grows(World, World') /\ device'[d] = s
         /\ \A e \in Devices : e # d => device'[e] = device[e]
<1>1. GoodDevice(World, d, s)
  BY Invariants, DeviceAlike
<1>2. Raised(World, d, device[d].ring, s.ring)
  <2>1. device[d].ring.local \in Nat
    BY DeviceForm
  <2> QED
    BY <2>1 DEF Raised
<1>3. device = [e \in Devices |-> device[e]]
  BY Invariants
<1> QED
  BY <1>1, <1>2, <1>3, DeviceStep

\* A device leaves its connection.
LEMMA LeftForm ==
  ASSUME AccountInv, NEW d \in Devices, NEW st, NEW ex,
         \/ device' = Left(d, st) /\ ex = device[d].exports
         \/ device' = [Left(d, st) EXCEPT ![d].exports = {}] /\ ex = {}
  PROVE  LET r == device[d] IN
         device' = [device EXCEPT ![d] =
           [state |-> st, registered |-> r.registered, attempt |-> r.attempt,
            sendCmac |-> r.sendCmac, import |-> r.import, exports |-> ex,
            proofs |-> {}, prepared |-> r.prepared, ring |-> r.ring]]
<1> DEFINE r == device[d]
           s == [state |-> st, registered |-> r.registered, attempt |-> r.attempt,
                 sendCmac |-> r.sendCmac, import |-> r.import, exports |-> ex,
                 proofs |-> {}, prepared |-> r.prepared, ring |-> r.ring]
           a == [r EXCEPT !.state = st, !.proofs = {}]
           b == [a EXCEPT !.exports = {}]
<1>1. DOMAIN r = {"state", "registered", "attempt", "sendCmac", "import", "exports", "proofs",
                  "prepared", "ring"}
  <2>1. r = [state |-> r.state, registered |-> r.registered, attempt |-> r.attempt,
             sendCmac |-> r.sendCmac, import |-> r.import, exports |-> r.exports,
             proofs |-> r.proofs, prepared |-> r.prepared, ring |-> r.ring]
    BY DeviceForm
  <2> QED
    BY <2>1
<1>2. device = [e \in Devices |-> device[e]]
  BY Invariants
<1>3. Left(d, st) = [e \in Devices |-> IF e = d THEN a ELSE device[e]]
  BY <1>2 DEF Left
<1>4. a = [f \in DOMAIN r |-> IF f = "proofs" THEN {} ELSE IF f = "state" THEN st ELSE r[f]]
  OBVIOUS
<1>5. DOMAIN a = DOMAIN r
  BY <1>4
<1>6. b = [f \in DOMAIN r |-> IF f = "exports" THEN {} ELSE a[f]]
  BY <1>5
<1> HIDE DEF r, a
<1>7. CASE device' = Left(d, st) /\ ex = r.exports
  <2>1. a = s
    BY <1>1, <1>4, <1>7
  <2> QED
    BY <1>2, <1>3, <1>7, <2>1 DEF r
<1>8. CASE device' = [Left(d, st) EXCEPT ![d].exports = {}] /\ ex = {}
  <2>1. device' = [e \in Devices |-> IF e = d THEN b ELSE device[e]]
    BY <1>3, <1>8
  <2>2. b = s
    BY <1>1, <1>4, <1>6, <1>8
  <2> QED
    BY <1>2, <2>1, <2>2 DEF r
<1> QED
  BY <1>7, <1>8 DEF r

LEMMA Leaves ==
  ASSUME AccountInv, NEW d \in Devices, NEW st \in {"off", "failed"},
         device' \in {Left(d, st), [Left(d, st) EXCEPT ![d].exports = {}]},
         link' = Closed(d), kicked' \subseteq Ids, UNCHANGED <<tables, history>>,
         used' = used \/ Event
  PROVE  AccountInv'
<1> DEFINE r == device[d]
<1>1. PICK ex : \/ device' = Left(d, st) /\ ex = r.exports
                \/ device' = [Left(d, st) EXCEPT ![d].exports = {}] /\ ex = {}
  OBVIOUS
<1> DEFINE s == [state |-> st, registered |-> r.registered, attempt |-> r.attempt,
                 sendCmac |-> r.sendCmac, import |-> r.import, exports |-> ex,
                 proofs |-> {}, prepared |-> r.prepared, ring |-> r.ring]
<1>2. device' = [device EXCEPT ![d] = s]
  BY <1>1, LeftForm
<1>3. GoodCounters(World') /\ used'.attempts = used.attempts /\ used.attempts \in Nat
  BY CountersKept, Invariants, AccountAssumption
<1>4. ex \subseteq 1..MaxEvents
  <2>1. r.exports \subseteq 1..MaxEvents
    BY DeviceForm
  <2> QED
    BY <1>1, <2>1
<1>5. /\ s = [state |-> s.state, registered |-> s.registered, attempt |-> s.attempt,
              sendCmac |-> s.sendCmac, import |-> s.import, exports |-> s.exports,
              proofs |-> s.proofs, prepared |-> s.prepared, ring |-> s.ring]
      /\ s.state = st /\ s.registered = r.registered /\ s.attempt = r.attempt /\ s.sendCmac = r.sendCmac
      /\ s.import = r.import /\ s.exports = ex /\ s.proofs = {} /\ s.prepared = r.prepared
      /\ s.ring = r.ring
  OBVIOUS
<1> HIDE DEF s
<1>6. /\ s.sendCmac \in BOOLEAN /\ s.import \in [nonce : 0..MaxEvents, trusted : BOOLEAN]
      /\ s.exports \subseteq 1..MaxEvents /\ s.proofs \subseteq Ids /\ s.prepared \subseteq Ids
  BY <1>4, <1>5, DeviceForm
<1>7. /\ GoodWorld(World') /\ Grows(World, World') /\ device'[d] = s
      /\ \A e \in Devices : e # d => device'[e] = device[e]
  <2>1. /\ tables' = tables /\ history'.keys = history.keys
        /\ history.granted \subseteq history'.granted /\ used.attempts <= used'.attempts
    BY <1>3
  <2>2. /\ s.state \in {"off", "login", "granting", "idle", "failed"}
        /\ s.state \in {"login", "idle"} => s.registered
        /\ s.state = "granting" => ~s.registered
    BY <1>5
  <2> QED
    BY <1>2, <1>3, <1>5, <1>6, <2>1, <2>2, DeviceRemembers
<1> QED
  BY <1>5, <1>7, LinkClosed

LEMMA AtRest ==
  ASSUME AccountInv, UNCHANGED <<device, link, tables, history, used>>, kicked' \subseteq Ids
  PROVE  AccountInv'
<1>1. World' = World
  BY DEF World
<1> QED
  BY <1>1 DEF AccountInv

LEMMA FailsStep ==
  ASSUME AccountInv, NEW d \in Devices, Fails(d), UNCHANGED <<tables, kicked, history, used>>
  PROVE  AccountInv'
<1>1. kicked' \subseteq Ids
  BY Invariants
<1> QED
  BY <1>1, Leaves DEF Fails

LEMMA onErrorStep ==
  ASSUME AccountInv, NEW d \in Devices, onError(d)
  PROVE  AccountInv'
<1> DEFINE st == IF Head(link[d].down).fatal THEN "failed" ELSE "off"
<1>1. kicked' \subseteq Ids
  BY Invariants DEF onError
<1>2. st \in {"off", "failed"} /\ device' = Left(d, st) /\ link' = Closed(d)
  BY DEF onError
<1>3. UNCHANGED <<tables, history>> /\ used' = used
  BY DEF onError
<1> HIDE DEF st
<1> QED
  BY <1>1, <1>2, <1>3, Leaves

LEMMA DropStep ==
  ASSUME AccountInv, NEW d \in Devices, Drop(d)
  PROVE  AccountInv'
<1>1. kicked' \subseteq Ids
  BY Invariants DEF Drop
<1> QED
  BY <1>1, Leaves DEF Drop

LEMMA forceDisconnectStep ==
  ASSUME AccountInv, NEW id \in Ids, forceDisconnect(id)
  PROVE  AccountInv'
<1>1. id[1] \in Devices /\ kicked' \subseteq Ids /\ UNCHANGED <<tables, history, used>>
  BY Invariants DEF forceDisconnect, Ids
<1>2. \/ device' = Left(id[1], "off") /\ link' = Closed(id[1])
      \/ UNCHANGED <<device, link>>
  BY DEF forceDisconnect
<1>3. CASE device' = Left(id[1], "off") /\ link' = Closed(id[1])
  BY <1>1, <1>3, Leaves
<1>4. CASE UNCHANGED <<device, link>>
  BY <1>1, <1>4, AtRest
<1> QED
  BY <1>2, <1>3, <1>4

LEMMA UserReconnectsStep ==
  ASSUME AccountInv, NEW d \in Devices, UserReconnects(d)
  PROVE  AccountInv'
<1> DEFINE r == device[d]
           s == [state |-> "off", registered |-> r.registered, attempt |-> r.attempt,
                 sendCmac |-> r.sendCmac, import |-> r.import, exports |-> r.exports,
                 proofs |-> {}, prepared |-> r.prepared, ring |-> r.ring]
<1>1. /\ device' = Left(d, "off") /\ UNCHANGED <<link, tables, kicked, history>> /\ Event
      /\ r.state = "failed"
  BY DEF UserReconnects
<1>2. device' = [device EXCEPT ![d] = s]
  BY <1>1, LeftForm
<1>3. GoodCounters(World') /\ used'.attempts = used.attempts /\ used.attempts \in Nat
  BY <1>1, CountersKept, Invariants, AccountAssumption
<1>4. /\ s = [state |-> s.state, registered |-> s.registered, attempt |-> s.attempt,
              sendCmac |-> s.sendCmac, import |-> s.import, exports |-> s.exports,
              proofs |-> s.proofs, prepared |-> s.prepared, ring |-> s.ring]
      /\ s.state = "off" /\ s.registered = r.registered /\ s.attempt = r.attempt /\ s.sendCmac = r.sendCmac
      /\ s.import = r.import /\ s.exports = r.exports /\ s.proofs = {} /\ s.prepared = r.prepared
      /\ s.ring = r.ring
  OBVIOUS
<1> HIDE DEF s
<1>5. /\ s.sendCmac \in BOOLEAN /\ s.import \in [nonce : 0..MaxEvents, trusted : BOOLEAN]
      /\ s.exports \subseteq 1..MaxEvents /\ s.proofs \subseteq Ids /\ s.prepared \subseteq Ids
  BY <1>4, DeviceForm
<1>6. /\ tables' = tables /\ history'.keys = history.keys
      /\ history.granted \subseteq history'.granted /\ used.attempts <= used'.attempts
      /\ kicked' \subseteq Ids
  BY <1>1, <1>3, Invariants
<1>7. /\ GoodWorld(World') /\ Grows(World, World') /\ device'[d] = s
      /\ \A e \in Devices : e # d => device'[e] = device[e]
  BY <1>2, <1>3, <1>4, <1>5, <1>6, DeviceRemembers
<1>8. link[d] = NoLink
  <2>1. Phase(World, d, link[d])
    BY Invariants
  <2> QED
    BY <1>1, <2>1, Parts DEF Phase
<1>9. GoodLink(World', d, link[d])
  BY <1>4, <1>7, <1>8, ClosedLink, Parts
<1>10. link' = [link EXCEPT ![d] = link[d]]
  BY <1>1, Invariants
<1> QED
  BY <1>6, <1>7, <1>9, <1>10, Linked

LEMMA ConnectStep ==
  ASSUME AccountInv, NEW d \in Devices, Connect(d)
  PROVE  AccountInv'
<1> DEFINE r == device[d]
           st == IF r.registered THEN "login" ELSE "granting"
           m == IF r.registered THEN LoginMessage ELSE AccessMessage(r.import)
           s == [state |-> st, registered |-> r.registered, attempt |-> r.attempt,
                 sendCmac |-> r.sendCmac, import |-> r.import, exports |-> r.exports,
                 proofs |-> r.proofs, prepared |-> r.prepared, ring |-> r.ring]
           n == [server |-> "auth", id |-> 0, up |-> <<m>>, calls |-> << >>, down |-> << >>,
                 route |-> "none"]
<1>1. /\ device' = [device EXCEPT ![d].state = st] /\ UNCHANGED <<tables, kicked, history, used>>
      /\ link' = [link EXCEPT ![d].server = "auth", ![d].up = <<m>>] /\ r.state = "off"
  BY DEF Connect
<1>2. device = [e \in Devices |-> device[e]] /\ link = [e \in Devices |-> link[e]]
  BY Invariants
<1>3. device' = [device EXCEPT ![d] = s]
  <2>1. r = [state |-> r.state, registered |-> r.registered, attempt |-> r.attempt,
             sendCmac |-> r.sendCmac, import |-> r.import, exports |-> r.exports,
             proofs |-> r.proofs, prepared |-> r.prepared, ring |-> r.ring]
    BY DeviceForm
  <2> HIDE DEF st
  <2>2. [r EXCEPT !.state = st] = s
    BY <2>1
  <2>3. device' = [device EXCEPT ![d] = [r EXCEPT !.state = st]]
    BY <1>1, <1>2
  <2> QED
    BY <2>2, <2>3
<1>4. m.type \in {"login", "access"}
  BY DEF LoginMessage, AccessMessage
<1>5. link[d] = NoLink
  <2>1. Phase(World, d, link[d])
    BY Invariants
  <2> QED
    BY <1>1, <2>1, Parts DEF Phase
<1>6. link' = [link EXCEPT ![d] = n]
  <2> HIDE DEF m
  <2>1. [NoLink EXCEPT !.server = "auth", !.up = <<m>>] = n
    <3> DEFINE up == <<m>>
               a == [NoLink EXCEPT !.server = "auth", !.up = up]
    <3>1. /\ DOMAIN NoLink = {"server", "id", "up", "calls", "down", "route"}
          /\ NoLink.id = 0 /\ NoLink.calls = << >> /\ NoLink.down = << >> /\ NoLink.route = "none"
      BY DEF NoLink
    <3>2. n = [server |-> "auth", id |-> 0, up |-> up, calls |-> << >>, down |-> << >>,
               route |-> "none"]
      OBVIOUS
    <3> HIDE DEF n, up
    <3>3. a = [f \in DOMAIN NoLink |->
                 IF f = "up" THEN up ELSE IF f = "server" THEN "auth" ELSE NoLink[f]]
      OBVIOUS
    <3>4. a = n
      BY <3>1, <3>2, <3>3
    <3> QED
      BY <3>4 DEF up
  <2>2. link' = [link EXCEPT ![d] = [link[d] EXCEPT !.server = "auth", !.up = <<m>>]]
    BY <1>1, <1>2
  <2> QED
    BY <1>5, <2>1, <2>2
<1>7. /\ s = [state |-> s.state, registered |-> s.registered, attempt |-> s.attempt,
              sendCmac |-> s.sendCmac, import |-> s.import, exports |-> s.exports,
              proofs |-> s.proofs, prepared |-> s.prepared, ring |-> s.ring]
      /\ s.state = st /\ s.registered = r.registered /\ s.attempt = r.attempt /\ s.sendCmac = r.sendCmac
      /\ s.import = r.import /\ s.exports = r.exports /\ s.proofs = r.proofs /\ s.prepared = r.prepared
      /\ s.ring = r.ring
  OBVIOUS
<1>8. /\ s.state \in {"login", "granting"}
      /\ s.state = "login" => s.registered
      /\ s.state = "granting" => ~s.registered
  OBVIOUS
<1>9. /\ n.server = "auth" /\ n.id = 0 /\ n.up = <<m>> /\ n.calls = << >> /\ n.down = << >>
      /\ n.route = "none"
      /\ n = [server |-> n.server, id |-> n.id, up |-> n.up, calls |-> n.calls,
              down |-> n.down, route |-> n.route]
  OBVIOUS
<1> HIDE DEF s, n, m, st
<1>10. /\ s.sendCmac \in BOOLEAN /\ s.import \in [nonce : 0..MaxEvents, trusted : BOOLEAN]
       /\ s.exports \subseteq 1..MaxEvents /\ s.proofs \subseteq Ids /\ s.prepared \subseteq Ids
  BY <1>7, DeviceForm
<1>11. GoodCounters(World') /\ used'.attempts = used.attempts /\ used.attempts \in Nat
  BY <1>1, CountersKept, Invariants, AccountAssumption
<1>12. /\ tables' = tables /\ history'.keys = history.keys
       /\ history.granted \subseteq history'.granted /\ used.attempts <= used'.attempts
       /\ kicked' \subseteq Ids
  BY <1>1, <1>11, Invariants
<1>13. /\ GoodWorld(World') /\ Grows(World, World') /\ device'[d] = s
       /\ \A e \in Devices : e # d => device'[e] = device[e]
  BY <1>3, <1>7, <1>8, <1>10, <1>11, <1>12, DeviceRemembers
<1>14. IsSeq(n.up) /\ Range(n.up) = {m} /\ IsSeq(<< >>) /\ Range(<< >>) = {}
  BY <1>9, SingleSeq, EmptyIsSeq
<1>15. GoodLink(World', d, n)
  <2>1. IsLink(n)
    <3>1. 0 \in 0..MaxAttempts
      BY AccountAssumption
    <3> QED
      BY <1>9, <1>14, <3>1 DEF IsLink
  <2>2. Phase(World', d, n)
    BY <1>4, <1>8, <1>9, <1>13, <1>14, Parts DEF Phase
  <2>3. Contents(World', d, n)
    BY <1>4, <1>9, <1>14 DEF Contents, GoodUp
  <2>4. Ahead(World'.device[d].ring.local, n.down)
    BY <1>9, AheadEmpty
  <2> QED
    BY <2>1, <2>2, <2>3, <2>4 DEF GoodLink
<1>16. /\ n.route \in {"none", link[d].route}
       /\ link[d].server \in {"idle", "error"} => n.server \in {"idle", "error"}
  BY <1>5, <1>9 DEF NoLink
<1> QED
  BY <1>6, <1>12, <1>13, <1>15, <1>16, Linked

LEMMA ShareAccountStep ==
  ASSUME AccountInv, NEW d \in Devices, NEW trusted \in BOOLEAN, ShareAccount(d, trusted)
  PROVE  AccountInv'
<1> DEFINE r == device[d]
           p == device[Partner]
           x == used.exports + 1
           s == [state |-> "off", registered |-> r.registered, attempt |-> r.attempt,
                 sendCmac |-> r.sendCmac, import |-> [nonce |-> x, trusted |-> trusted],
                 exports |-> r.exports, proofs |-> {}, prepared |-> r.prepared, ring |-> r.ring]
           q == [state |-> p.state, registered |-> p.registered, attempt |-> p.attempt,
                 sendCmac |-> p.sendCmac, import |-> p.import, exports |-> p.exports \cup {x},
                 proofs |-> p.proofs, prepared |-> p.prepared, ring |-> p.ring]
<1>1. Partner \in Devices /\ d # Partner
  BY AccountAssumption DEF ShareAccount
<1>2. /\ GoodWorld(World) /\ device = [e \in Devices |-> device[e]]
      /\ \A e \in Devices : GoodDevice(World, e, device[e])
  BY Invariants
<1>3. GoodCounters(World) /\ used.exports \in Nat
  BY <1>2, Parts, AccountAssumption DEF GoodWorld, GoodCounters
<1>4. /\ used' = [events |-> used.events + 1, exports |-> x, attempts |-> used.attempts]
      /\ used.events < MaxEvents
  <2>1. used = [events |-> used.events, exports |-> used.exports, attempts |-> used.attempts]
    BY <1>3, Parts DEF GoodCounters
  <2> QED
    BY <2>1 DEF ShareAccount
<1>5. GoodCounters(World') /\ x \in 1..MaxEvents
  BY <1>3, <1>4, Parts, AccountAssumption DEF GoodCounters, ShareAccount
<1>6. /\ UNCHANGED <<tables, kicked, history>> /\ link' = Closed(d) /\ used'.exports = x
      /\ used'.attempts = used.attempts
  BY <1>4 DEF ShareAccount
<1>7. device' = [e \in Devices |-> IF e = d THEN s ELSE IF e = Partner THEN q ELSE device[e]]
  <2> DEFINE a == [r EXCEPT !.state = "off", !.proofs = {}]
             i == [nonce |-> x, trusted |-> trusted]
             b == [a EXCEPT !.import = i]
             y == p.exports \cup {x}
             c == [p EXCEPT !.exports = y]
  <2>1. Left(d, "off") = [e \in Devices |-> IF e = d THEN a ELSE device[e]]
    BY <1>2 DEF Left
  <2>2. device' = [Left(d, "off") EXCEPT ![Partner] = exportAccount(@, x), ![d].import = i]
    BY <1>6 DEF ShareAccount
  <2>3. exportAccount(p, x) = c
    BY DEF exportAccount
  <2>4. /\ DOMAIN r = {"state", "registered", "attempt", "sendCmac", "import", "exports", "proofs",
                       "prepared", "ring"}
        /\ p = [state |-> p.state, registered |-> p.registered, attempt |-> p.attempt,
                sendCmac |-> p.sendCmac, import |-> p.import, exports |-> p.exports,
                proofs |-> p.proofs, prepared |-> p.prepared, ring |-> p.ring]
    <3>1. r = [state |-> r.state, registered |-> r.registered, attempt |-> r.attempt,
               sendCmac |-> r.sendCmac, import |-> r.import, exports |-> r.exports,
               proofs |-> r.proofs, prepared |-> r.prepared, ring |-> r.ring]
      BY <1>2 DEF GoodDevice
    <3>2. p = [state |-> p.state, registered |-> p.registered, attempt |-> p.attempt,
               sendCmac |-> p.sendCmac, import |-> p.import, exports |-> p.exports,
               proofs |-> p.proofs, prepared |-> p.prepared, ring |-> p.ring]
      BY <1>1, <1>2 DEF GoodDevice
    <3> QED
      BY <3>1, <3>2
  <2> HIDE DEF i, y, x, r, p
  <2>5. a = [f \in DOMAIN r |-> IF f = "proofs" THEN {} ELSE IF f = "state" THEN "off" ELSE r[f]]
    OBVIOUS
  <2>6. DOMAIN a = DOMAIN r
    BY <2>5
  <2>7. b = [f \in DOMAIN r |-> IF f = "import" THEN i ELSE a[f]]
    BY <2>6
  <2>8. c = [state |-> p.state, registered |-> p.registered, attempt |-> p.attempt,
             sendCmac |-> p.sendCmac, import |-> p.import, exports |-> y,
             proofs |-> p.proofs, prepared |-> p.prepared, ring |-> p.ring]
    BY <2>4
  <2>9. b = [state |-> "off", registered |-> r.registered, attempt |-> r.attempt,
             sendCmac |-> r.sendCmac, import |-> i, exports |-> r.exports,
             proofs |-> {}, prepared |-> r.prepared, ring |-> r.ring]
    <3> HIDE DEF a
    <3> QED
      BY <2>4, <2>5, <2>7
  <2> HIDE DEF a, b, c
  <2>10. b = [a EXCEPT !.import = i]
    BY DEF b
  <2>11. /\ Left(d, "off")[Partner] = p
         /\ [Left(d, "off") EXCEPT ![Partner] = exportAccount(@, x)]
              = [e \in Devices |-> IF e = d THEN a ELSE IF e = Partner THEN c ELSE device[e]]
    BY <1>1, <2>1, <2>3 DEF p
  <2>12. device' = [[Left(d, "off") EXCEPT ![Partner] = exportAccount(@, x)] EXCEPT ![d].import = i]
    BY <2>2
  <2>13. device' = [e \in Devices |-> IF e = d THEN b ELSE IF e = Partner THEN c ELSE device[e]]
    BY <1>1, <2>10, <2>11, <2>12
  <2> QED
    BY <2>8, <2>9, <2>13 DEF i, y, r, p, x
<1>8. /\ device' = [e \in Devices |-> device'[e]] /\ device'[d] = s /\ device'[Partner] = q
      /\ \A e \in Devices \ {d, Partner} : device'[e] = device[e]
  BY <1>1, <1>7
<1>9. GoodDevice(World, d, s)
  <2>1. /\ s = [state |-> s.state, registered |-> s.registered, attempt |-> s.attempt,
                sendCmac |-> s.sendCmac, import |-> s.import, exports |-> s.exports,
                proofs |-> s.proofs, prepared |-> s.prepared, ring |-> s.ring]
        /\ s.state = "off" /\ s.registered = r.registered /\ s.attempt = r.attempt
        /\ s.sendCmac = r.sendCmac /\ s.import = [nonce |-> x, trusted |-> trusted]
        /\ s.exports = r.exports /\ s.proofs = {} /\ s.prepared = r.prepared /\ s.ring = r.ring
    OBVIOUS
  <2>2. [nonce |-> x, trusted |-> trusted] \in [nonce : 0..MaxEvents, trusted : BOOLEAN]
    BY <1>5
  <2>3. r.sendCmac \in BOOLEAN /\ r.exports \subseteq 1..MaxEvents /\ r.prepared \subseteq Ids
    BY DeviceForm
  <2> HIDE DEF s
  <2>4. GoodDevice(World, d, r)
    BY <1>2
  <2> QED
    BY <2>1, <2>2, <2>3, <2>4, DeviceAlike
<1>10. GoodDevice(World, Partner, q)
  <2>1. /\ q = [state |-> q.state, registered |-> q.registered, attempt |-> q.attempt,
                sendCmac |-> q.sendCmac, import |-> q.import, exports |-> q.exports,
                proofs |-> q.proofs, prepared |-> q.prepared, ring |-> q.ring]
        /\ q.state = p.state /\ q.registered = p.registered /\ q.attempt = p.attempt
        /\ q.sendCmac = p.sendCmac /\ q.import = p.import
        /\ q.exports = p.exports \cup {x} /\ q.proofs = p.proofs
        /\ q.prepared = p.prepared /\ q.ring = p.ring
    OBVIOUS
  <2>2. GoodDevice(World, Partner, p)
    BY <1>1, <1>2
  <2>3. IsDevice(p)
    BY <2>2 DEF GoodDevice
  <2>4. /\ p.state \in {"off", "login", "granting", "idle", "failed"}
        /\ p.sendCmac \in BOOLEAN /\ p.import \in [nonce : 0..MaxEvents, trusted : BOOLEAN]
        /\ p.exports \cup {x} \subseteq 1..MaxEvents /\ p.proofs \subseteq Ids
        /\ p.prepared \subseteq Ids
    BY <1>5, <2>3 DEF IsDevice
  <2>5. /\ p.state \in {"login", "idle"} => p.registered
        /\ p.state = "granting" => ~p.registered
    BY <2>2 DEF GoodDevice
  <2> HIDE DEF q, p
  <2> QED
    BY <2>1, <2>2, <2>4, <2>5, DeviceAlike
<1>11. /\ s.attempt = r.attempt /\ s.ring = r.ring /\ s.state = "off"
       /\ q.attempt = p.attempt /\ q.ring = p.ring /\ q.state = p.state
  OBVIOUS
<1> HIDE DEF s, q, x
<1>12. \A e \in Devices : device'[e].attempt = device[e].attempt /\ device'[e].ring = device[e].ring
  BY <1>8, <1>11
<1>13. ASSUME NEW e \in Devices
       PROVE  GoodDevice(World, e, device'[e]) /\ Rise(World, World', e)
  <2>1. GoodDevice(World, e, device'[e])
    BY <1>2, <1>8, <1>9, <1>10
  <2> QED
    BY <1>2, <1>12, <2>1, Parts, RiseSame
<1>14. /\ tables' = tables /\ history'.keys = history.keys
       /\ history.granted \subseteq history'.granted
       /\ used.attempts <= used'.attempts /\ kicked' \subseteq Ids
  BY <1>6, Invariants, AccountAssumption
<1>15. Grows(World, World')
  <2>1. \A e \in Devices : IsDevice(device'[e])
    BY <1>13 DEF GoodDevice
  <2>2. \A e \in Devices : device'[e].ring.local \in Nat /\ device'[e].attempt \in Nat
    BY <2>1, AccountAssumption DEF IsDevice, IsRing
  <2> QED
    BY <1>13, <1>14, <2>2, Parts DEF Grows
<1>16. \A e \in Devices : GoodDevice(World', e, device'[e])
  BY <1>2, <1>5, <1>13, <1>15, DeviceKept
<1>17. GoodWorld(World')
  BY <1>2, <1>5, <1>8, <1>13, <1>14, <1>16, Parts, SameTables
<1>18. /\ device'[d].state \in {"off", "failed"}
       /\ \A e \in Devices : e # d => device'[e].state = device[e].state
  BY <1>8, <1>11
<1> QED
  BY <1>6, <1>12, <1>14, <1>15, <1>17, <1>18, LinkClosed

--------------------------------------------------------------------------------
(* Handlers of the device.                                                   *)

LEMMA MacIsGood ==
  ASSUME NEW v, NEW d \in Devices, GoodDevice(v, d, v.device[d]), v.device[d].registered
  PROVE  GoodUp(v, d, MacUpdateMessage(v.device[d].ring))
<1> DEFINE ring == v.device[d].ring
           m == MacUpdateMessage(ring)
<1>1. IsRing(ring) /\ HasKey(ring, ring.local) /\ GoodRing(v, d, ring)
  BY DEF GoodDevice, IsDevice
<1>2. CurrentKey(ring) \in Key /\ CurrentKey(ring).index = ring.local
  BY <1>1, CurrentIsKey
<1>3. m.type = "mac" /\ m.key = CurrentKey(ring)
  BY DEF MacUpdateMessage, generateEncryptionKeyCmac, CurrentKey
<1>4. v.device[d].attempt \in Nat
  <2>1. IsDevice(v.device[d])
    BY DEF GoodDevice
  <2> QED
    BY <2>1, AccountAssumption DEF IsDevice
<1>5. Fits(v, <<d, v.device[d].attempt>>, CurrentKey(ring))
  BY <1>2, <1>4 DEF Fits
<1> HIDE DEF m, ring
<1>6. GoodUp(v, d, m)
  BY <1>2, <1>3, <1>5 DEF GoodUp
<1> QED
  BY <1>6 DEF m, ring

LEMMA AcceptIsGood ==
  ASSUME NEW v, GoodDevice(v, Partner, v.device[Partner]), v.tables.keycount \in Nat,
         NEW id, id \in v.history.granted
  PROVE  GoodUp(v, Partner, AcceptMessage(id, v.device[Partner].ring))
<1> DEFINE ring == v.device[Partner].ring
           m == AcceptMessage(id, ring)
<1>1. Partner \in Members
  BY AccountAssumption
<1>2. /\ IsRing(ring) /\ HasKey(ring, ring.local) /\ GoodRing(v, Partner, ring)
      /\ Shared(v, Partner, CurrentKey(ring))
  <2>1. v.device[Partner].registered
    BY <1>1 DEF GoodDevice
  <2> QED
    BY <2>1 DEF GoodDevice, IsDevice
<1>3. CurrentKey(ring) \in Key /\ CurrentKey(ring).index = ring.local
  BY <1>2, CurrentIsKey
<1>4. m.type = "accept" /\ m.id = id /\ m.index = ring.local /\ m.key = CurrentKey(ring)
  BY DEF AcceptMessage, encryptSecretKey, CurrentKey
<1>5. Handed(v, ring.local, CurrentKey(ring))
  BY <1>1, <1>2, <1>3 DEF Handed, GoodRing, Shared, IsRing
<1> HIDE DEF m, ring
<1>6. GoodUp(v, Partner, m)
  BY <1>4, <1>5 DEF GoodUp
<1> QED
  BY <1>6 DEF m, ring

LEMMA EntryIdleIsGood ==
  ASSUME NEW v, NEW d, NEW ring
  PROVE  IsSeq(EntryIdle(ring)) /\ \A m \in Range(EntryIdle(ring)) : GoodUp(v, d, m)
<1>1. KeyChangeMessage(ring).type = "keyChange"
  BY DEF KeyChangeMessage
<1>2. CASE hasKeyUpdate(ring)
  <2>1. EntryIdle(ring) = <<KeyChangeMessage(ring)>>
    BY <1>2 DEF EntryIdle
  <2>2. GoodUp(v, d, KeyChangeMessage(ring))
    BY <1>1 DEF GoodUp
  <2> QED
    BY <2>1, <2>2, SingleSeq
<1>3. CASE ~hasKeyUpdate(ring)
  <2>1. EntryIdle(ring) = << >>
    BY <1>3 DEF EntryIdle
  <2> QED
    BY <2>1, EmptyIsSeq
<1> QED
  BY <1>2, <1>3

\* An idle device has taken another ring.
LEMMA RingStep ==
  ASSUME AccountInv, NEW d \in Devices, NEW s, device' = [device EXCEPT ![d] = s],
         UNCHANGED <<tables, kicked, history, used>>,
         s = [state |-> s.state, registered |-> s.registered, attempt |-> s.attempt,
              sendCmac |-> s.sendCmac, import |-> s.import, exports |-> s.exports,
              proofs |-> s.proofs, prepared |-> s.prepared, ring |-> s.ring],
         s.state = "idle", s.registered = TRUE, s.attempt \in 0..MaxAttempts,
         s.attempt <= used.attempts, s.sendCmac \in BOOLEAN,
         s.import \in [nonce : 0..MaxEvents, trusted : BOOLEAN],
         s.exports = device[d].exports, s.proofs = device[d].proofs,
         s.prepared = device[d].prepared,
         IsShaped(s.ring), IsRing(s.ring), GoodRing(World, d, s.ring), HasKey(s.ring, s.ring.local),
         Shared(World, d, CurrentKey(s.ring)),
         \/ s.attempt = device[d].attempt /\ Raised(World, d, device[d].ring, s.ring)
         \/ device[d].state = "granting" /\ device[d].attempt < s.attempt
  PROVE  /\ GoodWorld(World') /\ Grows(World, World') /\ device'[d] = s
         /\ \A e \in Devices : e # d => device'[e] = device[e]
         /\ GoodDevice(World', d, s) /\ kicked' \subseteq Ids
<1>1. s.exports \subseteq 1..MaxEvents /\ s.proofs \subseteq Ids /\ s.prepared \subseteq Ids
  BY DeviceForm
<1>2. World.used.attempts = used.attempts /\ IsDevice(s)
  BY <1>1, Parts DEF IsDevice
<1>3. GoodDevice(World, d, s)
  BY <1>2 DEF GoodDevice, IsShaped
<1>4. GoodCounters(World') /\ used'.attempts = used.attempts /\ used.attempts \in Nat
  BY CountersKept, Invariants, AccountAssumption
<1>5. /\ tables' = tables /\ history'.keys = history.keys
      /\ history.granted \subseteq history'.granted /\ used.attempts <= used'.attempts
      /\ kicked' \subseteq Ids
  BY <1>4, Invariants
<1>6. GoodWorld(World') /\ Grows(World, World')
  BY <1>3, <1>4, <1>5, DeviceStep
<1>7. /\ device'[d] = s
      /\ \A e \in Devices : e # d => device'[e] = device[e]
  BY Invariants
<1>8. GoodDevice(World', d, s)
  BY <1>6, <1>7, Parts DEF GoodWorld
<1> QED
  BY <1>5, <1>6, <1>7, <1>8

LEMMA FirstMessage ==
  ASSUME AccountInv, NEW d \in Devices, NEW type, Received(d, type)
  PROVE  LET l == link[d] IN
         /\ l.down # << >> /\ Head(l.down).type = type /\ Head(l.down) \in Range(l.down)
         /\ GoodDown(World, d, Head(l.down))
         /\ device[d].state \in {"login", "granting", "idle"}
<1> DEFINE l == link[d]
<1>1. l.down # << >> /\ Head(l.down).type = type
  BY DEF Received
<1>2. IsLink(l) /\ Phase(World, d, l) /\ Contents(World, d, l)
  BY Invariants
<1>3. IsSeq(l.down)
  BY <1>2 DEF IsLink
<1> HIDE DEF l
<1>4. Head(l.down) \in Range(l.down)
  BY <1>1, <1>3, ShorterSeq
<1>5. l # NoLink
  BY <1>1 DEF NoLink
<1>6. device[d].state \notin {"off", "failed"}
  BY <1>2, <1>5, Parts DEF Phase
<1>7. device[d].state \in {"off", "login", "granting", "idle", "failed"}
  BY DeviceForm
<1> QED
  BY <1>1, <1>2, <1>4, <1>6, <1>7 DEF Contents, l

LEMMA onWelcomeStep ==
  ASSUME AccountInv, NEW d \in Devices, onWelcome(d)
  PROVE  AccountInv'
<1> DEFINE r == device[d]
           l == link[d]
           changes == Head(l.down).changes
           c == CHOOSE c \in changes : TRUE
           ring == IF changes = {} THEN r.ring ELSE ImportKey(r.ring, c.key.index, c.key)
           cmac == changes # {} \/ r.sendCmac
           messages == (IF cmac THEN sendKeyUpdate(ring) ELSE << >>) \o EntryIdle(ring)
           s == [state |-> "idle", registered |-> r.registered, attempt |-> r.attempt,
                 sendCmac |-> cmac, import |-> r.import, exports |-> r.exports,
                 proofs |-> r.proofs, prepared |-> r.prepared, ring |-> ring]
<1>1. /\ Received(d, "welcome") /\ r.state = "login" /\ UNCHANGED <<tables, kicked, history, used>>
      /\ IF \A e \in changes : Verifies(d, e)
         THEN /\ device' = [device EXCEPT ![d].state = "idle", ![d].ring = ring, ![d].sendCmac = cmac]
              /\ Handled(d, messages)
         ELSE Fails(d)
  BY DEF onWelcome, Ring
<1>2. /\ l.down # << >> /\ Head(l.down).type = "welcome" /\ Head(l.down) \in Range(l.down)
      /\ GoodDown(World, d, Head(l.down))
  BY <1>1, FirstMessage
<1>3. l.id = r.attempt
  <2>1. Phase(World, d, l)
    BY Invariants
  <2> QED
    BY <1>1, <1>2, <2>1, Parts DEF Phase
<1>4. CASE ~\A e \in changes : Verifies(d, e)
  BY <1>1, <1>4, FailsStep
<1>5. ASSUME \A e \in changes : Verifies(d, e)
      PROVE  AccountInv'
  <2>1. r.registered = TRUE
    <3>1. r.state \in {"login", "idle"} => r.registered
      BY DeviceForm
    <3>2. r.registered \in BOOLEAN
      BY DeviceForm
    <3> QED
      BY <1>1, <3>1, <3>2
  <2>2. /\ IsShaped(r.ring) /\ IsRing(r.ring) /\ GoodRing(World, d, r.ring) /\ r.ring.local \in Nat
        /\ HasKey(r.ring, r.ring.local) /\ Shared(World, d, CurrentKey(r.ring))
    BY <2>1, DeviceForm
  <2>3. GoodWorld(World)
    BY Invariants
  <2>4. /\ IsShaped(ring) /\ IsRing(ring) /\ GoodRing(World, d, ring)
        /\ HasKey(ring, ring.local) /\ Shared(World, d, CurrentKey(ring))
        /\ Raised(World, d, r.ring, ring)
        /\ ring.local <= r.ring.local \/ ring.local \in Raises(Head(l.down))
    <3>1. CASE changes = {}
      <4>1. ring = r.ring
        BY <3>1
      <4>2. Raised(World, d, r.ring, r.ring)
        BY <2>2 DEF Raised
      <4> HIDE DEF ring
      <4> QED
        BY <2>2, <4>1, <4>2
    <3>2. CASE changes # {}
      <4>1. c \in changes
        BY <3>2
      <4> HIDE DEF c
      <4>2. GoodChange(World, c) /\ Verifies(d, c)
        BY <1>2, <1>5, <4>1 DEF GoodDown
      <4>3. /\ c.key \in Key /\ c.key.index > 0 /\ c.key.index <= World.tables.keycount
            /\ c.key = World.history.keys[c.key.index] /\ c.verify.index = c.key.index - 1
        BY <4>2 DEF GoodChange, KeyChange
      <4>4. c.verify = CurrentKey(r.ring)
        BY <4>2 DEF Verifies, verifyCmac, CurrentKey, Ring
      <4>5. c.verify.index = r.ring.local
        BY <2>2, <4>4, CurrentIsKey
      <4>6. c.key.index = r.ring.local + 1 /\ c.key.index \in Nat
        BY <2>2, <4>3, <4>5 DEF Key
      <4> DEFINE n == ImportKey(r.ring, c.key.index, c.key)
      <4>7. /\ n.local = c.key.index /\ IsShaped(n) /\ IsRing(n) /\ GoodRing(World, d, n)
            /\ HasKey(n, n.local) /\ CurrentKey(n) = c.key /\ Raised(World, d, r.ring, n)
        BY <2>2, <2>3, <4>3, <4>6, ImportedRing
      <4>8. ring = n
        BY <3>2
      <4> HIDE DEF n, ring
      <4>9. Shared(World, d, CurrentKey(n))
        BY <4>3, <4>7 DEF Shared
      <4>10. n.local \in Raises(Head(l.down))
        BY <1>2, <4>1, <4>7 DEF Raises
      <4> QED
        BY <4>7, <4>8, <4>9, <4>10
    <3> QED
      BY <3>1, <3>2
  <2>5. device' = [device EXCEPT ![d] = s]
    <3> DEFINE a == [r EXCEPT !.state = "idle", !.ring = ring, !.sendCmac = cmac]
    <3>1. device = [e \in Devices |-> device[e]]
      BY Invariants
    <3>2. r = [state |-> r.state, registered |-> r.registered, attempt |-> r.attempt,
               sendCmac |-> r.sendCmac, import |-> r.import, exports |-> r.exports,
               proofs |-> r.proofs, prepared |-> r.prepared, ring |-> r.ring]
      BY DeviceForm
    <3>3. DOMAIN r = {"state", "registered", "attempt", "sendCmac", "import", "exports", "proofs",
                      "prepared", "ring"}
      BY <3>2
    <3>4. device' = [device EXCEPT ![d].state = "idle", ![d].ring = ring, ![d].sendCmac = cmac]
      BY <1>1, <1>5
    <3> HIDE DEF ring, cmac
    <3>5. a = [f \in DOMAIN r |-> IF f = "sendCmac" THEN cmac ELSE IF f = "ring" THEN ring
                                  ELSE IF f = "state" THEN "idle" ELSE r[f]]
      OBVIOUS
    <3>6. device' = [e \in Devices |-> IF e = d THEN a ELSE device[e]]
      BY <3>1, <3>4
    <3>7. a = s
      <4> HIDE DEF r, a
      <4> QED
        BY <3>3, <3>5
    <3> HIDE DEF a, s
    <3> QED
      BY <3>1, <3>6, <3>7
  <2>6. /\ s = [state |-> s.state, registered |-> s.registered, attempt |-> s.attempt,
                sendCmac |-> s.sendCmac, import |-> s.import, exports |-> s.exports,
                proofs |-> s.proofs, prepared |-> s.prepared, ring |-> s.ring]
        /\ s.state = "idle" /\ s.registered = r.registered /\ s.attempt = r.attempt
        /\ s.sendCmac = cmac /\ s.import = r.import /\ s.exports = r.exports
        /\ s.proofs = r.proofs /\ s.prepared = r.prepared /\ s.ring = ring
    OBVIOUS
  <2>7. cmac \in BOOLEAN
    BY DeviceForm
  <2>8. /\ r.attempt \in 0..MaxAttempts /\ r.attempt <= used.attempts
        /\ r.import \in [nonce : 0..MaxEvents, trusted : BOOLEAN]
    BY DeviceForm
  <2> HIDE DEF s, ring, cmac, c
  <2>9. /\ GoodWorld(World') /\ Grows(World, World') /\ device'[d] = s
        /\ \A e \in Devices : e # d => device'[e] = device[e]
        /\ GoodDevice(World', d, s) /\ kicked' \subseteq Ids
    BY <1>1, <2>1, <2>4, <2>5, <2>6, <2>7, <2>8, RingStep
  <2>10. GoodUp(World', d, MacUpdateMessage(ring))
    BY <2>1, <2>6, <2>9, Parts, MacIsGood
  <2>11. IsSeq(messages) /\ \A m \in Range(messages) : GoodUp(World', d, m)
    <3> DEFINE mac == IF cmac THEN sendKeyUpdate(ring) ELSE << >>
    <3>1. IsSeq(mac) /\ \A m \in Range(mac) : GoodUp(World', d, m)
      BY <2>10, SingleSeq, EmptyIsSeq DEF sendKeyUpdate
    <3> HIDE DEF mac
    <3>2. IsSeq(EntryIdle(ring)) /\ \A m \in Range(EntryIdle(ring)) : GoodUp(World', d, m)
      BY EntryIdleIsGood
    <3>3. /\ IsSeq(mac \o EntryIdle(ring))
          /\ \A m \in Range(mac \o EntryIdle(ring)) : GoodUp(World', d, m)
      BY <3>1, <3>2, JoinedSeq
    <3> QED
      BY <3>3 DEF mac
  <2>12. Handled(d, messages)
    BY <1>1, <1>5
  <2> HIDE DEF messages
  <2>13. /\ device'[d].state = "idle" /\ device'[d].attempt = l.id
         /\ device'[d].ring.local <= device[d].ring.local
              \/ device'[d].ring.local \in Raises(Head(l.down))
    BY <1>3, <2>4, <2>6, <2>9
  <2> QED
    BY <1>1, <1>2, <2>9, <2>11, <2>12, <2>13, DeviceHandles
<1> QED
  BY <1>4, <1>5

LEMMA onGrantStep ==
  ASSUME AccountInv, NEW d \in Devices, onGrant(d)
  PROVE  AccountInv'
<1> DEFINE r == device[d]
           l == link[d]
           g == Head(l.down)
           ring == GrantedRing(r.ring, g.index, g.key)
           messages == sendKeyUpdate(ring) \o EntryIdle(ring)
           s == [state |-> "idle", registered |-> TRUE, attempt |-> g.id[2], sendCmac |-> TRUE,
                 import |-> NoImport, exports |-> r.exports, proofs |-> r.proofs,
                 prepared |-> r.prepared, ring |-> ring]
<1>1. /\ Received(d, "grant") /\ r.state = "granting" /\ UNCHANGED <<tables, kicked, history, used>>
      /\ device' = [device EXCEPT ![d].state = "idle", ![d].registered = TRUE,
                      ![d].attempt = g.id[2], ![d].ring = ring, ![d].sendCmac = TRUE,
                      ![d].import = NoImport]
      /\ Handled(d, messages)
  BY DEF onGrant, Ring
<1>2. /\ l.down # << >> /\ g.type = "grant" /\ g \in Range(l.down) /\ GoodDown(World, d, g)
  BY <1>1, FirstMessage
<1>3. /\ g.id = <<d, l.id>> /\ r.attempt < l.id /\ l.id <= used.attempts /\ g.id[2] = l.id
      /\ l.id \in 0..MaxAttempts
  <2>1. Phase(World, d, l) /\ IsLink(l)
    BY Invariants
  <2>2. l.id \in 0..MaxAttempts
    BY <2>1 DEF IsLink
  <2> HIDE DEF g
  <2>3. g.id = <<d, l.id>> /\ r.attempt < l.id /\ l.id <= used.attempts
    BY <1>1, <1>2, <2>1, Parts DEF Phase
  <2> QED
    BY <2>2, <2>3
<1>4. Handed(World, g.index, g.key) /\ d \notin Members
  <2>1. GoodDevice(World, d, r)
    BY Invariants
  <2>2. d \notin Members
    BY <1>1, <2>1 DEF GoodDevice
  <2> HIDE DEF g
  <2> QED
    BY <1>2, <2>2 DEF GoodDown
<1>5. device' = [device EXCEPT ![d] = s]
  <2> DEFINE a == [r EXCEPT !.state = "idle", !.registered = TRUE, !.attempt = g.id[2],
                     !.ring = ring, !.sendCmac = TRUE, !.import = NoImport]
  <2>1. device = [e \in Devices |-> device[e]]
    BY Invariants
  <2>2. r = [state |-> r.state, registered |-> r.registered, attempt |-> r.attempt,
             sendCmac |-> r.sendCmac, import |-> r.import, exports |-> r.exports,
             proofs |-> r.proofs, prepared |-> r.prepared, ring |-> r.ring]
    BY DeviceForm
  <2>3. DOMAIN r = {"state", "registered", "attempt", "sendCmac", "import", "exports", "proofs",
                    "prepared", "ring"}
    BY <2>2
  <2> HIDE DEF ring, g
  <2>4. device' = [e \in Devices |-> IF e = d THEN a ELSE device[e]]
    BY <1>1, <2>1
  <2>5. a = [f \in DOMAIN r |-> IF f = "import" THEN NoImport ELSE IF f = "sendCmac" THEN TRUE
              ELSE IF f = "ring" THEN ring ELSE IF f = "attempt" THEN g.id[2]
              ELSE IF f = "registered" THEN TRUE ELSE IF f = "state" THEN "idle" ELSE r[f]]
    OBVIOUS
  <2>6. a = s
    <3> HIDE DEF r, a
    <3> QED
      BY <2>3, <2>5
  <2> HIDE DEF a, s
  <2> QED
    BY <2>1, <2>4, <2>6
<1>6. /\ s = [state |-> s.state, registered |-> s.registered, attempt |-> s.attempt,
              sendCmac |-> s.sendCmac, import |-> s.import, exports |-> s.exports,
              proofs |-> s.proofs, prepared |-> s.prepared, ring |-> s.ring]
      /\ s.state = "idle" /\ s.registered = TRUE /\ s.attempt = l.id
      /\ s.sendCmac = TRUE /\ s.import = NoImport /\ s.exports = r.exports
      /\ s.proofs = r.proofs /\ s.prepared = r.prepared /\ s.ring = ring
  BY <1>3
<1>7. NoImport \in [nonce : 0..MaxEvents, trusted : BOOLEAN]
  BY AccountAssumption DEF NoImport
<1> HIDE DEF s, g
<1>8. /\ ring.local = g.index /\ IsShaped(ring) /\ IsRing(ring) /\ GoodRing(World, d, ring)
      /\ HasKey(ring, ring.local) /\ CurrentKey(ring) = g.key
  <2>1. IsShaped(r.ring) /\ IsRing(r.ring) /\ GoodWorld(World)
    BY DeviceForm, Invariants
  <2> QED
    BY <1>4, <2>1, JoinedRing
<1> HIDE DEF ring
<1>9. Shared(World, d, CurrentKey(ring))
  BY <1>4, <1>8 DEF Handed, Shared
<1>10. /\ GoodWorld(World') /\ Grows(World, World') /\ device'[d] = s
       /\ \A e \in Devices : e # d => device'[e] = device[e]
       /\ GoodDevice(World', d, s) /\ kicked' \subseteq Ids
  BY <1>1, <1>3, <1>5, <1>6, <1>7, <1>8, <1>9, RingStep
<1>11. GoodUp(World', d, MacUpdateMessage(ring))
  BY <1>6, <1>10, Parts, MacIsGood
<1>12. IsSeq(messages) /\ \A m \in Range(messages) : GoodUp(World', d, m)
  <2> DEFINE mac == sendKeyUpdate(ring)
  <2>1. IsSeq(mac) /\ \A m \in Range(mac) : GoodUp(World', d, m)
    BY <1>11, SingleSeq DEF sendKeyUpdate
  <2> HIDE DEF mac
  <2>2. IsSeq(EntryIdle(ring)) /\ \A m \in Range(EntryIdle(ring)) : GoodUp(World', d, m)
    BY EntryIdleIsGood
  <2>3. /\ IsSeq(mac \o EntryIdle(ring))
        /\ \A m \in Range(mac \o EntryIdle(ring)) : GoodUp(World', d, m)
    BY <2>1, <2>2, JoinedSeq
  <2> QED
    BY <2>3 DEF mac
<1>13. ring.local \in Raises(g)
  BY <1>2, <1>8 DEF Raises
<1> HIDE DEF messages
<1>14. /\ device'[d].state = "idle" /\ device'[d].attempt = l.id
       /\ device'[d].ring.local \in Raises(Head(l.down))
  BY <1>6, <1>10, <1>13 DEF g
<1> QED
  BY <1>1, <1>2, <1>10, <1>12, <1>14, DeviceHandles

LEMMA IdleDevice ==
  ASSUME AccountInv, NEW d \in Devices, Idle(d)
  PROVE  /\ link[d].id = device[d].attempt /\ device[d].registered = TRUE
         /\ link[d].server \notin {"none", "auth"} /\ device[d].state = "idle"
<1>1. Phase(World, d, link[d])
  BY Invariants
<1>2. device[d].state = "idle"
  BY DEF Idle
<1>3. device[d].state \in {"login", "idle"} => device[d].registered
  BY DeviceForm
<1>4. device[d].registered \in BOOLEAN
  BY DeviceForm
<1>5. link[d].id = device[d].attempt /\ link[d].server \notin {"none", "auth"}
  BY <1>1, <1>2, Parts DEF Phase
<1> QED
  BY <1>2, <1>3, <1>4, <1>5

\* An idle device takes a ring that is good.
LEMMA TakesRing ==
  ASSUME AccountInv, NEW d \in Devices, Idle(d), NEW ring,
         device' = [device EXCEPT ![d].ring = ring], UNCHANGED <<tables, kicked, history, used>>,
         IsShaped(ring), IsRing(ring), GoodRing(World, d, ring), HasKey(ring, ring.local),
         Shared(World, d, CurrentKey(ring)), Raised(World, d, device[d].ring, ring)
  PROVE  /\ GoodWorld(World') /\ Grows(World, World') /\ kicked' \subseteq Ids
         /\ device'[d].state = "idle" /\ device'[d].attempt = link[d].id /\ device'[d].ring = ring
         /\ \A e \in Devices : e # d => device'[e] = device[e]
<1> DEFINE r == device[d]
           s == [state |-> r.state, registered |-> r.registered, attempt |-> r.attempt,
                 sendCmac |-> r.sendCmac, import |-> r.import, exports |-> r.exports,
                 proofs |-> r.proofs, prepared |-> r.prepared, ring |-> ring]
<1>1. /\ r = [state |-> r.state, registered |-> r.registered, attempt |-> r.attempt,
              sendCmac |-> r.sendCmac, import |-> r.import, exports |-> r.exports,
              proofs |-> r.proofs, prepared |-> r.prepared, ring |-> r.ring]
  BY DeviceForm
<1>2. device' = [device EXCEPT ![d] = s]
  <2>1. device = [e \in Devices |-> device[e]]
    BY Invariants
  <2>2. [r EXCEPT !.ring = ring] = s
    BY <1>1
  <2>3. device' = [device EXCEPT ![d] = [r EXCEPT !.ring = ring]]
    BY <2>1
  <2> QED
    BY <2>2, <2>3
<1>3. /\ s = [state |-> s.state, registered |-> s.registered, attempt |-> s.attempt,
              sendCmac |-> s.sendCmac, import |-> s.import, exports |-> s.exports,
              proofs |-> s.proofs, prepared |-> s.prepared, ring |-> s.ring]
      /\ s.state = r.state /\ s.registered = r.registered /\ s.attempt = r.attempt
      /\ s.sendCmac = r.sendCmac /\ s.import = r.import /\ s.exports = r.exports
      /\ s.proofs = r.proofs /\ s.prepared = r.prepared /\ s.ring = ring
  OBVIOUS
<1>4. /\ r.attempt \in 0..MaxAttempts /\ r.attempt <= used.attempts /\ r.sendCmac \in BOOLEAN
      /\ r.import \in [nonce : 0..MaxEvents, trusted : BOOLEAN]
  BY DeviceForm
<1>5. link[d].id = r.attempt /\ r.registered = TRUE /\ r.state = "idle"
  BY IdleDevice
<1> HIDE DEF s, r
<1>6. /\ GoodWorld(World') /\ Grows(World, World') /\ device'[d] = s
      /\ \A e \in Devices : e # d => device'[e] = device[e]
      /\ GoodDevice(World', d, s) /\ kicked' \subseteq Ids
  BY <1>2, <1>3, <1>4, <1>5, RingStep DEF r
<1> QED
  BY <1>3, <1>5, <1>6

\* An idle device activates the key it has prepared, or does nothing.
LEMMA ActivatesStep ==
  ASSUME AccountInv, NEW d \in Devices, Idle(d), NEW i \in Nat, i <= World.tables.keycount,
         device' = [device EXCEPT ![d].ring = activateNextKey(Ring(d), i)],
         Activates(Ring(d), i) => HasKey(Ring(d), i),
         UNCHANGED <<tables, kicked, history, used>>, Handled(d, << >>),
         link[d].down # << >>, i \in Raises(Head(link[d].down))
  PROVE  AccountInv'
<1> DEFINE old == device[d].ring
           ring == activateNextKey(old, i)
<1>1. Ring(d) = old
  BY DEF Ring
<1>2. GoodWorld(World) /\ device[d].registered = TRUE /\ device[d].state = "idle"
  BY Invariants, IdleDevice
<1>3. /\ IsShaped(old) /\ IsRing(old) /\ GoodRing(World, d, old) /\ old.local \in Nat
      /\ HasKey(old, old.local) /\ Shared(World, d, CurrentKey(old))
  BY <1>2, DeviceForm
<1>4. \/ ring = old
      \/ /\ ring.local = i /\ IsShaped(ring) /\ IsRing(ring) /\ GoodRing(World, d, ring)
         /\ HasKey(ring, ring.local) /\ CurrentKey(ring).maker = d /\ Raised(World, d, old, ring)
  <2> HIDE DEF old
  <2> QED
    BY <1>1, <1>2, <1>3, ActivatedRing
<1>5. device' = [device EXCEPT ![d].ring = ring]
  BY <1>1
<1> HIDE DEF ring, old
<1>6. Raised(World, d, old, old)
  BY <1>3 DEF Raised
<1>7. /\ IsShaped(ring) /\ IsRing(ring) /\ GoodRing(World, d, ring) /\ HasKey(ring, ring.local)
      /\ Shared(World, d, CurrentKey(ring)) /\ Raised(World, d, old, ring)
      /\ ring.local <= old.local \/ ring.local = i
  BY <1>3, <1>4, <1>6 DEF Shared
<1>8. /\ GoodWorld(World') /\ Grows(World, World') /\ kicked' \subseteq Ids
      /\ device'[d].state = "idle" /\ device'[d].attempt = link[d].id /\ device'[d].ring = ring
      /\ \A e \in Devices : e # d => device'[e] = device[e]
  BY <1>5, <1>7, TakesRing DEF old
<1>9. /\ device'[d].ring.local <= device[d].ring.local
           \/ device'[d].ring.local \in Raises(Head(link[d].down))
  BY <1>7, <1>8 DEF old
<1>10. IsSeq(<< >>) /\ \A m \in Range(<< >>) : GoodUp(World', d, m)
  BY EmptyIsSeq
<1> QED
  BY <1>2, <1>8, <1>9, <1>10, DeviceHandles

LEMMA onNewKeyAckStep ==
  ASSUME AccountInv, NEW d \in Devices, onNewKeyAck(d)
  PROVE  AccountInv'
<1> DEFINE m == Head(link[d].down)
<1>1. /\ Received(d, "newKeyAck") /\ Idle(d) /\ UNCHANGED <<tables, kicked, history, used>>
      /\ device' = [device EXCEPT ![d].ring = activateNextKey(Ring(d), m.index)]
      /\ Handled(d, << >>)
  BY DEF onNewKeyAck
<1>2. link[d].down # << >> /\ m.type = "newKeyAck" /\ GoodDown(World, d, m)
  BY <1>1, FirstMessage
<1> HIDE DEF m
<1>3. /\ m.index \in Nat /\ m.index <= World.tables.keycount
      /\ m.index > device[d].ring.local => HasKey(device[d].ring, m.index)
  BY <1>2, Parts DEF GoodDown
<1>4. Activates(Ring(d), m.index) => HasKey(Ring(d), m.index)
  <2>1. device[d].ring.local \in Nat
    BY DeviceForm
  <2> QED
    BY <1>3, <2>1 DEF Activates, Ring
<1>5. m.index \in Raises(m)
  BY <1>2 DEF Raises
<1> QED
  BY <1>1, <1>2, <1>3, <1>4, <1>5, ActivatesStep DEF m

\* A device that proves to use the device's key gets the next one.
LEMMA KeyUpdateIsGood ==
  ASSUME NEW w, NEW v, GoodWorld(w), Grows(w, v), NEW d \in Devices, NEW m, NEW old, NEW ring,
         GoodDown(w, d, m), m.type = "deviceKeys", ~m.duplicated, v.device[d].ring = ring,
         old.local < m.index, old.local \in Nat, ring.local = old.local, ring.next = old.local + 1,
         HasKey(ring, ring.next), ring.keys[ring.next] = [index |-> ring.next, maker |-> d],
         CurrentKey(ring) \in Key, CurrentKey(ring).index = ring.local
  PROVE  GoodUp(v, d, KeyUpdate(ring, ring.next, Trusted(ring, m.macs)))
<1> DEFINE i == ring.next
           receivers == Trusted(ring, m.macs)
           k == KeyUpdate(ring, i, receivers)
<1>1. /\ Free(w, m.index)
      /\ \A id \in DOMAIN m.macs :
           id \in Ids /\ m.macs[id] \in Key \cup {NoKey} /\ Fits(w, id, m.macs[id])
  BY DEF GoodDown
<1>2. Free(w, i) /\ i \in Nat /\ i > 0 /\ i - 1 = ring.local
  <2>1. w.tables.keycount \in Nat
    BY Counted
  <2> QED
    BY <1>1, <2>1 DEF Free
<1>3. Free(v, i)
  BY <1>2, FreeKept
<1>4. /\ k.type = "newKey" /\ k.index = i /\ k.key = ring.keys[i] /\ k.verify = CurrentKey(ring)
      /\ k.receivers = receivers
  BY DEF KeyUpdate, NewKeyMessage, encryptSecretKey, createCmac, CurrentKey
<1>5. ASSUME NEW id \in receivers
      PROVE  id \in Ids /\ Fits(v, id, CurrentKey(ring))
  <2>1. id \in DOMAIN m.macs /\ m.macs[id] = CurrentKey(ring)
    BY DEF Trusted, verifyEncryptionKeyCmac, verifyCmac, CurrentKey
  <2> HIDE DEF receivers, k
  <2> QED
    BY <1>1, <2>1, FitsKept
<1> HIDE DEF k, receivers
<1>6. GoodUp(v, d, k)
  BY <1>2, <1>3, <1>4, <1>5 DEF GoodUp
<1> QED
  BY <1>6 DEF k, receivers

LEMMA onDeviceKeysStep ==
  ASSUME AccountInv, NEW d \in Devices, onDeviceKeys(d)
  PROVE  AccountInv'
<1> DEFINE m == Head(link[d].down)
           old == device[d].ring
           next == generateNextKey(old, d)
<1>1. /\ Received(d, "deviceKeys") /\ Idle(d) /\ UNCHANGED <<tables, kicked, history, used>>
      /\ Ring(d) = old
  BY DEF onDeviceKeys, Ring
<1>2. \/ /\ m.duplicated
         /\ IF Activates(old, m.index) => HasKey(old, m.index)
            THEN /\ device' = [device EXCEPT ![d].ring = activateNextKey(old, m.index)]
                 /\ Handled(d, << >>)
            ELSE Fails(d)
      \/ /\ ~m.duplicated
         /\ IF CanGenerate(old)
            THEN /\ device' = [device EXCEPT ![d].ring = next]
                 /\ Handled(d, <<KeyUpdate(next, next.next, Trusted(next, m.macs))>>)
            ELSE Fails(d)
  BY DEF onDeviceKeys, Ring
<1>3. link[d].down # << >> /\ m.type = "deviceKeys" /\ m \in Range(link[d].down) /\ GoodDown(World, d, m)
  BY <1>1, FirstMessage
<1>4. CASE Fails(d)
  BY <1>1, <1>4, FailsStep
<1>5. ASSUME m.duplicated, Activates(old, m.index) => HasKey(old, m.index),
             device' = [device EXCEPT ![d].ring = activateNextKey(old, m.index)],
             Handled(d, << >>)
      PROVE  AccountInv'
  <2>1. m.index \in Nat /\ m.index <= World.tables.keycount /\ m.index \in Raises(m)
    <3> HIDE DEF m
    <3> QED
      BY <1>3, <1>5 DEF GoodDown, Raises
  <2> HIDE DEF old
  <2> QED
    BY <1>1, <1>3, <1>5, <2>1, ActivatesStep
<1>6. ASSUME ~m.duplicated, CanGenerate(old), device' = [device EXCEPT ![d].ring = next],
             Handled(d, <<KeyUpdate(next, next.next, Trusted(next, m.macs))>>)
      PROVE  AccountInv'
  <2>1. GoodWorld(World) /\ device[d].registered = TRUE /\ device[d].state = "idle"
    BY <1>1, Invariants, IdleDevice
  <2>2. /\ IsShaped(old) /\ IsRing(old) /\ GoodRing(World, d, old) /\ old.local \in Nat
        /\ HasKey(old, old.local) /\ Shared(World, d, CurrentKey(old))
    BY <2>1, DeviceForm
  <2>3. /\ next.local = old.local /\ next.next = old.local + 1
        /\ IsShaped(next) /\ IsRing(next) /\ GoodRing(World, d, next) /\ Raised(World, d, old, next)
        /\ HasKey(next, next.next) /\ next.keys[next.next] = [index |-> next.next, maker |-> d]
        /\ HasKey(next, next.local) /\ CurrentKey(next) = CurrentKey(old)
    <3> HIDE DEF old
    <3> QED
      BY <1>6, <2>1, <2>2, GeneratedRing
  <2> DEFINE k == KeyUpdate(next, next.next, Trusted(next, m.macs))
  <2>4. CurrentKey(next) \in Key /\ CurrentKey(next).index = next.local
    BY <2>3, CurrentIsKey
  <2> HIDE DEF next
  <2>5. Shared(World, d, CurrentKey(next))
    BY <2>2, <2>3
  <2>6. /\ GoodWorld(World') /\ Grows(World, World') /\ kicked' \subseteq Ids
        /\ device'[d].state = "idle" /\ device'[d].attempt = link[d].id /\ device'[d].ring = next
        /\ \A e \in Devices : e # d => device'[e] = device[e]
    BY <1>1, <1>6, <2>3, <2>5, TakesRing
  <2>7. old.local < m.index
    <3>1. Ahead(old.local, link[d].down) /\ IsLink(link[d])
      BY Invariants, Parts DEF GoodLink
    <3>2. IsSeq(link[d].down)
      BY <3>1 DEF IsLink
    <3>3. 1 \in 1..Len(link[d].down) /\ m = link[d].down[1]
      BY <1>3, <3>2, ShorterSeq, SeqElements
    <3> HIDE DEF m, old
    <3> QED
      BY <1>3, <1>6, <3>1, <3>3 DEF Ahead
  <2> HIDE DEF m, old
  <2>8. GoodUp(World', d, k)
    BY <1>3, <1>6, <2>1, <2>2, <2>3, <2>4, <2>6, <2>7, Parts, KeyUpdateIsGood
  <2>9. IsSeq(<<k>>) /\ \A e \in Range(<<k>>) : GoodUp(World', d, e)
    <3> HIDE DEF k
    <3> QED
      BY <2>8, SingleSeq
  <2>10. device'[d].ring.local <= device[d].ring.local
    BY <2>2, <2>3, <2>6 DEF old
  <2> HIDE DEF k
  <2>11. Handled(d, <<k>>)
    BY <1>6 DEF k
  <2> QED
    BY <1>3, <2>1, <2>6, <2>9, <2>10, <2>11, DeviceHandles
<1> QED
  BY <1>2, <1>4, <1>5, <1>6

--------------------------------------------------------------------------------
(* What users and the partner answer.                                        *)

\* An idle device handles a message, or its user asks for something; its keys stay.
LEMMA IdleStep ==
  ASSUME AccountInv, NEW d \in Devices, Idle(d), NEW s, device' = [device EXCEPT ![d] = s],
         s = [state |-> s.state, registered |-> s.registered, attempt |-> s.attempt,
              sendCmac |-> s.sendCmac, import |-> s.import, exports |-> s.exports,
              proofs |-> s.proofs, prepared |-> s.prepared, ring |-> s.ring],
         s.state = device[d].state, s.registered = device[d].registered,
         s.attempt = device[d].attempt, s.ring = device[d].ring, s.import = device[d].import,
         s.sendCmac \in BOOLEAN, s.exports \subseteq 1..MaxEvents, s.proofs \subseteq Ids,
         s.prepared \subseteq Ids, UNCHANGED <<tables, kicked>>,
         history'.keys = history.keys, history.granted \subseteq history'.granted,
         used'.attempts = used.attempts, GoodCounters(World'),
         NEW messages, IsSeq(messages),
         \A m \in Range(messages) :
           \/ m.type \notin {"remove", "accept", "mac", "newKey"}
           \/ m.type = "remove" /\ m.id \in Ids
           \/ \E id \in history'.granted : d = Partner /\ m = AcceptMessage(id, device[Partner].ring),
         Send(d, messages) \/ (Handled(d, messages) /\ link[d].down # << >>)
  PROVE  AccountInv'
<1>1. /\ link[d].id = device[d].attempt /\ device[d].registered = TRUE
      /\ device[d].state = "idle"
  BY IdleDevice
<1>2. s.import \in [nonce : 0..MaxEvents, trusted : BOOLEAN] /\ device[d].ring.local \in Nat
  BY DeviceForm
<1>3. used.attempts \in Nat /\ kicked' \subseteq Ids
  BY Invariants, AccountAssumption
<1>4. /\ tables' = tables /\ used.attempts <= used'.attempts
      /\ s.state \in {"off", "login", "granting", "idle", "failed"}
      /\ s.state \in {"login", "idle"} => s.registered
      /\ s.state = "granting" => ~s.registered
  BY <1>1, <1>3
<1>5. /\ GoodWorld(World') /\ Grows(World, World') /\ device'[d] = s
      /\ \A e \in Devices : e # d => device'[e] = device[e]
  BY <1>2, <1>4, DeviceRemembers
<1>6. GoodDevice(World', d, s) /\ World'.tables.keycount \in Nat
  BY <1>5, Parts, Counted DEF GoodWorld
<1>7. ASSUME NEW m \in Range(messages)
      PROVE  GoodUp(World', d, m)
  <2>1. CASE m.type \notin {"remove", "accept", "mac", "newKey"}
    BY <2>1 DEF GoodUp
  <2>2. CASE m.type = "remove" /\ m.id \in Ids
    BY <2>2 DEF GoodUp
  <2>3. ASSUME NEW id \in history'.granted, d = Partner, m = AcceptMessage(id, device[Partner].ring)
        PROVE  GoodUp(World', d, m)
    <3>1. device'[Partner].ring = device[Partner].ring
      BY <1>5, <2>3
    <3>2. /\ GoodDevice(World', Partner, World'.device[Partner]) /\ id \in World'.history.granted
          /\ World'.device[Partner].ring = device[Partner].ring
      BY <1>5, <1>6, <2>3, <3>1, Parts
    <3>3. GoodUp(World', Partner, AcceptMessage(id, World'.device[Partner].ring))
      BY <1>6, <3>2, AcceptIsGood
    <3> QED
      BY <2>3, <3>2, <3>3
  <2> QED
    BY <2>1, <2>2, <2>3
<1>8. device'[d].ring.local <= device[d].ring.local
  BY <1>2, <1>5
<1> QED
  BY <1>1, <1>3, <1>5, <1>7, <1>8, DeviceHandles

\* What the partner's user accepts is added to what has been granted.
LEMMA CountersGranted ==
  ASSUME AccountInv, NEW G, history' = [history EXCEPT !.granted = G], history.granted \subseteq G,
         used' = used
  PROVE  /\ GoodCounters(World') /\ used'.attempts = used.attempts
         /\ history'.granted = G /\ history'.keys = history.keys
<1>1. GoodCounters(World)
  BY DEF AccountInv, GoodWorld
<1>2. history = [keys |-> history.keys, granted |-> history.granted, joined |-> history.joined]
  BY <1>1, Parts DEF GoodCounters
<1>3. history' = [keys |-> history.keys, granted |-> G, joined |-> history.joined]
  BY <1>2
<1>4. history'.keys = history.keys /\ history'.granted = G /\ history'.joined = history.joined
  BY <1>3
<1>5. \A j \in history'.joined : j.id \in history'.granted
  BY <1>1, <1>4, Parts DEF GoodCounters
<1> QED
  BY <1>1, <1>3, <1>4, <1>5, Parts DEF GoodCounters

LEMMA initKeyUpdateStep ==
  ASSUME AccountInv, NEW d \in Devices, initKeyUpdate(d)
  PROVE  AccountInv'
<1> DEFINE r == device[d]
           messages == <<KeyChangeMessage(Ring(d))>>
<1>1. /\ Idle(d) /\ Event /\ Send(d, messages) /\ UNCHANGED <<device, tables, kicked, history>>
  BY DEF initKeyUpdate
<1>2. device' = [device EXCEPT ![d] = r]
  BY <1>1, Invariants
<1>3. GoodCounters(World') /\ used'.attempts = used.attempts
  BY <1>1, CountersKept
<1>4. IsSeq(messages) /\ \A m \in Range(messages) : m.type \notin {"remove", "accept", "mac", "newKey"}
  <2>1. KeyChangeMessage(Ring(d)).type = "keyChange"
    BY DEF KeyChangeMessage
  <2> QED
    BY <2>1, SingleSeq
<1>5. /\ r = [state |-> r.state, registered |-> r.registered, attempt |-> r.attempt,
              sendCmac |-> r.sendCmac, import |-> r.import, exports |-> r.exports,
              proofs |-> r.proofs, prepared |-> r.prepared, ring |-> r.ring]
      /\ r.sendCmac \in BOOLEAN /\ r.exports \subseteq 1..MaxEvents /\ r.proofs \subseteq Ids
      /\ r.prepared \subseteq Ids
  BY DeviceForm
<1>6. history'.keys = history.keys /\ history.granted \subseteq history'.granted
  BY <1>1
<1> HIDE DEF messages, r
<1> QED
  BY <1>1, <1>2, <1>3, <1>4, <1>5, <1>6, IdleStep DEF r

LEMMA RemoveDeviceStep ==
  ASSUME AccountInv, NEW d \in Devices, NEW id \in Ids, RemoveDevice(d, id)
  PROVE  AccountInv'
<1> DEFINE r == device[d]
           messages == <<RemoveMessage(id)>>
<1>1. /\ Idle(d) /\ Event /\ Send(d, messages) /\ UNCHANGED <<device, tables, kicked, history>>
  BY DEF RemoveDevice
<1>2. device' = [device EXCEPT ![d] = r]
  BY <1>1, Invariants
<1>3. GoodCounters(World') /\ used'.attempts = used.attempts
  BY <1>1, CountersKept
<1>4. IsSeq(messages) /\ \A m \in Range(messages) : m.type = "remove" /\ m.id \in Ids
  <2>1. RemoveMessage(id).type = "remove" /\ RemoveMessage(id).id = id
    BY DEF RemoveMessage
  <2> QED
    BY <2>1, SingleSeq
<1>5. /\ r = [state |-> r.state, registered |-> r.registered, attempt |-> r.attempt,
              sendCmac |-> r.sendCmac, import |-> r.import, exports |-> r.exports,
              proofs |-> r.proofs, prepared |-> r.prepared, ring |-> r.ring]
      /\ r.sendCmac \in BOOLEAN /\ r.exports \subseteq 1..MaxEvents /\ r.proofs \subseteq Ids
      /\ r.prepared \subseteq Ids
  BY DeviceForm
<1>6. history'.keys = history.keys /\ history.granted \subseteq history'.granted
  BY <1>1
<1> HIDE DEF messages, r
<1> QED
  BY <1>1, <1>2, <1>3, <1>4, <1>5, <1>6, IdleStep DEF r

LEMMA onMacUpdateAckStep ==
  ASSUME AccountInv, NEW d \in Devices, onMacUpdateAck(d)
  PROVE  AccountInv'
<1> DEFINE r == device[d]
           s == [state |-> r.state, registered |-> r.registered, attempt |-> r.attempt,
                 sendCmac |-> FALSE, import |-> r.import, exports |-> r.exports,
                 proofs |-> r.proofs, prepared |-> r.prepared, ring |-> r.ring]
<1>1. /\ Received(d, "macAck") /\ Idle(d) /\ device' = [device EXCEPT ![d].sendCmac = FALSE]
      /\ Handled(d, << >>) /\ UNCHANGED <<tables, kicked, history, used>>
  BY DEF onMacUpdateAck
<1>2. /\ r = [state |-> r.state, registered |-> r.registered, attempt |-> r.attempt,
              sendCmac |-> r.sendCmac, import |-> r.import, exports |-> r.exports,
              proofs |-> r.proofs, prepared |-> r.prepared, ring |-> r.ring]
      /\ r.exports \subseteq 1..MaxEvents /\ r.proofs \subseteq Ids /\ r.prepared \subseteq Ids
  BY DeviceForm
<1>3. device' = [device EXCEPT ![d] = s]
  <2>1. device = [e \in Devices |-> device[e]]
    BY Invariants
  <2> DEFINE no == FALSE
  <2>2. s = [state |-> r.state, registered |-> r.registered, attempt |-> r.attempt,
             sendCmac |-> no, import |-> r.import, exports |-> r.exports,
             proofs |-> r.proofs, prepared |-> r.prepared, ring |-> r.ring]
    OBVIOUS
  <2>3. device' = [device EXCEPT ![d].sendCmac = no]
    BY <1>1
  <2> HIDE DEF no, s
  <2>4. [r EXCEPT !.sendCmac = no] = s
    BY <1>2, <2>2
  <2>5. device' = [device EXCEPT ![d] = [r EXCEPT !.sendCmac = no]]
    BY <2>1, <2>3
  <2> QED
    BY <2>4, <2>5
<1>4. GoodCounters(World') /\ used'.attempts = used.attempts
  BY <1>1, CountersKept
<1>5. /\ s = [state |-> s.state, registered |-> s.registered, attempt |-> s.attempt,
              sendCmac |-> s.sendCmac, import |-> s.import, exports |-> s.exports,
              proofs |-> s.proofs, prepared |-> s.prepared, ring |-> s.ring]
      /\ s.state = r.state /\ s.registered = r.registered /\ s.attempt = r.attempt
      /\ s.sendCmac = FALSE /\ s.import = r.import /\ s.exports = r.exports
      /\ s.proofs = r.proofs /\ s.prepared = r.prepared /\ s.ring = r.ring
  OBVIOUS
<1>6. history'.keys = history.keys /\ history.granted \subseteq history'.granted
  BY <1>1
<1>7. link[d].down # << >>
  BY <1>1 DEF Received
<1> HIDE DEF r, s
<1>8. \A m \in Range(<< >>) : m.type \notin {"remove", "accept", "mac", "newKey"}
  BY EmptyIsSeq
<1> QED
  BY <1>1, <1>2, <1>3, <1>4, <1>5, <1>6, <1>7, <1>8, EmptyIsSeq, IdleStep DEF r

LEMMA onAcceptAckStep ==
  ASSUME AccountInv, onAcceptAck
  PROVE  AccountInv'
<1> DEFINE r == device[Partner]
           m == Head(link[Partner].down)
           prepared == r.prepared \cup {m.id}
           s == [state |-> r.state, registered |-> r.registered, attempt |-> r.attempt,
                 sendCmac |-> r.sendCmac, import |-> r.import, exports |-> r.exports,
                 proofs |-> r.proofs, prepared |-> prepared, ring |-> r.ring]
<1>1. /\ Received(Partner, "acceptAck") /\ Idle(Partner)
      /\ device' = [device EXCEPT ![Partner].prepared = @ \cup {m.id}]
      /\ Handled(Partner, << >>) /\ UNCHANGED <<tables, kicked, history, used>>
  BY DEF onAcceptAck
<1>2. Partner \in Devices
  BY AccountAssumption
<1>3. /\ r = [state |-> r.state, registered |-> r.registered, attempt |-> r.attempt,
              sendCmac |-> r.sendCmac, import |-> r.import, exports |-> r.exports,
              proofs |-> r.proofs, prepared |-> r.prepared, ring |-> r.ring]
      /\ r.sendCmac \in BOOLEAN
      /\ r.exports \subseteq 1..MaxEvents /\ r.proofs \subseteq Ids /\ r.prepared \subseteq Ids
  BY <1>2, DeviceForm
<1>4. device' = [device EXCEPT ![Partner] = s]
  <2>1. device = [e \in Devices |-> device[e]]
    BY Invariants
  <2>2. device' = [device EXCEPT ![Partner] = [r EXCEPT !.prepared = prepared]]
    BY <1>1, <2>1
  <2> HIDE DEF prepared
  <2>3. [r EXCEPT !.prepared = prepared] = s
    BY <1>3
  <2> QED
    BY <2>2, <2>3
<1>5. m.id \in Ids
  <2>1. m.type = "acceptAck" /\ GoodDown(World, Partner, m)
    BY <1>1, <1>2, FirstMessage
  <2> HIDE DEF m
  <2> QED
    BY <2>1 DEF GoodDown
<1>6. prepared \subseteq Ids
  BY <1>3, <1>5
<1>7. GoodCounters(World') /\ used'.attempts = used.attempts
  BY <1>1, CountersKept
<1>8. /\ s = [state |-> s.state, registered |-> s.registered, attempt |-> s.attempt,
              sendCmac |-> s.sendCmac, import |-> s.import, exports |-> s.exports,
              proofs |-> s.proofs, prepared |-> s.prepared, ring |-> s.ring]
      /\ s.state = r.state /\ s.registered = r.registered /\ s.attempt = r.attempt
      /\ s.sendCmac = r.sendCmac /\ s.import = r.import /\ s.exports = r.exports
      /\ s.proofs = r.proofs /\ s.prepared = prepared /\ s.ring = r.ring
  OBVIOUS
<1>9. history'.keys = history.keys /\ history.granted \subseteq history'.granted
  BY <1>1
<1>10. link[Partner].down # << >>
  BY <1>1 DEF Received
<1> HIDE DEF r, s, m, prepared
<1>11. \A e \in Range(<< >>) : e.type \notin {"remove", "accept", "mac", "newKey"}
  BY EmptyIsSeq
<1> QED
  BY <1>1, <1>2, <1>3, <1>4, <1>6, <1>7, <1>8, <1>9, <1>10, <1>11, EmptyIsSeq, IdleStep DEF r

LEMMA loginReplyStep ==
  ASSUME AccountInv, NEW id \in Ids, NEW accept \in BOOLEAN, loginReply(id, accept)
  PROVE  AccountInv'
<1> DEFINE r == device[Partner]
           proofs == r.proofs \ {id}
           message == IF accept THEN AcceptMessage(id, Ring(Partner)) ELSE DenyMessage(id)
           granted == IF accept THEN history.granted \cup {id} ELSE history.granted
           s == [state |-> r.state, registered |-> r.registered, attempt |-> r.attempt,
                 sendCmac |-> r.sendCmac, import |-> r.import, exports |-> r.exports,
                 proofs |-> proofs, prepared |-> r.prepared, ring |-> r.ring]
<1>1. /\ Idle(Partner) /\ device' = [device EXCEPT ![Partner].proofs = @ \ {id}]
      /\ Send(Partner, <<message>>) /\ history' = [history EXCEPT !.granted = granted]
      /\ UNCHANGED <<tables, kicked, used>>
  BY DEF loginReply
<1>2. Partner \in Devices
  BY AccountAssumption
<1>3. /\ r = [state |-> r.state, registered |-> r.registered, attempt |-> r.attempt,
              sendCmac |-> r.sendCmac, import |-> r.import, exports |-> r.exports,
              proofs |-> r.proofs, prepared |-> r.prepared, ring |-> r.ring]
      /\ r.sendCmac \in BOOLEAN
      /\ r.exports \subseteq 1..MaxEvents /\ r.proofs \subseteq Ids /\ r.prepared \subseteq Ids
  BY <1>2, DeviceForm
<1>4. device' = [device EXCEPT ![Partner] = s]
  <2>1. device = [e \in Devices |-> device[e]]
    BY Invariants
  <2>2. device' = [device EXCEPT ![Partner] = [r EXCEPT !.proofs = proofs]]
    BY <1>1, <2>1
  <2> HIDE DEF proofs
  <2>3. [r EXCEPT !.proofs = proofs] = s
    BY <1>3
  <2> QED
    BY <2>2, <2>3
<1>5. proofs \subseteq Ids /\ history.granted \subseteq granted /\ (accept => id \in granted)
  BY <1>3
<1>6. /\ s = [state |-> s.state, registered |-> s.registered, attempt |-> s.attempt,
              sendCmac |-> s.sendCmac, import |-> s.import, exports |-> s.exports,
              proofs |-> s.proofs, prepared |-> s.prepared, ring |-> s.ring]
      /\ s.state = r.state /\ s.registered = r.registered /\ s.attempt = r.attempt
      /\ s.sendCmac = r.sendCmac /\ s.import = r.import /\ s.exports = r.exports
      /\ s.proofs = proofs /\ s.prepared = r.prepared /\ s.ring = r.ring
  OBVIOUS
<1>7. \/ accept /\ message = AcceptMessage(id, r.ring)
      \/ message.type = "deny"
  BY DEF Ring, DenyMessage
<1> HIDE DEF s, proofs, message, granted
<1>8. /\ GoodCounters(World') /\ used'.attempts = used.attempts
      /\ history'.granted = granted /\ history'.keys = history.keys
  BY <1>1, <1>5, CountersGranted
<1>9. /\ IsSeq(<<message>>)
      /\ \A m \in Range(<<message>>) :
           \/ m.type \notin {"remove", "accept", "mac", "newKey"}
           \/ \E i \in history'.granted : m = AcceptMessage(i, device[Partner].ring)
  BY <1>5, <1>7, <1>8, SingleSeq
<1> HIDE DEF r
<1> QED
  BY <1>1, <1>2, <1>3, <1>4, <1>5, <1>6, <1>8, <1>9, IdleStep DEF r

LEMMA onProofStep ==
  ASSUME AccountInv, onProof
  PROVE  AccountInv'
<1> DEFINE r == device[Partner]
           m == Head(link[Partner].down)
           expected == m.nonce \in r.exports
           exports == TakeExport(r.exports, m.nonce)
           proofs == IF expected /\ ~m.trusted THEN r.proofs \cup {m.id} ELSE r.proofs
           messages == IF ~expected THEN <<DenyMessage(m.id)>>
                       ELSE IF m.trusted THEN <<AcceptMessage(m.id, r.ring)>>
                       ELSE << >>
           granted == IF expected /\ m.trusted THEN history.granted \cup {m.id} ELSE history.granted
           s == [state |-> r.state, registered |-> r.registered, attempt |-> r.attempt,
                 sendCmac |-> r.sendCmac, import |-> r.import, exports |-> exports,
                 proofs |-> proofs, prepared |-> r.prepared, ring |-> r.ring]
<1>1. /\ Received(Partner, "proof") /\ Idle(Partner) /\ UNCHANGED <<tables, kicked, used>>
      /\ device' = [device EXCEPT ![Partner].exports = TakeExport(@, m.nonce),
           ![Partner].proofs = IF expected /\ ~m.trusted THEN @ \cup {m.id} ELSE @]
      /\ Handled(Partner, messages) /\ history' = [history EXCEPT !.granted = granted]
  BY DEF onProof, Ring
<1>2. Partner \in Devices
  BY AccountAssumption
<1>3. /\ r = [state |-> r.state, registered |-> r.registered, attempt |-> r.attempt,
              sendCmac |-> r.sendCmac, import |-> r.import, exports |-> r.exports,
              proofs |-> r.proofs, prepared |-> r.prepared, ring |-> r.ring]
      /\ r.sendCmac \in BOOLEAN
      /\ r.exports \subseteq 1..MaxEvents /\ r.proofs \subseteq Ids /\ r.prepared \subseteq Ids
  BY <1>2, DeviceForm
<1>4. m.id \in Ids /\ link[Partner].down # << >>
  <2>1. m.type = "proof" /\ GoodDown(World, Partner, m) /\ link[Partner].down # << >>
    BY <1>1, <1>2, FirstMessage
  <2> HIDE DEF m
  <2> QED
    BY <2>1 DEF GoodDown
<1>5. device' = [device EXCEPT ![Partner] = s]
  <2> DEFINE a == [r EXCEPT !.exports = exports, !.proofs = proofs]
  <2>1. device = [e \in Devices |-> device[e]]
    BY Invariants
  <2>2. device' = [e \in Devices |-> IF e = Partner THEN a ELSE device[e]]
    <3> HIDE DEF m
    <3> QED
      BY <1>1, <1>3, <2>1
  <2>3. DOMAIN r = {"state", "registered", "attempt", "sendCmac", "import", "exports", "proofs",
                    "prepared", "ring"}
    BY <1>3
  <2> HIDE DEF exports, proofs, m
  <2>4. a = [f \in DOMAIN r |-> IF f = "proofs" THEN proofs ELSE IF f = "exports" THEN exports ELSE r[f]]
    OBVIOUS
  <2>5. a = s
    <3> HIDE DEF r, a
    <3> QED
      BY <2>3, <2>4
  <2> HIDE DEF a, s
  <2> QED
    BY <2>1, <2>2, <2>5
<1>6. /\ exports \subseteq 1..MaxEvents /\ proofs \subseteq Ids /\ history.granted \subseteq granted
      /\ (expected /\ m.trusted => m.id \in granted)
  BY <1>3, <1>4 DEF TakeExport
<1>7. /\ s = [state |-> s.state, registered |-> s.registered, attempt |-> s.attempt,
              sendCmac |-> s.sendCmac, import |-> s.import, exports |-> s.exports,
              proofs |-> s.proofs, prepared |-> s.prepared, ring |-> s.ring]
      /\ s.state = r.state /\ s.registered = r.registered /\ s.attempt = r.attempt
      /\ s.sendCmac = r.sendCmac /\ s.import = r.import /\ s.exports = exports
      /\ s.proofs = proofs /\ s.prepared = r.prepared /\ s.ring = r.ring
  OBVIOUS
<1> HIDE DEF s, proofs, exports, granted
<1>8. /\ GoodCounters(World') /\ used'.attempts = used.attempts
      /\ history'.granted = granted /\ history'.keys = history.keys
  BY <1>1, <1>6, CountersGranted
<1>9. /\ IsSeq(messages)
      /\ \A e \in Range(messages) :
           \/ e.type \notin {"remove", "accept", "mac", "newKey"}
           \/ \E i \in history'.granted : e = AcceptMessage(i, r.ring)
  <2>1. CASE ~expected
    <3>1. messages = <<DenyMessage(m.id)>>
      BY <2>1
    <3>2. DenyMessage(m.id).type = "deny"
      BY DEF DenyMessage
    <3> HIDE DEF messages
    <3> QED
      BY <3>1, <3>2, SingleSeq
  <2>2. CASE expected /\ m.trusted
    <3>1. messages = <<AcceptMessage(m.id, r.ring)>>
      BY <2>2
    <3> HIDE DEF messages
    <3> QED
      BY <1>6, <1>8, <2>2, <3>1, SingleSeq
  <2>3. CASE expected /\ ~m.trusted
    <3>1. messages = << >>
      BY <2>3
    <3> HIDE DEF messages
    <3> QED
      BY <3>1, EmptyIsSeq
  <2> QED
    BY <2>1, <2>2, <2>3
<1> HIDE DEF messages, r
<1> QED
  BY <1>1, <1>2, <1>3, <1>4, <1>5, <1>6, <1>7, <1>8, <1>9, IdleStep DEF r

--------------------------------------------------------------------------------
(* Tasks of the server's clients.                                            *)

\* Steps of the server: the devices stay as they are.
LEMMA ServerStep ==
  ASSUME AccountInv, GoodWorld(World'), Grows(World, World'), device' = device,
         link' = [e \in Devices |-> link'[e]], kicked' \subseteq Ids,
         \A e \in Devices : link'[e] = link[e] \/ GoodLink(World', e, link'[e]),
         Routes(link')
  PROVE  AccountInv'
<1>1. World'.used.attempts \in Nat
  BY AccountAssumption DEF GoodWorld, GoodCounters
<1>2. ASSUME NEW e \in Devices
      PROVE  GoodLink(World', e, link'[e])
  <2>1. CASE link'[e] = link[e]
    BY <1>1, <2>1, Invariants, Parts, LinkKept
  <2> QED
    BY <2>1
<1> QED
  BY <1>2 DEF AccountInv

\* The tables stay as they are, too.
LEMMA ServerWaits ==
  ASSUME AccountInv, UNCHANGED <<device, tables, history, used>>
  PROVE  GoodWorld(World') /\ Grows(World, World')
<1>1. World' = World
  BY DEF World
<1>2. GoodWorld(World) /\ \A d \in Devices : device[d].ring.local \in Nat
  BY Invariants, DeviceForm
<1>3. \A d \in Devices : device[d].attempt \in Nat
  BY Parts, Counted, <1>2
<1>4. \A d \in Devices : Rise(World, World', d)
  BY <1>1, <1>2, RiseSame
<1>5. World.used.attempts \in Nat
  BY <1>2, AccountAssumption DEF GoodWorld, GoodCounters
<1> QED
  BY <1>1, <1>2, <1>3, <1>4, <1>5, Parts DEF Grows

\* A task of an open connection.
LEMMA TaskLink ==
  ASSUME AccountInv, NEW d \in Devices, NEW queue \in {"up", "calls"}, link[d][queue] # << >>
  PROVE  LET l == link[d] IN
         /\ l = [server |-> l.server, id |-> l.id, up |-> l.up, calls |-> l.calls,
                 down |-> l.down, route |-> l.route]
         /\ IsLink(l) /\ GoodLink(World, d, l) /\ l.server # "none"
         /\ IsSeq(l.up) /\ IsSeq(l.calls) /\ IsSeq(l.down)
         /\ l[queue] \in {l.up, l.calls} /\ IsSeq(Tail(l[queue]))
         /\ Head(l[queue]) \in Range(l[queue]) /\ Range(Tail(l[queue])) \subseteq Range(l[queue])
<1> DEFINE l == link[d]
<1>1. IsLink(l) /\ GoodLink(World, d, l) /\ Phase(World, d, l)
  BY Invariants
<1> HIDE DEF l
<1>2. /\ l = [server |-> l.server, id |-> l.id, up |-> l.up, calls |-> l.calls,
              down |-> l.down, route |-> l.route]
      /\ IsSeq(l.up) /\ IsSeq(l.calls) /\ IsSeq(l.down)
  BY <1>1 DEF IsLink
<1>3. l[queue] \in {l.up, l.calls} /\ l[queue] # << >>
  BY DEF l
<1>4. /\ IsSeq(Tail(l[queue])) /\ Head(l[queue]) \in Range(l[queue])
      /\ Range(Tail(l[queue])) \subseteq Range(l[queue])
  BY <1>2, <1>3, ShorterSeq
<1>5. l.server # "none"
  <2>1. NoLink.up = << >> /\ NoLink.calls = << >>
    BY DEF NoLink
  <2>2. l # NoLink
    BY <1>3, <2>1
  <2> QED
    BY <1>1, <2>2 DEF Phase
<1> QED
  BY <1>1, <1>2, <1>3, <1>4, <1>5 DEF l

\* The link whose task in the queue is done.
DoneLink(l, queue) ==
  [server |-> l.server, id |-> l.id, up |-> IF queue = "up" THEN Tail(l.up) ELSE l.up,
   calls |-> IF queue = "calls" THEN Tail(l.calls) ELSE l.calls, down |-> l.down, route |-> l.route]

LEMMA DoneForm ==
  ASSUME AccountInv, NEW d \in Devices, NEW queue \in {"up", "calls"}, link[d][queue] # << >>
  PROVE  Done(d, queue) = [e \in Devices |-> IF e = d THEN DoneLink(link[d], queue) ELSE link[e]]
<1> DEFINE l == link[d]
           t == Tail(l[queue])
           n == [l EXCEPT ![queue] = t]
<1>1. link = [e \in Devices |-> link[e]]
  BY Invariants
<1>2. Done(d, queue) = [e \in Devices |-> IF e = d THEN n ELSE link[e]]
  BY <1>1 DEF Done
<1>3. l = [server |-> l.server, id |-> l.id, up |-> l.up, calls |-> l.calls,
           down |-> l.down, route |-> l.route]
  BY TaskLink
<1> HIDE DEF l
<1>4. n = DoneLink(l, queue)
  <2>1. CASE queue = "up"
    <3>1. t = Tail(l.up)
      BY <2>1
    <3> HIDE DEF t
    <3>2. n = [l EXCEPT !.up = t]
      BY <2>1
    <3>3. n = [server |-> l.server, id |-> l.id, up |-> t, calls |-> l.calls,
               down |-> l.down, route |-> l.route]
      BY <1>3, <3>2
    <3>4. DoneLink(l, queue) = [server |-> l.server, id |-> l.id, up |-> Tail(l.up), calls |-> l.calls,
               down |-> l.down, route |-> l.route]
      BY <2>1 DEF DoneLink
    <3> QED
      BY <3>1, <3>3, <3>4
  <2>2. CASE queue = "calls"
    <3>1. t = Tail(l.calls)
      BY <2>2
    <3> HIDE DEF t
    <3>2. n = [l EXCEPT !.calls = t]
      BY <2>2
    <3>3. n = [server |-> l.server, id |-> l.id, up |-> l.up, calls |-> t,
               down |-> l.down, route |-> l.route]
      BY <1>3, <3>2
    <3>4. DoneLink(l, queue) = [server |-> l.server, id |-> l.id, up |-> l.up,
               calls |-> Tail(l.calls), down |-> l.down, route |-> l.route]
      BY <2>2 DEF DoneLink
    <3> QED
      BY <3>1, <3>3, <3>4
  <2> QED
    BY <2>1, <2>2
<1> QED
  BY <1>2, <1>4 DEF l

\* What is left of the queues.
LEMMA DoneParts ==
  ASSUME AccountInv, NEW d \in Devices, NEW queue \in {"up", "calls"}, link[d][queue] # << >>
  PROVE  LET l == link[d]
             n == DoneLink(l, queue) IN
         /\ n = [server |-> l.server, id |-> l.id, up |-> n.up, calls |-> n.calls,
                 down |-> l.down, route |-> l.route]
         /\ IsSeq(n.up) /\ IsSeq(n.calls)
         /\ Range(n.up) \subseteq Range(l.up) /\ Range(n.calls) \subseteq Range(l.calls)
<1> DEFINE l == link[d]
           n == DoneLink(l, queue)
<1>1. IsSeq(l.up) /\ IsSeq(l.calls)
  BY TaskLink
<1>2. queue = "up" => l.up # << >>
  OBVIOUS
<1>3. queue = "calls" => l.calls # << >>
  OBVIOUS
<1>4. /\ n = [server |-> l.server, id |-> l.id, up |-> n.up, calls |-> n.calls,
              down |-> l.down, route |-> l.route]
      /\ n.up = (IF queue = "up" THEN Tail(l.up) ELSE l.up)
      /\ n.calls = (IF queue = "calls" THEN Tail(l.calls) ELSE l.calls)
  BY DEF DoneLink
<1> HIDE DEF l, n
<1>5. IsSeq(n.up) /\ Range(n.up) \subseteq Range(l.up)
  BY <1>1, <1>2, <1>4, ShorterSeq
<1>6. IsSeq(n.calls) /\ Range(n.calls) \subseteq Range(l.calls)
  BY <1>1, <1>3, <1>4, ShorterSeq
<1> QED
  BY <1>4, <1>5, <1>6 DEF l, n

\* A message that the server's client may send to its device.
Sendable(w, v, d, l, m) ==
  /\ GoodDown(v, d, m) /\ m.type # "welcome"
  /\ m.type = "newKeyAck" => w.device[d].state # "granting"
  /\ m.type = "grant" /\ w.device[d].state = "granting" =>
       m.id = <<d, l.id>> /\ w.device[d].attempt < l.id /\ l.id <= v.used.attempts
  /\ m.type = "deviceKeys" /\ ~m.duplicated => m.index = w.tables.keycount + 1

\* A task of one client, which may answer its device.
LEMMA TaskedLink ==
  ASSUME AccountInv, GoodWorld(World'), Grows(World, World'), device' = device,
         NEW d \in Devices, NEW queue \in {"up", "calls"},
         link[d][queue] # << >>, NEW n,
         n = [server |-> n.server, id |-> n.id, up |-> n.up, calls |-> n.calls,
              down |-> n.down, route |-> n.route],
         n.id = link[d].id, n.up = DoneLink(link[d], queue).up,
         n.calls = DoneLink(link[d], queue).calls,
         n.server \in {link[d].server, "idle", "error"}, n.route \in {"none", link[d].route},
         \/ n.down = link[d].down
         \/ n.server # "auth" /\ \E m : /\ n.down = Append(link[d].down, m)
                                        /\ Sendable(World, World', d, link[d], m)
  PROVE  GoodLink(World', d, n) /\ n.server # "none"
<1> DEFINE l == link[d]
<1>1. /\ IsLink(l) /\ GoodLink(World, d, l) /\ l.server # "none" /\ IsSeq(l.down)
  BY TaskLink
<1>2. /\ IsSeq(n.up) /\ IsSeq(n.calls)
      /\ Range(n.up) \subseteq Range(l.up) /\ Range(n.calls) \subseteq Range(l.calls)
  BY DoneParts
<1>3. GoodWorld(World) /\ Routes(link) /\ link = [e \in Devices |-> link[e]]
  BY Invariants
<1>4. IsSeq(n.down)
  <2>1. CASE n.down = link[d].down
    BY <1>1, <2>1
  <2>2. ASSUME NEW m, n.down = Append(l.down, m)
        PROVE  IsSeq(n.down)
    BY <1>1, <2>2, LongerSeq
  <2> QED
    BY <2>1, <2>2
<1>5. IsLink(n)
  <2>1. /\ n.server \in {"none", "auth", "waiting", "idle", "error"}
        /\ n.route \in {"none", "asked", "ack"} /\ n.id \in 0..MaxAttempts
    BY <1>1 DEF IsLink
  <2> QED
    BY <1>2, <1>4, <2>1 DEF IsLink
<1>6. /\ n.server # "none"
      /\ n.server = "auth" => l.server = "auth" /\ n.down = l.down
      /\ n.server = "waiting" => l.server = "waiting"
  BY <1>1
<1>7. World'.used.attempts \in Nat /\ World'.device[d] = World.device[d]
  BY Parts, AccountAssumption DEF GoodWorld, GoodCounters
<1>8. GoodLink(World', d, n)
  <2> HIDE DEF l
  <2>1. \/ n.down = l.down
        \/ \E m : n.down = Append(l.down, m) /\ Sendable(World, World', d, l, m)
    BY DEF l
  <2>2. n.id = l.id
    BY DEF l
  <2> QED
    BY <1>1, <1>2, <1>3, <1>5, <1>6, <1>7, <2>1, <2>2, Serves DEF Sendable
<1> QED
  BY <1>6, <1>8

LEMMA TaskStep ==
  ASSUME AccountInv, GoodWorld(World'), Grows(World, World'), device' = device,
         kicked' \subseteq Ids, NEW d \in Devices, NEW queue \in {"up", "calls"},
         link[d][queue] # << >>, NEW n, link' = [link EXCEPT ![d] = n],
         n = [server |-> n.server, id |-> n.id, up |-> n.up, calls |-> n.calls,
              down |-> n.down, route |-> n.route],
         n.id = link[d].id, n.up = DoneLink(link[d], queue).up,
         n.calls = DoneLink(link[d], queue).calls,
         n.server \in {link[d].server, "idle", "error"}, n.route \in {"none", link[d].route},
         \/ n.down = link[d].down
         \/ n.server # "auth" /\ \E m : /\ n.down = Append(link[d].down, m)
                                        /\ Sendable(World, World', d, link[d], m)
  PROVE  AccountInv'
<1>1. GoodLink(World', d, n)
  BY TaskedLink
<1>2. Routes(link) /\ link = [e \in Devices |-> link[e]]
  BY Invariants
<1>3. /\ link' = [e \in Devices |-> link'[e]] /\ link'[d] = n
      /\ \A e \in Devices : e # d => link'[e] = link[e]
  BY <1>2
<1>4. Routes(link')
  <2>1. Partner \in Devices
    BY AccountAssumption
  <2> QED
    BY <1>2, <1>3, <2>1 DEF Routes
<1> QED
  BY <1>1, <1>3, <1>4, ServerStep

LEMMA AnswerForm ==
  ASSUME AccountInv, NEW d \in Devices, NEW queue \in {"up", "calls"}, link[d][queue] # << >>,
         NEW m, Answer(d, queue, m)
  PROVE  link' = [e \in Devices |->
           IF e = d THEN [server |-> link[d].server, id |-> link[d].id,
                          up |-> DoneLink(link[d], queue).up,
                          calls |-> DoneLink(link[d], queue).calls,
                          down |-> Append(link[d].down, m), route |-> link[d].route]
           ELSE link[e]]
<1> DEFINE l == link[d]
           n == DoneLink(l, queue)
           x == Append(l.down, m)
           a == [n EXCEPT !.down = x]
<1>1. n = [server |-> l.server, id |-> l.id, up |-> n.up, calls |-> n.calls,
           down |-> l.down, route |-> l.route]
  BY DoneParts
<1>2. Done(d, queue) = [e \in Devices |-> IF e = d THEN n ELSE link[e]]
  BY DoneForm
<1>3. n.down = l.down
  BY DEF DoneLink
<1> HIDE DEF n
<1>4. link' = [e \in Devices |-> IF e = d THEN a ELSE link[e]]
  BY <1>2, <1>3 DEF Answer
<1> HIDE DEF x, l
<1>5. a = [server |-> l.server, id |-> l.id, up |-> n.up, calls |-> n.calls,
           down |-> x, route |-> l.route]
  BY <1>1
<1> HIDE DEF a
<1> QED
  BY <1>4, <1>5 DEF n, l, x

LEMMA AnswerStep ==
  ASSUME AccountInv, GoodWorld(World'), Grows(World, World'), device' = device,
         kicked' \subseteq Ids, NEW d \in Devices, NEW queue \in {"up", "calls"},
         link[d][queue] # << >>, NEW m, Answer(d, queue, m), link[d].server # "auth",
         Sendable(World, World', d, link[d], m)
  PROVE  AccountInv'
<1> DEFINE l == link[d]
           n == [server |-> l.server, id |-> l.id, up |-> DoneLink(l, queue).up,
                 calls |-> DoneLink(l, queue).calls, down |-> Append(l.down, m),
                 route |-> l.route]
<1>1. link' = [link EXCEPT ![d] = n]
  BY AnswerForm, Invariants
<1>2. /\ n = [server |-> n.server, id |-> n.id, up |-> n.up, calls |-> n.calls,
              down |-> n.down, route |-> n.route]
      /\ n.server = l.server /\ n.id = l.id /\ n.up = DoneLink(l, queue).up
      /\ n.calls = DoneLink(l, queue).calls /\ n.down = Append(l.down, m) /\ n.route = l.route
  OBVIOUS
<1> HIDE DEF n
<1> QED
  BY <1>1, <1>2, TaskStep

LEMMA RefuseStep ==
  ASSUME AccountInv, UNCHANGED <<device, used>>, NEW d \in Devices, NEW queue \in {"up", "calls"},
         link[d][queue] # << >>, NEW fatal, Refuse(d, queue, fatal)
  PROVE  AccountInv'
<1> DEFINE l == link[d]
           n == DoneLink(l, queue)
           m == ErrorMessage(fatal)
           down == Append(l.down, m)
           a == [n EXCEPT !.server = "error", !.down = down]
<1>1. n = [server |-> l.server, id |-> l.id, up |-> n.up, calls |-> n.calls,
           down |-> l.down, route |-> l.route]
  BY DoneParts
<1>2. Done(d, queue) = [e \in Devices |-> IF e = d THEN n ELSE link[e]]
  BY DoneForm
<1>3. n.down = l.down
  BY DEF DoneLink
<1>4. GoodWorld(World') /\ Grows(World, World') /\ kicked' \subseteq Ids
  BY ServerWaits, Invariants DEF Refuse
<1> HIDE DEF n, m
<1>5. link' = [e \in Devices |-> IF e = d THEN a ELSE link[e]]
  BY <1>2, <1>3 DEF Refuse, m
<1>6. m.type = "error"
  BY DEF ErrorMessage, m
<1>7. Sendable(World, World', d, l, m)
  BY <1>6 DEF Sendable, GoodDown
<1>8. \E x : down = Append(link[d].down, x) /\ Sendable(World, World', d, link[d], x)
  BY <1>7
<1> HIDE DEF down, l
<1>9. a = [server |-> "error", id |-> l.id, up |-> n.up, calls |-> n.calls,
           down |-> down, route |-> l.route]
  <2>1. DOMAIN n = {"server", "id", "up", "calls", "down", "route"}
    BY <1>1
  <2>2. a = [f \in DOMAIN n |-> IF f = "down" THEN down ELSE IF f = "server" THEN "error" ELSE n[f]]
    OBVIOUS
  <2>3. n.id = l.id /\ n.route = l.route
    BY <1>1
  <2> HIDE DEF a
  <2> QED
    BY <2>1, <2>2, <2>3
<1> HIDE DEF a
<1>10. link' = [link EXCEPT ![d] = a]
  BY <1>5, Invariants
<1>11. /\ a = [server |-> a.server, id |-> a.id, up |-> a.up, calls |-> a.calls,
               down |-> a.down, route |-> a.route]
       /\ a.server = "error" /\ a.id = l.id /\ a.up = n.up /\ a.calls = n.calls
       /\ a.down = down /\ a.route = l.route
  BY <1>9
<1> QED
  BY <1>4, <1>8, <1>10, <1>11, TaskStep DEF n, l

LEMMA DoneStep ==
  ASSUME AccountInv, GoodWorld(World'), Grows(World, World'), device' = device,
         kicked' \subseteq Ids, NEW d \in Devices, NEW queue \in {"up", "calls"},
         link[d][queue] # << >>, link' = Done(d, queue)
  PROVE  AccountInv'
<1> DEFINE l == link[d]
           n == DoneLink(l, queue)
<1>1. /\ n = [server |-> n.server, id |-> n.id, up |-> n.up, calls |-> n.calls,
              down |-> n.down, route |-> n.route]
      /\ n.server = l.server /\ n.id = l.id /\ n.down = l.down /\ n.route = l.route
  BY DEF DoneLink
<1>2. link' = [link EXCEPT ![d] = n]
  BY DoneForm, Invariants
<1> QED
  BY <1>1, <1>2, TaskStep

LEMMA DropMessageStep ==
  ASSUME AccountInv, NEW d \in Devices, DropMessage(d)
  PROVE  AccountInv'
<1>1. /\ link[d]["up"] # << >> /\ link' = Done(d, "up")
      /\ UNCHANGED <<device, tables, kicked, history, used>>
  BY DEF DropMessage
<1>2. GoodWorld(World') /\ Grows(World, World') /\ kicked' \subseteq Ids
  BY <1>1, ServerWaits, Invariants
<1> QED
  BY <1>1, <1>2, DoneStep

\* A task of a logged in device: it has sent what its client handles.
LEMMA IdleTaskParts ==
  ASSUME AccountInv, NEW d \in Devices, NEW type, IdleTask(d, type)
  PROVE  LET l == link[d]
             m == Head(l.up) IN
         /\ l["up"] # << >> /\ m.type = type /\ GoodUp(World, d, m) /\ UNCHANGED <<device, used>>
         /\ l.server = "idle" /\ l.id \in 0..MaxAttempts
         /\ type \notin {"login", "access"} => device[d].state = "idle" /\ l.id = device[d].attempt
<1> DEFINE l == link[d]
           m == Head(l.up)
<1>1. l["up"] # << >> /\ m.type = type /\ l.server = "idle" /\ UNCHANGED <<device, used>>
  BY DEF IdleTask, Task
<1>2. l["up"] = l.up
  OBVIOUS
<1>3. /\ IsLink(l) /\ m \in Range(l.up) /\ Phase(World, d, l) /\ Contents(World, d, l)
  BY <1>1, <1>2, TaskLink, Invariants
<1> HIDE DEF l, m
<1>4. GoodUp(World, d, m) /\ l.id \in 0..MaxAttempts
  BY <1>3 DEF Contents, IsLink
<1>5. device[d].state \in {"off", "login", "granting", "idle", "failed"}
  BY DeviceForm
<1>6. type \notin {"login", "access"} => device[d].state = "idle" /\ l.id = device[d].attempt
  BY <1>1, <1>3, <1>5, Parts DEF Phase
<1> QED
  BY <1>1, <1>4, <1>6 DEF l, m

LEMMA onLoginStep ==
  ASSUME AccountInv, NEW d \in Devices, onLogin(d)
  PROVE  AccountInv'
<1> DEFINE l == link[d]
           r == device[d]
           changes == loadKeyChanges(tables, IdOf(d))
           m == WelcomeMessage(changes)
           down == <<m>>
           o == DoneLink(l, "up")
           n == [server |-> "idle", id |-> r.attempt, up |-> o.up, calls |-> o.calls,
                 down |-> down, route |-> l.route]
<1>1. l["up"] # << >> /\ l.server = "auth" /\ UNCHANGED <<device, used>>
  BY DEF onLogin, Task
<1>2. CASE ~Known(tables, IdOf(d))
  <2>1. Refuse(d, "up", TRUE)
    BY <1>2 DEF onLogin
  <2> QED
    BY <1>1, <2>1, RefuseStep
<1>3. ASSUME Known(tables, IdOf(d))
      PROVE  AccountInv'
  <2>1. /\ link' = [Done(d, "up") EXCEPT ![d].server = "idle", ![d].id = r.attempt, ![d].down = down]
        /\ UNCHANGED <<tables, kicked, history>>
    BY <1>3 DEF onLogin
  <2>2. /\ o = [server |-> l.server, id |-> l.id, up |-> o.up, calls |-> o.calls,
                down |-> l.down, route |-> l.route]
        /\ IsSeq(o.up) /\ IsSeq(o.calls)
        /\ Range(o.up) \subseteq Range(l.up) /\ Range(o.calls) \subseteq Range(l.calls)
    BY <1>1, DoneParts
  <2>3. Done(d, "up") = [e \in Devices |-> IF e = d THEN o ELSE link[e]]
    BY <1>1, DoneForm
  <2> HIDE DEF o, down
  <2>4. link' = [link EXCEPT ![d] = n]
    <3> DEFINE a == [o EXCEPT !.server = "idle", !.id = r.attempt, !.down = down]
    <3>1. link' = [e \in Devices |-> IF e = d THEN a ELSE link[e]]
      BY <2>1, <2>3
    <3>2. DOMAIN o = {"server", "id", "up", "calls", "down", "route"} /\ o.route = l.route
      BY <2>2
    <3>3. a = [f \in DOMAIN o |-> IF f = "down" THEN down ELSE IF f = "id" THEN r.attempt
                                  ELSE IF f = "server" THEN "idle" ELSE o[f]]
      OBVIOUS
    <3>4. a = n
      <4> HIDE DEF a, l, r
      <4> QED
        BY <3>2, <3>3
    <3> HIDE DEF a, n
    <3> QED
      BY <3>1, <3>4, Invariants
  <2>5. /\ n.server = "idle" /\ n.id = r.attempt /\ n.up = o.up /\ n.calls = o.calls
        /\ n.down = down /\ n.route = l.route
        /\ n = [server |-> n.server, id |-> n.id, up |-> n.up, calls |-> n.calls,
                down |-> n.down, route |-> n.route]
    OBVIOUS
  <2>6. GoodWorld(World') /\ Grows(World, World') /\ kicked' \subseteq Ids /\ GoodWorld(World)
    BY <1>1, <2>1, ServerWaits, Invariants
  <2>7. /\ IsLink(l) /\ Phase(World, d, l) /\ Contents(World, d, l)
    BY Invariants
  <2>8. r.attempt \in 0..MaxAttempts /\ r.state \in {"login", "granting"} /\ l.down = << >>
    <3>1. r.attempt \in 0..MaxAttempts
      BY DeviceForm
    <3> QED
      BY <1>1, <2>7, <3>1, Parts DEF Phase
  <2>9. GoodDown(World', d, m) /\ m.type = "welcome"
    <3>1. GoodTables(World')
      BY <2>6 DEF GoodWorld
    <3>2. changes \subseteq tables'.changes
      BY <2>1 DEF loadKeyChanges
    <3>3. m.type = "welcome" /\ m.changes = changes
      BY DEF WelcomeMessage
    <3> HIDE DEF m, changes
    <3> QED
      BY <3>1, <3>2, <3>3, Parts DEF GoodTables, GoodDown
  <2>10. IsSeq(down) /\ Range(down) = {m} /\ Len(down) = 1 /\ down[1] = m
    <3> HIDE DEF m
    <3> QED
      BY SingleSeq DEF down
  <2> HIDE DEF n, m
  <2>11. IsLink(n)
    BY <2>2, <2>5, <2>7, <2>8, <2>10 DEF IsLink
  <2>12. World'.device[d] = r /\ World.device[d] = r
    BY <1>1, Parts
  <2> HIDE DEF r, l
  <2>13. Phase(World', d, n)
    <3>1. \A x \in Range(n.up) : x \in Range(l.up)
      BY <2>2, <2>5
    <3>2. \A x \in Range(n.down) : x = m
      BY <2>5, <2>10
    <3> QED
      BY <2>5, <2>7, <2>8, <2>9, <2>12, <3>1, <3>2 DEF Phase
  <2>14. Contents(World', d, n)
    <3>1. /\ \A x \in Range(n.up) : x \in Range(l.up)
          /\ \A x \in Range(n.calls) : x \in Range(l.calls)
          /\ \A x \in Range(n.down) : GoodDown(World', d, x)
      BY <2>2, <2>5, <2>9, <2>10
    <3> QED
      BY <2>6, <2>7, <3>1, ContentsKept
  <2>15. Ahead(World'.device[d].ring.local, n.down)
    BY <2>5, <2>9, <2>10 DEF Ahead
  <2>16. GoodLink(World', d, n)
    BY <2>11, <2>13, <2>14, <2>15 DEF GoodLink
  <2>17. /\ link' = [e \in Devices |-> link'[e]] /\ link'[d] = n
         /\ \A e \in Devices : e # d => link'[e] = link[e]
    BY <2>4, Invariants
  <2>18. Routes(link')
    <3>1. Partner \in Devices /\ Routes(link)
      BY Invariants, AccountAssumption
    <3> QED
      BY <1>1, <2>5, <2>17, <3>1 DEF Routes, l
  <2> QED
    BY <1>1, <2>6, <2>16, <2>17, <2>18, ServerStep
<1> QED
  BY <1>2, <1>3

LEMMA onMacUpdateStep ==
  ASSUME AccountInv, NEW d \in Devices, onMacUpdate(d)
  PROVE  AccountInv'
<1> DEFINE l == link[d]
           m == Head(l.up)
           id == <<d, l.id>>
<1>1. IdleTask(d, "mac")
  BY DEF onMacUpdate
<1>2. /\ l["up"] # << >> /\ GoodUp(World, d, m) /\ UNCHANGED <<device, used>> /\ m.type = "mac"
      /\ l.server = "idle" /\ l.id \in 0..MaxAttempts /\ l.id = device[d].attempt
  BY <1>1, IdleTaskParts
<1>3. CASE ~(Known(tables, id) /\ MacFits(tables, m.index))
  <2>1. Refuse(d, "up", TRUE)
    BY <1>3 DEF onMacUpdate
  <2> QED
    BY <1>2, <2>1, RefuseStep
<1>4. ASSUME Known(tables, id), MacFits(tables, m.index)
      PROVE  AccountInv'
  <2>1. /\ tables' = updateCmac(tables, id, m.key) /\ Answer(d, "up", MacUpdateAckMessage)
        /\ UNCHANGED <<kicked, history>>
    BY <1>4 DEF onMacUpdate
  <2>2. m.key \in Key /\ Fits(World, id, m.key)
    <3> HIDE DEF m
    <3> QED
      BY <1>2, Parts DEF GoodUp
  <2> HIDE DEF m
  <2>3. GoodWorld(World) /\ kicked' \subseteq Ids
    BY <2>1, Invariants
  <2>4. GoodTables(World) /\ HistoryKeys(World) /\ GoodCounters(World)
        /\ tables = [keycount |-> tables.keycount, changes |-> tables.changes,
                     keymac |-> tables.keymac]
    BY <2>3, Parts DEF GoodWorld
  <2> DEFINE k == [tables.keymac EXCEPT ![id] = m.key]
             C == {c \in tables.changes : ~(c.id = id /\ c.key.index = tables.keycount)}
  <2>5. tables' = [keycount |-> tables.keycount, changes |-> C, keymac |-> k]
    <3> DEFINE t == [tables EXCEPT !.keymac = k, !.changes = C]
    <3>1. tables' = t
      BY <2>1 DEF updateCmac
    <3>2. DOMAIN tables = {"keycount", "changes", "keymac"}
      BY <2>4
    <3> HIDE DEF k, C
    <3>3. t = [f \in DOMAIN tables |-> IF f = "changes" THEN C ELSE IF f = "keymac" THEN k ELSE tables[f]]
      OBVIOUS
    <3> HIDE DEF t
    <3> QED
      BY <3>1, <3>2, <3>3
  <2>6. /\ tables'.keycount = tables.keycount /\ tables'.changes = C /\ tables'.keymac = k
        /\ C \subseteq tables.changes
        /\ DOMAIN k = DOMAIN tables.keymac
        /\ \A i \in DOMAIN k : k[i] = IF i = id THEN m.key ELSE tables.keymac[i]
    BY <2>5
  <2>7. tables' = [keycount |-> tables'.keycount, changes |-> tables'.changes,
                   keymac |-> tables'.keymac]
    <3> HIDE DEF k, C
    <3> QED
      BY <2>5
  <2> HIDE DEF k, C
  <2>8. tables.keycount \in Nat /\ \A e \in Devices : device[e].ring.local \in Nat /\ device[e].attempt \in Nat
    BY <2>3, Parts, Counted
  <2>9. Grows(World, World')
    <3>1. \A e \in Devices : Rise(World, World', e)
      BY <1>2, <2>3, Parts, RiseSame
    <3>2. used.attempts \in Nat
      BY <2>4, Parts, AccountAssumption DEF GoodCounters
    <3> QED
      BY <1>2, <2>1, <2>6, <2>8, <3>1, <3>2, Parts DEF Grows
  <2>10. GoodTables(World')
    <3>1. IsTables(tables')
      <4>1. IsTables(tables)
        BY <2>4, Parts DEF GoodTables
      <4> QED
        BY <2>2, <2>6, <4>1 DEF IsTables
    <3>2. ASSUME NEW i \in DOMAIN tables'.keymac
          PROVE  Fits(World, i, tables'.keymac[i])
      BY <2>2, <2>4, <2>6, Parts DEF GoodTables
    <3>3. ASSUME NEW c \in tables'.changes
          PROVE  /\ GoodChange(World, c) /\ c.key.index = tables'.keycount /\ Fits(World, c.id, c.verify)
                 /\ \A o \in tables'.changes : o.id = c.id => o = c
      BY <2>4, <2>6, Parts DEF GoodTables
    <3>4. ASSUME NEW i \in DOMAIN tables'.keymac
          PROVE  Fits(World', i, tables'.keymac[i])
      <4>1. i \in Ids /\ tables'.keymac[i] \in Key \cup {NoKey}
        BY <3>1 DEF IsTables
      <4> QED
        BY <2>3, <2>9, <3>2, <4>1, FitsKept
    <3>5. ASSUME NEW c \in tables'.changes
          PROVE  GoodChange(World', c) /\ Fits(World', c.id, c.verify)
      <4>1. c.id \in Ids /\ c.verify \in Key
        BY <3>3 DEF GoodChange, KeyChange
      <4> QED
        BY <2>3, <2>9, <3>3, <4>1, FitsKept, ChangeKept
    <3> QED
      BY <3>1, <3>3, <3>4, <3>5, Parts DEF GoodTables
  <2>11. GoodCounters(World')
    BY <1>2, <2>1, <2>4, Parts DEF GoodCounters
  <2>12. HistoryKeys(World')
    BY <2>1, <2>4, <2>6, Parts DEF HistoryKeys
  <2>13. /\ device' = [e \in Devices |-> device'[e]]
         /\ \A e \in Devices : GoodDevice(World', e, device'[e])
    BY <1>2, <2>3, <2>9, <2>11, Invariants, DeviceKept
  <2>14. GoodWorld(World')
    BY <2>7, <2>10, <2>11, <2>12, <2>13, Parts DEF GoodWorld
  <2>15. Sendable(World, World', d, l, MacUpdateAckMessage)
    BY DEF Sendable, GoodDown, MacUpdateAckMessage
  <2> QED
    BY <1>2, <2>1, <2>3, <2>9, <2>14, <2>15, AnswerStep
<1> QED
  BY <1>3, <1>4

\* The server writes its tables: what it adds fits the devices.
LEMMA TablesWritten ==
  ASSUME AccountInv, device' = device, used.attempts <= used'.attempts, GoodCounters(World'),
         tables' = [keycount |-> tables'.keycount, changes |-> tables'.changes,
                    keymac |-> tables'.keymac],
         HistoryKeys(World'), IsTables(tables'),
         \/ tables'.keycount = tables.keycount /\ tables'.changes \subseteq tables.changes
         \/ tables'.keycount = tables.keycount + 1,
         \A i \in 0..tables.keycount : history'.keys[i] = history.keys[i],
         history.granted \subseteq history'.granted,
         \A i \in DOMAIN tables'.keymac :
           \/ i \in DOMAIN tables.keymac /\ tables'.keymac[i] = tables.keymac[i]
           \/ Fits(World', i, tables'.keymac[i]),
         \A c \in tables'.changes :
           \/ c \in tables.changes /\ tables'.keycount = tables.keycount
           \/ GoodChange(World', c) /\ c.key.index = tables'.keycount /\ Fits(World, c.id, c.verify),
         \A c, o \in tables'.changes : o.id = c.id => o = c
  PROVE  GoodWorld(World') /\ Grows(World, World')
<1>1. GoodWorld(World) /\ GoodTables(World) /\ \A e \in Devices : GoodDevice(World, e, device[e])
  BY Invariants DEF GoodWorld
<1>2. \A e \in Devices : device[e].ring.local \in Nat /\ device[e].attempt \in Nat
  BY <1>1, Parts, Counted
<1>3. Grows(World, World')
  <2>1. \A e \in Devices : Rise(World, World', e)
    BY <1>1, Parts, RiseSame
  <2> QED
    BY <1>2, <2>1, Parts DEF Grows
<1>4. GoodTables(World')
  <2>1. ASSUME NEW i \in DOMAIN tables'.keymac
        PROVE  Fits(World', i, tables'.keymac[i])
    <3>1. i \in Ids /\ tables'.keymac[i] \in Key \cup {NoKey}
      BY DEF IsTables
    <3>2. i \in DOMAIN tables.keymac => Fits(World, i, tables.keymac[i])
      BY <1>1, Parts DEF GoodTables
    <3> QED
      BY <1>1, <1>3, <3>1, <3>2, FitsKept
  <2>2. ASSUME NEW c \in tables'.changes
        PROVE  GoodChange(World', c) /\ c.key.index = tables'.keycount /\ Fits(World', c.id, c.verify)
    <3>1. ASSUME c \in tables.changes, tables'.keycount = tables.keycount
          PROVE  GoodChange(World', c) /\ c.key.index = tables'.keycount /\ Fits(World', c.id, c.verify)
      <4>1. GoodChange(World, c) /\ c.key.index = tables'.keycount /\ Fits(World, c.id, c.verify)
        BY <1>1, <3>1, Parts DEF GoodTables
      <4>2. c.id \in Ids /\ c.verify \in Key
        BY <4>1 DEF GoodChange, KeyChange
      <4>3. Fits(World', c.id, c.verify)
        BY <1>1, <1>3, <4>1, <4>2, FitsKept
      <4> QED
        BY <1>1, <1>3, <4>1, <4>3, ChangeKept
    <3>2. ASSUME GoodChange(World', c), c.key.index = tables'.keycount, Fits(World, c.id, c.verify)
          PROVE  GoodChange(World', c) /\ c.key.index = tables'.keycount /\ Fits(World', c.id, c.verify)
      <4>1. c.id \in Ids /\ c.verify \in Key
        BY <3>2 DEF GoodChange, KeyChange
      <4> QED
        BY <1>1, <1>3, <3>2, <4>1, FitsKept
    <3> QED
      BY <3>1, <3>2
  <2> QED
    BY <2>1, <2>2, Parts DEF GoodTables
<1>5. /\ device' = [e \in Devices |-> device'[e]]
      /\ \A e \in Devices : GoodDevice(World', e, device'[e])
  BY <1>1, <1>3, Invariants, DeviceKept
<1> QED
  BY <1>3, <1>4, <1>5, Parts DEF GoodWorld

\* The fields of the tables.
LEMMA TablesForm ==
  ASSUME AccountInv
  PROVE  /\ tables = [keycount |-> tables.keycount, changes |-> tables.changes,
                      keymac |-> tables.keymac]
         /\ IsTables(tables) /\ tables.keycount \in Nat
         /\ DOMAIN tables.keymac \subseteq Ids
         /\ \A i \in DOMAIN tables.keymac :
              tables.keymac[i] \in Key \cup {NoKey} /\ Fits(World, i, tables.keymac[i])
         /\ \A c \in tables.changes : GoodChange(World, c) /\ c.key.index = tables.keycount
         /\ \A c, o \in tables.changes : o.id = c.id => o = c
<1>1. GoodWorld(World) /\ GoodTables(World)
  BY Invariants DEF GoodWorld
<1> QED
  BY <1>1, Parts DEF GoodWorld, GoodTables, IsTables

LEMMA onKeyChangeStep ==
  ASSUME AccountInv, NEW d \in Devices, onKeyChange(d)
  PROVE  AccountInv'
<1> DEFINE l == link[d]
           i == Head(l.up).index
           id == <<d, l.id>>
<1>1. IdleTask(d, "keyChange")
  BY DEF onKeyChange
<1>2. l["up"] # << >> /\ UNCHANGED <<device, used>> /\ l.server = "idle"
  BY <1>1, IdleTaskParts
<1> DEFINE asked == DeviceKeysMessage(i, FALSE, Others(tables, id))
           again == DeviceKeysMessage(i, TRUE, << >>)
<1>3. \/ \E fatal \in BOOLEAN : Refuse(d, "up", fatal)
      \/ Acceptable(tables, i) /\ Answer(d, "up", asked) /\ UNCHANGED <<tables, kicked, history>>
      \/ i = tables.keycount /\ Answer(d, "up", again) /\ UNCHANGED <<tables, kicked, history>>
  BY DEF onKeyChange
<1>4. ASSUME NEW fatal \in BOOLEAN, Refuse(d, "up", fatal)
      PROVE  AccountInv'
  BY <1>2, <1>4, RefuseStep
<1>5. ASSUME UNCHANGED <<tables, kicked, history>>
      PROVE  /\ GoodWorld(World') /\ Grows(World, World') /\ kicked' \subseteq Ids
             /\ World' = World
  BY <1>2, <1>5, ServerWaits, Invariants DEF World
<1>6. ASSUME Acceptable(tables, i), Answer(d, "up", asked), UNCHANGED <<tables, kicked, history>>
      PROVE  AccountInv'
  <2> DEFINE macs == Others(tables, id)
  <2>1. /\ asked.type = "deviceKeys" /\ asked.index = i /\ asked.duplicated = FALSE
        /\ asked.macs = macs
    BY DEF DeviceKeysMessage
  <2>2. /\ DOMAIN macs \subseteq DOMAIN tables.keymac
        /\ \A e \in DOMAIN macs : macs[e] = tables.keymac[e]
    BY DEF Others, Restrict
  <2> HIDE DEF asked, macs, i
  <2>3. \A e \in DOMAIN macs : e \in Ids /\ macs[e] \in Key \cup {NoKey} /\ Fits(World, e, macs[e])
    BY <2>2, TablesForm
  <2>4. i = tables.keycount + 1 /\ Free(World, i)
    BY <1>6, TablesForm, Parts DEF Acceptable, Free
  <2>5. Sendable(World, World', d, l, asked)
    BY <1>5, <1>6, <2>1, <2>3, <2>4, Parts DEF Sendable, GoodDown
  <2> QED
    BY <1>2, <1>5, <1>6, <2>5, AnswerStep
<1>7. ASSUME i = tables.keycount, Answer(d, "up", again), UNCHANGED <<tables, kicked, history>>
      PROVE  AccountInv'
  <2>1. again.type = "deviceKeys" /\ again.index = i /\ again.duplicated = TRUE
    BY DEF DeviceKeysMessage
  <2> HIDE DEF again, i
  <2>2. i \in Nat /\ i <= tables.keycount
    BY <1>7, TablesForm
  <2>3. Sendable(World, World', d, l, again)
    BY <1>5, <1>7, <2>1, <2>2, Parts DEF Sendable, GoodDown
  <2> QED
    BY <1>2, <1>5, <1>7, <2>3, AnswerStep
<1> QED
  BY <1>3, <1>4, <1>6, <1>7

LEMMA onRemoveStep ==
  ASSUME AccountInv, NEW d \in Devices, onRemove(d)
  PROVE  AccountInv'
<1> DEFINE l == link[d]
           m == Head(l.up)
           k == Restrict(tables.keymac, DOMAIN tables.keymac \ {m.id})
           C == {c \in tables.changes : c.id # m.id}
<1>1. IdleTask(d, "remove")
  BY DEF onRemove
<1>2. /\ l["up"] # << >> /\ UNCHANGED <<device, used>> /\ m.id \in Ids
  <2>1. l["up"] # << >> /\ UNCHANGED <<device, used>> /\ m.type = "remove" /\ GoodUp(World, d, m)
    BY <1>1, IdleTaskParts
  <2> HIDE DEF m
  <2> QED
    BY <2>1 DEF GoodUp
<1>3. /\ tables' = tables \/ tables' = removeDevice(tables, m.id)
      /\ kicked' = kicked \cup {m.id} /\ link' = Done(d, "up") /\ history' = history
  BY DEF onRemove
<1> HIDE DEF m
<1>4. tables' = [keycount |-> tables'.keycount, changes |-> tables'.changes,
                 keymac |-> tables'.keymac]
      /\ tables'.keycount = tables.keycount /\ tables'.changes \subseteq tables.changes
      /\ DOMAIN tables'.keymac \subseteq DOMAIN tables.keymac
      /\ \A i \in DOMAIN tables'.keymac : tables'.keymac[i] = tables.keymac[i]
  <2>1. CASE tables' = tables
    BY <2>1, TablesForm
  <2>2. ASSUME tables' = removeDevice(tables, m.id)
        PROVE  /\ tables' = [keycount |-> tables'.keycount, changes |-> tables'.changes,
                             keymac |-> tables'.keymac]
               /\ tables'.keycount = tables.keycount /\ tables'.changes = C /\ tables'.keymac = k
    <3> DEFINE t == [tables EXCEPT !.keymac = k, !.changes = C]
    <3>1. tables' = t
      BY <2>2 DEF removeDevice
    <3>2. DOMAIN tables = {"keycount", "changes", "keymac"}
      BY TablesForm
    <3> HIDE DEF k, C
    <3>3. t = [f \in DOMAIN tables |-> IF f = "changes" THEN C ELSE IF f = "keymac" THEN k ELSE tables[f]]
      OBVIOUS
    <3> HIDE DEF t
    <3>4. tables' = [keycount |-> tables.keycount, changes |-> C, keymac |-> k]
      BY <3>1, <3>2, <3>3
    <3> QED
      BY <3>4
  <2>3. C \subseteq tables.changes
    OBVIOUS
  <2>4. DOMAIN k \subseteq DOMAIN tables.keymac /\ \A i \in DOMAIN k : k[i] = tables.keymac[i]
    BY DEF Restrict
  <2> HIDE DEF k, C
  <2> QED
    BY <1>3, <2>1, <2>2, <2>3, <2>4
<1>5. GoodWorld(World') /\ Grows(World, World')
  <2>1. GoodWorld(World) /\ GoodCounters(World) /\ HistoryKeys(World) /\ used.attempts \in Nat
    BY Invariants, AccountAssumption DEF GoodWorld
  <2>2. GoodCounters(World') /\ HistoryKeys(World')
    BY <1>2, <1>3, <1>4, <2>1, Parts DEF GoodCounters, HistoryKeys
  <2>3. IsTables(tables')
    BY <1>4, TablesForm DEF IsTables
  <2>4. /\ device' = device /\ used.attempts <= used'.attempts
        /\ \A i \in 0..tables.keycount : history'.keys[i] = history.keys[i]
        /\ history.granted \subseteq history'.granted
    BY <1>2, <1>3, <2>1
  <2>5. \A i \in DOMAIN tables'.keymac :
          i \in DOMAIN tables.keymac /\ tables'.keymac[i] = tables.keymac[i]
    BY <1>4
  <2>6. \A c, o \in tables'.changes : o.id = c.id => o = c
    BY <1>4, TablesForm
  <2>7. \A c \in tables'.changes : c \in tables.changes /\ tables'.keycount = tables.keycount
    BY <1>4
  <2> QED
    BY <1>4, <2>2, <2>3, <2>4, <2>5, <2>6, <2>7, TablesWritten
<1>6. kicked' \subseteq Ids
  BY <1>2, <1>3, Invariants
<1> QED
  BY <1>2, <1>3, <1>5, <1>6, DoneStep

LEMMA onNewKeyStep ==
  ASSUME AccountInv, NEW d \in Devices, onNewKey(d)
  PROVE  AccountInv'
<1> DEFINE l == link[d]
           m == Head(l.up)
           id == <<d, l.id>>
<1>1. IdleTask(d, "newKey")
  BY DEF onNewKey
<1>2. /\ l["up"] # << >> /\ GoodUp(World, d, m) /\ UNCHANGED <<device, used>> /\ m.type = "newKey"
      /\ l.server = "idle" /\ l.id = device[d].attempt /\ device[d].state = "idle"
  BY <1>1, IdleTaskParts
<1>3. \/ \E fatal \in BOOLEAN : Refuse(d, "up", fatal)
      \/ /\ Known(tables, id) /\ IsNext(tables, m.index) /\ m.receivers \subseteq DOMAIN tables.keymac
         /\ tables' = updateExchangeKey(tables, id, m.key, m.verify, m.receivers)
         /\ kicked' = kicked \cup m.receivers
         /\ Answer(d, "up", NewKeyAckMessage(m.index))
         /\ history' = [history EXCEPT !.keys = Put(history.keys, m.index, m.key)]
  BY DEF onNewKey
<1>4. ASSUME NEW fatal \in BOOLEAN, Refuse(d, "up", fatal)
      PROVE  AccountInv'
  BY <1>2, <1>4, RefuseStep
<1>5. /\ GoodWorld(World) /\ HistoryKeys(World) /\ GoodCounters(World) /\ used.attempts \in Nat
      /\ tables.keycount \in Nat /\ DOMAIN tables.keymac \subseteq Ids /\ kicked \subseteq Ids
  BY Invariants, TablesForm, AccountAssumption DEF GoodWorld
<1>6. ASSUME Known(tables, id), IsNext(tables, m.index), m.receivers \subseteq DOMAIN tables.keymac,
             tables' = updateExchangeKey(tables, id, m.key, m.verify, m.receivers),
             kicked' = kicked \cup m.receivers,
             Answer(d, "up", NewKeyAckMessage(m.index)),
             history' = [history EXCEPT !.keys = Put(history.keys, m.index, m.key)]
      PROVE  AccountInv'
  <2> HIDE DEF m
  <2>1. /\ Free(World, m.index) /\ m.index > 0
        /\ m.key = [index |-> m.index, maker |-> d]
        /\ m.index > device[d].ring.local => HasKey(device[d].ring, m.index)
        /\ m.verify \in Key /\ m.verify.index = m.index - 1
        /\ \A r \in m.receivers : r \in Ids /\ Fits(World, r, m.verify)
    BY <1>2, Parts DEF GoodUp
  <2>2. m.index = tables.keycount + 1 /\ m.index \in Nat /\ tables.changes = {}
    BY <1>5, <1>6, <2>1, Parts DEF IsNext, Free
  <2>3. m.key \in Key /\ m.key.index = m.index /\ m.key.maker = d /\ m.key # NoKey
    <3>1. d # "nobody"
      BY KeyRingAssumption
    <3>2. m.key \in Key /\ m.key.index = m.index /\ m.key.maker = d
      BY <2>1, <2>2 DEF Key
    <3>3. NoKey.maker = "nobody"
      BY DEF NoKey
    <3> QED
      BY <3>1, <3>2, <3>3
  <2> DEFINE k == [tables.keymac EXCEPT ![id] = m.key]
             C == {[id |-> r, key |-> m.key, verify |-> m.verify] : r \in m.receivers}
             n == tables.keycount + 1
             keys == Put(history.keys, m.index, m.key)
  <2>4. tables' = [keycount |-> n, changes |-> C, keymac |-> k]
    <3> DEFINE t == [tables EXCEPT !.keycount = n, !.changes = C, !.keymac = k]
    <3>1. tables' = t
      BY <1>6, <2>2 DEF updateExchangeKey
    <3>2. DOMAIN tables = {"keycount", "changes", "keymac"}
      BY TablesForm
    <3> HIDE DEF k, C, n
    <3>3. t = [f \in DOMAIN tables |-> IF f = "keymac" THEN k ELSE IF f = "changes" THEN C
                                       ELSE IF f = "keycount" THEN n ELSE tables[f]]
      OBVIOUS
    <3> HIDE DEF t
    <3> QED
      BY <3>1, <3>2, <3>3
  <2>5. /\ DOMAIN k = DOMAIN tables.keymac /\ id \in DOMAIN tables.keymac
        /\ \A i \in DOMAIN k : k[i] = IF i = id THEN m.key ELSE tables.keymac[i]
    BY <1>6 DEF Known
  <2>6. ASSUME NEW c \in C
        PROVE  \E r \in m.receivers : c.id = r /\ c.key = m.key /\ c.verify = m.verify
                                      /\ c = [id |-> r, key |-> m.key, verify |-> m.verify]
    OBVIOUS
  <2>7. /\ DOMAIN keys = 0..n /\ keys[n] = m.key
        /\ \A i \in 0..tables.keycount : keys[i] = history.keys[i]
    <3>1. DOMAIN history.keys = 0..tables.keycount
      BY <1>5, Parts DEF HistoryKeys
    <3>2. DOMAIN keys = DOMAIN history.keys \cup {n}
      BY <2>2 DEF Put
    <3>3. \A i \in 0..n : keys[i] = IF i = n THEN m.key ELSE history.keys[i]
      BY <1>5, <2>2, <3>1, <3>2 DEF Put
    <3> QED
      BY <1>5, <3>1, <3>2, <3>3
  <2>8. history' = [keys |-> keys, granted |-> history.granted, joined |-> history.joined]
    <3>1. history = [keys |-> history.keys, granted |-> history.granted, joined |-> history.joined]
      BY <1>5, Parts DEF GoodCounters
    <3> HIDE DEF keys
    <3>2. history' = [history EXCEPT !.keys = keys]
      BY <1>6 DEF keys
    <3> QED
      BY <3>1, <3>2
  <2> HIDE DEF k, C, keys
  <2>9. /\ tables'.keycount = n /\ tables'.changes = C /\ tables'.keymac = k
        /\ tables' = [keycount |-> tables'.keycount, changes |-> tables'.changes,
                      keymac |-> tables'.keymac]
    BY <2>4
  <2>10. /\ history'.keys = keys /\ history'.granted = history.granted
         /\ history'.joined = history.joined
         /\ history' = [keys |-> history'.keys, granted |-> history'.granted,
                        joined |-> history'.joined]
    BY <2>8
  <2>11. GoodCounters(World')
    BY <1>2, <1>5, <2>10, Parts DEF GoodCounters
  <2>12. HistoryKeys(World')
    <3>1. \A i \in 0..tables.keycount : history.keys[i] \in Key /\ history.keys[i].index = i
      BY <1>5, Parts DEF HistoryKeys
    <3>2. ASSUME NEW i \in 0..n
          PROVE  keys[i] \in Key /\ keys[i].index = i
      BY <1>5, <2>2, <2>3, <2>7, <3>1
    <3> QED
      BY <2>7, <2>9, <2>10, <3>2, Parts DEF HistoryKeys
  <2>13. ASSUME NEW c \in C
         PROVE  GoodChange(World', c) /\ c.key.index = n /\ Fits(World, c.id, c.verify)
    <3>1. PICK r \in m.receivers :
            /\ c.id = r /\ c.key = m.key /\ c.verify = m.verify
            /\ c = [id |-> r, key |-> m.key, verify |-> m.verify]
      BY <2>6
    <3>2. c \in KeyChange
      BY <2>1, <2>3, <3>1 DEF KeyChange
    <3>3. /\ c.key.index = n /\ c.key = history'.keys[n] /\ c.verify.index = n - 1
      BY <1>5, <2>1, <2>2, <2>3, <2>7, <2>10, <3>1
    <3> QED
      BY <1>5, <2>1, <2>9, <3>1, <3>2, <3>3, Parts DEF GoodChange
  <2>14. IsTables(tables')
    <3>1. n \in Nat /\ C \subseteq KeyChange
      BY <1>5, <2>13 DEF GoodChange
    <3>2. \A i \in DOMAIN k : k[i] \in Key \cup {NoKey}
      BY <2>3, <2>5, TablesForm
    <3> QED
      BY <1>5, <2>5, <2>9, <3>1, <3>2 DEF IsTables
  <2>15. Fits(World', id, m.key)
    <3>1. GoodRing(World, d, device[d].ring) /\ device[d].ring.local \in Nat
          /\ device[d].attempt \in 0..MaxAttempts
      BY DeviceForm
    <3>2. device[d].ring.local < n
      BY <1>5, <3>1, Parts DEF GoodRing
    <3>3. device[d].attempt \in Nat
      BY <3>1, AccountAssumption
    <3>4. id[1] = d /\ id[2] = device[d].attempt
      BY <1>2
    <3>5. m.key = history'.keys[m.key.index] /\ m.key.index = n /\ n \in Nat /\ n <= tables'.keycount
      BY <1>5, <2>2, <2>3, <2>7, <2>9, <2>10
    <3>6. m.key.index > device[d].ring.local
      BY <3>1, <3>2, <3>5
    <3>7. device'[d] = device[d]
      BY <1>2
    <3> HIDE DEF id, n
    <3> QED
      BY <2>3, <3>3, <3>4, <3>5, <3>6, <3>7, Parts DEF Fits
  <2>16. \A i \in DOMAIN tables'.keymac :
           \/ i \in DOMAIN tables.keymac /\ tables'.keymac[i] = tables.keymac[i]
           \/ Fits(World', i, tables'.keymac[i])
    <3> HIDE DEF id
    <3> QED
      BY <2>5, <2>9, <2>15
  <2>17. \A c, o \in tables'.changes : o.id = c.id => o = c
    <3>1. ASSUME NEW c \in C, NEW o \in C, o.id = c.id
          PROVE  o = c
      BY <2>6, <3>1
    <3> QED
      BY <2>9, <3>1
  <2>18. GoodWorld(World') /\ Grows(World, World')
    <3>1. /\ device' = device /\ used.attempts <= used'.attempts
          /\ \A i \in 0..tables.keycount : history'.keys[i] = history.keys[i]
          /\ history.granted \subseteq history'.granted
      BY <1>2, <1>5, <2>7, <2>10
    <3>2. \A c \in tables'.changes :
            GoodChange(World', c) /\ c.key.index = tables'.keycount /\ Fits(World, c.id, c.verify)
      BY <2>9, <2>13
    <3> QED
      BY <2>9, <2>11, <2>12, <2>14, <2>16, <2>17, <3>1, <3>2, TablesWritten
  <2>19. Sendable(World, World', d, l, NewKeyAckMessage(m.index))
    <3> DEFINE a == NewKeyAckMessage(m.index)
    <3>1. a.type = "newKeyAck" /\ a.index = m.index
      BY DEF NewKeyAckMessage
    <3> HIDE DEF a
    <3>2. /\ a.index \in Nat /\ a.index <= tables'.keycount
          /\ a.index > device'[d].ring.local => HasKey(device'[d].ring, a.index)
      BY <1>2, <2>1, <2>2, <2>9, <3>1
    <3>3. GoodDown(World', d, a)
      BY <3>1, <3>2, Parts DEF GoodDown
    <3>4. Sendable(World, World', d, l, a)
      BY <1>2, <3>1, <3>3, Parts DEF Sendable
    <3> QED
      BY <3>4 DEF a
  <2>20. kicked' \subseteq Ids
    BY <1>5, <1>6
  <2> QED
    BY <1>2, <1>6, <2>18, <2>19, <2>20, AnswerStep
<1> QED
  BY <1>3, <1>4, <1>6

--------------------------------------------------------------------------------
(* Calls between the clients.                                                *)

\* Only messages and calls of a link are added or taken, and its route changes.
LEMMA RoutedLink ==
  ASSUME AccountInv, GoodWorld(World'), Grows(World, World'), device' = device, NEW d \in Devices,
         NEW n, link[d].server # "none",
         n = [server |-> n.server, id |-> n.id, up |-> n.up, calls |-> n.calls,
              down |-> n.down, route |-> n.route],
         n.server = link[d].server, n.id = link[d].id, n.down = link[d].down,
         n.route \in {"none", "asked", "ack"}, IsSeq(n.up), IsSeq(n.calls),
         Range(n.up) \subseteq Range(link[d].up),
         \A m \in Range(n.calls) : m \in Range(link[d].calls) \/ GoodCall(World', m)
  PROVE  GoodLink(World', d, n)
<1>1. GoodWorld(World) /\ IsLink(link[d]) /\ GoodLink(World, d, link[d])
  BY Invariants
<1>2. IsLink(n)
  BY <1>1 DEF IsLink
<1>3. World'.device[d] = World.device[d] /\ World'.used.attempts \in Nat
  BY Parts, AccountAssumption DEF GoodWorld, GoodCounters
<1> QED
  BY <1>1, <1>2, <1>3, Serves

\* A call is appended, and the route changes.
LEMMA CalledForm ==
  ASSUME NEW l, NEW route, NEW call,
         l = [server |-> l.server, id |-> l.id, up |-> l.up, calls |-> l.calls,
              down |-> l.down, route |-> l.route]
  PROVE  /\ [l EXCEPT !.route = route, !.calls = Append(@, call)] =
              [server |-> l.server, id |-> l.id, up |-> l.up, calls |-> Append(l.calls, call),
               down |-> l.down, route |-> route]
         /\ [l EXCEPT !.calls = Append(@, call)] =
              [server |-> l.server, id |-> l.id, up |-> l.up, calls |-> Append(l.calls, call),
               down |-> l.down, route |-> l.route]
<1> DEFINE x == Append(l.calls, call)
           a == [l EXCEPT !.route = route, !.calls = x]
           b == [l EXCEPT !.calls = x]
<1>1. DOMAIN l = {"server", "id", "up", "calls", "down", "route"}
  OBVIOUS
<1>2. /\ [l EXCEPT !.route = route, !.calls = Append(@, call)] = a
      /\ [l EXCEPT !.calls = Append(@, call)] = b
  BY <1>1
<1> HIDE DEF x
<1>3. a = [f \in DOMAIN l |-> IF f = "calls" THEN x ELSE IF f = "route" THEN route ELSE l[f]]
  OBVIOUS
<1>4. b = [f \in DOMAIN l |-> IF f = "calls" THEN x ELSE l[f]]
  OBVIOUS
<1> HIDE DEF a, b
<1>5. a = [server |-> l.server, id |-> l.id, up |-> l.up, calls |-> x,
           down |-> l.down, route |-> route]
  BY <1>1, <1>3
<1>6. b = [server |-> l.server, id |-> l.id, up |-> l.up, calls |-> x,
           down |-> l.down, route |-> l.route]
  BY <1>1, <1>4
<1> QED
  BY <1>2, <1>5, <1>6 DEF x

LEMMA PassOnStep ==
  ASSUME AccountInv, UNCHANGED <<device, tables, kicked, history, used>>,
         NEW queue \in {"up", "calls"}, link[Partner][queue] # << >>,
         NEW id, NEW result, GoodCall(World, result),
         link' = PassOn(Done(Partner, queue), id, result)
  PROVE  AccountInv'
<1>1. Partner \in Devices
  BY AccountAssumption
<1>2. GoodWorld(World') /\ Grows(World, World') /\ kicked' \subseteq Ids /\ World' = World
  BY ServerWaits, Invariants DEF World
<1> DEFINE M == Done(Partner, queue)
<1>3. M = [e \in Devices |-> IF e = Partner THEN DoneLink(link[Partner], queue) ELSE link[e]]
  BY <1>1, DoneForm
<1>4. /\ M[Partner] = [server |-> link[Partner].server, id |-> link[Partner].id,
                       up |-> M[Partner].up, calls |-> M[Partner].calls,
                       down |-> link[Partner].down, route |-> link[Partner].route]
      /\ IsSeq(M[Partner].up) /\ IsSeq(M[Partner].calls)
      /\ Range(M[Partner].up) \subseteq Range(link[Partner].up)
      /\ Range(M[Partner].calls) \subseteq Range(link[Partner].calls)
  <2>1. M[Partner] = DoneLink(link[Partner], queue)
    BY <1>1, <1>3
  <2> HIDE DEF M
  <2> QED
    BY <1>1, <2>1, DoneParts
<1>5. /\ link' = [e \in Devices |-> link'[e]]
      /\ \A e \in Devices :
           \/ link'[e] = M[e]
           \/ /\ M[e].route = "asked"
              /\ link'[e] = [M[e] EXCEPT !.route = "ack", !.calls = Append(@, result)]
  BY DEF PassOn
<1> HIDE DEF M
<1>6. ASSUME NEW e \in Devices
      PROVE  /\ M[e] = [server |-> link[e].server, id |-> link[e].id, up |-> M[e].up,
                        calls |-> M[e].calls, down |-> link[e].down, route |-> link[e].route]
             /\ IsSeq(M[e].up) /\ IsSeq(M[e].calls)
             /\ Range(M[e].up) \subseteq Range(link[e].up)
             /\ Range(M[e].calls) \subseteq Range(link[e].calls)
  <2>1. CASE e = Partner
    BY <1>4, <2>1
  <2>2. ASSUME e # Partner
        PROVE  M[e] = link[e]
    BY <1>3, <2>2
  <2>3. IsLink(link[e])
    BY Invariants
  <2> QED
    BY <2>1, <2>2, <2>3 DEF IsLink
<1>7. link[Partner].server # "none"
  BY <1>1, TaskLink
<1>8. ASSUME NEW e \in Devices
      PROVE  /\ link'[e].server = link[e].server
             /\ link'[e].route # "none" => link[e].route # "none"
             /\ link'[e] = link[e] \/ GoodLink(World', e, link'[e])
  <2> DEFINE l == link[e]
             n == link'[e]
  <2>1. /\ M[e] = [server |-> l.server, id |-> l.id, up |-> M[e].up,
                   calls |-> M[e].calls, down |-> l.down, route |-> l.route]
        /\ IsSeq(M[e].up) /\ IsSeq(M[e].calls)
        /\ Range(M[e].up) \subseteq Range(l.up) /\ Range(M[e].calls) \subseteq Range(l.calls)
    BY <1>6
  <2>2. /\ M[e].server = l.server /\ M[e].id = l.id /\ M[e].down = l.down /\ M[e].route = l.route
    BY <2>1
  <2>3. IsLink(l) /\ Phase(World, e, l) /\ NoLink.route = "none"
    BY Invariants DEF NoLink
  <2>4. l.route # "none" => l.server # "none"
    BY <2>3 DEF Phase
  <2>5. CASE n = M[e]
    <3>1. CASE e = Partner
      <4>1. /\ n = [server |-> n.server, id |-> n.id, up |-> n.up, calls |-> n.calls,
                    down |-> n.down, route |-> n.route]
            /\ n.route \in {"none", "asked", "ack"}
        BY <2>1, <2>2, <2>3, <2>5 DEF IsLink
      <4>2. \A m \in Range(n.calls) : m \in Range(l.calls)
        BY <2>1, <2>5
      <4>3. GoodLink(World', e, n)
        BY <1>2, <1>7, <2>1, <2>2, <2>5, <3>1, <4>1, <4>2, RoutedLink
      <4> QED
        BY <2>2, <2>5, <4>3
    <3>2. CASE e # Partner
      <4>1. M[e] = link[e]
        BY <1>3, <3>2
      <4> QED
        BY <2>5, <4>1
    <3> QED
      BY <3>1, <3>2
  <2>6. ASSUME M[e].route = "asked",
               n = [M[e] EXCEPT !.route = "ack", !.calls = Append(@, result)]
        PROVE  GoodLink(World', e, n) /\ n.server = l.server /\ l.route # "none"
    <3>1. /\ n = [server |-> l.server, id |-> l.id, up |-> M[e].up,
                  calls |-> Append(M[e].calls, result), down |-> l.down, route |-> "ack"]
      BY <2>1, <2>2, <2>6, CalledForm
    <3>2. /\ n.server = l.server /\ n.id = l.id /\ n.up = M[e].up /\ n.down = l.down
          /\ n.calls = Append(M[e].calls, result) /\ n.route = "ack"
          /\ n = [server |-> n.server, id |-> n.id, up |-> n.up, calls |-> n.calls,
                  down |-> n.down, route |-> n.route]
      BY <3>1
    <3>3. IsSeq(n.calls) /\ \A m \in Range(n.calls) : m \in Range(l.calls) \/ GoodCall(World', m)
      BY <1>2, <2>1, <3>2, LongerSeq
    <3>4. l.server # "none"
      BY <2>2, <2>4, <2>6
    <3>5. GoodLink(World', e, n)
      <4> HIDE DEF n
      <4> QED
        BY <1>2, <2>1, <3>2, <3>3, <3>4, RoutedLink DEF l
    <3> QED
      BY <2>2, <2>6, <3>2, <3>5
  <2> QED
    BY <1>5, <2>2, <2>5, <2>6
<1>9. Routes(link')
  <2>1. Routes(link)
    BY Invariants
  <2> QED
    BY <1>1, <1>8, <2>1 DEF Routes
<1> QED
  BY <1>2, <1>5, <1>8, <1>9, ServerStep

LEMMA RejectedIsGood ==
  ASSUME NEW w, NEW id
  PROVE  GoodCall(w, Rejected(id))
<1>1. Rejected(id).type = "proofResult" /\ Rejected(id).success = FALSE
  BY DEF Rejected, ProofResult
<1> HIDE DEF Rejected
<1> QED
  BY <1>1 DEF GoodCall

LEMMA onDenyStep ==
  ASSUME AccountInv, onDeny
  PROVE  AccountInv'
<1> DEFINE id == Head(link[Partner].up).id
<1>1. Partner \in Devices
  BY AccountAssumption
<1>2. IdleTask(Partner, "deny")
  BY DEF onDeny
<1>3. link[Partner]["up"] # << >> /\ UNCHANGED <<device, used>>
  BY <1>1, <1>2, IdleTaskParts
<1>4. link' = PassOn(Done(Partner, "up"), id, Rejected(id)) /\ UNCHANGED <<tables, kicked, history>>
  BY DEF onDeny
<1> HIDE DEF id
<1> QED
  BY <1>3, <1>4, RejectedIsGood, PassOnStep

LEMMA onAcceptStep ==
  ASSUME AccountInv, onAccept
  PROVE  AccountInv'
<1> DEFINE m == Head(link[Partner].up)
           result == ProofResult(m.id, TRUE, m.index, m.key)
<1>1. Partner \in Devices
  BY AccountAssumption
<1>2. IdleTask(Partner, "accept")
  BY DEF onAccept
<1>3. /\ link[Partner]["up"] # << >> /\ UNCHANGED <<device, used>> /\ m.type = "accept"
      /\ GoodUp(World, Partner, m)
  BY <1>1, <1>2, IdleTaskParts
<1>4. \/ link' = PassOn(Done(Partner, "up"), m.id, result) /\ UNCHANGED <<tables, kicked, history>>
      \/ Refuse(Partner, "up", TRUE)
  BY DEF onAccept
<1> HIDE DEF m
<1>5. CASE Refuse(Partner, "up", TRUE)
  BY <1>1, <1>3, <1>5, RefuseStep
<1>6. ASSUME link' = PassOn(Done(Partner, "up"), m.id, result), UNCHANGED <<tables, kicked, history>>
      PROVE  AccountInv'
  <2>1. result.id = m.id /\ result.index = m.index /\ result.key = m.key
    BY DEF ProofResult
  <2> HIDE DEF result
  <2>2. GoodCall(World, result)
    BY <1>3, <2>1 DEF GoodCall, GoodUp, result, ProofResult
  <2> QED
    BY <1>3, <1>6, <2>2, PassOnStep
<1> QED
  BY <1>4, <1>5, <1>6

\* A call to the client of a device is a task.
LEMMA CallParts ==
  ASSUME AccountInv, NEW d \in Devices, NEW type, Task(d, "calls", type)
  PROVE  LET m == Head(link[d].calls) IN
         /\ link[d]["calls"] # << >> /\ link[d].calls = link[d]["calls"]
         /\ m.type = type /\ GoodCall(World, m) /\ device' = device
<1> DEFINE l == link[d]
           m == Head(l.calls)
<1>1. l["calls"] # << >> /\ Head(l["calls"]).type = type /\ device' = device
  BY DEF Task
<1>2. l["calls"] = l.calls
  OBVIOUS
<1>3. m \in Range(l.calls) /\ Contents(World, d, l)
  BY <1>1, <1>2, TaskLink, Invariants
<1> HIDE DEF l, m
<1>4. GoodCall(World, m)
  BY <1>3 DEF Contents
<1> QED
  BY <1>1, <1>2, <1>4 DEF l, m

LEMMA sendProofStep ==
  ASSUME AccountInv, sendProof
  PROVE  AccountInv'
<1> DEFINE call == Head(link[Partner].calls)
           m == ProofMessage(call)
<1>1. Partner \in Devices
  BY AccountAssumption
<1>2. Task(Partner, "calls", "sendProof") /\ UNCHANGED <<tables, kicked, history, used>>
  BY DEF sendProof
<1>3. /\ link[Partner]["calls"] # << >> /\ call.type = "sendProof" /\ GoodCall(World, call)
      /\ device' = device
  BY <1>1, <1>2, CallParts
<1>4. \/ link[Partner].server = "idle" /\ Answer(Partner, "calls", m)
      \/ link' = PassOn(Done(Partner, "calls"), call.id, Rejected(call.id))
  BY DEF sendProof, Answer
<1>5. GoodWorld(World') /\ Grows(World, World') /\ kicked' \subseteq Ids
  BY <1>2, <1>3, ServerWaits, Invariants
<1> HIDE DEF call
<1>6. CASE link' = PassOn(Done(Partner, "calls"), call.id, Rejected(call.id))
  BY <1>2, <1>3, <1>6, RejectedIsGood, PassOnStep
<1>7. ASSUME link[Partner].server = "idle", Answer(Partner, "calls", m)
      PROVE  AccountInv'
  <2>1. m.type = "proof" /\ m.id = call.id /\ call.id \in Ids
    BY <1>3 DEF ProofMessage, GoodCall
  <2> HIDE DEF m
  <2>2. Sendable(World, World', Partner, link[Partner], m)
    BY <2>1 DEF Sendable, GoodDown
  <2> QED
    BY <1>1, <1>3, <1>5, <1>7, <2>2, AnswerStep
<1> QED
  BY <1>4, <1>6, <1>7

LEMMA acceptDoneStep ==
  ASSUME AccountInv, acceptDone
  PROVE  AccountInv'
<1> DEFINE call == Head(link[Partner].calls)
           m == AcceptAckMessage(call.id)
<1>1. Partner \in Devices
  BY AccountAssumption
<1>2. Task(Partner, "calls", "acceptDone") /\ UNCHANGED <<tables, kicked, history, used>>
  BY DEF acceptDone
<1>3. /\ link[Partner]["calls"] # << >> /\ call.type = "acceptDone" /\ GoodCall(World, call)
      /\ device' = device
  BY <1>1, <1>2, CallParts
<1>4. \/ link[Partner].server = "idle" /\ Answer(Partner, "calls", m)
      \/ link' = Done(Partner, "calls")
  BY DEF acceptDone
<1>5. GoodWorld(World') /\ Grows(World, World') /\ kicked' \subseteq Ids
  BY <1>2, <1>3, ServerWaits, Invariants
<1> HIDE DEF call
<1>6. CASE link' = Done(Partner, "calls")
  BY <1>1, <1>3, <1>5, <1>6, DoneStep
<1>7. ASSUME link[Partner].server = "idle", Answer(Partner, "calls", m)
      PROVE  AccountInv'
  <2>1. m.type = "acceptAck" /\ m.id = call.id /\ call.id \in Ids
    BY <1>3 DEF AcceptAckMessage, GoodCall
  <2> HIDE DEF m
  <2>2. Sendable(World, World', Partner, link[Partner], m)
    BY <2>1 DEF Sendable, GoodDown
  <2> QED
    BY <1>1, <1>3, <1>5, <1>7, <2>2, AnswerStep
<1> QED
  BY <1>4, <1>6, <1>7

\* The client of the joiner: its partner's answer.
LEMMA JoinStep ==
  ASSUME AccountInv, NEW d \in Devices, Task(d, "calls", "proofResult"), UNCHANGED used,
         link[d].server = "waiting", Head(link[d].calls).success,
         Head(link[d].calls).id = <<d, link[d].id>>, Join(d, Head(link[d].calls))
  PROVE  AccountInv'
<1> DEFINE l == link[d]
           call == Head(l.calls)
           m == GrantMessage(call.id, call)
           o == DoneLink(l, "calls")
           down == Append(l.down, m)
           n == [server |-> "idle", id |-> l.id, up |-> o.up, calls |-> o.calls,
                 down |-> down, route |-> "none"]
           done == [type |-> "acceptDone", id |-> call.id]
           p == link[Partner]
           q == [server |-> p.server, id |-> p.id, up |-> p.up, calls |-> Append(p.calls, done),
                 down |-> p.down, route |-> p.route]
           joined == history.joined \cup {[id |-> call.id, nonce |-> device[d].import.nonce]}
           granted == [e \in Devices |-> IF e = d THEN n ELSE link[e]]
<1>1. /\ link[d]["calls"] # << >> /\ call.type = "proofResult" /\ GoodCall(World, call)
      /\ device' = device
  BY CallParts
<1>2. /\ IsLink(l) /\ Phase(World, d, l) /\ Partner \in Devices /\ kicked' \subseteq Ids
      /\ IsLink(p) /\ Phase(World, Partner, p)
  BY Invariants, AccountAssumption DEF Join
<1>3. call.id = <<d, l.id>> /\ call.success /\ l.id \in 0..MaxAttempts /\ call.id \in Ids
  <2>1. call.id = <<d, l.id>> /\ call.success
    OBVIOUS
  <2> HIDE DEF call, l
  <2>2. l.id \in 0..MaxAttempts
    BY <1>2 DEF IsLink
  <2> QED
    BY <2>1, <2>2 DEF Ids
<1>4. /\ o = [server |-> l.server, id |-> l.id, up |-> o.up, calls |-> o.calls,
              down |-> l.down, route |-> l.route]
      /\ Done(d, "calls") = [e \in Devices |-> IF e = d THEN o ELSE link[e]]
  BY <1>1, DoneParts, DoneForm
<1>5. /\ tables' = addNewDeviceToUser(tables, call.id)
      /\ history' = [history EXCEPT !.joined = joined]
      /\ link' = IF l.route = "ack" THEN [granted EXCEPT ![Partner].calls = Append(@, done)]
                 ELSE granted
  <2> DEFINE a == [o EXCEPT !.server = "idle", !.route = "none", !.down = down]
             g == [Done(d, "calls") EXCEPT ![d].server = "idle", ![d].route = "none",
                     ![d].down = Append(@, m)]
  <2>1. /\ tables' = addNewDeviceToUser(tables, call.id)
        /\ history' = [history EXCEPT !.joined = joined]
        /\ link' = IF l.route = "ack" THEN [g EXCEPT ![Partner].calls = Append(@, done)] ELSE g
    BY DEF Join
  <2>2. o.down = l.down
    BY DEF DoneLink
  <2> HIDE DEF o, m
  <2>3. g = [e \in Devices |-> IF e = d THEN a ELSE link[e]]
    BY <1>4, <2>2
  <2>4. a = n
    <3>1. DOMAIN o = {"server", "id", "up", "calls", "down", "route"} /\ o.id = l.id
      BY <1>4
    <3> HIDE DEF down
    <3>2. a = [f \in DOMAIN o |-> IF f = "down" THEN down ELSE IF f = "route" THEN "none"
                                  ELSE IF f = "server" THEN "idle" ELSE o[f]]
      OBVIOUS
    <3> HIDE DEF a, l
    <3> QED
      BY <3>1, <3>2
  <2> HIDE DEF g, a, n
  <2>5. g = granted
    BY <2>3, <2>4
  <2> HIDE DEF granted
  <2> QED
    BY <2>1, <2>5 DEF g
<1>6. /\ call.id \in history.granted /\ Handed(World, call.index, call.key)
  <2> HIDE DEF call
  <2> QED
    BY <1>1, <1>3, Parts DEF GoodCall
<1> DEFINE k == Put(tables.keymac, call.id, NoKey)
<1>7. /\ tables' = [keycount |-> tables.keycount, changes |-> tables.changes, keymac |-> k]
      /\ DOMAIN k = DOMAIN tables.keymac \cup {call.id}
      /\ \A i \in DOMAIN k : k[i] = IF i = call.id THEN NoKey ELSE tables.keymac[i]
  <2> HIDE DEF call
  <2>1. tables = [keycount |-> tables.keycount, changes |-> tables.changes,
                  keymac |-> tables.keymac]
    BY TablesForm
  <2>2. DOMAIN k = DOMAIN tables.keymac \cup {call.id}
        /\ \A i \in DOMAIN k : k[i] = IF i = call.id THEN NoKey ELSE tables.keymac[i]
    BY DEF Put
  <2>3. tables' = [tables EXCEPT !.keymac = k]
    BY <1>5, <2>1 DEF addNewDeviceToUser
  <2> HIDE DEF k
  <2> QED
    BY <2>1, <2>2, <2>3
<1>8. GoodWorld(World) /\ GoodCounters(World) /\ HistoryKeys(World) /\ used.attempts \in Nat
  BY Invariants, AccountAssumption DEF GoodWorld
<1>9. history' = [keys |-> history.keys, granted |-> history.granted, joined |-> joined]
  <2>1. history = [keys |-> history.keys, granted |-> history.granted, joined |-> history.joined]
    BY <1>8, Parts DEF GoodCounters
  <2> HIDE DEF joined
  <2> QED
    BY <1>5, <2>1
<1>10. \A j \in joined : j.id \in history.granted
  <2> HIDE DEF call
  <2>1. \A j \in history.joined : j.id \in history.granted
    BY <1>8, Parts DEF GoodCounters
  <2> QED
    BY <1>6, <2>1
<1> HIDE DEF k, joined
<1>11. /\ tables'.keycount = tables.keycount /\ tables'.changes = tables.changes /\ tables'.keymac = k
       /\ tables' = [keycount |-> tables'.keycount, changes |-> tables'.changes,
                     keymac |-> tables'.keymac]
       /\ history'.keys = history.keys /\ history'.granted = history.granted
       /\ history'.joined = joined
       /\ history' = [keys |-> history'.keys, granted |-> history'.granted,
                      joined |-> history'.joined]
  BY <1>7, <1>9
<1>12. GoodWorld(World') /\ Grows(World, World')
  <2>1. GoodCounters(World') /\ HistoryKeys(World')
    BY <1>8, <1>10, <1>11, Parts DEF GoodCounters, HistoryKeys
  <2>2. IsTables(tables')
    <3> HIDE DEF call
    <3> QED
      BY <1>3, <1>7, <1>11, TablesForm DEF IsTables
  <2>3. Fits(World', call.id, NoKey)
    BY DEF Fits
  <2> HIDE DEF call
  <2>4. \A i \in DOMAIN tables'.keymac :
          \/ i \in DOMAIN tables.keymac /\ tables'.keymac[i] = tables.keymac[i]
          \/ Fits(World', i, tables'.keymac[i])
    BY <1>7, <1>11, <2>3
  <2>5. /\ used.attempts <= used'.attempts
        /\ \A i \in 0..tables.keycount : history'.keys[i] = history.keys[i]
        /\ history.granted \subseteq history'.granted
        /\ \A c \in tables'.changes : c \in tables.changes /\ tables'.keycount = tables.keycount
        /\ \A c, x \in tables'.changes : x.id = c.id => x = c
        /\ tables'.keycount = tables.keycount /\ tables'.changes \subseteq tables.changes
    BY <1>8, <1>11, TablesForm
  <2> QED
    BY <1>1, <1>11, <2>1, <2>2, <2>4, <2>5, TablesWritten
<1>13. Sendable(World, World', d, l, m)
  <2>1. m.type = "grant" /\ m.id = call.id /\ m.index = call.index /\ m.key = call.key
    BY DEF GrantMessage
  <2>2. Handed(World', m.index, m.key)
    <3> HIDE DEF m, call
    <3> QED
      BY <1>6, <1>8, <1>12, <2>1, HandedKept
  <2>3. device[d].state = "granting" => device[d].attempt < l.id /\ l.id <= used'.attempts
    <3> HIDE DEF l
    <3>1. used'.attempts = used.attempts /\ l.server = "waiting"
      BY DEF l
    <3> QED
      BY <1>2, <3>1, Parts DEF Phase
  <2> HIDE DEF m, call
  <2> QED
    BY <1>3, <2>1, <2>2, <2>3, Parts DEF Sendable, GoodDown
<1> HIDE DEF m, call
<1>14. /\ n.server = "idle" /\ n.id = l.id /\ n.up = o.up /\ n.calls = o.calls
       /\ n.down = Append(link[d].down, m) /\ n.route = "none"
       /\ n = [server |-> n.server, id |-> n.id, up |-> n.up, calls |-> n.calls,
               down |-> n.down, route |-> n.route]
  OBVIOUS
<1> HIDE DEF n
<1>15. CASE l.route # "ack"
  <2>1. link' = [link EXCEPT ![d] = n]
    BY <1>5, <1>15, Invariants
  <2> QED
    BY <1>1, <1>2, <1>12, <1>13, <1>14, <2>1, TaskStep
<1>16. ASSUME l.route = "ack"
       PROVE  AccountInv'
  <2>1. p.server \in {"idle", "error"} /\ Partner # d
    BY <1>2, <1>16, Invariants DEF Routes
  <2>2. p = [server |-> p.server, id |-> p.id, up |-> p.up, calls |-> p.calls,
             down |-> p.down, route |-> p.route]
    BY <1>2 DEF IsLink
  <2>3. link' = [e \in Devices |-> IF e = d THEN n ELSE IF e = Partner THEN q ELSE link[e]]
    <3> DEFINE b == [p EXCEPT !.calls = Append(@, done)]
    <3>1. link' = [e \in Devices |-> IF e = d THEN n ELSE IF e = Partner THEN b ELSE link[e]]
      <4>1. link' = [granted EXCEPT ![Partner].calls = Append(@, done)]
        BY <1>5, <1>16
      <4> HIDE DEF done
      <4> QED
        BY <1>2, <2>1, <4>1
    <3>2. b = q
      <4> HIDE DEF p, done
      <4> QED
        BY <2>2, CalledForm
    <3> HIDE DEF b, q
    <3> QED
      BY <3>1, <3>2
  <2>4. GoodLink(World', d, n)
    BY <1>1, <1>12, <1>13, <1>14, TaskedLink
  <2>5. /\ q.server = p.server /\ q.id = p.id /\ q.up = p.up /\ q.calls = Append(p.calls, done)
        /\ q.down = p.down /\ q.route = p.route
        /\ q = [server |-> q.server, id |-> q.id, up |-> q.up, calls |-> q.calls,
                down |-> q.down, route |-> q.route]
    OBVIOUS
  <2>6. GoodCall(World', done)
    <3>1. done.type = "acceptDone" /\ done.id = call.id
      OBVIOUS
    <3> HIDE DEF done
    <3> QED
      BY <1>3, <3>1 DEF GoodCall, call
  <2> HIDE DEF q, done
  <2>7. GoodLink(World', Partner, q)
    <3>1. IsSeq(p.up) /\ IsSeq(p.calls) /\ p.route \in {"none", "asked", "ack"}
      BY <1>2 DEF IsLink
    <3>2. IsSeq(q.calls) /\ \A x \in Range(q.calls) : x \in Range(p.calls) \/ GoodCall(World', x)
      BY <2>5, <2>6, <3>1, LongerSeq
    <3> QED
      BY <1>1, <1>2, <1>12, <2>1, <2>5, <3>1, <3>2, RoutedLink
  <2>8. Routes(link')
    <3>1. \A e \in Devices : link'[e].route # "none" => link[e].route # "none"
      BY <1>14, <2>3, <2>5
    <3>2. link'[Partner].server = p.server
      BY <1>2, <2>1, <2>3, <2>5
    <3> QED
      BY <2>1, <3>2 DEF Routes
  <2>9. \A e \in Devices : link'[e] = link[e] \/ GoodLink(World', e, link'[e])
    BY <2>3, <2>4, <2>7
  <2>10. link' = [e \in Devices |-> link'[e]]
    BY <2>3
  <2> QED
    BY <1>1, <1>2, <1>12, <2>8, <2>9, <2>10, ServerStep
<1> QED
  BY <1>15, <1>16

LEMMA proofResultStep ==
  ASSUME AccountInv, NEW d \in Devices, proofResult(d)
  PROVE  AccountInv'
<1> DEFINE call == Head(link[d].calls)
<1>1. Task(d, "calls", "proofResult") /\ UNCHANGED used
  BY DEF proofResult
<1>2. link[d]["calls"] # << >> /\ device' = device
  BY <1>1, CallParts
<1>3. \/ link' = Done(d, "calls") /\ UNCHANGED <<tables, kicked, history>>
      \/ \E fatal \in BOOLEAN : Refuse(d, "calls", fatal)
      \/ /\ link[d].server = "waiting" /\ call.success /\ call.id = <<d, link[d].id>>
         /\ Join(d, call)
  <2> HIDE DEF call
  <2> QED
    BY DEF proofResult, call
<1>4. CASE link' = Done(d, "calls") /\ UNCHANGED <<tables, kicked, history>>
  <2>1. GoodWorld(World') /\ Grows(World, World') /\ kicked' \subseteq Ids
    BY <1>1, <1>2, <1>4, ServerWaits, Invariants
  <2> QED
    BY <1>2, <1>4, <2>1, DoneStep
<1>5. ASSUME NEW fatal \in BOOLEAN, Refuse(d, "calls", fatal)
      PROVE  AccountInv'
  BY <1>1, <1>2, <1>5, RefuseStep
<1> QED
  BY <1>1, <1>3, <1>4, <1>5, JoinStep

LEMMA onAccessStep ==
  ASSUME AccountInv, NEW d \in Devices, onAccess(d)
  PROVE  AccountInv'
<1> DEFINE l == link[d]
           p == link[Partner]
           r == device[d]
           import == Head(l.up).import
           i == used.attempts + 1
           id == <<d, i>>
           there == p.server \in {"idle", "error"}
           route == IF there THEN "asked" ELSE "none"
           call == [type |-> "sendProof", id |-> id, nonce |-> import.nonce, trusted |-> import.trusted]
           no == Rejected(id)
           o == DoneLink(l, "up")
           x == [server |-> "waiting", id |-> i, up |-> o.up, calls |-> o.calls,
                 down |-> l.down, route |-> route]
           y == [server |-> "waiting", id |-> i, up |-> o.up, calls |-> Append(o.calls, no),
                 down |-> l.down, route |-> route]
           q == [server |-> p.server, id |-> p.id, up |-> p.up, calls |-> Append(p.calls, call),
                 down |-> p.down, route |-> p.route]
           n == IF there THEN x ELSE y
           next == [e \in Devices |-> IF e = d THEN x ELSE link[e]]
<1>1. /\ l["up"] # << >> /\ l.server = "auth" /\ used.attempts < MaxAttempts
      /\ used' = [used EXCEPT !.attempts = used.attempts + 1]
      /\ UNCHANGED <<device, tables, kicked, history>>
  BY DEF onAccess, Task
<1>2. /\ GoodWorld(World) /\ GoodCounters(World) /\ HistoryKeys(World) /\ used.attempts \in Nat
      /\ IsLink(l) /\ Phase(World, d, l) /\ Contents(World, d, l) /\ IsLink(p)
      /\ Partner \in Devices /\ Routes(link) /\ link = [e \in Devices |-> link[e]]
  BY Invariants, AccountAssumption DEF GoodWorld
<1>3. /\ used'.attempts = i /\ i \in 0..MaxAttempts
      /\ used' = [events |-> used.events, exports |-> used.exports, attempts |-> i]
  <2>1. used = [events |-> used.events, exports |-> used.exports, attempts |-> used.attempts]
    BY <1>2, Parts DEF GoodCounters
  <2>2. used' = [events |-> used.events, exports |-> used.exports, attempts |-> i]
    BY <1>1, <2>1
  <2>3. i \in 0..MaxAttempts
    BY <1>1, <1>2, AccountAssumption
  <2> QED
    BY <2>2, <2>3
<1>4. GoodWorld(World') /\ Grows(World, World')
  <2>1. GoodCounters(World')
    <3>1. /\ used.events \in 0..MaxEvents /\ used.exports \in 0..used.events
      BY <1>2, Parts DEF GoodCounters
    <3> QED
      BY <1>1, <1>2, <1>3, <3>1, Parts DEF GoodCounters
  <2>2. HistoryKeys(World')
    BY <1>1, <1>2, Parts DEF HistoryKeys
  <2> HIDE DEF i
  <2>3. i \in Nat /\ used.attempts <= i
    BY <1>2 DEF i
  <2> QED
    BY <1>1, <1>3, <2>1, <2>2, <2>3, TablesForm, TablesWritten
<1>5. /\ o = [server |-> l.server, id |-> l.id, up |-> o.up, calls |-> o.calls,
              down |-> l.down, route |-> l.route]
      /\ IsSeq(o.up) /\ IsSeq(o.calls)
      /\ Range(o.up) \subseteq Range(l.up) /\ Range(o.calls) \subseteq Range(l.calls)
      /\ Done(d, "up") = [e \in Devices |-> IF e = d THEN o ELSE link[e]]
  BY <1>1, DoneParts, DoneForm
<1>6. link' = IF there THEN [next EXCEPT ![Partner].calls = Append(@, call)]
              ELSE [next EXCEPT ![d].calls = Append(@, no)]
  <2> DEFINE a == [o EXCEPT !.server = "waiting", !.id = i, !.route = route]
             g == [Done(d, "up") EXCEPT ![d].server = "waiting", ![d].id = i, ![d].route = route]
  <2>1. link' = IF there THEN [g EXCEPT ![Partner].calls = Append(@, call)]
                ELSE [g EXCEPT ![d].calls = Append(@, no)]
    <3> DEFINE j == used'.attempts
               ji == <<d, j>>
               k == ji[2]
               h == [Done(d, "up") EXCEPT ![d].server = "waiting", ![d].id = k, ![d].route = route]
    <3>1. link' = IF there
            THEN [h EXCEPT ![Partner].calls = Append(@,
                    [type |-> "sendProof", id |-> ji, nonce |-> import.nonce, trusted |-> import.trusted])]
            ELSE [h EXCEPT ![d].calls = Append(@, Rejected(ji))]
      <4> HIDE DEF i
      <4> QED
        BY DEF onAccess
    <3>2. ji = id /\ k = i
      BY <1>3
    <3> HIDE DEF ji, id, k, i
    <3>3. h = g
      BY <3>2
    <3> HIDE DEF h, g, there
    <3> QED
      BY <3>1, <3>2, <3>3
  <2> HIDE DEF o, route, i
  <2>2. g = [e \in Devices |-> IF e = d THEN a ELSE link[e]]
    BY <1>5
  <2>3. a = x
    <3>1. DOMAIN o = {"server", "id", "up", "calls", "down", "route"} /\ o.down = l.down
      BY <1>5
    <3>2. a = [f \in DOMAIN o |-> IF f = "route" THEN route ELSE IF f = "id" THEN i
                                  ELSE IF f = "server" THEN "waiting" ELSE o[f]]
      OBVIOUS
    <3> HIDE DEF a, l
    <3> QED
      BY <3>1, <3>2
  <2> HIDE DEF g, a, x
  <2>4. g = next
    BY <2>2, <2>3
  <2> HIDE DEF next, call, no, there
  <2> QED
    BY <2>1, <2>4
<1>7. /\ link' = [e \in Devices |->
           IF e = d THEN n ELSE IF there /\ e = Partner THEN q ELSE link[e]]
      /\ there => Partner # d
  <2>1. there => Partner # d
    BY <1>1
  <2> DEFINE xx == [x EXCEPT !.calls = Append(@, no)]
             pp == [p EXCEPT !.calls = Append(@, call)]
  <2>2. CASE there
    <3>1. p = [server |-> p.server, id |-> p.id, up |-> p.up, calls |-> p.calls,
               down |-> p.down, route |-> p.route]
      BY <1>2 DEF IsLink
    <3>2. pp = q
      <4> HIDE DEF p, call
      <4> QED
        BY <3>1, CalledForm
    <3> HIDE DEF x, call
    <3>3. link' = [e \in Devices |-> IF e = d THEN x ELSE IF e = Partner THEN pp ELSE link[e]]
      <4>1. link' = [next EXCEPT ![Partner].calls = Append(@, call)]
        BY <1>6, <2>2
      <4> QED
        BY <1>2, <2>1, <2>2, <4>1
    <3> HIDE DEF pp, q
    <3> QED
      BY <2>1, <2>2, <3>2, <3>3
  <2>3. CASE ~there
    <3>1. xx = y
      <4>1. /\ x = [server |-> x.server, id |-> x.id, up |-> x.up, calls |-> x.calls,
                    down |-> x.down, route |-> x.route]
            /\ x.server = "waiting" /\ x.id = i /\ x.up = o.up /\ x.calls = o.calls
            /\ x.down = l.down /\ x.route = route
        OBVIOUS
      <4> HIDE DEF x, no
      <4>2. xx = [server |-> x.server, id |-> x.id, up |-> x.up, calls |-> Append(x.calls, no),
                  down |-> x.down, route |-> x.route]
        BY <4>1, CalledForm
      <4> HIDE DEF xx
      <4> QED
        BY <4>1, <4>2
    <3> HIDE DEF x, no
    <3>2. link' = [e \in Devices |-> IF e = d THEN xx ELSE link[e]]
      <4>1. link' = [next EXCEPT ![d].calls = Append(@, no)]
        BY <1>6, <2>3
      <4> QED
        BY <4>1
    <3> HIDE DEF xx, y
    <3> QED
      BY <2>3, <3>1, <3>2
  <2> QED
    BY <2>1, <2>2, <2>3
<1>8. id \in Ids /\ GoodCall(World', call) /\ GoodCall(World', no)
  <2>1. id \in Ids
    BY <1>3 DEF Ids
  <2>2. call.type = "sendProof" /\ call.id = id
    OBVIOUS
  <2> HIDE DEF call, id
  <2> QED
    BY <2>1, <2>2, RejectedIsGood DEF GoodCall
<1>9. /\ n.server = "waiting" /\ n.id = i /\ n.up = o.up /\ n.calls \in {o.calls, Append(o.calls, no)}
      /\ n.down = l.down /\ n.route \in {"none", "asked"} /\ (n.route # "none" => there)
      /\ n = [server |-> n.server, id |-> n.id, up |-> n.up, calls |-> n.calls,
              down |-> n.down, route |-> n.route]
  <2> HIDE DEF there, o, i, no, l
  <2>1. route \in {"none", "asked"} /\ (route # "none" => there)
    OBVIOUS
  <2> HIDE DEF route
  <2>2. CASE there
    BY <2>1, <2>2
  <2>3. CASE ~there
    BY <2>1, <2>3
  <2> QED
    BY <2>2, <2>3
<1> HIDE DEF n, call, no
<1>10. IsSeq(n.calls) /\ \A m \in Range(n.calls) : m \in Range(l.calls) \/ GoodCall(World', m)
  <2> HIDE DEF o, l
  <2>1. CASE n.calls = o.calls
    BY <1>5, <2>1
  <2>2. CASE n.calls = Append(o.calls, no)
    BY <1>5, <1>8, <2>2, LongerSeq
  <2> QED
    BY <1>9, <2>1, <2>2
<1>11. l.down = << >> /\ r.state \in {"login", "granting"} /\ r.attempt <= used.attempts
       /\ r.attempt \in 0..MaxAttempts
  <2>1. r.attempt <= used.attempts /\ r.attempt \in 0..MaxAttempts
    BY DeviceForm
  <2> QED
    BY <1>1, <1>2, <2>1, Parts DEF Phase
<1>12. World'.device[d] = r /\ World.device[d] = r /\ World'.used.attempts = i
  BY <1>1, <1>3, Parts
<1>13. GoodLink(World', d, n)
  <2>1. IsLink(n)
    BY <1>2, <1>3, <1>5, <1>9, <1>10 DEF IsLink
  <2>2. Phase(World', d, n)
    <3>1. \A m \in Range(n.up) : m \in Range(l.up)
      BY <1>5, <1>9
    <3>2. \A m \in Range(n.down) : FALSE
      BY <1>9, <1>11, EmptyIsSeq
    <3>3. r.attempt < i /\ i <= i
      BY <1>2, <1>11, AccountAssumption
    <3> HIDE DEF l, r, i
    <3> QED
      BY <1>2, <1>9, <1>11, <1>12, <3>1, <3>2, <3>3 DEF Phase
  <2>3. Contents(World', d, n)
    <3>1. /\ \A m \in Range(n.up) : m \in Range(l.up)
          /\ \A m \in Range(n.down) : m \in Range(l.down)
      BY <1>5, <1>9
    <3> QED
      BY <1>2, <1>4, <1>10, <3>1, ContentsKept
  <2>4. Ahead(World'.device[d].ring.local, n.down)
    BY <1>9, <1>11, AheadEmpty
  <2> QED
    BY <2>1, <2>2, <2>3, <2>4 DEF GoodLink
<1>14. ASSUME there
       PROVE  GoodLink(World', Partner, q) /\ q.server = p.server
  <2>1. /\ q.server = p.server /\ q.id = p.id /\ q.up = p.up /\ q.calls = Append(p.calls, call)
        /\ q.down = p.down /\ q.route = p.route
        /\ q = [server |-> q.server, id |-> q.id, up |-> q.up, calls |-> q.calls,
                down |-> q.down, route |-> q.route]
    OBVIOUS
  <2> HIDE DEF q
  <2>2. IsSeq(p.up) /\ IsSeq(p.calls) /\ p.route \in {"none", "asked", "ack"}
    BY <1>2 DEF IsLink
  <2>3. IsSeq(q.calls) /\ \A m \in Range(q.calls) : m \in Range(p.calls) \/ GoodCall(World', m)
    BY <1>8, <2>1, <2>2, LongerSeq
  <2>4. p.server # "none"
    BY <1>14
  <2> QED
    BY <1>1, <1>2, <1>4, <2>1, <2>2, <2>3, <2>4, RoutedLink
<1> HIDE DEF q, there
<1>15. Routes(link')
  <2>1. CASE there
    <3>1. link'[Partner].server = p.server /\ p.server \in {"idle", "error"}
      BY <1>2, <1>7, <1>14, <2>1 DEF there
    <3> QED
      BY <3>1 DEF Routes
  <2>2. CASE ~there
    <3>1. \A e \in Devices : link[e].route = "none"
      BY <1>2, <2>2 DEF Routes, there
    <3> QED
      BY <1>7, <1>9, <2>2, <3>1 DEF Routes
  <2> QED
    BY <2>1, <2>2
<1>16. /\ link' = [e \in Devices |-> link'[e]]
       /\ \A e \in Devices : link'[e] = link[e] \/ GoodLink(World', e, link'[e])
  BY <1>7, <1>13, <1>14
<1>17. kicked' \subseteq Ids
  BY <1>1, Invariants
<1> QED
  BY <1>1, <1>4, <1>15, <1>16, <1>17, ServerStep

--------------------------------------------------------------------------------
(* The invariant.                                                            *)

LEMMA InitialDevice ==
  ASSUME NEW w, NEW d \in Devices, NEW stale \in {0, 1}, GoodCounters(w),
         w.tables.keycount = 0, w.history.keys = [i \in {0} |-> FirstKey],
         w.device[d] =
            [state |-> "off", registered |-> d \in Members, attempt |-> 0, sendCmac |-> FALSE,
             import |-> NoImport, exports |-> {}, proofs |-> {}, prepared |-> {},
             ring |-> IF d \in Members THEN [local |-> 0, next |-> 0, keys |-> [i \in {0} |-> FirstKey]]
                      ELSE [local |-> 0, next |-> stale, keys |-> << >>]]
  PROVE  /\ GoodDevice(w, d, w.device[d])
         /\ d \in Members => w.device[d].ring.local = 0 /\ CurrentKey(w.device[d].ring) = FirstKey
<1> DEFINE r == w.device[d]
           ring == IF d \in Members THEN [local |-> 0, next |-> 0, keys |-> [i \in {0} |-> FirstKey]]
                   ELSE [local |-> 0, next |-> stale, keys |-> << >>]
           member == d \in Members
<1>1. FirstKey \in Key /\ FirstKey.index = 0
  BY AccountAssumption DEF FirstKey, Key
<1>2. /\ ring.local = 0 /\ ring.next \in Nat
      /\ ring = [local |-> ring.local, next |-> ring.next, keys |-> ring.keys]
      /\ DOMAIN ring.keys \subseteq {0} /\ \A i \in DOMAIN ring.keys : ring.keys[i] = FirstKey
      /\ d \in Members => DOMAIN ring.keys = {0} /\ ring.keys[0] = FirstKey
  <2> HIDE DEF r
  <2>1. DOMAIN << >> = {}
    OBVIOUS
  <2>2. CASE d \in Members
    <3>1. ring = [local |-> 0, next |-> 0, keys |-> [i \in {0} |-> FirstKey]]
      BY <2>2
    <3> HIDE DEF ring
    <3> QED
      BY <2>2, <3>1
  <2>3. CASE d \notin Members
    <3>1. ring = [local |-> 0, next |-> stale, keys |-> << >>]
      BY <2>3
    <3> HIDE DEF ring
    <3> QED
      BY <2>1, <2>3, <3>1
  <2> QED
    BY <2>2, <2>3
<1> HIDE DEF ring, member
<1>3. /\ r.state = "off" /\ r.registered = member /\ r.attempt = 0 /\ r.sendCmac = FALSE
      /\ r.import = NoImport /\ r.exports = {} /\ r.proofs = {} /\ r.prepared = {} /\ r.ring = ring
      /\ r = [state |-> r.state, registered |-> r.registered, attempt |-> r.attempt,
              sendCmac |-> r.sendCmac, import |-> r.import, exports |-> r.exports,
              proofs |-> r.proofs, prepared |-> r.prepared, ring |-> r.ring]
  <2>1. r = [state |-> "off", registered |-> member, attempt |-> 0, sendCmac |-> FALSE,
             import |-> NoImport, exports |-> {}, proofs |-> {}, prepared |-> {}, ring |-> ring]
    BY DEF ring, member
  <2> HIDE DEF r
  <2> QED
    BY <2>1
<1>4. r.registered <=> d \in Members
  BY <1>3 DEF member
<1> HIDE DEF r
<1>5. r.registered \in BOOLEAN
  <2>1. member \in BOOLEAN
    BY DEF member
  <2> QED
    BY <1>3, <2>1
<1>6. IsRing(ring) /\ (d \in Members => HasKey(ring, ring.local))
  BY <1>1, <1>2 DEF IsRing, HasKey
<1>7. IsDevice(r)
  <2>1. NoImport \in [nonce : 0..MaxEvents, trusted : BOOLEAN]
    BY AccountAssumption DEF NoImport
  <2>2. 0 \in 0..MaxAttempts
    BY AccountAssumption
  <2> QED
    BY <1>3, <1>4, <1>5, <1>6, <2>1, <2>2 DEF IsDevice
<1>8. GoodRing(w, d, ring)
  BY <1>1, <1>2 DEF GoodRing
<1>9. d \in Members => CurrentKey(ring) = FirstKey
  BY <1>2 DEF CurrentKey
<1>10. d \in Members => Shared(w, d, CurrentKey(ring))
  BY <1>1, <1>9 DEF Shared
<1>11. 0 <= w.used.attempts
  BY AccountAssumption DEF GoodCounters
<1>12. GoodDevice(w, d, r)
  BY <1>2, <1>3, <1>4, <1>7, <1>8, <1>10, <1>11 DEF GoodDevice
<1> QED
  BY <1>2, <1>3, <1>9, <1>12 DEF r

LEMMA InitInvariant == Init => AccountInv
<1> SUFFICES ASSUME Init PROVE AccountInv
  OBVIOUS
<1>1. PICK stale \in {0, 1} \cap (0..MaxEvents) :
       /\ device = [d \in Devices |->
            [state |-> "off", registered |-> d \in Members, attempt |-> 0, sendCmac |-> FALSE,
             import |-> NoImport, exports |-> {}, proofs |-> {}, prepared |-> {},
             ring |-> IF d \in Members THEN [local |-> 0, next |-> 0, keys |-> [i \in {0} |-> FirstKey]]
                      ELSE [local |-> 0, next |-> stale, keys |-> << >>]]]
       /\ used = [events |-> stale, exports |-> 0, attempts |-> 0]
  BY DEF Init
<1>2. /\ link = [d \in Devices |-> NoLink] /\ kicked = {}
      /\ tables = [keycount |-> 0, changes |-> {}, keymac |-> [id \in Members \X {0} |-> FirstKey]]
      /\ history = [keys |-> [i \in {0} |-> FirstKey], granted |-> {}, joined |-> {}]
  BY DEF Init
<1>3. FirstKey \in Key /\ FirstKey.index = 0
  BY AccountAssumption DEF FirstKey, Key
<1> DEFINE macs == [id \in Members \X {0} |-> FirstKey]
           keys == [i \in {0} |-> FirstKey]
<1>4. /\ DOMAIN macs = Members \X {0} /\ \A id \in DOMAIN macs : macs[id] = FirstKey
      /\ DOMAIN keys = {0} /\ keys[0] = FirstKey
  OBVIOUS
<1> HIDE DEF macs
<1>5. /\ tables.keycount = 0 /\ tables.changes = {} /\ tables.keymac = macs
      /\ tables = [keycount |-> tables.keycount, changes |-> tables.changes,
                   keymac |-> tables.keymac]
  BY <1>2 DEF macs
<1>6. /\ history.keys = keys /\ history.granted = {} /\ history.joined = {}
      /\ history = [keys |-> history.keys, granted |-> history.granted, joined |-> history.joined]
  BY <1>2
<1>7. GoodCounters(World)
  <2>1. 0 \in 0..stale /\ stale \in 0..MaxEvents /\ 0 \in 0..MaxAttempts
    BY AccountAssumption
  <2> QED
    BY <1>1, <1>6, <2>1, Parts DEF GoodCounters
<1>8. ASSUME NEW d \in Devices
      PROVE  /\ GoodDevice(World, d, device[d]) /\ device[d].state = "off" /\ device[d].attempt = 0
             /\ d \in Members => device[d].ring.local = 0 /\ CurrentKey(device[d].ring) = FirstKey
  <2>1. World.tables.keycount = 0 /\ World.history.keys = [i \in {0} |-> FirstKey]
    BY <1>5, <1>6, Parts
  <2>2. World.device[d] =
            [state |-> "off", registered |-> d \in Members, attempt |-> 0, sendCmac |-> FALSE,
             import |-> NoImport, exports |-> {}, proofs |-> {}, prepared |-> {},
             ring |-> IF d \in Members THEN [local |-> 0, next |-> 0, keys |-> [i \in {0} |-> FirstKey]]
                      ELSE [local |-> 0, next |-> stale, keys |-> << >>]]
    BY <1>1, Parts
  <2>3. device[d].state = "off" /\ device[d].attempt = 0
    BY <2>2, Parts
  <2>4. stale \in {0, 1}
    BY <1>1
  <2> QED
    BY <1>7, <2>1, <2>2, <2>3, <2>4, Parts, InitialDevice
<1>9. GoodTables(World)
  <2>1. DOMAIN macs \subseteq Ids /\ \A id \in DOMAIN macs : id[1] \in Members /\ id[2] = 0
    BY <1>4, AccountAssumption DEF Ids
  <2>2. IsTables(tables)
    BY <1>3, <1>4, <1>5, <2>1 DEF IsTables
  <2>3. ASSUME NEW id \in DOMAIN macs
        PROVE  Fits(World, id, macs[id])
    <3>1. macs[id] = FirstKey /\ id[1] \in Members /\ id[1] \in Devices /\ id[2] = 0
      BY <1>4, <2>1, AccountAssumption
    <3>2. /\ device[id[1]].attempt = 0 /\ device[id[1]].ring.local = 0
          /\ CurrentKey(device[id[1]].ring) = FirstKey
      BY <1>8, <3>1
    <3> QED
      BY <1>3, <3>1, <3>2, Parts DEF Fits
  <2> QED
    BY <1>5, <2>2, <2>3, Parts DEF GoodTables
<1>10. HistoryKeys(World)
  <2>1. 0..0 = {0}
    OBVIOUS
  <2> HIDE DEF keys
  <2> QED
    BY <1>3, <1>4, <1>5, <1>6, <2>1, Parts DEF HistoryKeys
<1>11. device = [d \in Devices |-> device[d]]
  BY <1>1
<1>12. GoodWorld(World)
  BY <1>5, <1>7, <1>8, <1>9, <1>10, <1>11, Parts DEF GoodWorld
<1>13. ASSUME NEW d \in Devices
       PROVE  GoodLink(World, d, link[d]) /\ link[d].route = "none"
  <2>1. link[d] = NoLink /\ NoLink.route = "none"
    BY <1>2 DEF NoLink
  <2> QED
    BY <1>8, <2>1, Parts, ClosedLink
<1>14. link = [d \in Devices |-> link[d]] /\ Routes(link) /\ kicked \subseteq Ids
  BY <1>2, <1>13 DEF Routes
<1> QED
  BY <1>12, <1>13, <1>14 DEF AccountInv

LEMMA NextInvariant == AccountInv /\ [Next]_vars => AccountInv'
<1> SUFFICES ASSUME AccountInv, [Next]_vars PROVE AccountInv'
  OBVIOUS
<1>1. Partner \in Devices
  BY AccountAssumption
<1>2. ASSUME NEW d \in Devices, Handler(d)
      PROVE  AccountInv'
  BY <1>2, onWelcomeStep, onGrantStep, onMacUpdateAckStep, onDeviceKeysStep, onNewKeyAckStep,
     onErrorStep DEF Handler
<1>3. ASSUME NEW d \in Devices, ServerTask(d)
      PROVE  AccountInv'
  BY <1>3, onLoginStep, onAccessStep, proofResultStep, onMacUpdateStep, onKeyChangeStep,
     onNewKeyStep, onRemoveStep, DropMessageStep DEF ServerTask
<1>4. CASE PartnerHandler
  BY <1>4, onProofStep, onAcceptAckStep DEF PartnerHandler
<1>5. CASE PartnerTask
  BY <1>5, sendProofStep, onAcceptStep, onDenyStep, acceptDoneStep DEF PartnerTask
<1>6. CASE UNCHANGED vars
  <2>1. UNCHANGED <<device, link, tables, history, used>> /\ kicked' = kicked
    BY <1>6 DEF vars
  <2> QED
    BY <2>1, Invariants, AtRest
<1>7. ASSUME NEW d \in Devices, Connect(d) \/ initKeyUpdate(d) \/ UserReconnects(d) \/ Drop(d)
      PROVE  AccountInv'
  BY <1>7, ConnectStep, initKeyUpdateStep, UserReconnectsStep, DropStep
<1>8. ASSUME NEW id \in Ids, NEW accept \in BOOLEAN, loginReply(id, accept)
      PROVE  AccountInv'
  BY <1>8, loginReplyStep
<1>9. ASSUME NEW d \in Devices, NEW id \in Ids, RemoveDevice(d, id)
      PROVE  AccountInv'
  BY <1>9, RemoveDeviceStep
<1>10. ASSUME NEW d \in Devices \ Members, NEW trusted \in BOOLEAN, ShareAccount(d, trusted)
       PROVE  AccountInv'
  BY <1>10, ShareAccountStep
<1>11. ASSUME NEW id \in Ids, forceDisconnect(id)
       PROVE  AccountInv'
  BY <1>11, forceDisconnectStep
<1> QED
  BY <1>2, <1>3, <1>4, <1>5, <1>6, <1>7, <1>8, <1>9, <1>10, <1>11 DEF Next

LEMMA Invariant == Spec => []AccountInv
<1> QED
  BY InitInvariant, NextInvariant, PTL DEF Spec

--------------------------------------------------------------------------------
(* Theorems.                                                                 *)

\* Devices, connections and the server's tables always have the shape the model
\* says; a device has a connection exactly when its state machine is in a state
\* that has one.
THEOREM AccountTyping == Spec => []TypeOK
<1>1. ASSUME AccountInv
      PROVE  TypeOK
  <2>1. ASSUME NEW d \in Devices
        PROVE  /\ IsDevice(device[d])
               /\ link[d].server \in {"none", "auth", "waiting", "idle", "error"}
               /\ link[d].server = "none" <=> device[d].state \in {"off", "failed"}
               /\ link[d].route \in {"none", "asked", "ack"}
    <3>1. IsDevice(device[d]) /\ IsLink(link[d]) /\ Phase(World, d, link[d])
      BY <1>1, Invariants
    <3>2. link[d].server = "none" <=> device[d].state \in {"off", "failed"}
      BY <3>1, Parts DEF Phase
    <3> QED
      BY <3>1, <3>2 DEF IsLink
  <2>2. used \in [events : 0..MaxEvents, exports : 0..MaxEvents, attempts : 0..MaxAttempts]
    <3>1. GoodCounters(World)
      BY <1>1, Invariants DEF GoodWorld
    <3>2. /\ used = [events |-> used.events, exports |-> used.exports, attempts |-> used.attempts]
          /\ used.events \in 0..MaxEvents /\ used.exports \in 0..used.events
          /\ used.attempts \in 0..MaxAttempts
      BY <3>1, Parts DEF GoodCounters
    <3>3. used.exports \in 0..MaxEvents
      BY <3>2, AccountAssumption
    <3> QED
      BY <3>2, <3>3
  <2>3. IsTables(tables) /\ kicked \subseteq Ids
    BY <1>1, TablesForm, Invariants
  <2> QED
    BY <2>1, <2>2, <2>3 DEF TypeOK
<1> QED
  BY <1>1, Invariant, PTL

\* There is never more than one key change for a device, and it is the one of the
\* account's current key, although tryKeyChange and updateExchangeKey are separate
\* transactions: an index that was acceptable and still is the next one was
\* accepted when no change was unconfirmed, and none has been added since (Free).
THEOREM ChangesOneAtATime == Spec => []OneChangeAtATime
<1>1. ASSUME AccountInv
      PROVE  OneChangeAtATime
  BY <1>1, TablesForm DEF OneChangeAtATime
<1> QED
  BY <1>1, Invariant, PTL

\* A key change that is the next one for a device verifies with the key it uses:
\* the receivers of a change had proved to know the key that signs it, and what
\* has been proved once stays a key the device uses or has used (Fits).
THEOREM NextChangeVerifies == Spec => []ChangesVerify
<1>1. ASSUME AccountInv
      PROVE  ChangesVerify
  <2>1. ASSUME NEW c \in tables.changes, device[c.id[1]].attempt = c.id[2],
               c.key.index = Ring(c.id[1]).local + 1
        PROVE  CurrentKey(Ring(c.id[1])) = c.verify
    <3>1. GoodTables(World)
      BY <1>1, Invariants DEF GoodWorld
    <3>2. Fits(World, c.id, c.verify) /\ GoodChange(World, c)
      BY <3>1, Parts DEF GoodTables
    <3>3. c.id[1] \in Devices /\ c.verify # NoKey /\ c.verify.index = c.key.index - 1
      <4>1. c.id \in Ids /\ c.verify \in Key /\ c.verify.index = c.key.index - 1
        BY <3>2 DEF GoodChange, KeyChange
      <4>2. NoKey \notin Key
        BY KeyRingAssumption DEF NoKey, Key
      <4> QED
        BY <4>1, <4>2 DEF Ids
    <3>4. device[c.id[1]].ring.local \in Nat
      BY <1>1, <3>3, DeviceForm
    <3>5. c.verify.index = device[c.id[1]].ring.local
      BY <2>1, <3>3, <3>4 DEF Ring
    <3> QED
      BY <2>1, <3>2, <3>3, <3>4, <3>5, Parts DEF Fits, Ring
  <2> QED
    BY <2>1 DEF ChangesVerify
<1> QED
  BY <1>1, Invariant, PTL

\* The devices of an account use the keys the server has accepted, or a key that
\* they, or the partner that granted them access, have prepared and activated
\* themselves.
THEOREM KeysStayShared == Spec => []KeysAreShared
<1>1. ASSUME AccountInv
      PROVE  KeysAreShared
  <2>1. ASSUME NEW d \in Devices, device[d].registered
        PROVE  \/ CurrentKey(Ring(d)) = history.keys[Ring(d).local]
               \/ CurrentKey(Ring(d)).maker = d
               \/ CurrentKey(Ring(d)).maker = Partner /\ d \notin Members
    <3>1. Shared(World, d, CurrentKey(Ring(d)))
      BY <1>1, <2>1, DeviceForm DEF Ring
    <3>2. CurrentKey(Ring(d)).index = Ring(d).local
      <4>1. HasKey(Ring(d), Ring(d).local)
        BY <1>1, <2>1, DeviceForm DEF Ring
      <4>2. GoodRing(World, d, Ring(d))
        BY <1>1, DeviceForm DEF Ring
      <4> QED
        BY <4>1, <4>2 DEF HasKey, GoodRing, CurrentKey
    <3> QED
      BY <3>1, <3>2, Parts DEF Shared
  <2> QED
    BY <2>1 DEF KeysAreShared
<1> QED
  BY <1>1, Invariant, PTL

\* Nobody joins the account without the agreement of the partner, whichever
\* messages, calls and routes were lost: every success the server's clients pass
\* on names an id the partner has accepted.
THEOREM NobodyJoinsUnasked == Spec => []AccessIsGranted
<1>1. ASSUME AccountInv
      PROVE  AccessIsGranted
  <2>1. GoodCounters(World)
    BY <1>1, Invariants DEF GoodWorld
  <2> QED
    BY <2>1, Parts DEF GoodCounters, AccessIsGranted
<1> QED
  BY <1>1, Invariant, PTL

================================================================================
