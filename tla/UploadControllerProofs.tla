------------------------- MODULE UploadControllerProofs -------------------------
(***************************************************************************)
(* Proofs about UploadController: every upload that takes a place below    *)
(* the limit on a live connection is going to be completed, and the limit  *)
(* of the server is kept.                                                  *)
(***************************************************************************)
EXTENDS UploadController, FiniteSetTheorems, SequenceTheorems, TLAPS

--------------------------------------------------------------------------------
(* The inductive invariant.                                                  *)

Holds(s, x) == \E i \in DOMAIN s : s[i] = x

\* What completes an upload: an acknowledgement, or the failed read of its data.
Answered(id) ==
  Holds(acks, id) \/ (id[2] = AnyDevice /\ Holds(queue, Call("uploadDone", id[1])))

UploadTypes ==
  /\ queue \in Seq(Calls) /\ acks \in Seq(UploadKey) /\ link \in Links
  /\ deviceUploads \subseteq Keys
  /\ ActiveIds \subseteq UploadKey
  /\ \A u, v \in active : u.id = v.id => u = v
  /\ IsFiniteSet(active) /\ Cardinality(active) <= UploadLimit

\* Already while it connects: what was started before is cleared when the
\* machine enters Active, and what a queued call starts then is ignored.
UploadInv ==
  /\ UploadTypes
  /\ link \in {"connecting", "idle"} => \A id \in ActiveIds \ Stuck : Answered(id)

--------------------------------------------------------------------------------
(* Sequences.                                                                *)

LEMMA CallsAreCalls ==
  /\ \A name \in {"changeTriggered", "uploadNext", "fatalError", "disconnected", "reconnect"} :
       Call(name, "") \in Calls
  /\ \A k \in Keys : Call("uploadDone", k) \in Calls
  BY DEF Calls, Call

LEMMA HoldsTail ==
  ASSUME NEW S, NEW s \in Seq(S), s # << >>, NEW x, Holds(s, x), x # Head(s)
  PROVE  Tail(s) \in Seq(S) /\ Holds(Tail(s), x)
<1>1. PICK i \in 1..Len(s) : s[i] = x
  BY DEF Holds
<1>2. /\ Tail(s) \in Seq(S) /\ Len(Tail(s)) = Len(s) - 1
      /\ \A j \in 1..Len(Tail(s)) : Tail(s)[j] = s[j + 1]
      /\ Head(s) = s[1] /\ Len(s) \in Nat
  BY HeadTailProperties, LenProperties
<1>3. i - 1 \in 1..Len(Tail(s)) /\ (i - 1) + 1 = i
  BY <1>1, <1>2
<1>4. DOMAIN Tail(s) = 1..Len(Tail(s))
  BY <1>2, LenProperties
<1> QED
  BY <1>1, <1>2, <1>3, <1>4 DEF Holds

LEMMA HoldsAppend ==
  ASSUME NEW S, NEW s \in Seq(S), NEW y \in S
  PROVE  /\ Append(s, y) \in Seq(S)
         /\ \A x : Holds(s, x) => Holds(Append(s, y), x)
<1>1. /\ Append(s, y) \in Seq(S) /\ Len(Append(s, y)) = Len(s) + 1
      /\ \A i \in 1..Len(s) : Append(s, y)[i] = s[i]
      /\ Len(s) \in Nat /\ DOMAIN s = 1..Len(s)
  BY AppendProperties, LenProperties
<1>2. DOMAIN Append(s, y) = 1..Len(s) + 1
  BY <1>1, LenProperties
<1> QED
  BY <1>1, <1>2 DEF Holds

LEMMA HoldsConcat ==
  ASSUME NEW S, NEW s \in Seq(S), NEW t \in Seq(S)
  PROVE  /\ s \o t \in Seq(S)
         /\ \A x : Holds(s, x) \/ Holds(t, x) => Holds(s \o t, x)
<1>1. /\ s \o t \in Seq(S) /\ Len(s \o t) = Len(s) + Len(t)
      /\ \A i \in 1..Len(s) + Len(t) :
           (s \o t)[i] = IF i <= Len(s) THEN s[i] ELSE t[i - Len(s)]
      /\ Len(s) \in Nat /\ DOMAIN s = 1..Len(s)
      /\ Len(t) \in Nat /\ DOMAIN t = 1..Len(t)
  BY ConcatProperties, LenProperties
<1>2. DOMAIN (s \o t) = 1..Len(s) + Len(t)
  BY <1>1, LenProperties
<1>3. ASSUME NEW x, Holds(s, x) PROVE Holds(s \o t, x)
  <2>1. PICK i \in 1..Len(s) : s[i] = x
    BY <1>1, <1>3 DEF Holds
  <2>2. i \in 1..Len(s) + Len(t) /\ i <= Len(s)
    BY <1>1
  <2> QED
    BY <1>1, <1>2, <2>1, <2>2 DEF Holds
<1>4. ASSUME NEW x, Holds(t, x) PROVE Holds(s \o t, x)
  <2>1. PICK i \in 1..Len(t) : t[i] = x
    BY <1>1, <1>4 DEF Holds
  <2>2. /\ Len(s) + i \in 1..Len(s) + Len(t) /\ ~(Len(s) + i <= Len(s))
        /\ (Len(s) + i) - Len(s) = i
    BY <1>1
  <2> QED
    BY <1>1, <1>2, <2>1, <2>2 DEF Holds
<1> QED
  BY <1>1, <1>3, <1>4

\* An order of a finite set lists it completely.
LEMMA OrdersAreComplete ==
  ASSUME NEW S, NEW T \in SUBSET S, IsFiniteSet(T), NEW s \in Orders(T)
  PROVE  s \in Seq(S) /\ \A x \in T : Holds(s, x)
<1>1. Cardinality(T) \in Nat
  BY FS_CardinalityType
<1> DEFINE D == 1..Cardinality(T)
<1>2. s \in [D -> T] /\ \A i, j \in D : i # j => s[i] # s[j]
  BY DEF Orders
<1>3. s \in Injection(D, T)
  BY <1>2 DEF Injection, IsInjective
<1>4. Cardinality(D) = Cardinality(T) /\ IsFiniteSet(D)
  BY <1>1, FS_Interval
<1>5. s \in Surjection(D, T)
  BY <1>1, <1>3, <1>4, FS_Injection
<1>6. s \in Seq(S) /\ DOMAIN s = D
  BY <1>1, <1>2
<1> QED
  BY <1>5, <1>6 DEF Surjection, Holds
--------------------------------------------------------------------------------
(* Starting uploads.                                                         *)

\* The ids of what waits are those of datasets, and there are finitely many.
LEMMA WaitingIds ==
  ASSUME deviceUploads \subseteq Keys
  PROVE  Waiting \subseteq UploadKey /\ IsFiniteSet(Waiting)
<1>1. Waiting \subseteq UploadKey
  BY DEF Waiting, Changes, DeviceChanges, UploadKey
<1>2. IsFiniteSet({AnyDevice, NewDevice})
  <2>1. IsFiniteSet({AnyDevice})
    BY FS_Singleton
  <2>2. IsFiniteSet({AnyDevice} \cup {NewDevice})
    BY <2>1, FS_AddElement
  <2> QED
    BY <2>2, {AnyDevice} \cup {NewDevice} = {AnyDevice, NewDevice}
<1>3. IsFiniteSet(UploadKey)
  BY <1>2, FS_Product, UploadAssumption DEF UploadKey
<1> QED
  BY <1>1, <1>3, FS_Subset

\* What is started is new, and not more than the limit leaves room for.
LEMMA StartableFits ==
  ASSUME UploadTypes, Cardinality(active) < UploadLimit, NEW fresh \in Startable
  PROVE  /\ fresh \subseteq UploadKey /\ IsFiniteSet(fresh) /\ fresh \cap ActiveIds = {}
         /\ Cardinality(active) + Cardinality(fresh) <= UploadLimit
<1>1. /\ fresh \subseteq Waiting \ ActiveIds
      /\ \E window \in SUBSET Waiting :
           Cardinality(fresh) = AtMost(UploadLimit - Cardinality(active), window \ ActiveIds)
  BY DEF Startable
<1>2. IsFiniteSet(Waiting) /\ Waiting \subseteq UploadKey
  BY WaitingIds DEF UploadTypes
<1>3. Cardinality(active) \in Nat /\ UploadLimit \in Nat
  BY FS_CardinalityType, UploadAssumption DEF UploadTypes
<1>4. \A window \in SUBSET Waiting : Cardinality(window \ ActiveIds) \in Nat
  BY <1>2, FS_Subset, FS_CardinalityType
<1>5. \A window \in SUBSET Waiting :
        AtMost(UploadLimit - Cardinality(active), window \ ActiveIds)
          <= UploadLimit - Cardinality(active)
  BY <1>3, <1>4 DEF AtMost
<1>6. Cardinality(fresh) \in Nat /\ IsFiniteSet(fresh)
  BY <1>1, <1>2, FS_Subset, FS_CardinalityType
<1>7. Cardinality(fresh) <= UploadLimit - Cardinality(active)
  BY <1>1, <1>5
<1> QED
  BY <1>1, <1>2, <1>3, <1>6, <1>7

\* The active uploads after some were started.
LEMMA ActiveGrows ==
  ASSUME UploadTypes, Cardinality(active) < UploadLimit, NEW fresh \in Startable,
         active' = active \cup {InfoFor(id) : id \in fresh}
  PROVE  /\ ActiveIds' = ActiveIds \cup fresh
         /\ \A u, v \in active' : u.id = v.id => u = v
         /\ IsFiniteSet(active') /\ Cardinality(active') <= UploadLimit
<1>1. /\ fresh \subseteq UploadKey /\ IsFiniteSet(fresh) /\ fresh \cap ActiveIds = {}
      /\ Cardinality(active) + Cardinality(fresh) <= UploadLimit
  BY StartableFits
<1>2. \A id \in fresh : InfoFor(id).id = id
  BY DEF InfoFor
<1>3. ActiveIds' = ActiveIds \cup fresh
  BY <1>2 DEF ActiveIds
<1>4. \A u, v \in active' : u.id = v.id => u = v
  <2> SUFFICES ASSUME NEW u \in active', NEW v \in active', u.id = v.id PROVE u = v
    OBVIOUS
  <2>1. CASE u \in active /\ v \in active
    BY <2>1 DEF UploadTypes
  <2>2. CASE \E a, b \in fresh : u = InfoFor(a) /\ v = InfoFor(b)
    BY <1>2, <2>2
  <2>3. ASSUME NEW a \in fresh, NEW w \in active, w.id = InfoFor(a).id PROVE FALSE
    BY <1>1, <1>2, <2>3 DEF ActiveIds
  <2> QED
    BY <2>1, <2>2, <2>3
<1> DEFINE new == {InfoFor(id) : id \in fresh}
           f == [id \in fresh |-> InfoFor(id)]
<1>5. f \in Surjection(fresh, new)
  BY DEF Surjection
<1>6. IsFiniteSet(new) /\ Cardinality(new) <= Cardinality(fresh)
  BY <1>1, <1>5, FS_Surjection
<1>7. IsFiniteSet(active) /\ IsFiniteSet(active \cap new)
  BY FS_Subset DEF UploadTypes
<1> HIDE DEF new
<1>8. /\ Cardinality(active) \in Nat /\ Cardinality(new) \in Nat
      /\ Cardinality(fresh) \in Nat /\ Cardinality(active \cap new) \in Nat
      /\ UploadLimit \in Nat
  BY <1>1, <1>6, <1>7, FS_CardinalityType, UploadAssumption
<1>9. /\ IsFiniteSet(active \cup new)
      /\ Cardinality(active \cup new)
           = Cardinality(active) + Cardinality(new) - Cardinality(active \cap new)
  BY <1>6, <1>7, FS_Union
<1>10. active' = active \cup new
  BY DEF new
<1>11. Cardinality(active \cup new) <= UploadLimit
  BY <1>1, <1>6, <1>8, <1>9
<1> QED
  BY <1>3, <1>4, <1>9, <1>10, <1>11

\* The state in which an upload can be answered: what is still called for.
Keeps(calls) == /\ calls \in Seq(Calls)
                /\ \A k \in Keys : Holds(queue, Call("uploadDone", k))
                                  => Holds(calls, Call("uploadDone", k))

\* uploadNext: what it starts is sent, has failed, or is ignored.
LEMMA UploadNextAnswers ==
  ASSUME UploadInv, NEW b \in BOOLEAN, NEW e, NEW calls, Keeps(calls),
         UploadNext(b, e, calls), deviceUploads' = deviceUploads,
         link' = link \/ (link = "connecting" /\ link' = "idle")
  PROVE  UploadInv'
<1>1. link' \in Links /\ deviceUploads' \subseteq Keys
  BY DEF UploadInv, UploadTypes, Links
<1>2. link' \in {"connecting", "idle"} => link \in {"connecting", "idle"}
  OBVIOUS
<1>3. CASE Cardinality(active) >= UploadLimit
  <2>1. queue' = calls /\ UNCHANGED <<active, ignored, acks>>
    BY <1>3 DEF UploadNext
  <2>2. UploadTypes'
    BY <1>1, <2>1 DEF UploadInv, UploadTypes, Keeps, ActiveIds
  <2>3. ASSUME link' \in {"connecting", "idle"}, NEW id \in (ActiveIds \ Stuck)'
        PROVE  Answered(id)'
    <3>1. id \in ActiveIds \ Stuck /\ id \in UploadKey
      BY <2>1, <2>3 DEF ActiveIds, Stuck, UploadInv, UploadTypes
    <3>2. Answered(id) /\ id[1] \in Keys
      BY <1>2, <2>3, <3>1 DEF UploadInv, UploadKey
    <3> QED
      BY <2>1, <3>2 DEF Answered, Keeps
  <2> QED
    BY <2>2, <2>3 DEF UploadInv
<1>4. CASE ~(Cardinality(active) >= UploadLimit)
  <2>1. PICK fresh \in Startable :
          LET failing == {id \in fresh : Failing(id)} IN
          /\ active' = active \cup {InfoFor(id) : id \in fresh}
          /\ uploadData(fresh \ failing)
          /\ \E order \in Orders(failing) :
               queue' = calls \o [i \in DOMAIN order |-> Call("uploadDone", order[i][1])]
    BY <1>4, Zenon DEF UploadNext
  <2> DEFINE failing == {id \in fresh : Failing(id)}
             sent == fresh \ failing
  <2>2. Cardinality(active) < UploadLimit
    BY <1>4, FS_CardinalityType, UploadAssumption DEF UploadInv, UploadTypes
  <2>3. fresh \subseteq UploadKey /\ IsFiniteSet(fresh)
    BY <2>2, StartableFits DEF UploadInv
  <2>4. IsFiniteSet(failing) /\ IsFiniteSet(sent)
    BY <2>3, FS_Subset
  <2>5. PICK order \in Orders(failing) :
          queue' = calls \o [i \in DOMAIN order |-> Call("uploadDone", order[i][1])]
    BY <2>1
  <2>6. /\ queue' \in Seq(Calls)
        /\ \A c : Holds(calls, c) => Holds(queue', c)
        /\ \A id \in failing : Holds(queue', Call("uploadDone", id[1]))
    <3> DEFINE done == [i \in DOMAIN order |-> Call("uploadDone", order[i][1])]
    <3>1. order \in Seq(UploadKey) /\ \A id \in failing : Holds(order, id)
      BY <2>3, <2>4, OrdersAreComplete
    <3>2. Len(order) \in Nat /\ DOMAIN order = 1..Len(order)
          /\ \A i \in 1..Len(order) : order[i] \in UploadKey
      BY <3>1, LenProperties, ElementOfSeq
    <3>3. \A i \in 1..Len(order) : Call("uploadDone", order[i][1]) \in Calls
      BY <3>2, CallsAreCalls DEF UploadKey
    <3>4. done \in Seq(Calls) /\ DOMAIN done = 1..Len(order)
      BY <3>2, <3>3
    <3>5. \A id \in failing : Holds(done, Call("uploadDone", id[1]))
      BY <3>1, <3>2, <3>4 DEF Holds
    <3>6. queue' = calls \o done
      BY <2>5
    <3> HIDE DEF done
    <3> QED
      BY <3>4, <3>5, <3>6, HoldsConcat DEF Keeps
  <2>7. PICK sending \in Orders(sent) :
          acks' = IF link' = "idle" THEN acks \o sending ELSE acks
    BY <2>1 DEF uploadData
  <2>8. ignored' = IF isIdle' THEN ignored ELSE ignored \cup sent
    BY <2>1 DEF uploadData
  <2>9. /\ acks' \in Seq(UploadKey)
        /\ \A id : Holds(acks, id) => Holds(acks', id)
        /\ link' = "idle" => \A id \in sent : Holds(acks', id)
    <3>1. sending \in Seq(UploadKey) /\ \A id \in sent : Holds(sending, id)
      BY <2>3, <2>4, OrdersAreComplete
    <3>2. acks \in Seq(UploadKey)
      BY DEF UploadInv, UploadTypes
    <3> QED
      BY <2>7, <3>1, <3>2, HoldsConcat
  <2>10. /\ ActiveIds' = ActiveIds \cup fresh
         /\ \A u, v \in active' : u.id = v.id => u = v
         /\ IsFiniteSet(active') /\ Cardinality(active') <= UploadLimit
    BY <2>1, <2>2, ActiveGrows DEF UploadInv
  <2>11. UploadTypes'
    BY <1>1, <2>3, <2>6, <2>9, <2>10 DEF UploadInv, UploadTypes
  <2>12. ASSUME link' \in {"connecting", "idle"}, NEW id \in (ActiveIds \ Stuck)'
         PROVE  Answered(id)'
    <3>1. id \in ActiveIds' /\ id \notin ignored' /\ ~(id[2] = NewDevice /\ id[1] \in Unreadable)
      BY <2>12 DEF Stuck
    <3>2. CASE id \in ActiveIds
      <4>1. id \notin ignored
        BY <2>8, <3>1
      <4>2. Answered(id) /\ id \in UploadKey
        BY <1>2, <2>12, <3>1, <3>2, <4>1 DEF UploadInv, UploadTypes, Stuck
      <4> QED
        BY <2>6, <2>9, <4>2 DEF Answered, Keeps, UploadKey
    <3>3. CASE id \in failing
      <4>1. id[2] = AnyDevice
        BY <2>3, <3>1, <3>3 DEF UploadKey, Failing
      <4> QED
        BY <2>6, <3>3, <4>1 DEF Answered
    <3>4. CASE id \in sent
      <4>1. isIdle'
        BY <2>8, <3>1, <3>4
      <4>2. link' = "idle"
        BY <2>12, <4>1 DEF isIdle
      <4> QED
        BY <2>9, <3>4, <4>2 DEF Answered
    <3> QED
      BY <2>10, <3>1, <3>2, <3>3, <3>4
  <2> QED
    BY <2>11, <2>12 DEF UploadInv
<1> QED
  BY <1>3, <1>4

--------------------------------------------------------------------------------
(* Completing uploads, and steps that leave them alone.                      *)

\* An upload that is done, or that is no longer active, needs no answer.
LEMMA UploadDoneAnswers ==
  ASSUME UploadInv, NEW id \in UploadKey, NEW calls, calls \in Seq(Calls),
         \A k \in Keys : <<k, AnyDevice>> # id /\ Holds(queue, Call("uploadDone", k))
                           => Holds(calls, Call("uploadDone", k)),
         acks' \in Seq(UploadKey),
         \A x \in UploadKey : x # id /\ Holds(acks, x) => Holds(acks', x),
         UploadDone(id, calls), ignored' = ignored, link' = link
  PROVE  UploadInv'
<1>1. /\ queue' \in Seq(Calls)
      /\ \A k \in Keys : <<k, AnyDevice>> # id /\ Holds(queue, Call("uploadDone", k))
                           => Holds(queue', Call("uploadDone", k))
  <2>1. queue' = calls \/ queue' = Append(calls, Call("uploadNext", ""))
    BY DEF UploadDone
  <2>2. /\ Append(calls, Call("uploadNext", "")) \in Seq(Calls)
        /\ \A x : Holds(calls, x) => Holds(Append(calls, Call("uploadNext", "")), x)
    BY CallsAreCalls, HoldsAppend
  <2> QED
    BY <2>1, <2>2
<1>2. /\ deviceUploads' \subseteq Keys
      /\ active' \subseteq active /\ ActiveIds' \subseteq ActiveIds \ {id}
  <2>1. CASE id \notin ActiveIds
    BY <2>1 DEF UploadDone, UploadInv, UploadTypes, ActiveIds
  <2>2. CASE id \in ActiveIds
    <3>1. PICK info \in {u \in active : u.id = id} : active' = active \ {info}
      BY <2>2 DEF UploadDone
    <3>2. deviceUploads' \subseteq deviceUploads
      BY <2>2 DEF UploadDone
    <3>3. \A u \in active' : u \in active /\ u.id # id
      BY <3>1 DEF UploadInv, UploadTypes
    <3> QED
      BY <3>1, <3>2, <3>3 DEF UploadInv, UploadTypes, ActiveIds
  <2> QED
    BY <2>1, <2>2
<1>3. IsFiniteSet(active') /\ Cardinality(active') <= UploadLimit
  <2>1. IsFiniteSet(active') /\ Cardinality(active') <= Cardinality(active)
    BY <1>2, FS_Subset DEF UploadInv, UploadTypes
  <2>2. {Cardinality(active), Cardinality(active')} \subseteq Nat /\ UploadLimit \in Nat
    BY <2>1, FS_CardinalityType, UploadAssumption DEF UploadInv, UploadTypes
  <2> QED
    BY <2>1, <2>2 DEF UploadInv, UploadTypes
<1>4. UploadTypes'
  BY <1>1, <1>2, <1>3 DEF UploadInv, UploadTypes
<1>5. ASSUME link' \in {"connecting", "idle"}, NEW x \in (ActiveIds \ Stuck)'
      PROVE  Answered(x)'
  <2>1. x \in ActiveIds \ Stuck /\ x \in UploadKey /\ x # id
    BY <1>2, <1>5 DEF Stuck, UploadInv, UploadTypes
  <2>2. Answered(x)
    BY <1>5, <2>1 DEF UploadInv
  <2>3. x[1] \in Keys /\ x = <<x[1], x[2]>>
    BY <2>1 DEF UploadKey
  <2> QED
    BY <1>1, <2>1, <2>2, <2>3 DEF Answered
<1> QED
  BY <1>4, <1>5 DEF UploadInv

\* A step that starts and completes nothing, on a connection that goes on or ends.
LEMMA UploadsKept ==
  ASSUME UploadInv, active' = active, Keeps(queue'), acks' \in Seq(UploadKey),
         link' \in Links, deviceUploads' \subseteq Keys,
         link' \in {"connecting", "idle"} =>
           link \in {"connecting", "idle"} /\ acks' = acks /\ ignored' = ignored
  PROVE  UploadInv'
<1>1. ActiveIds' = ActiveIds
  BY DEF ActiveIds
<1>2. UploadTypes'
  BY <1>1 DEF UploadInv, UploadTypes, Keeps
<1>3. ASSUME link' \in {"connecting", "idle"}, NEW id \in (ActiveIds \ Stuck)'
      PROVE  Answered(id)'
  <2>1. id \in ActiveIds \ Stuck /\ id \in UploadKey
    BY <1>1, <1>3 DEF Stuck, UploadInv, UploadTypes
  <2>2. Answered(id) /\ id[1] \in Keys
    BY <1>3, <2>1 DEF UploadInv, UploadKey
  <2> QED
    BY <1>3, <2>2 DEF Answered, Keeps
<1> QED
  BY <1>2, <1>3 DEF UploadInv

\* A step that clears the uploads.
LEMMA UploadsCleared ==
  ASSUME UploadInv, active' = {}, queue' \in Seq(Calls), acks' \in Seq(UploadKey),
         link' \in Links, deviceUploads' \subseteq Keys
  PROVE  UploadInv'
<1>1. ActiveIds' = {}
  BY DEF ActiveIds
<1>2. IsFiniteSet(active') /\ Cardinality(active') <= UploadLimit
  BY FS_EmptySet, UploadAssumption
<1>3. UploadTypes'
  BY <1>1, <1>2 DEF UploadTypes
<1> QED
  BY <1>1, <1>3 DEF UploadInv

\* A posted call takes nothing out of the queue.
LEMMA PostKeeps ==
  ASSUME UploadInv,
         NEW name \in {"changeTriggered", "uploadNext", "fatalError", "disconnected",
                       "reconnect"},
         queue' = Append(queue, Call(name, ""))
  PROVE  Keeps(queue')
  BY CallsAreCalls, HoldsAppend DEF Keeps, UploadInv, UploadTypes

LEMMA QueueKeeps ==
  ASSUME UploadInv
  PROVE  Keeps(queue) /\ (queue' = queue => Keeps(queue'))
  BY DEF Keeps, UploadInv, UploadTypes

\* Of the calls that are run only uploadDone completes an upload.
LEMMA TakeKeeps ==
  ASSUME UploadInv, NEW name, Take(name), name # "uploadDone"
  PROVE  Keeps(Tail(queue))
<1>1. queue \in Seq(Calls) /\ queue # << >>
  BY DEF UploadInv, UploadTypes, Take
<1>2. \A k \in Keys : Call("uploadDone", k) # Head(queue)
  BY DEF Take, Call
<1>3. Tail(queue) \in Seq(Calls)
  BY <1>1
<1> QED
  BY <1>1, <1>2, <1>3, HoldsTail DEF Keeps

--------------------------------------------------------------------------------
(* The steps of the store.                                                   *)

LEMMA EditRowAnswers ==
  ASSUME UploadInv, NEW k, NEW newRow, EditRow(k, newRow),
         Triggered \/ queue' = queue
  PROVE  UploadInv'
<1>1. Keeps(queue')
  BY PostKeeps, QueueKeeps DEF Triggered
<1>2. UNCHANGED <<deviceUploads, active, ignored, link, acks>>
  BY DEF EditRow, controllerVars, linkVars, serverVars
<1> QED
  BY <1>1, <1>2, UploadsKept DEF UploadInv, UploadTypes

LEMMA StoreStepAnswers ==
  ASSUME UploadInv, StoreStep
  PROVE  UploadInv'
<1>1. CASE AddDevice
  <2>1. Keeps(queue')
    BY <1>1, PostKeeps, QueueKeeps DEF AddDevice, Triggered
  <2>2. UNCHANGED <<active, ignored, link, acks>> /\ deviceUploads' \subseteq Keys
    BY <1>1 DEF AddDevice, controllerVars, linkVars, serverVars
  <2> QED
    BY <2>1, <2>2, UploadsKept DEF UploadInv, UploadTypes
<1>2. ASSUME NEW k \in Keys, Save(k) PROVE UploadInv'
  BY <1>2, EditRowAnswers DEF Save
<1>3. ASSUME NEW k \in Keys, Remove(k) PROVE UploadInv'
  BY <1>3, EditRowAnswers DEF Remove
<1>4. ASSUME NEW k \in Keys, Merge(k) PROVE UploadInv'
  <2>1. PICK newRow : EditRow(k, newRow) /\ (Triggered \/ queue' = queue)
    BY <1>4 DEF Merge
  <2> QED
    BY <2>1, EditRowAnswers
<1> QED
  BY <1>1, <1>2, <1>3, <1>4 DEF StoreStep

--------------------------------------------------------------------------------
(* The steps of the event loop.                                              *)

LEMMA RunChangeTriggeredAnswers ==
  ASSUME UploadInv, RunChangeTriggered
  PROVE  UploadInv'
<1>1. Keeps(Tail(queue))
  BY TakeKeeps DEF RunChangeTriggered
<1>2. link' = link /\ deviceUploads' = deviceUploads
  BY DEF RunChangeTriggered, linkVars, storeVars
<1>3. CASE uploading
  <2>1. UploadNext(active = {}, engine, Tail(queue))
    BY <1>3 DEF RunChangeTriggered
  <2> DEFINE b == active = {}
  <2>2. b \in BOOLEAN /\ UploadNext(b, engine, Tail(queue))
    BY <2>1
  <2> HIDE DEF b
  <2> QED
    BY <1>1, <1>2, <2>2, UploadNextAnswers
<1>4. CASE ~uploading
  <2>1. queue' = Tail(queue) /\ UNCHANGED <<active, ignored, acks>>
    BY <1>4 DEF RunChangeTriggered
  <2> QED
    BY <1>1, <1>2, <2>1, UploadsKept DEF UploadInv, UploadTypes
<1> QED
  BY <1>3, <1>4

LEMMA RunUploadNextAnswers ==
  ASSUME UploadInv, RunUploadNext
  PROVE  UploadInv'
<1>1. Keeps(Tail(queue))
  BY TakeKeeps DEF RunUploadNext
<1>2. link' = link /\ deviceUploads' = deviceUploads
  BY DEF RunUploadNext, linkVars, storeVars
<1>3. UploadNext(FALSE, engine, Tail(queue))
  BY DEF RunUploadNext
<1> QED
  BY <1>1, <1>2, <1>3, UploadNextAnswers

\* The call that is run completes the upload that it names.
LEMMA RunUploadDoneAnswers ==
  ASSUME UploadInv, RunUploadDone
  PROVE  UploadInv'
<1> DEFINE id == <<Head(queue).arg, AnyDevice>>
<1>1. /\ queue \in Seq(Calls) /\ queue # << >> /\ Head(queue).call = "uploadDone"
      /\ acks \in Seq(UploadKey)
  BY DEF RunUploadDone, Take, UploadInv, UploadTypes
<1>2. Head(queue) \in Calls /\ Tail(queue) \in Seq(Calls)
  BY <1>1
<1>3. Head(queue).arg \in Keys /\ Head(queue) = Call("uploadDone", Head(queue).arg)
  <2>1. \A name \in {"changeTriggered", "uploadNext", "fatalError", "disconnected",
                    "reconnect"} : Call(name, "").call # "uploadDone"
    BY DEF Call
  <2>2. PICK k \in Keys : Head(queue) = Call("uploadDone", k)
    BY <1>1, <1>2, <2>1 DEF Calls
  <2> QED
    BY <2>2 DEF Call
<1>4. id \in UploadKey
  BY <1>3 DEF UploadKey
<1>5. ASSUME NEW k \in Keys, <<k, AnyDevice>> # id, Holds(queue, Call("uploadDone", k))
      PROVE  Holds(Tail(queue), Call("uploadDone", k))
  <2>1. Call("uploadDone", k) # Head(queue)
    BY <1>3, <1>5 DEF Call
  <2> QED
    BY <1>1, <1>5, <2>1, HoldsTail
<1>6. /\ UploadDone(id, Tail(queue))
      /\ UNCHANGED <<ignored, link, acks>>
  BY DEF RunUploadDone, linkVars, serverVars
<1> HIDE DEF id
<1> QED
  BY <1>1, <1>2, <1>4, <1>5, <1>6, UploadDoneAnswers

\* Leaving and entering Active.
LEMMA LeaveActiveAnswers ==
  ASSUME UploadInv, NEW newLink \in Links \ {"connecting", "idle"}, LeaveActive(newLink),
         Keeps(queue'), deviceUploads' = deviceUploads
  PROVE  UploadInv'
<1>1. link' = newLink /\ acks' = << >> /\ << >> \in Seq(UploadKey)
  BY DEF LeaveActive
<1>2. active' = active \/ active' = {}
  BY DEF LeaveActive, ClearUploads, controllerVars
<1> QED
  BY <1>1, <1>2, UploadsKept, UploadsCleared DEF Keeps, UploadInv, UploadTypes

LEMMA EnterActiveAnswers ==
  ASSUME UploadInv, EnterActive, Keeps(queue'), deviceUploads' = deviceUploads
  PROVE  UploadInv'
<1>1. link' \in Links /\ acks' = acks /\ active' = {}
  BY DEF EnterActive, ClearUploads, serverVars, Links
<1> QED
  BY <1>1, UploadsCleared DEF Keeps, UploadInv, UploadTypes

LEMMA RunReconnectAnswers ==
  ASSUME UploadInv, RunReconnect
  PROVE  UploadInv'
<1>1. Keeps(queue') /\ deviceUploads' = deviceUploads
  BY TakeKeeps DEF RunReconnect, storeVars
<1>2. "reconnecting" \in Links \ {"connecting", "idle"}
  BY DEF Links
<1>3. CASE link \in {"off", "retry"}
  BY <1>1, <1>3, EnterActiveAnswers DEF RunReconnect, Active
<1>4. CASE link \in Active
  BY <1>1, <1>2, <1>4, LeaveActiveAnswers DEF RunReconnect, Active
<1>5. CASE link \in {"failing", "reconnecting"}
  <2>1. link' = "reconnecting" /\ UNCHANGED <<active, ignored, acks>>
    BY <1>5 DEF RunReconnect, Active, controllerVars, serverVars
  <2> QED
    BY <1>1, <1>2, <2>1, UploadsKept DEF UploadInv, UploadTypes
<1> QED
  BY <1>3, <1>4, <1>5 DEF UploadInv, UploadTypes, Links, Active

LEMMA RunFatalErrorAnswers ==
  ASSUME UploadInv, RunFatalError
  PROVE  UploadInv'
<1>1. Keeps(queue') /\ deviceUploads' = deviceUploads
  BY TakeKeeps DEF RunFatalError, storeVars
<1>2. CASE link \in Active
  <2>1. "failing" \in Links \ {"connecting", "idle"}
    BY DEF Links
  <2> QED
    BY <1>1, <1>2, <2>1, LeaveActiveAnswers DEF RunFatalError
<1>3. CASE link \notin Active
  <2>1. UNCHANGED <<link, active, ignored, acks>>
    BY <1>3 DEF RunFatalError, controllerVars, serverVars
  <2> QED
    BY <1>1, <2>1, UploadsKept DEF UploadInv, UploadTypes
<1> QED
  BY <1>2, <1>3

LEMMA RunDisconnectedAnswers ==
  ASSUME UploadInv, RunDisconnected
  PROVE  UploadInv'
<1>1. Keeps(queue') /\ deviceUploads' = deviceUploads
  BY TakeKeeps DEF RunDisconnected, storeVars
<1>2. CASE link \in Active
  <2>1. "retry" \in Links \ {"connecting", "idle"}
    BY DEF Links
  <2> QED
    BY <1>1, <1>2, <2>1, LeaveActiveAnswers DEF RunDisconnected, Active
<1>3. CASE link = "reconnecting"
  BY <1>1, <1>3, EnterActiveAnswers DEF RunDisconnected, Active
<1>4. CASE link \in {"failing", "off", "retry"}
  <2>1. link' \in Links \ {"connecting", "idle"} /\ UNCHANGED <<active, ignored, acks>>
    BY <1>4 DEF RunDisconnected, Active, controllerVars, serverVars, Links
  <2> QED
    BY <1>1, <2>1, UploadsKept DEF UploadInv, UploadTypes
<1> QED
  BY <1>2, <1>3, <1>4 DEF UploadInv, UploadTypes, Links, Active

LEMMA LoopStepAnswers ==
  ASSUME UploadInv, LoopStep
  PROVE  UploadInv'
  BY RunChangeTriggeredAnswers, RunUploadNextAnswers, RunUploadDoneAnswers,
     RunReconnectAnswers, RunFatalErrorAnswers, RunDisconnectedAnswers
  DEF LoopStep

--------------------------------------------------------------------------------
(* What arrives from the connection and from timers.                         *)

LEMMA RemoteReadyAnswers ==
  ASSUME UploadInv, RemoteReady, deviceUploads' = deviceUploads,
         link' = link \/ (link = "connecting" /\ link' = "idle")
  PROVE  UploadInv'
<1>1. Keeps(queue) /\ (queue' = queue => Keeps(queue'))
  BY QueueKeeps
<1>2. CASE engine.state = "error"
  <2>1. UNCHANGED <<active, ignored, acks, queue>> /\ link' \in Links
    BY <1>2 DEF RemoteReady, controllerVars, UploadInv, UploadTypes, Links
  <2> QED
    BY <1>1, <2>1, UploadsKept DEF UploadInv, UploadTypes
<1>3. CASE engine.state # "error"
  <2>1. UploadNext(TRUE, Announce(engine), queue)
    BY <1>3 DEF RemoteReady
  <2> QED
    BY <1>1, <2>1, UploadNextAnswers
<1> QED
  BY <1>2, <1>3

LEMMA RemoteReadyWithChangesAnswers ==
  ASSUME UploadInv, RemoteReadyWithChanges, UNCHANGED <<deviceUploads, acks, queue>>,
         link' = link \/ (link = "connecting" /\ link' = "idle")
  PROVE  UploadInv'
<1>1. Keeps(queue')
  BY QueueKeeps
<1>2. UNCHANGED <<active, ignored>> /\ link' \in Links
  BY DEF RemoteReadyWithChanges, controllerVars, UploadInv, UploadTypes, Links
<1> QED
  BY <1>1, <1>2, UploadsKept DEF UploadInv, UploadTypes

LEMMA OnChangeAckAnswers ==
  ASSUME UploadInv, OnChangeAck
  PROVE  UploadInv'
<1>1. acks \in Seq(UploadKey) /\ acks # << >> /\ acks' = Tail(acks)
  BY DEF OnChangeAck, UploadInv, UploadTypes
<1>2. Head(acks) \in UploadKey /\ acks' \in Seq(UploadKey)
  BY <1>1
<1>3. \A x \in UploadKey : x # Head(acks) /\ Holds(acks, x) => Holds(acks', x)
  BY <1>1, HoldsTail
<1>4. UploadDone(Head(acks), queue) /\ UNCHANGED <<ignored, link>>
  BY DEF OnChangeAck, linkVars
<1>5. queue \in Seq(Calls)
  BY DEF UploadInv, UploadTypes
<1> QED
  BY <1>2, <1>3, <1>4, <1>5, UploadDoneAnswers

LEMMA LinkStepAnswers ==
  ASSUME UploadInv, LinkStep \/ OnLastChanged \/ ChangesAnnounced \/ resync
  PROVE  UploadInv'
<1>1. ASSUME NEW hasChanges \in BOOLEAN, Welcome(hasChanges) PROVE UploadInv'
  <2>1. link = "connecting" /\ link' = "idle" /\ deviceUploads' = deviceUploads
    BY <1>1 DEF Welcome, storeVars
  <2> QED
    BY <1>1, <2>1, RemoteReadyAnswers, RemoteReadyWithChangesAnswers DEF Welcome
<1>2. CASE OnLastChanged
  BY <1>2, RemoteReadyAnswers DEF OnLastChanged, linkVars, storeVars
<1>3. CASE ChangesAnnounced \/ resync
  BY <1>3, RemoteReadyWithChangesAnswers DEF ChangesAnnounced, resync, linkVars, storeVars
<1>4. CASE SocketClosed
  <2>1. Keeps(queue') /\ UNCHANGED <<deviceUploads, active, ignored, link, acks>>
    BY <1>4, PostKeeps DEF SocketClosed, Post, storeVars, controllerVars, linkVars, serverVars
  <2> QED
    BY <2>1, UploadsKept DEF UploadInv, UploadTypes
<1>5. CASE RetryTimeout
  <2>1. Keeps(queue') /\ UNCHANGED <<deviceUploads, active, ignored, link, acks>>
    BY <1>5, PostKeeps, QueueKeeps DEF RetryTimeout, Post, storeVars, controllerVars, serverVars
  <2> QED
    BY <2>1, UploadsKept DEF UploadInv, UploadTypes
<1> QED
  BY <1>1, <1>2, <1>3, <1>4, <1>5 DEF LinkStep

LEMMA FailureStepAnswers ==
  ASSUME UploadInv, FailureStep
  PROVE  UploadInv'
<1>1. Keeps(queue')
  BY PostKeeps DEF FailureStep, ControllerError, LoseConnection, Reconnect,
       OperationTimeout, Post
<1>2. deviceUploads' = deviceUploads
  BY DEF FailureStep, ControllerError, LoseConnection, Reconnect, OperationTimeout, storeVars
<1>3. CASE ControllerError
  <2>1. active' = {} /\ UNCHANGED <<link, acks>>
    BY <1>3 DEF ControllerError, ClearUploads, linkVars, serverVars
  <2> QED
    BY <1>1, <1>2, <2>1, UploadsCleared DEF Keeps, UploadInv, UploadTypes
<1>4. CASE LoseConnection
  <2>1. active' = active /\ link' = "dead" /\ acks' = << >>
    BY <1>4 DEF LoseConnection, controllerVars
  <2>2. acks' \in Seq(UploadKey) /\ link' \in Links
    BY <2>1 DEF Links
  <2> QED
    BY <1>1, <1>2, <2>1, <2>2, UploadsKept DEF UploadInv, UploadTypes
<1>5. CASE Reconnect \/ OperationTimeout
  <2>1. UNCHANGED <<active, ignored, link, acks>>
    BY <1>5 DEF Reconnect, OperationTimeout, controllerVars, linkVars, serverVars
  <2> QED
    BY <1>1, <1>2, <2>1, UploadsKept DEF UploadInv, UploadTypes
<1> QED
  BY <1>3, <1>4, <1>5 DEF FailureStep

--------------------------------------------------------------------------------
(* The theorems.                                                             *)

LEMMA UploadInitially == Init => UploadInv
<1> SUFFICES ASSUME Init PROVE UploadInv
  OBVIOUS
<1>1. ActiveIds = {}
  BY DEF Init, ActiveIds
<1>2. IsFiniteSet(active) /\ Cardinality(active) <= UploadLimit
  BY FS_EmptySet, UploadAssumption DEF Init
<1>3. queue \in Seq(Calls) /\ acks \in Seq(UploadKey) /\ link \in Links
  BY DEF Init, Links
<1> QED
  BY <1>1, <1>2, <1>3 DEF Init, UploadInv, UploadTypes

LEMMA UploadStep == UploadInv /\ [Next]_vars => UploadInv'
<1> SUFFICES ASSUME UploadInv, [Next]_vars PROVE UploadInv'
  OBVIOUS
<1>1. CASE UNCHANGED vars
  <2>1. UNCHANGED <<deviceUploads, active, ignored, link, acks, queue>>
    BY <1>1 DEF vars, storeVars, controllerVars, linkVars, serverVars
  <2> QED
    BY <2>1, QueueKeeps, UploadsKept DEF UploadInv, UploadTypes
<1> QED
  BY <1>1, StoreStepAnswers, LoopStepAnswers, LinkStepAnswers, FailureStepAnswers,
     OnChangeAckAnswers DEF Next

THEOREM UploadInvariance == Spec => []UploadInv
  BY UploadInitially, UploadStep, PTL DEF Spec

\* Every upload that occupies a place below the limit on a live connection was
\* sent on this connection or is about to be completed because its data could
\* not be read, whatever fails, reconnects or is edited in between; only the
\* uploads that Stuck names keep their places (ChangeController::uploadNext,
\* RemoteConnector::uploadData).
THEOREM UploadsAreAnswered == Spec => []ActiveIsAnswered
<1>1. UploadInv => ActiveIsAnswered
  BY DEF UploadInv, ActiveIsAnswered, Answered, Holds
<1> QED
  BY <1>1, UploadInvariance, PTL

\* A device never has more uploads in flight than the server has allowed, and
\* never the same upload twice (ChangeController::canUpload).
THEOREM LimitIsKept ==
  Spec => [](/\ Cardinality(active) <= UploadLimit
             /\ \A u, v \in active : u.id = v.id => u = v)
<1>1. UploadInv => /\ Cardinality(active) <= UploadLimit
                   /\ \A u, v \in active : u.id = v.id => u = v
  BY DEF UploadInv, UploadTypes
<1> QED
  BY <1>1, UploadInvariance, PTL
================================================================================
