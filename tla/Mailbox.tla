--------------------------------- MODULE Mailbox -------------------------------
(***************************************************************************)
(* What the server promises to the devices of an account: a mailbox for    *)
(* every member.  A change that is posted stays in the box of every other  *)
(* member until that member has received it, until its sender has replaced *)
(* it by a newer change of the same dataset, or until one of the two is    *)
(* removed from the account.                                               *)
(*                                                                         *)
(* A change leaves with the last box it is in.  This takes time, in which  *)
(* its sender may share it with another member: that entry is lost.        *)
(***************************************************************************)
EXTENDS Naturals, FiniteSets

CONSTANTS Devices, Datasets

VARIABLES
  members,  \* the devices of the account
  shelf,    \* the changes that are kept, one for a device and dataset
  box,      \* box[d]: ids of the changes d has not confirmed yet
  got,      \* pairs of a device and the id of a change it has received
  issued,   \* ids smaller than this one have been given away
  closing   \* members that confirm a change, when nobody else had it in the box

mail == <<members, shelf, box, got, issued>>
vars == <<mail, closing>>

Letter == [id : Nat, device : Devices, dataset : Datasets]

TypeOK ==
  /\ members \subseteq Devices
  /\ shelf \subseteq Letter
  /\ box \in [Devices -> SUBSET Nat]
  /\ got \subseteq Devices \X Nat
  /\ issued \in Nat
  /\ closing \subseteq got

Init ==
  /\ members = Devices
  /\ shelf \subseteq [id : 1..(issued - 1), device : Devices, dataset : Datasets]
  /\ \A l, m \in shelf : (l.id = m.id \/ (l.device = m.device /\ l.dataset = m.dataset)) => l = m
  /\ \A d \in Devices : box[d] \subseteq {m.id : m \in {m \in shelf : m.device # d}}
  /\ got = {}
  /\ closing = {}

On(s, x) == {m \in shelf : m.device = s /\ m.dataset = x}
Ids(M) == {m.id : m \in M}

\* s posts a change of x to all other members, in place of its earlier one.
Post(s, x) ==
  /\ s \in members
  /\ issued' = issued + 1
  /\ box' = [d \in Devices |->
       (box[d] \ Ids(On(s, x))) \cup (IF d \in members \ {s} THEN {issued} ELSE {})]
  /\ shelf' = (shelf \ On(s, x)) \cup
       (IF members = {s} THEN {} ELSE {[id |-> issued, device |-> s, dataset |-> x]})
  /\ UNCHANGED <<members, got>>

\* s posts its change of x to the member t alone, a kept one if there is one.
Share(s, t, x) ==
  /\ {s, t} \subseteq members
  /\ IF On(s, x) = {}
       THEN /\ shelf' = shelf \cup {[id |-> issued, device |-> s, dataset |-> x]}
            /\ issued' = issued + 1
            /\ box' = [box EXCEPT ![t] = @ \cup {issued}]
       ELSE /\ box' = [box EXCEPT ![t] = @ \cup Ids(On(s, x))]
            /\ UNCHANGED <<shelf, issued>>
  /\ UNCHANGED <<members, got>>

\* A change may reach a device again, and after it has been replaced.
Receive(d, i) ==
  /\ i \in 1..(issued - 1)
  /\ got' = got \cup {<<d, i>>}
  /\ UNCHANGED <<members, shelf, box, issued>>

\* Only what a member has received is taken out of its box.
Confirm(d, i) ==
  /\ <<d, i>> \in got
  /\ i \in box[d]
  /\ box' = [box EXCEPT ![d] = @ \ {i}]
  /\ UNCHANGED <<members, shelf, got, issued>>

\* A member that has received a change finds it in no box but its own, ...
Close(d, i) ==
  /\ \A e \in Devices \ {d} : i \notin box[e]
  /\ closing' = closing \cup {<<d, i>>}
  /\ UNCHANGED mail

\* ... and takes it from the shelf, and out of all boxes.
Finish(d, i) ==
  /\ box' = [e \in Devices |-> box[e] \ {i}]
  /\ shelf' = {m \in shelf : m.id # i}
  /\ UNCHANGED <<members, got, issued>>

\* Members leave with everything they sent and everything that is for them.
Leave(D) ==
  /\ D # {}
  /\ D \subseteq members
  /\ members' = members \ D
  /\ shelf' = {m \in shelf : m.device \notin D}
  /\ box' = [d \in Devices |->
       IF d \in D THEN {} ELSE box[d] \ Ids({m \in shelf : m.device \in D})]
  /\ UNCHANGED <<got, issued>>

Handle ==
  \/ \E s \in members, x \in Datasets : Post(s, x)
  \/ \E s, t \in members, x \in Datasets : Share(s, t, x)
  \/ \E d \in Devices, i \in 1..issued : Receive(d, i) \/ Confirm(d, i)
  \/ \E p \in closing : Finish(p[1], p[2])
  \/ \E D \in SUBSET Devices : Leave(D)

\* Whoever is closing a change may come to an end of it, or give up.
Next ==
  \/ closing' \subseteq closing /\ (UNCHANGED mail \/ Handle)
  \/ \E p \in got : Close(p[1], p[2])

Spec == Init /\ [][Next]_vars
================================================================================
