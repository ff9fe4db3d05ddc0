----------------------------- MODULE UserExchange ------------------------------
(***************************************************************************)
(* UserExchangeManager: devices of one network find each other by          *)
(* datagrams and pass on exported account data.  One client's manager is   *)
(* used by the exchange, which sends exports of its account and imports    *)
(* what it has received; the peers do the same at the other end, so that   *)
(* of them only their datagrams are modelled.  Datagrams get lost, are     *)
(* repeated and overtake each other.  Names, ports and datagrams that      *)
(* cannot be read are left out.                                            *)
(***************************************************************************)
EXTENDS AccountCalls, Functions, TLC

CONSTANTS
  User,       \* the client whose manager the exchange uses
  Peers,      \* other devices of the network
  Patience    \* ticks without news until a device is dropped (5)

ASSUME UserExchangeAssumption == User \in Clients /\ Patience \in Nat

VARIABLES
  active,        \* the socket of the exchange is bound and its timer runs
  devices,       \* the listed devices with the ticks since their last news
  exchangeData,  \* the devices data was received from
  present,       \* the peers whose exchange is active
  air            \* the datagrams under way to this device

exchangeVars == <<active, devices, exchangeData>>
networkVars == <<present, air>>
vars == <<transportVars, accountCallVars, exchangeVars, networkVars>>
managerVars == <<transportVars, accountCallVars>>

NoDevices == [p \in {} |-> 0]

Init ==
  /\ AccountCallsInit
  /\ active = FALSE /\ devices = NoDevices /\ exchangeData = {}
  /\ present \in SUBSET Peers /\ air = {}

TypeOK ==
  /\ AccountCallsTypeOK
  /\ active \in BOOLEAN
  /\ DOMAIN devices \subseteq Peers /\ \A p \in DOMAIN devices : devices[p] \in 0..Patience
  /\ exchangeData \subseteq Peers /\ present \subseteq Peers
  /\ air \subseteq Peers \X {"info", "data"}

Clear == devices' = NoDevices /\ exchangeData' = {}

\* A start clears everything first and may then fail to bind its port.
startExchange ==
  /\ Exists(User)
  /\ Clear /\ active' \in BOOLEAN
  /\ UNCHANGED <<managerVars, networkVars>>

stopExchange ==
  /\ active /\ active' = FALSE /\ Clear
  /\ UNCHANGED <<managerVars, networkVars>>

\* The tick of the timer: who was not heard of is dropped with its data.
Late == {p \in DOMAIN devices : devices[p] >= Patience}
\* Mutant: nobody gets older.
SameAge(ps) == [p \in ps |-> devices[p]]
Aged(ps) == [p \in ps |-> devices[p] + 1]

timeout ==
  /\ active
  /\ devices' = Aged(DOMAIN devices \ Late)
  /\ exchangeData' = exchangeData \ Late
  /\ UNCHANGED <<managerVars, active, networkVars>>

\* A datagram, which may be delivered again.
Arrives(p, kind) == active /\ <<p, kind>> \in air /\ air' \in {air, air \ {<<p, kind>>}}

readInfo(p) ==
  /\ Arrives(p, "info") /\ devices' = (p :> 0) @@ devices
  /\ UNCHANGED <<managerVars, active, exchangeData, present>>

readData(p) ==
  /\ Arrives(p, "data") /\ exchangeData' = exchangeData \cup {p}
  /\ UNCHANGED <<managerVars, active, devices, present>>

\* The answer of the export becomes a datagram to the peer if the socket is
\* still there; nothing of this device's state depends on it.
exportTo ==
  /\ active /\ exportAccount(User)
  /\ UNCHANGED <<exchangeVars, networkVars>>

\* The data is used up, also when an import that runs refuses this one.
importFrom(p) ==
  /\ Exists(User) /\ p \in exchangeData /\ exchangeData' = exchangeData \ {p}
  /\ \/ importAccount(User)
     \/ User \in importing /\ UNCHANGED managerVars
  /\ UNCHANGED <<active, devices, networkVars>>

\* The exchange lives in the thread of its manager and ends with it.
EndUser ==
  /\ EndThread(User)
  /\ active' = FALSE /\ Clear
  /\ UNCHANGED networkVars

(***************************************************************************)
(* The network.                                                            *)
(***************************************************************************)
Send(p, kind) ==
  /\ p \in present /\ <<p, kind>> \notin air /\ air' = air \cup {<<p, kind>>}
  /\ UNCHANGED <<managerVars, exchangeVars, present>>

Lose(p, kind) ==
  /\ <<p, kind>> \in air /\ air' = air \ {<<p, kind>>}
  /\ UNCHANGED <<managerVars, exchangeVars, present>>

Toggle(p) ==
  /\ present' = IF p \in present THEN present \ {p} ELSE present \cup {p}
  /\ UNCHANGED <<managerVars, exchangeVars, air>>

Network(p) == Toggle(p) \/ \E kind \in {"info", "data"} : Send(p, kind) \/ Lose(p, kind)

Exchanging ==
  \/ startExchange \/ stopExchange \/ timeout \/ exportTo \/ EndUser
  \/ \E p \in Peers : readInfo(p) \/ readData(p) \/ importFrom(p)

Managing ==
  /\ AccountUse \/ HostLoop \/ \E c \in Clients : ClientLoop(c)
  /\ near'[User] = "gone" => near[User] = "gone"
  /\ UNCHANGED <<exchangeVars, networkVars>>

Next == Exchanging \/ Managing \/ \E p \in Peers : Network(p)

Kept == UNCHANGED <<exchangeVars, networkVars>>

(***************************************************************************)
(* Event loops handle what was posted to them, a timer that runs expires,  *)
(* a peer whose exchange is active sends its info again and again, no      *)
(* datagram stays under way for ever and of infinitely many that arrive    *)
(* not all are lost.                                                       *)
(***************************************************************************)
Fairness ==
  /\ WF_vars(HostLoop /\ Kept)
  /\ \A c \in Clients : WF_vars(ClientLoop(c) /\ Kept)
  /\ WF_vars(timeout)
  /\ \A p \in Peers : WF_vars(Lose(p, "info"))

Spec == Init /\ [][Next]_vars /\ Fairness

(***************************************************************************)
(* Properties.                                                             *)
(***************************************************************************)

\* Every connection and every call of an AccountManager comes to an end:
\* a client node whose url has a registered server is connected, also if it
\* was there before the server (the cached connections of
\* ExchangeBufferServer::registerInstance), and while the connection is
\* open every export and import gets its answer, which forgets the
\* callback.  As only MaxCalls calls are made, it says the same that again
\* and again nobody waits.  Excepted are calls made before the replica has
\* found its source, which Qt drops: their callbacks never run, and an
\* import of this kind blocks its manager until another one's import ends.
Connecting(c) == near[c] = "closed" /\ far[c] = "none" /\ hosting /\ entry = "live"
Awaited(c) ==
  \/ \E id \in exports[c] : <<"export", id>> \notin dropped
  \/ c \in importing /\ <<"import", c>> \notin dropped
CallsEnd == []<>(\A c \in Clients : ~Connecting(c) /\ (near[c] = "open" => ~Awaited(c)))

\* The list of devices follows the network, in spite of lost, repeated and
\* late datagrams and of the exchange's own stops: a peer that has stopped and
\* does not come back is dropped from the list (UserExchangeManager::timeout).
PeersAreTracked ==
  \A p \in Peers : (p \notin present) ~> (p \in present \/ p \notin DOMAIN devices)
================================================================================
