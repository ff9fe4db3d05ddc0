----------------------------- MODULE AccountCalls ------------------------------
(***************************************************************************)
(* The calls of AccountManager that have an answer.  The manager of every  *)
(* client keeps callbacks and calls AccountManagerPrivate of the engine    *)
(* through a replica; the engine answers by a signal, which every replica  *)
(* receives.  What an export or import does to the account is the subject  *)
(* of Account and KeyMaterial; here only whether it is answered matters.   *)
(***************************************************************************)
EXTENDS Transport

CONSTANTS MaxCalls   \* bound: exports and imports
ASSUME CallsAssumption == MaxCalls \in Nat

VARIABLES
  attached,   \* the clients whose replica has found its source
  listeners,  \* the clients whose replica the source knows
  exports,    \* exportActions and errorActions of every client's manager
  importing,  \* the clients whose manager has an importAction
  calls,      \* the calls that were made
  dropped     \* of those, the ones that no source was there for; for imports, the client

accountCallVars == <<attached, listeners, exports, importing, calls, dropped>>

Ids == 1..MaxCalls

AccountCallsInit ==
  /\ TransportInit
  /\ attached = {} /\ listeners = {}
  /\ exports = [c \in Clients |-> {}] /\ importing = {}
  /\ calls = 0 /\ dropped = {}

Exists(c) == near[c] \in {"closed", "open"}
Connected(c) == c \in attached /\ near[c] = "open"

\* A replica drops what it is asked for while it has no source.
CallSource(c, message, lost) ==
  /\ toHost' = IF Connected(c) THEN WriteHost(toHost, c, message) ELSE toHost
  /\ dropped' = IF Connected(c) THEN dropped ELSE dropped \cup {lost}
  /\ calls' = calls + 1
  /\ UNCHANGED <<hosting, entry, cached, near, far, toClient, attached, listeners>>

exportAccount(c) ==
  /\ Exists(c) /\ calls < MaxCalls
  /\ exports' = [exports EXCEPT ![c] = @ \cup {calls + 1}]
  /\ CallSource(c, [type |-> "export", id |-> calls + 1], <<"export", calls + 1>>)
  /\ UNCHANGED importing

\* While an import runs another one is refused at once and changes nothing.
importAccount(c) ==
  /\ Exists(c) /\ calls < MaxCalls /\ c \notin importing
  /\ importing' = importing \cup {c}
  /\ CallSource(c, [type |-> "import", id |-> 0], <<"import", c>>)
  /\ UNCHANGED exports

(***************************************************************************)
(* The source's side.                                                      *)
(***************************************************************************)
Emit(type, id) == toClient' = WriteClients(toClient, listeners, [type |-> type, id |-> id])

\* An export is answered with data or, if the device is not registered or
\* the password empty, with an error; an import with its result.
Answer(message) ==
  \/ message.type = "attach" /\ UNCHANGED toClient
  \/ message.type = "export" /\ \E type \in {"accountExportReady", "accountExportError"} : Emit(type, message.id)
  \/ message.type = "import" /\ Emit("accountImportResult", 0)

SourceReceives(c) ==
  /\ Handles(toHost[c], "receiveData") /\ toHost' = Done(toHost, c)
  /\ far[c] = "open"
  /\ LET message == Head(toHost[c]).data
     IN /\ listeners' = IF message.type = "attach" THEN listeners \cup {c} ELSE listeners
        /\ Answer(message)
  /\ UNCHANGED <<hosting, entry, cached, near, far, attached, exports, importing, calls, dropped>>

SourceLoses(c) ==
  /\ partnerClosedFar(c) /\ listeners' = listeners \ {c}
  /\ UNCHANGED <<attached, exports, importing, calls, dropped>>

(***************************************************************************)
(* The manager's side.  An identifier is unknown to the other managers; a  *)
(* result of an import is taken by every manager that waits for one.       *)
(***************************************************************************)
accountExport(c, id) == exports' = [exports EXCEPT ![c] = @ \ {id}] /\ UNCHANGED <<importing, dropped>>

accountImportResult(c) ==
  /\ importing' = importing \ {c} /\ dropped' = dropped \ {<<"import", c>>}
  /\ UNCHANGED exports

TakeMessage(c, message) ==
  \/ /\ message.type = "objects"
     /\ attached' = attached \cup {c}
     /\ toHost' = WriteHost(toHost, c, [type |-> "attach", id |-> 0])
     /\ UNCHANGED <<exports, importing, dropped>>
  \/ /\ message.type \in {"accountExportReady", "accountExportError"}
     /\ accountExport(c, message.id) /\ UNCHANGED <<attached, toHost>>
  \/ /\ message.type = "accountImportResult"
     /\ accountImportResult(c) /\ UNCHANGED <<attached, toHost>>

ReplicaReceives(c) ==
  /\ Handles(toClient[c], "receiveData") /\ toClient' = Done(toClient, c)
  /\ near[c] = "open"
  /\ TakeMessage(c, Head(toClient[c]).data)
  /\ UNCHANGED <<hosting, entry, cached, near, far, listeners, calls>>

ReplicaLoses(c) ==
  /\ partnerClosedNear(c) /\ attached' = attached \ {c}
  /\ UNCHANGED <<listeners, exports, importing, calls, dropped>>

\* The managers of a thread end with it.
EndThread(c) ==
  /\ roThreadDone(c)
  /\ attached' = attached \ {c} /\ importing' = importing \ {c}
  /\ exports' = [exports EXCEPT ![c] = {}] /\ dropped' = dropped \ {<<"import", c>>}
  /\ UNCHANGED <<listeners, calls>>

EndEngine == DestroyHost /\ listeners' = {} /\ UNCHANGED <<attached, exports, importing, calls, dropped>>

HostLoop ==
  \E c \in Clients :
    \/ addConnection(c) /\ UNCHANGED accountCallVars
    \/ SourceReceives(c) \/ SourceLoses(c)

ClientLoop(c) ==
  \/ openInteral(c) /\ UNCHANGED accountCallVars
  \/ ReplicaReceives(c) \/ ReplicaLoses(c)

\* What the application and the setups do.
AccountUse ==
  \/ prepareHostNode /\ UNCHANGED accountCallVars
  \/ EndEngine
  \/ \E c \in Clients :
       \/ acquireNode(c) /\ UNCHANGED accountCallVars
       \/ EndThread(c) \/ exportAccount(c) \/ importAccount(c)

AccountCallsNext == AccountUse \/ HostLoop \/ \E c \in Clients : ClientLoop(c)

AccountCallsTypeOK ==
  /\ attached \subseteq Clients /\ listeners \subseteq Clients /\ importing \subseteq Clients
  /\ exports \in [Clients -> SUBSET Ids] /\ calls \in 0..MaxCalls
  /\ dropped \subseteq (({"export"} \X Ids) \cup ({"import"} \X Clients))
================================================================================
