------------------------------ MODULE SyncRequests -----------------------------
(***************************************************************************)
(* Requests to be told when a synchronization is done: SyncManager, a      *)
(* replica in any thread or process, and SyncManagerPrivate, its source on *)
(* the engine's thread.  A request is posted to the engine, which answers  *)
(* at once or when its public state changes.  The engine is its public     *)
(* state and the changes ExchangeEngine makes to it.                       *)
(***************************************************************************)
EXTENDS Naturals, Sequences

CONSTANTS
  MaxRequests,  \* bound: requests
  MaxMoves      \* bound: changes of the engine's state that nobody asked for

ASSUME RequestsAssumption == MaxRequests \in Nat /\ MaxMoves \in Nat

VARIABLES
  public,    \* ExchangeEngine::_state
  moves,
  manager,   \* the SyncManager and whether its replica is initialized
  requests   \* syncActions and initActions, and what has become of the requests

requestVars == <<public, moves, manager, requests>>

SyncStates ==
  {"Initializing", "Downloading", "Uploading", "Synchronized", "Error", "Disconnected"}

Request ==
  [downloadOnly : BOOLEAN, triggerSync : BOOLEAN,
   stage : {"init", "posted", "watching", "reached", "done"}]

RequestsTypeOK ==
  /\ public \in SyncStates /\ moves \in 0..MaxMoves
  /\ manager \in {"none", "connecting", "ready"}
  /\ requests \in Seq(Request)

RequestsInit ==
  /\ public = "Initializing" /\ moves = 0
  /\ manager = "none"
  /\ requests = << >>

\* The states that end a request, if they are reached while it is watched.
Ends(request, state) ==
  state \in {"Synchronized", "Error", "Disconnected"} \/ (state = "Uploading" /\ request.downloadOnly)

\* syncStateChanged: the slots run at once.
Told(state) ==
  [k \in DOMAIN requests |->
    IF requests[k].stage = "watching" /\ Ends(requests[k], state)
    THEN [requests[k] EXCEPT !.stage = "reached"] ELSE requests[k]]

--------------------------------------------------------------------------------
(* The engine.                                                               *)

\* remoteEvent, uploadingChanged and controllerError.
CanBecome(state) ==
  /\ state # public
  /\ public = "Error" => state = "Initializing"
  /\ state = "Synchronized" => public = "Uploading"

Moves ==
  /\ moves < MaxMoves /\ moves' = moves + 1
  /\ \E state \in SyncStates :
       CanBecome(state) /\ public' = state /\ requests' = Told(state)
  /\ UNCHANGED manager

\* What a session or an attempt to connect comes to in the end.
Settles ==
  /\ \/ public = "Initializing" /\ public' \in {"Disconnected", "Error", "Uploading", "Downloading"}
     \/ public = "Downloading" /\ public' = "Uploading"
     \/ public = "Uploading" /\ public' = "Synchronized"
  /\ requests' = Told(public')
  /\ UNCHANGED <<moves, manager>>

--------------------------------------------------------------------------------
(* Requests.                                                                 *)

\* SyncManager::runImp: a request that comes too early waits for the replica.
Asked(downloadOnly, triggerSync) ==
  Append(requests, [downloadOnly |-> downloadOnly, triggerSync |-> triggerSync,
                    stage |-> IF manager = "ready" THEN "posted" ELSE "init"])

\* Faulty: what was asked before is not passed on.
InitDropsRequests == requests' = requests

\* SyncManager::onInit.
PassOn ==
  requests' = [k \in DOMAIN requests |->
    [requests[k] EXCEPT !.stage = IF @ = "init" THEN "posted" ELSE @]]

Answer(k) == requests' = [requests EXCEPT ![k].stage = "reached"] /\ UNCHANGED public
Watch(k) == requests' = [requests EXCEPT ![k].stage = "watching"]

\* SyncManagerPrivate::runOnState.  synchronize() is ignored by a connector that is
\* not idle any more, although the engine does not know yet.
runOnState(k) ==
  /\ requests[k].stage = "posted"
  /\ \/ /\ \/ public \in {"Error", "Disconnected"}
           \/ public = "Synchronized" /\ ~requests[k].triggerSync
           \/ public = "Uploading" /\ requests[k].downloadOnly
        /\ Answer(k)
     \/ /\ public = "Synchronized" /\ requests[k].triggerSync
        /\ Watch(k)
        /\ public' \in {"Synchronized", "Downloading"}
     \/ /\ \/ public \in {"Initializing", "Downloading"}
           \/ public = "Uploading" /\ ~requests[k].downloadOnly
        /\ Watch(k) /\ UNCHANGED public
  /\ UNCHANGED <<moves, manager>>

\* A connector that ignored synchronize() has lost its connection.
Reconnects ==
  /\ public = "Synchronized"
  /\ \E k \in DOMAIN requests : requests[k].stage = "watching"
  /\ public' = "Initializing"
  /\ UNCHANGED <<moves, manager, requests>>

\* SyncManager::onStateReached calls the function that was given to runOn....
Reached(k) == requests[k].stage = "reached"
Done(k) == requests' = [requests EXCEPT ![k].stage = "done"]

RunOnState == \E k \in DOMAIN requests : runOnState(k)
================================================================================
