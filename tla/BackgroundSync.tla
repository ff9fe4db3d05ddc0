----------------------------- MODULE BackgroundSync ----------------------------
(***************************************************************************)
(* The processes that use a setup: an application whose threads create and *)
(* remove setups, an application that asks its SyncManager to be told of a *)
(* synchronization, the Android service (AndroidBackgroundService) and the *)
(* delegate that iOS wakes (IosSyncDelegate), which create a setup, have   *)
(* it synchronized and report the end.                                     *)
(***************************************************************************)
EXTENDS Setups, SyncRequests

CONSTANT MaxIntents   \* bound: starts by the operating system

VARIABLES
  role,     \* which of the processes it is
  service   \* the service or delegate

serviceVars == <<role, service>>
vars == <<setupVars, requestVars, serviceVars>>

Roles == {"threads", "client", "android", "ios"}

(***************************************************************************)
(* startId: the intent the service works for, 0 for none; started: the     *)
(* newest intent; posted: calls of startBackgroundSync or performSync;     *)
(* ready: backendReady is connected to the replica; full: waitFullSync;    *)
(* stop: the system has agreed to stop the service, which it then does.    *)
(***************************************************************************)
Service ==
  [startId : 0..MaxIntents, started : 0..MaxIntents, posted : Seq(1..MaxIntents),
   ready : BOOLEAN, full : BOOLEAN, stop : {"no", "agreed", "stopping"}]

TypeOK ==
  SetupsTypeOK /\ RequestsTypeOK /\ role \in Roles /\ service \in Service

Init ==
  /\ SetupsInit /\ RequestsInit
  /\ role \in Roles
  /\ role = "ios" => lock = "free"
  /\ service \in [startId : {0}, started : {0}, posted : {<< >>}, ready : {FALSE},
                  full : BOOLEAN, stop : {"no"}]

InLoop == ~aborted /\ call[Main].step = "idle"
HostIsUp == IsActive(engines) /\ instance[engines].phase = "running"

--------------------------------------------------------------------------------
(* The application with a SyncManager.                                       *)

\* The constructor obtains the defaults, which must exist.
ClientConnects ==
  /\ role = "client" /\ InLoop /\ manager = "none" /\ defaults # None
  /\ manager' = "connecting"
  /\ UNCHANGED <<setupVars, public, moves, requests, serviceVars>>

ClientAsks ==
  /\ role = "client" /\ InLoop /\ manager # "none"
  /\ Len(requests) < MaxRequests
  /\ \E downloadOnly, triggerSync \in BOOLEAN : requests' = Asked(downloadOnly, triggerSync)
  /\ UNCHANGED <<setupVars, public, moves, manager, serviceVars>>

--------------------------------------------------------------------------------
(* Service and delegate.                                                     *)

\* backendReady: with an own request for every call.
BackendReady(s) ==
  /\ requests' = Append(requests, [downloadOnly |-> ~s.full, triggerSync |-> TRUE, stage |-> "posted"])
  /\ service' = s

\* The manager is created if there is none; its replica may be initialized already.
UseManager(s) ==
  IF manager = "ready" THEN BackendReady(s) /\ UNCHANGED manager
  ELSE /\ manager' = "connecting"
       /\ service' = [s EXCEPT !.ready = TRUE]
       /\ UNCHANGED requests

\* stopSelfResult: only for the newest intent.
StopSelf(s, id) == [s EXCEPT !.stop = IF id = s.started THEN "agreed" ELSE @]

exitAfterSync(s) == IF s.startId = 0 THEN s ELSE [StopSelf(s, s.startId) EXCEPT !.startId = 0]

\* onStartCommand, which posts startBackgroundSync; a fetch of iOS calls directly.
Intent ==
  /\ role \in {"android", "ios"} /\ ~aborted /\ service.stop = "no"
  /\ service.started < MaxIntents /\ Len(requests) < MaxRequests
  /\ service' = [service EXCEPT !.started = @ + 1, !.posted = Append(@, service.started + 1)]
  /\ UNCHANGED <<setupVars, requestVars, role>>

NextIntent == [service EXCEPT !.posted = Tail(@)]

\* startBackgroundSync while a synchronization runs.
JoinSync ==
  /\ role = "android" /\ InLoop /\ service.posted # << >> /\ service.startId # 0
  /\ service' = [NextIntent EXCEPT !.startId = Head(service.posted)]
  /\ UNCHANGED <<setupVars, requestVars, role>>

\* startBackgroundSync and performSync create the setup unless there is one.
StartSync ==
  /\ role \in {"android", "ios"} /\ InLoop /\ service.posted # << >> /\ service.startId = 0
  /\ exists \/ (lock = "free" /\ defaults = None)
  /\ IF exists THEN UNCHANGED setupVars ELSE Created /\ UNCHANGED <<call, aborted>>
  /\ UseManager([NextIntent EXCEPT !.startId = IF role = "android" THEN Head(service.posted) ELSE 0])
  /\ UNCHANGED <<public, moves, role>>

\* The setup is locked by another process.
StartFails ==
  /\ role = "android" /\ InLoop /\ service.posted # << >> /\ service.startId = 0
  /\ ~exists /\ lock # "free"
  /\ service' = StopSelf(NextIntent, Head(service.posted))
  /\ UNCHANGED <<setupVars, requestVars, role>>

\* The signal initialized: onInit and, if it is connected, backendReady.
ReplicaInitialized ==
  /\ InLoop /\ manager = "connecting" /\ HostIsUp
  /\ manager' = "ready"
  /\ IF service.ready THEN BackendReady([service EXCEPT !.ready = FALSE])
     ELSE PassOn /\ UNCHANGED service
  /\ UNCHANGED <<setupVars, public, moves, role>>

\* onSyncCompleted and onSyncDone, which calls currentCallback if it is set;
\* performSync sets it only if it is set already, which is never.
SyncCompleted(k) ==
  /\ InLoop /\ Reached(k)
  /\ Done(k)
  /\ service' = IF role = "android" THEN exitAfterSync(service) ELSE service
  /\ UNCHANGED <<setupVars, public, moves, manager, role>>

\* onStop: the manager goes with its requests, and the setup is removed.
OnStop ==
  /\ InLoop /\ service.stop = "agreed"
  /\ service' = [service EXCEPT !.stop = "stopping"]
  /\ manager' = "none" /\ requests' = << >>
  /\ IF exists
     THEN /\ instance' = stopEngine(engines)
          /\ call' = [call EXCEPT ![Main] = AtStep("waiting", engines)]
     ELSE UNCHANGED <<instance, call>>
  /\ UNCHANGED <<engines, defaults, lock, raced, aborted, public, moves, role>>

--------------------------------------------------------------------------------

SetupSteps == EngineSteps \/ DefaultsSteps \/ \E t \in Threads : Returns(t)

SetupCalls ==
  \/ role = "threads" /\ (UserCalls \/ BeginCleanup \/ FinishCleanup)
  \/ role = "client" /\ Free(Main) /\ Created /\ UNCHANGED <<call, aborted>>

OtherProcess == role # "ios" /\ (OtherStarts \/ OtherStops)

EngineMoves == HostIsUp /\ role # "threads" /\ (Moves \/ Settles \/ Reconnects \/ RunOnState)

Next ==
  \/ (SetupSteps \/ SetupCalls \/ OtherProcess) /\ UNCHANGED <<requestVars, serviceVars>>
  \/ EngineMoves /\ UNCHANGED <<setupVars, serviceVars>>
  \/ ClientConnects \/ ClientAsks
  \/ Intent \/ JoinSync \/ StartSync \/ StartFails \/ ReplicaInitialized \/ OnStop
  \/ \E k \in DOMAIN requests : SyncCompleted(k)

(***************************************************************************)
(* Event loops and threads run, also that of an engine, and the system     *)
(* stops a service when it has agreed to.  An engine does not connect,     *)
(* download or upload for ever: Connector and UploadController show that   *)
(* under their own assumptions.                                            *)
(***************************************************************************)
Own(action) == action /\ UNCHANGED <<requestVars, serviceVars>>
OfEngine(action) == HostIsUp /\ role # "threads" /\ action /\ UNCHANGED <<setupVars, serviceVars>>

Fairness ==
  /\ \A n \in 1..MaxSetups :
       WF_vars(n \in DOMAIN instance /\ Own(Initialize(n) \/ Finalize(n) \/ Finalized(n)
                                            \/ Unlock(n) \/ RemoveDefaults(n) \/ TakeEngine(n)))
  /\ \A t \in Threads : WF_vars(Own(Returns(t)))
  /\ WF_vars(Own(DefaultsSteps)) /\ WF_vars(Own(role = "threads" /\ FinishCleanup))
  /\ WF_vars(OfEngine(Settles)) /\ WF_vars(OfEngine(Reconnects)) /\ WF_vars(OfEngine(RunOnState))
  /\ WF_vars(JoinSync \/ StartSync \/ StartFails) /\ WF_vars(ReplicaInitialized) /\ WF_vars(OnStop)
  /\ WF_vars(\E k \in DOMAIN requests : SyncCompleted(k))

Spec == Init /\ [][Next]_vars /\ Fairness
--------------------------------------------------------------------------------
(* Properties.                                                               *)

\* Every function that was passed to runOnDownloaded or runOnSynchronized is called,
\* whatever the engine does between the request, the replica's initialization and
\* the state that is waited for (runOnState, runImp, onInit), and a service of
\* Android that was started ends, with all the intents that came meanwhile
\* (startBackgroundSync, exitAfterSync), unless the setup is locked while it is
\* created again.  For iOS the function is the delegate's own, onSyncDone; the
\* callback of the system's fetch is not part of it: performSync does not store it,
\* so that no fetch is ever reported.
SyncEnds ==
  /\ \A k \in 1..MaxRequests :
       k <= Len(requests) /\ HostIsUp ~> k > Len(requests) \/ requests[k].stage = "done"
  /\ role = "android" /\ service.started > 0 ~> service.stop = "stopping" /\ call[Main] = Idle
================================================================================
