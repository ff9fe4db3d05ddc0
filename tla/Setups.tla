--------------------------------- MODULE Setups --------------------------------
(***************************************************************************)
(* The setups of one name in one process: the registry of engines (Setup,  *)
(* SetupPrivate), the defaults (DefaultsPrivate), the lock file of the     *)
(* storage directory and the threads of the engines (EngineThread), used   *)
(* by several threads of the application, with another process that works  *)
(* on the same directory.                                                  *)
(*                                                                         *)
(* Every setup that was ever created has a number, its place in instance.  *)
(* The registry and the defaults are looked up by name, not by number,     *)
(* so that a late step for one setup can hit its successor.                *)
(***************************************************************************)
EXTENDS Naturals, Sequences

CONSTANTS
  Threads,    \* threads of the application that create and remove setups
  Main,       \* the one whose event loop serves the defaults
  MaxSetups   \* bound: setups that are created

ASSUME SetupsAssumption == Main \in Threads /\ MaxSetups \in Nat

VARIABLES
  engines,   \* SetupPrivate::engines: the registered setup, or None
  defaults,  \* DefaultsPrivate::setupDefaults: whose they are, or None
  lock,      \* who holds the lock file; "leaked" if nobody can unlock it any more
  instance,  \* the setups
  call,      \* what every thread of the application is doing
  raced,     \* a setup was created while a passive one was being removed
  aborted    \* the process was aborted

setupVars == <<engines, defaults, lock, instance, call, raced, aborted>>

None == 0
Idle == [step |-> "idle"]
AtStep(step, n) == [step |-> step, of |-> n]

ThreadPhases == {"starting", "running", "closing", "ended", "unlocked", "undefaulted", "finished"}
PassivePhases == {"queued", "created", "ready"}
Instance ==
  [kind : {"active"}, phase : ThreadPhases, stop : BOOLEAN] \cup
  [kind : {"passive"}, phase : PassivePhases, stop : {FALSE}]

Numbers == 0..Len(instance)

Calls ==
  {Idle, [step |-> "exited"]} \cup
  [step : {"waiting", "dropping", "forgetting", "cleaning"}, of : Numbers] \cup
  [step : {"obtaining"}, timeout : {"none", "some"}] \cup
  [step : {"listening"}, of : Numbers, timeout : {"none", "some"}, created : BOOLEAN]

SetupsTypeOK ==
  /\ instance \in Seq(Instance)
  /\ engines \in Numbers /\ defaults \in Numbers
  /\ lock \in {"free", "own", "leaked", "other"}
  /\ call \in [Threads -> Calls]
  /\ raced \in BOOLEAN /\ aborted \in BOOLEAN

SetupsInit ==
  /\ engines = None /\ defaults = None
  /\ lock \in {"free", "other"}
  /\ instance = << >>
  /\ call = [t \in Threads |-> Idle]
  /\ raced = FALSE /\ aborted = FALSE

IsActive(n) == n # None /\ instance[n].kind = "active"
Removing == \E t \in Threads : call[t].step \in {"dropping", "forgetting"}
Free(t) == ~aborted /\ call[t] = Idle
Continue(t, step) == ~aborted /\ call[t].step = step

Phase(n, phase) == instance' = [instance EXCEPT ![n].phase = phase]

(***************************************************************************)
(* Whoever waits for an engine or cleans up holds its EngineThread; without *)
(* them the registry has the last reference, and a thread that is deleted  *)
(* before it has finished aborts the process.                              *)
(***************************************************************************)
Held(n) ==
  \E t \in Threads : call[t].step \in {"waiting", "cleaning"} /\ call[t].of = n
Destroyed(n) == IsActive(n) /\ instance[n].phase # "finished" /\ ~Held(n)

--------------------------------------------------------------------------------
(* Setup: creating and removing.                                             *)

exists == engines # None

\* What a new setup leaves in registry and defaults.
Register(new) ==
  /\ Len(instance) < MaxSetups
  /\ instance' = Append(instance, new)
  /\ engines' = Len(instance) + 1
  /\ defaults' = Len(instance) + 1
  /\ raced' = (raced \/ Removing)

\* Creates defaults, engine and thread and starts it.
Created ==
  /\ ~exists /\ lock = "free" /\ defaults = None
  /\ lock' = "own"
  /\ Register([kind |-> "active", phase |-> "starting", stop |-> FALSE])

\* Throws SetupExistsException from createDefaults: the lock file stays locked.
CreateLeaks ==
  /\ ~exists /\ lock = "free" /\ defaults # None
  /\ lock' = "leaked"
  /\ UNCHANGED <<engines, defaults, instance, raced>>

\* Throws at once, and changes nothing.
CreateThrows == exists \/ lock # "free"

create(t) ==
  /\ Free(t)
  /\ Created \/ CreateLeaks
  /\ UNCHANGED <<call, aborted>>

\* With a negative timeout createPassive may rightly wait for ever: it is left out.
createPassive(t) ==
  /\ Free(t)
  /\ ~exists /\ defaults = None
  /\ Register([kind |-> "passive", phase |-> "queued", stop |-> FALSE])
  /\ \E timeout \in {"none", "some"} :
       call' = [call EXCEPT ![t] = [step |-> "obtaining", timeout |-> timeout]]
  /\ UNCHANGED <<lock, aborted>>

\* createPassive has unlocked the registry: the defaults may be gone, or another's.
ObtainDefaults(t) ==
  /\ Continue(t, "obtaining")
  /\ call' = [call EXCEPT ![t] =
       IF defaults = None THEN Idle
       ELSE [step |-> "listening", of |-> defaults, timeout |-> @.timeout, created |-> FALSE]]
  /\ UNCHANGED <<engines, defaults, lock, instance, raced, aborted>>

\* The timer of createPassive: not before the emitter was created.
PassiveTimeout(t) ==
  /\ Continue(t, "listening") /\ call[t].timeout = "some"
  /\ call' = [call EXCEPT ![t] = IF @.created THEN Idle ELSE [@ EXCEPT !.timeout = "none"]]
  /\ UNCHANGED <<engines, defaults, lock, instance, raced, aborted>>

\* Faulty: a thread that has not entered its event loop is not stopped.
StopRunning(n) ==
  [instance EXCEPT ![n].stop = @ \/ instance[n].phase = "running"]

\* EngineThread::stopEngine: finalize is posted to the engine, once.
stopEngine(n) ==
  [instance EXCEPT ![n].stop = @ \/ instance[n].phase \in {"starting", "running"}]

\* Faulty: the engine is taken from the registry at once.
RemoveEagerly(t) ==
  /\ Free(t) /\ IsActive(engines)
  /\ instance' = stopEngine(engines)
  /\ engines' = None
  /\ aborted' = Destroyed(engines)
  /\ UNCHANGED <<defaults, lock, call, raced>>

RemoveActive(t) ==
  /\ Free(t) /\ IsActive(engines)
  /\ instance' = stopEngine(engines)
  /\ \E wait \in BOOLEAN :
       call' = [call EXCEPT ![t] = IF wait THEN AtStep("waiting", engines) ELSE Idle]
  /\ UNCHANGED <<engines, defaults, lock, raced, aborted>>

\* The engine is null: the registry is unlocked before the defaults are removed.
RemovePassive(t) ==
  /\ Free(t) /\ exists /\ ~IsActive(engines)
  /\ call' = [call EXCEPT ![t] = AtStep("dropping", engines)]
  /\ UNCHANGED <<engines, defaults, lock, instance, raced, aborted>>

DropDefaults(t) ==
  /\ Continue(t, "dropping")
  /\ defaults' = None
  /\ call' = [call EXCEPT ![t] = AtStep("forgetting", call[t].of)]
  /\ UNCHANGED <<engines, lock, instance, raced, aborted>>

ForgetPassive(t) ==
  /\ Continue(t, "forgetting")
  /\ engines' = None
  /\ aborted' = Destroyed(engines)
  /\ call' = [call EXCEPT ![t] = Idle]
  /\ UNCHANGED <<defaults, lock, instance, raced>>

\* EngineThread::waitAndTerminate, with the default timeout: for ever.
Waited(t) ==
  /\ Continue(t, "waiting") /\ instance[call[t].of].phase = "finished"
  /\ call' = [call EXCEPT ![t] = Idle]
  /\ UNCHANGED <<engines, defaults, lock, instance, raced, aborted>>

\* cleanupHandler, when the application ends; its other threads have ended.
BeginCleanup ==
  /\ Free(Main) /\ \A t \in Threads : call[t] = Idle
  /\ engines' = None
  /\ call' = [t \in Threads |->
       IF t = Main THEN AtStep("cleaning", engines) ELSE [step |-> "exited"]]
  /\ instance' = IF IsActive(engines) THEN stopEngine(engines) ELSE instance
  /\ defaults' = IF IsActive(engines) \/ engines = None THEN defaults ELSE None
  /\ UNCHANGED <<lock, raced, aborted>>

FinishCleanup ==
  /\ Continue(Main, "cleaning")
  /\ IsActive(call[Main].of) => instance[call[Main].of].phase = "finished"
  /\ call' = [call EXCEPT ![Main] = [step |-> "exited"]]
  /\ UNCHANGED <<engines, defaults, lock, instance, raced, aborted>>

--------------------------------------------------------------------------------
(* Passive defaults, in the event loop of the main thread.                   *)

Listens(t, n) == call[t].step = "listening" /\ call[t].of = n
InUse(n) == defaults = n \/ \E t \in Threads : Listens(t, n)

\* makePassive, unless the defaults were deleted before: announces passiveCreated.
MakePassive(n) ==
  /\ ~aborted /\ call[Main].step \in {"idle", "listening"}
  /\ instance[n].phase = "queued" /\ InUse(n)
  /\ Phase(n, "created")
  /\ call' = [t \in Threads |->
       IF ~Listens(t, n) THEN call[t]
       ELSE IF call[t].timeout = "none" THEN Idle ELSE [call[t] EXCEPT !.created = TRUE]]
  /\ UNCHANGED <<engines, defaults, lock, raced, aborted>>

\* The replica of the emitter of the other process is initialized: passiveReady.
PassiveReady(n) ==
  /\ ~aborted /\ call[Main].step \in {"idle", "listening"}
  /\ instance[n].phase = "created" /\ InUse(n) /\ lock = "other"
  /\ Phase(n, "ready")
  /\ call' = [t \in Threads |-> IF Listens(t, n) THEN Idle ELSE call[t]]
  /\ UNCHANGED <<engines, defaults, lock, raced, aborted>>

--------------------------------------------------------------------------------
(* The thread of an engine.                                                  *)

ThreadStep(n, from, to) == ~aborted /\ instance[n].phase = from /\ Phase(n, to)

\* ExchangeEngine::initialize.  What throws here ends the application.
Initialize(n) ==
  /\ ThreadStep(n, "starting", "running")
  /\ UNCHANGED <<engines, defaults, lock, call, raced, aborted>>

\* ExchangeEngine::finalize: the connector closes the connection.
Finalize(n) ==
  /\ instance[n].stop /\ ThreadStep(n, "running", "closing")
  /\ UNCHANGED <<engines, defaults, lock, call, raced, aborted>>

\* RemoteConnector::finalized: the event loop ends and the engine is deleted.
Finalized(n) ==
  /\ ThreadStep(n, "closing", "ended")
  /\ UNCHANGED <<engines, defaults, lock, call, raced, aborted>>

Unlock(n) ==
  /\ ThreadStep(n, "ended", "unlocked")
  /\ lock' = "free"
  /\ UNCHANGED <<engines, defaults, call, raced, aborted>>

RemoveDefaults(n) ==
  /\ ThreadStep(n, "unlocked", "undefaulted")
  /\ defaults' = None
  /\ UNCHANGED <<engines, lock, call, raced, aborted>>

\* The thread keeps the last reference to what it takes until it has ended.
TakeEngine(n) ==
  /\ ThreadStep(n, "undefaulted", "finished")
  /\ engines' = None
  /\ aborted' = (engines # n /\ Destroyed(engines))
  /\ UNCHANGED <<defaults, lock, call, raced>>

--------------------------------------------------------------------------------
(* The other process.  A lock file whose process has died is stale.          *)

OtherStarts ==
  /\ lock = "free" /\ lock' = "other"
  /\ UNCHANGED <<engines, defaults, instance, call, raced, aborted>>

OtherStops ==
  /\ lock = "other" /\ lock' = "free"
  /\ UNCHANGED <<engines, defaults, instance, call, raced, aborted>>

EngineSteps ==
  \E n \in DOMAIN instance :
    Initialize(n) \/ Finalize(n) \/ Finalized(n) \/ Unlock(n) \/ RemoveDefaults(n) \/ TakeEngine(n)
DefaultsSteps == \E n \in DOMAIN instance : MakePassive(n) \/ PassiveReady(n)
Returns(t) ==
  ObtainDefaults(t) \/ PassiveTimeout(t) \/ DropDefaults(t) \/ ForgetPassive(t) \/ Waited(t)
UserCalls == \E t \in Threads : create(t) \/ createPassive(t) \/ RemoveActive(t) \/ RemovePassive(t)

--------------------------------------------------------------------------------
(* Properties.                                                               *)

Settled ==
  /\ \A t \in Threads : call[t].step \in {"idle", "listening", "exited"}
  /\ \A n \in DOMAIN instance : instance[n].phase \notin {"ended", "unlocked", "undefaulted"}

\* An engine is only stopped in order (EngineThread::run, Setup::removeSetup): no
\* running thread is deleted, and once all calls have returned the registry, the
\* defaults and the lock file tell the same, so that every engine that runs can
\* be stopped and every name that is free can be used again.  The exception is
\* real: removeSetup unlocks the registry between looking up a passive setup and
\* removing it by name (setup.cpp:38 and 50), and another thread may have removed
\* it and created a new one in between.
RegistryIsTrue ==
  ~raced =>
    /\ ~aborted
    /\ Settled /\ call[Main].step # "exited" =>
         /\ defaults = engines
         /\ lock = "own" <=> IsActive(engines)
         /\ lock # "leaked"
    /\ \A n \in DOMAIN instance :
         IsActive(n) /\ instance[n].phase # "finished" => engines = n \/ Held(n)

\* createPassive connects to passiveCreated after the call that emits it was posted
\* to the main thread; on any other thread it may have missed it (setup.cpp:516).
MissedCreation(t) ==
  call[t].step = "listening" /\ instance[call[t].of].phase # "queued" /\ ~call[t].created

\* Every call that blocks returns: removing a setup waits until its engine has
\* closed and left, and creating a passive one until its emitter was created or
\* the time is over, except for the creation that was missed.
CallsReturn ==
  \A t \in Threads :
    call[t].step \notin {"idle", "exited"} ~>
      call[t].step \in {"idle", "exited"} \/ aborted \/ MissedCreation(t)
================================================================================
