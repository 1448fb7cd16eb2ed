--------------------------- MODULE EngineLifetime ---------------------------
(***************************************************************************)
(* The life of the engine inside the traced process: the runtime's calls   *)
(* of the COM entry points, the constructor of ProfilerCallbackHandler with*)
(* its connection and its settings, Initialize, the callbacks, Shutdown,   *)
(* and the release of the object.                                          *)
(*                                                                         *)
(* The runtime is modelled by what COM and the profiling interface say of  *)
(* it: it releases what it holds, holds what it uses, calls Initialize once*)
(* and Shutdown once at the end.  Messages are the matter of HostComm.     *)
(***************************************************************************)
EXTENDS TraceSettings, Integers

CONSTANT MaxRefs  \* bound: references the runtime holds on one object
ASSUME RefsAssumption == MaxRefs \in Nat \ {0}

VARIABLES
  process,          \* "running", "exited" or "terminated"
  factoryRefs,      \* mRefCount of the class factory, 0 without one
  handler,          \* where the life of the callback handler is
  mRefCount,        \* of the callback handler
  held,             \* references to the handler the runtime holds
  mProfilerInfo,    \* the pointer: "null" or "set"
  infoRefs,         \* references to the profiler info the engine owns
  pipe,             \* mPipe: "none", "open" or "closed"
  ioThread          \* mWorkThread: "none", "running" or "killed"

lifeVars == <<process, factoryRefs, handler, mRefCount, held, mProfilerInfo, infoRefs,
              pipe, ioThread>>
vars == <<lifeVars, settingsVars>>

Init ==
  /\ SettingsInit
  /\ process = "running" /\ factoryRefs = 0 /\ handler = "none"
  /\ mRefCount = 0 /\ held = 0
  /\ mProfilerInfo = "null" /\ infoRefs = 0
  /\ pipe = "none" /\ ioThread = "none"

Running == process = "running"

-----------------------------------------------------------------------------
(* COM entry points.                                                       *)

\* A factory is made for the right class; QueryInterface adds the reference.
DllGetClassObject ==
  /\ Running /\ factoryRefs = 0 /\ handler = "none"
  /\ factoryRefs' = 1
  /\ UNCHANGED <<process, handler, mRefCount, held, mProfilerInfo, infoRefs, pipe, ioThread, settingsVars>>

FactoryAddRef ==
  /\ Running /\ factoryRefs \in 1..(MaxRefs - 1)
  /\ factoryRefs' = factoryRefs + 1
  /\ UNCHANGED <<process, handler, mRefCount, held, mProfilerInfo, infoRefs, pipe, ioThread, settingsVars>>

\* The last reference deletes the factory.
FactoryRelease ==
  /\ Running /\ factoryRefs > 0
  /\ factoryRefs' = factoryRefs - 1
  /\ UNCHANGED <<process, handler, mRefCount, held, mProfilerInfo, infoRefs, pipe, ioThread, settingsVars>>

\* CreateInstance: the members are constructed, the worker starts io_service.
CreateInstance ==
  /\ Running /\ factoryRefs > 0 /\ handler = "none"
  /\ handler' = "connecting" /\ ioThread' = "running"
  /\ UNCHANGED <<process, factoryRefs, mRefCount, held, mProfilerInfo, infoRefs, pipe, settingsVars>>

-----------------------------------------------------------------------------
(* The constructor.                                                        *)

\* initialize() connects, fails before it assigns a handle, or is refused and
\* releases the pipe.  The result is not looked at.
Connect ==
  /\ Running /\ handler = "connecting"
  /\ pipe' \in {"none", "open", "closed"}
  /\ handler' = "loading"
  /\ UNCHANGED <<process, factoryRefs, mRefCount, held, mProfilerInfo, infoRefs, ioThread, settingsVars>>

\* An exception that leaves the constructor, and a COM method, ends the process.
Terminate ==
  /\ process' = "terminated"
  /\ UNCHANGED <<factoryRefs, handler, mRefCount, held, mProfilerInfo, infoRefs, pipe, ioThread, settingsVars>>

ConnectThrows == Running /\ handler = "connecting" /\ Terminate

LoadSettings ==
  /\ Running /\ handler = "loading"
  /\ loadSettings
  /\ UNCHANGED lifeVars

SettingsThrow == Running /\ handler = "loading" /\ loading = "threw" /\ Terminate

\* Mutant: the error is sent and the constructor goes on.
SettingsInvalid_GoOn ==
  /\ Running /\ handler = "loading" /\ loading = "invalid"
  /\ handler' = "constructed" /\ mRefCount' = 1 /\ held' = 1
  /\ UNCHANGED <<process, factoryRefs, mProfilerInfo, infoRefs, pipe, ioThread, settingsVars>>

\* The error is sent and the process exits, or sending throws: there is no
\* open pipe, or its server is gone.
SettingsInvalid ==
  /\ Running /\ handler = "loading" /\ loading = "invalid"
  /\ process' \in IF pipe = "open" THEN {"exited", "terminated"} ELSE {"terminated"}
  /\ UNCHANGED <<factoryRefs, handler, mRefCount, held, mProfilerInfo, infoRefs, pipe,
                 ioThread, settingsVars>>

\* The constructor returns and CreateInstance queries the interface asked for;
\* an object that does not have it is neither handed out nor deleted.
Constructed ==
  /\ Running /\ handler = "loading" /\ loading = "loaded"
  /\ handler' = "constructed"
  /\ held' \in {0, 1} /\ mRefCount' = held'
  /\ UNCHANGED <<process, factoryRefs, mProfilerInfo, infoRefs, pipe, ioThread, settingsVars>>

-----------------------------------------------------------------------------
(* The callback handler's object.                                          *)

\* QueryInterface for one of the callback interfaces, and AddRef.
AddRef ==
  /\ Running /\ held \in 1..(MaxRefs - 1)
  /\ mRefCount' = mRefCount + 1 /\ held' = held + 1
  /\ UNCHANGED <<process, factoryRefs, handler, mProfilerInfo, infoRefs, pipe, ioThread, settingsVars>>

\* The runtime has no ICorProfilerInfo7, refuses the events, or goes on.
Initialize ==
  /\ Running /\ handler = "constructed" /\ held > 0
  /\ \/ handler' = "refused" /\ UNCHANGED <<mProfilerInfo, infoRefs>>
     \/ /\ handler' \in {"refused", "initialized"}
        /\ mProfilerInfo' = "set" /\ infoRefs' = 1
  /\ UNCHANGED <<process, factoryRefs, mRefCount, held, pipe, ioThread, settingsVars>>

\* releaseProfilerInfo: the pointer stays set, and a pipe that is not open
\* throws before the worker is killed.
releaseProfilerInfo ==
  /\ infoRefs' = IF mProfilerInfo = "set" THEN infoRefs - 1 ELSE infoRefs
  /\ pipe' = IF pipe = "open" THEN "closed" ELSE pipe
  /\ ioThread' = IF pipe = "open" THEN "killed" ELSE ioThread

\* Mutant: Shutdown keeps the pipe open.
Shutdown_KeepsPipe ==
  /\ Running /\ handler = "initialized"
  /\ handler' = "shutdown"
  /\ infoRefs' = infoRefs - 1 /\ ioThread' = "killed"
  /\ UNCHANGED <<process, factoryRefs, mRefCount, held, mProfilerInfo, pipe, settingsVars>>

Shutdown ==
  /\ Running /\ handler = "initialized"
  /\ handler' = "shutdown"
  /\ releaseProfilerInfo
  /\ process' = IF pipe = "open" THEN "running" ELSE "terminated"
  /\ UNCHANGED <<factoryRefs, mRefCount, held, mProfilerInfo, settingsVars>>

\* Mutant: the object goes one reference too early.
Release_Early ==
  /\ Running /\ held > 0 /\ (handler \in {"refused", "shutdown"} \/ held > 1)
  /\ mRefCount' = mRefCount - 1 /\ held' = held - 1
  /\ IF mRefCount' <= 1
     THEN /\ releaseProfilerInfo
          /\ handler' = "deleted" /\ process' = "terminated"
     ELSE UNCHANGED <<handler, infoRefs, pipe, ioThread, process>>
  /\ UNCHANGED <<factoryRefs, mProfilerInfo, settingsVars>>

\* Mutant: a call counts down twice.
Release_Twice ==
  /\ Running /\ held > 0 /\ (handler \in {"refused", "shutdown"} \/ held > 1)
  /\ mRefCount' = mRefCount - 2 /\ held' = held - 1
  /\ IF mRefCount' <= 0
     THEN /\ releaseProfilerInfo
          /\ handler' = "deleted" /\ process' = "terminated"
     ELSE UNCHANGED <<handler, infoRefs, pipe, ioThread, process>>
  /\ UNCHANGED <<factoryRefs, mProfilerInfo, settingsVars>>

\* Mutant: the destructors let no exception out.
Release_Caught ==
  /\ Running /\ held > 0 /\ (handler \in {"refused", "shutdown"} \/ held > 1)
  /\ mRefCount' = mRefCount - 1 /\ held' = held - 1
  /\ IF mRefCount' <= 0
     THEN releaseProfilerInfo /\ handler' = "deleted"
     ELSE UNCHANGED <<handler, infoRefs, pipe, ioThread>>
  /\ UNCHANGED <<process, factoryRefs, mProfilerInfo, settingsVars>>

\* The last Release deletes the object.  Its destructor closes the pipe, and
\* that of mCommClient then cancels on a closed one: an exception that leaves
\* a destructor ends the process.
Release ==
  /\ Running /\ held > 0 /\ (handler \in {"refused", "shutdown"} \/ held > 1)
  /\ mRefCount' = mRefCount - 1 /\ held' = held - 1
  /\ IF mRefCount' <= 0
     THEN /\ releaseProfilerInfo
          /\ handler' = "deleted" /\ process' = "terminated"
     ELSE UNCHANGED <<handler, infoRefs, pipe, ioThread, process>>
  /\ UNCHANGED <<factoryRefs, mProfilerInfo, settingsVars>>

\* Every other callback returns S_OK and does nothing else.
OtherCallback ==
  /\ Running /\ handler \in {"initialized", "shutdown"} /\ held > 0
  /\ UNCHANGED vars

\* The traced process ends by itself.
ProcessEnds ==
  /\ Running
  /\ process' = "exited"
  /\ UNCHANGED <<factoryRefs, handler, mRefCount, held, mProfilerInfo, infoRefs, pipe,
                 ioThread, settingsVars>>

Edit == Running /\ EditSettings /\ UNCHANGED lifeVars

Next ==
  \/ DllGetClassObject \/ FactoryAddRef \/ FactoryRelease \/ CreateInstance
  \/ Connect \/ ConnectThrows \/ LoadSettings \/ SettingsThrow \/ SettingsInvalid
  \/ Constructed \/ AddRef \/ Initialize \/ Shutdown \/ Release
  \/ OtherCallback \/ ProcessEnds \/ Edit

Spec == Init /\ [][Next]_vars

-----------------------------------------------------------------------------
(* Properties.                                                             *)

Made == {"constructed", "refused", "initialized", "shutdown", "deleted"}

\* The type invariant.
TypeOK ==
  /\ process \in {"running", "exited", "terminated"}
  /\ factoryRefs \in 0..MaxRefs /\ mRefCount \in 0..MaxRefs /\ held \in 0..MaxRefs
  /\ handler \in {"none", "connecting", "loading"} \cup Made
  /\ mProfilerInfo \in {"null", "set"} /\ infoRefs \in {-1, 0, 1}
  /\ pipe \in {"none", "open", "closed"} /\ ioThread \in {"none", "running", "killed"}
  /\ loading \in {"idle", "checked", "loaded", "invalid", "threw"}

\* The runtime never gets an engine, nor a callback its turn, without settings
\* that were valid when they were read: "We can't trace without any settings"
\* (ProfilerCallbackHandler.cpp:42).
NeverTracesUnconfigured == handler \in Made => loading = "loaded"

\* The object lives as long as the runtime holds a reference to it.
HeldMeansAlive ==
  /\ handler = "deleted" => held = 0
  /\ held > 0 => handler \in Made

\* Callbacks that come after Shutdown find the pipe closed and no worker, so
\* they can neither send nor wait for a send; the profiler info is released.
QuietAfterShutdown ==
  Running /\ handler = "shutdown" => pipe = "closed" /\ ioThread = "killed" /\ infoRefs = 0

\* Shutdown and the destructor both release the profiler info; the second
\* release comes only in the step that ends the process.
OverReleasedOnlyAtEnd == infoRefs < 0 => process = "terminated"
=============================================================================
