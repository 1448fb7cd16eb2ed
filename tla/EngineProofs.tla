---------------------------- MODULE EngineProofs ----------------------------
(***************************************************************************)
(* The engine's objects and settings, for every set of modules, length of  *)
(* the settings file and number of references.                             *)
(***************************************************************************)
EXTENDS EngineLifetime, TLAPS

\* What the variables of TraceSettings hold at each point of loadSettings.
SettingsInv ==
  /\ disk \in Disks
  /\ loading \in {"idle", "checked", "loaded", "invalid", "threw"}
  /\ \E n \in Nat : readModules \in [1..n -> Names]
  /\ loading = "loaded" =>
       mTracedModules = [i \in DOMAIN readModules |-> toLowerCase(readModules[i])]

\* The reference count is the runtime's count of its references, and the
\* profiler info is owned between Initialize and the first release.
RefsInv ==
  /\ mRefCount = held
  /\ handler \in {"none", "connecting", "loading", "deleted"} => held = 0
  /\ handler \in {"none", "connecting", "loading", "constructed"} => mProfilerInfo = "null"
  /\ handler \in {"initialized", "shutdown"} => mProfilerInfo = "set"
  /\ handler = "deleted" => process # "running"
  /\ handler \notin {"shutdown", "deleted"} /\ mProfilerInfo = "set" => infoRefs = 1
  /\ handler # "deleted" /\ (handler = "shutdown" \/ mProfilerInfo = "null") => infoRefs = 0

IInv ==
  /\ TypeOK /\ SettingsInv /\ RefsInv
  /\ NeverTracesUnconfigured /\ QuietAfterShutdown /\ OverReleasedOnlyAtEnd

-----------------------------------------------------------------------------
\* loadSettings keeps its invariant, whatever is done to the file meanwhile.
LEMMA SettingsStep ==
  ASSUME SettingsInv, [Next]_vars
  PROVE  SettingsInv'
<1>1. CASE CheckFile
  BY <1>1 DEF CheckFile, SettingsInv
<1>2. CASE ReadFile
  <2> DEFINE file == DiskAt(Unquoted(getSettingsFile))
  <2>1. CASE file.kind = "valid"
    <3>1. file = disk
      BY <2>1 DEF DiskAt
    <3>2. disk \in [kind : {"valid"}, modules : Lists]
      BY <2>1, <3>1 DEF SettingsInv, Disks
    <3>3. \E n \in Nat : file.modules \in [1..n -> Names]
      BY <3>1, <3>2 DEF Lists
    <3> QED
      BY <1>2, <2>1, <3>3 DEF ReadFile, SettingsInv
  <2>2. CASE file.kind # "valid"
    BY <1>2, <2>2 DEF ReadFile, SettingsInv
  <2> QED
    BY <2>1, <2>2
<1>3. CASE EditSettings
  BY <1>3 DEF EditSettings, SettingsInv
<1>4. CASE UNCHANGED settingsVars
  BY <1>4 DEF settingsVars, SettingsInv
<1> QED
  BY <1>1, <1>2, <1>3, <1>4
  DEF Next, DllGetClassObject, FactoryAddRef, FactoryRelease, CreateInstance, Connect,
      ConnectThrows, Terminate, LoadSettings, loadSettings, SettingsThrow, SettingsInvalid,
      Constructed, AddRef, Initialize, Shutdown, Release, OtherCallback, ProcessEnds, Edit, vars

\* Reference counts, ownership of the profiler info and what is left of the
\* engine after Shutdown.
LEMMA LifeStep ==
  ASSUME IInv, [Next]_vars
  PROVE  /\ TypeOK' /\ RefsInv'
         /\ NeverTracesUnconfigured' /\ QuietAfterShutdown' /\ OverReleasedOnlyAtEnd'
<1> USE RefsAssumption
    DEF TypeOK, RefsInv, NeverTracesUnconfigured, QuietAfterShutdown,
        OverReleasedOnlyAtEnd, Made, Running
<1>0. /\ loading' \in {"idle", "checked", "loaded", "invalid", "threw"}
      /\ TypeOK /\ RefsInv
      /\ NeverTracesUnconfigured /\ QuietAfterShutdown /\ OverReleasedOnlyAtEnd
  BY SettingsStep DEF SettingsInv, IInv
<1>1. CASE DllGetClassObject
  BY <1>0, <1>1 DEF DllGetClassObject, settingsVars
<1>2. CASE FactoryAddRef
  BY <1>0, <1>2 DEF FactoryAddRef, settingsVars
<1>3. CASE FactoryRelease
  BY <1>0, <1>3 DEF FactoryRelease, settingsVars
<1>4. CASE CreateInstance
  BY <1>0, <1>4 DEF CreateInstance, settingsVars
<1>5. CASE Connect
  BY <1>0, <1>5 DEF Connect, settingsVars
<1>6. CASE ConnectThrows \/ SettingsThrow
  BY <1>0, <1>6 DEF ConnectThrows, SettingsThrow, Terminate, settingsVars
<1>7. CASE SettingsInvalid \/ ProcessEnds
  BY <1>0, <1>7 DEF SettingsInvalid, ProcessEnds, settingsVars
<1>8. CASE LoadSettings
  <2>1. loading # "loaded"
    BY <1>8 DEF LoadSettings, loadSettings, CheckFile, ReadFile
  <2> QED
    BY <1>0, <1>8, <2>1 DEF LoadSettings, lifeVars
<1>9. CASE Constructed
  BY <1>0, <1>9 DEF Constructed, settingsVars
<1>10. CASE AddRef
  BY <1>0, <1>10 DEF AddRef, settingsVars
<1>11. CASE Initialize
  BY <1>0, <1>11 DEF Initialize, settingsVars
<1>12. CASE Shutdown
  BY <1>0, <1>12 DEF Shutdown, releaseProfilerInfo, settingsVars
<1>13. CASE Release
  BY <1>0, <1>13 DEF Release, releaseProfilerInfo, settingsVars
<1>14. CASE Edit
  BY <1>0, <1>14 DEF Edit, EditSettings, lifeVars
<1>15. CASE UNCHANGED vars
  BY <1>0, <1>15 DEF vars, lifeVars, settingsVars
<1> QED
  BY <1>1, <1>2, <1>3, <1>4, <1>5, <1>6, <1>7, <1>8, <1>9, <1>10, <1>11, <1>12, <1>13,
     <1>14, <1>15
  DEF Next, OtherCallback

-----------------------------------------------------------------------------
\* The inductive invariant of the engine's life.
THEOREM Inductive == Spec => []IInv
<1>1. Init => IInv
  <2> SUFFICES ASSUME Init PROVE IInv
    OBVIOUS
  <2>1. SettingsInv
    <3>1. readModules \in [1..0 -> Names]
      BY DEF Init, SettingsInit
    <3> QED
      BY <3>1 DEF Init, SettingsInit, SettingsInv
  <2> QED
    BY <2>1, RefsAssumption
    DEF Init, SettingsInit, IInv, TypeOK, RefsInv, NeverTracesUnconfigured, QuietAfterShutdown,
        OverReleasedOnlyAtEnd, Made, Running
<1>2. IInv /\ [Next]_vars => IInv'
  BY SettingsStep, LifeStep DEF IInv
<1> QED
  BY <1>1, <1>2, PTL DEF Spec

\* Every variable keeps its type; the profiler info is released once too often
\* at most.
THEOREM TypeInvariance == Spec => []TypeOK
BY Inductive, PTL DEF IInv

\* Whatever is done to the file while it is read, a module is traced if and
\* only if the settings that were read list it.
THEOREM Traced == Spec => []TracedAsListed
<1>1. IInv => TracedAsListed
  <2> SUFFICES ASSUME SettingsInv, loading = "loaded", NEW name \in Names
               PROVE  isModuleTraced(name) <=>
                        \E i \in DOMAIN readModules : readModules[i][1] = name[1]
    BY DEF IInv, TracedAsListed
  <2>1. PICK n \in Nat : readModules \in [1..n -> Names]
    BY DEF SettingsInv
  <2>2. mTracedModules = [i \in 1..n |-> toLowerCase(readModules[i])]
    BY <2>1 DEF SettingsInv
  <2>3. \A i \in 1..n : toLowerCase(readModules[i]) = toLowerCase(name) <=> readModules[i][1] = name[1]
    BY <2>1 DEF toLowerCase
  <2> QED
    BY <2>1, <2>2, <2>3 DEF isModuleTraced
<1> QED
  BY <1>1, Inductive, PTL

\* No callback comes to an engine without valid settings.
THEOREM Configured == Spec => []NeverTracesUnconfigured
BY Inductive, PTL DEF IInv

\* The object is deleted only by the release of the runtime's last reference.
THEOREM Alive == Spec => []HeldMeansAlive
<1>1. IInv => HeldMeansAlive
  BY DEF IInv, TypeOK, RefsInv, HeldMeansAlive, Made
<1> QED
  BY <1>1, Inductive, PTL

\* After Shutdown the pipe is closed and the worker gone.
THEOREM Quiet == Spec => []QuietAfterShutdown
BY Inductive, PTL DEF IInv

\* The profiler info is released twice only in a step that ends the process.
THEOREM OverRelease == Spec => []OverReleasedOnlyAtEnd
BY Inductive, PTL DEF IInv
=============================================================================
