---------------------------- MODULE TraceSettings ----------------------------
(***************************************************************************)
(* How the engine finds and reads its settings: the path comes from the    *)
(* environment block, in quotation marks as the bootstrapper writes it, the*)
(* file is looked at and then read, and its module names are compared with *)
(* the names of loaded modules.  The file may change at any time.          *)
(***************************************************************************)
EXTENDS Naturals, Sequences

CONSTANTS
  Modules,     \* names of modules, regardless of case
  MaxModules   \* bound: names a settings file lists

VARIABLES
  settingsVar,     \* the value of NETTrace_settings_file
  disk,            \* what is at the path
  loading,         \* where loadSettings is
  mTracedModules,  \* module names in lower case
  readModules      \* history: the list as the file had it when it was read

settingsVars == <<settingsVar, disk, loading, mTracedModules, readModules>>

\* A path, character by character in as far as loadSettings cuts it, and the
\* values a variable with that path can have.
Path == <<"p", "a", "t", "h">>
Quoted == <<"quote">> \o Path \o <<"quote">>
Values == {<<>>, Quoted}

Names == Modules \X {"lower", "mixed"}
toLowerCase(name) == <<name[1], "lower">>

Lists == UNION {[1..n -> Names] : n \in 0..MaxModules}

\* A settings file is no JSON, has no "modules", or lists some.
Disks ==
  [kind : {"missing", "directory", "malformed", "noModules"}, modules : {<<>>}]
    \cup [kind : {"valid"}, modules : Lists]

SettingsInit ==
  /\ settingsVar \in Values /\ disk \in Disks
  /\ loading = "idle" /\ mTracedModules = <<>> /\ readModules = <<>>

\* getSettingsFile: _dupenv_s counts the terminating NUL, and so does the
\* string.  A variable that is not set gives an empty string.
getSettingsFile == IF settingsVar = <<>> THEN <<>> ELSE Append(settingsVar, "NUL")

\* Windows takes a string up to its NUL, and no quotation mark in a path.
DiskAt(s) ==
  IF s \in {Path, Append(Path, "NUL")} THEN disk ELSE [kind |-> "missing", modules |-> <<>>]

\* settingsFile.substr(1, settingsFile.length() - 3)
Unquoted(s) == SubSeq(s, 2, Len(s) - 2)

\* The check for an existing file rejects one that exists; a quoted path is
\* never found.
CheckFile ==
  /\ loading = "idle"
  /\ loading' = IF getSettingsFile = <<>>
                   \/ DiskAt(getSettingsFile).kind \notin {"missing", "directory"}
                THEN "invalid" ELSE "checked"
  /\ UNCHANGED <<settingsVar, disk, mTracedModules, readModules>>

\* Mutant: names are kept as the file has them.
ReadFile_Verbatim ==
  /\ loading = "checked"
  /\ LET file == DiskAt(Unquoted(getSettingsFile)) IN
       IF file.kind = "valid"
       THEN /\ loading' = "loaded"
            /\ mTracedModules' = file.modules /\ readModules' = file.modules
       ELSE /\ loading' = IF file.kind = "noModules" THEN "threw" ELSE "invalid"
            /\ UNCHANGED <<mTracedModules, readModules>>
  /\ UNCHANGED <<settingsVar, disk>>

\* read_json, whose exceptions mean invalid settings, and parseTracedModules,
\* whose exception leaves loadSettings.
ReadFile ==
  /\ loading = "checked"
  /\ LET file == DiskAt(Unquoted(getSettingsFile)) IN
       IF file.kind = "valid"
       THEN /\ loading' = "loaded"
            /\ mTracedModules' = [i \in DOMAIN file.modules |-> toLowerCase(file.modules[i])]
            /\ readModules' = file.modules
       ELSE /\ loading' = IF file.kind = "noModules" THEN "threw" ELSE "invalid"
            /\ UNCHANGED <<mTracedModules, readModules>>
  /\ UNCHANGED <<settingsVar, disk>>

\* Somebody edits, removes or restores the settings.
EditSettings ==
  /\ disk' \in Disks
  /\ UNCHANGED <<settingsVar, loading, mTracedModules, readModules>>

\* JITCompilationStarted asks with the module's name in lower case.
isModuleTraced(name) ==
  \E i \in DOMAIN mTracedModules : mTracedModules[i] = toLowerCase(name)

loadSettings == CheckFile \/ ReadFile

-----------------------------------------------------------------------------
\* A module is traced if and only if the settings that were read list it, in
\* whatever case ("Convert to lowercase just to be certain",
\* TraceSettings.cpp:30), though the file may have changed since.
TracedAsListed ==
  loading = "loaded" =>
    \A name \in Names :
      isModuleTraced(name) <=> \E i \in DOMAIN readModules : readModules[i][1] = name[1]
=============================================================================
