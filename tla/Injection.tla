------------------------------ MODULE Injection ------------------------------
(***************************************************************************)
(* From a choice in the user interface to tracing in the chosen process.   *)
(* The module's app saves a configuration: a file and a dex in the data    *)
(* directory of the chosen app, moved there by root, and then its own      *)
(* preferences (MainListViewAdapter.java).  Xposed calls LHook in every    *)
(* process for every package that is loaded; LHook reads the configuration,*)
(* waits for a Context, merges the dex into a class loader, loads the      *)
(* library and starts the tracers.  Its fields are static and not locked.  *)
(***************************************************************************)
EXTENDS Naturals, Sequences, FiniteSets

CONSTANTS
    Packages,       \* packages that can be chosen, and loaded into a process
    Functions,      \* tracers that can be selected
    Configs,        \* configurations that the user saves
    Threads, Main,  \* threads of a process, and the one that it begins with
    Module,         \* the class loader of the module itself
    None, Empty,    \* no file or preference yet, and a file without a line
    MaxSaves,       \* bound on the saves
    MaxLoads        \* bound on the packages that one process loads further

\* isSerialization asks for a dump of the memory instead of tracers.
Configurations == [package : Packages, functions : SUBSET Functions,
                   system : BOOLEAN, serialization : BOOLEAN]

ASSUME ConfigsAssumption ==
    /\ Configs \subseteq Configurations /\ Main \in Threads /\ Module \notin Packages
    /\ None \notin Packages \cup Configs \cup {Module} /\ Empty \notin Configs \cup {None}
ASSUME BoundsAssumption == MaxSaves \in Nat /\ MaxLoads \in Nat

VARIABLES
    saving,     \* the save in progress: step, configuration, file, whether a step failed
    prefs,      \* CONFIG_JSON in the module's preferences
    files,      \* the configuration file in the directory of each package
    dexes,      \* the packages that have a readable dex there
    saved,      \* the configuration of the last save, unless it failed
    host,       \* the package whose process runs, or None
    fields,     \* the static fields of LHook, and what was merged and loaded
    threads,    \* where each thread of the process is in LHook
    starts,     \* calls of startHookJni that reached native code
    due,        \* the configuration that this process is to be traced with
    met,        \* two threads were in LHook at once
    hindered,   \* another save was begun, or reading or loading failed
    counts      \* saves so far, and further loads of the process

store == <<saving, prefs, files, dexes, saved>>
process == <<host, fields, threads, starts, due, met, hindered>>
vars == <<store, process, counts>>

------------------------------------------------------------------------------
(* The module's app saves a configuration.                                  *)

Idle == [at |-> "idle", package |-> None, class |-> None]
Fresh == [tag |-> None, functions |-> {}, system |-> FALSE, serialization |-> FALSE,
          loader |-> None, isInit |-> FALSE, hooked |-> FALSE, merged |-> {}, lib |-> None,
          named |-> FALSE]
NotSaving == [at |-> "idle", config |-> None, file |-> Empty, failed |-> FALSE]

Init ==
    /\ saving = NotSaving /\ prefs = None /\ saved = None
    /\ files = [p \in Packages |-> None] /\ dexes = {}
    /\ host = None /\ fields = Fresh /\ threads = [t \in Threads |-> Idle]
    /\ starts = <<>> /\ due = None /\ met = FALSE /\ hindered = FALSE
    /\ counts = [saves |-> 0, loads |-> 0]

Hinder == hindered' = (due # None)
Target == saving.config.package
SaveGoes(at) == saving' = [saving EXCEPT !.at = at]
SaveFails == saving' = [saving EXCEPT !.at = "put", !.failed = TRUE]

\* The user confirms.
SaveConfig(c) ==
    /\ saving.at = "idle" /\ counts.saves < MaxSaves
    /\ saving' = [NotSaving EXCEPT !.at = "write", !.config = c]
    /\ saved' = None /\ Hinder
    /\ counts' = [counts EXCEPT !.saves = @ + 1]
    /\ UNCHANGED <<prefs, files, dexes, host, fields, threads, starts, due, met>>

\* A file is written in the module's own directory; saveString swallows an
\* error.  Without a file the rest is skipped, but not the preferences, and
\* where root is refused the rest has no effect: what a shell command answers
\* is never looked at.
WriteTemp ==
    /\ saving.at = "write"
    /\ \/ \E file \in {saving.config, Empty} :
             saving' = [saving EXCEPT !.at = "remove", !.file = file,
                                     !.failed = (file = Empty)]
       \/ SaveFails
    /\ UNCHANGED <<prefs, files, dexes, saved, process, counts>>

\* What is already there is removed, where the module can see it at all.
RemoveOld ==
    /\ saving.at = "remove" /\ SaveGoes("move")
    /\ \/ files' = [files EXCEPT ![Target] = None]
       \/ UNCHANGED files
    /\ \/ dexes' = dexes \ {Target}
       \/ UNCHANGED dexes
    /\ UNCHANGED <<prefs, saved, process, counts>>

\* Bug: a file that is there is not overwritten ("mv" without "-f").
BugMoveConfig ==
    /\ saving.at = "move" /\ SaveGoes("extract")
    /\ files' = [files EXCEPT ![Target] = IF @ = None THEN saving.file ELSE @]
    /\ UNCHANGED <<prefs, dexes, saved, process, counts>>

MoveConfig ==
    /\ saving.at = "move" /\ SaveGoes("extract")
    /\ files' = [files EXCEPT ![Target] = saving.file]
    /\ UNCHANGED <<prefs, dexes, saved, process, counts>>

\* The dex is extracted, which may fail, moved, and made readable.
MoveDex ==
    /\ saving.at = "extract"
    /\ \/ /\ SaveGoes("chmod")
          /\ dexes' = dexes \ {Target}
       \/ SaveFails /\ UNCHANGED dexes
    /\ UNCHANGED <<prefs, files, saved, process, counts>>

\* Bug: what is made readable is the dex that the app keeps for itself.
BugChmod ==
    /\ saving.at = "chmod" /\ SaveGoes("put")
    /\ UNCHANGED <<prefs, files, dexes, saved, process, counts>>

Chmod ==
    /\ saving.at = "chmod" /\ SaveGoes("put")
    /\ dexes' = dexes \cup {Target}
    /\ UNCHANGED <<prefs, files, saved, process, counts>>

\* Bug: the preferences get what was written to the file.
BugPutString ==
    /\ saving.at = "put" /\ saving' = NotSaving
    /\ prefs' = saving.file
    /\ saved' = IF saving.failed THEN None ELSE saving.config
    /\ UNCHANGED <<files, dexes, process, counts>>

\* The preferences come last, and "saved" is shown whatever happened.
PutString ==
    /\ saving.at = "put" /\ saving' = NotSaving
    /\ prefs' = saving.config
    /\ saved' = IF saving.failed THEN None ELSE saving.config
    /\ UNCHANGED <<files, dexes, process, counts>>

\* The module's app is killed while it saves.
ModuleDies ==
    /\ saving.at # "idle" /\ saving' = NotSaving
    /\ UNCHANGED <<prefs, files, dexes, saved, process, counts>>

------------------------------------------------------------------------------
(* A process starts, and packages are loaded into it.                       *)

At(t, at) == threads[t].at = at
Goes(t, at) == threads' = [threads EXCEPT ![t].at = at]
Leaves(t) == threads' = [threads EXCEPT ![t] = Idle]
Enters(t, at, p) ==
    /\ host # None /\ At(t, "idle")
    /\ threads' = [threads EXCEPT ![t] = [Idle EXCEPT !.at = at, !.package = p]]
    /\ met' = (met \/ \E u \in Threads : ~At(u, "idle"))
Traceable(c) == c # None /\ c.functions # {} /\ ~c.serialization

Launch(h) ==
    /\ host = None
    /\ host' = h /\ fields' = [Fresh EXCEPT !.loader = h]
    /\ threads' = [threads EXCEPT ![Main] = [Idle EXCEPT !.at = "prefs", !.package = h]]
    /\ due' = IF Traceable(saved) /\ saved.package = h THEN saved ELSE None
    /\ hindered' = FALSE /\ UNCHANGED <<store, starts, met, counts>>
Kill ==
    /\ host # None /\ host' = None
    /\ fields' = Fresh /\ threads' = [t \in Threads |-> Idle] /\ starts' = <<>>
    /\ due' = None /\ met' = FALSE /\ hindered' = FALSE
    /\ counts' = [counts EXCEPT !.loads = 0] /\ UNCHANGED store

\* handleLoadPackage, for a package that is loaded later: the class loader is
\* overwritten first.  Xposed reports a package once.
HandleLoadPackage(t, p) ==
    /\ p # host /\ counts.loads < MaxLoads /\ Enters(t, "prefs", p)
    /\ fields' = [fields EXCEPT !.loader = p]
    /\ counts' = [counts EXCEPT !.loads = @ + 1]
    /\ UNCHANGED <<store, host, starts, due, hindered>>

\* The lists are added to: what an earlier load has read stays in them.
InitConfigData(json) ==
    IF json \in Configs
    THEN [fields EXCEPT !.tag = json.package, !.functions = @ \cup json.functions,
                        !.system = json.system, !.serialization = json.serialization,
                        !.named = @ \/ json.package = host]
    ELSE fields

\* XSharedPreferences cannot be read in every process; then the file is.
ReadPrefs(t) ==
    /\ At(t, "prefs")
    /\ \E json \in {prefs, None} :
          /\ fields' = InitConfigData(json)
          /\ Goes(t, IF json = None THEN "file" ELSE "match")
    /\ UNCHANGED <<store, host, starts, due, met, hindered, counts>>

\* The process sees the directory of its own package only.  A file that
\* cannot be read leaves the fields as they are, and they are compared.
ReadFile(t) ==
    LET p == threads[t].package
    IN  /\ At(t, "file")
        /\ \/ /\ p # host \/ files[p] = None
              /\ Leaves(t) /\ UNCHANGED <<fields, hindered>>
           \/ /\ p = host /\ files[p] # None /\ Goes(t, "match")
              /\ \/ fields' = InitConfigData(files[p]) /\ UNCHANGED hindered
                 \/ Hinder /\ UNCHANGED fields
        /\ UNCHANGED <<store, host, starts, due, met, counts>>

\* isMatch and startInit: without a Context, createAppContext is hooked.
Match(t) ==
    /\ At(t, "match")
    /\ \/ /\ fields.tag # threads[t].package
          /\ Leaves(t) /\ UNCHANGED fields
       \/ /\ fields.tag = threads[t].package
          /\ \/ /\ threads' = [threads EXCEPT ![t] = [Idle EXCEPT !.at = "test"]]
                /\ UNCHANGED fields
             \/ fields' = [fields EXCEPT !.hooked = TRUE] /\ Leaves(t)
    /\ UNCHANGED <<store, host, starts, due, met, hindered, counts>>
CreateAppContext(t) ==
    /\ fields.hooked /\ Enters(t, "test", None)
    /\ UNCHANGED <<store, host, fields, starts, due, hindered, counts>>

------------------------------------------------------------------------------
(* initFunJni.                                                              *)

TestInit(t) ==
    /\ At(t, "test")
    /\ \/ fields.isInit /\ Leaves(t)
       \/ ~fields.isInit /\ Goes(t, IF fields.serialization THEN "set" ELSE "merge")
    /\ UNCHANGED <<store, host, fields, starts, due, met, hindered, counts>>

\* intoMySo: the dex is merged into the class loader and the library loaded
\* with it, once for all; failure is logged, and not told to the caller.
LoaderOf == IF fields.system THEN fields.loader ELSE Module
Merge(t) ==
    /\ At(t, "merge") /\ Goes(t, "find")
    /\ \/ /\ host \in dexes
          /\ \/ /\ fields' = [fields EXCEPT !.merged = @ \cup {LoaderOf},
                                !.lib = IF @ = None THEN LoaderOf ELSE @]
                /\ UNCHANGED hindered
             \/ /\ fields' = [fields EXCEPT !.merged = @ \cup {LoaderOf}]
                /\ Hinder
       \/ host \notin dexes /\ UNCHANGED <<fields, hindered>>
    /\ UNCHANGED <<store, host, starts, due, met, counts>>

\* The class is looked for in the class loader, which is read again.
FindClass(t) ==
    /\ At(t, "find")
    /\ \/ /\ LoaderOf \in fields.merged
          /\ threads' = [threads EXCEPT ![t].at = "file for lines", ![t].class = LoaderOf]
       \/ LoaderOf \notin fields.merged /\ Leaves(t)
    /\ UNCHANGED <<store, host, fields, starts, due, met, hindered, counts>>

\* The file for the lines is made in the directory named by the tag; an
\* exception there ends the attempt for good, an empty list does not.
MakeFile(t) ==
    /\ At(t, "file for lines")
    /\ \/ fields.tag # host /\ Goes(t, "set")
       \/ fields.tag = host /\ fields.functions # {} /\ Goes(t, "start")
       \/ fields.tag = host /\ fields.functions = {} /\ Leaves(t)
    /\ UNCHANGED <<store, host, fields, starts, due, met, hindered, counts>>

\* The native method is there only for the class loader that the library was
\* loaded with; otherwise an error is caught and logged.
StartHookJni(t) ==
    /\ At(t, "start") /\ Goes(t, "set")
    /\ starts' = IF threads[t].class = fields.lib
                 THEN Append(starts, [functions |-> fields.functions, loader |-> fields.lib])
                 ELSE starts
    /\ UNCHANGED <<store, host, fields, due, met, hindered, counts>>

\* Bug: the flag is set only where the memory is dumped.
BugSetInit(t) ==
    /\ At(t, "set") /\ Leaves(t)
    /\ fields' = [fields EXCEPT !.isInit = @ \/ fields.serialization]
    /\ UNCHANGED <<store, host, starts, due, met, hindered, counts>>

SetInit(t) ==
    /\ At(t, "set") /\ Leaves(t)
    /\ fields' = [fields EXCEPT !.isInit = TRUE]
    /\ UNCHANGED <<store, host, starts, due, met, hindered, counts>>

------------------------------------------------------------------------------
Save ==
    \/ \E c \in Configs : SaveConfig(c)
    \/ WriteTemp \/ RemoveOld \/ MoveConfig \/ MoveDex \/ Chmod \/ PutString \/ ModuleDies
Hook(t) ==
    \/ ReadPrefs(t) \/ ReadFile(t) \/ Match(t) \/ TestInit(t) \/ Merge(t)
    \/ FindClass(t) \/ MakeFile(t) \/ StartHookJni(t) \/ SetInit(t)
Next ==
    \/ Save \/ Kill
    \/ \E h \in Packages : Launch(h)
    \/ \E t \in Threads : CreateAppContext(t) \/ Hook(t)
    \/ \E t \in Threads, p \in Packages : HandleLoadPackage(t, p)

\* Threads go on, and the framework creates Contexts.  Nothing makes a user
\* save, or the system start and kill processes.
Spec ==
    /\ Init /\ [][Next]_vars
    /\ \A t \in Threads : WF_vars(Hook(t))
    /\ WF_vars(\E t \in Threads : CreateAppContext(t))

------------------------------------------------------------------------------
(* Properties.                                                              *)

Loaders == Packages \cup {Module}
SaveSteps == {"idle", "write", "remove", "move", "extract", "chmod", "put"}
Steps == {"idle", "prefs", "file", "match", "test", "merge", "find", "file for lines",
          "start", "set"}
TypeOK ==
    /\ saving \in [at : SaveSteps, config : Configs \cup {None},
                   file : Configs \cup {Empty}, failed : BOOLEAN]
    /\ {prefs, saved, due} \subseteq Configs \cup {None} /\ host \in Packages \cup {None}
    /\ files \in [Packages -> Configs \cup {None, Empty}]
    /\ dexes \subseteq Packages
    /\ fields \in [tag : Packages \cup {None}, functions : SUBSET Functions,
                   system : BOOLEAN, serialization : BOOLEAN, loader : Packages \cup {None},
                   isInit : BOOLEAN, hooked : BOOLEAN, merged : SUBSET Loaders,
                   lib : Loaders \cup {None}, named : BOOLEAN]
    /\ threads \in [Threads -> [at : Steps, package : Packages \cup {None},
                                class : Loaders \cup {None}]]
    /\ starts \in Seq([functions : SUBSET Functions, loader : Loaders])
    /\ met \in BOOLEAN /\ hindered \in BOOLEAN
    /\ counts \in [saves : 0..MaxSaves, loads : 0..MaxLoads]

\* The tracers are started at most once in a process, and so the file that
\* they write to is not deleted under them, unless two threads were between
\* the test of isInit and its being set (initFunJni).
StartedOnce == met \/ Len(starts) <= 1

\* A process is traced only after it has read a configuration that names its
\* own package, whatever other packages it loads; and if that was saved
\* completely before the process began, it is traced with what it lists
\* (handleLoadPackage, isMatch, initConfigData), however long ago that was:
\* the ten minutes of LHook.java:213 are in a comment only, the test of them
\* is commented out.
StartsAsChosen ==
    starts # <<>> =>
        /\ fields.named
        /\ due # None /\ ~hindered => starts[1].functions = due.functions

\* A process that begins after its configuration was saved completely is
\* traced in the end, whether it reads the preferences or the file, and
\* whether it finds a Context or waits for one.  The age of the configuration
\* plays no part in it: the ten minutes of LHook.java:213 are not tested.
StartsInTheEnd == due # None ~> (starts # <<>> \/ met \/ hindered \/ host = None)
=============================================================================
