---------------------------- MODULE LinkerHandler ----------------------------
(***************************************************************************)
(* linkerHandler.cpp: the hook on the system linker.  Each library load    *)
(* tells the registered callbacks before and after, and may be redirected  *)
(* to another file.  Nothing is locked: threads load libraries while       *)
(* callbacks are registered and removed, and a load may start another one  *)
(* (constructors and JNI_OnLoad run inside it).                            *)
(***************************************************************************)
EXTENDS Naturals, Sequences, SequencesExt

CONSTANTS
    Threads,     \* threads that load libraries
    Paths,       \* library paths
    NullPath,    \* dlopen(nullptr)
    NoPath,      \* the empty string a redirect answers for "as it is"
    Callbacks,   \* LinkerLoadCallBack objects
    Redirects,   \* LinkerIORedirect objects
    NoRedirect,  \* no redirect set
    Reloc,       \* what each redirect object answers for each path
    Linkers,     \* the linkers of the devices: what relocate_linker finds
    MaxDepth     \* bound: loads inside loads

ASSUME RelocAssumption == Reloc \in [Redirects -> [Paths -> Paths \cup {NoPath}]]
ASSUME LinkersAssumption == Linkers \subseteq [exports : BOOLEAN, arch64 : BOOLEAN]

VARIABLES
    hook,         \* the linker function that is hooked: "none" yet, its
                  \* exported "dlopen", or the "openat" system call
    callBackList, \* linkerCallBackList; <<>> stands for the null pointer too
    registered,   \* history: callbacks ever added, which is done once each
    freed,        \* callbacks deleted by cleanCallBack
    dangling,     \* linkerCallBackList points to a deleted list
    deadCall,     \* history: a deleted callback was called
    redirect,     \* linkerIoRedirect
    aborted,      \* the process has aborted
    loads         \* the loads each thread is in, the innermost last

vars == <<hook, callBackList, registered, freed, dangling, deadCall, redirect,
          aborted, loads>>
registry == <<hook, callBackList, registered, freed, dangling, redirect, aborted>>

Load == [path : Paths \cup {NullPath},
         pc : {"before", "redirect", "orig", "inside", "after", "done"},
         i : Nat,                        \* the next callback of the iteration
         reloc : Paths \cup {NoPath},    \* relocated_path
         loaded : Paths \cup {NoPath, NullPath},   \* what the linker was given
         reported : SUBSET (Paths \cup {NoPath}),  \* what "after" was told
         due : SUBSET Callbacks,         \* history: registered at the start
         told : SUBSET Callbacks, toldAfter : SUBSET Callbacks]

TypeOK ==
    /\ hook \in {"none", "dlopen", "openat"}
    /\ callBackList \in Seq(Callbacks)
    /\ registered \subseteq Callbacks /\ freed \subseteq registered
    /\ dangling \in BOOLEAN /\ deadCall \in BOOLEAN /\ aborted \in BOOLEAN
    /\ redirect \in Redirects \cup {NoRedirect}
    /\ loads \in [Threads -> Seq(Load)]

Init ==
    /\ hook = "none"
    /\ callBackList = <<>> /\ registered = {} /\ freed = {} /\ dangling = FALSE
    /\ deadCall = FALSE
    /\ redirect = NoRedirect
    /\ aborted = FALSE
    /\ loads = [t \in Threads |-> <<>>]

------------------------------------------------------------------------------
(* The interface.                                                           *)

\* On 32-bit ARM the search reports system calls without their address, and
\* nothing gets hooked.
FoundSyscall(linker) == IF linker.arch64 THEN "openat" ELSE "none"

\* The first exported entry of the linker that is found is hooked; without
\* one, the openat system call inside it.
HookedEntry(linker) ==
    IF linker.exports THEN "dlopen" ELSE FoundSyscall(linker)

init ==
    /\ ~aborted /\ hook = "none"
    /\ \E linker \in Linkers : hook' = HookedEntry(linker)
    /\ UNCHANGED <<callBackList, registered, freed, dangling, deadCall, redirect,
                   aborted, loads>>

\* Into a deleted list the element may or may not get.
addLinkerCallBack(c) ==
    /\ ~aborted /\ c \notin registered
    /\ \/ callBackList' = Append(callBackList, c)
       \/ dangling /\ callBackList' = callBackList
    /\ registered' = registered \cup {c}
    /\ UNCHANGED <<hook, freed, dangling, deadCall, redirect, aborted, loads>>

\* The callbacks and the list are deleted, the pointer to the list stays.
cleanCallBack ==
    /\ ~aborted /\ callBackList # <<>> /\ ~dangling
    /\ freed' = freed \cup Range(callBackList)
    /\ dangling' = TRUE
    /\ UNCHANGED <<hook, callBackList, registered, deadCall, redirect, aborted, loads>>

\* The redirect may be set once; the second time is fatal.
linkerIORedirect(r) ==
    /\ ~aborted
    /\ IF redirect = NoRedirect
       THEN redirect' = r /\ UNCHANGED aborted
       ELSE aborted' = TRUE /\ UNCHANGED redirect
    /\ UNCHANGED <<hook, callBackList, registered, freed, dangling, deadCall, loads>>

------------------------------------------------------------------------------
(* The replacements of the linker's functions.                              *)

Inner(t) == loads[t][Len(loads[t])]
At(t, pc) == ~aborted /\ loads[t] # <<>> /\ Inner(t).pc = pc
Now(t, load) == loads' = [loads EXCEPT ![t] = Append(Front(@), load)]

\* A load begins, at the top or inside the original of another one (of each
\* load at most once, to bound the model).  A system call is not interrupted
\* by loads of its own thread.
BeginLoad(t, p) ==
    /\ ~aborted /\ hook # "none"
    /\ Len(loads[t]) < MaxDepth
    /\ loads[t] # <<>> => Inner(t).pc = "orig" /\ hook = "dlopen"
    /\ LET new == [path |-> p, pc |-> "before", i |-> 1, reloc |-> NoPath,
                   loaded |-> NoPath, reported |-> {}, due |-> Range(callBackList),
                   told |-> {}, toldAfter |-> {}]
           outer == IF loads[t] = <<>> THEN <<>>
                    ELSE Append(Front(loads[t]), [Inner(t) EXCEPT !.pc = "inside"])
       IN  loads' = [loads EXCEPT ![t] = Append(outer, new)]
    /\ UNCHANGED <<registry, deadCall>>

\* Bug: the last element is left out.
BugHasNext(load) == load.i < Len(callBackList)

\* The loop over the list: the list is read anew at every turn.  The elements
\* of a deleted list may still be there, or not.
HasNext(load) == load.i <= Len(callBackList)
LoopEnds(load) ==
    \/ load.path = NullPath
    \/ ~HasNext(load)
    \/ dangling

TellBefore(t) ==
    /\ At(t, "before")
    /\ Inner(t).path # NullPath /\ HasNext(Inner(t))
    /\ LET c == callBackList[Inner(t).i]
       IN  /\ Now(t, [Inner(t) EXCEPT !.i = @ + 1, !.told = @ \cup {c}])
           /\ deadCall' = (deadCall \/ c \in freed)
    /\ UNCHANGED registry

BeforeDone(t) ==
    /\ At(t, "before") /\ LoopEnds(Inner(t))
    /\ Now(t, [Inner(t) EXCEPT !.pc = "redirect"])
    /\ UNCHANGED <<registry, deadCall>>

\* Bug: "as it is" is answered with the path itself, which may be null.
BugRedirectOf(p) ==
    IF p = NullPath \/ redirect = NoRedirect THEN p ELSE Reloc[redirect][p]

RedirectOf(p) ==
    IF p = NullPath \/ redirect = NoRedirect THEN NoPath ELSE Reloc[redirect][p]

\* The path is looked up once, for the original and for the report.
AskRedirect(t) ==
    /\ At(t, "redirect")
    /\ LET q == RedirectOf(Inner(t).path)
       IN  Now(t, [Inner(t) EXCEPT !.pc = "orig", !.reloc = q,
                      !.loaded = IF q = NoPath THEN Inner(t).path ELSE q])
    /\ UNCHANGED <<registry, deadCall>>

OrigReturns(t) ==
    /\ At(t, "orig") \/ At(t, "inside")
    /\ Now(t, [Inner(t) EXCEPT !.pc = "after", !.i = 1])
    /\ UNCHANGED <<registry, deadCall>>

\* Bug: the redirect is asked a second time, for the report.
BugReport(load) == RedirectOf(load.path)

\* Whether the load succeeded makes no difference: a failed one is reported
\* like any other, with a null handle.
Report(load) == load.reloc

\* Bug: a callback that is told is told again, the walk does not go on.
BugTellAfter(t) ==
    /\ At(t, "after")
    /\ Inner(t).path # NullPath /\ HasNext(Inner(t))
    /\ LET c == callBackList[Inner(t).i]
       IN  /\ Now(t, [Inner(t) EXCEPT !.toldAfter = @ \cup {c},
                                      !.reported = @ \cup {Report(Inner(t))}])
           /\ deadCall' = (deadCall \/ c \in freed)
    /\ UNCHANGED registry

TellAfter(t) ==
    /\ At(t, "after")
    /\ Inner(t).path # NullPath /\ HasNext(Inner(t))
    /\ LET c == callBackList[Inner(t).i]
       IN  /\ Now(t, [Inner(t) EXCEPT !.i = @ + 1, !.toldAfter = @ \cup {c},
                                      !.reported = @ \cup {Report(Inner(t))}])
           /\ deadCall' = (deadCall \/ c \in freed)
    /\ UNCHANGED registry

AfterDone(t) ==
    /\ At(t, "after") /\ LoopEnds(Inner(t))
    /\ Now(t, [Inner(t) EXCEPT !.pc = "done"])
    /\ UNCHANGED <<registry, deadCall>>

EndLoad(t) ==
    /\ At(t, "done")
    /\ loads' = [loads EXCEPT ![t] = Front(@)]
    /\ UNCHANGED <<registry, deadCall>>

LoadStep(t) ==
    \/ TellBefore(t) \/ BeforeDone(t) \/ AskRedirect(t) \/ OrigReturns(t)
    \/ TellAfter(t) \/ AfterDone(t) \/ EndLoad(t)

Next ==
    \/ init
    \/ \E c \in Callbacks : addLinkerCallBack(c)
    \/ cleanCallBack
    \/ \E r \in Redirects : linkerIORedirect(r)
    \/ \E t \in Threads :
          \/ \E p \in Paths \cup {NullPath} : BeginLoad(t, p)
          \/ LoadStep(t)

Spec == Init /\ [][Next]_vars

\* A thread inside a load keeps running until the process aborts.
FairSpec == Spec /\ \A t \in Threads : WF_vars(LoadStep(t))

------------------------------------------------------------------------------
(* Properties.                                                             *)

LoadsAt(pcs) ==
    {load \in UNION {Range(loads[t]) : t \in Threads} :
        load.pc \in pcs /\ load.path # NullPath}

\* Until the callbacks are cleaned: whoever was registered when a load began
\* hears of it before the linker does, and of its end before the caller does, although
\* the list is walked while others add to it.
ToldBothSides ==
    ~dangling =>
        /\ \A load \in LoadsAt({"redirect", "orig", "inside", "after", "done"}) :
              load.due \subseteq load.told
        /\ \A load \in LoadsAt({"done"}) : load.due \subseteq load.toldAfter

\* The report of a load names the file that was loaded, also when the redirect
\* is set while the load is under way.
ReportsWhatWasLoaded ==
    \A load \in LoadsAt({"after", "done"}) : \A q \in load.reported :
        load.loaded = IF q = NoPath THEN load.path ELSE q

\* A load that began ends, callbacks and nested loads included, unless the
\* process aborts.
LoadsEnd == \A t \in Threads : loads[t] # <<>> ~> loads[t] = <<>> \/ aborted

\* After cleanCallBack no callback is left: "clears all the callbacks"
\* (linkerHandler.h:59).
CleanedAreSilent == ~deadCall
=============================================================================
