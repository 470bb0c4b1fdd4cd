---------------------------- MODULE Il2cppTracer ----------------------------
(***************************************************************************)
(* The il2cpp tracer: JNI_OnLoad hooks the linker and registers a callback *)
(* (main.cpp, linker_callback.cpp); every load of libil2cpp.so starts a    *)
(* detached thread (hack.cpp) that waits for the virtual machine and then  *)
(* instruments each selected method (il2cpp_dump.cpp) through              *)
(* DobbyInstrument, while the game already runs those methods.  Dobby's    *)
(* Interceptor and the list of method infos have no lock.                  *)
(***************************************************************************)
EXTENDS Naturals, Sequences, FiniteSets

CONSTANTS
    Hacks,       \* the hack threads that can be started (bounds the loads)
    Game,        \* threads that run game code
    MethodOrder, \* the methods of all classes, in the order they are visited
    Selected,    \* the methods ishook accepts
    Addrs,       \* addresses of compiled methods
    NullAddr,    \* the pointer of a method without code
    Pointer      \* methodPointer of each method; methods may share one

Methods == {MethodOrder[i] : i \in DOMAIN MethodOrder}
ASSUME PointerAssumption ==
    /\ MethodOrder \in Seq(Methods)
    /\ Pointer \in [Methods -> Addrs \cup {NullAddr}]
    /\ Selected \subseteq Methods /\ NullAddr \notin Addrs

VARIABLES
    isTraceIl2cpp, \* trace, or dump the metadata only
    exported,    \* the library exports the il2cpp API under its names
    perClass,    \* ... and il2cpp_image_get_class, which old engines lack
    setup,       \* JNI_OnLoad: "start", "hooked" the linker, "registered"
    loaded,      \* libil2cpp.so is in the process
    vmReady,     \* il2cpp_init has run
    crashed,     \* a null API function was called
    hack,        \* each hack thread: where it is and the method it is at
    near,        \* startBranchTrampoline was called
    entries,     \* addresses the Interceptor has an entry for
    patches,     \* how many instrumentation patches each address carries
    infos,       \* methodInfoList: <<method, address>> pairs
    failed,      \* history: methods hook_il2cpp_method returned false for
    overlapped,  \* history: two hack threads were tracing at the same time
    game         \* each game thread: the method it is in and its callbacks left

lib == <<isTraceIl2cpp, exported, perClass, setup, loaded, vmReady>>
dobby == <<near, entries, patches>>
vars == <<lib, crashed, hack, dobby, infos, failed, overlapped, game>>

TypeOK ==
    /\ isTraceIl2cpp \in BOOLEAN /\ exported \in BOOLEAN /\ perClass \in BOOLEAN
    /\ setup \in {"start", "hooked", "registered"}
    /\ loaded \in BOOLEAN /\ vmReady \in BOOLEAN /\ crashed \in BOOLEAN
    /\ hack \in [Hacks -> [pc : {"none", "open", "wait", "ready", "scan", "patch",
                                 "add", "push", "close", "done"},
                           at : 1..(Len(MethodOrder) + 1)]]
    /\ near \in BOOLEAN
    /\ entries \subseteq Addrs
    /\ patches \in [Addrs -> Nat]
    /\ infos \in Seq(Methods \X Addrs)
    /\ failed \subseteq Methods
    /\ overlapped \in BOOLEAN
    /\ game \in [Game -> [addr : Addrs \cup {NullAddr},
                          left : Nat]]

Init ==
    /\ isTraceIl2cpp \in BOOLEAN /\ exported \in BOOLEAN /\ perClass \in BOOLEAN
    /\ setup = "start" /\ loaded = FALSE /\ vmReady = FALSE /\ crashed = FALSE
    /\ hack = [h \in Hacks |-> [pc |-> "none", at |-> 1]]
    /\ near = FALSE
    /\ entries = {} /\ patches = [a \in Addrs |-> 0]
    /\ infos = <<>> /\ failed = {} /\ overlapped = FALSE
    /\ game = [t \in Game |-> [addr |-> NullAddr, left |-> 0]]

------------------------------------------------------------------------------
(* Setting up, and the loads of libil2cpp.so.                               *)

\* hookLinkerCallBack hooks the linker first and registers its callback then.
hookLinkerCallBack ==
    /\ ~crashed
    /\ setup' = CASE setup = "start" -> "hooked"
                  [] setup = "hooked" -> "registered"
                  [] OTHER -> setup
    /\ setup # "registered"
    /\ UNCHANGED <<isTraceIl2cpp, exported, perClass, loaded, vmReady, crashed, hack, dobby,
                   infos, failed, overlapped, game>>

\* A load of libil2cpp.so returns, with a handle or without: loadAfter looks
\* at the path only, and hack_prepare starts a thread.
LoadIl2cpp(ok) ==
    /\ ~crashed
    /\ loaded' = (loaded \/ ok)
    /\ IF setup = "registered"
       THEN \E h \in Hacks : /\ hack[h].pc = "none"
                             /\ hack' = [hack EXCEPT ![h].pc = "open"]
       ELSE UNCHANGED hack
    /\ UNCHANGED <<isTraceIl2cpp, exported, perClass, setup, vmReady, crashed, dobby, infos,
                   failed, overlapped, game>>

VmInit ==
    /\ ~crashed /\ loaded /\ ~vmReady
    /\ vmReady' = TRUE
    /\ UNCHANGED <<isTraceIl2cpp, exported, perClass, setup, loaded, crashed, hack, dobby,
                   infos, failed, overlapped, game>>

------------------------------------------------------------------------------
(* A hack thread.                                                           *)

AtPc(h, pc) == ~crashed /\ hack[h].pc = pc
GoTo(h, pc) == hack' = [hack EXCEPT ![h].pc = pc]
NextMethod(h) == hack' = [hack EXCEPT ![h] = [pc |-> "scan", at |-> @.at + 1]]
Scanning(h) == hack[h].pc \in {"scan", "patch", "add", "push"}
Method(h) == MethodOrder[hack[h].at]
Address(h) == Pointer[Method(h)]

\* xdl_open finds the library, or the thread is over; without the exported API
\* il2cpp_api_init gives up at once, and hack_start goes on all the same.
HackOpen(h) ==
    /\ AtPc(h, "open")
    /\ IF loaded THEN GoTo(h, "wait") ELSE GoTo(h, "done")
    /\ crashed' = (loaded /\ ~exported)
    /\ UNCHANGED <<lib, dobby, infos, failed, overlapped, game>>

\* il2cpp_api_init polls until the virtual machine is up.
HackWaited(h) ==
    /\ AtPc(h, "wait") /\ vmReady
    /\ GoTo(h, "ready")
    /\ UNCHANGED <<lib, crashed, dobby, infos, failed, overlapped, game>>

\* Dumping the metadata reads the virtual machine and writes a file.
HackDump(h) ==
    /\ AtPc(h, "ready") /\ ~isTraceIl2cpp
    /\ GoTo(h, "close")
    /\ UNCHANGED <<lib, crashed, dobby, infos, failed, overlapped, game>>

\* Bug: a new tracing run starts with an empty list, like hookSize.
BugTraceResets(h) ==
    /\ AtPc(h, "ready") /\ isTraceIl2cpp /\ perClass
    /\ GoTo(h, "scan")
    /\ near' = TRUE
    /\ infos' = <<>>
    /\ overlapped' = (overlapped \/ \E g \in Hacks : Scanning(g))
    /\ UNCHANGED <<lib, crashed, entries, patches, failed, game>>

\* il2cpp_tracer begins: near branches go on, and stay on.  Without
\* il2cpp_image_get_class nothing is instrumented and nothing is said.
HackTrace(h) ==
    /\ AtPc(h, "ready") /\ isTraceIl2cpp
    /\ near' = TRUE
    /\ \/ /\ perClass
          /\ GoTo(h, "scan")
          /\ overlapped' = (overlapped \/ \E g \in Hacks : Scanning(g))
       \/ /\ ~perClass
          /\ GoTo(h, "close")
          /\ UNCHANGED overlapped
    /\ UNCHANGED <<lib, crashed, entries, patches, infos, failed, game>>

\* Bug: methods without code are not filtered out.
BugInstrumentable(h) == Method(h) \in Selected

\* Bug: Dobby's check for an existing entry is lost.
BugHasEntry(a) == FALSE

\* The next method is skipped, or DobbyInstrument looks for an entry.  It may
\* also find that the page cannot be made executable.
Instrumentable(h) == Address(h) # NullAddr /\ Method(h) \in Selected
HasEntry(a) == a \in entries

\* Bug: the first method that is skipped ends the enumeration.
BugFindStops(h) ==
    /\ AtPc(h, "scan") /\ hack[h].at <= Len(MethodOrder)
    /\ \/ /\ ~Instrumentable(h)
          /\ GoTo(h, "close")
          /\ UNCHANGED failed
       \/ /\ Instrumentable(h)
          /\ NextMethod(h)
          /\ failed' = failed \cup {Method(h)}
       \/ /\ Instrumentable(h) /\ ~HasEntry(Address(h))
          /\ GoTo(h, "patch")
          /\ UNCHANGED failed
    /\ UNCHANGED <<lib, crashed, dobby, infos, overlapped, game>>

\* Bug: a refused method is recorded like an instrumented one.
BugFindRecords(h) ==
    /\ AtPc(h, "scan") /\ hack[h].at <= Len(MethodOrder)
    /\ \/ /\ ~Instrumentable(h)
          /\ NextMethod(h)
          /\ UNCHANGED <<failed, infos>>
       \/ /\ Instrumentable(h)
          /\ NextMethod(h)
          /\ failed' = failed \cup {Method(h)}
          /\ infos' = Append(infos, <<Method(h), Address(h)>>)
       \/ /\ Instrumentable(h) /\ ~HasEntry(Address(h))
          /\ GoTo(h, "patch")
          /\ UNCHANGED <<failed, infos>>
    /\ UNCHANGED <<lib, crashed, dobby, overlapped, game>>

HackFind(h) ==
    /\ AtPc(h, "scan") /\ hack[h].at <= Len(MethodOrder)
    /\ \/ /\ ~Instrumentable(h)
          /\ NextMethod(h)
          /\ UNCHANGED failed
       \/ /\ Instrumentable(h)
          /\ NextMethod(h)
          /\ failed' = failed \cup {Method(h)}
       \/ /\ Instrumentable(h) /\ ~HasEntry(Address(h))
          /\ GoTo(h, "patch")
          /\ UNCHANGED failed
    /\ UNCHANGED <<lib, crashed, dobby, infos, overlapped, game>>

HackPatch(h) ==
    /\ AtPc(h, "patch")
    /\ patches' = [patches EXCEPT ![Address(h)] = @ + 1]
    /\ GoTo(h, "add")
    /\ UNCHANGED <<lib, crashed, near, entries, infos, failed, overlapped, game>>

\* Two threads that add to the same container at the same time race: one
\* element may be lost.
Racing(h) == \E g \in Hacks \ {h} : hack[g].pc = hack[h].pc

HackAddEntry(h) ==
    /\ AtPc(h, "add")
    /\ \/ entries' = entries \cup {Address(h)}
       \/ Racing(h) /\ UNCHANGED entries
    /\ GoTo(h, "push")
    /\ UNCHANGED <<lib, crashed, near, patches, infos, failed, overlapped, game>>

\* hook_il2cpp_method records the method once the trampoline is in place.
HackPush(h) ==
    /\ AtPc(h, "push")
    /\ \/ infos' = Append(infos, <<Method(h), Address(h)>>)
       \/ Racing(h) /\ UNCHANGED infos
    /\ NextMethod(h)
    /\ UNCHANGED <<lib, crashed, dobby, failed, overlapped, game>>

HackFinish(h) ==
    /\ AtPc(h, "scan") /\ hack[h].at > Len(MethodOrder)
    /\ GoTo(h, "close")
    /\ UNCHANGED <<lib, crashed, dobby, infos, failed, overlapped, game>>

HackClose(h) ==
    /\ AtPc(h, "close")
    /\ GoTo(h, "done")
    /\ UNCHANGED <<lib, crashed, dobby, infos, failed, overlapped, game>>

HackStep(h) == \/ HackOpen(h) \/ HackWaited(h) \/ HackDump(h) \/ HackTrace(h)
               \/ HackFind(h) \/ HackPatch(h) \/ HackAddEntry(h)
               \/ HackPush(h) \/ HackFinish(h) \/ HackClose(h)

------------------------------------------------------------------------------
(* The game runs instrumented methods.                                      *)

Known(a) == \E i \in DOMAIN infos : infos[i][2] = a

\* One callback for each trampoline the call runs through.
RunMethod(t, a) ==
    /\ ~crashed /\ vmReady /\ game[t].left = 0 /\ patches[a] > 0
    /\ game' = [game EXCEPT ![t] = [addr |-> a, left |-> patches[a]]]
    /\ UNCHANGED <<lib, crashed, hack, dobby, infos, failed, overlapped>>

\* instrument_callback prints the first info with the address, if there is one.
instrument_callback(t) ==
    /\ ~crashed /\ game[t].left > 0
    /\ game' = [game EXCEPT ![t].left = @ - 1]
    /\ UNCHANGED <<lib, crashed, hack, dobby, infos, failed, overlapped>>

Next ==
    \/ hookLinkerCallBack
    \/ \E ok \in BOOLEAN : LoadIl2cpp(ok)
    \/ VmInit
    \/ \E h \in Hacks : HackStep(h)
    \/ \E t \in Game : instrument_callback(t) \/ \E a \in Addrs : RunMethod(t, a)

Spec == Init /\ [][Next]_vars

\* Threads are scheduled, and a loaded engine initialises its virtual machine.
FairSpec == Spec /\ WF_vars(VmInit)
                 /\ \A h \in Hacks : WF_vars(HackStep(h))
                 /\ \A t \in Game : WF_vars(instrument_callback(t))

------------------------------------------------------------------------------
(* Properties.                                                             *)

InfosOf(a) == {i \in DOMAIN infos : infos[i][2] = a}
InWindow(a) == {h \in Hacks : hack[h].pc \in {"add", "push"} /\ Address(h) = a}

\* As long as hack threads run one after the other, every trampoline has an info
\* of its own, but for the one that is between addTrampoline's patch and
\* push_back (il2cpp_dump.cpp:570-571).
TrampolinesAreRecorded ==
    ~overlapped => \A a \in Addrs :
        patches[a] = Cardinality(InfosOf(a)) + Cardinality(InWindow(a))

\* A method is instrumented twice only if two hack threads were tracing at the
\* same time; shared method pointers and later loads do not do it.
DoublePatchNeedsOverlap == \A a \in Addrs : patches[a] > 1 => overlapped

\* "not find callback method info" (il2cpp_dump.cpp:557) is printed only while a
\* hack thread is about to record the method, or after two of them overlapped.
NotFoundOnlyInWindow ==
    [][\A t \in Game : game'[t].left < game[t].left /\ ~overlapped
                        => Known(game[t].addr) \/ InWindow(game[t].addr) # {}]_vars

\* Once a load was noticed that made the library available, every selected
\* method with code gets its trampoline and its info, or was refused, unless
\* the missing API crashes the process or a second hack thread interferes.
\* Engines without il2cpp_image_get_class are the exception: il2cpp_dump has a
\* way around it (il2cpp_dump.cpp:391-392), il2cpp_tracer traces none of their
\* methods and reports nothing (il2cpp_dump.cpp:594).
Recorded(m) == Known(Pointer[m]) \/ m \in failed
EventuallyTraced ==
    \A h \in Hacks : \A m \in Selected :
        hack[h].pc = "wait" /\ isTraceIl2cpp /\ perClass /\ Pointer[m] # NullAddr
            ~> Recorded(m) \/ crashed \/ overlapped
=============================================================================
