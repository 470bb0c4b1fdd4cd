------------------------------ MODULE TracerLog ------------------------------
(***************************************************************************)
(* main.cpp, stringHandler.cpp, invokePrintf.cpp: startHookJni starts up   *)
(* to five tracers, one after the other, and gives all of them the same    *)
(* file stream.  Two of the tracers look at the library a call comes from; *)
(* two can be stopped, and delete the stream they share with the others.   *)
(* JNI calls, modelled in JniTrace, appear here as one function.           *)
(*                                                                         *)
(* A thread is a stack of calls to replacements, as in JniTrace:           *)
(*   "orig"   call the original function,                                  *)
(*   "back"   the original is running,                                     *)
(*   "own"    a JNI call that the tracer makes to describe an object,      *)
(*   "tell"   the linker tells its callbacks,                              *)
(*   "line"   write one line.                                              *)
(***************************************************************************)
EXTENDS Naturals, Sequences, FiniteSets, SequencesExt

CONSTANTS
    Threads,     \* threads that call hooked functions
    OwnSo,       \* the tracers' own library, CORE_SO_NAME
    AppSos,      \* libraries of the application, under /data/
    SysSos,      \* libraries of the system
    NoSo,        \* match_so_name before the first match
    Requests,    \* what startHookJni is called with, and finds
    MaxCalls     \* bound: calls under way at once, of all threads

Sos == {OwnSo} \cup AppSos \cup SysSos

\* The tracers, in the order startHookJni looks for them in the list.
Order == <<"jni", "string", "register", "linker", "invoke">>
Tracers == Range(Order)

\* The replaced functions of each tracer, in the order they are hooked, by
\* the shapes of their replacements; the linker's callback comes last.
FunsOf(tracer) ==
    CASE tracer = "jni"      -> <<"CallObjectMethodV">>
      [] tracer = "string"   -> <<"strstr", "strdup">>
      [] tracer = "register" -> <<"RegisterNative">>
      [] tracer = "linker"   -> <<"dlopen", "callback">>
      [] tracer = "invoke"   -> <<"invoke">>

Funs == {"CallObjectMethodV", "strstr", "strdup", "RegisterNative", "dlopen", "invoke"}

\* Each file keeps a stream and isSave; invokePrintf.cpp has two tracers.
Sinks == {"jni", "string", "linker", "invoke"}
SinkOf(f) ==
    CASE f = "CallObjectMethodV"             -> "jni"
      [] f \in {"strstr", "strdup"}          -> "string"
      [] f = "dlopen"                        -> "linker"
      [] f \in {"RegisterNative", "invoke"}  -> "invoke"
Filtering == {"jni", "string"}     \* the sinks that look at the library

Request == [list : SUBSET Tracers,         \* function_list
            all : BOOLEAN, filter : SUBSET Sos,
            found : SUBSET Tracers,        \* whose functions are found
            pretty : BOOLEAN,              \* PrettyMethod is found
            opens : BOOLEAN,               \* the file opens
            stops : BOOLEAN]               \* somebody calls stopjnitrace
ASSUME RequestsAssumption == Requests \subseteq Request

VARIABLES
    request,       \* the request
    at, turn,      \* where startHookJni is, and at which tracer
    file,          \* the stream it makes: "none", "open" or "deleted"
    os, isSave,    \* the stream and flag of each sink
    filterSoList,  \* the filter of the sinks that have one
    prettySym,     \* invokePrintf_org_PrettyMethodSym is set
    hooked,        \* functions hooked so far
    crashed,       \* the deleted stream was used, and the process has died
    match_so_name, \* the library of the last call that matched, by sink
    stopping,      \* how far the stopjnitrace of a sink is
    stack,         \* the calls each thread is in, the innermost last
    writing        \* its line's stage: "no", "checked" or "stream"

starter == <<request, at, turn, file, os, isSave, filterSoList, prettySym, hooked,
             crashed>>
vars == <<starter, match_so_name, stopping, stack, writing>>

Steps == {"orig", "back", "own", "tell", "line"}
CallFrame == [fun : Funs, so : Sos, traced : BOOLEAN, todo : Seq(Steps),
              mixed : BOOLEAN]   \* history: the label was overwritten since

TypeOK ==
    /\ request \in Requests
    /\ at \in {"idle", "open", "next", "store", "hook", "failed", "done"}
    /\ turn \in 1..(Len(Order) + 1)
    /\ file \in {"none", "open", "deleted"}
    /\ os \in [Sinks -> {"null", "file"}] /\ isSave \in [Sinks -> BOOLEAN]
    /\ filterSoList \in [Filtering -> SUBSET Sos]
    /\ prettySym \in BOOLEAN
    /\ hooked \subseteq Funs \cup {"callback"} /\ crashed \in BOOLEAN
    /\ match_so_name \in [Filtering -> Sos \cup {NoSo}]
    /\ stopping \in [Filtering -> {"no", "begun", "deleted", "done"}]
    /\ stack \in [Threads -> Seq(CallFrame)]
    /\ writing \in [Threads -> {"no", "checked", "stream"}]

Init ==
    /\ request \in Requests
    /\ at = "idle" /\ turn = 1
    /\ file = "none"
    /\ os = [s \in Sinks |-> "null"] /\ isSave = [s \in Sinks |-> FALSE]
    /\ filterSoList = [s \in Filtering |-> {}]
    /\ prettySym = FALSE
    /\ hooked = {} /\ crashed = FALSE
    /\ match_so_name = [s \in Filtering |-> NoSo]
    /\ stopping = [s \in Filtering |-> "no"]
    /\ stack = [t \in Threads |-> <<>>]
    /\ writing = [t \in Threads |-> "no"]

------------------------------------------------------------------------------
(* startHookJni.                                                            *)

startHookJni ==
    /\ at = "idle"
    /\ at' = "open"
    /\ UNCHANGED <<request, turn, file, os, isSave, filterSoList, prettySym, hooked,
                   match_so_name, stopping, stack, writing, crashed>>

\* A file that does not open ends everything.
OpenFile ==
    /\ at = "open"
    /\ IF request.opens
       THEN at' = "next" /\ file' = "open"
       ELSE at' = "failed" /\ UNCHANGED file
    /\ UNCHANGED <<request, turn, os, isSave, filterSoList, prettySym, hooked,
                   match_so_name, stopping, stack, writing, crashed>>

Tracer == Order[turn]
SinkOfTracer == IF Tracer = "register" THEN "invoke" ELSE Tracer

\* Bug: the stream belongs to startHookJni, and is gone when it returns.
BugLookForTracer ==
    /\ at = "next"
    /\ IF turn > Len(Order) THEN at' = "done" /\ file' = "deleted" /\ UNCHANGED turn
       ELSE IF Tracer \in request.list THEN at' = "store" /\ UNCHANGED <<turn, file>>
       ELSE turn' = turn + 1 /\ UNCHANGED <<at, file>>
    /\ UNCHANGED <<request, os, isSave, filterSoList, prettySym, hooked,
                   match_so_name, stopping, stack, writing, crashed>>

LookForTracer ==
    /\ at = "next"
    /\ IF turn > Len(Order) THEN at' = "done" /\ UNCHANGED turn
       ELSE IF Tracer \in request.list THEN at' = "store" /\ UNCHANGED turn
       ELSE turn' = turn + 1 /\ UNCHANGED at
    /\ UNCHANGED <<request, file, os, isSave, filterSoList, prettySym, hooked,
                   match_so_name, stopping, stack, writing, crashed>>

\* A tracer keeps the lists, the stream and the flag.  No function of the
\* sink is hooked yet, or they already have these values (invokePrintf): the
\* order of the assignments cannot be seen.
StoreSettings ==
    /\ at = "store"
    /\ at' = "hook"
    /\ os' = [os EXCEPT ![SinkOfTracer] = "file"]
    /\ isSave' = [isSave EXCEPT ![SinkOfTracer] = TRUE]
    /\ filterSoList' = [s \in Filtering |->
                          IF s = Tracer THEN request.filter ELSE filterSoList[s]]
    /\ prettySym' = (prettySym \/ (SinkOfTracer = "invoke" /\ request.pretty))
    /\ UNCHANGED <<request, turn, file, hooked, match_so_name, stopping, stack, writing, crashed>>

\* invokePrintf needs PrettyMethod; nobody gets a function it does not find.
CanHook ==
    /\ Tracer \in request.found
    /\ SinkOfTracer = "invoke" => prettySym

HookNext(i) ==
    /\ at = "hook" /\ CanHook
    /\ i \in DOMAIN FunsOf(Tracer)
    /\ \A j \in DOMAIN FunsOf(Tracer) : FunsOf(Tracer)[j] \in hooked <=> j < i
    /\ hooked' = hooked \cup {FunsOf(Tracer)[i]}
    /\ UNCHANGED <<request, at, turn, file, os, isSave, filterSoList, prettySym,
                   match_so_name, stopping, stack, writing, crashed>>

\* Bug: a tracer that cannot hook ends startHookJni.
BugEndTracer ==
    /\ at = "hook"
    /\ Range(FunsOf(Tracer)) \subseteq hooked \/ ~CanHook
    /\ at' = IF CanHook THEN "next" ELSE "done"
    /\ turn' = turn + 1
    /\ UNCHANGED <<request, file, os, isSave, filterSoList, prettySym, hooked,
                   match_so_name, stopping, stack, writing, crashed>>

\* The next tracer's turn comes whether this one succeeded or not.
EndTracer ==
    /\ at = "hook"
    /\ Range(FunsOf(Tracer)) \subseteq hooked \/ ~CanHook
    /\ at' = "next"
    /\ turn' = turn + 1
    /\ UNCHANGED <<request, file, os, isSave, filterSoList, prettySym, hooked,
                   match_so_name, stopping, stack, writing, crashed>>

StartStep ==
    \/ OpenFile \/ LookForTracer \/ StoreSettings
    \/ \E i \in 1..2 : HookNext(i)
    \/ EndTracer

------------------------------------------------------------------------------
(* stopjnitrace, of Jnitrace and of stringHandler.                          *)

StopClearFilter(s) ==
    /\ request.stops /\ os[s] = "file" /\ stopping[s] = "no"
    /\ filterSoList' = [filterSoList EXCEPT ![s] = {}]
    /\ stopping' = [stopping EXCEPT ![s] = "begun"]
    /\ UNCHANGED <<request, at, turn, file, os, isSave, prettySym, hooked,
                   match_so_name, stack, writing, crashed>>

\* What a deleted stream does when it is used is undefined: nothing, or the
\* process dies.
UseOfStream == crashed' \in IF file = "deleted" THEN BOOLEAN ELSE {FALSE}

\* The stream is deleted, whoever else has it, perhaps for the second time;
\* the pointers stay.
StopDelete(s) ==
    /\ stopping[s] = "begun"
    /\ UseOfStream
    /\ file' = "deleted"
    /\ stopping' = [stopping EXCEPT ![s] = "deleted"]
    /\ UNCHANGED <<request, at, turn, os, isSave, filterSoList, prettySym, hooked,
                   match_so_name, stack, writing>>

\* Bug: the flag is not cleared.
BugStopKeepsSave(s) ==
    /\ stopping[s] = "deleted"
    /\ stopping' = [stopping EXCEPT ![s] = "done"]
    /\ UNCHANGED <<request, at, turn, file, os, isSave, filterSoList, prettySym, hooked,
                   match_so_name, stack, writing, crashed>>

StopSave(s) ==
    /\ stopping[s] = "deleted"
    /\ isSave' = [isSave EXCEPT ![s] = FALSE]
    /\ stopping' = [stopping EXCEPT ![s] = "done"]
    /\ UNCHANGED <<request, at, turn, file, os, filterSoList, prettySym, hooked,
                   match_so_name, stack, writing, crashed>>

------------------------------------------------------------------------------
(* Calls.                                                                   *)

isLister(s, so) ==
    IF request.all THEN so \in AppSos ELSE so \in filterSoList[s]

\* Whether a call is traced: by its library, or whenever it names something
\* (a path, a method and its native function).
Traced(f, so, named) ==
    CASE SinkOf(f) \in Filtering              -> isLister(SinkOf(f), so)
      [] f \in {"RegisterNative", "dlopen"}  -> named
      [] f = "invoke"                        -> TRUE

\* What a replacement does.
StepsOf(f, traced) ==
    IF ~traced THEN <<"orig">>
    ELSE CASE f = "CallObjectMethodV" -> <<"line", "own", "line", "orig", "own", "line">>
           [] f = "strstr"            -> <<"orig", "line">>
           [] f = "dlopen"            -> <<"orig", "tell">>
           [] OTHER                   -> <<"line", "orig">>

\* History: a label that is overwritten is no longer that of the calls that
\* set it before.
Mix(stacks, s) ==
    [u \in Threads |-> [i \in DOMAIN stacks[u] |->
        [stacks[u][i] EXCEPT !.mixed = @ \/ SinkOf(stacks[u][i].fun) = s]]]

\* Bug: the label is that of the last call, matched or not.
BugLabel(f, so, traced) ==
    IF SinkOf(f) \in Filtering THEN [match_so_name EXCEPT ![SinkOf(f)] = so]
    ELSE match_so_name

\* Bug: the function is stored for the library.
BugLabelFun(f, so, traced) ==
    IF SinkOf(f) \in Filtering /\ traced THEN [match_so_name EXCEPT ![SinkOf(f)] = f]
    ELSE match_so_name

Label(f, so, traced) ==
    IF SinkOf(f) \in Filtering /\ traced THEN [match_so_name EXCEPT ![SinkOf(f)] = so]
    ELSE match_so_name

MoreCalls == Cardinality(UNION {{t} \X DOMAIN stack[t] : t \in Threads}) < MaxCalls

\* Library so calls f, on top of the frames below.
EnterOn(t, below, f, so) ==
    /\ MoreCalls /\ f \in hooked
    /\ \E named \in BOOLEAN :
          LET traced == Traced(f, so, named)
              frame == [fun |-> f, so |-> so, traced |-> traced,
                        todo |-> StepsOf(f, traced), mixed |-> FALSE]
              others == [stack EXCEPT ![t] = below]
              mixed == IF traced /\ SinkOf(f) \in Filtering
                       THEN Mix(others, SinkOf(f)) ELSE others
          IN  /\ stack' = [mixed EXCEPT ![t] = Append(@, frame)]
              /\ match_so_name' = Label(f, so, traced)

Top(t) == Last(stack[t])
AtStep(t, step) == stack[t] # <<>> /\ Top(t).todo # <<>> /\ Head(Top(t).todo) = step
Rest(t) == Tail(Top(t).todo)
WithTop(t, frame) == Append(Front(stack[t]), frame)
Todo(t, todo) == [stack EXCEPT ![t] = WithTop(t, [Top(t) EXCEPT !.todo = todo])]

AppCall(t, f, so) ==
    /\ stack[t] = <<>>
    /\ EnterOn(t, <<>>, f, so)
    /\ UNCHANGED <<starter, stopping, writing>>

\* Java code and constructors run inside an original, and may call any hooked
\* function (at most one for each original, to bound the model).
RunOrig(t) ==
    /\ AtStep(t, "orig")
    /\ LET running == WithTop(t, [Top(t) EXCEPT !.todo = <<"back">> \o Rest(t)])
       IN  \/ /\ stack' = [stack EXCEPT ![t] = running]
              /\ UNCHANGED match_so_name
           \/ /\ Top(t).fun \in {"CallObjectMethodV", "invoke", "dlopen"}
              /\ \E f \in Funs, so \in AppSos \cup SysSos : EnterOn(t, running, f, so)
    /\ UNCHANGED <<starter, stopping, writing>>

OrigReturns(t) ==
    /\ AtStep(t, "back")
    /\ stack' = Todo(t, Rest(t))
    /\ UNCHANGED <<starter, match_so_name, stopping, writing>>

\* The JNI call that describes an object comes from the own library; beyond the
\* bound it is left out.
OwnCall(t) ==
    /\ AtStep(t, "own")
    /\ IF "CallObjectMethodV" \in hooked /\ MoreCalls
       THEN EnterOn(t, WithTop(t, [Top(t) EXCEPT !.todo = Rest(t)]),
                    "CallObjectMethodV", OwnSo)
       ELSE stack' = Todo(t, Rest(t)) /\ UNCHANGED match_so_name
    /\ UNCHANGED <<starter, stopping, writing>>

\* loadAfter, if the callback is registered by now.
TellCallback(t) ==
    /\ AtStep(t, "tell")
    /\ stack' = Todo(t, IF "callback" \in hooked THEN <<"line">> ELSE <<>>)
    /\ UNCHANGED <<starter, match_so_name, stopping, writing>>

BeginLine(t) ==
    /\ AtStep(t, "line")
    /\ LET s == SinkOf(Top(t).fun) IN isSave[s] /\ os[s] # "null"
    /\ writing[t] = "no"
    /\ writing' = [writing EXCEPT ![t] = "checked"]
    /\ UNCHANGED <<starter, match_so_name, stopping, stack>>

TouchStream(t) ==
    /\ AtStep(t, "line") /\ writing[t] = "checked"
    /\ UseOfStream
    /\ writing' = [writing EXCEPT ![t] = "stream"]
    /\ UNCHANGED <<request, at, turn, file, os, isSave, filterSoList, prettySym, hooked,
                   match_so_name, stopping, stack>>

\* A line that is not saved only goes to the system's log.
SkipFile(t) ==
    /\ AtStep(t, "line")
    /\ LET s == SinkOf(Top(t).fun) IN ~isSave[s] \/ os[s] = "null"
    /\ writing[t] = "no"
    /\ stack' = Todo(t, Rest(t))
    /\ UNCHANGED <<starter, match_so_name, stopping, writing>>

EndLine(t) ==
    /\ AtStep(t, "line") /\ writing[t] = "stream"
    /\ writing' = [writing EXCEPT ![t] = "no"]
    /\ stack' = Todo(t, Rest(t))
    /\ UNCHANGED <<starter, match_so_name, stopping>>

ReturnCall(t) ==
    /\ stack[t] # <<>> /\ Top(t).todo = <<>>
    /\ stack' = [stack EXCEPT ![t] = Front(@)]
    /\ UNCHANGED <<starter, match_so_name, stopping, writing>>

ThreadStep(t) ==
    \/ RunOrig(t) \/ OrigReturns(t) \/ OwnCall(t) \/ TellCallback(t)
    \/ BeginLine(t) \/ TouchStream(t) \/ SkipFile(t) \/ EndLine(t)
    \/ ReturnCall(t)

Next ==
    /\ ~crashed
    /\ \/ startHookJni
       \/ StartStep
       \/ \E s \in Filtering : StopClearFilter(s) \/ StopDelete(s) \/ StopSave(s)
       \/ \E t \in Threads :
             \/ \E f \in Funs, so \in AppSos \cup SysSos : AppCall(t, f, so)
             \/ ThreadStep(t)

Spec == Init /\ [][Next]_vars

------------------------------------------------------------------------------
(* Properties.                                                             *)

\* A line goes into a stream that is not open, or is in it when it is deleted.
Lost(t) ==
    \/ writing[t] = "checked" /\ writing'[t] = "stream" /\ file # "open"
    \/ writing[t] = "stream" /\ file = "open" /\ file' # "open"

\* Until somebody stops a tracer every line gets to the file, from the moment a
\* function is hooked: the threads that call it are not told of it, and find
\* stream and flag set (JnitraceForC.cpp:119-121, stringHandler.cpp:143-145).
\* Afterwards the stopped tracer leaves its lines out, and the lines of every
\* tracer are lost with the stream that all of them share
\* (stringHandler.cpp:583-588), if the process does not die of it.
LinesAreSaved ==
    [][\A t \in Threads :
          /\ SkipFile(t) => /\ SinkOf(Top(t).fun) \in Filtering
                            /\ stopping[SinkOf(Top(t).fun)] = "done"
          /\ Lost(t) => \E s \in Filtering : stopping'[s] \in {"deleted", "done"}]_vars

\* A line carries the library that made the call, although match_so_name is
\* one string for all threads: it is another call's only when a traced call
\* of the same tracer came in between.  (write in Jnitrace reads the string
\* when it is in the stream, in stringHandler before it looks at the flag.)
LabelsAreRight ==
    [][\A t \in Threads :
          LET reads == \/ writing[t] = "no" /\ writing'[t] = "checked"
                          /\ SinkOf(Top(t).fun) = "string"
                       \/ writing[t] = "checked" /\ writing'[t] = "stream"
                          /\ SinkOf(Top(t).fun) = "jni"
          IN  reads => Top(t).mixed \/ match_so_name[SinkOf(Top(t).fun)] = Top(t).so]_vars

\* A tracer whose stop is over does not begin another line in the stream that
\* the stop has deleted.  Threads that passed the tests before are not kept
\* from it (see LinesAreSaved).
StoppedStaysAway ==
    [][\A t \in Threads : writing[t] = "no" /\ writing'[t] # "no"
          /\ SinkOf(Top(t).fun) \in Filtering
             => stopping[SinkOf(Top(t).fun)] # "done"]_vars

\* When startHookJni is done, every tracer of the list whose functions can be
\* found is hooked, whatever became of the ones before it.
ChosenAreHooked ==
    at = "done" =>
        \A tracer \in request.list \cap request.found :
            (tracer \in {"register", "invoke"} => request.pretty)
                => Range(FunsOf(tracer)) \subseteq hooked
=============================================================================
