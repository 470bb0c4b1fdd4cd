------------------------------ MODULE JniTrace ------------------------------
(***************************************************************************)
(* JnitraceForC.cpp: the replacements of the JNI functions.  A replacement *)
(* looks at the library it was called from; if that library is selected it *)
(* describes the call in the log, which takes JNI calls of its own, and it *)
(* calls the original in every case.                                       *)
(*                                                                         *)
(* A thread is a stack of calls to replacements.  A call is the list of    *)
(* the steps it still has to do:                                           *)
(*   "orig"   call the original function,                                  *)
(*   "java"   the original is running, Java code perhaps,                  *)
(*   "line"   write one line to the log,                                   *)
(*   "own"    a JNI call the tracer makes to describe an object,           *)
(*   "clear"  the ExceptionClear at the end of such a description.         *)
(***************************************************************************)
EXTENDS Naturals, Sequences

CONSTANTS
    Threads,     \* threads that call JNI functions
    OwnSo,       \* the tracer's own library, CORE_SO_NAME
    AppSos,      \* libraries of the application, under /data/
    SysSos,      \* libraries of the system
    Modes,       \* settings startHookJni may be called with
    NoSo,        \* match_so_name before the first match
    CanStop,     \* BOOLEAN: somebody may call stopjnitrace
    MaxNested,   \* bound: how deep a call from Java code is still modelled
    StackLimit   \* nested calls a thread's stack can hold

Sos == {OwnSo} \cup AppSos \cup SysSos

\* The hooked JNI functions, one for each shape a replacement has.
\* The first three run Java code; the tracer itself calls those in OwnFuns.
InvokeFuns == {"CallObjectMethodV", "CallVoidMethodV", "NewObjectV"}
Funs == InvokeFuns \cup {"FindClass", "GetStringUTFChars"}
OwnFuns == {"CallObjectMethodV", "FindClass", "GetStringUTFChars"}

\* A setting: trace every application library, or those a filter matches.
ASSUME ModesAssumption == Modes \subseteq [all : BOOLEAN, filter : SUBSET Sos]

\* The tracer's library is none of the application's, and not the system's.
ASSUME LibrariesAssumption == OwnSo \notin AppSos \cup SysSos

VARIABLES
    isHookAll, filterSoList, forbidSoList,   \* the settings
    started,       \* startjnitrace has stored the settings
    installed,     \* functions Jnitrace::init has hooked so far
    match_so_name, \* the library of the last call that matched
    isSave,        \* lines go to the file
    jnitraceOs,    \* the file stream: "null", "open" or "freed"
    stopping,      \* how far stopjnitrace is: "no", "begun", "freed", "done"
    stack,         \* the calls each thread is in, the innermost last
    writing,       \* a line's stage: "no", "checked" (the tests of write are
                   \* passed) or "stream" (inside the stream)
    exc            \* the thread has a pending Java exception

settings == <<isHookAll, filterSoList, forbidSoList, started>>
sink == <<isSave, jnitraceOs, stopping>>
vars == <<settings, installed, match_so_name, sink, stack, writing, exc>>

Steps == {"orig", "java", "line", "own", "clear"}
CallFrame == [fun : Funs, so : Sos, matched : BOOLEAN, todo : Seq(Steps),
              origs : Nat, threw : BOOLEAN]

TypeOK ==
    /\ isHookAll \in BOOLEAN /\ started \in BOOLEAN
    /\ filterSoList \subseteq Sos /\ forbidSoList \subseteq Sos
    /\ installed \subseteq Funs
    /\ match_so_name \in Sos \cup {NoSo}
    /\ isSave \in BOOLEAN
    /\ jnitraceOs \in {"null", "open", "freed"}
    /\ stopping \in {"no", "begun", "freed", "done"}
    /\ stack \in [Threads -> Seq(CallFrame)]
    /\ writing \in [Threads -> {"no", "checked", "stream"}]
    /\ exc \in [Threads -> BOOLEAN]

Init ==
    /\ isHookAll = FALSE /\ started = FALSE
    /\ filterSoList = {} /\ forbidSoList = {}
    /\ installed = {}
    /\ match_so_name = NoSo
    /\ isSave = FALSE /\ jnitraceOs = "null" /\ stopping = "no"
    /\ stack = [t \in Threads |-> <<>>]
    /\ writing = [t \in Threads |-> "no"]
    /\ exc = [t \in Threads |-> FALSE]

------------------------------------------------------------------------------
(* Start and stop.                                                          *)

\* startHookJni forbids the tracer's own library and passes the opened file.
startjnitrace(mode) ==
    /\ ~started
    /\ started' = TRUE
    /\ isHookAll' = mode.all
    /\ forbidSoList' = {OwnSo}
    /\ filterSoList' = mode.filter
    /\ isSave' = TRUE /\ jnitraceOs' = "open"
    /\ UNCHANGED <<installed, match_so_name, stopping, stack, writing, exc>>

\* Jnitrace::init hooks one function after the other, in this order, while
\* threads already call them.  (Hooker fails on null pointers only.)
InitOrder == <<"CallObjectMethodV", "CallVoidMethodV", "GetStringUTFChars",
               "FindClass", "NewObjectV">>

InstallHook(i) ==
    /\ started
    /\ installed = {InitOrder[j] : j \in 1..(i - 1)}
    /\ LET f == InitOrder[i] IN installed' = installed \cup {f}
    /\ UNCHANGED <<settings, match_so_name, sink, stack, writing, exc>>

StopClearFilter ==
    /\ CanStop /\ started /\ stopping = "no"
    /\ filterSoList' = {}
    /\ stopping' = "begun"
    /\ UNCHANGED <<isHookAll, forbidSoList, started, installed, match_so_name,
                   isSave, jnitraceOs, stack, writing, exc>>

\* The stream is deleted; the pointer keeps its value.
StopDelete ==
    /\ stopping = "begun"
    /\ jnitraceOs' = "freed"
    /\ stopping' = "freed"
    /\ UNCHANGED <<settings, installed, match_so_name, isSave, stack, writing, exc>>

StopSave ==
    /\ stopping = "freed"
    /\ isSave' = FALSE
    /\ stopping' = "done"
    /\ UNCHANGED <<settings, installed, match_so_name, jnitraceOs, stack, writing, exc>>

------------------------------------------------------------------------------
(* Calls.                                                                   *)

\* Bug: the forbidden list is not consulted.
BugIsLister(so) == IF isHookAll THEN so \notin SysSos ELSE so \in filterSoList

\* Which libraries are traced.  The forbidden list counts only when all are.
isLister(so) ==
    IF isHookAll
    THEN so \notin SysSos /\ so \notin forbidSoList
    ELSE so \in filterSoList

\* What the replacement of f does for a library that is traced ...
Block(f) ==
    CASE f = "CallObjectMethodV" -> <<"line", "own", "line", "orig", "own", "line">>
      [] f = "CallVoidMethodV"   -> <<"line", "own", "line">>
      [] f = "NewObjectV"        -> <<"orig", "line", "own", "line">>
      [] f = "FindClass"         -> <<"line", "orig">>
      [] f = "GetStringUTFChars" -> <<"orig", "line">>

\* Bug: the return at the end of the block is forgotten, as in the replacement
\* of fgets (stringHandler.cpp:443-457), which is not installed.
BugBlockReturns(f) == FALSE

\* ... which returns from there, or goes on to the call at the end.
BlockReturns(f) == f # "CallVoidMethodV"

StepsOf(f, matched) ==
    IF ~matched THEN <<"orig">>
    ELSE IF BlockReturns(f) THEN Block(f) ELSE Append(Block(f), "orig")

Frame(f, so, steps) ==
    [fun |-> f, so |-> so, matched |-> isLister(so), todo |-> steps,
     origs |-> 0, threw |-> FALSE]

\* A library calls a hooked function: the new frame on top of the frames below.
EnterOn(t, below, f, so) ==
    /\ Len(below) < StackLimit
    /\ f \in installed
    /\ \/ stack' = [stack EXCEPT ![t] =
                      Append(below, Frame(f, so, StepsOf(f, isLister(so))))]
       \/ \* a null string is answered without the original
          /\ f = "GetStringUTFChars" /\ isLister(so)
          /\ stack' = [stack EXCEPT ![t] = Append(below, Frame(f, so, <<>>))]
    /\ match_so_name' = IF isLister(so) THEN so ELSE match_so_name

Top(t) == stack[t][Len(stack[t])]
Below(t) == SubSeq(stack[t], 1, Len(stack[t]) - 1)
AtStep(t, step) ==
    /\ stack[t] # <<>>
    /\ Top(t).todo # <<>> /\ Head(Top(t).todo) = step
Rest(t) == Tail(Top(t).todo)
WithTop(t, fields) == Append(Below(t), fields)

\* Native code of the application or the system makes a JNI call.
AppCall(t, f, so) ==
    /\ stack[t] = <<>> /\ ~exc[t]
    /\ EnterOn(t, <<>>, f, so)
    /\ UNCHANGED <<settings, installed, sink, writing, exc>>

\* The original runs.  A Java method may call native code that makes a JNI
\* call in its turn: at most once per original, to bound the model.
RunOrig(t) ==
    /\ AtStep(t, "orig")
    /\ LET running == WithTop(t, [Top(t) EXCEPT !.todo = <<"java">> \o Rest(t),
                                                !.origs = @ + 1])
       IN  \/ /\ stack' = [stack EXCEPT ![t] = running]
              /\ UNCHANGED match_so_name
           \/ /\ Top(t).fun \in InvokeFuns /\ Len(running) < MaxNested
              /\ \E f \in Funs, so \in AppSos \cup SysSos :
                    EnterOn(t, running, f, so)
    /\ UNCHANGED <<settings, installed, sink, writing, exc>>

OrigReturns(t) ==
    /\ AtStep(t, "java") /\ ~exc[t]
    /\ stack' = [stack EXCEPT ![t] = WithTop(t, [Top(t) EXCEPT !.todo = Rest(t)])]
    /\ UNCHANGED <<settings, installed, match_so_name, sink, writing, exc>>

\* Bug: results are described without a null test.
BugAfterNull(f, rest) == rest

\* What is left to do when the original returned null: the descriptions of
\* objects begin with a null test, and null strings are not logged.
AfterNull(f, rest) ==
    IF f = "NewObjectV" /\ rest # <<>> THEN <<"line">> ELSE <<>>

\* The original returns null, with or without a Java exception.  The Java code
\* the tracer runs to describe objects is taken not to throw.
OrigReturnsNull(t, throws) ==
    /\ AtStep(t, "java")
    /\ Top(t).so # OwnSo
    /\ exc[t] => throws
    /\ stack' = [stack EXCEPT ![t] = WithTop(t,
                   [Top(t) EXCEPT !.todo = AfterNull(Top(t).fun, Rest(t)),
                                  !.threw = throws])]
    /\ exc' = [exc EXCEPT ![t] = throws]
    /\ UNCHANGED <<settings, installed, match_so_name, sink, writing>>

\* getJObjectInfoInternal and getArgsInfo: JNI calls from the own library; the
\* description ends by clearing exceptions.
OwnCall(t, f) ==
    /\ AtStep(t, "own")
    /\ LET described == WithTop(t, [Top(t) EXCEPT !.todo = <<"clear">> \o Rest(t)])
       IN  IF f \in installed
           THEN EnterOn(t, described, f, OwnSo)
           ELSE /\ stack' = [stack EXCEPT ![t] = described]
                /\ UNCHANGED match_so_name
    /\ UNCHANGED <<settings, installed, sink, writing, exc>>

ClearException(t) ==
    /\ AtStep(t, "clear")
    /\ stack' = [stack EXCEPT ![t] = WithTop(t, [Top(t) EXCEPT !.todo = Rest(t)])]
    /\ exc' = [exc EXCEPT ![t] = FALSE]
    /\ UNCHANGED <<settings, installed, match_so_name, sink, writing>>

\* write(): the tests, the stream, the end of the line.
BeginLine(t) ==
    /\ AtStep(t, "line")
    /\ writing[t] = "no" /\ isSave /\ jnitraceOs # "null"
    /\ writing' = [writing EXCEPT ![t] = "checked"]
    /\ UNCHANGED <<settings, installed, match_so_name, sink, stack, exc>>

TouchStream(t) ==
    /\ writing[t] = "checked"
    /\ writing' = [writing EXCEPT ![t] = "stream"]
    /\ UNCHANGED <<settings, installed, match_so_name, sink, stack, exc>>

EndLine(t) ==
    /\ AtStep(t, "line")
    /\ writing[t] = "stream" \/ (writing[t] = "no" /\ ~isSave)
    /\ writing' = [writing EXCEPT ![t] = "no"]
    /\ stack' = [stack EXCEPT ![t] = WithTop(t, [Top(t) EXCEPT !.todo = Rest(t)])]
    /\ UNCHANGED <<settings, installed, match_so_name, sink, exc>>

ReturnCall(t) ==
    /\ stack[t] # <<>> /\ Top(t).todo = <<>>
    /\ stack' = [stack EXCEPT ![t] = Below(t)]
    /\ UNCHANGED <<settings, installed, match_so_name, sink, writing, exc>>

\* The native code that made the call handles the exception.
HandleException(t) ==
    /\ exc[t]
    /\ stack[t] = <<>> \/ AtStep(t, "java")
    /\ exc' = [exc EXCEPT ![t] = FALSE]
    /\ UNCHANGED <<settings, installed, match_so_name, sink, stack, writing>>

ThreadStep(t) ==
    \/ RunOrig(t)
    \/ OrigReturns(t)
    \/ \E throws \in BOOLEAN : OrigReturnsNull(t, throws)
    \/ \E f \in OwnFuns : OwnCall(t, f)
    \/ ClearException(t)
    \/ BeginLine(t) \/ TouchStream(t) \/ EndLine(t)
    \/ ReturnCall(t)
    \/ HandleException(t)

Next ==
    \/ \E mode \in Modes : startjnitrace(mode)
    \/ \E i \in DOMAIN InitOrder : InstallHook(i)
    \/ StopClearFilter \/ StopDelete \/ StopSave
    \/ \E t \in Threads :
          \/ \E f \in Funs, so \in AppSos \cup SysSos : AppCall(t, f, so)
          \/ ThreadStep(t)

Spec == Init /\ [][Next]_vars

\* A thread inside a replacement keeps running.
FairSpec == Spec /\ \A t \in Threads : WF_vars(ThreadStep(t))

------------------------------------------------------------------------------
(* Properties.                                                             *)

Done(t) == stack[t] # <<>> /\ Top(t).todo = <<>>

\* Tracing does not change what the application does: every call that returns
\* has run the original exactly once, on all the paths through the macros; a
\* traced GetStringUTFChars of a null string alone returns without it.
OrigOncePerCall ==
    \A t \in Threads : Done(t) =>
        \/ Top(t).origs = 1
        \/ Top(t).origs = 0 /\ Top(t).matched /\ Top(t).fun = "GetStringUTFChars"

\* An exception the original threw is still pending when the replacement
\* returns, although describing objects ends with ExceptionClear
\* (JnitraceForC.cpp:580-582).
ExceptionsSurvive ==
    \A t \in Threads : Done(t) /\ Top(t).threw => exc[t]

\* The tracer's own JNI calls are not traced: "exclude our own SO, repeated
\* calls overflow the stack" (main.cpp:80).
OwnNeverTraced ==
    \A t \in Threads : \A i \in DOMAIN stack[t] :
        stack[t][i].so = OwnSo => ~stack[t][i].matched

\* What is visible of the calls of a thread: those of the application, up to the
\* first that the tracer makes itself.  Its original runs in one step of a call.
Own(calls) == \E i \in DOMAIN calls : calls[i].so = OwnSo
Visible(calls) == {k \in DOMAIN calls : \A i \in 1..k : calls[i].so # OwnSo}
Stage(call) ==
    IF call.todo # <<>> /\ call.origs = 0 THEN "called"
    ELSE IF call.todo # <<>> /\ Head(call.todo) = "java" THEN "running"
    ELSE "returned"
Seen(call) == [fun |-> call.fun, so |-> call.so, at |-> Stage(call), threw |-> call.threw]
View(calls) == [k \in Visible(calls) |-> Seen(calls[k])]

AppCalls == [t \in Threads |-> View(stack[t])]
AppExc == [t \in Threads |-> exc[t] /\ ~Own(stack[t])]

Untraced == INSTANCE UntracedCalls
              WITH Libraries <- AppSos \cup SysSos, calls <- AppCalls, exc <- AppExc

\* The application cannot tell that it is traced: the same calls run the same
\* functions in the same order, once each, and leave the same exceptions pending.
ImplementsUntraced == Untraced!Spec

\* Every call to a hooked function returns to the application: the calls the
\* tracer makes to describe a call come to an end.
CallsReturn == \A t \in Threads : stack[t] # <<>> ~> stack[t] = <<>>
=============================================================================
