# A verification project for XposedJniTrace

XposedJniTrace is a pair of Xposed modules for Android. *JniTrace* is loaded into a chosen
application and logs the JNI and libc calls its native libraries make; *il2cppTrace* is loaded
into a Unity game and dumps, or traces, its compiled C# methods. Both stand on one native
library (`nativeLib`) that replaces functions in place and watches the system linker.

This directory holds TLA+ specifications of that system, the TLC runs that check them on small
instances, and proofs that TLAPS checks for every instance. Everything is written from the code
under `src/`; paths below are relative to it.

    N = nativeLib/src/main/cpp    J = JniTrace/src/main    I = il2cppTrace/src/main

Run from this directory: `tlc -config hook_apps.cfg MCHookApps` (and so on, see *Runs*), and
`tlapm` on each `..._proofs` module.

## 1. Inventory

| Component | State | Operations | Hard behaviour | What makes it correct |
|---|---|---|---|---|
| **HookUtils** `N/hook/HookUtils.cpp` | `hookedList`; through it Dobby's entries, the near-branch plugin, the patched code, the backup pointers | `Hooker`, `HookerForSign`, `unHook`, `addTrampoline`, `startBranchTrampoline` | two engines that do not know each other; three attempts with different side effects; application threads run the code being patched | one replacement per function; backup before patch; calls return; the list tells the truth; no plugin left on |
| **Dobby, SandHook** `N/hook/Dobby`, `N/hook/signhook` | Interceptor entries, code buffers | `DobbyHook`, `DobbyInstrument`, `DobbyDestroy`, `InlineHookImpl` | find and add are not atomic; no locks; buffer limits | see HookUtils and Il2cpp tracer |
| – relocation `InstructionRelocationARM64.cc`, `translator.cc` | the emitted copy | `relo_relocate`, `Translator::Visit...` | every instruction relative to the program counter is rewritten; branches into the overwritten range; page granules; sizes of loads | the copy does what the code did |
| – code memory `MemoryAllocator.cc`, `NearMemoryAllocator.cc`, `code-patch-tool-posix.cc` | arenas with cursors, page permissions | `allocateExecBlock`, `allocateNearBlock`, `DobbyCodePatch` | no lock anywhere; a stale memory map; fixed mappings; unsigned differences | blocks apart and in reach; no page left writable; the application's pages kept |
| **Jnitrace** `J/cpp/hook/JnitraceForC.cpp` | filter settings, log stream, `match_so_name` | `startjnitrace`, `stopjnitrace`, 46 replacements | its own JNI calls are hooked too; pending exceptions; a shared stream; calls during installation and stop | the application sees the same calls and exceptions; tracing ends; nothing is written after the stop |
| **Linker handler** `N/linker/linkerHandler.cpp` | hooked entry, list of callbacks, redirect | `init`, `addLinkerCallBack`, `linkerIORedirect`, `cleanCallBack`, the replaced `dlopen` family | loads inside loads; registration during a load; redirect set during a load | everyone registered hears both sides of a load; the report names what was loaded |
| **Il2cpp tracer** `I/cpp` | method list, Dobby's entries, settings | `JNI_OnLoad`, `loadAfter`, hack threads, `instrument_callback` | detached threads; polling; the game runs methods while they are instrumented; several loads | each selected method is traced once and its calls are recognised |
| **stringHandler** `J/cpp/hook/stringHandler.cpp` | filter settings, stream, `match_so_name` | `hookStrHandler`, `stopjnitrace`, six libc replacements | like Jnitrace; its stop deletes the stream of all | original called once; lines labelled with their caller |
| **invokePrintf** `J/cpp/hook/invokePrintf.cpp` | a stream, `PrettyMethod` | two hooks in ART | one flag and one function for two tracers, either of which may fail | `PrettyMethod` is there when called |
| **startHookJni** `J/cpp/main.cpp` | the file stream | starts up to five tracers | calls during the start; one tracer fails; one stream for all | every chosen tracer starts; no line is lost before a stop |
| **Injection** `J/java/.../LHook.java`, `I/java/.../LHook.java` | configuration, `isInit`, class loader | `handleLoadPackage`, `startInit`, `initFunJni`, `initIL2CPP` | several packages per process; contexts created on several threads; early returns | one start per process, for the right application |
| **Configuration, serialization** `J/java/.../FileUtils.java`, `MainListViewAdapter.java`, `ThreadUtils.java` | preferences, files, shared stream | save, deliver as root, read, serialize | half-done deliveries whose failure is not noticed, reuse of a closed stream | what a process reads is what was saved |
| User interface, native helpers, vendored code | – | – | – | not modelled |

How they interact: Injection reads the configuration and loads the native library; its
`startHookJni` (or `JNI_OnLoad`) starts the tracers, one after the other, on one thread. The
tracers install replacements through HookUtils and, for library loads, register a callback with
the linker handler, which installs its own replacement through HookUtils. From then on the
threads of the application run the replacements; nothing but the code buffer of SandHook is
locked. The il2cpp callback starts a detached thread per load of `libil2cpp.so`, which
instruments methods through `addTrampoline`.

The hazards, each at its line, are in `PROJECT.json`.

## 2. Modules

| Module | Models | Composed with |
|---|---|---|
| `HookTable` | what HookUtils promises: the first replacement of a function stays | refined by HookRegistry |
| `HookRegistry` | HookUtils, both engines, application threads | `INSTANCE HookTable` |
| `HookRegistry_proofs` | theorems | extends HookRegistry |
| `UntracedCalls` | JNI calls when nobody traces | refined by JniTrace |
| `JniTrace` | Jnitrace | `INSTANCE UntracedCalls` |
| `JniTrace_proofs` | theorems | extends JniTrace |
| `LinkerHandler` | the linker handler | – |
| `LinkerHandler_proofs` | theorems | extends LinkerHandler |
| `Il2cppTracer` | the il2cpp tracer with the parts of linker handler and Dobby it uses | – |
| `Il2cppTracer_proofs` | theorems | extends Il2cppTracer |
| `A64` | the instructions that a hook has to tell apart | – |
| `OriginalCode` | what the first instructions of a function do, run in place | refined by BackupCode |
| `BackupCode` | the copy that an engine makes of them, and a call through it | `INSTANCE OriginalCode` |
| `BackupCode_proofs` | theorems | extends BackupCode |
| `CodeMemory` | Dobby's arenas, near blocks and page permissions, with any number of threads | – |
| `CodeMemory_proofs` | theorems | extends CodeMemory |
| `TracerLog` | `startHookJni`, stringHandler, invokePrintf and the callback for loads: five tracers over one stream | – |
| `TracerLog_proofs` | theorems | extends TracerLog |
| `Injection` | saving and delivering a configuration, and `LHook` in a process | – |
| `Injection_proofs` | theorems | extends Injection |
| `MC...` | constants for TLC | extend the module they check |

Operators whose name begins with `Bug` are deliberately wrong variants of the definition that
follows them. No specification uses them; `PROJECT.json` ("mutants") says which property detects
which.

### HookRegistry

The machine code of a function is the *sequence of patches* over its first instructions, newest
last; the empty sequence is the function as loaded. A backup pointer is code too, namely what the
function was when the engine relocated its instructions (`GenerateRelocatedCode` reads whatever
it finds). That is the whole abstraction of data; the control is kept:

* `Hooker`: null check, list check (`HookRefusedOrKnown`), Dobby (`DobbySetOrg`, `DobbyCommit`, or
  `DobbyRefuse`), SandHook (`SandSetBackup`, `SandOverwrite`, or `SandRefuse`), Dobby again with the
  near-branch plugin. Publishing the backup, patching and returning are separate steps because
  application threads may run between them.
* `HookerForSign` enters at SandHook; `UnHook`, `AddTrampoline`, `StartBranchTrampoline` are one step.
* A thread of the application that calls a function takes its code *as it is then* and runs it
  patch by patch: `RunHandler`, `EnterReplacement`, then `CallOrg` through the backup pointer as it
  is *then*. `CallOrg` through an unwritten pointer is not possible in the model (in the program it
  is a jump to null), so a deadlock-free thread is a thread that never gets there;
  `OrgReadyWhenEntered` states it directly.
* `Dobby` may refuse although it has no entry (`SetPermission` fails).

Bounds and assumptions: one installing thread (the tracers start on the thread that loads the
library); a patch takes effect at once (16 bytes of code in one `memcpy`); a code page that cannot be
written crashes the process and is not modelled; each replacement is passed for one function only
(`RequestsAssumption`, true of every caller in the repository); at most `MaxLayers` patches per
function.

### JniTrace

Each thread is a stack of calls to replacements, each call a list of the steps still to do. Five
functions stand for the shapes of the 46 replacements: describe–original–describe–return
(`CallObjectMethodV`), describe and *fall through* to the call at the end (`CallVoidMethodV`),
original–describe–return (`NewObjectV`), line–original (`FindClass`), original–line with the early
return for null (`GetStringUTFChars`). The steps describing an object (`OwnCall`) make JNI calls from
the tracer's own library, which are hooked calls again, and end with `ExceptionClear`. `isLister` is
translated with its two modes. Installing is one function at a time and stopping is three steps, so
that calls see every intermediate state.

Bounds: a Java method called by the original makes at most one nested hooked call, up to depth
`MaxNested`; `StackLimit` bounds the thread's stack, so unbounded recursion shows as a call that does
not return. The Java code the tracer itself runs to describe objects (`toString`, `getName`) is taken
not to throw and not to return null.

`UntracedCalls` is what an application does when nobody traces: a call waits for its function, the
function runs and may lead to another call, it returns with an exception or without, the caller goes
on and finds that exception pending. Its steps are those of ART, not of a file of this repository.
JniTrace is mapped onto it by hiding what is the tracer's: of a thread's stack the calls below the
first that the tracer makes itself are seen (`View`), each with its function, its library and how far
it is (`Stage`), and an exception is seen unless the tracer's own call is on the stack. Log
lines, descriptions, installing and stopping are then stutters. A thread that handles an exception
does so in both; only a null string, which no application may pass, can be answered without its
function. The mapping needs that the tracer's library is none of the application's or the system's
(`LibrariesAssumption`): `J/cpp/CMakeLists.txt` gives that library a name of its own.

### LinkerHandler

One load is: the loop over the callbacks, the redirect, the original, the loop again. The original
may contain another load. `callBackList` is read anew at every turn of a loop, as an iterator over
a `std::list` does, and stays as it is after `cleanCallBack` (`dangling`): walking a deleted list may
still find its elements or not. Appending to the list is taken as atomic. `hook` says whether the
linker's exported function or its `openat` system call was replaced; in the second case the thread
cannot load another library inside the original. A failed load is reported as any other.

### Il2cppTracer

`LoadIl2cpp` with `ok` false is a load that fails: the callback starts a thread all the same.
`HackOpen` to `HackClose` are the steps of `hack_start`; instrumenting one method is four steps
(find, patch, add the entry, record the info), because Dobby's Interceptor and `methodInfoList` have
no lock and the game runs the method meanwhile. Two threads that add to the same container at the
same time may lose an element (`Racing`). The missing API is a crash, which stops everything.
`perClass` says whether the engine exports `il2cpp_image_get_class`. Without it `il2cpp_dump` takes
another way (`il2cpp_dump.cpp:391`), and `il2cpp_tracer` ends having traced nothing (line 594), which
`EventuallyTraced` names as an exception. `Hacks` bounds the number of noticed loads; the
configuration (trace or dump, exported or not, `perClass`) is chosen in `Init`.

### BackupCode, OriginalCode, A64

A hook overwrites the first instructions of a function and hands out a copy as "the original". The
copy is run here, instruction by instruction, and compared with the instructions run in place.
`Relocate` is the case distinction of `relo_relocate` and of SandHook's visitors, giving the code
each engine emits as a short sequence of abstract instructions (move a constant, load, skip, branch
to a register). `BranchToRest` is the branch that resumes the function. Addresses count
instructions; registers, what an ordinary instruction computes and what memory holds are
parameters, and conditions and tests are one thing (a sense and a register).

The copy is handed out first (`Hook`) and the patch is written over the function afterwards
(`WritePatch`), while the copy may be running already. From then on a load that meets the
overwritten words (`Span`, `InPatch`) finds the patch (`PatchLoad`) and no longer what the
function held there (`Load`).

Four things the engines get wrong are modelled as they are, and named in `Exact`: Dobby's `b.al`
is inverted to a condition that still always holds; Dobby loads literals of every size as 64 bits
into a general register; SandHook computes `ADRP` with the page size of the device; and both load a
literal from its address even where the patch overwrites it (`Apart`): `ldr x16, #8; br x16; .quad`
is such a code, and so is Dobby's own far patch when SandHook copies it. So is a code that uses the
engine's scratch register, and a literal of a size for which Dobby aborts (`Unimplemented`).
`ImplementsOriginal` holds of the code that is left, `NeverIntoPatch` of all code.

Outside this abstraction: ordinary instructions that read the overwritten words through a register,
and branches through a register (`br`, `ret`) among the overwritten instructions.

### CodeMemory

Every read and write of a shared word is a step: the test of `allocMemBlock`, the reading of the
cursor, its addition (which may use the value read before or a fresh one), the scanning of the
arenas one by one, reading `/proc/self/maps` and mapping what was found free, and the three steps of
`DobbyCodePatch`. Differences of addresses are unsigned (`% Width`): an arena whose cursor was
pushed past its end has "room" for anything. Three kinds of job stand for the callers:
code that is emitted anywhere (a relocated copy), a forward trampoline near its function that may
turn out too long and be allocated again, and a patch of a function.

Simplified: the list of arenas grows, and the layout is read, in one step; `mmap` does not fail; a
block is at most a page; a new arena for code anywhere is one page; functions are at least `Reach`
above 0 (the subtraction does not wrap); what is patched is mapped code of the application, and no
address is near enough to `Width` to wrap. Data blocks are not allocated by the modelled callers.

### TracerLog

What `JniTrace` leaves out: the other tracers and what they share. `startHookJni` makes one
`ofstream` and gives it to each tracer of the list; `StoreSettings` and `HookNext` are a tracer's two
halves, and between any two steps of them threads may call what is hooked already. A *sink* is what
one source file keeps (stream, `isSave`); invokePrintf's two tracers have one sink and one
`PrettyMethod`. JNI calls are one function with the description of objects in it, libc's functions are the
two shapes of stringHandler (original–line, line–original), and calls nest inside the originals of the functions that
run Java code or constructors. `match_so_name` exists per filtering sink; `mixed` records that
another matched call overwrote it. Stopping deletes the stream whoever else has it: what a use of
it does then is open (`UseOfStream`: nothing, or the process dies). The lines that go into it, or
are in it when it is deleted, do not reach the file (`Lost`), whichever tracer writes them: what
`LinesAreSaved` says is that this needs a stop, not that a stop spares the other tracers.

Left out: replacements that `stringHandler::init` does not install (among them `fgets`, which
calls the original twice when it is traced), which of the three versions of `RegisterNative` is
found, the race on the characters of `match_so_name`, and what an `ofstream` does with two threads in it
(the lock that the comments at `stringHandler.cpp:136` and `JnitraceForC.cpp:114` speak of is commented out, and
the model has none). Nobody in the repository calls a
`stopjnitrace`; `request.stops` says whether somebody does.

### Injection

Two processes. The module's app saves a configuration: `initConfig` in its steps, each of which may
fail (a failure is logged and the preferences are written all the same) or be the last before the
app dies. A process of an application runs `LHook` on several threads: `HandleLoadPackage`, which
overwrites the class loader, preferences or file, `Match`, the wait for a Context, and
`initFunJni` from the test of `isInit` to its setting. `merged` and `lib` record which class loader has
the dex and which one the library was loaded with, because the native method is found only if the
two readings of the class loader agree.

`due` is the configuration a process is to be traced with: that of the last complete save before
it began. `hindered` says that something outside LHook went wrong since (a later save, an unreadable
file, a library that does not load), `met` that two threads were in LHook at once. The properties
name these exceptions where TLC shows them to be needed, and only there. The age of a configuration
is not among them: the comment at `LHook.java:213` gives it ten minutes, but the test is commented
out, `mSaveTime` decides nothing, and the model has no time. `StartsAsChosen` and `StartsInTheEnd`
therefore speak of configurations of any age, and catch no stale one.

Simplified: the list of filtered libraries is treated like that of functions and so has no variable
of its own; the copy into the system's library directory and unpacking the library from the module's
package are left out; a package is reported once to a process; the dump of the memory is one step.

## 3. Runs

| Run | Shows | Distinct states |
|---|---|---|
| `hook_apps` | type invariant, `HookedAtMostOnce`, `OrgReadyWhenEntered`, `NoReentry`, `CallsReturn`, and `HookTable` as a property, for the API the tracers use, one application thread | 42 136 |
| `hook_api` | `ListedArePatched`, `SuccessMeansPatched`, `NearBranchOnlyAsked`, for the whole API with null arguments | 865 685 |
| `hook_once_doc` | *violation*: `HookerForSign` then `Hooker` hook one function twice, against `HookUtils.cpp:22` | |
| `trace_all` | `OrigOncePerCall`, `ExceptionsSurvive`, `CallsReturn`, and `UntracedCalls` as a property | 112 207 |
| `trace_own_so` | *violation*: in filter mode the tracer may trace itself, against `main.cpp:80` | |
| `linker` | `ToldBothSides`, `ReportsWhatWasLoaded`, `LoadsEnd` | 154 549 |
| `linker_clean` | *violation*: deleted callbacks are called, against `linkerHandler.h:59` | |
| `il2cpp` | `TrampolinesAreRecorded`, `DoublePatchNeedsOverlap`, `NotFoundOnlyInWindow`, `EventuallyTraced` | 82 107 |
| `backup` | `NeverIntoPatch`, and `OriginalCode` as a property | 110 324 |
| `memory` | `BlocksApart`, `NearInReach`, `WritableOnlyWhilePatched`, `FaultsNeedOverlap`, `AppPagesKept` | 2 360 000 |
| `tracers` | `ChosenAreHooked`, `LinesAreSaved`, `LabelsAreRight`, `StoppedStaysAway` | 3 891 634, up to symmetry |
| `injection` | `StartedOnce`, `StartsAsChosen`, `StartsInTheEnd` | 1 580 000 |

Why the bounds are enough:

* `hook_apps`: two functions and three replacements, two of them for the same function, so that a
  second request for a hooked function and a request for another one both occur; three layers hold
  instrumentation below and above a replacement and a further one. The application threads only read what the
  installing thread writes and do not see each other, so one of them shows all interleavings.
* `hook_api`: two functions, a null address, a null replacement (the only way to SandHook's refusal
  and so to Hooker's last attempt). Its replacements are one per function: what it asks is about the
  list and the answers, and `hook_apps` has the other question.
* `trace_all`: one thread with the stopping and installing steps interleaved; the state threads
  share (settings, stream, `match_so_name`) influences a thread only through values those steps
  write. Two threads in one stream are in `tracers`. Three levels of calls let a Java
  method call native code that is traced and describes objects again.
* `linker`: one loading thread with nested loads, two callbacks, two redirects with different
  answers and two paths; registration and redirects come from outside at any moment. Nested loads
  give the overlap of two walks over the list.
* `il2cpp`: two hack threads; five methods, of which two share one pointer, one has no code and one
  is not selected; one game thread. Engines with and without each of the API functions that may be missing.
* `backup`: every code of one and two instructions out of one of each class, with targets before, inside
  and behind the patch, literals there too, and some of three and four, the usual lengths of a patch; both engines; two
  page sizes; the patch written at any moment of the call. Relocation treats instructions one by one, so two show what one can do to the next; the function begins two
  instructions before a page boundary, so that `ADRP` is taken on both sides of it. The proofs
  have no bound.
* `memory`: two threads (the races are of pairs) with three jobs between them; six pages, of which
  four belong to the application and one may be mapped by it at any time; pages of eight
  instructions and a reach of one and a half pages, so that blocks end at, before and behind a page
  boundary, arenas fill up, and nothing may be in reach.
* `tracers`: all five tracers, then each of the things that may be missing (the string functions,
  PrettyMethod, the file), then stops with and without filters; two threads with `MaxCalls` = 2 calls under way
  between them, side by side or one inside the other, so that the tracer's own JNI calls, another
  tracer's line or another thread's call come between two lines of a call, and two threads are in
  the stream.
* `injection`: two saves, so that a new configuration meets an old one; any number of processes one
  after the other; two threads and one further package in each.

`tracers` has deadlock checking off: the process may die of the deleted stream.
`backup` ends when the copy is left, `memory` when the jobs are done, and in `injection` a user may save
nothing more, so they have deadlock checking off too.

`linker` and `il2cpp` switch deadlock checking off because both programs may stop: `abort()` after a
second redirect, and the crash through a missing API.

Fairness: a thread inside a replacement, a load, a callback or a hack thread is runnable and gets
scheduled (weak fairness of its own steps, per thread). In `il2cpp` a loaded engine also
initialises its virtual machine (`VmInit`). In `injection`
the framework creates further Contexts, on some thread. Nothing is assumed about installing, stopping, loading
or calling, which may never happen.

## 4. Proofs

### HookRegistry

`HookRegistry_proofs` proves, for any functions, replacements, requests, threads and bound:

| Theorem | Statement |
|---|---|
| `TypeCorrect` | `Spec => []TypeOK` |
| `HookedOnce` | `Spec => []HookedAtMostOnce` |
| `BackupBeforeEntry` | `Spec => []OrgReadyWhenEntered` |
| `CallsNeverReenter` | `Spec => []NoReentry` |
| `TableImplemented` | `Spec => ImplementsTable` |
| `ListIsTrue` | `Spec => []ListedArePatched` |
| `SuccessIsTrue` | `Spec => []SuccessMeansPatched` |
| `NearBranchIsOver` | `Spec => []NearBranchOnlyAsked` |

`HookedOnce` to `TableImplemented` assume `TracerApi`: the program neither unhooks nor uses `HookerForSign`, which is
how both tracers use HookUtils (neither is called in the repository). The run `hook_once_doc`
shows that the assumption is needed. The other assumptions are the named ones of HookRegistry.

None of these four properties is inductive. The invariant that is, `IInv`, adds four facts to `TypeOK`:

* `UnlistedClean`: a function that is not listed carries no redirecting patch, and the operation
  in progress works on an unlisted function. This is what hookedList is worth.
* `CodeInv`: every function carries at most one redirecting patch, and the backup of a replacement
  whose patch is on some function is written.
* `OrgInv`: a written backup pointer leads to code with no redirecting patch. It was a snapshot of
  an unlisted function, so this follows from `UnlistedClean`.
* `CallInv`: the code a thread is running satisfies the same; once it went through a replacement,
  what is left has no redirecting patch.

So a replacement is installed over clean code, its backup is clean, and a call meets at most one
replacement. `TableImplemented` maps the redirecting patch of a function to its owner: only
`DobbyCommit` and `SandOverwrite` change it, from none to one.

The other theorems hold for the whole API. The list and the answers are true together (`Truthful`): an
answer "already hooked" is as good as the list, and a function leaves the list in the operation that
takes its patches away. Near branches are on unasked only while Dobby works on Hooker's second
attempt (`NearInUse`).

### JniTrace

| Theorem | Statement |
|---|---|
| `TypeCorrect` | `Spec => []TypeOK` |
| `OriginalRunsOnce` | `Spec => []OrigOncePerCall` |
| `ExceptionsArePassedOn` | `Spec => []ExceptionsSurvive` |
| `OwnCallsAreSpared` | `Spec => []OwnNeverTraced`, if no filter names the tracer's own library |
| `TracingIsTransparent` | `Spec => ImplementsUntraced`, where `ImplementsUntraced == Untraced!Spec` |

for any threads, libraries, settings and depth of calls. The invariant is about every call on every
stack: the original is still to come exactly once, or has been called and does not come again, or the call is
answered without it (`Balanced`); a running original is the first of the steps left and was counted (`Running`);
a call whose original threw has only lines left to write (`Spent`), so it is the innermost one of its
thread and nobody clears its exception before it returns (`Pending`). For `OwnCallsAreSpared` the
settings never select the own library (`OwnUnselected`), and a call keeps what was decided when it began.

`TracingIsTransparent` is proved step by step: each action is a step of `UntracedCalls` or changes
nothing that is visible (`StepFaithful`). It needs two more facts about every stack (`NInv`). A call that
another one runs inside waits, in its original if native code of the application made the other one,
or for the `ExceptionClear` at the end of a description if the tracer did, and the tracer's own calls
do not throw (`Nested`); otherwise a return could put the call below at a stage that no untraced call has.
And a pending exception belongs to the innermost call or to code that may handle it (`Expected`);
otherwise a call of the tracer that returns would let an exception appear out of nowhere, or a call
that did not throw would return with one. `ViewAppend` says what one more call adds to what is seen,
`Mapping` what a change of one thread's stack and exception means to the application. The proof does not
ask for a filter that spares the tracer: a tracer that traces itself never comes back, but what it does
meanwhile is hidden all the same.

### TracerLog

| Theorem | Statement |
|---|---|
| `TypeCorrect` | `Spec => []TypeOK` |
| `ChosenGetHooked` | `Spec => []ChosenAreHooked` |
| `OnlyStopsLose` | `Spec => LinesAreSaved` |
| `NoLineAfterStop` | `Spec => StoppedStaysAway` |
| `LabelsAreTrue` | `Spec => LabelsAreRight` |

for any threads, libraries, requests and number of calls under way. The invariant follows
`startHookJni`: a tracer that hooks has its stream (`Starting`), so every hooked function has
(`Fed`), and with it the flag unless it was stopped (`Saving`, `Stopped`); a tracer with a filter
gets the stream in its own turn, so a stop cannot come before it (`Ahead`); the ones
whose turn is over are hooked if they can be (`Started`). Only hooked functions are on the
stacks (`Calls`). A second invariant (`Shared`) says what the one stream is: it is open as soon as a
tracer has it and until a stop has deleted it, and a line begins only while its tracer has it. So a
line that is lost needs a stop that is past the deletion (`LossNeedsStop`), and one that is left
out a stop that is over (`SkipsAreStopped`). For the labels, a third (`Labelled`) says of every call of a filtering tracer
that the label is its own unless it is marked, and that an untraced one has no line left to write.

### Il2cppTracer

| Theorem | Statement |
|---|---|
| `TypeCorrect` | `Spec => []TypeOK` |
| `InfosMatchTrampolines` | `Spec => []TrampolinesAreRecorded` |
| `PatchedOnce` | `Spec => []DoublePatchNeedsOverlap` |
| `CallbacksFindInfos` | `Spec => NotFoundOnlyInWindow` |

for any hack threads, loads, game threads, methods and addresses. While hack threads have not overlapped,
one of them is between the beginning and the end of the list (`Alone`), an address with a trampoline has an
entry or is about to get it, and one that is about to be patched has none (`Once`); callbacks
run in addresses with trampolines (`Callers`). `TrampolinesAreRecorded` is inductive with these.

### BackupCode

| Theorem | Statement |
|---|---|
| `TypeInvariant` | `Spec => []TypeOK` |
| `PatchIsBypassed` | `Spec => []NeverIntoPatch` |
| `CopyIsOriginal` | `Spec => ImplementsOriginal` |

for code of any length, any registers, conditions, memory, patch and page sizes, from the assumptions on the
constants named in BackupCode. The invariant adds to `TypeOK` where the copy begins (`AtStart`), that
the scratch register holds the address the instruction is about when a branch or a load goes through it
(`Holding`), and that behind the test of a conditional branch the outcome of the test is known
(`Judged`). The refinement maps
the last emitted instruction of each copied one to a step of `OriginalCode` and the others to
stuttering, for code that satisfies `Exact`. Writing the patch stutters too, and changes no load of
such code (`Untouched`).

### CodeMemory

| Theorem | Statement |
|---|---|
| `TypeCorrect` | `Spec => []TypeOK` |
| `NoPageLeftOpen` | `Spec => []WritableOnlyWhilePatched` |
| `BlocksStayApart` | `Spec => []BlocksApart` |
| `NearBlocksReach` | `Spec => []NearInReach` |
| `NoFaultAlone` | `Spec => []FaultsNeedOverlap` |
| `AppPagesSpared` | `Spec => AppPagesKept` |

for any numbers of threads, pages and jobs, any page size, width of addresses and reach of a branch.

The first two hold in every interleaving. `NoPageLeftOpen` is inductive once threads are
records of the right shape (`Shaped`): taking the permission back closes both pages even if another
thread has just opened them, and a thread that is between opening and closing keeps its address.
Types (`Typed`) need to know what a step later takes out of a thread's hands (`Sound`): the arena
it works in exists, the pages of a new arena are an interval, the address it cuts at is a number.

The other four are about threads that take turns, and none is inductive: they say nothing of a
thread in the middle of an allocation. The invariant `TurnsInv` is `Typed` and, unless two threads
have been in Dobby at once:

* `Alone`: at most one thread is at work, and nothing has faulted.
* `Ground`: every arena spans whole pages that are Dobby's and has its cursor inside; the code of the
  application is mapped.
* `Apart`: arenas are disjoint and blocks are, unless a new arena was laid over the mapping it
  should end at (`abutted`).
* `Placed`: every block lies between the start and the cursor of an arena, and a near one in reach.
* `Doing`: what the working thread counts on. The layout it read still shows every page of Dobby's
  (`"map"`); the new pages are apart from all arenas and reach what they are for (`NewPages`); the
  cursor is at or before the address to skip to, which is in reach (`Ahead`); what is to be cut fits
  and is in reach (`Room`); what is to be written to is mapped, open, and Dobby's unless a function
  is being patched (`Target`).

The application may map pages at any time. That hurts only the fixed mapping after a stale layout,
which is why `AppPagesKept` names the window, and why `Doing` speaks of Dobby's pages only.

The assumptions: sizes are positive (`SizeAssumption`), page 0 is not mapped (`PagesAssumption`),
pages are numbered without holes and no address wraps (`SpaceAssumption`; the addresses of a process
lie far below 2^64), and every position is at least `Reach`, what is patched being code of the application
(`JobsAssumption`; the engine is asked to patch functions of loaded libraries). Arithmetic of
pages is proved apart (`PageBounds`, `BaseOrder`, `PageWithin`, `GapFacts`, `ArenaFacts`): multiplication by
an arbitrary page size is more than the prover does on its own.

### LinkerHandler

| Theorem | Statement |
|---|---|
| `TypeCorrect` | `Spec => []TypeOK` |
| `EveryoneHears` | `Spec => []ToldBothSides` |
| `ReportsAreTrue` | `Spec => []ReportsWhatWasLoaded` |

for any threads, callbacks, redirects and depth of nesting. The invariant is about every load of every
thread's stack, also the ones whose original another load is running inside: while the list is not
deleted, a loop is at most one past its end (so an element appended later is still ahead of it) and has told
everyone before its position (`Upto`), and a finished loop has told everyone due (`Heard`); what the
linker was given is what `reloc` says, and only that is reported (`Truthful`).

### Injection

| Theorem | Statement |
|---|---|
| `TypeCorrect` | `Spec => []TypeOK` |
| `TracersStartOnce` | `Spec => []StartedOnce` |
| `StartsWhatWasChosen` | `Spec => []StartsAsChosen` |

for any packages, threads, configurations and numbers of saves and loads. Two invariants, one on top of
the other, carry them. `IInv` says, of a process in which threads have not met, that one thread at
a time is inside LHook (`Alone`), that nothing was started while a thread is between the test of `isInit`
and the start (`Before`), and that after the start `isInit` is set or about to be (`After`): the ways out
that leave `isInit` unset are all ahead of the start. `Choice` says that a save which has not failed
delivered what it saves (`Delivered`), that after a complete save all a process can read is that
save (`Complete`), that the tag is the process's own package only after a configuration
named it (`Named`), and that without interference only what is due was read or started (`OnlyDue`).

### Model-checked only

Liveness: `CallsReturn`, `LoadsEnd`, `EventuallyTraced`, `StartsInTheEnd`. TLAPS does not
support reasoning about fairness (`ENABLED`). Every other property of a run that passes is the
subject of a theorem above. The type invariant of JniTrace and BackupCode is proved
only: no run lists it, since a state of another shape shows in the refinement those runs check.

## 5. Not modelled

* Relocation for 32-bit ARM and x86, the encoders of the assemblers (vixl, Dobby's own), and the
  disassemblers: translations of tables, a matter of tests against the processor.
* SandHook's code buffer: a counter of bytes whose sizes depend on the encoders.
* The text of log lines and of the metadata dump; class names and the use of a released string in
  `getJObjectClassInfo`; `match_so_name` beyond the last match.
* The replacements in stringHandler that are not installed, and invokePrintf's choice between the
  versions of `RegisterNative`.
* il2cppTrace's entry point (the same form as JniTrace's, without filters), the memory dump, the user
  interface.
* Vendored libraries: xDL, xunwind, fmt, gson, and MMKV, which the code does not use. They are most of
  the repository's lines.

## 6. Plan

Done: HookTable; HookRegistry, JniTrace, TracerLog, LinkerHandler, Il2cppTracer, CodeMemory and Injection,
each with proofs; OriginalCode, BackupCode, UntracedCalls and the refinement by JniTrace with proofs.

Next: relocation for Thumb and ARM, where a copied instruction may change its length.
