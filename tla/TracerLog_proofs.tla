-------------------------- MODULE TracerLog_proofs --------------------------
(***************************************************************************)
(* One stream for five tracers: what becomes of them when some cannot      *)
(* start and some are stopped, for any threads, libraries, requests and    *)
(* number of calls under way.                                              *)
(***************************************************************************)
EXTENDS TracerLog, SequenceTheorems, TLAPS

------------------------------------------------------------------------------
(* The tracers and their functions.                                         *)

LEMMA OrderIs ==
    /\ Order[1] = "jni" /\ Order[2] = "string" /\ Order[3] = "register"
    /\ Order[4] = "linker" /\ Order[5] = "invoke"
    /\ Len(Order) = 5 /\ DOMAIN Order = 1..5
BY DEF Order

LEMMA TracersAre == Tracers = {Order[j] : j \in 1..5}
BY OrderIs DEF Tracers, Range

\* The sink of a tracer, the one SinkOfTracer is for the tracer whose turn it is.
SinkAt(j) == IF Order[j] = "register" THEN "invoke" ELSE Order[j]

LEMMA SinkOfTurn == SinkOfTracer = SinkAt(turn) /\ Tracer = Order[turn]
BY DEF SinkOfTracer, Tracer, SinkAt

\* A tracer hooks functions of its sink, and the linker's a callback besides.
LEMMA FunsOfSink ==
    ASSUME NEW j \in 1..5
    PROVE  /\ SinkAt(j) \in Sinks
           /\ SinkAt(j) \in Filtering => \A k \in 1..5 : SinkAt(k) = SinkAt(j) => k = j
           /\ \A i \in DOMAIN FunsOf(Order[j]) :
                 /\ FunsOf(Order[j])[i] \in Funs \cup {"callback"}
                 /\ FunsOf(Order[j])[i] \in Funs
                       => SinkOf(FunsOf(Order[j])[i]) = SinkAt(j)
<1>1. SinkAt(1) = "jni" /\ SinkAt(2) = "string" /\ SinkAt(3) = "invoke"
      /\ SinkAt(4) = "linker" /\ SinkAt(5) = "invoke"
  BY OrderIs DEF SinkAt
<1>2. CASE j = 1
  <2>1. FunsOf(Order[j]) = <<"CallObjectMethodV">>
    BY <1>2, OrderIs DEF FunsOf
  <2>2. QED
    BY <1>1, <1>2, <2>1 DEF Sinks, Filtering, Funs, SinkOf
<1>3. CASE j = 2
  <2>1. FunsOf(Order[j]) = <<"strstr", "strdup">>
    BY <1>3, OrderIs DEF FunsOf
  <2>2. QED
    BY <1>1, <1>3, <2>1 DEF Sinks, Filtering, Funs, SinkOf
<1>4. CASE j = 3
  <2>1. FunsOf(Order[j]) = <<"RegisterNative">>
    BY <1>4, OrderIs DEF FunsOf
  <2>2. QED
    BY <1>1, <1>4, <2>1 DEF Sinks, Filtering, Funs, SinkOf
<1>5. CASE j = 4
  <2>1. FunsOf(Order[j]) = <<"dlopen", "callback">>
    BY <1>5, OrderIs DEF FunsOf
  <2>2. QED
    BY <1>1, <1>5, <2>1 DEF Sinks, Filtering, Funs, SinkOf
<1>6. CASE j = 5
  <2>1. FunsOf(Order[j]) = <<"invoke">>
    BY <1>6, OrderIs DEF FunsOf
  <2>2. QED
    BY <1>1, <1>6, <2>1 DEF Sinks, Filtering, Funs, SinkOf
<1>7. QED
  BY <1>2, <1>3, <1>4, <1>5, <1>6

LEMMA SinkOfFun == \A f \in Funs : SinkOf(f) \in Sinks
BY DEF Funs, SinkOf, Sinks

------------------------------------------------------------------------------
(* The invariant.                                                           *)

\* A tracer that hooks has its stream, and PrettyMethod if it is to have it.
Starting ==
    /\ at \in {"store", "hook"} => turn \in 1..5
    /\ at = "done" => turn = 6
    /\ at = "hook" => os[SinkAt(turn)] = "file"
    /\ at = "hook" /\ SinkAt(turn) = "invoke" /\ request.pretty => prettySym

\* Hooked functions have the stream.
Fed == \A f \in hooked \cap Funs : os[SinkOf(f)] = "file"

\* A tracer that looks at libraries gets the stream in its turn, not before.
Ahead ==
    \A j \in 1..5 : SinkAt(j) \in Filtering /\ (j > turn \/ (j = turn /\ at # "hook"))
        => os[SinkAt(j)] = "null"

\* Who has the stream saves lines, until it is stopped.
Saving ==
    \A s \in Sinks : os[s] = "file" => isSave[s] \/ (s \in Filtering /\ stopping[s] = "done")

Stopped ==
    \A s \in Filtering : /\ stopping[s] # "no" => os[s] = "file"
                         /\ stopping[s] = "done" => ~isSave[s]

\* Whose turn is over is hooked, if it can be.
Started ==
    \A j \in 1..5 :
        /\ j < turn
        /\ Order[j] \in request.list \cap request.found
        /\ Order[j] \in {"register", "invoke"} => request.pretty
        => Range(FunsOf(Order[j])) \subseteq hooked

\* Only hooked functions are called.
Calls == \A t \in Threads : \A k \in DOMAIN stack[t] : stack[t][k].fun \in hooked

StartInv == Starting /\ Fed /\ Ahead /\ Saving /\ Stopped /\ Started
IInv == TypeOK /\ StartInv /\ Calls

LEMMA InitOK == Init => IInv
<1> SUFFICES ASSUME Init PROVE IInv
  OBVIOUS
<1>1. \A t \in Threads : stack[t] = <<>> /\ DOMAIN stack[t] = {}
  <2>1. \A t \in Threads : stack[t] = <<>>
    BY DEF Init
  <2>2. DOMAIN <<>> = {}
    OBVIOUS
  <2>3. QED
    BY <2>1, <2>2, Zenon
<1>2. Calls
  BY <1>1 DEF Calls
<1>3. TypeOK
  <2>1. <<>> \in Seq(CallFrame) /\ 1 \in 1..(Len(Order) + 1)
    BY OrderIs
  <2>2. QED
    BY <2>1 DEF Init, TypeOK, Sinks, Filtering
<1>4. \A j \in 1..5 : SinkAt(j) \in Sinks
  BY FunsOfSink
<1>5. StartInv
  BY <1>4 DEF Init, StartInv, Starting, Fed, Ahead, Saving, Stopped, Started, Sinks, Filtering
<1>6. QED
  BY <1>2, <1>3, <1>5 DEF IInv

\* startHookJni, up to the tracers and between them.
LEMMA BetweenTracers ==
    ASSUME IInv, startHookJni \/ OpenFile \/ LookForTracer
    PROVE  IInv'
<1>1. /\ UNCHANGED <<request, os, isSave, filterSoList, prettySym, hooked, match_so_name,
                     stopping, stack, writing, crashed>>
      /\ at' \notin {"hook"} /\ at # "hook"
      /\ file' \in {"none", "open", "deleted"}
  BY DEF startHookJni, OpenFile, LookForTracer, IInv, TypeOK
<1>2. turn \in 1..6
  BY OrderIs DEF IInv, TypeOK
<1>3. /\ at' \in {"open", "next", "store", "failed", "done"}
      /\ turn' \in 1..6 /\ turn' >= turn
      /\ at' = "store" => turn' \in 1..5
      /\ at' = "done" => turn' = 6
      /\ turn' # turn => turn' = turn + 1 /\ turn \in 1..5 /\ Order[turn] \notin request.list
  <2>1. CASE startHookJni \/ OpenFile
    BY <1>2, <2>1 DEF startHookJni, OpenFile
  <2>2. CASE LookForTracer /\ turn > Len(Order)
    BY <1>2, <2>2, OrderIs DEF LookForTracer
  <2>3. CASE LookForTracer /\ turn <= Len(Order)
    <3>1. turn \in 1..5
      BY <1>2, <2>3, OrderIs
    <3>2. CASE Tracer \in request.list
      BY <3>1, <2>3, <3>2, OrderIs DEF LookForTracer
    <3>3. CASE Tracer \notin request.list
      BY <3>1, <2>3, <3>3, OrderIs DEF LookForTracer, Tracer
    <3>4. QED
      BY <3>2, <3>3
  <2>4. QED
    BY <1>2, <2>1, <2>2, <2>3, OrderIs
<1>4. TypeOK'
  BY <1>1, <1>3, OrderIs DEF IInv, TypeOK
<1>5. Starting' /\ Fed' /\ Saving' /\ Stopped' /\ Calls'
  BY <1>1, <1>3 DEF IInv, StartInv, Starting, Fed, Saving, Stopped, Calls, SinkAt
<1>6. Ahead'
  BY <1>1, <1>2, <1>3 DEF IInv, StartInv, Ahead, SinkAt
<1>7. Started'
  BY <1>1, <1>2, <1>3 DEF IInv, StartInv, Started
<1>8. QED
  BY <1>4, <1>5, <1>6, <1>7 DEF IInv, StartInv

\* A tracer gets stream and flag; if it looks at libraries it had none before.
LEMMA SettingsStored ==
    ASSUME IInv, StoreSettings
    PROVE  IInv'
<1> DEFINE sink == SinkAt(turn)
<1>1. /\ turn \in 1..5 /\ at' = "hook" /\ at = "store" /\ turn' = turn
      /\ SinkOfTracer = sink /\ sink \in Sinks
  BY SinkOfTurn, FunsOfSink DEF StoreSettings, IInv, StartInv, Starting
<1>2. /\ os \in [Sinks -> {"null", "file"}] /\ os' = [os EXCEPT ![sink] = "file"]
      /\ isSave \in [Sinks -> BOOLEAN] /\ isSave' = [isSave EXCEPT ![sink] = TRUE]
      /\ UNCHANGED <<request, turn, file, hooked, match_so_name, stopping, stack,
                     writing, crashed>>
  BY <1>1 DEF StoreSettings, IInv, TypeOK
<1>3. prettySym' \in BOOLEAN /\ (sink = "invoke" /\ request.pretty => prettySym')
  <2>1. request \in Request /\ prettySym \in BOOLEAN
    BY RequestsAssumption DEF IInv, TypeOK
  <2>2. request.pretty \in BOOLEAN
    BY <2>1 DEF Request
  <2>3. prettySym' = (prettySym \/ (sink = "invoke" /\ request.pretty))
    BY <1>1 DEF StoreSettings
  <2>4. QED
    BY <2>1, <2>2, <2>3
<1>4. filterSoList' \in [Filtering -> SUBSET Sos]
  <2>1. request \in Request
    BY RequestsAssumption DEF IInv, TypeOK
  <2>2. request.filter \in SUBSET Sos
    BY <2>1 DEF Request
  <2>3. QED
    BY <2>2 DEF StoreSettings, IInv, TypeOK
<1> HIDE DEF sink
<1>5. /\ os' \in [Sinks -> {"null", "file"}] /\ isSave' \in [Sinks -> BOOLEAN]
      /\ \A s \in Sinks : /\ os'[s] = IF s = sink THEN "file" ELSE os[s]
                          /\ isSave'[s] = IF s = sink THEN TRUE ELSE isSave[s]
  BY <1>1, <1>2
<1>6. TypeOK'
  BY <1>1, <1>2, <1>3, <1>4, <1>5 DEF IInv, TypeOK
<1>7. Starting'
  BY <1>1, <1>2, <1>3, <1>5 DEF Starting, sink, SinkAt
<1>8. Fed' /\ Calls'
  BY <1>2, <1>5, SinkOfFun DEF IInv, StartInv, Fed, Calls
<1>9. sink \in Filtering => os[sink] = "null" /\ stopping[sink] = "no"
  <2>1. sink \in Filtering => os[sink] = "null"
    BY <1>1 DEF IInv, StartInv, Ahead, sink
  <2>2. QED
    BY <2>1 DEF IInv, StartInv, Stopped
<1>10. Ahead'
  <2> SUFFICES ASSUME NEW j \in 1..5, SinkAt(j) \in Filtering, j > turn
               PROVE  os'[SinkAt(j)] = "null"
    BY <1>1, <1>2 DEF Ahead, SinkAt
  <2>1. SinkAt(j) # sink /\ SinkAt(j) \in Sinks
    BY <1>1, FunsOfSink DEF sink
  <2>2. QED
    BY <1>5, <2>1 DEF IInv, StartInv, Ahead
<1>11. Saving'
  BY <1>2, <1>5 DEF IInv, StartInv, Saving
<1>12. Stopped'
  BY <1>2, <1>5, <1>9 DEF IInv, StartInv, Stopped, Sinks, Filtering
<1>13. Started'
  BY <1>2 DEF IInv, StartInv, Started
<1>14. QED
  BY <1>6, <1>7, <1>8, <1>10, <1>11, <1>12, <1>13 DEF IInv, StartInv

\* A function is hooked: by a tracer that has the stream.
LEMMA OneMoreHooked ==
    ASSUME IInv, NEW i, HookNext(i)
    PROVE  IInv'
<1> DEFINE f == FunsOf(Tracer)[i]
<1>1. /\ turn \in 1..5 /\ at = "hook" /\ i \in DOMAIN FunsOf(Tracer)
      /\ Tracer = Order[turn] /\ hooked' = hooked \cup {f}
      /\ UNCHANGED <<request, at, turn, file, os, isSave, filterSoList, prettySym,
                     match_so_name, stopping, stack, writing, crashed>>
  BY SinkOfTurn DEF HookNext, IInv, StartInv, Starting
<1>2. f \in Funs \cup {"callback"} /\ (f \in Funs => SinkOf(f) = SinkAt(turn))
  BY <1>1, FunsOfSink
<1> HIDE DEF f
<1>3. TypeOK'
  BY <1>1, <1>2 DEF IInv, TypeOK
<1>4. Fed'
  BY <1>1, <1>2 DEF IInv, StartInv, Fed, Starting
<1>5. Starting' /\ Ahead' /\ Saving' /\ Stopped'
  BY <1>1 DEF IInv, StartInv, Starting, Ahead, Saving, Stopped, SinkAt
<1>6. Started' /\ Calls'
  BY <1>1 DEF IInv, StartInv, Started, Calls
<1>7. QED
  BY <1>3, <1>4, <1>5, <1>6 DEF IInv, StartInv

\* A tracer's turn is over when its functions are hooked, or cannot be.
LEMMA TurnEnds ==
    ASSUME IInv, EndTracer
    PROVE  IInv'
<1>1. /\ turn \in 1..5 /\ at = "hook" /\ at' = "next" /\ turn' = turn + 1
      /\ Tracer = Order[turn] /\ SinkOfTracer = SinkAt(turn)
      /\ UNCHANGED <<request, file, os, isSave, filterSoList, prettySym, hooked,
                     match_so_name, stopping, stack, writing, crashed>>
  BY SinkOfTurn DEF EndTracer, IInv, StartInv, Starting
<1>2. TypeOK'
  BY <1>1, OrderIs DEF IInv, TypeOK
<1>3. Starting' /\ Fed' /\ Saving' /\ Stopped' /\ Calls'
  BY <1>1 DEF IInv, StartInv, Starting, Fed, Saving, Stopped, Calls
<1>4. Ahead'
  BY <1>1 DEF IInv, StartInv, Ahead, SinkAt
<1>5. /\ Order[turn] \in request.found
      /\ Order[turn] \in {"register", "invoke"} => request.pretty
      => CanHook
  <2>1. SinkAt(turn) = "invoke" => Order[turn] \in {"register", "invoke"}
    BY DEF SinkAt
  <2>2. QED
    BY <1>1, <2>1 DEF CanHook, IInv, StartInv, Starting
<1>6. Started'
  <2> SUFFICES ASSUME NEW j \in 1..5, j < turn + 1,
                      Order[j] \in request.list \cap request.found,
                      Order[j] \in {"register", "invoke"} => request.pretty
               PROVE  Range(FunsOf(Order[j])) \subseteq hooked
    BY <1>1 DEF Started
  <2>1. CASE j = turn
    BY <1>1, <1>5, <2>1 DEF EndTracer
  <2>2. CASE j # turn
    BY <1>1, <2>2 DEF IInv, StartInv, Started
  <2>3. QED
    BY <2>1, <2>2
<1>7. QED
  BY <1>2, <1>3, <1>4, <1>6 DEF IInv, StartInv

\* Stopping takes the flag from a tracer that has the stream.
LEMMA StopStep ==
    ASSUME IInv, NEW s \in Filtering, StopClearFilter(s) \/ StopDelete(s) \/ StopSave(s)
    PROVE  IInv'
<1>1. /\ UNCHANGED <<request, at, turn, os, prettySym, hooked, match_so_name, stack, writing>>
      /\ filterSoList' \in [Filtering -> SUBSET Sos] /\ file' \in {"none", "open", "deleted"}
      /\ crashed' \in BOOLEAN
  BY DEF StopClearFilter, StopDelete, StopSave, UseOfStream, IInv, TypeOK
<1>2. /\ stopping' = [stopping EXCEPT ![s] = stopping'[s]]
      /\ stopping'[s] \in {"begun", "deleted", "done"} /\ os[s] = "file"
      /\ stopping[s] # "done"
      /\ \/ isSave' = isSave /\ stopping'[s] # "done"
         \/ isSave' = [isSave EXCEPT ![s] = FALSE] /\ stopping'[s] = "done"
  BY DEF StopClearFilter, StopDelete, StopSave, IInv, TypeOK, StartInv, Stopped
<1>3. s \in Sinks
  BY DEF Filtering, Sinks
<1>4. /\ stopping' \in [Filtering -> {"no", "begun", "deleted", "done"}]
      /\ isSave' \in [Sinks -> BOOLEAN]
      /\ \A r \in Filtering \ {s} : stopping'[r] = stopping[r]
      /\ \A r \in Sinks \ {s} : isSave'[r] = isSave[r]
      /\ stopping'[s] = "done" => ~isSave'[s]
      /\ stopping'[s] # "done" => isSave'[s] = isSave[s]
  BY <1>2, <1>3 DEF IInv, TypeOK
<1>5. TypeOK'
  BY <1>1, <1>4 DEF IInv, TypeOK
<1>6. Starting' /\ Fed' /\ Ahead' /\ Started' /\ Calls'
  BY <1>1 DEF IInv, StartInv, Starting, Fed, Ahead, Started, Calls, SinkAt
<1>7. Saving'
  BY <1>1, <1>2, <1>3, <1>4 DEF IInv, StartInv, Saving
<1>8. Stopped'
  BY <1>1, <1>2, <1>4 DEF IInv, StartInv, Stopped, Filtering, Sinks
<1>9. QED
  BY <1>5, <1>6, <1>7, <1>8 DEF IInv, StartInv

------------------------------------------------------------------------------
(* Calls.                                                                   *)

\* Calls that may be under way: of hooked functions.
Live == {frame \in CallFrame : frame.fun \in hooked}

LEMMA LiveStacks ==
    ASSUME TypeOK, Calls
    PROVE  stack \in [Threads -> Seq(Live)]
<1>1. ASSUME NEW t \in Threads PROVE stack[t] \in Seq(Live)
  <2>1. stack[t] \in Seq(CallFrame) /\ \A k \in DOMAIN stack[t] : stack[t][k].fun \in hooked
    BY DEF TypeOK, Calls
  <2>2. \A k \in 1..Len(stack[t]) : stack[t][k] \in Live
    BY <2>1 DEF Live
  <2>3. QED
    BY <2>1, <2>2
<1>2. QED
  BY <1>1 DEF TypeOK

\* The innermost call, and what is below it.
LEMMA TopCall ==
    ASSUME NEW t \in Threads, stack[t] \in Seq(Live), stack[t] # <<>>
    PROVE  /\ Top(t) \in Live
           /\ Front(stack[t]) \in Seq(Live)
           /\ Top(t).todo # <<>> => Rest(t) \in Seq(Steps)
<1>1. Len(stack[t]) \in 1..Len(stack[t])
  BY EmptySeq, LenProperties
<1>2. Top(t) \in Live
  BY <1>1 DEF Top, Last
<1>3. Front(stack[t]) \in Seq(Live)
  BY <1>1, SubSeqProperties DEF Front
<1>4. Top(t).todo # <<>> => Rest(t) \in Seq(Steps)
  BY <1>2, HeadTailProperties DEF Live, CallFrame, Rest
<1>5. QED
  BY <1>2, <1>3, <1>4

\* The innermost call with other steps to come.
LEMMA WithSteps ==
    ASSUME NEW t \in Threads, stack[t] \in Seq(Live), stack[t] # <<>>,
           NEW todo \in Seq(Steps)
    PROVE  WithTop(t, [Top(t) EXCEPT !.todo = todo]) \in Seq(Live)
<1>1. [Top(t) EXCEPT !.todo = todo] \in Live
  BY TopCall DEF Live, CallFrame
<1>2. QED
  BY <1>1, TopCall, AppendProperties DEF WithTop

LEMMA StepsAreSteps ==
    ASSUME NEW f, NEW traced \in BOOLEAN
    PROVE  StepsOf(f, traced) \in Seq(Steps)
<1>1. /\ <<"orig">> \in Seq(Steps)
      /\ <<"line", "own", "line", "orig", "own", "line">> \in Seq(Steps)
      /\ <<"orig", "line">> \in Seq(Steps) /\ <<"orig", "tell">> \in Seq(Steps)
      /\ <<"line", "orig">> \in Seq(Steps)
  BY DEF Steps
<1>2. QED
  BY <1>1 DEF StepsOf

LEMMA TracedIsBoolean ==
    ASSUME TypeOK, NEW f \in Funs, NEW so, NEW named \in BOOLEAN
    PROVE  Traced(f, so, named) \in BOOLEAN
<1>1. isLister(SinkOf(f), so) \in BOOLEAN
  <2>1. (so \in AppSos) \in BOOLEAN /\ (so \in filterSoList[SinkOf(f)]) \in BOOLEAN
    BY SMT
  <2>2. CASE request.all
    BY <2>1, <2>2, Zenon DEF isLister
  <2>3. CASE ~request.all
    BY <2>1, <2>3, Zenon DEF isLister
  <2>4. QED
    BY <2>2, <2>3
<1>2. SinkOf(f) \in Filtering \/ f \in {"RegisterNative", "dlopen"} \/ f = "invoke"
  BY DEF Funs, SinkOf, Filtering
<1>3. CASE SinkOf(f) \in Filtering
  BY <1>1, <1>3 DEF Traced, Funs, SinkOf, Filtering
<1>4. CASE f \in {"RegisterNative", "dlopen"}
  BY <1>4 DEF Traced, SinkOf, Filtering
<1>5. CASE f = "invoke"
  BY <1>5 DEF Traced, SinkOf, Filtering
<1>6. QED
  BY <1>2, <1>3, <1>4, <1>5

LEMMA MixedStacks ==
    ASSUME NEW stacks \in [Threads -> Seq(Live)], NEW s
    PROVE  Mix(stacks, s) \in [Threads -> Seq(Live)]
<1> DEFINE mixed(frame) == [frame EXCEPT !.mixed = @ \/ SinkOf(frame.fun) = s]
           row(u) == [i \in DOMAIN stacks[u] |-> mixed(stacks[u][i])]
<1>1. ASSUME NEW frame \in Live PROVE mixed(frame) \in Live
  <2>1. frame.mixed \in BOOLEAN
    BY DEF Live, CallFrame
  <2>2. (frame.mixed \/ SinkOf(frame.fun) = s) \in BOOLEAN
    BY <2>1
  <2>3. QED
    BY <2>2 DEF Live, CallFrame
<1> HIDE DEF mixed
<1>2. ASSUME NEW u \in Threads PROVE row(u) \in Seq(Live)
  <2>1. stacks[u] \in Seq(Live) /\ DOMAIN stacks[u] = 1..Len(stacks[u]) /\ Len(stacks[u]) \in Nat
    OBVIOUS
  <2>2. row(u) \in [1..Len(stacks[u]) -> Live]
    BY <1>1, <2>1
  <2>3. QED
    BY <2>1, <2>2, SeqDef
<1>3. Mix(stacks, s) = [u \in Threads |-> row(u)]
  BY DEF Mix, mixed
<1>4. QED
  BY <1>2, <1>3

\* A library calls a hooked function.
LEMMA Entered ==
    ASSUME TypeOK, stack \in [Threads -> Seq(Live)], NEW t \in Threads,
           NEW below \in Seq(Live), NEW f \in Funs, NEW so \in Sos, EnterOn(t, below, f, so)
    PROVE  /\ stack' \in [Threads -> Seq(Live)]
           /\ match_so_name' \in [Filtering -> Sos \cup {NoSo}]
<1>1. PICK named \in BOOLEAN :
          LET traced == Traced(f, so, named)
              frame == [fun |-> f, so |-> so, traced |-> traced,
                        todo |-> StepsOf(f, traced), mixed |-> FALSE]
              others == [stack EXCEPT ![t] = below]
              mixed == IF traced /\ SinkOf(f) \in Filtering
                       THEN Mix(others, SinkOf(f)) ELSE others
          IN  /\ stack' = [mixed EXCEPT ![t] = Append(@, frame)]
              /\ match_so_name' = Label(f, so, traced)
  BY DEF EnterOn
<1> DEFINE traced == Traced(f, so, named)
           frame == [fun |-> f, so |-> so, traced |-> traced,
                     todo |-> StepsOf(f, traced), mixed |-> FALSE]
           others == [stack EXCEPT ![t] = below]
           mixed == IF traced /\ SinkOf(f) \in Filtering
                    THEN Mix(others, SinkOf(f)) ELSE others
<1>2. traced \in BOOLEAN
  BY TracedIsBoolean
<1>3. f \in hooked
  BY DEF EnterOn
<1>4. StepsOf(f, traced) \in Seq(Steps)
  BY <1>2, StepsAreSteps
<1>5. frame \in Live
  BY <1>2, <1>3, <1>4 DEF Live, CallFrame
<1>6. others \in [Threads -> Seq(Live)]
  OBVIOUS
<1>7. mixed \in [Threads -> Seq(Live)]
  BY <1>6, MixedStacks
<1>8. stack' = [mixed EXCEPT ![t] = Append(mixed[t], frame)] /\ match_so_name' = Label(f, so, traced)
  BY <1>1
<1> HIDE DEF traced, frame, others, mixed
<1>9. Append(mixed[t], frame) \in Seq(Live)
  BY <1>5, <1>7, AppendProperties
<1>10. match_so_name' \in [Filtering -> Sos \cup {NoSo}]
  BY <1>8 DEF Label, TypeOK
<1>11. QED
  BY <1>7, <1>8, <1>9, <1>10

\* Calls do not touch what startHookJni and stopjnitrace keep.
LEMMA CallsApart ==
    ASSUME IInv,
           UNCHANGED <<request, at, turn, file, os, isSave, filterSoList, prettySym, hooked>>,
           UNCHANGED stopping, crashed' \in BOOLEAN,
           stack' \in [Threads -> Seq(Live)],
           match_so_name' \in [Filtering -> Sos \cup {NoSo}],
           writing' \in [Threads -> {"no", "checked", "stream"}]
    PROVE  IInv'
<1>1. stack' \in [Threads -> Seq(CallFrame)] /\ Calls'
  <2>1. ASSUME NEW t \in Threads
        PROVE  /\ stack'[t] \in Seq(CallFrame)
               /\ \A k \in DOMAIN stack'[t] : stack'[t][k].fun \in hooked
    <3>1. stack'[t] \in Seq(Live) /\ DOMAIN stack'[t] = 1..Len(stack'[t])
      OBVIOUS
    <3>2. \A k \in 1..Len(stack'[t]) : stack'[t][k] \in Live
      BY <3>1
    <3>3. QED
      BY <3>1, <3>2 DEF Live
  <2>2. QED
    BY <2>1 DEF Calls
<1>2. TypeOK'
  BY <1>1 DEF IInv, TypeOK
<1>3. StartInv'
  BY DEF IInv, StartInv, Starting, Fed, Ahead, Saving, Stopped, Started, SinkAt
<1>4. QED
  BY <1>1, <1>2, <1>3 DEF IInv

LEMMA ThreadStepOK ==
    ASSUME IInv, NEW t \in Threads,
           \/ \E f \in Funs, so \in AppSos \cup SysSos : AppCall(t, f, so)
           \/ ThreadStep(t)
    PROVE  IInv'
<1>1. /\ TypeOK /\ stack \in [Threads -> Seq(Live)] /\ crashed \in BOOLEAN
      /\ match_so_name \in [Filtering -> Sos \cup {NoSo}]
      /\ writing \in [Threads -> {"no", "checked", "stream"}]
  BY LiveStacks DEF IInv, TypeOK
<1> DEFINE Quiet ==
       /\ UNCHANGED <<request, at, turn, file, os, isSave, filterSoList, prettySym, hooked>>
       /\ UNCHANGED stopping
<1> HIDE DEF Quiet
\* A step that leaves the stacks sound is enough.
<1>2. ASSUME Quiet, crashed' \in BOOLEAN,
             stack' \in [Threads -> Seq(Live)] /\ match_so_name' \in [Filtering -> Sos \cup {NoSo}],
             writing' \in [Threads -> {"no", "checked", "stream"}]
      PROVE  IInv'
  BY <1>2, CallsApart DEF Quiet
\* So is one that only gives the innermost call other steps.
<1>3. ASSUME NEW todo \in Seq(Steps), stack[t] # <<>>, stack' = Todo(t, todo)
      PROVE  stack' \in [Threads -> Seq(Live)]
  <2>1. WithTop(t, [Top(t) EXCEPT !.todo = todo]) \in Seq(Live)
    BY <1>1, <1>3, WithSteps
  <2>2. QED
    BY <1>1, <1>3, <2>1 DEF Todo
<1>4. stack[t] # <<>> /\ Top(t).todo # <<>> => Rest(t) \in Seq(Steps)
  BY <1>1, TopCall
<1>5. CASE \E f \in Funs, so \in AppSos \cup SysSos : AppCall(t, f, so)
  <2>1. PICK f \in Funs, so \in AppSos \cup SysSos : AppCall(t, f, so)
    BY <1>5
  <2>2. <<>> \in Seq(Live) /\ so \in Sos
    BY DEF Sos
  <2>3. stack' \in [Threads -> Seq(Live)] /\ match_so_name' \in [Filtering -> Sos \cup {NoSo}]
    BY <1>1, <2>1, <2>2, Entered DEF AppCall
  <2>4. Quiet /\ crashed' = crashed /\ writing' = writing
    BY <2>1 DEF AppCall, starter, Quiet
  <2>5. QED
    BY <1>1, <1>2, <2>3, <2>4
<1>6. CASE RunOrig(t)
  <2> DEFINE todo == <<"back">> \o Rest(t)
  <2>1. stack[t] # <<>> /\ Top(t).todo # <<>>
    BY <1>6 DEF RunOrig, AtStep
  <2>2. todo \in Seq(Steps)
    <3>1. <<"back">> \in Seq(Steps)
      BY DEF Steps
    <3>2. QED
      BY <1>4, <2>1, <3>1, ConcatProperties
  <2>3. Quiet /\ crashed' = crashed /\ writing' = writing
    BY <1>6 DEF RunOrig, starter, Quiet
  <2>4. \/ stack' = Todo(t, todo) /\ match_so_name' = match_so_name
        \/ \E f \in Funs, so \in AppSos \cup SysSos :
              EnterOn(t, WithTop(t, [Top(t) EXCEPT !.todo = todo]), f, so)
    BY <1>6 DEF RunOrig, Todo
  <2> HIDE DEF todo
  <2>5. CASE stack' = Todo(t, todo) /\ match_so_name' = match_so_name
    BY <1>1, <1>2, <1>3, <2>1, <2>2, <2>3, <2>5
  <2>6. CASE \E f \in Funs, so \in AppSos \cup SysSos :
                EnterOn(t, WithTop(t, [Top(t) EXCEPT !.todo = todo]), f, so)
    <3>1. WithTop(t, [Top(t) EXCEPT !.todo = todo]) \in Seq(Live)
      BY <1>1, <2>1, <2>2, WithSteps
    <3>2. AppSos \cup SysSos \subseteq Sos
      BY DEF Sos
    <3>3. stack' \in [Threads -> Seq(Live)]
          /\ match_so_name' \in [Filtering -> Sos \cup {NoSo}]
      BY <1>1, <2>6, <3>1, <3>2, Entered
    <3>4. QED
      BY <1>1, <1>2, <2>3, <3>3
  <2>7. QED
    BY <2>4, <2>5, <2>6
<1>7. CASE OwnCall(t)
  <2>1. stack[t] # <<>> /\ Rest(t) \in Seq(Steps)
    BY <1>4, <1>7 DEF OwnCall, AtStep
  <2>2. Quiet /\ crashed' = crashed /\ writing' = writing
    BY <1>7 DEF OwnCall, starter, Quiet
  <2>3. CASE stack' = Todo(t, Rest(t)) /\ match_so_name' = match_so_name
    BY <1>1, <1>2, <1>3, <2>1, <2>2, <2>3
  <2>4. CASE EnterOn(t, WithTop(t, [Top(t) EXCEPT !.todo = Rest(t)]), "CallObjectMethodV", OwnSo)
    <3>1. WithTop(t, [Top(t) EXCEPT !.todo = Rest(t)]) \in Seq(Live)
      BY <1>1, <2>1, WithSteps
    <3>2. "CallObjectMethodV" \in Funs /\ OwnSo \in Sos
      BY DEF Funs, Sos
    <3>3. stack' \in [Threads -> Seq(Live)]
          /\ match_so_name' \in [Filtering -> Sos \cup {NoSo}]
      BY <1>1, <2>4, <3>1, <3>2, Entered
    <3>4. QED
      BY <1>1, <1>2, <2>2, <3>3
  <2>5. QED
    BY <1>7, <2>3, <2>4 DEF OwnCall
<1>8. CASE OrigReturns(t) \/ SkipFile(t)
  <2>1. /\ stack[t] # <<>> /\ Rest(t) \in Seq(Steps) /\ stack' = Todo(t, Rest(t))
        /\ match_so_name' = match_so_name /\ crashed' = crashed /\ writing' = writing /\ Quiet
    BY <1>4, <1>8 DEF OrigReturns, SkipFile, AtStep, starter, Quiet
  <2>2. QED
    BY <1>1, <1>2, <1>3, <2>1
<1>9. CASE TellCallback(t)
  <2>1. PICK todo \in Seq(Steps) : stack' = Todo(t, todo)
    <3>1. <<"line">> \in Seq(Steps) /\ <<>> \in Seq(Steps)
      BY DEF Steps
    <3>2. QED
      BY <1>9, <3>1 DEF TellCallback
  <2>2. /\ stack[t] # <<>> /\ match_so_name' = match_so_name /\ crashed' = crashed
        /\ writing' = writing /\ Quiet
    BY <1>9 DEF TellCallback, AtStep, starter, Quiet
  <2>3. QED
    BY <1>1, <1>2, <1>3, <2>1, <2>2
<1>10. CASE BeginLine(t)
  <2>1. /\ stack' = stack /\ match_so_name' = match_so_name /\ crashed' = crashed /\ Quiet
        /\ writing' = [writing EXCEPT ![t] = "checked"]
    BY <1>10 DEF BeginLine, starter, Quiet
  <2>2. QED
    BY <1>1, <1>2, <2>1
<1>11. CASE TouchStream(t)
  <2>1. /\ stack' = stack /\ match_so_name' = match_so_name /\ crashed' \in BOOLEAN /\ Quiet
        /\ writing' = [writing EXCEPT ![t] = "stream"]
    BY <1>11 DEF TouchStream, UseOfStream, Quiet
  <2>2. QED
    BY <1>1, <1>2, <2>1
<1>12. CASE EndLine(t)
  <2>1. /\ stack[t] # <<>> /\ Rest(t) \in Seq(Steps) /\ stack' = Todo(t, Rest(t))
        /\ match_so_name' = match_so_name /\ crashed' = crashed /\ Quiet
        /\ writing' = [writing EXCEPT ![t] = "no"]
    BY <1>4, <1>12 DEF EndLine, AtStep, starter, Quiet
  <2>2. QED
    BY <1>1, <1>2, <1>3, <2>1
<1>13. CASE ReturnCall(t)
  <2>1. stack[t] # <<>> /\ stack' = [stack EXCEPT ![t] = Front(stack[t])]
    BY <1>1, <1>13 DEF ReturnCall
  <2>2. stack' \in [Threads -> Seq(Live)]
    BY <1>1, <2>1, TopCall
  <2>3. Quiet /\ match_so_name' = match_so_name /\ crashed' = crashed /\ writing' = writing
    BY <1>13 DEF ReturnCall, starter, Quiet
  <2>4. QED
    BY <1>1, <1>2, <2>2, <2>3
<1>14. QED
  BY <1>5, <1>6, <1>7, <1>8, <1>9, <1>10, <1>11, <1>12, <1>13 DEF ThreadStep

LEMMA NextSound == IInv /\ [Next]_vars => IInv'
<1> SUFFICES ASSUME IInv, [Next]_vars PROVE IInv'
  OBVIOUS
<1>1. CASE startHookJni \/ OpenFile \/ LookForTracer
  BY <1>1, BetweenTracers
<1>2. CASE StoreSettings \/ EndTracer \/ \E i \in 1..2 : HookNext(i)
  BY <1>2, SettingsStored, TurnEnds, OneMoreHooked
<1>3. CASE \E s \in Filtering : StopClearFilter(s) \/ StopDelete(s) \/ StopSave(s)
  BY <1>3, StopStep
<1>4. CASE \E t \in Threads : \/ \E f \in Funs, so \in AppSos \cup SysSos : AppCall(t, f, so)
                             \/ ThreadStep(t)
  BY <1>4, ThreadStepOK
<1>5. CASE UNCHANGED vars
  BY <1>5, LiveStacks, CallsApart DEF vars, starter, IInv, TypeOK
<1>6. QED
  BY <1>1, <1>2, <1>3, <1>4, <1>5 DEF Next, StartStep

LEMMA Invariance == Spec => []IInv
BY InitOK, NextSound, PTL DEF Spec

------------------------------------------------------------------------------
(* What follows from it.                                                    *)

\* The tracers' settings, streams, labels and calls keep their shape, for any
\* threads, libraries and requests (main.cpp, JnitraceForC.cpp,
\* stringHandler.cpp, invokePrintf.cpp).
THEOREM TypeCorrect == Spec => []TypeOK
<1>1. IInv => TypeOK
  BY DEF IInv
<1>2. QED
  BY <1>1, Invariance, PTL

\* startHookJni (main.cpp) hooks every tracer that is asked for and found,
\* although one before it could not be hooked or was stopped meanwhile.
THEOREM ChosenGetHooked == Spec => []ChosenAreHooked
<1>1. IInv => ChosenAreHooked
  <2> SUFFICES ASSUME IInv, at = "done",
                      NEW tracer \in request.list \cap request.found,
                      tracer \in {"register", "invoke"} => request.pretty
               PROVE  Range(FunsOf(tracer)) \subseteq hooked
    BY DEF ChosenAreHooked
  <2>1. turn = 6
    BY DEF IInv, StartInv, Starting
  <2>2. request \in Request
    BY RequestsAssumption DEF IInv, TypeOK
  <2>3. tracer \in Tracers
    BY <2>2 DEF Request
  <2>4. PICK j \in 1..5 : tracer = Order[j]
    BY <2>3, TracersAre
  <2>5. QED
    BY <2>1, <2>4 DEF IInv, StartInv, Started
<1>2. QED
  BY <1>1, Invariance, PTL

\* Whoever has the stream has got it after the file was opened, lines are
\* written by who has it, and it is deleted by a stop only.
Shared ==
    /\ file = "none" => at \in {"idle", "open", "failed"} /\ \A s \in Sinks : os[s] = "null"
    /\ file = "none" => \A t \in Threads : writing[t] = "no"
    /\ file = "deleted" => \E s \in Filtering : stopping[s] \in {"deleted", "done"}

\* A call that is writing a line has a stream to write it to.
LEMMA BeginsWithStream ==
    ASSUME IInv, NEW t \in Threads, BeginLine(t)
    PROVE  \E s \in Sinks : os[s] = "file"
<1>1. Top(t) \in Live
  BY LiveStacks, TopCall DEF BeginLine, AtStep, IInv
<1>2. Top(t).fun \in hooked \cap Funs /\ SinkOf(Top(t).fun) \in Sinks
  BY <1>1, SinkOfFun DEF Live, CallFrame
<1>3. QED
  BY <1>2 DEF IInv, StartInv, Fed

LEMMA SharedKept == IInv /\ Shared /\ [Next]_vars => Shared'
<1> SUFFICES ASSUME IInv, Shared, [Next]_vars PROVE Shared'
  OBVIOUS
<1>1. CASE startHookJni \/ OpenFile \/ LookForTracer
  BY <1>1 DEF Shared, startHookJni, OpenFile, LookForTracer
<1>2. CASE StoreSettings \/ EndTracer \/ \E i \in 1..2 : HookNext(i)
  BY <1>2 DEF Shared, StoreSettings, EndTracer, HookNext
<1>3. ASSUME NEW s \in Filtering, StopClearFilter(s) \/ StopDelete(s) \/ StopSave(s)
      PROVE  Shared'
  <2>1. /\ UNCHANGED <<at, os, writing>>
        /\ stopping \in [Filtering -> {"no", "begun", "deleted", "done"}]
        /\ \/ file' = file /\ (stopping[s] = "no" \/ stopping'[s] = "done")
           \/ file' = "deleted" /\ stopping'[s] = "deleted"
        /\ \A r \in Filtering \ {s} : stopping'[r] = stopping[r]
    BY <1>3 DEF IInv, TypeOK, StopClearFilter, StopDelete, StopSave
  <2>2. QED
    BY <2>1 DEF Shared
<1>4. ASSUME NEW t \in Threads,
             \/ \E f \in Funs, so \in AppSos \cup SysSos : AppCall(t, f, so)
             \/ ThreadStep(t)
      PROVE  Shared'
  <2>1. UNCHANGED <<file, at, os, stopping>>
    BY <1>4 DEF starter, AppCall, ThreadStep, RunOrig, OrigReturns, OwnCall, TellCallback,
       BeginLine, TouchStream, SkipFile, EndLine, ReturnCall
  <2>2. CASE BeginLine(t)
    BY <2>1, <2>2, BeginsWithStream DEF Shared
  <2>3. CASE ~BeginLine(t)
    <3>1. writing \in [Threads -> {"no", "checked", "stream"}]
      BY DEF IInv, TypeOK
    <3>2. writing' = writing \/ TouchStream(t) \/ EndLine(t)
      BY <1>4, <2>3 DEF AppCall, ThreadStep, RunOrig, OrigReturns, OwnCall, TellCallback,
         SkipFile, ReturnCall
    <3>3. \A u \in Threads : writing[u] = "no" => writing'[u] = "no"
      BY <3>1, <3>2 DEF TouchStream, EndLine
    <3>4. QED
      BY <2>1, <3>3 DEF Shared
  <2>4. QED
    BY <2>2, <2>3
<1>5. CASE UNCHANGED vars
  BY <1>5 DEF Shared, vars, starter
<1>6. QED
  BY <1>1, <1>2, <1>3, <1>4, <1>5 DEF Next, StartStep

LEMMA SharedInvariance == Spec => []Shared
<1>1. Init => Shared
  BY DEF Init, Shared
<1>2. QED
  BY <1>1, SharedKept, Invariance, PTL DEF Spec

\* A line is left out by no tracer but a stopped one.
LEMMA SkipsAreStopped ==
    ASSUME IInv, NEW t \in Threads, SkipFile(t)
    PROVE  SinkOf(Top(t).fun) \in Filtering /\ stopping[SinkOf(Top(t).fun)] = "done"
<1>1. Top(t) \in Live
  BY LiveStacks, TopCall DEF SkipFile, AtStep, IInv
<1>2. Top(t).fun \in hooked \cap Funs /\ SinkOf(Top(t).fun) \in Sinks
  BY <1>1, SinkOfFun DEF Live, CallFrame
<1>3. os[SinkOf(Top(t).fun)] = "file"
  BY <1>2 DEF IInv, StartInv, Fed
<1>4. ~isSave[SinkOf(Top(t).fun)]
  BY <1>3 DEF SkipFile
<1>5. QED
  BY <1>2, <1>3, <1>4 DEF IInv, StartInv, Saving

\* No line is lost in the stream before a stop has deleted it.
LEMMA LossNeedsStop ==
    ASSUME IInv, Shared, Next, NEW t \in Threads, Lost(t)
    PROVE  \E s \in Filtering : stopping'[s] \in {"deleted", "done"}
<1>1. /\ file \in {"none", "open", "deleted"}
      /\ writing \in [Threads -> {"no", "checked", "stream"}]
      /\ stopping \in [Filtering -> {"no", "begun", "deleted", "done"}]
  BY DEF IInv, TypeOK
<1>2. CASE writing[t] = "checked" /\ writing'[t] = "stream" /\ file # "open"
  <2>1. \E u \in Threads : BeginLine(u) \/ TouchStream(u) \/ EndLine(u)
    BY <1>2 DEF Next, startHookJni, StartStep, OpenFile, LookForTracer, StoreSettings, HookNext,
       EndTracer, StopClearFilter, StopDelete, StopSave, AppCall, ThreadStep, RunOrig,
       OrigReturns, OwnCall, TellCallback, SkipFile, ReturnCall
  <2>2. stopping' = stopping
    BY <2>1 DEF BeginLine, TouchStream, EndLine
  <2>3. file = "deleted"
    BY <1>1, <1>2 DEF Shared
  <2>4. QED
    BY <2>2, <2>3 DEF Shared
<1>3. CASE writing[t] = "stream" /\ file = "open" /\ file' # "open"
  <2>1. PICK s \in Filtering : StopDelete(s)
    BY <1>3 DEF Next, startHookJni, StartStep, OpenFile, LookForTracer, StoreSettings, HookNext,
       EndTracer, StopClearFilter, StopSave, AppCall, ThreadStep, RunOrig, OrigReturns, OwnCall,
       TellCallback, BeginLine, TouchStream, SkipFile, EndLine, ReturnCall, starter
  <2>2. stopping'[s] = "deleted"
    BY <1>1, <2>1 DEF StopDelete
  <2>3. QED
    BY <2>2
<1>4. QED
  BY <1>2, <1>3 DEF Lost

\* Until a tracer is stopped no line misses the file: hooked functions find the
\* stream and the flag that StoreSettings left, and the stream open; only a
\* stopped tracer leaves lines out, and only the shared stream that a stop has
\* deleted loses them (write and stopjnitrace, in each of the files).
THEOREM OnlyStopsLose == Spec => LinesAreSaved
<1>1. IInv /\ Shared /\ [Next]_vars =>
        [\A t \in Threads :
          /\ SkipFile(t) => /\ SinkOf(Top(t).fun) \in Filtering
                            /\ stopping[SinkOf(Top(t).fun)] = "done"
          /\ Lost(t) => \E s \in Filtering : stopping'[s] \in {"deleted", "done"}]_vars
  BY SkipsAreStopped, LossNeedsStop
<1>2. QED
  BY <1>1, Invariance, SharedInvariance, PTL DEF Spec, LinesAreSaved

\* stopjnitrace takes the flag away for good: no line begins after it is
\* done (the test of isSave in write).
THEOREM NoLineAfterStop == Spec => StoppedStaysAway
<1>1. IInv /\ [Next]_vars =>
        [\A t \in Threads : writing[t] = "no" /\ writing'[t] # "no"
            /\ SinkOf(Top(t).fun) \in Filtering
               => stopping[SinkOf(Top(t).fun)] # "done"]_vars
  <2> SUFFICES ASSUME IInv, Next, NEW t \in Threads, writing[t] = "no", writing'[t] # "no",
                      SinkOf(Top(t).fun) \in Filtering
               PROVE  stopping[SinkOf(Top(t).fun)] # "done"
    BY DEF vars
  <2>1. \E u \in Threads : BeginLine(u) \/ TouchStream(u) \/ EndLine(u)
    BY DEF Next, startHookJni, StartStep, OpenFile, LookForTracer, StoreSettings, HookNext,
           EndTracer, StopClearFilter, StopDelete, StopSave, AppCall, ThreadStep, RunOrig,
           OrigReturns, OwnCall, TellCallback, SkipFile, ReturnCall
  <2>2. writing \in [Threads -> {"no", "checked", "stream"}]
    BY DEF IInv, TypeOK
  <2>3. BeginLine(t)
    BY <2>1, <2>2 DEF BeginLine, TouchStream, EndLine
  <2>4. QED
    BY <2>3 DEF BeginLine, IInv, StartInv, Stopped
<1>2. QED
  BY <1>1, Invariance, PTL DEF Spec, StoppedStaysAway

------------------------------------------------------------------------------
(* The label.                                                               *)

\* What an untraced call of a tracer with a filter does: only the original.
Plain == {"orig", "back"}

\* Calls that agree with the labels: a traced call of a tracer with a filter set
\* its label, and no other call has set it since; others write no line.
Fit(labels) ==
    {frame \in CallFrame : SinkOf(frame.fun) \in Filtering =>
        /\ frame.traced /\ ~frame.mixed => labels[SinkOf(frame.fun)] = frame.so
        /\ ~frame.traced => frame.todo \in Seq(Plain)}

Labelled == stack \in [Threads -> Seq(Fit(match_so_name))]

LEMMA FitTop ==
    ASSUME Labelled, NEW t \in Threads, stack[t] # <<>>
    PROVE  /\ Top(t) \in Fit(match_so_name)
           /\ Front(stack[t]) \in Seq(Fit(match_so_name))
<1>1. stack[t] \in Seq(Fit(match_so_name)) /\ Len(stack[t]) \in 1..Len(stack[t])
  BY EmptySeq, LenProperties DEF Labelled
<1>2. Top(t) \in Fit(match_so_name)
  BY <1>1 DEF Top, Last
<1>3. Front(stack[t]) \in Seq(Fit(match_so_name))
  BY <1>1, SubSeqProperties DEF Front
<1>4. QED
  BY <1>2, <1>3

\* The innermost call with other steps to come, none of them a line if it is
\* not traced.
LEMMA FitSteps ==
    ASSUME Labelled, NEW t \in Threads, stack[t] # <<>>, NEW todo \in Seq(Steps),
           SinkOf(Top(t).fun) \in Filtering /\ ~Top(t).traced => todo \in Seq(Plain)
    PROVE  WithTop(t, [Top(t) EXCEPT !.todo = todo]) \in Seq(Fit(match_so_name))
<1>1. [Top(t) EXCEPT !.todo = todo] \in Fit(match_so_name)
  BY FitTop DEF Fit, CallFrame
<1>2. QED
  BY <1>1, FitTop, AppendProperties DEF WithTop

\* A call that sets a label marks the ones that set it before.
LEMMA FitMixed ==
    ASSUME NEW labels \in [Filtering -> Sos \cup {NoSo}], NEW s \in Filtering, NEW so,
           NEW stacks \in [Threads -> Seq(Fit(labels))]
    PROVE  Mix(stacks, s) \in [Threads -> Seq(Fit([labels EXCEPT ![s] = so]))]
<1> DEFINE after == [labels EXCEPT ![s] = so]
           mixed(frame) == [frame EXCEPT !.mixed = @ \/ SinkOf(frame.fun) = s]
           row(u) == [i \in DOMAIN stacks[u] |-> mixed(stacks[u][i])]
<1>1. ASSUME NEW frame \in Fit(labels) PROVE mixed(frame) \in Fit(after)
  <2> DEFINE flag == frame.mixed \/ SinkOf(frame.fun) = s
  <2>1. frame.mixed \in BOOLEAN /\ frame \in CallFrame
    BY DEF Fit, CallFrame
  <2>2. flag \in BOOLEAN /\ (~flag => ~frame.mixed /\ SinkOf(frame.fun) # s)
    BY <2>1
  <2>3. mixed(frame) = [frame EXCEPT !.mixed = flag]
    BY <2>1 DEF CallFrame
  <2> HIDE DEF flag, mixed
  <2>4. SinkOf(frame.fun) # s /\ SinkOf(frame.fun) \in Filtering
           => after[SinkOf(frame.fun)] = labels[SinkOf(frame.fun)]
    OBVIOUS
  <2> HIDE DEF after
  <2>5. QED
    BY <2>1, <2>2, <2>3, <2>4 DEF Fit, CallFrame
<1> HIDE DEF mixed, after
<1>2. ASSUME NEW u \in Threads PROVE row(u) \in Seq(Fit(after))
  <2>1. /\ stacks[u] \in Seq(Fit(labels)) /\ DOMAIN stacks[u] = 1..Len(stacks[u])
        /\ Len(stacks[u]) \in Nat
    OBVIOUS
  <2>2. row(u) \in [1..Len(stacks[u]) -> Fit(after)]
    BY <1>1, <2>1
  <2>3. QED
    BY <2>1, <2>2, SeqDef
<1>3. Mix(stacks, s) = [u \in Threads |-> row(u)]
  BY DEF Mix, mixed
<1>4. QED
  BY <1>2, <1>3 DEF after

LEMMA FitEntered ==
    ASSUME TypeOK, Labelled, NEW t \in Threads, NEW below \in Seq(Fit(match_so_name)),
           NEW f \in Funs, NEW so \in Sos, EnterOn(t, below, f, so)
    PROVE  Labelled'
<1>1. PICK named \in BOOLEAN :
          LET traced == Traced(f, so, named)
              frame == [fun |-> f, so |-> so, traced |-> traced,
                        todo |-> StepsOf(f, traced), mixed |-> FALSE]
              others == [stack EXCEPT ![t] = below]
              mixed == IF traced /\ SinkOf(f) \in Filtering
                       THEN Mix(others, SinkOf(f)) ELSE others
          IN  /\ stack' = [mixed EXCEPT ![t] = Append(@, frame)]
              /\ match_so_name' = Label(f, so, traced)
  BY DEF EnterOn
<1> DEFINE traced == Traced(f, so, named)
           frame == [fun |-> f, so |-> so, traced |-> traced,
                     todo |-> StepsOf(f, traced), mixed |-> FALSE]
           others == [stack EXCEPT ![t] = below]
           mixed == IF traced /\ SinkOf(f) \in Filtering
                    THEN Mix(others, SinkOf(f)) ELSE others
<1>2. traced \in BOOLEAN
  BY TracedIsBoolean
<1>3. others \in [Threads -> Seq(Fit(match_so_name))]
  BY DEF Labelled
<1>4. match_so_name \in [Filtering -> Sos \cup {NoSo}]
  BY DEF TypeOK
<1>5. stack' = [mixed EXCEPT ![t] = Append(mixed[t], frame)] /\ match_so_name' = Label(f, so, traced)
  BY <1>1
<1>6. frame \in CallFrame /\ frame.fun = f /\ frame.so = so /\ frame.traced = traced
      /\ frame.todo = StepsOf(f, traced)
  BY <1>2, StepsAreSteps DEF CallFrame
<1>7. mixed \in [Threads -> Seq(Fit(match_so_name'))] /\ frame \in Fit(match_so_name')
  <2>1. CASE traced /\ SinkOf(f) \in Filtering
    <3>1. match_so_name' = [match_so_name EXCEPT ![SinkOf(f)] = so]
      BY <1>5, <2>1 DEF Label
    <3>2. mixed = Mix(others, SinkOf(f))
      BY <2>1
    <3> HIDE DEF mixed, others, frame, traced
    <3>3. mixed \in [Threads -> Seq(Fit(match_so_name'))]
      BY <1>3, <1>4, <2>1, <3>1, <3>2, FitMixed
    <3>4. match_so_name'[SinkOf(f)] = so
      BY <1>4, <2>1, <3>1
    <3>5. QED
      BY <1>6, <2>1, <3>3, <3>4 DEF Fit
  <2>2. CASE ~(traced /\ SinkOf(f) \in Filtering)
    <3>1. match_so_name' = match_so_name
      BY <1>5, <2>2 DEF Label
    <3>2. mixed = others
      BY <2>2
    <3> HIDE DEF mixed, others, frame, traced
    <3>3. ~traced => frame.todo \in Seq(Plain)
      <4>1. <<"orig">> \in Seq(Plain)
        BY DEF Plain
      <4>2. ~traced => StepsOf(f, traced) = <<"orig">>
        BY <1>2 DEF StepsOf
      <4>3. QED
        BY <1>6, <4>1, <4>2
    <3>4. QED
      BY <1>3, <1>6, <2>2, <3>1, <3>2, <3>3 DEF Fit
  <2>3. QED
    BY <2>1, <2>2
<1> HIDE DEF traced, frame, others, mixed
<1>8. Append(mixed[t], frame) \in Seq(Fit(match_so_name'))
  BY <1>7, AppendProperties
<1>9. QED
  BY <1>5, <1>7, <1>8 DEF Labelled

LEMMA ThreadStepFits ==
    ASSUME IInv, Labelled, NEW t \in Threads,
           \/ \E f \in Funs, so \in AppSos \cup SysSos : AppCall(t, f, so)
           \/ ThreadStep(t)
    PROVE  Labelled'
<1>1. TypeOK /\ stack \in [Threads -> Seq(Live)]
  BY LiveStacks DEF IInv
<1>2. stack[t] # <<>> => Top(t) \in Fit(match_so_name)
  BY FitTop
\* A call of a library, on top of what is there.
<1>3. ASSUME NEW below \in Seq(Fit(match_so_name)), NEW f \in Funs, NEW so \in Sos,
             EnterOn(t, below, f, so)
      PROVE  Labelled'
  BY <1>1, <1>3, FitEntered
\* Other steps for the innermost call.
<1>4. ASSUME NEW todo, stack' = Todo(t, todo), match_so_name' = match_so_name,
             WithTop(t, [Top(t) EXCEPT !.todo = todo]) \in Seq(Fit(match_so_name))
      PROVE  Labelled'
  BY <1>4 DEF Labelled, Todo
\* What is left of a call fits.
<1>5. ASSUME stack[t] # <<>>, Top(t).todo # <<>>
      PROVE  /\ Rest(t) \in Seq(Steps)
             /\ SinkOf(Top(t).fun) \in Filtering /\ ~Top(t).traced =>
                   Head(Top(t).todo) \in Plain /\ Rest(t) \in Seq(Plain)
  <2>1. Rest(t) \in Seq(Steps)
    BY <1>1, <1>5, TopCall
  <2>2. ASSUME SinkOf(Top(t).fun) \in Filtering, ~Top(t).traced
        PROVE  Head(Top(t).todo) \in Plain /\ Rest(t) \in Seq(Plain)
    <3>1. Top(t).todo \in Seq(Plain)
      BY <1>2, <1>5, <2>2 DEF Fit
    <3>2. QED
      BY <1>5, <3>1, HeadTailProperties DEF Rest
  <2>3. QED
    BY <2>1, <2>2
<1>6. CASE \E f \in Funs, so \in AppSos \cup SysSos : AppCall(t, f, so)
  <2>1. <<>> \in Seq(Fit(match_so_name)) /\ AppSos \cup SysSos \subseteq Sos
    BY DEF Sos
  <2>2. QED
    BY <1>3, <1>6, <2>1 DEF AppCall
<1>7. CASE RunOrig(t)
  <2> DEFINE todo == <<"back">> \o Rest(t)
  <2>1. stack[t] # <<>> /\ Top(t).todo # <<>>
    BY <1>7 DEF RunOrig, AtStep
  <2>2. /\ todo \in Seq(Steps)
        /\ SinkOf(Top(t).fun) \in Filtering /\ ~Top(t).traced => todo \in Seq(Plain)
    <3>1. <<"back">> \in Seq(Steps) /\ <<"back">> \in Seq(Plain)
      BY DEF Steps, Plain
    <3>2. QED
      BY <1>5, <2>1, <3>1, ConcatProperties
  <2> DEFINE running == WithTop(t, [Top(t) EXCEPT !.todo = todo])
  <2>3. running \in Seq(Fit(match_so_name))
    BY <2>1, <2>2, FitSteps
  <2>4. \/ stack' = Todo(t, todo) /\ match_so_name' = match_so_name
        \/ \E f \in Funs, so \in AppSos \cup SysSos : EnterOn(t, running, f, so)
    BY <1>7 DEF RunOrig, Todo
  <2>5. AppSos \cup SysSos \subseteq Sos
    BY DEF Sos
  <2> HIDE DEF todo
  <2>6. CASE stack' = Todo(t, todo) /\ match_so_name' = match_so_name
    BY <1>4, <2>3, <2>6
  <2> HIDE DEF running
  <2>7. CASE \E f \in Funs, so \in AppSos \cup SysSos : EnterOn(t, running, f, so)
    BY <1>3, <2>3, <2>5, <2>7
  <2>8. QED
    BY <2>4, <2>6, <2>7
<1>8. CASE OwnCall(t)
  <2> DEFINE described == WithTop(t, [Top(t) EXCEPT !.todo = Rest(t)])
  <2>1. stack[t] # <<>> /\ Top(t).todo # <<>>
    BY <1>8 DEF OwnCall, AtStep
  <2>2. described \in Seq(Fit(match_so_name))
    BY <1>5, <2>1, FitSteps
  <2>3. \/ stack' = Todo(t, Rest(t)) /\ match_so_name' = match_so_name
        \/ EnterOn(t, described, "CallObjectMethodV", OwnSo)
    BY <1>8 DEF OwnCall
  <2>4. "CallObjectMethodV" \in Funs /\ OwnSo \in Sos
    BY DEF Funs, Sos
  <2>5. CASE stack' = Todo(t, Rest(t)) /\ match_so_name' = match_so_name
    BY <1>4, <2>2, <2>5
  <2> HIDE DEF described
  <2>6. CASE EnterOn(t, described, "CallObjectMethodV", OwnSo)
    BY <1>3, <2>2, <2>4, <2>6
  <2>7. QED
    BY <2>3, <2>5, <2>6
<1>9. CASE OrigReturns(t) \/ SkipFile(t) \/ EndLine(t)
  <2>1. /\ stack[t] # <<>> /\ Top(t).todo # <<>> /\ stack' = Todo(t, Rest(t))
        /\ match_so_name' = match_so_name
    BY <1>9 DEF OrigReturns, SkipFile, EndLine, AtStep
  <2>2. QED
    BY <1>4, <1>5, <2>1, FitSteps
<1>10. CASE TellCallback(t)
  <2>1. PICK todo \in Seq(Steps) : stack' = Todo(t, todo)
    <3>1. <<"line">> \in Seq(Steps) /\ <<>> \in Seq(Steps)
      BY DEF Steps
    <3>2. QED
      BY <1>10, <3>1 DEF TellCallback
  <2>2. /\ stack[t] # <<>> /\ Top(t).todo # <<>> /\ Head(Top(t).todo) = "tell"
        /\ match_so_name' = match_so_name
    BY <1>10 DEF TellCallback, AtStep
  <2>3. ~(SinkOf(Top(t).fun) \in Filtering /\ ~Top(t).traced)
    BY <1>5, <2>2 DEF Plain
  <2>4. QED
    BY <1>4, <2>1, <2>2, <2>3, FitSteps
<1>11. CASE BeginLine(t) \/ TouchStream(t)
  BY <1>11 DEF BeginLine, TouchStream, Labelled
<1>12. CASE ReturnCall(t)
  <2>1. /\ stack[t] # <<>> /\ stack' = [stack EXCEPT ![t] = Front(stack[t])]
        /\ match_so_name' = match_so_name
    BY <1>1, <1>12 DEF ReturnCall
  <2>2. QED
    BY <2>1, FitTop DEF Labelled
<1>13. QED
  BY <1>6, <1>7, <1>8, <1>9, <1>10, <1>11, <1>12 DEF ThreadStep

\* A line is labelled with the library that made the call unless a traced call
\* of the same tracer came in between, although match_so_name is one string
\* for all threads (JnitraceForC.cpp:100, stringHandler.cpp).
THEOREM LabelsAreTrue == Spec => LabelsAreRight
<1>1. Init => Labelled
  <2>1. <<>> \in Seq(Fit([s \in Filtering |-> NoSo]))
    OBVIOUS
  <2>2. QED
    BY <2>1 DEF Init, Labelled
<1>2. IInv /\ Labelled /\ [Next]_vars => Labelled'
  <2> SUFFICES ASSUME IInv, Labelled, [Next]_vars PROVE Labelled'
    OBVIOUS
  <2>1. CASE \E t \in Threads : \/ \E f \in Funs, so \in AppSos \cup SysSos : AppCall(t, f, so)
                               \/ ThreadStep(t)
    BY <2>1, ThreadStepFits
  <2>2. CASE stack' = stack /\ match_so_name' = match_so_name
    BY <2>2 DEF Labelled
  <2>3. QED
    BY <2>1, <2>2 DEF Next, vars, startHookJni, StartStep, OpenFile, LookForTracer,
       StoreSettings, HookNext, EndTracer, StopClearFilter, StopDelete, StopSave
<1>3. IInv /\ Labelled /\ [Next]_vars =>
        [\A t \in Threads :
          LET reads == \/ writing[t] = "no" /\ writing'[t] = "checked"
                          /\ SinkOf(Top(t).fun) = "string"
                       \/ writing[t] = "checked" /\ writing'[t] = "stream"
                          /\ SinkOf(Top(t).fun) = "jni"
          IN  reads => Top(t).mixed \/ match_so_name[SinkOf(Top(t).fun)] = Top(t).so]_vars
  <2> SUFFICES ASSUME IInv, Labelled, Next, NEW t \in Threads,
                      \/ writing[t] = "no" /\ writing'[t] = "checked"
                      \/ writing[t] = "checked" /\ writing'[t] = "stream",
                      SinkOf(Top(t).fun) \in Filtering, ~Top(t).mixed
               PROVE  match_so_name[SinkOf(Top(t).fun)] = Top(t).so
    BY DEF vars, Filtering
  <2>1. \E u \in Threads : BeginLine(u) \/ TouchStream(u) \/ EndLine(u)
    BY DEF Next, startHookJni, StartStep, OpenFile, LookForTracer, StoreSettings, HookNext,
           EndTracer, StopClearFilter, StopDelete, StopSave, AppCall, ThreadStep, RunOrig,
           OrigReturns, OwnCall, TellCallback, SkipFile, ReturnCall
  <2>2. writing \in [Threads -> {"no", "checked", "stream"}]
    BY DEF IInv, TypeOK
  <2>3. BeginLine(t) \/ TouchStream(t)
    BY <2>1, <2>2 DEF BeginLine, TouchStream, EndLine
  <2>4. stack[t] # <<>> /\ Top(t).todo # <<>> /\ Head(Top(t).todo) = "line"
    BY <2>3 DEF BeginLine, TouchStream, AtStep
  <2>5. Top(t) \in Fit(match_so_name)
    BY <2>4, FitTop
  <2>6. Top(t).traced
    <3> SUFFICES ASSUME ~Top(t).traced PROVE FALSE
      OBVIOUS
    <3>1. Top(t).todo \in Seq(Plain)
      BY <2>5 DEF Fit
    <3>2. Head(Top(t).todo) \in Plain
      BY <2>4, <3>1, HeadTailProperties
    <3>3. QED
      BY <2>4, <3>2 DEF Plain
  <2>7. QED
    BY <2>5, <2>6 DEF Fit
<1>4. QED
  BY <1>1, <1>2, <1>3, Invariance, PTL DEF Spec, LabelsAreRight
=============================================================================
