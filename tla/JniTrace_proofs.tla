--------------------------- MODULE JniTrace_proofs ---------------------------
(***************************************************************************)
(* Tracing is transparent: originals run once and exceptions survive, for  *)
(* any threads, libraries and settings, however deep calls nest; the       *)
(* tracer's own calls are spared if no filter names its library; and the   *)
(* tracer implements calls that nobody traces.                             *)
(***************************************************************************)
EXTENDS JniTrace, SequenceTheorems, TLAPS

\* No step of the list calls the original.
NoOrig(todo) == \A i \in DOMAIN todo : todo[i] # "orig"

\* One step does.
OneOrig(todo) ==
    \E i \in DOMAIN todo : /\ todo[i] = "orig"
                           /\ \A j \in DOMAIN todo : todo[j] = "orig" => j = i

\* The original is still to come, or has been called; or the call is one that is
\* answered without it.
Balanced(frame) ==
    \/ frame.origs = 0 /\ OneOrig(frame.todo)
    \/ frame.origs = 1 /\ NoOrig(frame.todo)
    \/ /\ frame.origs = 0 /\ frame.todo = <<>>
       /\ frame.matched /\ frame.fun = "GetStringUTFChars"

\* The original only runs as the first of the steps left, and was counted.
Running(frame) ==
    \A i \in DOMAIN frame.todo :
        frame.todo[i] = "java" => i = 1 /\ frame.origs = 1

\* A call whose original threw has nothing left to do but write lines.
Spent(frame) ==
    frame.threw => \A i \in DOMAIN frame.todo : frame.todo[i] = "line"

Sound(frame) == Balanced(frame) /\ Running(frame) /\ Spent(frame)

\* It is the innermost call of its thread, and its exception is pending.
Pending ==
    \A t \in Threads : \A k \in DOMAIN stack[t] :
        stack[t][k].threw => k = Len(stack[t]) /\ exc[t]

AllSound == \A t \in Threads : \A k \in DOMAIN stack[t] : Sound(stack[t][k])

IInv == TypeOK /\ AllSound /\ Pending

------------------------------------------------------------------------------
(* Stacks of calls.                                                         *)

LEMMA TopCall ==
    ASSUME TypeOK, NEW t \in Threads, stack[t] # <<>>
    PROVE  /\ Top(t) \in CallFrame /\ Len(stack[t]) \in DOMAIN stack[t]
           /\ Below(t) \in Seq(CallFrame)
           /\ Len(Below(t)) = Len(stack[t]) - 1
           /\ \A k \in DOMAIN Below(t) : k \in DOMAIN stack[t] /\ k < Len(stack[t])
                                         /\ Below(t)[k] = stack[t][k]
<1>1. stack[t] \in Seq(CallFrame) /\ Len(stack[t]) \in Nat /\ Len(stack[t]) >= 1
      /\ DOMAIN stack[t] = 1..Len(stack[t])
  BY DEF TypeOK
<1>2. \A i \in 1..(Len(stack[t]) - 1) : stack[t][i] \in CallFrame
  BY <1>1
<1>3. /\ Below(t) \in Seq(CallFrame)
      /\ Len(Below(t)) = Len(stack[t]) - 1
      /\ \A i \in 1..(Len(stack[t]) - 1) : Below(t)[i] = stack[t][i]
  BY <1>1, <1>2, SubSeqProperties DEF Below
<1>4. QED
  BY <1>1, <1>3 DEF Top

\* The rest of a list of steps.
LEMMA RestOfSteps ==
    ASSUME NEW todo \in Seq(Steps), todo # <<>>
    PROVE  /\ Tail(todo) \in Seq(Steps) /\ Len(Tail(todo)) = Len(todo) - 1
           /\ Head(todo) = todo[1] /\ todo[1] \in Steps
           /\ \A i \in DOMAIN Tail(todo) : i + 1 \in DOMAIN todo /\ Tail(todo)[i] = todo[i + 1]
BY HeadTailProperties

\* A step is put before it.
LEMMA StepBefore ==
    ASSUME NEW todo \in Seq(Steps), NEW step \in Steps
    PROVE  /\ <<step>> \o todo \in Seq(Steps)
           /\ Len(<<step>> \o todo) = Len(todo) + 1
           /\ (<<step>> \o todo)[1] = step
           /\ \A i \in DOMAIN (<<step>> \o todo) :
                 i = 1 \/ (i - 1 \in DOMAIN todo /\ (<<step>> \o todo)[i] = todo[i - 1])
<1>1. <<step>> \in Seq(Steps) /\ Len(<<step>>) = 1 /\ <<step>>[1] = step
  OBVIOUS
<1>2. QED
  BY <1>1, ConcatProperties

------------------------------------------------------------------------------
(* What a step does to the calls of one thread.                             *)

\* The thread's stack becomes s, and the threads beside it keep theirs.
LEMMA NewStack ==
    ASSUME IInv, NEW t \in Threads, NEW s \in Seq(CallFrame),
           \A k \in DOMAIN s : /\ Sound(s[k])
                               /\ s[k].threw => k = Len(s) /\ exc'[t],
           stack' = [stack EXCEPT ![t] = s],
           \A u \in Threads \ {t} : exc'[u] = exc[u]
    PROVE  stack' \in [Threads -> Seq(CallFrame)] /\ AllSound' /\ Pending'
<1>1. stack \in [Threads -> Seq(CallFrame)]
  BY DEF IInv, TypeOK
<1>2. \A u \in Threads : stack'[u] = IF u = t THEN s ELSE stack[u]
  BY <1>1
<1>3. stack' \in [Threads -> Seq(CallFrame)]
  BY <1>1
<1>4. AllSound'
  <2> SUFFICES ASSUME NEW u \in Threads, NEW k \in DOMAIN stack'[u]
               PROVE  Sound(stack'[u][k])
    BY DEF AllSound, Sound, Balanced, Running, Spent, NoOrig, OneOrig
  <2>1. CASE u = t
    BY <2>1, <1>2
  <2>2. CASE u # t
    BY <2>2, <1>2 DEF IInv, AllSound
  <2>3. QED
    BY <2>1, <2>2
<1>5. Pending'
  <2> SUFFICES ASSUME NEW u \in Threads, NEW k \in DOMAIN stack'[u], stack'[u][k].threw
               PROVE  k = Len(stack'[u]) /\ exc'[u]
    BY DEF Pending
  <2>1. CASE u = t
    BY <2>1, <1>2
  <2>2. CASE u # t
    BY <2>2, <1>2 DEF IInv, Pending
  <2>3. QED
    BY <2>1, <2>2
<1>6. QED
  BY <1>3, <1>4, <1>5

\* The innermost call becomes another one.
LEMMA TopChanges ==
    ASSUME IInv, NEW t \in Threads, stack[t] # <<>>,
           NEW frame \in CallFrame, Sound(frame), frame.threw => exc'[t],
           stack' = [stack EXCEPT ![t] = WithTop(t, frame)],
           \A u \in Threads \ {t} : exc'[u] = exc[u]
    PROVE  stack' \in [Threads -> Seq(CallFrame)] /\ AllSound' /\ Pending'
<1> DEFINE s == WithTop(t, frame)
<1>1. /\ Below(t) \in Seq(CallFrame) /\ Len(Below(t)) = Len(stack[t]) - 1
      /\ \A k \in DOMAIN Below(t) : k \in DOMAIN stack[t] /\ k < Len(stack[t])
                                    /\ Below(t)[k] = stack[t][k]
  BY TopCall DEF IInv
<1>2. /\ s \in Seq(CallFrame) /\ Len(s) = Len(Below(t)) + 1 /\ s[Len(s)] = frame
      /\ \A k \in DOMAIN s : k = Len(s) \/ (k \in DOMAIN Below(t) /\ s[k] = Below(t)[k])
  BY <1>1, AppendProperties DEF WithTop
<1>3. \A k \in DOMAIN Below(t) : Sound(Below(t)[k]) /\ ~Below(t)[k].threw
  BY <1>1 DEF IInv, AllSound, Pending
<1>4. \A k \in DOMAIN s : Sound(s[k]) /\ (s[k].threw => k = Len(s) /\ exc'[t])
  BY <1>2, <1>3
<1> HIDE DEF s
<1>5. stack' = [stack EXCEPT ![t] = s]
  BY DEF s
<1>6. QED
  BY <1>2, <1>4, <1>5, NewStack

LEMMA OrigAtTheEnd ==
    <<"line", "own", "line", "orig">> = Append(<<"line", "own", "line">>, "orig")
OBVIOUS

\* A new call is sound, whatever its function and its library.
LEMMA NewCall ==
    ASSUME NEW f \in Funs, NEW so \in Sos, NEW steps,
           \/ steps = StepsOf(f, isLister(so))
           \/ steps = <<>> /\ f = "GetStringUTFChars" /\ isLister(so)
    PROVE  /\ Frame(f, so, steps) \in CallFrame /\ Sound(Frame(f, so, steps))
           /\ ~Frame(f, so, steps).threw
<1> DEFINE frame == Frame(f, so, steps)
<1>1. isLister(so) \in BOOLEAN
  <2>1. (so \notin SysSos /\ so \notin forbidSoList) \in BOOLEAN
    BY Zenon
  <2>2. (so \in filterSoList) \in BOOLEAN
    BY SMT
  <2>3. QED
    BY <2>1, <2>2, Zenon DEF isLister
<1>2. /\ frame.fun = f /\ frame.matched = isLister(so) /\ frame.todo = steps
      /\ frame.origs = 0 /\ frame.threw = FALSE
  BY DEF Frame
<1>3. CASE steps = <<>> /\ f = "GetStringUTFChars" /\ isLister(so)
  BY <1>1, <1>2, <1>3 DEF Frame, CallFrame, Sound, Balanced, Running, Spent
<1>4. CASE steps = StepsOf(f, isLister(so))
  <2>1. steps \in Seq(Steps) /\ OneOrig(steps) /\ \A i \in DOMAIN steps : steps[i] # "java"
    <3>1. CASE steps = <<"orig">>
      BY <3>1 DEF Steps, OneOrig
    <3>2. CASE steps = <<"line", "own", "line", "orig", "own", "line">>
      BY <3>2 DEF Steps, OneOrig
    <3>3. CASE steps = <<"line", "own", "line", "orig">>
      BY <3>3 DEF Steps, OneOrig
    <3>4. CASE steps = <<"orig", "line", "own", "line">>
      BY <3>4 DEF Steps, OneOrig
    <3>5. CASE steps = <<"line", "orig">>
      BY <3>5 DEF Steps, OneOrig
    <3>6. CASE steps = <<"orig", "line">>
      BY <3>6 DEF Steps, OneOrig
    <3>7. CASE ~isLister(so)
      BY <1>4, <3>1, <3>7 DEF StepsOf
    <3>8. CASE isLister(so)
      <4>1. CASE f = "CallObjectMethodV"
        BY <1>4, <3>2, <3>8, <4>1 DEF StepsOf, Block, BlockReturns
      <4>2. CASE f = "CallVoidMethodV"
        <5>1. steps = Append(<<"line", "own", "line">>, "orig")
          BY <1>4, <3>8, <4>2 DEF StepsOf, Block, BlockReturns
        <5>2. QED
          BY <3>3, <5>1, OrigAtTheEnd, Zenon
      <4>3. CASE f = "NewObjectV"
        BY <1>4, <3>4, <3>8, <4>3 DEF StepsOf, Block, BlockReturns
      <4>4. CASE f = "FindClass"
        BY <1>4, <3>5, <3>8, <4>4 DEF StepsOf, Block, BlockReturns
      <4>5. CASE f = "GetStringUTFChars"
        BY <1>4, <3>6, <3>8, <4>5 DEF StepsOf, Block, BlockReturns
      <4>6. QED
        BY <4>1, <4>2, <4>3, <4>4, <4>5 DEF Funs, InvokeFuns
    <3>9. QED
      BY <3>7, <3>8
  <2>2. frame \in CallFrame
    BY <1>1, <2>1 DEF Frame, CallFrame
  <2>3. Sound(frame)
    BY <1>2, <2>1 DEF Sound, Balanced, Running, Spent
  <2>4. QED
    BY <1>2, <2>2, <2>3
<1>5. QED
  BY <1>3, <1>4

\* A call on top of sound ones that have not thrown.
LEMMA Entered ==
    ASSUME IInv, NEW t \in Threads, NEW f \in Funs, NEW so \in Sos,
           NEW below \in Seq(CallFrame),
           \A k \in DOMAIN below : Sound(below[k]) /\ ~below[k].threw,
           EnterOn(t, below, f, so), exc' = exc
    PROVE  /\ stack' \in [Threads -> Seq(CallFrame)] /\ AllSound' /\ Pending'
           /\ match_so_name' \in Sos \cup {NoSo}
<1>1. PICK steps : /\ \/ steps = StepsOf(f, isLister(so))
                      \/ steps = <<>> /\ f = "GetStringUTFChars" /\ isLister(so)
                   /\ stack' = [stack EXCEPT ![t] = Append(below, Frame(f, so, steps))]
  BY DEF EnterOn
<1> DEFINE frame == Frame(f, so, steps)
           s == Append(below, frame)
<1>2. frame \in CallFrame /\ Sound(frame) /\ ~frame.threw
  BY <1>1, NewCall
<1> HIDE DEF frame
<1>3. /\ s \in Seq(CallFrame)
      /\ \A k \in DOMAIN s : s[k] = frame \/ (k \in DOMAIN below /\ s[k] = below[k])
  BY <1>2, AppendProperties
<1>4. \A k \in DOMAIN s : Sound(s[k]) /\ (s[k].threw => k = Len(s) /\ exc'[t])
  BY <1>2, <1>3
<1>5. stack' = [stack EXCEPT ![t] = s]
  BY <1>1 DEF frame
<1> HIDE DEF s
<1>6. stack' \in [Threads -> Seq(CallFrame)] /\ AllSound' /\ Pending'
  BY <1>3, <1>4, <1>5, NewStack
<1>7. match_so_name' \in Sos \cup {NoSo}
  BY DEF EnterOn, IInv, TypeOK
<1>8. QED
  BY <1>6, <1>7

------------------------------------------------------------------------------
(* What a step does to one call.                                            *)

\* A step that is not the original is done.
LEMMA StepDone ==
    ASSUME NEW frame \in CallFrame, Sound(frame), frame.todo # <<>>,
           Head(frame.todo) # "orig"
    PROVE  LET next == [frame EXCEPT !.todo = Tail(frame.todo)]
           IN  next \in CallFrame /\ Sound(next) /\ next.threw = frame.threw
<1> DEFINE todo == frame.todo
           rest == Tail(todo)
           next == [frame EXCEPT !.todo = rest]
<1>1. todo \in Seq(Steps)
  BY DEF CallFrame
<1>2. /\ rest \in Seq(Steps) /\ Len(rest) = Len(todo) - 1
      /\ todo[1] # "orig" /\ 1 \in DOMAIN todo
      /\ \A i \in DOMAIN rest : i + 1 \in DOMAIN todo /\ rest[i] = todo[i + 1]
      /\ \A i \in DOMAIN todo : i # 1 => i - 1 \in DOMAIN rest
  BY <1>1, RestOfSteps
<1> HIDE DEF rest
<1>3. next \in CallFrame
  BY <1>2 DEF CallFrame
<1>4. /\ next.todo = rest /\ next.origs = frame.origs /\ next.threw = frame.threw
      /\ next.matched = frame.matched /\ next.fun = frame.fun
  BY DEF CallFrame
<1>5. DOMAIN todo \subseteq Nat /\ DOMAIN rest \subseteq Nat /\ \A i \in DOMAIN rest : i >= 1
  BY <1>1, <1>2
<1> HIDE DEF next
<1>6. Balanced(next)
  <2>1. CASE frame.origs = 0 /\ OneOrig(todo)
    <3>1. PICK i \in DOMAIN todo : /\ todo[i] = "orig"
                                   /\ \A j \in DOMAIN todo : todo[j] = "orig" => j = i
      BY <2>1 DEF OneOrig
    <3>2. i - 1 \in DOMAIN rest /\ rest[i - 1] = "orig"
      BY <1>2, <1>5, <3>1
    <3>3. \A j \in DOMAIN rest : rest[j] = "orig" => j = i - 1
      BY <1>2, <1>5, <3>1
    <3>4. QED
      BY <1>4, <2>1, <3>2, <3>3 DEF Balanced, OneOrig
  <2>2. CASE frame.origs = 1 /\ NoOrig(todo)
    BY <1>2, <1>4, <2>2 DEF Balanced, NoOrig
  <2>3. QED
    BY <2>1, <2>2 DEF Sound, Balanced
<1>7. Running(next)
  BY <1>2, <1>4, <1>5 DEF Sound, Running
<1>8. Spent(next)
  BY <1>2, <1>4 DEF Sound, Spent
<1>9. QED
  BY <1>3, <1>4, <1>6, <1>7, <1>8 DEF Sound, next, rest

\* The original is called.
LEMMA OrigCalled ==
    ASSUME NEW frame \in CallFrame, Sound(frame), frame.todo # <<>>,
           Head(frame.todo) = "orig"
    PROVE  LET next == [frame EXCEPT !.todo = <<"java">> \o Tail(frame.todo),
                                     !.origs = frame.origs + 1]
           IN  next \in CallFrame /\ Sound(next) /\ ~next.threw
<1> DEFINE todo == frame.todo
           rest == Tail(todo)
           run == <<"java">> \o rest
           count == frame.origs + 1
           next == [frame EXCEPT !.todo = run, !.origs = count]
<1>1. todo \in Seq(Steps) /\ frame.origs \in Nat /\ frame.threw \in BOOLEAN
  BY DEF CallFrame
<1>2. /\ rest \in Seq(Steps)
      /\ todo[1] = "orig" /\ 1 \in DOMAIN todo
      /\ \A i \in DOMAIN rest : i + 1 \in DOMAIN todo /\ rest[i] = todo[i + 1] /\ i >= 1
  BY <1>1, RestOfSteps
<1>3. "java" \in Steps
  BY DEF Steps
<1> HIDE DEF rest
<1>4. /\ run \in Seq(Steps)
      /\ \A i \in DOMAIN run : i \in Nat
      /\ run[1] = "java"
      /\ \A i \in DOMAIN run : i = 1 \/ (i - 1 \in DOMAIN rest /\ run[i] = rest[i - 1])
  BY <1>2, <1>3, StepBefore
<1> HIDE DEF run
<1>5. frame.origs = 0 /\ \A j \in DOMAIN todo : todo[j] = "orig" => j = 1
  BY <1>1, <1>2 DEF Sound, Balanced, OneOrig, NoOrig
<1>6. ~frame.threw
  BY <1>2 DEF Sound, Spent
<1>7. count = 1 /\ count \in Nat
  BY <1>5
<1> HIDE DEF count
<1>8. next \in CallFrame
  BY <1>4, <1>7 DEF CallFrame
<1>9. next.todo = run /\ next.origs = 1 /\ next.threw = frame.threw
  BY <1>7 DEF CallFrame
<1> HIDE DEF next
<1>10. \A i \in DOMAIN rest : rest[i] # "orig" /\ rest[i] # "java"
  BY <1>2, <1>5 DEF Sound, Running
<1>11. \A i \in DOMAIN run : run[i] # "orig" /\ (run[i] = "java" => i = 1)
  BY <1>4, <1>10
<1>12. Sound(next)
  BY <1>6, <1>9, <1>11 DEF Sound, Balanced, NoOrig, Running, Spent
<1>13. QED
  BY <1>6, <1>9, <1>12, <1>8 DEF next, count, run, rest

\* An object is described; the clearing of exceptions remains.
LEMMA Described ==
    ASSUME NEW frame \in CallFrame, Sound(frame), frame.todo # <<>>,
           Head(frame.todo) = "own"
    PROVE  LET next == [frame EXCEPT !.todo = <<"clear">> \o Tail(frame.todo)]
           IN  next \in CallFrame /\ Sound(next) /\ ~next.threw
<1> DEFINE todo == frame.todo
           rest == Tail(todo)
           run == <<"clear">> \o rest
           next == [frame EXCEPT !.todo = run]
<1>1. todo \in Seq(Steps) /\ frame.origs \in Nat /\ frame.threw \in BOOLEAN
  BY DEF CallFrame
<1>2. /\ rest \in Seq(Steps) /\ Len(rest) = Len(todo) - 1
      /\ todo[1] = "own" /\ 1 \in DOMAIN todo
      /\ \A i \in DOMAIN rest : i + 1 \in DOMAIN todo /\ rest[i] = todo[i + 1] /\ i >= 1
  BY <1>1, RestOfSteps
<1>3. "clear" \in Steps
  BY DEF Steps
<1> HIDE DEF rest
<1>4. /\ run \in Seq(Steps) /\ DOMAIN run = DOMAIN todo
      /\ run[1] = "clear"
      /\ \A i \in DOMAIN todo : i = 1 \/ run[i] = todo[i]
  <2>1. /\ run \in Seq(Steps) /\ Len(run) = Len(rest) + 1 /\ run[1] = "clear"
        /\ \A i \in DOMAIN run : i = 1 \/ (i - 1 \in DOMAIN rest /\ run[i] = rest[i - 1])
    BY <1>2, <1>3, StepBefore
  <2> HIDE DEF run
  <2>2. DOMAIN run = 1..Len(run) /\ DOMAIN todo = 1..Len(todo) /\ Len(todo) \in Nat
    BY <2>1, <1>1
  <2>3. DOMAIN run = DOMAIN todo
    BY <1>2, <2>1, <2>2
  <2>4. QED
    BY <1>2, <2>1, <2>2, <2>3
<1> HIDE DEF run
<1>5. ~frame.threw
  BY <1>2 DEF Sound, Spent
<1>6. next \in CallFrame
  BY <1>1, <1>4 DEF CallFrame
<1>7. /\ next.todo = run /\ next.origs = frame.origs /\ next.threw = frame.threw
      /\ next.matched = frame.matched /\ next.fun = frame.fun
  BY DEF CallFrame
<1> HIDE DEF next
<1>8. \A i \in DOMAIN todo : run[i] = "orig" <=> todo[i] = "orig"
  BY <1>2, <1>4
<1>9. Balanced(next)
  <2>1. CASE frame.origs = 0 /\ OneOrig(todo)
    BY <1>4, <1>7, <1>8, <2>1 DEF Balanced, OneOrig
  <2>2. CASE frame.origs = 1 /\ NoOrig(todo)
    BY <1>4, <1>7, <1>8, <2>2 DEF Balanced, NoOrig
  <2>3. QED
    BY <2>1, <2>2 DEF Sound, Balanced
<1>10. Running(next)
  BY <1>4, <1>7 DEF Sound, Running
<1>11. Spent(next)
  BY <1>5, <1>7 DEF Spent
<1>12. QED
  BY <1>5, <1>6, <1>7, <1>9, <1>10, <1>11 DEF Sound, next, run, rest

\* The original answered null: at most a line remains.
LEMMA AnsweredNull ==
    ASSUME NEW frame \in CallFrame, Sound(frame), frame.todo # <<>>,
           Head(frame.todo) = "java", NEW throws \in BOOLEAN
    PROVE  LET next == [frame EXCEPT !.todo = AfterNull(frame.fun, Tail(frame.todo)),
                                     !.threw = throws]
           IN  next \in CallFrame /\ Sound(next) /\ next.threw = throws
<1> DEFINE rest == AfterNull(frame.fun, Tail(frame.todo))
           next == [frame EXCEPT !.todo = rest, !.threw = throws]
<1>1. frame.todo \in Seq(Steps)
  BY DEF CallFrame
<1>2. frame.todo[1] = "java" /\ 1 \in DOMAIN frame.todo
  BY <1>1, RestOfSteps
<1>3. rest = <<>> \/ rest = <<"line">>
  BY DEF AfterNull
<1> HIDE DEF rest
<1>4. rest \in Seq(Steps) /\ \A i \in DOMAIN rest : rest[i] = "line"
  <2>1. "line" \in Steps
    BY DEF Steps
  <2>2. CASE rest = <<>>
    BY <2>2
  <2>3. CASE rest = <<"line">>
    BY <2>1, <2>3
  <2>4. QED
    BY <1>3, <2>2, <2>3
<1>5. frame.origs = 1
  BY <1>2 DEF Sound, Running
<1>6. next \in CallFrame
  BY <1>4 DEF CallFrame
<1>7. next.todo = rest /\ next.origs = 1 /\ next.threw = throws
  BY <1>5 DEF CallFrame
<1> HIDE DEF next
<1>8. Sound(next)
  BY <1>4, <1>7 DEF Sound, Balanced, NoOrig, Running, Spent
<1>9. QED
  BY <1>6, <1>7, <1>8 DEF next, rest

------------------------------------------------------------------------------
(* The invariant.                                                           *)

LEMMA InitSound == Init => IInv
<1> SUFFICES ASSUME Init PROVE IInv
  OBVIOUS
<1>1. \A t \in Threads : stack[t] = <<>> /\ DOMAIN stack[t] = {}
  <2>1. \A t \in Threads : stack[t] = <<>>
    BY DEF Init
  <2>2. DOMAIN <<>> = {}
    OBVIOUS
  <2>3. QED
    BY <2>1, <2>2, Zenon
<1>2. AllSound /\ Pending
  BY <1>1 DEF AllSound, Pending
<1>3. <<>> \in Seq(CallFrame)
  OBVIOUS
<1>4. TypeOK
  BY <1>3 DEF Init, TypeOK
<1>5. QED
  BY <1>2, <1>4 DEF IInv

\* Starting, installing and stopping leave the calls alone.
LEMMA SettingsStep ==
    ASSUME IInv,
           \/ \E mode \in Modes : startjnitrace(mode)
           \/ \E i \in DOMAIN InitOrder : InstallHook(i)
           \/ StopClearFilter \/ StopDelete \/ StopSave
    PROVE  IInv'
<1>1. stack' = stack /\ exc' = exc
  BY DEF startjnitrace, InstallHook, StopClearFilter, StopDelete, StopSave, sink, settings
<1>2. AllSound' /\ Pending'
  BY <1>1 DEF IInv, AllSound, Pending, Sound, Balanced, Running, Spent, NoOrig, OneOrig
<1>3. TypeOK'
  <2>1. CASE \E mode \in Modes : startjnitrace(mode)
    BY <2>1, ModesAssumption DEF IInv, TypeOK, startjnitrace, Sos
  <2>2. CASE \E i \in DOMAIN InitOrder : InstallHook(i)
    <3>1. PICK i \in DOMAIN InitOrder : InstallHook(i)
      BY <2>2
    <3>2. InitOrder[i] \in Funs
      BY DEF InitOrder, Funs, InvokeFuns
    <3>3. QED
      BY <3>1, <3>2 DEF IInv, TypeOK, InstallHook, settings, sink
  <2>3. CASE StopClearFilter
    BY <2>3 DEF IInv, TypeOK, StopClearFilter
  <2>4. CASE StopDelete
    BY <2>4 DEF IInv, TypeOK, StopDelete, settings
  <2>5. CASE StopSave
    BY <2>5 DEF IInv, TypeOK, StopSave, settings
  <2>6. QED
    BY <2>1, <2>2, <2>3, <2>4, <2>5
<1>4. QED
  BY <1>2, <1>3 DEF IInv

\* What a thread's step leaves of the type invariant to show.
LEMMA TypeOfThreadStep ==
    ASSUME TypeOK, UNCHANGED settings, UNCHANGED installed, UNCHANGED sink,
           match_so_name' \in Sos \cup {NoSo},
           stack' \in [Threads -> Seq(CallFrame)],
           writing' \in [Threads -> {"no", "checked", "stream"}],
           exc' \in [Threads -> BOOLEAN]
    PROVE  TypeOK'
BY DEF TypeOK, settings, sink

\* A call on the stack has not thrown if it has more to do than write.
LEMMA NotThrown ==
    ASSUME IInv, NEW t \in Threads, stack[t] # <<>>, Top(t).todo # <<>>
    PROVE  /\ Top(t) \in CallFrame /\ Sound(Top(t))
           /\ Top(t).threw => Head(Top(t).todo) = "line" /\ exc[t]
           /\ Below(t) \in Seq(CallFrame)
           /\ \A k \in DOMAIN Below(t) : Sound(Below(t)[k]) /\ ~Below(t)[k].threw
<1>1. /\ Top(t) \in CallFrame /\ Len(stack[t]) \in DOMAIN stack[t]
      /\ Below(t) \in Seq(CallFrame)
      /\ \A k \in DOMAIN Below(t) : k \in DOMAIN stack[t] /\ k < Len(stack[t])
                                    /\ Below(t)[k] = stack[t][k]
  BY TopCall DEF IInv
<1>2. Sound(Top(t)) /\ (Top(t).threw => exc[t])
  BY <1>1 DEF IInv, AllSound, Pending, Top
<1>3. \A k \in DOMAIN Below(t) : Sound(Below(t)[k]) /\ ~Below(t)[k].threw
  BY <1>1 DEF IInv, AllSound, Pending
<1>4. Head(Top(t).todo) = Top(t).todo[1] /\ 1 \in DOMAIN Top(t).todo
  BY <1>1, RestOfSteps DEF CallFrame
<1>5. Top(t).threw => Head(Top(t).todo) = "line"
  BY <1>2, <1>4 DEF Sound, Spent
<1>6. QED
  BY <1>1, <1>2, <1>3, <1>5

\* The innermost call takes a step that is not the original, and is not over.
LEMMA PassStep ==
    ASSUME IInv, NEW t \in Threads, NEW step \in Steps \ {"orig"}, AtStep(t, step),
           stack' = [stack EXCEPT ![t] = WithTop(t, [Top(t) EXCEPT !.todo = Rest(t)])],
           \/ exc' = exc
           \/ step # "line" /\ exc' = [exc EXCEPT ![t] = FALSE]
    PROVE  /\ stack' \in [Threads -> Seq(CallFrame)] /\ AllSound' /\ Pending'
           /\ exc' \in [Threads -> BOOLEAN]
<1> DEFINE next == [Top(t) EXCEPT !.todo = Rest(t)]
<1>1. stack[t] # <<>> /\ Top(t).todo # <<>> /\ Head(Top(t).todo) = step
  BY DEF AtStep
<1>2. Top(t) \in CallFrame /\ Sound(Top(t)) /\ (Top(t).threw => step = "line" /\ exc[t])
  BY <1>1, NotThrown
<1>3. next \in CallFrame /\ Sound(next) /\ next.threw = Top(t).threw
  BY <1>1, <1>2, StepDone DEF Rest
<1> HIDE DEF next
<1>4. exc \in [Threads -> BOOLEAN]
  BY DEF IInv, TypeOK
<1>5. /\ exc' \in [Threads -> BOOLEAN]
      /\ \A u \in Threads \ {t} : exc'[u] = exc[u]
      /\ next.threw => exc'[t]
  BY <1>2, <1>3, <1>4
<1>6. stack' = [stack EXCEPT ![t] = WithTop(t, next)]
  BY DEF next
<1>7. QED
  BY <1>1, <1>3, <1>5, <1>6, TopChanges

LEMMA AppCallStep ==
    ASSUME IInv, NEW t \in Threads, NEW f \in Funs, NEW so \in AppSos \cup SysSos,
           AppCall(t, f, so)
    PROVE  IInv'
<1>1. so \in Sos /\ <<>> \in Seq(CallFrame) /\ EnterOn(t, <<>>, f, so) /\ exc' = exc
  BY DEF AppCall, Sos
<1>2. \A k \in DOMAIN <<>> : Sound(<<>>[k]) /\ ~<<>>[k].threw
  OBVIOUS
<1>3. /\ stack' \in [Threads -> Seq(CallFrame)] /\ AllSound' /\ Pending'
      /\ match_so_name' \in Sos \cup {NoSo}
  BY <1>1, <1>2, Entered
<1>4. QED
  BY <1>3, TypeOfThreadStep DEF AppCall, IInv, TypeOK

LEMMA RunOrigStep ==
    ASSUME IInv, NEW t \in Threads, RunOrig(t)
    PROVE  IInv'
<1> DEFINE next == [Top(t) EXCEPT !.todo = <<"java">> \o Rest(t), !.origs = Top(t).origs + 1]
           running == WithTop(t, next)
<1>1. stack[t] # <<>> /\ Top(t).todo # <<>> /\ Head(Top(t).todo) = "orig"
  BY DEF RunOrig, AtStep
<1>2. /\ Top(t) \in CallFrame /\ Sound(Top(t)) /\ Below(t) \in Seq(CallFrame)
      /\ \A k \in DOMAIN Below(t) : Sound(Below(t)[k]) /\ ~Below(t)[k].threw
  BY <1>1, NotThrown
<1>3. next \in CallFrame /\ Sound(next) /\ ~next.threw
  BY <1>1, <1>2, OrigCalled DEF Rest
<1>4. \/ stack' = [stack EXCEPT ![t] = running] /\ match_so_name' = match_so_name
      \/ \E f \in Funs, so \in AppSos \cup SysSos : EnterOn(t, running, f, so)
  BY DEF RunOrig
<1> HIDE DEF next
<1>5. exc' = exc /\ UNCHANGED <<settings, installed, sink, writing>>
  BY DEF RunOrig
<1>6. CASE stack' = [stack EXCEPT ![t] = running] /\ match_so_name' = match_so_name
  <2>1. stack' \in [Threads -> Seq(CallFrame)] /\ AllSound' /\ Pending'
    BY <1>1, <1>3, <1>5, <1>6, TopChanges
  <2>2. QED
    BY <1>5, <1>6, <2>1, TypeOfThreadStep DEF IInv, TypeOK
<1>7. CASE \E f \in Funs, so \in AppSos \cup SysSos : EnterOn(t, running, f, so)
  <2>1. PICK f \in Funs, so \in AppSos \cup SysSos : EnterOn(t, running, f, so)
    BY <1>7
  <2>2. /\ running \in Seq(CallFrame)
        /\ \A k \in DOMAIN running : running[k] = next
              \/ (k \in DOMAIN Below(t) /\ running[k] = Below(t)[k])
    BY <1>2, <1>3, AppendProperties DEF WithTop
  <2>3. \A k \in DOMAIN running : Sound(running[k]) /\ ~running[k].threw
    BY <1>2, <1>3, <2>2
  <2> HIDE DEF running
  <2>4. so \in Sos
    BY DEF Sos
  <2>5. /\ stack' \in [Threads -> Seq(CallFrame)] /\ AllSound' /\ Pending'
        /\ match_so_name' \in Sos \cup {NoSo}
    BY <1>5, <2>1, <2>2, <2>3, <2>4, Entered
  <2>6. QED
    BY <1>5, <2>5, TypeOfThreadStep DEF IInv, TypeOK
<1>8. QED
  BY <1>4, <1>6, <1>7

LEMMA OwnCallStep ==
    ASSUME IInv, NEW t \in Threads, NEW f \in OwnFuns, OwnCall(t, f)
    PROVE  IInv'
<1> DEFINE next == [Top(t) EXCEPT !.todo = <<"clear">> \o Rest(t)]
           described == WithTop(t, next)
<1>1. stack[t] # <<>> /\ Top(t).todo # <<>> /\ Head(Top(t).todo) = "own"
  BY DEF OwnCall, AtStep
<1>2. /\ Top(t) \in CallFrame /\ Sound(Top(t)) /\ Below(t) \in Seq(CallFrame)
      /\ \A k \in DOMAIN Below(t) : Sound(Below(t)[k]) /\ ~Below(t)[k].threw
  BY <1>1, NotThrown
<1>3. next \in CallFrame /\ Sound(next) /\ ~next.threw
  BY <1>1, <1>2, Described DEF Rest
<1>4. \/ stack' = [stack EXCEPT ![t] = described] /\ match_so_name' = match_so_name
      \/ EnterOn(t, described, f, OwnSo)
  BY DEF OwnCall
<1> HIDE DEF next
<1>5. exc' = exc /\ UNCHANGED <<settings, installed, sink, writing>>
  BY DEF OwnCall
<1>6. CASE stack' = [stack EXCEPT ![t] = described] /\ match_so_name' = match_so_name
  <2>1. stack' \in [Threads -> Seq(CallFrame)] /\ AllSound' /\ Pending'
    BY <1>1, <1>3, <1>5, <1>6, TopChanges
  <2>2. QED
    BY <1>5, <1>6, <2>1, TypeOfThreadStep DEF IInv, TypeOK
<1>7. CASE EnterOn(t, described, f, OwnSo)
  <2>1. /\ described \in Seq(CallFrame)
        /\ \A k \in DOMAIN described : described[k] = next
              \/ (k \in DOMAIN Below(t) /\ described[k] = Below(t)[k])
    BY <1>2, <1>3, AppendProperties DEF WithTop
  <2>2. \A k \in DOMAIN described : Sound(described[k]) /\ ~described[k].threw
    BY <1>2, <1>3, <2>1
  <2> HIDE DEF described
  <2>3. OwnSo \in Sos /\ f \in Funs
    BY DEF Sos, OwnFuns, Funs, InvokeFuns
  <2>4. /\ stack' \in [Threads -> Seq(CallFrame)] /\ AllSound' /\ Pending'
        /\ match_so_name' \in Sos \cup {NoSo}
    BY <1>5, <1>7, <2>1, <2>2, <2>3, Entered
  <2>5. QED
    BY <1>5, <2>4, TypeOfThreadStep DEF IInv, TypeOK
<1>8. QED
  BY <1>4, <1>6, <1>7

LEMMA OrigReturnsNullStep ==
    ASSUME IInv, NEW t \in Threads, NEW throws \in BOOLEAN, OrigReturnsNull(t, throws)
    PROVE  IInv'
<1> DEFINE next == [Top(t) EXCEPT !.todo = AfterNull(Top(t).fun, Rest(t)), !.threw = throws]
<1>1. stack[t] # <<>> /\ Top(t).todo # <<>> /\ Head(Top(t).todo) = "java"
  BY DEF OrigReturnsNull, AtStep
<1>2. Top(t) \in CallFrame /\ Sound(Top(t))
  BY <1>1, NotThrown
<1>3. next \in CallFrame /\ Sound(next) /\ next.threw = throws
  BY <1>1, <1>2, AnsweredNull DEF Rest
<1>4. stack' = [stack EXCEPT ![t] = WithTop(t, next)]
  BY DEF OrigReturnsNull
<1> HIDE DEF next
<1>5. exc \in [Threads -> BOOLEAN] /\ exc' = [exc EXCEPT ![t] = throws]
  BY DEF OrigReturnsNull, IInv, TypeOK
<1>6. /\ exc' \in [Threads -> BOOLEAN] /\ exc'[t] = throws
      /\ \A u \in Threads \ {t} : exc'[u] = exc[u]
  BY <1>5
<1>7. stack' \in [Threads -> Seq(CallFrame)] /\ AllSound' /\ Pending'
  BY <1>1, <1>3, <1>4, <1>6, TopChanges
<1>8. QED
  BY <1>6, <1>7, TypeOfThreadStep DEF IInv, TypeOK, OrigReturnsNull

LEMMA ReturnCallStep ==
    ASSUME IInv, NEW t \in Threads, ReturnCall(t)
    PROVE  IInv'
<1> DEFINE s == Below(t)
<1>1. stack[t] # <<>> /\ stack' = [stack EXCEPT ![t] = s] /\ exc' = exc
  BY DEF ReturnCall
<1>2. /\ s \in Seq(CallFrame)
      /\ \A k \in DOMAIN s : k \in DOMAIN stack[t] /\ k < Len(stack[t]) /\ s[k] = stack[t][k]
  BY <1>1, TopCall DEF IInv
<1> HIDE DEF s
<1>3. \A k \in DOMAIN s : Sound(s[k]) /\ ~s[k].threw
  BY <1>2 DEF IInv, AllSound, Pending
<1>4. stack' \in [Threads -> Seq(CallFrame)] /\ AllSound' /\ Pending'
  BY <1>1, <1>2, <1>3, NewStack
<1>5. QED
  BY <1>4, TypeOfThreadStep DEF IInv, TypeOK, ReturnCall

\* The native code that handles an exception is not in a call that threw: such
\* a call has only lines left to write.
LEMMA HandleExceptionStep ==
    ASSUME IInv, NEW t \in Threads, HandleException(t)
    PROVE  IInv'
<1>1. /\ stack' = stack /\ exc \in [Threads -> BOOLEAN]
      /\ exc' = [exc EXCEPT ![t] = FALSE]
  BY DEF HandleException, IInv, TypeOK
<1>2. AllSound'
  BY <1>1 DEF IInv, AllSound, Sound, Balanced, Running, Spent, NoOrig, OneOrig
<1>3. \A k \in DOMAIN stack[t] : ~stack[t][k].threw
  <2>1. CASE stack[t] = <<>>
    BY <2>1
  <2>2. CASE stack[t] # <<>>
    <3>1. Top(t).todo # <<>> /\ Head(Top(t).todo) = "java"
      BY <2>2 DEF HandleException, AtStep
    <3>2. ~Top(t).threw
      BY <2>2, <3>1, NotThrown
    <3>3. QED
      BY <3>2 DEF IInv, Pending, Top
  <2>3. QED
    BY <2>1, <2>2
<1>4. Pending'
  <2> SUFFICES ASSUME NEW u \in Threads, NEW k \in DOMAIN stack[u], stack[u][k].threw
               PROVE  k = Len(stack[u]) /\ exc'[u]
    BY <1>1 DEF Pending
  <2>1. u # t
    BY <1>3
  <2>2. QED
    BY <1>1, <2>1 DEF IInv, Pending
<1>5. QED
  BY <1>1, <1>2, <1>4, TypeOfThreadStep DEF HandleException, IInv, TypeOK

LEMMA ThreadStepSound ==
    ASSUME IInv, NEW t \in Threads, ThreadStep(t)
    PROVE  IInv'
<1>1. CASE RunOrig(t)
  BY <1>1, RunOrigStep
<1>2. CASE OrigReturns(t)
  <2>1. /\ stack' \in [Threads -> Seq(CallFrame)] /\ AllSound' /\ Pending'
        /\ exc' \in [Threads -> BOOLEAN]
    BY <1>2, PassStep DEF OrigReturns, Steps
  <2>2. QED
    BY <1>2, <2>1, TypeOfThreadStep DEF OrigReturns, IInv, TypeOK
<1>3. CASE \E throws \in BOOLEAN : OrigReturnsNull(t, throws)
  BY <1>3, OrigReturnsNullStep
<1>4. CASE \E f \in OwnFuns : OwnCall(t, f)
  BY <1>4, OwnCallStep
<1>5. CASE ClearException(t)
  <2>1. /\ stack' \in [Threads -> Seq(CallFrame)] /\ AllSound' /\ Pending'
        /\ exc' \in [Threads -> BOOLEAN]
    BY <1>5, PassStep DEF ClearException, Steps
  <2>2. QED
    BY <1>5, <2>1, TypeOfThreadStep DEF ClearException, IInv, TypeOK
<1>6. CASE BeginLine(t) \/ TouchStream(t)
  <2>1. /\ stack' = stack /\ exc' = exc
        /\ UNCHANGED <<settings, installed, match_so_name, sink>>
        /\ writing' \in [Threads -> {"no", "checked", "stream"}]
    BY <1>6 DEF BeginLine, TouchStream, IInv, TypeOK
  <2>2. AllSound' /\ Pending'
    BY <2>1 DEF IInv, AllSound, Pending, Sound, Balanced, Running, Spent, NoOrig, OneOrig
  <2>3. QED
    BY <2>1, <2>2, TypeOfThreadStep DEF IInv, TypeOK
<1>7. CASE EndLine(t)
  <2>1. /\ stack' \in [Threads -> Seq(CallFrame)] /\ AllSound' /\ Pending'
        /\ exc' \in [Threads -> BOOLEAN]
    BY <1>7, PassStep DEF EndLine, Steps
  <2>2. writing' \in [Threads -> {"no", "checked", "stream"}]
    BY <1>7 DEF EndLine, IInv, TypeOK
  <2>3. QED
    BY <1>7, <2>1, <2>2, TypeOfThreadStep DEF EndLine, IInv, TypeOK
<1>8. CASE ReturnCall(t)
  BY <1>8, ReturnCallStep
<1>9. CASE HandleException(t)
  BY <1>9, HandleExceptionStep
<1>10. QED
  BY <1>1, <1>2, <1>3, <1>4, <1>5, <1>6, <1>7, <1>8, <1>9 DEF ThreadStep

LEMMA NextSound == IInv /\ [Next]_vars => IInv'
<1> SUFFICES ASSUME IInv, [Next]_vars PROVE IInv'
  OBVIOUS
<1>1. CASE \/ \E mode \in Modes : startjnitrace(mode)
           \/ \E i \in DOMAIN InitOrder : InstallHook(i)
           \/ StopClearFilter \/ StopDelete \/ StopSave
  BY <1>1, SettingsStep
<1>2. CASE \E t \in Threads :
              \/ \E f \in Funs, so \in AppSos \cup SysSos : AppCall(t, f, so)
              \/ ThreadStep(t)
  BY <1>2, AppCallStep, ThreadStepSound
<1>3. CASE UNCHANGED vars
  BY <1>3 DEF vars, settings, sink, IInv, TypeOK, AllSound, Pending, Sound, Balanced,
              Running, Spent, NoOrig, OneOrig
<1>4. QED
  BY <1>1, <1>2, <1>3 DEF Next

LEMMA Invariance == Spec => []IInv
BY InitSound, NextSound, PTL DEF Spec

------------------------------------------------------------------------------
(* What follows from it.                                                    *)

\* A frame records where a call to a replacement is, for any threads and nesting.
THEOREM TypeCorrect == Spec => []TypeOK
<1>1. IInv => TypeOK
  BY DEF IInv
<1>2. QED
  BY <1>1, Invariance, PTL

\* Every replacement (HOOK_JNI and the macros in it, JnitraceForC.cpp) that
\* returns has run the original once, but for a null string.
THEOREM OriginalRunsOnce == Spec => []OrigOncePerCall
<1>1. IInv => OrigOncePerCall
  <2> SUFFICES ASSUME IInv, NEW t \in Threads, Done(t)
               PROVE  \/ Top(t).origs = 1
                      \/ Top(t).origs = 0 /\ Top(t).matched
                         /\ Top(t).fun = "GetStringUTFChars"
    BY DEF OrigOncePerCall
  <2>1. Len(stack[t]) \in DOMAIN stack[t]
    BY TopCall DEF Done, IInv
  <2>2. Sound(Top(t)) /\ Top(t).todo = <<>>
    BY <2>1 DEF IInv, AllSound, Top, Done
  <2>3. ~OneOrig(Top(t).todo)
    BY <2>2 DEF OneOrig
  <2>4. QED
    BY <2>2, <2>3 DEF Sound, Balanced
<1>2. QED
  BY <1>1, Invariance, PTL

\* An exception of the original is pending when its replacement returns, in
\* spite of the ExceptionClear that ends a description (JnitraceForC.cpp:581).
THEOREM ExceptionsArePassedOn == Spec => []ExceptionsSurvive
<1>1. IInv => ExceptionsSurvive
  <2> SUFFICES ASSUME IInv, NEW t \in Threads, Done(t), Top(t).threw
               PROVE  exc[t]
    BY DEF ExceptionsSurvive
  <2>1. Len(stack[t]) \in DOMAIN stack[t]
    BY TopCall DEF Done, IInv
  <2>2. QED
    BY <2>1 DEF IInv, Pending, Top
<1>2. QED
  BY <1>1, Invariance, PTL

------------------------------------------------------------------------------
(* The tracer's own calls.                                                  *)

\* No filter names a part of the tracer's library.
FiltersSpareOwn == \A mode \in Modes : OwnSo \notin mode.filter

\* The settings never select the tracer's own library.
OwnUnselected == (isHookAll => OwnSo \in forbidSoList) /\ OwnSo \notin filterSoList

SparedFrame(frame) == frame.so = OwnSo => ~frame.matched

SparedInv == OwnUnselected /\ OwnNeverTraced

LEMMA AppendKeeps ==
    ASSUME NEW s \in Seq(CallFrame), NEW frame,
           SparedFrame(frame), \A k \in DOMAIN s : SparedFrame(s[k])
    PROVE  \A k \in DOMAIN Append(s, frame) : SparedFrame(Append(s, frame)[k])
<1>1. \A k \in DOMAIN Append(s, frame) :
         Append(s, frame)[k] = frame \/ (k \in DOMAIN s /\ Append(s, frame)[k] = s[k])
  OBVIOUS
<1>2. QED
  BY <1>1

\* Whatever a step does to the innermost call, what is below it stays.
LEMMA ReplacedTop ==
    ASSUME TypeOK, OwnNeverTraced, NEW t \in Threads, stack[t] # <<>>, NEW frame,
           frame.so = Top(t).so, frame.matched = Top(t).matched
    PROVE  /\ Below(t) \in Seq(CallFrame)
           /\ \A k \in DOMAIN Below(t) : SparedFrame(Below(t)[k])
           /\ \A k \in DOMAIN WithTop(t, frame) : SparedFrame(WithTop(t, frame)[k])
<1>1. /\ Below(t) \in Seq(CallFrame) /\ Len(stack[t]) \in DOMAIN stack[t]
      /\ \A k \in DOMAIN Below(t) : k \in DOMAIN stack[t] /\ Below(t)[k] = stack[t][k]
  BY TopCall
<1>2. \A k \in DOMAIN Below(t) : SparedFrame(Below(t)[k])
  BY <1>1 DEF OwnNeverTraced, SparedFrame
<1>3. SparedFrame(frame)
  BY <1>1 DEF OwnNeverTraced, SparedFrame, Top
<1>4. QED
  BY <1>1, <1>2, <1>3, AppendKeeps DEF WithTop

\* A stack of spared calls stays one when a library calls: what is traced was
\* selected by the settings.
LEMMA EnteredSpared ==
    ASSUME OwnUnselected, NEW t \in Threads, NEW below \in Seq(CallFrame),
           \A k \in DOMAIN below : SparedFrame(below[k]),
           NEW f, NEW so, EnterOn(t, below, f, so)
    PROVE  \E s : /\ stack' = [stack EXCEPT ![t] = s]
                  /\ \A k \in DOMAIN s : SparedFrame(s[k])
<1>1. PICK steps : stack' = [stack EXCEPT ![t] = Append(below, Frame(f, so, steps))]
  BY DEF EnterOn
<1>2. ~isLister(OwnSo)
  BY DEF OwnUnselected, isLister
<1>3. SparedFrame(Frame(f, so, steps))
  BY <1>2 DEF SparedFrame, Frame
<1>4. QED
  BY <1>1, <1>3, AppendKeeps

\* A step of a thread replaces its stack by one of spared calls, if at all.
LEMMA StackSpared ==
    ASSUME IInv, SparedInv, NEW t \in Threads,
           \/ \E f \in Funs, so \in AppSos \cup SysSos : AppCall(t, f, so)
           \/ ThreadStep(t)
    PROVE  \/ stack' = stack
           \/ \E s : /\ stack' = [stack EXCEPT ![t] = s]
                     /\ \A k \in DOMAIN s : SparedFrame(s[k])
<1> DEFINE Goal == \E s : /\ stack' = [stack EXCEPT ![t] = s]
                          /\ \A k \in DOMAIN s : SparedFrame(s[k])
<1>1. TypeOK /\ OwnUnselected /\ OwnNeverTraced /\ (stack[t] # <<>> => Top(t) \in CallFrame)
  BY TopCall DEF IInv, SparedInv
\* The innermost call becomes frame, perhaps with a new call on top of it.
<1>2. ASSUME NEW frame, stack[t] # <<>>,
             frame.so = Top(t).so, frame.matched = Top(t).matched,
             \/ stack' = [stack EXCEPT ![t] = WithTop(t, frame)]
             \/ frame \in CallFrame /\ \E f, so : EnterOn(t, WithTop(t, frame), f, so)
      PROVE  Goal
  <2> DEFINE s == WithTop(t, frame)
  <2>1. Below(t) \in Seq(CallFrame) /\ \A k \in DOMAIN s : SparedFrame(s[k])
    BY <1>1, <1>2, ReplacedTop
  <2>2. frame \in CallFrame => s \in Seq(CallFrame)
    BY <2>1, AppendProperties DEF WithTop
  <2> HIDE DEF s
  <2>3. CASE stack' = [stack EXCEPT ![t] = s]
    BY <2>1, <2>3
  <2>4. CASE frame \in CallFrame /\ \E f, so : EnterOn(t, s, f, so)
    BY <1>1, <2>1, <2>2, <2>4, EnteredSpared
  <2>5. QED
    BY <1>2, <2>3, <2>4 DEF s
<1> HIDE DEF Goal
<1>3. ASSUME NEW f, NEW so, AppCall(t, f, so) PROVE Goal
  <2>1. <<>> \in Seq(CallFrame) /\ \A k \in DOMAIN <<>> : SparedFrame(<<>>[k])
    OBVIOUS
  <2>2. QED
    BY <1>1, <1>3, <2>1, EnteredSpared DEF AppCall, Goal
<1>4. CASE RunOrig(t)
  <2> DEFINE next == [Top(t) EXCEPT !.todo = <<"java">> \o Rest(t), !.origs = Top(t).origs + 1]
  <2>1. stack[t] # <<>> /\ Top(t).todo # <<>> /\ Head(Top(t).todo) = "orig"
    BY <1>4 DEF RunOrig, AtStep
  <2>2. next \in CallFrame /\ next.so = Top(t).so /\ next.matched = Top(t).matched
    BY <1>1, <2>1, NotThrown, OrigCalled DEF CallFrame, Rest
  <2>3. \/ stack' = [stack EXCEPT ![t] = WithTop(t, next)]
        \/ \E f, so : EnterOn(t, WithTop(t, next), f, so)
    BY <1>4 DEF RunOrig
  <2> HIDE DEF next
  <2>4. QED
    BY <1>2, <2>1, <2>2, <2>3 DEF Goal
<1>5. CASE \E f \in OwnFuns : OwnCall(t, f)
  <2> DEFINE next == [Top(t) EXCEPT !.todo = <<"clear">> \o Rest(t)]
  <2>1. stack[t] # <<>> /\ Top(t).todo # <<>> /\ Head(Top(t).todo) = "own"
    BY <1>5 DEF OwnCall, AtStep
  <2>2. next \in CallFrame /\ next.so = Top(t).so /\ next.matched = Top(t).matched
    BY <1>1, <2>1, NotThrown, Described DEF CallFrame, Rest
  <2>3. \/ stack' = [stack EXCEPT ![t] = WithTop(t, next)]
        \/ \E f, so : EnterOn(t, WithTop(t, next), f, so)
    BY <1>5 DEF OwnCall
  <2> HIDE DEF next
  <2>4. QED
    BY <1>2, <2>1, <2>2, <2>3 DEF Goal
<1>6. CASE \E throws \in BOOLEAN : OrigReturnsNull(t, throws)
  <2> DEFINE next(throws) == [Top(t) EXCEPT !.todo = AfterNull(Top(t).fun, Rest(t)),
                                            !.threw = throws]
  <2>1. PICK throws \in BOOLEAN : stack' = [stack EXCEPT ![t] = WithTop(t, next(throws))]
    BY <1>6 DEF OrigReturnsNull
  <2>2. stack[t] # <<>>
    BY <1>6 DEF OrigReturnsNull, AtStep
  <2>3. next(throws).so = Top(t).so /\ next(throws).matched = Top(t).matched
    BY <1>1, <2>2 DEF CallFrame
  <2> HIDE DEF next
  <2>4. QED
    BY <1>2, <2>1, <2>2, <2>3 DEF Goal
<1>7. CASE OrigReturns(t) \/ ClearException(t) \/ EndLine(t)
  <2> DEFINE next == [Top(t) EXCEPT !.todo = Rest(t)]
  <2>1. stack[t] # <<>> /\ stack' = [stack EXCEPT ![t] = WithTop(t, next)]
    BY <1>7 DEF OrigReturns, ClearException, EndLine, AtStep
  <2>2. next.so = Top(t).so /\ next.matched = Top(t).matched
    BY <1>1, <2>1 DEF CallFrame
  <2> HIDE DEF next
  <2>3. QED
    BY <1>2, <2>1, <2>2 DEF Goal
<1>8. CASE ReturnCall(t)
  <2>1. stack[t] # <<>> /\ stack' = [stack EXCEPT ![t] = Below(t)]
    BY <1>8 DEF ReturnCall
  <2>2. \A k \in DOMAIN Below(t) : SparedFrame(Below(t)[k])
    BY <1>1, <2>1, ReplacedTop
  <2>3. QED
    BY <2>1, <2>2 DEF Goal
<1>9. CASE BeginLine(t) \/ TouchStream(t) \/ HandleException(t)
  BY <1>9 DEF BeginLine, TouchStream, HandleException
<1>10. QED
  BY <1>3, <1>4, <1>5, <1>6, <1>7, <1>8, <1>9 DEF ThreadStep, Goal

\* The tracer describes objects with JNI calls of its own, which are hooked: they
\* are never traced (main.cpp:80), if no filter names the tracer's own library.
\* The run trace_own_so shows what a filter that does leads to.
THEOREM OwnCallsAreSpared ==
    ASSUME FiltersSpareOwn PROVE Spec => []OwnNeverTraced
<1>1. Init => SparedInv
  <2> SUFFICES ASSUME Init PROVE SparedInv
    OBVIOUS
  <2>1. \A t \in Threads : stack[t] = <<>>
    BY DEF Init
  <2>2. DOMAIN <<>> = {}
    OBVIOUS
  <2>3. OwnNeverTraced
    BY <2>1, <2>2, Zenon DEF OwnNeverTraced
  <2>4. QED
    BY <2>3 DEF Init, SparedInv, OwnUnselected
<1>2. IInv /\ SparedInv /\ [Next]_vars => SparedInv'
  <2> SUFFICES ASSUME IInv, SparedInv, [Next]_vars PROVE SparedInv'
    OBVIOUS
  <2>1. OwnUnselected'
    <3>1. CASE \E mode \in Modes : startjnitrace(mode)
      BY <3>1 DEF startjnitrace, OwnUnselected, FiltersSpareOwn
    <3>2. CASE StopClearFilter
      BY <3>2 DEF StopClearFilter, OwnUnselected, SparedInv
    <3>3. CASE UNCHANGED settings
      BY <3>3 DEF settings, OwnUnselected, SparedInv
    <3>4. QED
      BY <3>1, <3>2, <3>3 DEF Next, vars, InstallHook, StopDelete, StopSave, AppCall, ThreadStep,
         RunOrig, OrigReturns, OrigReturnsNull, OwnCall, ClearException, BeginLine,
         TouchStream, EndLine, ReturnCall, HandleException
  <2>2. OwnNeverTraced'
    <3>1. CASE stack' = stack
      BY <3>1 DEF OwnNeverTraced, SparedInv
    <3>2. ASSUME NEW t \in Threads, NEW s, stack' = [stack EXCEPT ![t] = s],
                 \A k \in DOMAIN s : SparedFrame(s[k])
          PROVE  OwnNeverTraced'
      <4> SUFFICES ASSUME NEW u \in Threads, NEW i \in DOMAIN stack'[u],
                          stack'[u][i].so = OwnSo
                   PROVE  ~stack'[u][i].matched
        BY DEF OwnNeverTraced
      <4>1. stack'[u] = IF u = t THEN s ELSE stack[u]
        BY <3>2 DEF IInv, TypeOK
      <4>2. QED
        BY <3>2, <4>1 DEF SparedFrame, SparedInv, OwnNeverTraced
    <3>3. \/ stack' = stack
          \/ \E t \in Threads :
                \/ \E f \in Funs, so \in AppSos \cup SysSos : AppCall(t, f, so)
                \/ ThreadStep(t)
      BY DEF Next, vars, startjnitrace, InstallHook, StopClearFilter, StopDelete, StopSave
    <3>4. QED
      BY <3>1, <3>2, <3>3, StackSpared
  <2>3. QED
    BY <2>1, <2>2 DEF SparedInv
<1>3. SparedInv => OwnNeverTraced
  BY DEF SparedInv
<1>4. QED
  BY <1>1, <1>2, <1>3, Invariance, PTL DEF Spec

------------------------------------------------------------------------------
(* The application cannot tell that it is traced.                           *)

\* A call that another one runs inside waits: in the original, or for the end of
\* a description if the tracer made the other one.
Waits(call, so) ==
    call.todo # <<>> /\ Head(call.todo) = IF so = OwnSo THEN "clear" ELSE "java"
Nested(calls) ==
    \A k \in DOMAIN calls :
        /\ k < Len(calls) => Waits(calls[k], calls[k + 1].so)
        /\ calls[k].so = OwnSo => ~calls[k].threw

\* An exception is pending where the application may see one: the innermost call
\* threw it, or runs code that may handle it.
Expected(calls) ==
    \/ calls = <<>>
    \/ LET call == calls[Len(calls)]
       IN  call.threw \/ (call.todo # <<>> /\ Head(call.todo) = "java")

NInv == IInv /\ \A t \in Threads : Nested(stack[t]) /\ (exc[t] => Expected(stack[t]))

SeenCall == [fun : Funs, so : Sos, at : {"called", "running", "returned"}, threw : BOOLEAN]

LEMMA SeenFacts ==
    ASSUME NEW call \in CallFrame
    PROVE  /\ Seen(call) \in SeenCall
           /\ Seen(call).fun = call.fun /\ Seen(call).so = call.so
           /\ Seen(call).at = Stage(call) /\ Seen(call).threw = call.threw
<1>1. Stage(call) \in {"called", "running", "returned"}
  BY DEF Stage
<1>2. QED
  BY <1>1 DEF Seen, SeenCall, CallFrame

\* Of calls of the application all are visible.
LEMMA ViewPlain ==
    ASSUME NEW s \in Seq(CallFrame), ~Own(s)
    PROVE  /\ View(s) \in Seq(SeenCall) /\ Len(View(s)) = Len(s)
           /\ \A k \in DOMAIN s : View(s)[k] = Seen(s[k])
<1>1. DOMAIN s = 1..Len(s) /\ Len(s) \in Nat /\ \A k \in DOMAIN s : s[k] \in CallFrame
  BY LenProperties, ElementOfSeq
<1>2. Visible(s) = 1..Len(s)
  BY <1>1 DEF Visible, Own
<1>3. View(s) \in [1..Len(s) -> SeenCall]
  BY <1>1, <1>2, SeenFacts DEF View
<1>4. View(s) \in Seq(SeenCall)
  BY <1>1, <1>3, SeqDef
<1>5. QED
  BY <1>1, <1>2, <1>3, <1>4, LenProperties DEF View

\* One more call is visible, unless the tracer makes it or one below it.
LEMMA ViewAppend ==
    ASSUME NEW s \in Seq(CallFrame), NEW call \in CallFrame
    PROVE  /\ Own(Append(s, call)) <=> Own(s) \/ call.so = OwnSo
           /\ Own(Append(s, call)) => View(Append(s, call)) = View(s)
           /\ ~Own(Append(s, call)) => View(Append(s, call)) = Append(View(s), Seen(call))
<1> DEFINE r == Append(s, call)
<1>1. DOMAIN s = 1..Len(s) /\ Len(s) \in Nat
  BY LenProperties
<1>2. /\ r \in Seq(CallFrame) /\ Len(r) = Len(s) + 1 /\ DOMAIN r = 1..(Len(s) + 1)
      /\ \A k \in DOMAIN s : r[k] = s[k]
      /\ r[Len(s) + 1] = call
  BY <1>1, AppendProperties, LenProperties
<1> HIDE DEF r
<1>3. Own(r) <=> Own(s) \/ call.so = OwnSo
  BY <1>1, <1>2 DEF Own
<1>4. ASSUME Own(r) PROVE View(r) = View(s)
  <2>1. Visible(r) = Visible(s)
    BY <1>1, <1>2, <1>3, <1>4 DEF Visible, Own
  <2>2. \A k \in Visible(s) : r[k] = s[k]
    BY <1>2 DEF Visible
  <2>3. QED
    BY <2>1, <2>2 DEF View
<1>5. ASSUME ~Own(r) PROVE View(r) = Append(View(s), Seen(call))
  <2>1. /\ View(r) \in Seq(SeenCall) /\ Len(View(r)) = Len(r)
        /\ \A k \in DOMAIN r : View(r)[k] = Seen(r[k])
    BY <1>2, <1>5, ViewPlain
  <2>2. /\ View(s) \in Seq(SeenCall) /\ Len(View(s)) = Len(s)
        /\ \A k \in DOMAIN s : View(s)[k] = Seen(s[k])
    BY <1>3, <1>5, ViewPlain
  <2>3. Seen(call) \in SeenCall
    BY SeenFacts
  <2> DEFINE v == Append(View(s), Seen(call))
  <2>4. /\ v \in Seq(SeenCall) /\ Len(v) = Len(s) + 1
        /\ \A k \in 1..Len(s) : v[k] = View(s)[k]
        /\ v[Len(s) + 1] = Seen(call)
    BY <2>2, <2>3, AppendProperties
  <2> HIDE DEF v
  <2>5. \A k \in 1..Len(View(r)) : View(r)[k] = v[k]
    <3>1. ASSUME NEW k \in 1..Len(s) PROVE View(r)[k] = v[k]
      <4>1. k \in DOMAIN s /\ k \in DOMAIN r
        BY <1>1, <1>2
      <4>2. QED
        BY <1>2, <2>1, <2>2, <2>4, <4>1
    <3>2. View(r)[Len(s) + 1] = v[Len(s) + 1]
      <4>1. Len(s) + 1 \in DOMAIN r
        BY <1>1, <1>2
      <4>2. QED
        BY <1>2, <2>1, <2>4, <4>1
    <3>3. \A k \in 1..Len(View(r)) : k \in 1..Len(s) \/ k = Len(s) + 1
      BY <1>1, <1>2, <2>1
    <3>4. QED
      BY <3>1, <3>2, <3>3
  <2>6. View(r) = v
    BY <1>2, <2>1, <2>4, <2>5, SeqEqual
  <2>7. QED
    BY <2>6 DEF v
<1>6. QED
  BY <1>3, <1>4, <1>5 DEF r

LEMMA ViewEmpty ==
    View(<<>>) = <<>> /\ ~Own(<<>>) /\ Nested(<<>>) /\ Expected(<<>>)
<1>1. ~Own(<<>>) /\ <<>> \in Seq(CallFrame) /\ Len(<<>>) = 0
  BY DEF Own
<1>2. View(<<>>) \in Seq(SeenCall) /\ Len(View(<<>>)) = 0
  BY <1>1, ViewPlain
<1>3. QED
  BY <1>1, <1>2, EmptySeq DEF Nested, Expected

\* Calls above others, when the one above them waits.
LEMMA NestedAppend ==
    ASSUME NEW s \in Seq(CallFrame), NEW call \in CallFrame
    PROVE  /\ Nested(Append(s, call)) <=>
                 /\ Nested(s)
                 /\ s # <<>> => Waits(s[Len(s)], call.so)
                 /\ call.so = OwnSo => ~call.threw
           /\ Append(s, call) # <<>> /\ Append(s, call)[Len(Append(s, call))] = call
<1> DEFINE r == Append(s, call)
<1>1. DOMAIN s = 1..Len(s) /\ Len(s) \in Nat /\ (s # <<>> <=> Len(s) > 0)
  BY LenProperties, EmptySeq
<1>2. /\ r \in Seq(CallFrame) /\ Len(r) = Len(s) + 1 /\ DOMAIN r = 1..(Len(s) + 1)
      /\ \A k \in DOMAIN s : r[k] = s[k]
      /\ r[Len(s) + 1] = call
  BY <1>1, AppendProperties, LenProperties
<1> HIDE DEF r
<1>3. ASSUME Nested(r)
      PROVE  Nested(s) /\ (s # <<>> => Waits(s[Len(s)], call.so)) /\ (call.so = OwnSo => ~call.threw)
  <2>1. \A k \in DOMAIN s : k < Len(s) => k + 1 \in DOMAIN s
    BY <1>1
  <2>2. Nested(s)
    BY <1>1, <1>2, <1>3, <2>1 DEF Nested
  <2>3. QED
    BY <1>1, <1>2, <1>3, <2>2 DEF Nested
<1>4. ASSUME Nested(s), s # <<>> => Waits(s[Len(s)], call.so), call.so = OwnSo => ~call.threw
      PROVE  Nested(r)
  <2> SUFFICES ASSUME NEW k \in DOMAIN r
               PROVE  /\ k < Len(r) => Waits(r[k], r[k + 1].so)
                      /\ r[k].so = OwnSo => ~r[k].threw
    BY DEF Nested
  <2>1. CASE k = Len(s) + 1
    BY <1>2, <1>4, <2>1
  <2>2. CASE k = Len(s)
    BY <1>1, <1>2, <1>4, <2>2 DEF Nested
  <2>3. CASE k < Len(s)
    <3>1. k \in DOMAIN s /\ k + 1 \in DOMAIN s
      BY <1>1, <1>2, <2>3
    <3>2. QED
      BY <1>2, <1>4, <2>3, <3>1 DEF Nested
  <2>4. QED
    BY <1>1, <1>2, <2>1, <2>2, <2>3
<1>5. r # <<>> /\ r[Len(r)] = call
  BY <1>1, <1>2, EmptySeq
<1>6. QED
  BY <1>3, <1>4, <1>5 DEF r

------------------------------------------------------------------------------
(* The stages of a call.                                                    *)

LEMMA StageOf ==
    ASSUME NEW call \in CallFrame, Sound(call)
    PROVE  /\ call.todo = <<>> => Stage(call) = "returned"
           /\ call.todo # <<>> /\ Head(call.todo) = "orig" => Stage(call) = "called"
           /\ call.todo # <<>> /\ Head(call.todo) = "java" => Stage(call) = "running"
           /\ call.todo # <<>> /\ Head(call.todo) # "java"
                => Stage(call) = IF call.origs = 0 THEN "called" ELSE "returned"
<1>1. call.todo \in Seq(Steps)
  BY DEF CallFrame
<1>2. call.todo # <<>> => 1 \in DOMAIN call.todo /\ Head(call.todo) = call.todo[1]
  BY <1>1, RestOfSteps
<1>3. call.todo # <<>> /\ Head(call.todo) = "orig" => call.origs = 0
  BY <1>2 DEF Sound, Balanced, NoOrig
<1>4. call.todo # <<>> /\ Head(call.todo) = "java" => call.origs = 1
  BY <1>2 DEF Sound, Running
<1>5. QED
  BY <1>3, <1>4 DEF Stage

\* The stage is the same after a step that neither begins nor ends the original.
LEMMA StageStays ==
    ASSUME NEW call \in CallFrame, Sound(call), call.todo # <<>>,
           Head(call.todo) \notin {"orig", "java"}
    PROVE  Seen([call EXCEPT !.todo = Tail(call.todo)]) = Seen(call)
<1> DEFINE rest == Tail(call.todo)
           next == [call EXCEPT !.todo = rest]
<1>1. call.todo \in Seq(Steps) /\ DOMAIN call.todo = 1..Len(call.todo)
  BY LenProperties DEF CallFrame
<1>2. /\ rest \in Seq(Steps) /\ Len(rest) = Len(call.todo) - 1
      /\ Head(call.todo) = call.todo[1] /\ 1 \in DOMAIN call.todo
      /\ \A i \in DOMAIN rest : i + 1 \in DOMAIN call.todo /\ rest[i] = call.todo[i + 1]
  BY <1>1, RestOfSteps
<1> HIDE DEF rest
<1>3. rest # <<>> => Head(rest) = rest[1] /\ 1 \in DOMAIN rest
  BY <1>2, RestOfSteps
<1>4. /\ next.todo = rest /\ next.origs = call.origs /\ next.threw = call.threw
      /\ next.fun = call.fun /\ next.so = call.so
  BY DEF CallFrame
<1> HIDE DEF next
<1>5. Stage(call) = IF call.origs = 0 THEN "called" ELSE "returned"
  BY StageOf
<1>6. ASSUME call.origs = 0 PROVE Seen(next) = Seen(call)
  <2>1. OneOrig(call.todo)
    BY <1>6 DEF Sound, Balanced
  <2>2. PICK i \in DOMAIN call.todo : call.todo[i] = "orig"
    BY <2>1 DEF OneOrig
  <2>3. i # 1 /\ Len(rest) # 0
    BY <1>1, <1>2, <2>2
  <2>4. rest # <<>>
    BY <2>3, EmptySeq
  <2>5. Stage(next) = "called"
    BY <1>4, <1>6, <2>4 DEF Stage
  <2>6. Stage(next) = Stage(call)
    BY <1>5, <1>6, <2>5
  <2>7. QED
    BY <1>4, <2>6 DEF Seen
<1>7. ASSUME call.origs # 0 PROVE Seen(next) = Seen(call)
  <2>1. ~(rest # <<>> /\ Head(rest) = "java")
    BY <1>2, <1>3 DEF Sound, Running
  <2>2. Stage(next) = "returned"
    BY <1>4, <1>7, <2>1 DEF Stage
  <2>3. Stage(next) = Stage(call)
    BY <1>5, <1>7, <2>2
  <2>4. QED
    BY <1>4, <2>3 DEF Seen
<1>8. QED
  BY <1>6, <1>7 DEF rest, next

\* The original has returned: nothing that is left runs it.
LEMMA StageAfter ==
    ASSUME NEW call \in CallFrame, Sound(call), call.todo # <<>>,
           Head(call.todo) = "java", NEW next \in CallFrame,
           next.fun = call.fun, next.so = call.so, next.origs = call.origs,
           next.todo \in {Tail(call.todo), <<>>, <<"line">>}
    PROVE  Stage(next) = "returned"
<1>1. call.todo \in Seq(Steps)
  BY DEF CallFrame
<1>2. /\ Tail(call.todo) \in Seq(Steps)
      /\ Head(call.todo) = call.todo[1] /\ 1 \in DOMAIN call.todo
      /\ \A i \in DOMAIN Tail(call.todo) :
            i + 1 \in DOMAIN call.todo /\ Tail(call.todo)[i] = call.todo[i + 1]
  BY <1>1, RestOfSteps
<1>3. Tail(call.todo) # <<>> =>
         Head(Tail(call.todo)) = Tail(call.todo)[1] /\ 1 \in DOMAIN Tail(call.todo)
  BY <1>2, RestOfSteps
<1>4. call.origs = 1
  BY <1>2 DEF Sound, Running
<1>5. ~(Tail(call.todo) # <<>> /\ Head(Tail(call.todo)) = "java")
  BY <1>2, <1>3 DEF Sound, Running
<1>6. ~(next.todo # <<>> /\ Head(next.todo) = "java")
  BY <1>5
<1>7. Stage(next) = "returned"
  BY <1>4, <1>6 DEF Stage
<1>8. QED
  BY <1>7

------------------------------------------------------------------------------
(* The innermost call, for the application.                                 *)

LEMMA TopOfStack ==
    ASSUME TypeOK, NEW t \in Threads, stack[t] # <<>>
    PROVE  /\ Below(t) \in Seq(CallFrame) /\ Top(t) \in CallFrame
           /\ stack[t] = Append(Below(t), Top(t))
<1>1. /\ Top(t) \in CallFrame /\ Len(stack[t]) \in DOMAIN stack[t]
      /\ Below(t) \in Seq(CallFrame) /\ Len(Below(t)) = Len(stack[t]) - 1
      /\ \A k \in DOMAIN Below(t) : Below(t)[k] = stack[t][k]
  BY TopCall
<1>2. stack[t] \in Seq(CallFrame) /\ Len(stack[t]) \in Nat
  BY LenProperties DEF TypeOK
<1> DEFINE s == Append(Below(t), Top(t))
<1>3. /\ s \in Seq(CallFrame) /\ Len(s) = Len(stack[t])
      /\ \A k \in 1..Len(Below(t)) : s[k] = Below(t)[k]
      /\ s[Len(stack[t])] = Top(t)
  <2>1. /\ s \in Seq(CallFrame) /\ Len(s) = Len(Below(t)) + 1
        /\ \A k \in 1..Len(Below(t)) : s[k] = Below(t)[k]
        /\ s[Len(Below(t)) + 1] = Top(t)
    BY <1>1, AppendProperties
  <2>2. Len(Below(t)) + 1 = Len(stack[t])
    BY <1>1, <1>2
  <2>3. QED
    BY <2>1, <2>2
<1> HIDE DEF s
<1>4. \A k \in 1..Len(stack[t]) : s[k] = stack[t][k]
  <2>1. DOMAIN Below(t) = 1..(Len(stack[t]) - 1)
    BY <1>1, LenProperties
  <2>2. QED
    BY <1>1, <1>2, <1>3, <2>1 DEF Top
<1>5. s = stack[t]
  BY <1>2, <1>3, <1>4, SeqEqual
<1>6. QED
  BY <1>1, <1>5 DEF s

\* The front and the last element of a sequence that was appended to.
LEMMA FrontAndLast ==
    ASSUME NEW S, NEW v \in Seq(S), NEW x \in S
    PROVE  LET w == Append(v, x)
           IN  w # <<>> /\ w[Len(w)] = x /\ SubSeq(w, 1, Len(w) - 1) = v
<1> DEFINE w == Append(v, x)
<1>1. Len(v) \in Nat /\ \A i \in 1..Len(v) : v[i] \in S
  BY LenProperties, ElementOfSeq
<1>2. /\ w # <<>> /\ Len(w) = Len(v) + 1
      /\ \A i \in 1..Len(v) : w[i] = v[i]
      /\ w[Len(v) + 1] = x
  BY AppendProperties
<1> HIDE DEF w
<1>3. Len(w) - 1 = Len(v) /\ Len(w) = Len(v) + 1
  BY <1>1, <1>2
<1>4. SubSeq(w, 1, Len(v)) = v
  <2> DEFINE f == SubSeq(w, 1, Len(v))
  <2>1. \A i \in 1..Len(v) : w[i] \in S
    BY <1>1, <1>2
  <2>2. /\ f \in Seq(S)
        /\ Len(f) = IF 1 <= Len(v) THEN Len(v) - 1 + 1 ELSE 0
        /\ \A i \in 1..(Len(v) - 1 + 1) : f[i] = w[1 + i - 1]
    BY <1>1, <2>1, SubSeqProperties
  <2> HIDE DEF f
  <2>3. Len(f) = Len(v) /\ \A i \in 1..Len(v) : f[i] = w[i]
    BY <1>1, <2>2
  <2>4. f = v
    BY <1>2, <2>2, <2>3, SeqEqual
  <2>5. QED
    BY <2>4 DEF f
<1>5. QED
  BY <1>2, <1>3, <1>4 DEF w

LEMMA AppTop ==
    ASSUME TypeOK, NEW t \in Threads, stack[t] # <<>>, ~Own(stack[t])
    PROVE  /\ AppCalls[t] # <<>> /\ Untraced!Top(t) = Seen(Top(t))
           /\ Untraced!Below(t) = View(Below(t))
           /\ ~Own(Below(t)) /\ Top(t).so # OwnSo
<1>1. /\ Below(t) \in Seq(CallFrame) /\ Top(t) \in CallFrame
      /\ stack[t] = Append(Below(t), Top(t))
  BY TopOfStack
<1>2. ~Own(Below(t)) /\ Top(t).so # OwnSo
  BY <1>1, ViewAppend
<1>3. AppCalls[t] = Append(View(Below(t)), Seen(Top(t)))
  <2>1. AppCalls[t] = View(stack[t])
    BY DEF AppCalls
  <2>2. QED
    BY <1>1, <2>1, ViewAppend
<1>4. View(Below(t)) \in Seq(SeenCall) /\ Seen(Top(t)) \in SeenCall
  BY <1>1, <1>2, ViewPlain, SeenFacts
<1>5. QED
  BY <1>2, <1>3, <1>4, FrontAndLast DEF Untraced!Top, Untraced!Below

------------------------------------------------------------------------------
(* What a step means to the application.                                    *)

Unseen == UNCHANGED <<AppCalls, AppExc>>

LEMMA OthersStayNested ==
    ASSUME NInv, IInv', NEW t \in Threads,
           Nested(stack'[t]), exc'[t] => Expected(stack'[t]),
           \A u \in Threads \ {t} : stack'[u] = stack[u] /\ exc'[u] = exc[u]
    PROVE  NInv'
<1>1. ASSUME NEW u \in Threads
      PROVE  Nested(stack'[u]) /\ (exc'[u] => Expected(stack'[u]))
  BY DEF NInv
<1>2. QED
  BY <1>1 DEF NInv

\* One thread gets a new stack, and perhaps another state of its exception.
LEMMA Mapping ==
    ASSUME TypeOK, NEW t \in Threads, NEW s, NEW e \in BOOLEAN,
           stack' = [stack EXCEPT ![t] = s], exc' = [exc EXCEPT ![t] = e]
    PROVE  /\ stack'[t] = s /\ exc'[t] = e
           /\ \A u \in Threads \ {t} : stack'[u] = stack[u] /\ exc'[u] = exc[u]
           /\ Untraced!Becomes(t, View(s))
           /\ AppExc' = [AppExc EXCEPT ![t] = e /\ ~Own(s)]
           /\ AppCalls[t] = View(stack[t]) /\ AppExc[t] = (exc[t] /\ ~Own(stack[t]))
           /\ View(s) = View(stack[t]) /\ (e /\ ~Own(s) <=> AppExc[t]) => Unseen
           /\ (e /\ ~Own(s) <=> AppExc[t]) => AppExc' = AppExc
<1>1. /\ stack'[t] = s /\ exc'[t] = e
      /\ \A u \in Threads \ {t} : stack'[u] = stack[u] /\ exc'[u] = exc[u]
  BY DEF TypeOK
<1>2. AppCalls' = [AppCalls EXCEPT ![t] = View(s)]
  <2>1. AppCalls' = [u \in Threads |-> View(stack'[u])]
    BY DEF AppCalls, View, Visible
  <2>2. [AppCalls EXCEPT ![t] = View(s)] =
           [u \in Threads |-> IF u = t THEN View(s) ELSE View(stack[u])]
    BY DEF AppCalls
  <2>3. ASSUME NEW u \in Threads
        PROVE  View(stack'[u]) = IF u = t THEN View(s) ELSE View(stack[u])
    BY <1>1
  <2>4. QED
    BY <2>1, <2>2, <2>3
<1>3. AppExc' = [AppExc EXCEPT ![t] = e /\ ~Own(s)]
  <2>1. AppExc' = [u \in Threads |-> exc'[u] /\ ~Own(stack'[u])]
    BY DEF AppExc
  <2>2. [AppExc EXCEPT ![t] = e /\ ~Own(s)] =
           [u \in Threads |-> IF u = t THEN e /\ ~Own(s) ELSE exc[u] /\ ~Own(stack[u])]
    BY DEF AppExc
  <2>3. ASSUME NEW u \in Threads
        PROVE  (exc'[u] /\ ~Own(stack'[u])) =
                  (IF u = t THEN e /\ ~Own(s) ELSE exc[u] /\ ~Own(stack[u]))
    BY <1>1
  <2>4. QED
    BY <2>1, <2>2, <2>3
<1>4. /\ AppCalls[t] = View(stack[t]) /\ AppExc[t] = (exc[t] /\ ~Own(stack[t]))
      /\ AppExc[t] \in BOOLEAN
  BY DEF AppCalls, AppExc
<1>5. AppExc = [AppExc EXCEPT ![t] = AppExc[t]] /\ AppCalls = [AppCalls EXCEPT ![t] = AppCalls[t]]
  BY DEF AppExc, AppCalls
<1>6. (e /\ ~Own(s) <=> AppExc[t]) => AppExc' = AppExc
  <2>1. (e /\ ~Own(s) <=> AppExc[t]) => (e /\ ~Own(s)) = AppExc[t]
    BY <1>4, Zenon
  <2>2. QED
    BY <1>3, <1>5, <2>1, Zenon
<1>7. View(s) = View(stack[t]) => AppCalls' = AppCalls
  BY <1>2, <1>4, <1>5, Zenon
<1>8. QED
  BY <1>1, <1>2, <1>3, <1>4, <1>6, <1>7, Zenon DEF Untraced!Becomes, Unseen

\* What is known of the innermost call that has something to do.
LEMMA TopFacts ==
    ASSUME NInv, NEW t \in Threads, stack[t] # <<>>
    PROVE  /\ Top(t) \in CallFrame /\ Sound(Top(t))
           /\ Top(t).so = OwnSo => ~Top(t).threw
           /\ Top(t).threw => exc[t]
           /\ exc[t] => Top(t).threw \/ (Top(t).todo # <<>> /\ Head(Top(t).todo) = "java")
           /\ Top(t).todo # <<>> /\ Head(Top(t).todo) \in {"orig", "own", "clear"} => ~exc[t]
           /\ Top(t).todo # <<>> /\ Head(Top(t).todo) = "java" => ~Top(t).threw
<1>1. Top(t) \in CallFrame /\ Len(stack[t]) \in DOMAIN stack[t]
  BY TopCall DEF NInv, IInv
<1>2. Sound(Top(t)) /\ (Top(t).threw => exc[t])
  BY <1>1 DEF NInv, IInv, AllSound, Pending, Top
<1>3. Top(t).so = OwnSo => ~Top(t).threw
  BY <1>1 DEF NInv, Nested, Top
<1>4. exc[t] => Top(t).threw \/ (Top(t).todo # <<>> /\ Head(Top(t).todo) = "java")
  BY DEF NInv, Expected, Top
<1>5. Top(t).todo # <<>> => (Top(t).threw => Head(Top(t).todo) = "line")
  BY NotThrown DEF NInv
<1>6. QED
  BY <1>1, <1>2, <1>3, <1>4, <1>5

\* The innermost call becomes another one, of the same library.
LEMMA NewTop ==
    ASSUME NInv, NEW t \in Threads, stack[t] # <<>>, NEW call \in CallFrame,
           call.so = Top(t).so, call.so = OwnSo => ~call.threw
    PROVE  LET s == WithTop(t, call)
           IN  /\ s \in Seq(CallFrame) /\ Nested(s)
               /\ s # <<>> /\ s[Len(s)] = call
               /\ Own(s) <=> Own(stack[t])
               /\ Own(s) => View(s) = View(stack[t])
               /\ ~Own(s) => View(s) = Append(Untraced!Below(t), Seen(call))
               /\ Seen(call) = Seen(Top(t)) => View(s) = View(stack[t])
<1> DEFINE s == WithTop(t, call)
<1>1. /\ Below(t) \in Seq(CallFrame) /\ Top(t) \in CallFrame
      /\ stack[t] = Append(Below(t), Top(t))
  BY TopOfStack DEF NInv, IInv
<1>2. s = Append(Below(t), call)
  BY DEF WithTop
<1>3. s \in Seq(CallFrame)
  BY <1>1, <1>2, AppendProperties
<1>4. Nested(s) /\ s # <<>> /\ s[Len(s)] = call
  <2>1. Nested(stack[t])
    BY DEF NInv
  <2>2. Nested(Below(t)) /\ (Below(t) # <<>> => Waits(Below(t)[Len(Below(t))], Top(t).so))
    BY <1>1, <2>1, NestedAppend
  <2>3. QED
    BY <1>1, <1>2, <2>2, NestedAppend
<1>5. Own(s) <=> Own(stack[t])
  BY <1>1, <1>2, ViewAppend
<1>6. Own(s) => View(s) = View(stack[t])
  BY <1>1, <1>2, <1>5, ViewAppend
<1>7. ~Own(s) => /\ View(s) = Append(View(Below(t)), Seen(call))
                 /\ View(stack[t]) = Append(View(Below(t)), Seen(Top(t)))
                 /\ Untraced!Below(t) = View(Below(t))
  <2>1. ~Own(s) => View(s) = Append(View(Below(t)), Seen(call))
    BY <1>1, <1>2, ViewAppend
  <2>2. ~Own(stack[t]) => View(stack[t]) = Append(View(Below(t)), Seen(Top(t)))
    BY <1>1, ViewAppend
  <2>3. ~Own(stack[t]) => Untraced!Below(t) = View(Below(t))
    BY AppTop DEF NInv, IInv
  <2>4. QED
    BY <1>5, <2>1, <2>2, <2>3
<1> HIDE DEF s
<1>8. QED
  BY <1>3, <1>4, <1>5, <1>6, <1>7 DEF s

\* A call on top of calls that wait for it.
LEMMA NewInnermost ==
    ASSUME NEW t \in Threads, NEW below \in Seq(CallFrame), Nested(below),
           NEW f \in Funs, NEW so \in Sos, EnterOn(t, below, f, so),
           below # <<>> => Waits(below[Len(below)], so)
    PROVE  \E s : /\ stack' = [stack EXCEPT ![t] = s]
                  /\ Nested(s)
                  /\ Own(s) <=> Own(below) \/ so = OwnSo
                  /\ Own(s) => View(s) = View(below)
                  /\ ~Own(s) => \E c \in Untraced!New(f, so) : View(s) = Append(View(below), c)
<1>1. PICK steps : /\ \/ steps = StepsOf(f, isLister(so))
                      \/ steps = <<>> /\ f = "GetStringUTFChars" /\ isLister(so)
                   /\ stack' = [stack EXCEPT ![t] = Append(below, Frame(f, so, steps))]
  BY DEF EnterOn
<1> DEFINE call == Frame(f, so, steps)
           s == Append(below, call)
<1>2. call \in CallFrame /\ Sound(call) /\ ~call.threw
  BY <1>1, NewCall
<1>3. /\ call.fun = f /\ call.so = so /\ call.todo = steps /\ call.origs = 0
      /\ call.threw = FALSE
  BY DEF Frame
<1>4. Seen(call) \in Untraced!New(f, so)
  <2>1. Stage(call) = "called" \/ (Stage(call) = "returned" /\ f = "GetStringUTFChars")
    <3>1. steps = <<>> => f = "GetStringUTFChars"
      <4>1. CASE steps = StepsOf(f, isLister(so))
        <5>1. Balanced(call)
          BY <1>2 DEF Sound
        <5>2. steps = <<>> => ~OneOrig(steps)
          BY DEF OneOrig
        <5>3. QED
          BY <1>3, <5>1, <5>2 DEF Balanced
      <4>2. QED
        BY <1>1, <4>1
    <3>2. QED
      BY <1>3, <3>1 DEF Stage
  <2>2. Seen(call) = [fun |-> f, so |-> so, at |-> Stage(call), threw |-> FALSE]
    BY <1>3 DEF Seen
  <2> HIDE DEF call
  <2>3. Stage(call) \in {"called"} \cup IF f = "GetStringUTFChars" THEN {"returned"} ELSE {}
    BY <2>1
  <2>4. QED
    BY <2>2, <2>3 DEF Untraced!New
<1> HIDE DEF call
<1>5. Nested(s)
  BY <1>2, <1>3, NestedAppend
<1>6. /\ Own(s) <=> Own(below) \/ so = OwnSo
      /\ Own(s) => View(s) = View(below)
      /\ ~Own(s) => View(s) = Append(View(below), Seen(call))
  BY <1>2, <1>3, ViewAppend
<1>7. stack' = [stack EXCEPT ![t] = s]
  BY <1>1 DEF call
<1> HIDE DEF s
<1>8. QED
  BY <1>4, <1>5, <1>6, <1>7

------------------------------------------------------------------------------
(* Every step is one of an application that nobody traces, or is not seen.   *)

Faithful == [Untraced!Next]_<<AppCalls, AppExc>>

\* The end of a line, or of a description.
LEMMA PassUnseen ==
    ASSUME NInv, IInv', NEW t \in Threads, ClearException(t) \/ EndLine(t)
    PROVE  NInv' /\ Unseen
<1> DEFINE call == [Top(t) EXCEPT !.todo = Rest(t)]
           s == WithTop(t, call)
<1>1. /\ stack[t] # <<>> /\ Top(t).todo # <<>> /\ Head(Top(t).todo) \in {"clear", "line"}
      /\ stack' = [stack EXCEPT ![t] = s]
  BY DEF ClearException, EndLine, AtStep
<1>2. TypeOK /\ Top(t) \in CallFrame /\ Sound(Top(t))
  BY <1>1, TopFacts DEF NInv, IInv
<1>3. /\ call \in CallFrame /\ call.threw = Top(t).threw
      /\ call.so = Top(t).so
  <2>1. call \in CallFrame /\ call.threw = Top(t).threw
    BY <1>1, <1>2, StepDone DEF Rest
  <2>2. call.so = Top(t).so
    BY <1>2 DEF CallFrame
  <2>3. QED
    BY <2>1, <2>2
<1>4. Seen(call) = Seen(Top(t))
  BY <1>1, <1>2, StageStays DEF Rest
<1> HIDE DEF call
<1>5. /\ Nested(s) /\ s # <<>> /\ s[Len(s)] = call
      /\ (Own(s) <=> Own(stack[t])) /\ View(s) = View(stack[t])
  BY <1>1, <1>3, <1>4, TopFacts, NewTop
<1> HIDE DEF s
<1>6. exc[t] \in BOOLEAN /\ exc' = [exc EXCEPT ![t] = exc[t]] /\ (exc[t] => call.threw)
  <2>1. exc[t] \in BOOLEAN /\ exc = [exc EXCEPT ![t] = exc[t]]
    BY <1>2 DEF TypeOK
  <2>2. exc[t] => Top(t).threw
    BY <1>1, TopFacts
  <2>3. CASE EndLine(t)
    BY <1>3, <2>1, <2>2, <2>3 DEF EndLine
  <2>4. CASE ClearException(t)
    <3>1. ~exc[t]
      BY <1>1, <2>4, TopFacts DEF ClearException, AtStep
    <3>2. exc[t] = FALSE
      BY <2>1, <3>1
    <3>3. QED
      BY <2>1, <2>4, <3>1, <3>2 DEF ClearException
  <2>5. QED
    BY <2>3, <2>4
<1>7. /\ stack'[t] = s /\ exc'[t] = exc[t]
      /\ \A u \in Threads \ {t} : stack'[u] = stack[u] /\ exc'[u] = exc[u]
      /\ AppExc[t] = (exc[t] /\ ~Own(stack[t]))
      /\ (exc[t] /\ ~Own(s) <=> AppExc[t]) => Unseen
  BY <1>1, <1>2, <1>5, <1>6, Mapping
<1>8. Unseen
  BY <1>5, <1>7
<1>9. exc'[t] => Expected(stack'[t])
  BY <1>5, <1>6, <1>7 DEF Expected
<1>10. NInv'
  BY <1>5, <1>7, <1>9, OthersStayNested
<1>11. QED
  BY <1>8, <1>10

\* The original answers.
LEMMA AnswerSeen ==
    ASSUME NInv, IInv', NEW t \in Threads,
           OrigReturns(t) \/ \E throws \in BOOLEAN : OrigReturnsNull(t, throws)
    PROVE  NInv' /\ Faithful
<1>1. stack[t] # <<>> /\ Top(t).todo # <<>> /\ Head(Top(t).todo) = "java"
  BY DEF OrigReturns, OrigReturnsNull, AtStep
<1>2. TypeOK /\ Top(t) \in CallFrame /\ Sound(Top(t)) /\ ~Top(t).threw
  BY <1>1, TopFacts DEF NInv, IInv
<1>3. exc \in [Threads -> BOOLEAN]
  BY <1>2 DEF TypeOK
<1>4. PICK call \in CallFrame, throws \in BOOLEAN :
        /\ call.fun = Top(t).fun /\ call.so = Top(t).so /\ call.threw = throws
        /\ Stage(call) = "returned"
        /\ stack' = [stack EXCEPT ![t] = WithTop(t, call)]
        /\ exc' = [exc EXCEPT ![t] = throws]
        /\ exc[t] => throws
        /\ throws => call.so # OwnSo
  <2>1. CASE OrigReturns(t)
    <3> DEFINE call == [Top(t) EXCEPT !.todo = Rest(t)]
    <3>1. call \in CallFrame /\ call.threw = Top(t).threw
      BY <1>1, <1>2, StepDone DEF Rest
    <3>2. /\ call.fun = Top(t).fun /\ call.so = Top(t).so
          /\ call.origs = Top(t).origs /\ call.todo = Tail(Top(t).todo)
      BY <1>2 DEF CallFrame, Rest
    <3>3. stack' = [stack EXCEPT ![t] = WithTop(t, call)]
      BY <2>1 DEF OrigReturns
    <3> HIDE DEF call
    <3>4. Stage(call) = "returned"
      BY <1>1, <1>2, <3>1, <3>2, StageAfter
    <3>5. exc[t] = FALSE /\ exc' = exc
      BY <1>3, <2>1 DEF OrigReturns
    <3>6. exc' = [exc EXCEPT ![t] = FALSE] /\ call.threw = FALSE
      BY <1>2, <1>3, <3>1, <3>5 DEF CallFrame
    <3>7. QED
      BY <3>1, <3>2, <3>3, <3>4, <3>5, <3>6
  <2>2. CASE \E throws \in BOOLEAN : OrigReturnsNull(t, throws)
    <3>1. PICK throws \in BOOLEAN : OrigReturnsNull(t, throws)
      BY <2>2
    <3> DEFINE call == [Top(t) EXCEPT !.todo = AfterNull(Top(t).fun, Rest(t)),
                                      !.threw = throws]
    <3>2. call \in CallFrame /\ call.threw = throws
      BY <1>1, <1>2, AnsweredNull DEF Rest
    <3>3. /\ call.fun = Top(t).fun /\ call.so = Top(t).so
          /\ call.origs = Top(t).origs /\ call.todo = AfterNull(Top(t).fun, Rest(t))
      BY <1>2 DEF CallFrame
    <3>4. /\ stack' = [stack EXCEPT ![t] = WithTop(t, call)] /\ call.so # OwnSo
          /\ exc' = [exc EXCEPT ![t] = throws] /\ (exc[t] => throws)
      BY <3>1, <3>3 DEF OrigReturnsNull
    <3> HIDE DEF call
    <3>5. call.todo \in {<<>>, <<"line">>}
      BY <3>3 DEF AfterNull
    <3>6. Stage(call) = "returned"
      BY <1>1, <1>2, <3>2, <3>3, <3>5, StageAfter
    <3>7. QED
      BY <3>2, <3>3, <3>4, <3>6
  <2>3. QED
    BY <2>1, <2>2
<1> DEFINE s == WithTop(t, call)
<1>5. /\ Nested(s) /\ s # <<>> /\ s[Len(s)] = call
      /\ Own(s) <=> Own(stack[t])
      /\ Own(s) => View(s) = View(stack[t])
      /\ ~Own(s) => View(s) = Append(Untraced!Below(t), Seen(call))
  BY <1>1, <1>4, NewTop
<1>6. stack' = [stack EXCEPT ![t] = s]
  BY <1>4
<1> HIDE DEF s
<1>7. /\ stack'[t] = s /\ exc'[t] = throws
      /\ \A u \in Threads \ {t} : stack'[u] = stack[u] /\ exc'[u] = exc[u]
      /\ Untraced!Becomes(t, View(s))
      /\ AppExc' = [AppExc EXCEPT ![t] = throws /\ ~Own(s)]
      /\ AppExc[t] = (exc[t] /\ ~Own(stack[t]))
      /\ View(s) = View(stack[t]) /\ (throws /\ ~Own(s) <=> AppExc[t]) => Unseen
  <2>1. TypeOK /\ throws \in BOOLEAN /\ exc' = [exc EXCEPT ![t] = throws]
    BY <1>4 DEF NInv, IInv
  <2>2. QED
    BY <1>6, <2>1, Mapping
<1>8. exc'[t] => Expected(stack'[t])
  BY <1>4, <1>5, <1>7 DEF Expected
<1>9. NInv'
  BY <1>5, <1>7, <1>8, OthersStayNested
<1>10. CASE Own(stack[t])
  BY <1>5, <1>7, <1>9, <1>10 DEF Faithful, Unseen
<1>11. CASE ~Own(stack[t])
  <2>1. /\ AppCalls[t] # <<>> /\ Untraced!Top(t) = Seen(Top(t))
    BY <1>1, <1>2, <1>11, AppTop
  <2>2. Seen(Top(t)) \in SeenCall /\ Seen(Top(t)).at = "running"
    BY <1>1, <1>2, SeenFacts, StageOf
  <2>3. Seen(call) = [Seen(Top(t)) EXCEPT !.at = "returned", !.threw = throws]
    <3>1. /\ Seen(call) \in SeenCall /\ Seen(call).fun = Seen(Top(t)).fun
          /\ Seen(call).so = Seen(Top(t)).so /\ Seen(call).at = "returned"
          /\ Seen(call).threw = throws
      BY <1>2, <1>4, SeenFacts
    <3>2. QED
      BY <2>2, <3>1 DEF SeenCall
  <2>4. Untraced!Is(t, "running")
    BY <2>1, <2>2 DEF Untraced!Is
  <2>5. Untraced!Becomes(t, Append(Untraced!Below(t),
           [Untraced!Top(t) EXCEPT !.at = "returned", !.threw = throws]))
    BY <1>5, <1>7, <1>11, <2>1, <2>3
  <2>6. (AppExc[t] => throws) /\ AppExc' = [AppExc EXCEPT ![t] = throws]
    <3>1. (throws /\ ~Own(s)) = throws
      BY <1>5, <1>11
    <3>2. QED
      BY <1>4, <1>7, <3>1
  <2>7. Untraced!Answer(t, throws)
    BY <2>4, <2>5, <2>6 DEF Untraced!Answer
  <2>8. QED
    BY <1>9, <2>7 DEF Faithful, Untraced!Next
<1>12. QED
  BY <1>10, <1>11

\* The original runs, and Java code in it makes a call perhaps.
LEMMA RunSeen ==
    ASSUME NInv, IInv', NEW t \in Threads, RunOrig(t)
    PROVE  NInv' /\ Faithful
<1> DEFINE call == [Top(t) EXCEPT !.todo = <<"java">> \o Rest(t), !.origs = Top(t).origs + 1]
           running == WithTop(t, call)
<1>1. stack[t] # <<>> /\ Top(t).todo # <<>> /\ Head(Top(t).todo) = "orig"
  BY DEF RunOrig, AtStep
<1>2. /\ TypeOK /\ Top(t) \in CallFrame /\ Sound(Top(t)) /\ ~exc[t] /\ ~Top(t).threw
  BY <1>1, TopFacts DEF NInv, IInv
<1>3. call \in CallFrame /\ Sound(call) /\ ~call.threw
  BY <1>1, <1>2, OrigCalled DEF Rest
<1>4. call.fun = Top(t).fun /\ call.so = Top(t).so /\ call.todo = <<"java">> \o Rest(t)
  BY <1>2 DEF CallFrame
<1>5. /\ \/ stack' = [stack EXCEPT ![t] = running]
         \/ /\ Top(t).fun \in InvokeFuns
            /\ \E f \in Funs, so \in AppSos \cup SysSos : EnterOn(t, running, f, so)
      /\ exc' = exc
  BY DEF RunOrig
<1> HIDE DEF call
<1>6. call.todo # <<>> /\ Head(call.todo) = "java"
  <2>1. Rest(t) \in Seq(Steps) /\ "java" \in Steps
    BY <1>1, <1>2, RestOfSteps DEF Rest, CallFrame, Steps
  <2>2. call.todo \in Seq(Steps) /\ Len(call.todo) = Len(Rest(t)) + 1 /\ call.todo[1] = "java"
    BY <1>4, <2>1, StepBefore
  <2>3. Len(call.todo) > 0
    BY <2>1, <2>2, LenProperties
  <2>4. call.todo # <<>>
    BY <2>3, EmptySeq
  <2>5. QED
    BY <2>2, <2>4
<1>7. /\ running \in Seq(CallFrame) /\ Nested(running)
      /\ running # <<>> /\ running[Len(running)] = call
      /\ Own(running) <=> Own(stack[t])
      /\ Own(running) => View(running) = View(stack[t])
      /\ ~Own(running) => View(running) = Append(Untraced!Below(t), Seen(call))
  BY <1>1, <1>3, <1>4, NewTop
<1> HIDE DEF running
<1>8. PICK s : /\ stack' = [stack EXCEPT ![t] = s]
               /\ Nested(s)
               /\ Own(s) <=> Own(stack[t])
               /\ Own(s) => View(s) = View(stack[t])
               /\ ~Own(s) => \/ View(s) = View(running)
                             \/ /\ Top(t).fun \in InvokeFuns
                                /\ \E f \in Funs, so \in AppSos \cup SysSos :
                                      \E c \in Untraced!New(f, so) :
                                         View(s) = Append(View(running), c)
  <2>1. CASE stack' = [stack EXCEPT ![t] = running]
    BY <1>7, <2>1
  <2>2. CASE /\ Top(t).fun \in InvokeFuns
             /\ \E f \in Funs, so \in AppSos \cup SysSos : EnterOn(t, running, f, so)
    <3>1. PICK f \in Funs, so \in AppSos \cup SysSos : EnterOn(t, running, f, so)
      BY <2>2
    <3>2. so \in Sos /\ so # OwnSo
      BY LibrariesAssumption DEF Sos
    <3>3. Waits(call, so)
      BY <1>6, <3>2 DEF Waits
    <3>4. \E s : /\ stack' = [stack EXCEPT ![t] = s]
                 /\ Nested(s)
                 /\ Own(s) <=> Own(running) \/ so = OwnSo
                 /\ Own(s) => View(s) = View(running)
                 /\ ~Own(s) => \E c \in Untraced!New(f, so) : View(s) = Append(View(running), c)
      BY <1>7, <3>1, <3>2, <3>3, NewInnermost
    <3>5. QED
      BY <1>7, <2>2, <3>2, <3>4
  <2>3. QED
    BY <1>5, <2>1, <2>2
<1>9. exc[t] = FALSE /\ exc' = [exc EXCEPT ![t] = FALSE]
  BY <1>2, <1>5 DEF TypeOK
<1>10. /\ stack'[t] = s /\ exc'[t] = FALSE
       /\ \A u \in Threads \ {t} : stack'[u] = stack[u] /\ exc'[u] = exc[u]
       /\ Untraced!Becomes(t, View(s))
       /\ AppExc[t] = (exc[t] /\ ~Own(stack[t]))
       /\ View(s) = View(stack[t]) /\ (FALSE /\ ~Own(s) <=> AppExc[t]) => Unseen
       /\ (FALSE /\ ~Own(s) <=> AppExc[t]) => AppExc' = AppExc
  BY <1>2, <1>8, <1>9, Mapping
<1>11. NInv'
  BY <1>8, <1>10, OthersStayNested
<1>12. (FALSE /\ ~Own(s) <=> AppExc[t]) /\ AppExc' = AppExc
  BY <1>9, <1>10
<1>13. CASE Own(stack[t])
  BY <1>8, <1>10, <1>11, <1>12, <1>13 DEF Faithful, Unseen
<1>14. CASE ~Own(stack[t])
  <2>1. AppCalls[t] # <<>> /\ Untraced!Top(t) = Seen(Top(t))
    BY <1>1, <1>2, <1>14, AppTop
  <2>2. Seen(Top(t)) \in SeenCall /\ Seen(Top(t)).at = "called" /\ Seen(Top(t)).fun = Top(t).fun
    BY <1>1, <1>2, SeenFacts, StageOf
  <2>3. Seen(call) = [Seen(Top(t)) EXCEPT !.at = "running"]
    <3>1. /\ Seen(call) \in SeenCall /\ Seen(call).fun = Seen(Top(t)).fun
          /\ Seen(call).so = Seen(Top(t)).so /\ Seen(call).at = "running"
          /\ Seen(call).threw = Seen(Top(t)).threw
      <4>1. call.threw = Top(t).threw
        BY <1>2, <1>3 DEF CallFrame
      <4>2. QED
        BY <1>2, <1>3, <1>4, <1>6, <4>1, SeenFacts, StageOf
    <3>2. QED
      BY <2>2, <3>1 DEF SeenCall
  <2>4. Untraced!Is(t, "called")
    BY <2>1, <2>2 DEF Untraced!Is
  <2> DEFINE seen == Append(Untraced!Below(t), [Untraced!Top(t) EXCEPT !.at = "running"])
  <2>5. View(running) = seen
    BY <1>7, <1>14, <2>1, <2>3
  <2> HIDE DEF seen
  <2>6. \/ Untraced!Becomes(t, seen)
        \/ Untraced!Top(t).fun \in InvokeFuns /\ Untraced!Make(t, seen)
    <3>1. CASE View(s) = View(running)
      BY <1>10, <2>5, <3>1
    <3>2. CASE /\ Top(t).fun \in InvokeFuns
               /\ \E f \in Funs, so \in AppSos \cup SysSos :
                     \E c \in Untraced!New(f, so) : View(s) = Append(View(running), c)
      BY <1>10, <2>1, <2>2, <2>5, <3>2 DEF Untraced!Make
    <3>3. QED
      BY <1>8, <1>14, <3>1, <3>2
  <2>7. Untraced!Run(t)
    BY <1>12, <2>4, <2>6 DEF Untraced!Run, seen
  <2>8. QED
    BY <1>11, <2>7 DEF Faithful, Untraced!Next
<1>15. QED
  BY <1>13, <1>14

\* A description: the tracer calls, or does not since the function is not hooked.
LEMMA OwnCallUnseen ==
    ASSUME NInv, IInv', NEW t \in Threads, NEW f \in OwnFuns, OwnCall(t, f)
    PROVE  NInv' /\ Unseen
<1> DEFINE call == [Top(t) EXCEPT !.todo = <<"clear">> \o Rest(t)]
           described == WithTop(t, call)
<1>1. stack[t] # <<>> /\ Top(t).todo # <<>> /\ Head(Top(t).todo) = "own"
  BY DEF OwnCall, AtStep
<1>2. TypeOK /\ Top(t) \in CallFrame /\ Sound(Top(t)) /\ ~exc[t] /\ ~Top(t).threw
  BY <1>1, TopFacts DEF NInv, IInv
<1>3. call \in CallFrame /\ Sound(call) /\ ~call.threw
  BY <1>1, <1>2, Described DEF Rest
<1>4. /\ call.fun = Top(t).fun /\ call.so = Top(t).so /\ call.origs = Top(t).origs
      /\ call.todo = <<"clear">> \o Rest(t)
  BY <1>2 DEF CallFrame
<1>5. /\ \/ stack' = [stack EXCEPT ![t] = described]
         \/ EnterOn(t, described, f, OwnSo)
      /\ exc' = exc
  BY DEF OwnCall
<1> HIDE DEF call
<1>6. call.todo # <<>> /\ Head(call.todo) = "clear"
  <2>1. Rest(t) \in Seq(Steps) /\ "clear" \in Steps
    BY <1>1, <1>2, RestOfSteps DEF Rest, CallFrame, Steps
  <2>2. call.todo \in Seq(Steps) /\ Len(call.todo) = Len(Rest(t)) + 1 /\ call.todo[1] = "clear"
    BY <1>4, <2>1, StepBefore
  <2>3. Len(call.todo) > 0
    BY <2>1, <2>2, LenProperties
  <2>4. call.todo # <<>>
    BY <2>3, EmptySeq
  <2>5. QED
    BY <2>2, <2>4
<1>7. Seen(call) = Seen(Top(t))
  <2>1. Stage(call) = Stage(Top(t))
    BY <1>1, <1>2, <1>3, <1>4, <1>6, StageOf
  <2>2. call.threw = Top(t).threw
    BY <1>2, <1>3 DEF CallFrame
  <2>3. QED
    BY <1>4, <2>1, <2>2 DEF Seen
<1>8. /\ described \in Seq(CallFrame) /\ Nested(described)
      /\ described # <<>> /\ described[Len(described)] = call
      /\ Own(described) <=> Own(stack[t])
      /\ View(described) = View(stack[t])
  BY <1>1, <1>3, <1>4, <1>7, NewTop
<1> HIDE DEF described
<1>9. PICK s : /\ stack' = [stack EXCEPT ![t] = s]
               /\ Nested(s) /\ View(s) = View(stack[t])
  <2>1. CASE stack' = [stack EXCEPT ![t] = described]
    BY <1>8, <2>1
  <2>2. CASE EnterOn(t, described, f, OwnSo)
    <3>1. OwnSo \in Sos /\ f \in Funs
      BY DEF Sos, OwnFuns, Funs, InvokeFuns
    <3>2. Waits(call, OwnSo)
      BY <1>6 DEF Waits
    <3>3. \E s : /\ stack' = [stack EXCEPT ![t] = s]
                 /\ Nested(s)
                 /\ Own(s) <=> Own(described) \/ OwnSo = OwnSo
                 /\ Own(s) => View(s) = View(described)
      BY <1>8, <2>2, <3>1, <3>2, NewInnermost
    <3>4. QED
      BY <1>8, <3>3
  <2>3. QED
    BY <1>5, <2>1, <2>2
<1>10. exc[t] = FALSE /\ exc' = [exc EXCEPT ![t] = FALSE]
  BY <1>2, <1>5 DEF TypeOK
<1>11. /\ stack'[t] = s /\ exc'[t] = FALSE
       /\ \A u \in Threads \ {t} : stack'[u] = stack[u] /\ exc'[u] = exc[u]
       /\ AppExc[t] = (exc[t] /\ ~Own(stack[t]))
       /\ View(s) = View(stack[t]) /\ (FALSE /\ ~Own(s) <=> AppExc[t]) => Unseen
  BY <1>2, <1>9, <1>10, Mapping
<1>12. NInv'
  BY <1>9, <1>11, OthersStayNested
<1>13. QED
  BY <1>9, <1>10, <1>11, <1>12

LEMMA AppCallSeen ==
    ASSUME NInv, IInv', NEW t \in Threads, NEW f \in Funs, NEW so \in AppSos \cup SysSos,
           AppCall(t, f, so)
    PROVE  NInv' /\ Faithful
<1>1. /\ stack[t] = <<>> /\ ~exc[t] /\ exc' = exc /\ EnterOn(t, <<>>, f, so)
      /\ TypeOK
  BY DEF AppCall, NInv, IInv
<1>2. so \in Sos /\ so # OwnSo /\ <<>> \in Seq(CallFrame)
  BY LibrariesAssumption DEF Sos
<1>3. PICK s : /\ stack' = [stack EXCEPT ![t] = s]
               /\ Nested(s)
               /\ ~Own(s)
               /\ \E c \in Untraced!New(f, so) : View(s) = Append(<<>>, c)
  <2>1. PICK none \in Seq(CallFrame) : none = <<>>
    BY <1>2
  <2>2. Nested(none) /\ EnterOn(t, none, f, so) /\ so \in Sos
    BY <1>1, <1>2, <2>1, ViewEmpty
  <2>3. none # <<>> => Waits(none[Len(none)], so)
    BY <2>1
  <2>4. \E s : /\ stack' = [stack EXCEPT ![t] = s]
               /\ Nested(s)
               /\ Own(s) <=> Own(none) \/ so = OwnSo
               /\ Own(s) => View(s) = View(none)
               /\ ~Own(s) => \E c \in Untraced!New(f, so) : View(s) = Append(View(none), c)
    BY <2>2, <2>3, NewInnermost
  <2>5. ~Own(none) /\ View(none) = <<>>
    BY <2>1, ViewEmpty
  <2>6. QED
    BY <1>2, <2>4, <2>5
<1>4. exc[t] = FALSE /\ exc' = [exc EXCEPT ![t] = FALSE]
  BY <1>1 DEF TypeOK
<1>5. /\ stack'[t] = s /\ exc'[t] = FALSE
      /\ \A u \in Threads \ {t} : stack'[u] = stack[u] /\ exc'[u] = exc[u]
      /\ Untraced!Becomes(t, View(s))
      /\ AppCalls[t] = View(stack[t]) /\ AppExc[t] = (exc[t] /\ ~Own(stack[t]))
      /\ (FALSE /\ ~Own(s) <=> AppExc[t]) => AppExc' = AppExc
  BY <1>1, <1>3, <1>4, Mapping
<1>6. NInv'
  BY <1>3, <1>5, OthersStayNested
<1>7. AppCalls[t] = <<>> /\ ~AppExc[t] /\ AppExc' = AppExc
  BY <1>1, <1>4, <1>5, ViewEmpty
<1>8. Untraced!Make(t, <<>>)
  BY <1>3, <1>5 DEF Untraced!Make
<1>9. Untraced!Call(t)
  BY <1>7, <1>8 DEF Untraced!Call
<1>10. QED
  BY <1>6, <1>9 DEF Faithful, Untraced!Next

\* A call returns: below it is one that waits for it.
LEMMA ReturnSeen ==
    ASSUME NInv, IInv', NEW t \in Threads, ReturnCall(t)
    PROVE  NInv' /\ Faithful
<1> DEFINE s == Below(t)
<1>1. /\ stack[t] # <<>> /\ Top(t).todo = <<>> /\ stack' = [stack EXCEPT ![t] = s] /\ exc' = exc
      /\ TypeOK
  BY DEF ReturnCall, NInv, IInv
<1>2. s \in Seq(CallFrame) /\ Top(t) \in CallFrame /\ stack[t] = Append(s, Top(t))
  BY <1>1, TopOfStack
<1> HIDE DEF s
<1>3. /\ Nested(s) /\ (s # <<>> => Waits(s[Len(s)], Top(t).so))
      /\ (Top(t).so = OwnSo => ~Top(t).threw)
  <2>1. Nested(stack[t])
    BY DEF NInv
  <2>2. QED
    BY <1>2, <2>1, NestedAppend
<1>4. Sound(Top(t)) /\ (Top(t).threw <=> exc[t])
  BY <1>1, TopFacts
<1>5. exc[t] \in BOOLEAN /\ exc' = [exc EXCEPT ![t] = exc[t]]
  BY <1>1 DEF TypeOK
<1>6. /\ stack'[t] = s /\ exc'[t] = exc[t]
      /\ \A u \in Threads \ {t} : stack'[u] = stack[u] /\ exc'[u] = exc[u]
      /\ Untraced!Becomes(t, View(s))
      /\ AppExc[t] = (exc[t] /\ ~Own(stack[t]))
      /\ View(s) = View(stack[t]) /\ (exc[t] /\ ~Own(s) <=> AppExc[t]) => Unseen
      /\ (exc[t] /\ ~Own(s) <=> AppExc[t]) => AppExc' = AppExc
  BY <1>1, <1>5, Mapping
<1>7. exc[t] => Expected(s)
  BY <1>3, <1>4 DEF Waits, Expected
<1>8. NInv'
  BY <1>3, <1>6, <1>7, OthersStayNested
<1>9. /\ Own(stack[t]) <=> Own(s) \/ Top(t).so = OwnSo
      /\ Own(stack[t]) => View(stack[t]) = View(s)
  BY <1>2, ViewAppend
<1>10. exc[t] /\ ~Own(s) <=> AppExc[t]
  BY <1>3, <1>4, <1>6, <1>9
<1>11. CASE Own(stack[t])
  BY <1>6, <1>8, <1>9, <1>10, <1>11 DEF Faithful, Unseen
<1>12. CASE ~Own(stack[t])
  <2>1. /\ AppCalls[t] # <<>> /\ Untraced!Top(t) = Seen(Top(t))
        /\ Untraced!Below(t) = View(s)
    BY <1>1, <1>12, AppTop DEF s
  <2>2. Seen(Top(t)).at = "returned" /\ Seen(Top(t)).threw = Top(t).threw
    BY <1>1, <1>2, <1>4, SeenFacts, StageOf
  <2>3. Untraced!Is(t, "returned") /\ Untraced!Becomes(t, Untraced!Below(t))
    BY <1>6, <2>1, <2>2 DEF Untraced!Is
  <2>4. AppExc[t] = Untraced!Top(t).threw
    <3>1. Top(t).threw \in BOOLEAN
      BY <1>2 DEF CallFrame
    <3>2. AppExc[t] \in BOOLEAN
      BY DEF AppExc
    <3>3. AppExc[t] <=> Top(t).threw
      BY <1>4, <1>6, <1>12
    <3>4. QED
      BY <2>1, <2>2, <3>1, <3>2, <3>3
  <2>5. Untraced!Return(t)
    BY <1>6, <1>10, <2>3, <2>4 DEF Untraced!Return
  <2>6. QED
    BY <1>8, <2>5 DEF Faithful, Untraced!Next
<1>13. QED
  BY <1>11, <1>12

\* What handles an exception is the application, or Java code that runs inside a
\* description, which the application does not see.
LEMMA HandleSeen ==
    ASSUME NInv, IInv', NEW t \in Threads, HandleException(t)
    PROVE  NInv' /\ Faithful
<1>1. /\ TypeOK /\ exc[t] /\ (stack[t] = <<>> \/ AtStep(t, "java"))
      /\ stack' = stack /\ exc' = [exc EXCEPT ![t] = FALSE]
  BY DEF HandleException, NInv, IInv
<1>2. stack' = [stack EXCEPT ![t] = stack[t]]
  BY <1>1 DEF TypeOK
<1>3. /\ stack'[t] = stack[t] /\ exc'[t] = FALSE
      /\ \A u \in Threads \ {t} : stack'[u] = stack[u] /\ exc'[u] = exc[u]
      /\ AppExc' = [AppExc EXCEPT ![t] = FALSE /\ ~Own(stack[t])]
      /\ AppCalls[t] = View(stack[t]) /\ AppExc[t] = (exc[t] /\ ~Own(stack[t]))
      /\ (FALSE /\ ~Own(stack[t]) <=> AppExc[t]) => Unseen
  BY <1>1, <1>2, Mapping
<1>4. NInv'
  <2>1. Nested(stack[t])
    BY DEF NInv
  <2>2. QED
    BY <1>3, <2>1, OthersStayNested
<1>5. CASE Own(stack[t])
  BY <1>3, <1>4, <1>5 DEF Faithful, Unseen
<1>6. CASE ~Own(stack[t])
  <2>1. AppCalls[t] = <<>> \/ Untraced!Is(t, "running")
    <3>1. CASE stack[t] = <<>>
      BY <1>3, <3>1, ViewEmpty
    <3>2. CASE stack[t] # <<>> /\ AtStep(t, "java")
      <4>1. Top(t).todo # <<>> /\ Head(Top(t).todo) = "java"
        BY <3>2 DEF AtStep
      <4>2. Top(t) \in CallFrame /\ Sound(Top(t))
        BY <3>2, TopFacts
      <4>3. Seen(Top(t)).at = "running"
        BY <4>1, <4>2, SeenFacts, StageOf
      <4>4. AppCalls[t] # <<>> /\ Untraced!Top(t) = Seen(Top(t))
        BY <1>1, <1>6, <3>2, AppTop
      <4>5. QED
        BY <4>3, <4>4 DEF Untraced!Is
    <3>3. QED
      BY <1>1, <3>1, <3>2
  <2>2. AppExc[t] /\ AppExc' = [AppExc EXCEPT ![t] = FALSE]
    BY <1>1, <1>3, <1>6
  <2>3. AppCalls' = AppCalls
    BY <1>1 DEF AppCalls, View, Visible
  <2>4. Untraced!Handle(t)
    BY <2>1, <2>2, <2>3 DEF Untraced!Handle
  <2>5. QED
    BY <1>4, <2>4 DEF Faithful, Untraced!Next
<1>7. QED
  BY <1>5, <1>6

LEMMA CallsStay ==
    ASSUME NInv, IInv', stack' = stack, exc' = exc
    PROVE  NInv' /\ Unseen
<1>1. NInv'
  BY DEF NInv
<1>2. Unseen
  BY DEF Unseen, AppCalls, AppExc, View, Visible, Own
<1>3. QED
  BY <1>1, <1>2

LEMMA StepFaithful == NInv /\ [Next]_vars => NInv' /\ Faithful
<1> SUFFICES ASSUME NInv, [Next]_vars PROVE NInv' /\ Faithful
  OBVIOUS
<1>1. IInv'
  BY NextSound DEF NInv
<1>2. ASSUME Unseen, NInv' PROVE NInv' /\ Faithful
  BY <1>2 DEF Unseen, Faithful
<1>3. ASSUME NEW t \in Threads, ThreadStep(t) PROVE NInv' /\ Faithful
  <2>1. CASE RunOrig(t)
    BY <1>1, <2>1, RunSeen
  <2>2. CASE OrigReturns(t) \/ \E throws \in BOOLEAN : OrigReturnsNull(t, throws)
    BY <1>1, <2>2, AnswerSeen
  <2>3. CASE \E f \in OwnFuns : OwnCall(t, f)
    BY <1>1, <1>2, <2>3, OwnCallUnseen
  <2>4. CASE ClearException(t) \/ EndLine(t)
    BY <1>1, <1>2, <2>4, PassUnseen
  <2>5. CASE BeginLine(t) \/ TouchStream(t)
    BY <1>1, <1>2, <2>5, CallsStay DEF BeginLine, TouchStream
  <2>6. CASE ReturnCall(t)
    BY <1>1, <2>6, ReturnSeen
  <2>7. CASE HandleException(t)
    BY <1>1, <2>7, HandleSeen
  <2>8. QED
    BY <1>3, <2>1, <2>2, <2>3, <2>4, <2>5, <2>6, <2>7 DEF ThreadStep
<1>4. ASSUME NEW t \in Threads, NEW f \in Funs, NEW so \in AppSos \cup SysSos, AppCall(t, f, so)
      PROVE  NInv' /\ Faithful
  BY <1>1, <1>4, AppCallSeen
<1>5. CASE \/ \E mode \in Modes : startjnitrace(mode)
           \/ \E i \in DOMAIN InitOrder : InstallHook(i)
           \/ StopClearFilter \/ StopDelete \/ StopSave
           \/ UNCHANGED vars
  <2>1. stack' = stack /\ exc' = exc
    BY <1>5 DEF startjnitrace, InstallHook, StopClearFilter, StopDelete, StopSave, vars
  <2>2. QED
    BY <1>1, <1>2, <2>1, CallsStay
<1>6. QED
  BY <1>3, <1>4, <1>5 DEF Next

\* Whatever is traced, the calls of the application's libraries run the functions
\* they would run if nobody traced, once each and in the same order, and leave the
\* same exceptions pending: the replacements of JnitraceForC.cpp are transparent.
THEOREM TracingIsTransparent == Spec => ImplementsUntraced
<1>1. Init => NInv /\ Untraced!Init
  <2> SUFFICES ASSUME Init PROVE NInv /\ Untraced!Init
    OBVIOUS
  <2>1. \A t \in Threads : stack[t] = <<>> /\ exc[t] = FALSE
    BY DEF Init
  <2>2. NInv
    BY <2>1, InitSound, ViewEmpty DEF NInv
  <2>3. AppCalls = [t \in Threads |-> <<>>]
    BY <2>1, ViewEmpty DEF AppCalls
  <2>4. AppExc = [t \in Threads |-> FALSE]
    BY <2>1 DEF AppExc
  <2>5. QED
    BY <2>2, <2>3, <2>4 DEF Untraced!Init
<1>2. NInv /\ [Next]_vars => NInv' /\ [Untraced!Next]_<<AppCalls, AppExc>>
  BY StepFaithful DEF Faithful
<1>3. QED
  BY <1>1, <1>2, PTL DEF Spec, ImplementsUntraced, Untraced!Spec
==============================================================================
