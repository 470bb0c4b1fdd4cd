------------------------- MODULE HookRegistry_proofs -------------------------
(***************************************************************************)
(* Proofs about HookRegistry, for any functions, replacements, threads,    *)
(* requests and bound.  Typing needs no assumption on the operations used; *)
(* the theorems about hooks and calls assume TracerApi.                    *)
(***************************************************************************)
EXTENDS HookRegistry, TLAPS

\* What patching does to a sequence: the new patch is on top, the old stay.
LEMMA AppendFacts ==
    ASSUME NEW s \in Seq(Layers), NEW l \in Layers
    PROVE  /\ Append(s, l) \in Seq(Layers)
           /\ Len(Append(s, l)) = Len(s) + 1
           /\ DOMAIN Append(s, l) = DOMAIN s \cup {Len(s) + 1}
           /\ Len(s) + 1 \notin DOMAIN s
           /\ \A i \in DOMAIN s : Append(s, l)[i] = s[i]
           /\ Append(s, l)[Len(s) + 1] = l
  OBVIOUS

\* Every operation and every call leaves all variables well typed, whatever
\* part of HookUtils is used.
LEMMA TypeStep == TypeOK /\ [Next]_vars => TypeOK'
<1> SUFFICES ASSUME TypeOK, [Next]_vars PROVE TypeOK'
  OBVIOUS
<1> USE PatchAssumption DEF TypeOK, engine, Operation, Answer, Call, Fns,
        Return, HookRefusedOrKnown, BeginHook, AlreadyHooked
<1>0. Hooks \subseteq Layers /\ Reps \subseteq Hooks /\ NullRep \in Hooks
      /\ Instr \in Layers
  BY DEF Hooks, Layers
<1>1. ASSUME NEW fn \in Fns, NEW a \in Addrs \cup {NullAddr},
             HookRefusedOrKnown(fn, a)
      PROVE  TypeOK'
  <2>1. ret' \in Answer
    BY <1>1
  <2> QED
    BY <2>1, <1>1
<1>2. ASSUME NEW fn \in Fns, NEW a \in Addrs \cup {NullAddr}, NEW r \in Hooks,
             NEW first \in {"dobby", "sand"}, BeginHook(fn, a, r, first)
      PROVE  TypeOK'
  <2>1. op' \in Operation /\ op'.addr \in Addrs
    BY <1>2
  <2> QED
    BY <2>1, <1>2
<1>3. CASE DobbyRefuse
  <2>1. ret' \in Answer /\ near' \in BOOLEAN
    <3>1. CASE op.attempt = 1
      BY <3>1, <1>3 DEF DobbyRefuse
    <3>2. CASE op.attempt # 1
      <4>1. ret' = [fn |-> "Hooker", addr |-> op.addr, ok |-> FALSE]
        BY <3>2, <1>3 DEF DobbyRefuse
      <4> QED
        BY <4>1, <3>2, <1>3 DEF DobbyRefuse
    <3> QED
      BY <3>1, <3>2
  <2> QED
    BY <2>1, <1>3 DEF DobbyRefuse
<1>4. CASE DobbySetOrg
  <2>1. code[op.addr] \in Seq(Layers)
    BY <1>4 DEF DobbySetOrg
  <2> QED
    BY <2>1, <1>4 DEF DobbySetOrg
<1>5. CASE DobbyCommit
  <2>1. op.addr \in Addrs /\ op.rep \in Layers /\ code[op.addr] \in Seq(Layers)
    BY <1>5, <1>0 DEF DobbyCommit
  <2>2. Append(code[op.addr], op.rep) \in Seq(Layers)
    BY <2>1, AppendFacts
  <2>3. code' \in [Addrs -> Seq(Layers)]
    BY <2>2, <1>5 DEF DobbyCommit, Patch
  <2> QED
    BY <2>1, <2>3, <1>5 DEF DobbyCommit
<1>6. CASE SandRefuse
  <2>1. CASE op.fn = "Hooker"
    <3>1. op' = [op EXCEPT !.attempt = 2]
      BY <2>1, <1>6 DEF SandRefuse
    <3>2. op' \in Operation /\ op'.addr = op.addr
      <4>1. op \in Operation /\ 2 \in 1..2
        OBVIOUS
      <4> QED
        BY <3>1, <4>1
    <3> QED
      BY <2>1, <3>2, <1>6 DEF SandRefuse
  <2>2. CASE op.fn # "Hooker"
    <3>1. ret' = [fn |-> op.fn, addr |-> op.addr, ok |-> FALSE]
      BY <2>2, <1>6 DEF SandRefuse
    <3>2. ret' \in Answer
      BY <3>1
    <3> QED
      BY <2>2, <3>2, <1>6 DEF SandRefuse
  <2> QED
    BY <2>1, <2>2
<1>7. CASE SandSetBackup
  <2>1. code[op.addr] \in Seq(Layers)
    BY <1>7 DEF SandSetBackup
  <2> QED
    BY <2>1, <1>7 DEF SandSetBackup
<1>8. CASE SandOverwrite
  <2>1. op.addr \in Addrs /\ op.rep \in Layers /\ code[op.addr] \in Seq(Layers)
    BY <1>8, <1>0 DEF SandOverwrite
  <2>2. Append(code[op.addr], op.rep) \in Seq(Layers)
    BY <2>1, AppendFacts
  <2>3. code' \in [Addrs -> Seq(Layers)]
    BY <2>2, <1>8 DEF SandOverwrite, Patch
  <2> QED
    BY <2>1, <2>3, <1>8 DEF SandOverwrite
<1>9. ASSUME NEW a \in Addrs, UnHook(a) PROVE TypeOK'
  BY <1>9 DEF UnHook
<1>10. ASSUME NEW a \in Addrs \cup {NullAddr}, AddTrampoline(a) PROVE TypeOK'
  <2>1. CASE UNCHANGED <<entries, code>> /\ Return("addTrampoline", a, FALSE)
    BY <2>1, <1>10 DEF AddTrampoline
  <2>2. CASE /\ a \in Addrs
             /\ Patch(a, Instr)
             /\ entries' = [entries EXCEPT ![a] = code[a]]
             /\ Return("addTrampoline", a, TRUE)
    <3>1. Append(code[a], Instr) \in Seq(Layers)
      BY <2>2, <1>0, AppendFacts
    <3>2. code' \in [Addrs -> Seq(Layers)]
      BY <3>1, <2>2 DEF Patch
    <3> QED
      BY <2>2, <3>2, <1>10 DEF AddTrampoline
  <2> QED
    BY <2>1, <2>2, <1>10 DEF AddTrampoline
<1>11. CASE StartBranchTrampoline
  BY <1>11 DEF StartBranchTrampoline
<1>12. ASSUME NEW t \in Callers, NEW c \in Seq(Layers),
              NEW seen \in SUBSET Reps, RunCode(t, c, seen),
              UNCHANGED <<engine, stage, op, ret>>
       PROVE  TypeOK'
  <2>1. [pc |-> "run", cur |-> c, at |-> Len(c), rep |-> call[t].rep,
         seen |-> seen] \in Call
    OBVIOUS
  <2>2. call' \in [Callers -> Call]
    BY <2>1, <1>12 DEF RunCode
  <2> QED
    BY <2>2, <1>12
<1>13. ASSUME NEW t \in Callers, NEW c \in Call, call' = [call EXCEPT ![t] = c],
              UNCHANGED <<engine, stage, op, ret>>
       PROVE  TypeOK'
  <2>1. call' \in [Callers -> Call]
    BY <1>13
  <2> QED
    BY <2>1, <1>13
<1>14. ASSUME NEW t \in Callers, NEW a \in Addrs, CallFunction(t, a)
       PROVE  TypeOK'
  BY <1>12, <1>14 DEF CallFunction
<1>15. ASSUME NEW t \in Callers, CallerStep(t)
       PROVE  TypeOK'
  <2>0. call[t] \in Call
    OBVIOUS
  <2>1. CASE RunOriginal(t)
    <3> DEFINE c == [call[t] EXCEPT !.pc = "idle"]
    <3>1. c \in Call
      BY <2>0
    <3>2. call' = [call EXCEPT ![t] = c] /\ UNCHANGED <<engine, stage, op, ret>>
      BY <2>1 DEF RunOriginal
    <3> HIDE DEF c
    <3> QED
      BY <3>1, <3>2, <1>13
  <2>2. CASE RunHandler(t)
    <3> DEFINE c == [call[t] EXCEPT !.at = @ - 1]
    <3>1. c \in Call
      <4>1. call[t].at - 1 \in Nat
        BY <2>0, <2>2 DEF RunHandler
      <4> QED
        BY <2>0, <4>1
    <3>2. call' = [call EXCEPT ![t] = c] /\ UNCHANGED <<engine, stage, op, ret>>
      BY <2>2 DEF RunHandler
    <3> HIDE DEF c
    <3> QED
      BY <3>1, <3>2, <1>13
  <2>3. CASE EnterReplacement(t)
    <3> DEFINE r == call[t].cur[call[t].at]
               c == [call[t] EXCEPT !.pc = "in", !.rep = r,
                                    !.seen = call[t].seen \cup {r}]
    <3>1. c \in Call
      BY <2>0, <2>3, <1>0 DEF EnterReplacement
    <3>2. call' = [call EXCEPT ![t] = c]
      BY <2>3 DEF EnterReplacement
    <3> QED
      BY <3>1, <3>2, <2>3, <1>13 DEF EnterReplacement
  <2>4. CASE CallOrg(t)
    <3>1. org[call[t].rep] \in Seq(Layers) /\ call[t].seen \in SUBSET Reps
      BY <2>0, <2>4 DEF CallOrg
    <3> QED
      BY <3>1, <2>4, <1>12 DEF CallOrg
  <2> QED
    BY <1>15, <2>1, <2>2, <2>3, <2>4 DEF CallerStep
<1>17. CASE UNCHANGED vars
  BY <1>17 DEF vars
<1>18. ASSUME NEW a \in Addrs \cup {NullAddr}, NEW r \in Hooks,
              Hooker(a, r) \/ HookerForSign(a, r)
       PROVE  TypeOK'
  <2> USE DEF Hooker, HookerForSign
  <2> QED
    BY <1>1, <1>2, <1>18
<1> QED
  BY <1>3, <1>4, <1>5, <1>6, <1>7, <1>8, <1>9, <1>10, <1>11, <1>14, <1>15,
     <1>17, <1>18 DEF Next, EngineStep

LEMMA TypeInit == Init => TypeOK
<1> SUFFICES ASSUME Init PROVE TypeOK
  OBVIOUS
<1> USE DEF Init
<1>1. NullRep \in Hooks /\ <<>> \in Seq(Layers)
  BY DEF Hooks
<1>2. op \in Operation /\ ret \in Answer
  BY <1>1 DEF Operation, Answer, Fns
<1>3. call \in [Callers -> Call]
  BY <1>1 DEF Call
<1> QED
  BY <1>1, <1>2, <1>3 DEF TypeOK

\* All variables keep their types, for every use of HookUtils.
THEOREM TypeCorrect == Spec => []TypeOK
  BY TypeInit, TypeStep, PTL DEF Spec

------------------------------------------------------------------------------
(* The inductive invariant.                                                 *)

\* A handler patched in by DobbyInstrument redirects nothing.
LEMMA InstrAppend ==
    ASSUME NEW s \in Seq(Layers)
    PROVE  /\ Clean(s) => Clean(Append(s, Instr))
           /\ OneHook(s) => OneHook(Append(s, Instr))
           /\ OrgsReady(s) => OrgsReady(Append(s, Instr))
<1>1. Instr \in Layers /\ Instr \notin Hooks
  BY PatchAssumption DEF Layers
<1> QED
  BY <1>1, AppendFacts DEF Clean, OneHook, OrgsReady

\* Redirecting clean code leaves one redirecting patch.
LEMMA HookAppend ==
    ASSUME NEW s \in Seq(Layers), NEW r \in Hooks, Clean(s), org[r] # Unset
    PROVE  OneHook(Append(s, r)) /\ OrgsReady(Append(s, r))
<1>1. r \in Layers
  BY DEF Layers
<1> QED
  BY <1>1, AppendFacts DEF Clean, OneHook, OrgsReady

\* Writing one more backup pointer makes no ready code unready.
LEMMA BackupWritten ==
    ASSUME IInv, NEW a \in Addrs \ listed, NEW r \in Hooks,
           org' = [org EXCEPT ![r] = code[a]], UNCHANGED <<code, call>>
    PROVE  /\ CodeInv' /\ CallInv'
           /\ org'[r] # Unset
           /\ \A q \in Hooks : org'[q] # Unset => Clean(org'[q])
<1>1. code[a] # Unset /\ Clean(code[a])
  BY PatchAssumption DEF IInv, TypeOK, UnlistedClean
<1>2. org \in [Hooks -> Seq(Layers) \cup {Unset}]
  BY DEF IInv, TypeOK
<1>3. \A q \in Hooks : org'[q] = IF q = r THEN code[a] ELSE org[q]
  BY <1>2
<1>4. \A q \in Hooks : org[q] # Unset => org'[q] # Unset
  BY <1>1, <1>3
<1>5. \A c : OrgsReady(c) => OrgsReady(c)'
  BY <1>4 DEF OrgsReady
<1>6. CodeInv'
  BY <1>4 DEF IInv, CodeInv, OrgsReady, OneHook
<1>7. CallInv'
  <2> SUFFICES ASSUME NEW t \in Callers
               PROVE  /\ call[t].pc = "run" =>
                            /\ call[t].at <= Len(call[t].cur)
                            /\ OneHook(call[t].cur) /\ OrgsReady(call[t].cur)'
                            /\ call[t].seen # {} => Clean(call[t].cur)
                      /\ call[t].pc = "in" => org'[call[t].rep] # Unset
    BY DEF CallInv, OrgsReady
  <2>1. call[t] \in Call
    BY DEF IInv, TypeOK
  <2>2. call[t].rep \in Hooks
    BY <2>1 DEF Call
  <2> QED
    BY <2>2, <1>4 DEF IInv, CallInv, OrgsReady
<1> QED
  BY <1>1, <1>3, <1>6, <1>7 DEF IInv, OrgInv

\* The patch an engine finally writes: its address was clean.
LEMMA PatchWritten ==
    ASSUME IInv, stage \in {"commit", "overwrite"},
           Patch(op.addr, op.rep), listed' = listed \cup {op.addr},
           stage' = "idle", UNCHANGED <<org, op, call>>
    PROVE  UnlistedClean' /\ CodeInv' /\ OrgInv' /\ CallInv'
<1>1. op.addr \in Addrs /\ op.rep \in Hooks /\ code \in [Addrs -> Seq(Layers)]
  BY DEF IInv, TypeOK, Operation
<1>2. Clean(code[op.addr]) /\ org[op.rep] # Unset
  BY <1>1 DEF IInv, UnlistedClean, OrgInv
<1>3. code' = [code EXCEPT ![op.addr] = Append(code[op.addr], op.rep)]
  BY DEF Patch
<1>4. OneHook(Append(code[op.addr], op.rep))
      /\ OrgsReady(Append(code[op.addr], op.rep))
  BY <1>1, <1>2, HookAppend
<1>5. \A a \in Addrs : code'[a] = IF a = op.addr THEN Append(code[a], op.rep)
                                                ELSE code[a]
  BY <1>1, <1>3
<1>6. UnlistedClean'
  BY <1>5 DEF IInv, UnlistedClean, Clean
<1>7. \A a \in Addrs : OneHook(code'[a]) /\ OrgsReady(code'[a])
  BY <1>4, <1>5 DEF IInv, CodeInv
<1>8. CodeInv'
  BY <1>7 DEF CodeInv, OrgsReady, OneHook
<1> QED
  BY <1>6, <1>8 DEF IInv, OrgInv, CallInv, OneHook, OrgsReady, Clean

\* An operation that leaves the patches, the list, the backups and the calls
\* alone, and keeps an operation in progress where the invariant wants it.
LEMMA EngineQuiet ==
    ASSUME IInv, UNCHANGED <<listed, code, org, call>>,
           stage' # "idle" => op'.fn = "Hooker" /\ op'.addr \notin listed,
           stage' \notin {"commit", "overwrite"}
    PROVE  UnlistedClean' /\ CodeInv' /\ OrgInv' /\ CallInv'
  BY DEF IInv, UnlistedClean, CodeInv, OrgInv, CallInv, OneHook, OrgsReady, Clean

\* A step of a calling thread t.
LEMMA CallWritten ==
    ASSUME IInv, NEW t \in Callers, NEW c \in Call,
           call' = [call EXCEPT ![t] = c],
           UNCHANGED <<engine, stage, op, ret>>,
           c.pc = "run" => /\ c.at <= Len(c.cur)
                           /\ OneHook(c.cur) /\ OrgsReady(c.cur)
                           /\ c.seen # {} => Clean(c.cur),
           c.pc = "in" => org[c.rep] # Unset
    PROVE  UnlistedClean' /\ CodeInv' /\ OrgInv' /\ CallInv'
<1>1. \A u \in Callers : call'[u] = IF u = t THEN c ELSE call[u]
  BY DEF IInv, TypeOK
<1>2. CallInv'
  BY <1>1 DEF IInv, CallInv, OneHook, OrgsReady, Clean, engine
<1> QED
  BY <1>2 DEF IInv, UnlistedClean, CodeInv, OrgInv, OneHook, OrgsReady, Clean,
              engine

LEMMA EngineInvStep ==
    ASSUME TracerApi, IInv, EngineStep
    PROVE  UnlistedClean' /\ CodeInv' /\ OrgInv' /\ CallInv'
<1>0. TypeOK /\ UnlistedClean
  BY DEF IInv
<1>1. CASE DobbyRefuse
  BY <1>0, <1>1, EngineQuiet DEF DobbyRefuse, Return, UnlistedClean
<1>2. CASE DobbySetOrg \/ SandSetBackup
  <2>1. op.addr \in Addrs \ listed /\ op.rep \in Hooks /\ op.fn = "Hooker"
    BY <1>0, <1>2 DEF DobbySetOrg, SandSetBackup, TypeOK, Operation, UnlistedClean
  <2>2. /\ org' = [org EXCEPT ![op.rep] = code[op.addr]]
        /\ UNCHANGED <<listed, code, op, call>>
    BY <1>2 DEF DobbySetOrg, SandSetBackup
  <2>3. /\ CodeInv' /\ CallInv'
        /\ org'[op.rep] # Unset
        /\ \A q \in Hooks : org'[q] # Unset => Clean(org'[q])
    BY <2>1, <2>2, BackupWritten
  <2>4. OrgInv'
    BY <2>2, <2>3 DEF OrgInv, Clean
  <2>5. UnlistedClean'
    BY <1>0, <2>1, <2>2 DEF UnlistedClean, Clean
  <2> QED
    BY <2>3, <2>4, <2>5
<1>3. CASE DobbyCommit \/ SandOverwrite
  <2>1. op.fn = "Hooker"
    BY <1>0, <1>3 DEF DobbyCommit, SandOverwrite, UnlistedClean
  <2> QED
    BY <2>1, <1>3, PatchWritten DEF DobbyCommit, SandOverwrite, Return
<1>4. CASE SandRefuse
  <2>1. op.fn = "Hooker" /\ op.addr \notin listed /\ op \in Operation
    BY <1>0, <1>4 DEF SandRefuse, UnlistedClean, TypeOK
  <2>2. op' = [op EXCEPT !.attempt = 2] /\ stage' = "dobby"
        /\ UNCHANGED <<listed, code, org, call>>
    BY <2>1, <1>4 DEF SandRefuse
  <2>3. op'.fn = op.fn /\ op'.addr = op.addr
    BY <2>1, <2>2 DEF Operation
  <2> QED
    BY <2>1, <2>2, <2>3, EngineQuiet
<1> QED
  BY <1>1, <1>2, <1>3, <1>4 DEF EngineStep

LEMMA CallerInvStep ==
    ASSUME IInv, NEW t \in Callers,
           CallerStep(t) \/ \E a \in Addrs : CallFunction(t, a)
    PROVE  UnlistedClean' /\ CodeInv' /\ OrgInv' /\ CallInv'
<1>0. /\ call[t] \in Call
      /\ call[t].pc = "run" =>
            /\ call[t].at <= Len(call[t].cur)
            /\ OneHook(call[t].cur) /\ OrgsReady(call[t].cur)
            /\ call[t].seen # {} => Clean(call[t].cur)
      /\ call[t].pc = "in" => org[call[t].rep] # Unset
  BY DEF IInv, TypeOK, CallInv
<1>1. CASE \E a \in Addrs : CallFunction(t, a)
  <2>1. PICK a \in Addrs : CallFunction(t, a)
    BY <1>1
  <2> DEFINE c == [pc |-> "run", cur |-> code[a], at |-> Len(code[a]),
                   rep |-> call[t].rep, seen |-> {}]
  <2>2. code[a] \in Seq(Layers) /\ OneHook(code[a]) /\ OrgsReady(code[a])
    BY DEF IInv, TypeOK, CodeInv
  <2>3. c \in Call /\ c.at <= Len(c.cur)
    BY <1>0, <2>2 DEF Call
  <2>4. call' = [call EXCEPT ![t] = c] /\ UNCHANGED <<engine, stage, op, ret>>
    BY <2>1 DEF CallFunction, RunCode
  <2> QED
    BY <2>2, <2>3, <2>4, CallWritten
<1>2. CASE RunOriginal(t)
  <2> DEFINE c == [call[t] EXCEPT !.pc = "idle"]
  <2>1. c \in Call /\ c.pc = "idle"
    BY <1>0 DEF Call
  <2>2. call' = [call EXCEPT ![t] = c] /\ UNCHANGED <<engine, stage, op, ret>>
    BY <1>2 DEF RunOriginal
  <2> HIDE DEF c
  <2> QED
    BY <2>1, <2>2, CallWritten
<1>3. CASE RunHandler(t)
  <2> DEFINE c == [call[t] EXCEPT !.at = @ - 1]
  <2>0. call[t].at - 1 \in Nat /\ call[t].pc = "run"
    BY <1>0, <1>3 DEF RunHandler, Call
  <2>1. /\ c \in Call /\ c.pc = "run" /\ c.at = call[t].at - 1
        /\ c.cur = call[t].cur /\ c.seen = call[t].seen
    BY <1>0, <2>0 DEF Call
  <2>2. call' = [call EXCEPT ![t] = c] /\ UNCHANGED <<engine, stage, op, ret>>
    BY <1>3 DEF RunHandler
  <2>3. c.at <= Len(c.cur)
    BY <1>0, <2>0, <2>1 DEF Call
  <2> HIDE DEF c
  <2> QED
    BY <1>0, <2>0, <2>1, <2>2, <2>3, CallWritten
<1>4. CASE EnterReplacement(t)
  <2> DEFINE r == call[t].cur[call[t].at]
             c == [call[t] EXCEPT !.pc = "in", !.rep = r,
                                  !.seen = call[t].seen \cup {r}]
  <2>1. call[t].pc = "run" /\ call[t].at \in DOMAIN call[t].cur /\ r \in Reps
    BY <1>0, <1>4 DEF EnterReplacement, Call
  <2>2. c \in Call /\ c.pc = "in" /\ c.rep = r
    BY <1>0, <2>1 DEF Call, Hooks
  <2>3. org[r] # Unset
    BY <1>0, <2>1 DEF OrgsReady, Hooks
  <2>4. call' = [call EXCEPT ![t] = c] /\ UNCHANGED <<engine, stage, op, ret>>
    BY <1>4 DEF EnterReplacement
  <2> HIDE DEF c
  <2> QED
    BY <2>2, <2>3, <2>4, CallWritten
<1>5. CASE CallOrg(t)
  <2> DEFINE o == org[call[t].rep]
             c == [pc |-> "run", cur |-> o, at |-> Len(o),
                   rep |-> call[t].rep, seen |-> call[t].seen]
  <2>1. o \in Seq(Layers) /\ Clean(o)
    BY <1>0, <1>5 DEF CallOrg, IInv, TypeOK, OrgInv, Call
  <2>2. OneHook(o) /\ OrgsReady(o)
    BY <2>1 DEF Clean, OneHook, OrgsReady
  <2>3. c \in Call /\ c.at <= Len(c.cur)
    BY <1>0, <2>1 DEF Call
  <2>4. call' = [call EXCEPT ![t] = c] /\ UNCHANGED <<engine, stage, op, ret>>
    BY <1>5 DEF CallOrg, RunCode
  <2> QED
    BY <2>1, <2>2, <2>3, <2>4, CallWritten
<1> QED
  BY <1>1, <1>2, <1>3, <1>4, <1>5 DEF CallerStep

\* Every step of the tracer's use of HookUtils keeps the inductive invariant.
LEMMA InvStep ==
    ASSUME TracerApi, IInv, [Next]_vars
    PROVE  IInv'
<1>1. TypeOK'
  BY TypeStep DEF IInv
<1>2. UnlistedClean' /\ CodeInv' /\ OrgInv' /\ CallInv'
  <2>0. TypeOK /\ UnlistedClean
    BY DEF IInv
  <2>1. CASE EngineStep
    BY <2>1, EngineInvStep
  <2>2. CASE \E a \in Addrs \cup {NullAddr}, r \in Hooks :
               Hooker(a, r) \/ HookerForSign(a, r)
    <3>1. PICK a \in Addrs \cup {NullAddr}, r \in Hooks : Hooker(a, r)
      BY <2>2 DEF TracerApi, HookerForSign
    <3>2. CASE HookRefusedOrKnown("Hooker", a)
      BY <3>2, EngineQuiet DEF HookRefusedOrKnown, Return, engine
    <3>3. CASE BeginHook("Hooker", a, r, "dobby")
      BY <3>3, EngineQuiet DEF BeginHook, AlreadyHooked, engine
    <3> QED
      BY <3>1, <3>2, <3>3 DEF Hooker
  <2>3. CASE \E a \in Addrs : UnHook(a)
    BY <2>3 DEF UnHook, TracerApi
  <2>4. CASE \E a \in Addrs \cup {NullAddr} : AddTrampoline(a)
    <3>1. PICK a \in Addrs \cup {NullAddr} : AddTrampoline(a)
      BY <2>4
    <3>2. CASE UNCHANGED code
      BY <3>1, <3>2, EngineQuiet DEF AddTrampoline, Return
    <3>3. CASE a \in Addrs /\ Patch(a, Instr)
      <4>1. \A b \in Addrs : code'[b] = IF b = a THEN Append(code[b], Instr)
                                               ELSE code[b]
        BY <2>0, <3>3 DEF Patch, TypeOK
      <4>2. code[a] \in Seq(Layers)
        BY <2>0, <3>3 DEF TypeOK
      <4>3. \A b \in Addrs : OneHook(code'[b]) /\ OrgsReady(code'[b])
        BY <4>1, <4>2, InstrAppend DEF IInv, CodeInv
      <4>7. \A b \in Addrs : b \notin listed => Clean(code'[b])
        BY <2>0, <4>1, <4>2, InstrAppend DEF UnlistedClean
      <4>4. UNCHANGED <<listed, org, op, call>> /\ stage' = "idle"
        BY <3>1 DEF AddTrampoline, Return
      <4>5. CodeInv'
        BY <4>3, <4>4 DEF CodeInv, OneHook, OrgsReady
      <4>6. UnlistedClean'
        BY <4>4, <4>7 DEF UnlistedClean, Clean
      <4> QED
        BY <4>4, <4>5, <4>6 DEF IInv, OrgInv, CallInv, OneHook, OrgsReady, Clean
    <3> QED
      BY <3>1, <3>2, <3>3 DEF AddTrampoline
  <2>5. CASE StartBranchTrampoline
    BY <2>5, EngineQuiet DEF StartBranchTrampoline
  <2>6. CASE \E t \in Callers : CallerStep(t) \/ \E a \in Addrs : CallFunction(t, a)
    BY <2>6, CallerInvStep
  <2>7. CASE UNCHANGED vars
    BY <2>7 DEF vars, engine, IInv, UnlistedClean, CodeInv, OrgInv, CallInv,
                OneHook, OrgsReady, Clean
  <2> QED
    BY <2>1, <2>2, <2>3, <2>4, <2>5, <2>6, <2>7 DEF Next
<1> QED
  BY <1>1, <1>2 DEF IInv

LEMMA InvInit == Init => IInv
  BY TypeInit DEF Init, IInv, UnlistedClean, CodeInv, OrgInv, CallInv,
                  OneHook, OrgsReady, Clean

LEMMA InvImpliesSafety ==
    ASSUME IInv PROVE HookedAtMostOnce /\ OrgReadyWhenEntered /\ NoReentry
<1>1. HookedAtMostOnce
  BY DEF IInv, CodeInv, OneHook, HookedAtMostOnce, HookPlaces
<1>2. OrgReadyWhenEntered
  BY DEF IInv, CallInv, OrgReadyWhenEntered
<1>3. NoReentry
  <2> SUFFICES ASSUME NEW t \in Callers, call[t].pc = "run", call[t].at > 0
               PROVE  call[t].cur[call[t].at] \notin call[t].seen
    BY DEF NoReentry
  <2>1. call[t] \in Call /\ call[t].at \in DOMAIN call[t].cur
    BY DEF IInv, TypeOK, CallInv, Call
  <2>2. CASE call[t].seen = {}
    BY <2>2
  <2>3. CASE call[t].seen # {}
    <3>1. call[t].cur[call[t].at] \notin Hooks
      BY <2>1, <2>3 DEF IInv, CallInv, Clean
    <3> QED
      BY <2>1, <3>1 DEF Call, Hooks
  <2> QED
    BY <2>2, <2>3
<1> QED
  BY <1>1, <1>2, <1>3

\* A tracer that neither unhooks nor uses HookerForSign never has a function
\* redirected twice, although Dobby and SandHook do not know each other.
THEOREM HookedOnce ==
    ASSUME TracerApi PROVE Spec => []HookedAtMostOnce
<1>1. Init => IInv
  BY InvInit
<1>2. IInv /\ [Next]_vars => IInv'
  BY InvStep
<1>3. IInv => HookedAtMostOnce
  BY InvImpliesSafety
<1> QED
  BY <1>1, <1>2, <1>3, PTL DEF Spec

\* No thread of the application runs a replacement whose backup pointer is
\* still unwritten, at any point of an installation.
THEOREM BackupBeforeEntry ==
    ASSUME TracerApi PROVE Spec => []OrgReadyWhenEntered
<1>1. Init => IInv
  BY InvInit
<1>2. IInv /\ [Next]_vars => IInv'
  BY InvStep
<1>3. IInv => OrgReadyWhenEntered
  BY InvImpliesSafety
<1> QED
  BY <1>1, <1>2, <1>3, PTL DEF Spec

\* No call runs in circles through a replacement and its backup pointer.
THEOREM CallsNeverReenter ==
    ASSUME TracerApi PROVE Spec => []NoReentry
<1>1. Init => IInv
  BY InvInit
<1>2. IInv /\ [Next]_vars => IInv'
  BY InvStep
<1>3. IInv => NoReentry
  BY InvImpliesSafety
<1> QED
  BY <1>1, <1>2, <1>3, PTL DEF Spec

------------------------------------------------------------------------------
(* The registry implements the abstract table.                              *)

LEMMA CleanUnowned ==
    ASSUME NEW c, Clean(c) PROVE HooksOn(c) = {}
  BY DEF Clean, HooksOn, HookPlaces

LEMMA OwnerOfPatched ==
    ASSUME NEW s \in Seq(Layers), NEW r \in Hooks, Clean(s)
    PROVE  HooksOn(Append(s, r)) = {r}
<1>1. r \in Layers
  BY DEF Layers
<1>2. HookPlaces(Append(s, r)) = {Len(s) + 1}
  BY <1>1, AppendFacts DEF HookPlaces, Clean
<1> QED
  BY <1>1, <1>2, AppendFacts DEF HooksOn

LEMMA OwnerOfInstrumented ==
    ASSUME NEW s \in Seq(Layers) PROVE HooksOn(Append(s, Instr)) = HooksOn(s)
<1>1. Instr \in Layers /\ Instr \notin Hooks
  BY PatchAssumption DEF Layers
<1>2. HookPlaces(Append(s, Instr)) = HookPlaces(s)
  BY <1>1, AppendFacts DEF HookPlaces
<1>3. \A i \in HookPlaces(s) : Append(s, Instr)[i] = s[i]
  BY <1>1, AppendFacts DEF HookPlaces
<1> QED
  BY <1>2, <1>3 DEF HooksOn

\* Every step is a step of the table or leaves all owners alone.
LEMMA TableStep ==
    ASSUME TracerApi, IInv, [Next]_vars
    PROVE  [Table!Next]_([a \in Addrs |-> Owner(a)])
<1> DEFINE owners == [a \in Addrs |-> Owner(a)]
<1>0. TypeOK /\ UnlistedClean
  BY DEF IInv
<1>1. CASE UNCHANGED code
  <2>1. \A a \in Addrs : Owner(a)' = Owner(a)
    BY <1>1 DEF Owner, HooksOn, HookPlaces
  <2>2. owners' = owners
    BY <2>1
  <2> QED
    BY <2>2
<1>2. ASSUME NEW a \in Addrs, Patch(a, Instr)
      PROVE  owners' = owners
  <2>1. \A b \in Addrs : code'[b] = IF b = a THEN Append(code[b], Instr)
                                           ELSE code[b]
    BY <1>0, <1>2 DEF Patch, TypeOK
  <2>2. \A b \in Addrs : HooksOn(code'[b]) = HooksOn(code[b])
    BY <1>0, <2>1, OwnerOfInstrumented DEF TypeOK
  <2>3. \A b \in Addrs : Owner(b)' = Owner(b)
    BY <2>2 DEF Owner, HooksOn, HookPlaces
  <2> QED
    BY <2>3
<1>3. CASE DobbyCommit \/ SandOverwrite
  <2>1. /\ op.addr \in Addrs /\ op.rep \in Hooks
        /\ code[op.addr] \in Seq(Layers) /\ Clean(code[op.addr])
    BY <1>0, <1>3 DEF DobbyCommit, SandOverwrite, TypeOK, Operation, UnlistedClean
  <2>2. \A b \in Addrs : code'[b] = IF b = op.addr
                                   THEN Append(code[b], op.rep) ELSE code[b]
    BY <1>0, <1>3 DEF DobbyCommit, SandOverwrite, Patch, TypeOK
  <2>3. HooksOn(code[op.addr]) = {} /\ HooksOn(code'[op.addr]) = {op.rep}
    BY <2>1, <2>2, CleanUnowned, OwnerOfPatched
  <2>4. Owner(op.addr) = Unset
    BY <2>3 DEF Owner
  <2>5. \A b \in Addrs : Owner(b)' = IF b = op.addr THEN op.rep ELSE Owner(b)
    <3>1. (CHOOSE r \in {op.rep} : TRUE) = op.rep
      OBVIOUS
    <3>2. ASSUME NEW b \in Addrs, b = op.addr PROVE Owner(b)' = op.rep
      BY <2>3, <3>1, <3>2 DEF Owner, HooksOn, HookPlaces
    <3>3. ASSUME NEW b \in Addrs, b # op.addr PROVE Owner(b)' = Owner(b)
      <4>1. code'[b] = code[b]
        BY <2>2, <3>3
      <4> QED
        BY <4>1 DEF Owner, HooksOn, HookPlaces
    <3> QED
      BY <3>2, <3>3
  <2>6. owners' = [owners EXCEPT ![op.addr] = op.rep]
    BY <2>5
  <2>7. Table!Take(op.addr, op.rep)
    BY <2>1, <2>4, <2>6 DEF Table!Take
  <2> QED
    BY <2>1, <2>7 DEF Table!Next
<1>4. \/ UNCHANGED code
      \/ DobbyCommit \/ SandOverwrite
      \/ \E a \in Addrs : Patch(a, Instr)
  BY DEF Next, EngineStep, CallerStep, vars, engine, Hooker, HookerForSign,
         HookRefusedOrKnown, BeginHook, DobbyRefuse, DobbySetOrg, SandRefuse,
         SandSetBackup, UnHook, TracerApi, AddTrampoline, StartBranchTrampoline,
         CallFunction, RunOriginal, RunHandler, EnterReplacement, CallOrg
<1> QED
  BY <1>1, <1>2, <1>3, <1>4

\* The tracer's use of HookUtils implements HookTable: the first replacement
\* of a function stays its only one for ever.
THEOREM TableImplemented ==
    ASSUME TracerApi PROVE Spec => ImplementsTable
<1>1. Init => Table!Init
  <2> SUFFICES ASSUME Init PROVE Table!Init
    OBVIOUS
  <2>1. \A a \in Addrs : Owner(a) = Unset
    <3>1. \A a \in Addrs : Clean(code[a])
      BY DEF Init, Clean
    <3> QED
      BY <3>1, CleanUnowned DEF Owner
  <2> QED
    BY <2>1 DEF Table!Init
<1>2. Init => IInv
  BY InvInit
<1>3. IInv /\ [Next]_vars => IInv'
  BY InvStep
<1>4. IInv /\ [Next]_vars => [Table!Next]_([a \in Addrs |-> Owner(a)])
  BY TableStep
<1> QED
  BY <1>1, <1>2, <1>3, <1>4, PTL DEF Spec, ImplementsTable, Table!Spec

------------------------------------------------------------------------------
(* The list and the answers, for all operations in any order.               *)

Truthful == ListedArePatched /\ SuccessMeansPatched

\* A redirecting patch redirects; any patch leaves the redirecting ones below.
LEMMA PatchKeepsHooks ==
    ASSUME NEW s \in Seq(Layers), NEW l \in Layers
    PROVE  /\ HookPlaces(s) # {} => HookPlaces(Append(s, l)) # {}
           /\ l \in Hooks => HookPlaces(Append(s, l)) # {}
BY AppendFacts DEF HookPlaces

\* A patch on one function, after which that function may be listed.
LEMMA PatchedAndListed ==
    ASSUME TypeOK, Truthful, NEW a \in Addrs, NEW l \in Layers, Patch(a, l),
           listed' \subseteq IF l \in Hooks THEN listed \cup {a} ELSE listed
    PROVE  /\ ListedArePatched'
           /\ l \in Hooks => HookPlaces(code'[a]) # {}
<1>1. code'[a] = Append(code[a], l) /\ code[a] \in Seq(Layers)
      /\ \A b \in Addrs \ {a} : code'[b] = code[b]
  BY DEF TypeOK, Patch
<1>2. /\ HookPlaces(code[a]) # {} => HookPlaces(code'[a]) # {}
      /\ l \in Hooks => HookPlaces(code'[a]) # {}
  BY <1>1, PatchKeepsHooks
<1>3. ListedArePatched'
  BY <1>1, <1>2 DEF ListedArePatched, Truthful, TypeOK
<1>4. QED
  BY <1>2, <1>3

\* Nothing is patched, and no success of a hooking operation is announced.
LEMMA NothingAnnounced ==
    ASSUME Truthful, UNCHANGED <<listed, code>>,
           stage' # "idle" \/ ~ret'.ok \/ ret'.fn \notin {"Hooker", "HookerForSign"}
    PROVE  Truthful'
BY DEF Truthful, ListedArePatched, SuccessMeansPatched

LEMMA TruthfulStep ==
    ASSUME TypeOK, Truthful, [Next]_vars
    PROVE  Truthful'
<1>0. Hooks \subseteq Layers /\ Instr \in Layers /\ Instr \notin Hooks
  BY PatchAssumption DEF Layers
<1>1. ASSUME NEW fn, NEW a \in Addrs \cup {NullAddr}, HookRefusedOrKnown(fn, a)
      PROVE  Truthful'
  <2>1. /\ UNCHANGED <<listed, code>>
        /\ ret'.ok = (a # NullAddr) /\ ret'.addr = a
        /\ a = NullAddr \/ a \in listed
    BY <1>1 DEF HookRefusedOrKnown, Return, engine, AlreadyHooked
  <2>2. QED
    BY <2>1 DEF Truthful, ListedArePatched, SuccessMeansPatched
<1>2. ASSUME NEW fn, NEW a, NEW r, NEW first \in {"dobby", "sand"}, BeginHook(fn, a, r, first)
      PROVE  Truthful'
  <2>1. UNCHANGED <<listed, code>> /\ stage' # "idle"
    BY <1>2 DEF BeginHook, engine
  <2>2. QED
    BY <2>1, NothingAnnounced
<1>3. CASE DobbyRefuse \/ DobbySetOrg \/ SandRefuse \/ SandSetBackup
  <2>1. /\ UNCHANGED <<listed, code>>
        /\ stage' # "idle" \/ ret'.ok = FALSE
    BY <1>3 DEF DobbyRefuse, DobbySetOrg, SandRefuse, SandSetBackup, Return
  <2>2. QED
    BY <2>1, NothingAnnounced
<1>4. CASE DobbyCommit \/ SandOverwrite
  <2>1. /\ op.addr \in Addrs /\ op.rep \in Hooks
        /\ Patch(op.addr, op.rep) /\ listed' \subseteq listed \cup {op.addr}
        /\ ret'.addr = op.addr
    <3>1. op.addr \in Addrs /\ op.rep \in Hooks
      BY <1>4 DEF DobbyCommit, SandOverwrite, TypeOK, Operation
    <3>2. Patch(op.addr, op.rep) /\ listed' \subseteq listed \cup {op.addr}
      BY <1>4 DEF DobbyCommit, SandOverwrite
    <3>3. ret'.addr = op.addr
      <4>1. ASSUME NEW fn, NEW ok, Return(fn, op.addr, ok) PROVE ret'.addr = op.addr
        BY <4>1 DEF Return
      <4>2. QED
        BY <1>4, <4>1 DEF DobbyCommit, SandOverwrite
    <3>4. QED
      BY <3>1, <3>2, <3>3
  <2>2. ListedArePatched' /\ HookPlaces(code'[op.addr]) # {}
    BY <1>0, <2>1, PatchedAndListed
  <2>3. QED
    BY <2>1, <2>2 DEF Truthful, SuccessMeansPatched
<1>5. ASSUME NEW a \in Addrs, UnHook(a) PROVE Truthful'
  <2>1. /\ listed' = listed \ {a} /\ ret'.fn = "unHook"
        /\ \A b \in Addrs \ {a} : code'[b] = code[b]
    BY <1>5 DEF UnHook, Return, TypeOK
  <2>2. QED
    BY <2>1 DEF Truthful, ListedArePatched, SuccessMeansPatched, TypeOK
<1>6. ASSUME NEW a \in Addrs \cup {NullAddr}, AddTrampoline(a) PROVE Truthful'
  <2>1. listed' = listed /\ ret'.fn = "addTrampoline"
    BY <1>6 DEF AddTrampoline, Return
  <2>2. CASE UNCHANGED code
    BY <2>1, <2>2, NothingAnnounced
  <2>3. CASE a \in Addrs /\ Patch(a, Instr)
    <3>1. ListedArePatched'
      BY <1>0, <2>1, <2>3, PatchedAndListed
    <3>2. QED
      BY <2>1, <3>1 DEF Truthful, SuccessMeansPatched
  <2>4. QED
    BY <1>6, <2>2, <2>3 DEF AddTrampoline
<1>7. CASE StartBranchTrampoline \/ UNCHANGED vars
  BY <1>7 DEF StartBranchTrampoline, vars, engine, Truthful, ListedArePatched,
              SuccessMeansPatched
<1>8. ASSUME NEW t \in Callers, CallerStep(t) \/ \E a \in Addrs : CallFunction(t, a)
      PROVE  Truthful'
  <2>1. UNCHANGED <<engine, stage, op, ret>>
    BY <1>8 DEF CallerStep, CallFunction, RunOriginal, RunHandler, EnterReplacement, CallOrg
  <2>2. QED
    BY <2>1 DEF engine, Truthful, ListedArePatched, SuccessMeansPatched
<1>9. QED
  BY <1>1, <1>2, <1>3, <1>4, <1>5, <1>6, <1>7, <1>8
     DEF Next, EngineStep, Hooker, HookerForSign

LEMMA TruthfulInvariant == Spec => []Truthful
<1>1. Init => Truthful
  BY DEF Init, Truthful, ListedArePatched, SuccessMeansPatched
<1>2. TypeOK /\ Truthful /\ [Next]_vars => Truthful'
  BY TruthfulStep
<1>3. QED
  BY <1>1, <1>2, TypeCorrect, PTL DEF Spec

\* hookedList (HookUtils.cpp:22) tells the truth, whatever is unhooked,
\* instrumented or hooked by either engine meanwhile.
THEOREM ListIsTrue == Spec => []ListedArePatched
<1>1. Truthful => ListedArePatched
  BY DEF Truthful
<1>2. QED
  BY <1>1, TruthfulInvariant, PTL

\* A success that Hooker or HookerForSign reports is one, on every path to it.
THEOREM SuccessIsTrue == Spec => []SuccessMeansPatched
<1>1. Truthful => SuccessMeansPatched
  BY DEF Truthful
<1>2. QED
  BY <1>1, TruthfulInvariant, PTL

\* Hooker's own use of the plugin belongs to its second attempt with Dobby.
NearInUse == near => nearAsked \/ (stage \in {"dobby", "commit"} /\ op.attempt = 2)

LEMMA NearStep ==
    ASSUME TypeOK, NearInUse, [Next]_vars
    PROVE  NearInUse'
<1>1. ASSUME NEW fn, NEW a, HookRefusedOrKnown(fn, a) PROVE NearInUse'
  BY <1>1 DEF HookRefusedOrKnown, engine, NearInUse
<1>2. ASSUME NEW fn, NEW a, NEW r, NEW first, BeginHook(fn, a, r, first) PROVE NearInUse'
  BY <1>2 DEF BeginHook, engine, NearInUse
<1>3. CASE DobbyRefuse
  <2>1. CASE op.attempt = 1
    <3>1. near' = near /\ nearAsked' = nearAsked
      BY <1>3, <2>1 DEF DobbyRefuse
    <3>2. near => nearAsked
      BY <2>1 DEF NearInUse
    <3>3. QED
      BY <3>1, <3>2 DEF NearInUse
  <2>2. CASE op.attempt # 1
    BY <1>3, <2>2 DEF DobbyRefuse, NearInUse
  <2>3. QED
    BY <2>1, <2>2
<1>4. CASE DobbySetOrg \/ DobbyCommit
  <2>1. CASE DobbySetOrg
    BY <2>1 DEF DobbySetOrg, NearInUse
  <2>2. CASE DobbyCommit /\ op.attempt = 1
    BY <2>2 DEF DobbyCommit, NearInUse
  <2>3. CASE DobbyCommit /\ op.attempt # 1
    BY <2>3 DEF DobbyCommit, NearInUse
  <2>4. QED
    BY <1>4, <2>1, <2>2, <2>3
<1>5. CASE SandRefuse
  <2>1. CASE op.fn = "Hooker"
    BY <1>5, <2>1 DEF SandRefuse, NearInUse, TypeOK, Operation
  <2>2. CASE op.fn # "Hooker"
    BY <1>5, <2>2 DEF SandRefuse, NearInUse
  <2>3. QED
    BY <2>1, <2>2
<1>6. CASE SandSetBackup \/ SandOverwrite
  BY <1>6 DEF SandSetBackup, SandOverwrite, NearInUse
<1>7. ASSUME NEW a, UnHook(a) \/ AddTrampoline(a) PROVE NearInUse'
  BY <1>7 DEF UnHook, AddTrampoline, NearInUse
<1>8. CASE StartBranchTrampoline \/ UNCHANGED vars
  BY <1>8 DEF StartBranchTrampoline, vars, engine, NearInUse
<1>9. ASSUME NEW t \in Callers, CallerStep(t) \/ \E a \in Addrs : CallFunction(t, a)
      PROVE  NearInUse'
  BY <1>9 DEF CallerStep, CallFunction, RunOriginal, RunHandler, EnterReplacement, CallOrg,
              engine, NearInUse
<1>10. QED
  BY <1>1, <1>2, <1>3, <1>4, <1>5, <1>6, <1>7, <1>8, <1>9
     DEF Next, EngineStep, Hooker, HookerForSign

\* Near branches never stay on after Hooker's last attempt (HookUtils.cpp
\* 111-117), whichever way it ends.
THEOREM NearBranchIsOver == Spec => []NearBranchOnlyAsked
<1>1. Init => NearInUse
  BY DEF Init, NearInUse
<1>2. TypeOK /\ NearInUse /\ [Next]_vars => NearInUse'
  BY NearStep
<1>3. NearInUse => NearBranchOnlyAsked
  BY DEF NearInUse, NearBranchOnlyAsked
<1>4. QED
  BY <1>1, <1>2, <1>3, TypeCorrect, PTL DEF Spec
=============================================================================
