---------------------------- MODULE HookRegistry ----------------------------
(***************************************************************************)
(* HookUtils.cpp: the one place where native functions get replaced, on    *)
(* top of two inline-hook engines, Dobby and SandHook.                     *)
(*                                                                         *)
(* The machine code of a function is the sequence of patches written over  *)
(* its first instructions, the newest last; the empty sequence is the      *)
(* function as it was loaded.  A backup pointer (the "org" argument) is    *)
(* code too: the patches a call through it still runs into, because both   *)
(* engines relocate the instructions they find when they patch.            *)
(*                                                                         *)
(* One thread installs hooks (linker callbacks and JNI_OnLoad run on it);  *)
(* the threads of the application call the functions at any time, between  *)
(* any two writes of an installation.                                      *)
(***************************************************************************)
EXTENDS Naturals, Sequences

CONSTANTS
    Addrs,       \* functions of the process
    NullAddr,    \* what a failed symbol lookup returns
    Reps,        \* replacement functions ("new_..." in the hooking code)
    NullRep,     \* a null replacement pointer
    Instr,       \* the patch of DobbyInstrument: a handler, then the function
    NoEntry,     \* no Interceptor entry for an address
    Unset,       \* a backup pointer nobody has written yet
    Requests,    \* the <<address, replacement>> pairs the program hooks
    Callers,     \* threads of the application
    Api,         \* the operations of HookUtils the program uses
    MaxLayers    \* bound: patches on one function

Hooks == Reps \cup {NullRep}     \* patches that redirect a function
Layers == Hooks \cup {Instr}     \* all patches

ASSUME PatchAssumption ==
    /\ NullRep \notin Reps /\ Instr \notin Hooks
    /\ NullAddr \notin Addrs
    /\ NoEntry \notin Seq(Layers) /\ Unset \notin Seq(Layers)
    /\ Unset \notin Hooks

\* The program passes every replacement for one function only.
ASSUME RequestsAssumption ==
    /\ Requests \subseteq (Addrs \cup {NullAddr}) \X Hooks
    /\ \A p, q \in Requests : p[2] = q[2] /\ p[2] \in Reps
          /\ p[1] # NullAddr /\ q[1] # NullAddr => p[1] = q[1]

ASSUME MaxLayersAssumption == MaxLayers \in Nat

VARIABLES
    listed,      \* hookedList, as a set: only membership is ever asked
    entries,     \* Dobby's Interceptor: the instructions saved per address
    code,        \* the patches on each function
    org,         \* the backup pointer of each replacement
    near,        \* Dobby's near-branch plugin is enabled
    nearAsked,   \* history: startBranchTrampoline was called
    stage,       \* where the operation in progress stands
    op,          \* its function, arguments and Dobby attempt
    ret,         \* the last finished operation and what it returned
    call         \* the call each application thread is in

engine == <<listed, entries, code, org, near, nearAsked>>
vars == <<engine, stage, op, ret, call>>

Fns == {"Hooker", "HookerForSign", "unHook", "addTrampoline",
        "startBranchTrampoline"}
ASSUME ApiAssumption == Api \subseteq Fns

Operation == [fn : Fns, addr : Addrs \cup {NullAddr}, rep : Hooks,
              attempt : 1..2]
Answer == [fn : Fns, addr : Addrs \cup {NullAddr}, ok : BOOLEAN]
Call == [pc : {"idle", "run", "in"}, cur : Seq(Layers), at : Nat,
         rep : Hooks, seen : SUBSET Reps]

TypeOK ==
    /\ listed \in SUBSET Addrs
    /\ entries \in [Addrs -> Seq(Layers) \cup {NoEntry}]
    /\ code \in [Addrs -> Seq(Layers)]
    /\ org \in [Hooks -> Seq(Layers) \cup {Unset}]
    /\ near \in BOOLEAN /\ nearAsked \in BOOLEAN
    /\ stage \in {"idle", "dobby", "commit", "sand", "overwrite"}
    /\ op \in Operation
    /\ stage # "idle" => op.addr \in Addrs
    /\ ret \in Answer
    /\ call \in [Callers -> Call]

Init ==
    /\ listed = {}
    /\ entries = [a \in Addrs |-> NoEntry]
    /\ code = [a \in Addrs |-> <<>>]
    /\ org = [r \in Hooks |-> Unset]
    /\ near = FALSE /\ nearAsked = FALSE
    /\ stage = "idle"
    /\ op = [fn |-> "Hooker", addr |-> NullAddr, rep |-> NullRep, attempt |-> 1]
    /\ ret = [fn |-> "Hooker", addr |-> NullAddr, ok |-> FALSE]
    /\ call = [t \in Callers |-> [pc |-> "idle", cur |-> <<>>, at |-> 0,
                                  rep |-> NullRep, seen |-> {}]]

------------------------------------------------------------------------------
(* Operations of HookUtils.                                                *)

Return(fn, a, ok) ==
    /\ stage' = "idle"
    /\ ret' = [fn |-> fn, addr |-> a, ok |-> ok]

Patch(a, layer) == code' = [code EXCEPT ![a] = Append(@, layer)]

\* Bug: hookedList is filled but never searched.
BugAlreadyHooked(a) == FALSE

\* HookUtils looks the address up before it touches an engine.
AlreadyHooked(a) == a \in listed

\* Null addresses are refused; a listed one counts as hooked.
HookRefusedOrKnown(fn, a) ==
    /\ stage = "idle"
    /\ a = NullAddr \/ AlreadyHooked(a)
    /\ Return(fn, a, a # NullAddr)
    /\ UNCHANGED <<engine, op, call>>

BeginHook(fn, a, r, first) ==
    /\ stage = "idle"
    /\ a # NullAddr /\ ~AlreadyHooked(a)
    /\ Len(code[a]) < MaxLayers
    /\ stage' = first
    /\ op' = [fn |-> fn, addr |-> a, rep |-> r, attempt |-> 1]
    /\ UNCHANGED <<engine, ret, call>>

Hooker(a, r) ==
    /\ "Hooker" \in Api /\ <<a, r>> \in Requests
    /\ HookRefusedOrKnown("Hooker", a) \/ BeginHook("Hooker", a, r, "dobby")

HookerForSign(a, r) ==
    /\ "HookerForSign" \in Api /\ <<a, r>> \in Requests
    /\ \/ HookRefusedOrKnown("HookerForSign", a)
       \/ BeginHook("HookerForSign", a, r, "sand")

\* Bug: the second failure leaves the near-branch plugin on.
BugDobbyRefuse ==
    /\ stage = "dobby"
    /\ IF op.attempt = 1
       THEN stage' = "sand" /\ UNCHANGED ret
       ELSE Return("Hooker", op.addr, FALSE)
    /\ UNCHANGED <<listed, entries, code, org, near, nearAsked, op, call>>

\* DobbyHook fails: the page cannot be made executable, or the address has an
\* entry.  Hooker then tries SandHook, and after the second failure gives up.
DobbyRefuse ==
    /\ stage = "dobby"
    /\ IF op.attempt = 1
       THEN /\ stage' = "sand"
            /\ UNCHANGED <<near, ret>>
       ELSE /\ near' = FALSE
            /\ Return("Hooker", op.addr, FALSE)
    /\ UNCHANGED <<listed, entries, code, org, nearAsked, op, call>>

\* Bug: the backup is left to be published after the patch.
BugSetOrgLate ==
    /\ stage = "dobby"
    /\ entries[op.addr] = NoEntry
    /\ stage' = "commit"
    /\ UNCHANGED <<listed, entries, code, org, near, nearAsked, op, ret, call>>

\* Bug: the backup is taken from the entry, which is not filled in yet.
BugSetOrgFromEntry ==
    /\ stage = "dobby"
    /\ entries[op.addr] = NoEntry
    /\ org' = [org EXCEPT ![op.rep] = entries[op.addr]]
    /\ stage' = "commit"
    /\ UNCHANGED <<listed, entries, code, near, nearAsked, op, ret, call>>

\* DobbyHook relocates the instructions and publishes the backup first ...
DobbySetOrg ==
    /\ stage = "dobby"
    /\ entries[op.addr] = NoEntry
    /\ org' = [org EXCEPT ![op.rep] = code[op.addr]]
    /\ stage' = "commit"
    /\ UNCHANGED <<listed, entries, code, near, nearAsked, op, ret, call>>

\* ... then patches the function and adds the entry; Hooker lists the address.
DobbyCommit ==
    /\ stage = "commit"
    /\ Patch(op.addr, op.rep)
    /\ entries' = [entries EXCEPT ![op.addr] = code[op.addr]]
    /\ near' = IF op.attempt = 1 THEN near ELSE FALSE
    /\ listed' = listed \cup {op.addr}
    /\ Return("Hooker", op.addr, TRUE)
    /\ UNCHANGED <<org, nearAsked, op, call>>

\* SandHook refuses only a null replacement; Hooker's last resort is Dobby
\* once more, with near branches.
SandRefuse ==
    /\ stage = "sand"
    /\ op.rep = NullRep
    /\ IF op.fn = "Hooker"
       THEN /\ near' = TRUE
            /\ op' = [op EXCEPT !.attempt = 2]
            /\ stage' = "dobby"
            /\ UNCHANGED ret
       ELSE /\ Return(op.fn, op.addr, FALSE)
            /\ UNCHANGED <<near, op>>
    /\ UNCHANGED <<listed, entries, code, org, nearAsked, call>>

SandSetBackup ==
    /\ stage = "sand"
    /\ op.rep # NullRep
    /\ org' = [org EXCEPT ![op.rep] = code[op.addr]]
    /\ stage' = "overwrite"
    /\ UNCHANGED <<listed, entries, code, near, nearAsked, op, ret, call>>

\* The listing is Hooker's: HookerForSign returns SandHook's answer as it is.
SandOverwrite ==
    /\ stage = "overwrite"
    /\ Patch(op.addr, op.rep)
    /\ listed' = IF op.fn = "Hooker" THEN listed \cup {op.addr} ELSE listed
    /\ Return(op.fn, op.addr, TRUE)
    /\ UNCHANGED <<entries, org, near, nearAsked, op, call>>

\* Bug: the address stays on the list.
BugUnHookKeepsListed(a) ==
    /\ "unHook" \in Api
    /\ stage = "idle"
    /\ code' = [code EXCEPT ![a] = IF entries[a] = NoEntry THEN @ ELSE entries[a]]
    /\ entries' = [entries EXCEPT ![a] = NoEntry]
    /\ Return("unHook", a, entries[a] # NoEntry)
    /\ UNCHANGED <<listed, org, near, nearAsked, op, call>>

\* DobbyDestroy writes the saved instructions back, whatever was patched over
\* them since; the address leaves the list whether or not Dobby knew it.
UnHook(a) ==
    /\ "unHook" \in Api
    /\ stage = "idle"
    /\ code' = [code EXCEPT ![a] = IF entries[a] = NoEntry THEN @ ELSE entries[a]]
    /\ entries' = [entries EXCEPT ![a] = NoEntry]
    /\ listed' = listed \ {a}
    /\ Return("unHook", a, entries[a] # NoEntry)
    /\ UNCHANGED <<org, near, nearAsked, op, call>>

\* DobbyInstrument refuses a null address, an address with an entry and a page
\* it cannot make executable.  The list of HookUtils is not consulted.
AddTrampoline(a) ==
    /\ "addTrampoline" \in Api
    /\ stage = "idle"
    /\ \/ /\ Return("addTrampoline", a, FALSE)
          /\ UNCHANGED <<entries, code>>
       \/ /\ a \in Addrs /\ entries[a] = NoEntry /\ Len(code[a]) < MaxLayers
          /\ Patch(a, Instr)
          /\ entries' = [entries EXCEPT ![a] = code[a]]
          /\ Return("addTrampoline", a, TRUE)
    /\ UNCHANGED <<listed, org, near, nearAsked, op, call>>

StartBranchTrampoline ==
    /\ "startBranchTrampoline" \in Api
    /\ stage = "idle"
    /\ near' = TRUE /\ nearAsked' = TRUE
    /\ UNCHANGED <<listed, entries, code, org, stage, op, ret, call>>

EngineStep == DobbyRefuse \/ DobbySetOrg \/ DobbyCommit
              \/ SandRefuse \/ SandSetBackup \/ SandOverwrite

------------------------------------------------------------------------------
(* The application calls hooked functions.                                 *)

\* Run the code c from its newest patch on.
RunCode(t, c, seen) ==
    call' = [call EXCEPT ![t] = [pc |-> "run", cur |-> c, at |-> Len(c),
                                 rep |-> @.rep, seen |-> seen]]

CallFunction(t, a) ==
    /\ call[t].pc = "idle"
    /\ RunCode(t, code[a], {})
    /\ UNCHANGED <<engine, stage, op, ret>>

\* No patch is left: the function itself runs and the call returns.
RunOriginal(t) ==
    /\ call[t].pc = "run" /\ call[t].at = 0
    /\ call' = [call EXCEPT ![t].pc = "idle"]
    /\ UNCHANGED <<engine, stage, op, ret>>

\* An instrumented function runs the handler and continues.
RunHandler(t) ==
    /\ call[t].pc = "run" /\ call[t].at > 0
    /\ call[t].cur[call[t].at] = Instr
    /\ call' = [call EXCEPT ![t].at = @ - 1]
    /\ UNCHANGED <<engine, stage, op, ret>>

EnterReplacement(t) ==
    LET c == call[t]
        r == c.cur[c.at]
    IN  /\ c.pc = "run" /\ c.at > 0
        /\ r \in Reps
        /\ call' = [call EXCEPT ![t] = [c EXCEPT !.pc = "in", !.rep = r,
                                                !.seen = c.seen \cup {r}]]
        /\ UNCHANGED <<engine, stage, op, ret>>

\* A replacement calls its backup pointer; an unset one would crash here.
CallOrg(t) ==
    /\ call[t].pc = "in"
    /\ org[call[t].rep] # Unset
    /\ RunCode(t, org[call[t].rep], call[t].seen)
    /\ UNCHANGED <<engine, stage, op, ret>>

CallerStep(t) ==
    RunOriginal(t) \/ RunHandler(t) \/ EnterReplacement(t) \/ CallOrg(t)

Next ==
    \/ \E a \in Addrs \cup {NullAddr}, r \in Hooks :
          Hooker(a, r) \/ HookerForSign(a, r)
    \/ EngineStep
    \/ \E a \in Addrs : UnHook(a)
    \/ \E a \in Addrs \cup {NullAddr} : AddTrampoline(a)
    \/ StartBranchTrampoline
    \/ \E t \in Callers :
          \/ \E a \in Addrs : CallFunction(t, a)
          \/ CallerStep(t)

Spec == Init /\ [][Next]_vars

\* A runnable thread of the application is scheduled again.
FairSpec == Spec /\ \A t \in Callers : WF_vars(CallerStep(t))

------------------------------------------------------------------------------
(* Properties.                                                             *)

\* The patches of a function that redirect it: their places in its code.
HookPlaces(c) == {i \in DOMAIN c : c[i] \in Hooks}

\* hookedList exists so that no function is hooked twice (HookUtils.cpp:22):
\* at most one redirecting patch is on a function, although two engines that
\* know nothing of each other write them.
HookedAtMostOnce ==
    \A a \in Addrs : \A i, j \in HookPlaces(code[a]) : i = j

\* A thread that entered a replacement finds its backup pointer written: the
\* engines publish it before the patch that leads there (FunctionInlineHook.cc
\* 42-46, inline_hook_arm64.cc 46-53).
OrgReadyWhenEntered ==
    \A t \in Callers : call[t].pc = "in" => org[call[t].rep] # Unset

\* No call comes back into a replacement it already went through: a backup
\* pointer never leads to a patch that leads to its own replacement.
NoReentry ==
    \A t \in Callers :
        call[t].pc = "run" /\ call[t].at > 0
            => call[t].cur[call[t].at] \notin call[t].seen

\* Calls of hooked functions return, however installations interleave.
CallsReturn == \A t \in Callers : call[t].pc # "idle" ~> call[t].pc = "idle"

\* What hookedList says is true: a listed function is redirected, so that
\* answering "already hooked" (HookUtils.cpp:82-88) never hides a live original.
ListedArePatched == \A a \in listed : HookPlaces(code[a]) # {}

\* Success means what the caller reads into it: after Hooker or HookerForSign
\* returned true the function is redirected, whichever engine or short cut
\* produced the answer.
SuccessMeansPatched ==
    stage = "idle" /\ ret.ok /\ ret.fn \in {"Hooker", "HookerForSign"}
        => HookPlaces(code[ret.addr]) # {}

\* Near branches stay on only for those who asked: Hooker's own use of the
\* plugin (HookUtils.cpp:111-117) is over when it returns, on every path.
NearBranchOnlyAsked ==
    near => nearAsked \/ (stage # "idle" /\ op.attempt = 2)

\* The replacement a call of a function reaches, for the abstract table.
HooksOn(c) == {c[i] : i \in HookPlaces(c)}
Owner(a) == IF HooksOn(code[a]) = {} THEN Unset
            ELSE CHOOSE r \in HooksOn(code[a]) : TRUE

Table == INSTANCE HookTable
           WITH Reps <- Hooks, NoOwner <- Unset, owner <- [a \in Addrs |-> Owner(a)]

\* The registry implements the abstract table: the first replacement installed
\* on a function is the one that stays.
ImplementsTable == Table!Spec

------------------------------------------------------------------------------
(* Why the properties hold for the tracer, which neither unhooks nor uses   *)
(* HookerForSign: whatever is not listed is clean, so every backup pointer  *)
(* is a snapshot of clean code, and a call meets at most one replacement.   *)

TracerApi == Api \cap {"unHook", "HookerForSign"} = {}

Clean(c) == \A i \in DOMAIN c : c[i] \notin Hooks
OneHook(c) == \A i, j \in DOMAIN c : c[i] \in Hooks /\ c[j] \in Hooks => i = j
OrgsReady(c) == \A i \in DOMAIN c : c[i] \in Hooks => org[c[i]] # Unset

UnlistedClean ==
    /\ \A a \in Addrs \ listed : Clean(code[a])
    /\ stage # "idle" => op.fn = "Hooker" /\ op.addr \notin listed

CodeInv == \A a \in Addrs : OneHook(code[a]) /\ OrgsReady(code[a])

OrgInv ==
    /\ \A r \in Hooks : org[r] # Unset => Clean(org[r])
    /\ stage \in {"commit", "overwrite"} => org[op.rep] # Unset

CallInv ==
    \A t \in Callers :
        /\ call[t].pc = "run" =>
              /\ call[t].at <= Len(call[t].cur)
              /\ OneHook(call[t].cur) /\ OrgsReady(call[t].cur)
              /\ call[t].seen # {} => Clean(call[t].cur)
        /\ call[t].pc = "in" => org[call[t].rep] # Unset

IInv == TypeOK /\ UnlistedClean /\ CodeInv /\ OrgInv /\ CallInv
=============================================================================
