------------------------ MODULE Il2cppTracer_proofs ------------------------
(***************************************************************************)
(* What instrumenting without locks still promises, for any hack threads,  *)
(* loads, game threads, methods and addresses.                             *)
(***************************************************************************)
EXTENDS Il2cppTracer, FiniteSetTheorems, TLAPS

Pcs == {"none", "open", "wait", "ready", "scan", "patch", "add", "push", "close", "done"}
HackState == [pc : Pcs, at : 1..(Len(MethodOrder) + 1)]

\* Between looking for an entry and recording the method.
Inside(h) == hack[h].pc \in {"patch", "add", "push"}

\* A thread instruments a method of the list that has code.
AtMethod ==
    \A h \in Hacks : Inside(h) =>
        hack[h].at \in 1..Len(MethodOrder) /\ Method(h) \in Methods /\ Address(h) \in Addrs

\* Unless they overlapped, one thread traces at a time.
Alone == ~overlapped => \A g, h \in Hacks : Scanning(g) /\ Scanning(h) => g = h

\* Then an address with a trampoline has an entry, or is about to get it, and
\* one that is about to be patched has no trampoline.
Once ==
    ~overlapped =>
        /\ \A a \in Addrs : /\ patches[a] <= 1
                            /\ patches[a] = 1 => \/ a \in entries
                                                 \/ \E h \in Hacks : /\ hack[h].pc = "add"
                                                                     /\ Address(h) = a
        /\ \A h \in Hacks : hack[h].pc = "patch" => patches[Address(h)] = 0

\* Callbacks run in trampolines.
Callers ==
    \A t \in Game : game[t].left > 0 => game[t].addr \in Addrs /\ patches[game[t].addr] > 0

Steady == AtMethod /\ Alone /\ Once /\ TrampolinesAreRecorded /\ Callers
IInv == TypeOK /\ Steady

LEMMA HackIs == TypeOK => hack \in [Hacks -> HackState] /\ Len(MethodOrder) \in Nat
BY PointerAssumption DEF TypeOK, HackState, Pcs

LEMMA MethodIs ==
    ASSUME TypeOK, NEW h \in Hacks, hack[h].at <= Len(MethodOrder)
    PROVE  /\ hack[h].at \in 1..Len(MethodOrder) /\ hack[h].at + 1 \in 1..(Len(MethodOrder) + 1)
           /\ Method(h) \in Methods
           /\ Address(h) \in Addrs \cup {NullAddr}
<1>1. hack[h].at \in 1..Len(MethodOrder) /\ hack[h].at + 1 \in 1..(Len(MethodOrder) + 1)
  BY HackIs DEF HackState
<1>2. Method(h) \in Methods
  BY <1>1, PointerAssumption DEF Method, Methods
<1>3. QED
  BY <1>1, <1>2, PointerAssumption DEF Address

\* The trampolines of an address that have infos are finitely many.
LEMMA InfosFinite ==
    ASSUME TypeOK, NEW a
    PROVE  IsFiniteSet(InfosOf(a)) /\ Cardinality(InfosOf(a)) \in Nat
<1>1. Len(infos) \in Nat /\ DOMAIN infos = 1..Len(infos)
  BY DEF TypeOK
<1>2. IsFiniteSet(1..Len(infos))
  BY <1>1, FS_Interval
<1>3. InfosOf(a) \subseteq 1..Len(infos)
  BY <1>1 DEF InfosOf
<1>4. QED
  BY <1>2, <1>3, FS_Subset, FS_CardinalityType

LEMMA InitOK == Init => IInv
<1> SUFFICES ASSUME Init PROVE IInv
  OBVIOUS
<1>1. TypeOK
  <2>1. Len(MethodOrder) \in Nat /\ <<>> \in Seq(Methods \X Addrs)
    BY PointerAssumption
  <2>2. hack \in [Hacks -> HackState]
    <3>1. 1 \in 1..(Len(MethodOrder) + 1)
      BY <2>1
    <3>2. QED
      BY <3>1 DEF Init, HackState, Pcs
  <2>3. patches \in [Addrs -> Nat] /\ game \in [Game -> [addr : Addrs \cup {NullAddr}, left : Nat]]
    BY DEF Init
  <2>4. QED
    BY <2>1, <2>2, <2>3 DEF Init, TypeOK, HackState, Pcs
<1>2. ASSUME NEW a PROVE InfosOf(a) = {} /\ InWindow(a) = {}
  BY DEF Init, InfosOf, InWindow
<1>3. TrampolinesAreRecorded
  <2>1. Cardinality({}) = 0
    BY FS_EmptySet
  <2>2. \A a \in Addrs : patches[a] = Cardinality({}) + Cardinality({})
    BY <2>1 DEF Init
  <2>3. QED
    BY <1>2, <2>2, Zenon DEF TrampolinesAreRecorded
<1>4. AtMethod /\ Alone /\ Once /\ Callers
  BY DEF Init, AtMethod, Alone, Once, Callers, Inside, Scanning
<1>5. QED
  BY <1>1, <1>3, <1>4 DEF IInv, Steady

------------------------------------------------------------------------------
(* Steps.                                                                   *)

\* A hack thread goes on, neither from nor to an instrumentation.
LEMMA Passing ==
    ASSUME IInv, NEW h \in Hacks, NEW w \in HackState, hack' = [hack EXCEPT ![h] = w],
           ~Inside(h), w.pc \notin {"patch", "add", "push"},
           UNCHANGED <<entries, patches, infos, game>>,
           \/ overlapped' = overlapped /\ (w.pc = "scan" => hack[h].pc = "scan")
           \/ overlapped' = (overlapped \/ \E g \in Hacks : Scanning(g))
    PROVE  Steady'
<1>1. /\ hack \in [Hacks -> HackState] /\ hack'[h] = w
      /\ \A g \in Hacks \ {h} : hack'[g] = hack[g]
  BY HackIs DEF IInv
<1>2. /\ ~Inside(h)'
      /\ \A g \in Hacks : Inside(g)' = Inside(g)
      /\ \A g \in Hacks \ {h} : Method(g)' = Method(g) /\ Address(g)' = Address(g)
  BY <1>1 DEF Inside, Method, Address
<1>3. ~overlapped' => ~overlapped
  OBVIOUS
<1>4. AtMethod'
  BY <1>1, <1>2 DEF AtMethod, Inside, IInv, Steady
<1>5. Alone'
  <2> SUFFICES ASSUME ~overlapped', NEW f \in Hacks, NEW g \in Hacks,
                      Scanning(f)', Scanning(g)'
               PROVE  f = g
    BY DEF Alone
  <2>1. CASE overlapped' = overlapped /\ (w.pc = "scan" => hack[h].pc = "scan")
    <3>1. Scanning(f) /\ Scanning(g)
      BY <1>1, <2>1 DEF Scanning
    <3>2. QED
      BY <1>3, <3>1 DEF IInv, Steady, Alone
  <2>2. CASE overlapped' = (overlapped \/ \E k \in Hacks : Scanning(k))
    <3>1. \A k \in Hacks : ~Scanning(k)
      BY <2>2
    <3>2. f = h /\ g = h
      BY <1>1, <3>1 DEF Scanning
    <3>3. QED
      BY <3>2
  <2>3. QED
    BY <2>1, <2>2
<1>6. Once'
  BY <1>1, <1>2, <1>3 DEF Once, Inside, IInv, Steady
<1>7. TrampolinesAreRecorded'
  <2>1. ASSUME NEW a PROVE InfosOf(a)' = InfosOf(a) /\ InWindow(a)' = InWindow(a)
    BY <1>1, <1>2 DEF InfosOf, InWindow, Inside
  <2>2. QED
    BY <1>3, <2>1 DEF TrampolinesAreRecorded, IInv, Steady
<1>8. Callers'
  BY DEF Callers, IInv, Steady
<1>9. QED
  BY <1>4, <1>5, <1>6, <1>7, <1>8 DEF Steady

\* No hack thread moves.
LEMMA Resting ==
    ASSUME IInv, UNCHANGED <<entries, patches, infos, hack, overlapped>>, Callers'
    PROVE  Steady'
<1>1. AtMethod' /\ Alone'
  BY DEF IInv, Steady, AtMethod, Alone, Inside, Scanning, Method, Address
<1>2. Once'
  BY DEF IInv, Steady, Once, Method, Address
<1>3. TrampolinesAreRecorded'
  BY DEF IInv, Steady, TrampolinesAreRecorded, InfosOf, InWindow, Method, Address
<1>4. QED
  BY <1>1, <1>2, <1>3 DEF Steady

\* Setting up, loads, and the steps of a hack thread up to the list and after it.
LEMMA Around ==
    ASSUME IInv, \/ hookLinkerCallBack \/ VmInit
                 \/ \E ok \in BOOLEAN : LoadIl2cpp(ok)
                 \/ \E h \in Hacks : \/ HackOpen(h) \/ HackWaited(h) \/ HackDump(h)
                                     \/ HackTrace(h) \/ HackFinish(h) \/ HackClose(h)
    PROVE  IInv'
<1>1. TypeOK /\ hack \in [Hacks -> HackState]
  BY HackIs DEF IInv
<1>2. CASE hookLinkerCallBack \/ VmInit
  <2>1. TypeOK'
    BY <1>1, <1>2 DEF hookLinkerCallBack, VmInit, TypeOK, dobby
  <2>2. UNCHANGED <<entries, patches, infos, hack, overlapped, game>>
    BY <1>2 DEF hookLinkerCallBack, VmInit, dobby
  <2>3. QED
    BY <2>1, <2>2, Resting DEF IInv, Steady, Callers
<1>3. CASE \E ok \in BOOLEAN : LoadIl2cpp(ok)
  <2>1. /\ UNCHANGED <<entries, patches, infos, overlapped, game>>
        /\ UNCHANGED <<isTraceIl2cpp, exported, perClass, setup, vmReady, crashed, near, failed>>
        /\ loaded' \in BOOLEAN
    BY <1>1, <1>3 DEF LoadIl2cpp, dobby, TypeOK
  <2>2. CASE hack' = hack
    <3>1. TypeOK'
      BY <1>1, <2>1, <2>2 DEF TypeOK
    <3>2. QED
      BY <2>1, <2>2, <3>1, Resting DEF IInv, Steady, Callers
  <2>3. ASSUME NEW h \in Hacks, hack[h].pc = "none", hack' = [hack EXCEPT ![h].pc = "open"]
        PROVE  IInv'
    <3> DEFINE w == [hack[h] EXCEPT !.pc = "open"]
    <3>1. w \in HackState /\ w.pc = "open" /\ hack' = [hack EXCEPT ![h] = w]
      BY <1>1, <2>3 DEF HackState, Pcs
    <3> HIDE DEF w
    <3>2. hack' \in [Hacks -> HackState]
      BY <1>1, <3>1
    <3>3. TypeOK'
      BY <1>1, <2>1, <3>2 DEF TypeOK, HackState, Pcs
    <3>4. Steady'
      BY <2>1, <2>3, <3>1, Passing DEF Inside
    <3>5. QED
      BY <3>3, <3>4 DEF IInv
  <2>4. QED
    BY <1>3, <2>2, <2>3 DEF LoadIl2cpp
<1>4. ASSUME NEW h \in Hacks,
             \/ HackOpen(h) \/ HackWaited(h) \/ HackDump(h)
             \/ HackTrace(h) \/ HackFinish(h) \/ HackClose(h)
      PROVE  IInv'
  <2>1. PICK pc \in {"wait", "done", "ready", "close", "scan"} :
           /\ GoTo(h, pc) /\ ~Inside(h)
           /\ \/ overlapped' = overlapped /\ pc # "scan"
              \/ overlapped' = (overlapped \/ \E g \in Hacks : Scanning(g))
    BY <1>4 DEF HackOpen, HackWaited, HackDump, HackTrace, HackFinish, HackClose, AtPc, Inside
  <2>2. /\ UNCHANGED <<entries, patches, infos, game>>
        /\ UNCHANGED <<isTraceIl2cpp, exported, perClass, setup, loaded, vmReady, failed>>
        /\ near' \in BOOLEAN /\ crashed' \in BOOLEAN /\ overlapped' \in BOOLEAN
    BY <1>1, <1>4 DEF HackOpen, HackWaited, HackDump, HackTrace, HackFinish, HackClose,
       lib, dobby, TypeOK
  <2> DEFINE w == [hack[h] EXCEPT !.pc = pc]
  <2>3. w \in HackState /\ w.pc = pc /\ hack' = [hack EXCEPT ![h] = w]
    BY <1>1, <2>1 DEF HackState, Pcs, GoTo
  <2> HIDE DEF w
  <2>4. hack' \in [Hacks -> HackState]
    BY <1>1, <2>3
  <2>5. TypeOK'
    BY <1>1, <2>2, <2>4 DEF TypeOK, HackState, Pcs
  <2>6. Steady'
    BY <2>1, <2>2, <2>3, Passing
  <2>7. QED
    BY <2>5, <2>6 DEF IInv
<1>5. QED
  BY <1>2, <1>3, <1>4

LEMMA Plays ==
    ASSUME IInv, NEW t \in Game,
           instrument_callback(t) \/ \E a \in Addrs : RunMethod(t, a)
    PROVE  IInv'
<1>1. /\ UNCHANGED <<isTraceIl2cpp, exported, perClass, setup, loaded, vmReady>>
      /\ UNCHANGED <<crashed, near, failed>>
      /\ UNCHANGED <<entries, patches, infos, hack, overlapped>>
  BY DEF instrument_callback, RunMethod, lib, dobby
<1>2. game \in [Game -> [addr : Addrs \cup {NullAddr}, left : Nat]] /\ patches \in [Addrs -> Nat]
  BY DEF IInv, TypeOK
<1>3. /\ game' \in [Game -> [addr : Addrs \cup {NullAddr}, left : Nat]]
      /\ \A u \in Game : game'[u].left > 0 => game'[u].addr \in Addrs /\ patches[game'[u].addr] > 0
  <2>1. CASE instrument_callback(t)
    <3> DEFINE w == [game[t] EXCEPT !.left = @ - 1]
    <3>1. game[t].left > 0 /\ game' = [game EXCEPT ![t] = w]
      BY <2>1 DEF instrument_callback
    <3>2. w \in [addr : Addrs \cup {NullAddr}, left : Nat] /\ w.addr = game[t].addr
      BY <1>2, <3>1
    <3> HIDE DEF w
    <3>3. QED
      BY <1>2, <3>1, <3>2 DEF IInv, Steady, Callers
  <2>2. ASSUME NEW a \in Addrs, RunMethod(t, a)
        PROVE  /\ game' \in [Game -> [addr : Addrs \cup {NullAddr}, left : Nat]]
               /\ \A u \in Game :
                     game'[u].left > 0 => game'[u].addr \in Addrs /\ patches[game'[u].addr] > 0
    <3> DEFINE w == [addr |-> a, left |-> patches[a]]
    <3>1. patches[a] > 0 /\ game' = [game EXCEPT ![t] = w]
      BY <2>2 DEF RunMethod
    <3>2. w \in [addr : Addrs \cup {NullAddr}, left : Nat] /\ w.addr = a
      BY <1>2
    <3> HIDE DEF w
    <3>3. QED
      BY <1>2, <3>1, <3>2 DEF IInv, Steady, Callers
  <2>3. QED
    BY <2>1, <2>2
<1>4. TypeOK'
  BY <1>1, <1>3 DEF IInv, TypeOK
<1>5. Steady'
  BY <1>1, <1>3, Resting DEF Callers
<1>6. QED
  BY <1>4, <1>5 DEF IInv

------------------------------------------------------------------------------
(* Instrumenting a method.                                                  *)

\* The steps between looking for an entry and recording the method: one hack
\* thread moves and stays at its method, or goes on to the next.
LEMMA Inner ==
    ASSUME IInv, NEW h \in Hacks, NEW w \in HackState, hack' = [hack EXCEPT ![h] = w],
           Scanning(h), w.pc \in {"scan", "patch", "add", "push"},
           w.pc # "scan" => w.at = hack[h].at /\ hack[h].at \in 1..Len(MethodOrder)
                            /\ Method(h) \in Methods /\ Address(h) \in Addrs,
           overlapped' = overlapped
    PROVE  /\ hack \in [Hacks -> HackState] /\ hack' \in [Hacks -> HackState] /\ hack'[h] = w
           /\ \A g \in Hacks \ {h} : /\ hack'[g] = hack[g]
                                     /\ Method(g)' = Method(g) /\ Address(g)' = Address(g)
           /\ w.pc # "scan" => Method(h)' = Method(h) /\ Address(h)' = Address(h)
           /\ AtMethod' /\ Alone'
           /\ ~overlapped => \A g \in Hacks \ {h} : ~Scanning(g) /\ ~Inside(g)
<1>1. /\ hack \in [Hacks -> HackState] /\ hack' \in [Hacks -> HackState] /\ hack'[h] = w
      /\ \A g \in Hacks \ {h} : hack'[g] = hack[g]
  BY HackIs DEF IInv
<1>2. /\ \A g \in Hacks \ {h} : Method(g)' = Method(g) /\ Address(g)' = Address(g)
      /\ w.pc # "scan" => Method(h)' = Method(h) /\ Address(h)' = Address(h)
  BY <1>1 DEF Method, Address
<1>3. AtMethod'
  BY <1>1, <1>2 DEF AtMethod, Inside, IInv, Steady
<1>4. Alone'
  BY <1>1 DEF Alone, Scanning, IInv, Steady
<1>5. ~overlapped => \A g \in Hacks \ {h} : ~Scanning(g) /\ ~Inside(g)
  BY DEF Alone, Scanning, Inside, IInv, Steady
<1>6. QED
  BY <1>1, <1>2, <1>3, <1>4, <1>5

\* A method is skipped or refused, or looks new.
LEMMA Finds ==
    ASSUME IInv, NEW h \in Hacks, HackFind(h)
    PROVE  IInv'
<1>1. /\ TypeOK /\ hack \in [Hacks -> HackState] /\ hack[h].pc = "scan" /\ Scanning(h) /\ ~Inside(h)
      /\ UNCHANGED <<isTraceIl2cpp, exported, perClass, setup, loaded, vmReady, crashed, near>>
      /\ UNCHANGED <<entries, patches, infos, overlapped, game>>
  BY HackIs DEF IInv, HackFind, AtPc, Scanning, Inside, lib, dobby
<1>2. /\ hack[h].at \in 1..Len(MethodOrder) /\ hack[h].at + 1 \in 1..(Len(MethodOrder) + 1)
      /\ Method(h) \in Methods /\ Address(h) \in Addrs \cup {NullAddr}
  BY <1>1, MethodIs DEF HackFind
<1>3. failed' \in SUBSET Methods
  BY <1>1, <1>2 DEF HackFind, TypeOK
<1>4. CASE NextMethod(h)
  <2> DEFINE w == [pc |-> "scan", at |-> hack[h].at + 1]
  <2>1. w \in HackState /\ w.pc = "scan" /\ hack' = [hack EXCEPT ![h] = w]
    BY <1>2, <1>4 DEF HackState, Pcs, NextMethod
  <2> HIDE DEF w
  <2>2. hack' \in [Hacks -> HackState]
    BY <1>1, <2>1
  <2>3. TypeOK'
    BY <1>1, <1>3, <2>2 DEF TypeOK, HackState, Pcs
  <2>4. Steady'
    BY <1>1, <2>1, Passing
  <2>5. QED
    BY <2>3, <2>4 DEF IInv
<1>5. CASE GoTo(h, "patch") /\ Instrumentable(h) /\ ~HasEntry(Address(h))
  <2> DEFINE w == [hack[h] EXCEPT !.pc = "patch"]
  <2>1. /\ w \in HackState /\ w.pc = "patch" /\ w.at = hack[h].at
        /\ hack' = [hack EXCEPT ![h] = w]
    BY <1>1, <1>5 DEF HackState, Pcs, GoTo
  <2> HIDE DEF w
  <2>2. Address(h) \in Addrs /\ Address(h) \notin entries
    BY <1>2, <1>5 DEF Instrumentable, HasEntry
  <2>3. /\ hack' \in [Hacks -> HackState] /\ hack'[h] = w
        /\ \A g \in Hacks \ {h} : /\ hack'[g] = hack[g]
                                  /\ Method(g)' = Method(g) /\ Address(g)' = Address(g)
        /\ Method(h)' = Method(h) /\ Address(h)' = Address(h)
        /\ AtMethod' /\ Alone'
        /\ ~overlapped => \A g \in Hacks \ {h} : ~Scanning(g) /\ ~Inside(g)
    BY <1>1, <1>2, <2>1, <2>2, Inner
  <2>4. TypeOK'
    BY <1>1, <1>3, <2>3 DEF TypeOK, HackState, Pcs
  <2>5. Once'
    <3>1. ~overlapped => patches[Address(h)] = 0
      <4>1. patches[Address(h)] \in Nat
        BY <1>1, <2>2 DEF TypeOK
      <4>2. ~overlapped => \A g \in Hacks : hack[g].pc # "add"
        BY <1>1, <2>3 DEF Inside
      <4>3. QED
        BY <2>2, <4>1, <4>2 DEF IInv, Steady, Once
    <3>2. \A g \in Hacks : hack[g].pc = "add" => hack'[g].pc = "add" /\ Address(g)' = Address(g)
      BY <1>1, <2>3
    <3>3. QED
      BY <1>1, <2>1, <2>3, <3>1, <3>2 DEF IInv, Steady, Once
  <2>6. TrampolinesAreRecorded'
    <3>1. ASSUME NEW a PROVE InfosOf(a)' = InfosOf(a) /\ InWindow(a)' = InWindow(a)
      BY <1>1, <2>1, <2>3 DEF InfosOf, InWindow
    <3>2. QED
      BY <1>1, <3>1 DEF TrampolinesAreRecorded, IInv, Steady
  <2>7. Callers'
    BY <1>1 DEF Callers, IInv, Steady
  <2>8. QED
    BY <2>3, <2>4, <2>5, <2>6, <2>7 DEF IInv, Steady
<1>6. QED
  BY <1>4, <1>5 DEF HackFind

\* The trampoline is written.
LEMMA Patches ==
    ASSUME IInv, NEW h \in Hacks, HackPatch(h)
    PROVE  IInv'
<1> DEFINE a == Address(h)
<1>1. /\ TypeOK /\ hack \in [Hacks -> HackState] /\ hack[h].pc = "patch" /\ Scanning(h)
      /\ UNCHANGED <<isTraceIl2cpp, exported, perClass, setup, loaded, vmReady>>
      /\ UNCHANGED <<crashed, near, failed>>
      /\ UNCHANGED <<entries, infos, overlapped, game>>
      /\ patches' = [patches EXCEPT ![a] = @ + 1]
      /\ hack[h].at \in 1..Len(MethodOrder) /\ Method(h) \in Methods /\ a \in Addrs
  BY HackIs DEF IInv, Steady, AtMethod, Inside, HackPatch, AtPc, Scanning, lib
<1> DEFINE w == [hack[h] EXCEPT !.pc = "add"]
<1>2. w \in HackState /\ w.pc = "add" /\ w.at = hack[h].at /\ hack' = [hack EXCEPT ![h] = w]
  BY <1>1 DEF HackState, Pcs, GoTo, HackPatch
<1> HIDE DEF w
<1>3. /\ hack' \in [Hacks -> HackState] /\ hack'[h] = w
      /\ \A g \in Hacks \ {h} : /\ hack'[g] = hack[g]
                                /\ Method(g)' = Method(g) /\ Address(g)' = Address(g)
      /\ Method(h)' = Method(h) /\ Address(h)' = a
      /\ AtMethod' /\ Alone'
      /\ ~overlapped => \A g \in Hacks \ {h} : ~Scanning(g) /\ ~Inside(g)
  BY <1>1, <1>2, Inner
<1>4. /\ patches' \in [Addrs -> Nat] /\ patches'[a] = patches[a] + 1
      /\ \A b \in Addrs \ {a} : patches'[b] = patches[b]
      /\ patches \in [Addrs -> Nat]
  BY <1>1 DEF TypeOK
<1>5. ~overlapped => patches[a] = 0
  BY <1>1 DEF IInv, Steady, Once
<1> HIDE DEF a
<1>6. TypeOK'
  BY <1>1, <1>3, <1>4 DEF TypeOK, HackState, Pcs
<1>7. Once'
  <2> SUFFICES ASSUME ~overlapped
               PROVE  /\ \A b \in Addrs : /\ patches'[b] <= 1
                                          /\ patches'[b] = 1 => \/ b \in entries
                                               \/ \E g \in Hacks : /\ hack'[g].pc = "add"
                                                                   /\ Address(g)' = b
                      /\ \A g \in Hacks : hack'[g].pc # "patch"
    BY <1>1 DEF Once
  <2>1. \A g \in Hacks : hack'[g].pc # "patch"
    BY <1>2, <1>3 DEF Inside
  <2>2. patches'[a] = 1 /\ hack'[h].pc = "add" /\ Address(h)' = a
    BY <1>2, <1>3, <1>4, <1>5
  <2>3. ASSUME NEW b \in Addrs \ {a}
        PROVE  patches'[b] <= 1 /\ (patches'[b] = 1 => b \in entries)
    <3>1. \A g \in Hacks : hack[g].pc # "add"
      BY <1>1, <1>3 DEF Inside
    <3>2. QED
      BY <1>4, <3>1 DEF IInv, Steady, Once
  <2>4. QED
    BY <2>1, <2>2, <2>3
<1>8. TrampolinesAreRecorded'
  <2> SUFFICES ASSUME ~overlapped, NEW b \in Addrs
               PROVE  patches'[b] = Cardinality(InfosOf(b)') + Cardinality(InWindow(b)')
    BY <1>1 DEF TrampolinesAreRecorded
  <2>1. /\ InfosOf(b)' = InfosOf(b) /\ InWindow(b) = {}
        /\ InWindow(b)' = IF b = a THEN {h} ELSE {}
    BY <1>1, <1>2, <1>3 DEF InfosOf, InWindow, Inside
  <2>2. Cardinality({}) = 0 /\ Cardinality({h}) = 1 /\ Cardinality(InfosOf(b)) \in Nat
    BY <1>1, FS_EmptySet, FS_Singleton, InfosFinite
  <2>3. patches[b] = Cardinality(InfosOf(b))
    BY <2>1, <2>2 DEF IInv, Steady, TrampolinesAreRecorded
  <2>4. CASE b = a
    BY <1>4, <2>1, <2>2, <2>3, <2>4
  <2>5. CASE b # a
    BY <1>4, <2>1, <2>2, <2>3, <2>5
  <2>6. QED
    BY <2>4, <2>5
<1>9. Callers'
  BY <1>1, <1>4 DEF Callers, IInv, Steady
<1>10. QED
  BY <1>3, <1>6, <1>7, <1>8, <1>9 DEF IInv, Steady

\* The Interceptor gets its entry; another thread that adds one may undo it.
LEMMA Adds ==
    ASSUME IInv, NEW h \in Hacks, HackAddEntry(h)
    PROVE  IInv'
<1> DEFINE a == Address(h)
<1>1. /\ TypeOK /\ hack \in [Hacks -> HackState] /\ hack[h].pc = "add" /\ Scanning(h)
      /\ UNCHANGED <<isTraceIl2cpp, exported, perClass, setup, loaded, vmReady>>
      /\ UNCHANGED <<crashed, near, failed>>
      /\ UNCHANGED <<patches, infos, overlapped, game>>
      /\ hack[h].at \in 1..Len(MethodOrder) /\ Method(h) \in Methods /\ a \in Addrs
      /\ entries' = entries \cup {a} \/ (Racing(h) /\ entries' = entries)
  BY HackIs DEF IInv, Steady, AtMethod, Inside, HackAddEntry, AtPc, Scanning, lib
<1> DEFINE w == [hack[h] EXCEPT !.pc = "push"]
<1>2. w \in HackState /\ w.pc = "push" /\ w.at = hack[h].at /\ hack' = [hack EXCEPT ![h] = w]
  BY <1>1 DEF HackState, Pcs, GoTo, HackAddEntry
<1> HIDE DEF w
<1>3. /\ hack' \in [Hacks -> HackState] /\ hack'[h] = w
      /\ \A g \in Hacks \ {h} : /\ hack'[g] = hack[g]
                                /\ Method(g)' = Method(g) /\ Address(g)' = Address(g)
      /\ Method(h)' = Method(h) /\ Address(h)' = a
      /\ AtMethod' /\ Alone'
      /\ ~overlapped => \A g \in Hacks \ {h} : ~Scanning(g) /\ ~Inside(g)
  BY <1>1, <1>2, Inner
<1>4. ~overlapped => entries' = entries \cup {a}
  BY <1>1, <1>3 DEF Racing, Inside
<1> HIDE DEF a
<1>5. TypeOK'
  BY <1>1, <1>3 DEF TypeOK, HackState, Pcs
<1>6. Once'
  <2> SUFFICES ASSUME ~overlapped
               PROVE  /\ \A b \in Addrs : /\ patches[b] <= 1
                                          /\ patches[b] = 1 => b \in entries'
                      /\ \A g \in Hacks : hack'[g].pc # "patch"
    BY <1>1 DEF Once
  <2>1. \A g \in Hacks : hack'[g].pc # "patch"
    BY <1>2, <1>3 DEF Inside
  <2>2. \A g \in Hacks : hack[g].pc = "add" => Address(g) = a
    BY <1>3 DEF Inside, a
  <2>3. QED
    BY <1>4, <2>1, <2>2 DEF IInv, Steady, Once
<1>7. TrampolinesAreRecorded'
  <2>1. ASSUME NEW b PROVE InfosOf(b)' = InfosOf(b) /\ InWindow(b)' = InWindow(b)
    BY <1>1, <1>2, <1>3 DEF InfosOf, InWindow, a
  <2>2. QED
    BY <1>1, <2>1 DEF TrampolinesAreRecorded, IInv, Steady
<1>8. Callers'
  BY <1>1 DEF Callers, IInv, Steady
<1>9. QED
  BY <1>3, <1>5, <1>6, <1>7, <1>8 DEF IInv, Steady

\* The method is recorded; another thread that records one may undo it.
LEMMA Pushes ==
    ASSUME IInv, NEW h \in Hacks, HackPush(h)
    PROVE  IInv'
<1> DEFINE a == Address(h)
           pair == <<Method(h), Address(h)>>
<1>1. /\ TypeOK /\ hack \in [Hacks -> HackState] /\ hack[h].pc = "push" /\ Scanning(h)
      /\ UNCHANGED <<isTraceIl2cpp, exported, perClass, setup, loaded, vmReady>>
      /\ UNCHANGED <<crashed, near, failed>>
      /\ UNCHANGED <<entries, patches, overlapped, game>>
      /\ hack[h].at \in 1..Len(MethodOrder) /\ Method(h) \in Methods /\ a \in Addrs
      /\ infos' = Append(infos, pair) \/ (Racing(h) /\ infos' = infos)
  BY HackIs DEF IInv, Steady, AtMethod, Inside, HackPush, AtPc, Scanning, lib, dobby
<1> DEFINE w == [pc |-> "scan", at |-> hack[h].at + 1]
<1>2. w \in HackState /\ w.pc = "scan" /\ hack' = [hack EXCEPT ![h] = w]
  <2>1. hack[h].at + 1 \in 1..(Len(MethodOrder) + 1)
    BY <1>1, HackIs
  <2>2. QED
    BY <2>1 DEF HackState, Pcs, NextMethod, HackPush
<1> HIDE DEF w
<1>3. /\ hack' \in [Hacks -> HackState] /\ hack'[h] = w
      /\ \A g \in Hacks \ {h} : /\ hack'[g] = hack[g]
                                /\ Method(g)' = Method(g) /\ Address(g)' = Address(g)
      /\ AtMethod' /\ Alone'
      /\ ~overlapped => \A g \in Hacks \ {h} : ~Scanning(g) /\ ~Inside(g)
  BY <1>1, <1>2, Inner
<1>4. ~overlapped => infos' = Append(infos, pair)
  BY <1>1, <1>3 DEF Racing, Inside
<1>5. pair \in Methods \X Addrs /\ pair[2] = a /\ infos \in Seq(Methods \X Addrs)
  BY <1>1 DEF TypeOK
<1> HIDE DEF pair
<1>6. infos' \in Seq(Methods \X Addrs)
  BY <1>1, <1>5
<1>7. TypeOK'
  BY <1>1, <1>3, <1>6 DEF TypeOK, HackState, Pcs
<1>8. Once'
  <2>1. ~overlapped => \A g \in Hacks : hack[g].pc # "add" /\ hack'[g].pc # "patch"
    BY <1>1, <1>2, <1>3 DEF Inside
  <2>2. QED
    BY <1>1, <2>1 DEF IInv, Steady, Once
<1>9. TrampolinesAreRecorded'
  <2> SUFFICES ASSUME ~overlapped, NEW b \in Addrs
               PROVE  patches[b] = Cardinality(InfosOf(b)') + Cardinality(InWindow(b)')
    BY <1>1 DEF TrampolinesAreRecorded
  <2>1. /\ InWindow(b) = IF b = a THEN {h} ELSE {}
        /\ InWindow(b)' = {}
    BY <1>1, <1>2, <1>3 DEF InWindow, Inside
  <2> DEFINE n == Len(infos) + 1
  <2>2. /\ n \notin InfosOf(b)
        /\ InfosOf(b)' = IF b = a THEN InfosOf(b) \cup {n} ELSE InfosOf(b)
    <3>1. /\ Len(infos) \in Nat /\ DOMAIN infos = 1..Len(infos) /\ DOMAIN infos' = 1..n
          /\ \A i \in DOMAIN infos : infos'[i] = infos[i]
          /\ infos'[n] = pair
      BY <1>4, <1>5
    <3>2. QED
      BY <1>5, <3>1 DEF InfosOf
  <2> HIDE DEF n, a
  <2>3. /\ Cardinality({}) = 0 /\ Cardinality({h}) = 1
        /\ IsFiniteSet(InfosOf(b)) /\ Cardinality(InfosOf(b)) \in Nat
    BY <1>1, FS_EmptySet, FS_Singleton, InfosFinite
  <2>4. Cardinality(InfosOf(b) \cup {n}) = Cardinality(InfosOf(b)) + 1
    BY <2>2, <2>3, FS_AddElement
  <2>5. patches[b] = Cardinality(InfosOf(b)) + Cardinality(InWindow(b))
    BY DEF IInv, Steady, TrampolinesAreRecorded
  <2>6. CASE b = a
    BY <2>1, <2>2, <2>3, <2>4, <2>5, <2>6
  <2>7. CASE b # a
    BY <2>1, <2>2, <2>3, <2>5, <2>7
  <2>8. QED
    BY <2>6, <2>7
<1>10. Callers'
  BY <1>1 DEF Callers, IInv, Steady
<1>11. QED
  BY <1>3, <1>7, <1>8, <1>9, <1>10 DEF IInv, Steady

LEMMA NextOK == IInv /\ [Next]_vars => IInv'
<1> SUFFICES ASSUME IInv, [Next]_vars PROVE IInv'
  OBVIOUS
<1>1. CASE Next
  BY <1>1, Around, Plays, Finds, Patches, Adds, Pushes DEF Next, HackStep
<1>2. CASE UNCHANGED vars
  <2>1. TypeOK'
    BY <1>2 DEF vars, lib, dobby, IInv, TypeOK
  <2>2. QED
    BY <1>2, <2>1, Resting DEF vars, lib, dobby, IInv, Steady, Callers
<1>3. QED
  BY <1>1, <1>2

LEMMA Invariance == Spec => []IInv
BY InitOK, NextOK, PTL DEF Spec

------------------------------------------------------------------------------
(* What follows from it.                                                    *)

\* Hack threads only ever instrument addresses of methods in the list, and
\* record them, however many loads there are (il2cpp_dump.cpp).
THEOREM TypeCorrect == Spec => []TypeOK
<1>1. IInv => TypeOK
  BY DEF IInv
<1>2. QED
  BY <1>1, Invariance, PTL

\* As long as hack threads run one after the other, every trampoline has its
\* info, but the one being recorded (hook_il2cpp_method, il2cpp_dump.cpp:570).
THEOREM InfosMatchTrampolines == Spec => []TrampolinesAreRecorded
<1>1. IInv => TrampolinesAreRecorded
  BY DEF IInv, Steady
<1>2. QED
  BY <1>1, Invariance, PTL

\* Dobby's check for an entry keeps a method from being instrumented twice,
\* also one with a shared pointer, unless two threads traced at once.
THEOREM PatchedOnce == Spec => []DoublePatchNeedsOverlap
<1>1. IInv => DoublePatchNeedsOverlap
  BY DEF IInv, TypeOK, Steady, Once, DoublePatchNeedsOverlap
<1>2. QED
  BY <1>1, Invariance, PTL

\* A callback finds an info for its address, but for the moment between the
\* trampoline and push_back (instrument_callback, il2cpp_dump.cpp:557).
THEOREM CallbacksFindInfos == Spec => NotFoundOnlyInWindow
<1>1. IInv /\ [Next]_vars =>
        [\A t \in Game : game'[t].left < game[t].left /\ ~overlapped
            => Known(game[t].addr) \/ InWindow(game[t].addr) # {}]_vars
  <2> SUFFICES ASSUME IInv, NEW t \in Game, game'[t].left < game[t].left, ~overlapped, Next
               PROVE  Known(game[t].addr) \/ InWindow(game[t].addr) # {}
    BY DEF vars
  <2> DEFINE a == game[t].addr
  <2>1. game[t].left > 0
    <3>1. game \in [Game -> [addr : Addrs \cup {NullAddr}, left : Nat]]
          /\ patches \in [Addrs -> Nat]
      BY DEF IInv, TypeOK
    <3>2. CASE game' = game
      BY <3>1, <3>2
    <3>3. ASSUME NEW u \in Game, instrument_callback(u) PROVE game[t].left > 0
      BY <3>1, <3>3 DEF instrument_callback
    <3>4. ASSUME NEW u \in Game, NEW b \in Addrs, RunMethod(u, b) PROVE game[t].left > 0
      BY <3>1, <3>4 DEF RunMethod
    <3>5. QED
      BY <3>2, <3>3, <3>4 DEF Next, hookLinkerCallBack, LoadIl2cpp, VmInit, HackStep, HackOpen,
         HackWaited, HackDump, HackTrace, HackFind, HackPatch, HackAddEntry, HackPush,
         HackFinish, HackClose
  <2>2. a \in Addrs /\ patches[a] > 0
    BY <2>1 DEF IInv, Steady, Callers
  <2>3. patches[a] = Cardinality(InfosOf(a)) + Cardinality(InWindow(a))
    BY <2>2 DEF IInv, Steady, TrampolinesAreRecorded
  <2> HIDE DEF a
  <2>4. InfosOf(a) # {} \/ InWindow(a) # {}
    BY <2>2, <2>3, FS_EmptySet
  <2>5. QED
    BY <2>4 DEF InfosOf, Known, a
<1>2. QED
  BY <1>1, Invariance, PTL DEF Spec, NotFoundOnlyInWindow
=============================================================================
