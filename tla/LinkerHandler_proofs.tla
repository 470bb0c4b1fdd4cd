------------------------ MODULE LinkerHandler_proofs ------------------------
(***************************************************************************)
(* Whoever is registered hears both sides of a load, and of the file that  *)
(* was loaded, for any number of threads, callbacks, redirects and loads   *)
(* inside loads.                                                           *)
(***************************************************************************)
EXTENDS LinkerHandler, SequenceTheorems, TLAPS

\* Without an overlap with cleanCallBack: the loop over the callbacks has told
\* those before its position, and is over with everyone due.
Upto(load, heard) ==
    \A j \in DOMAIN callBackList : j < load.i => callBackList[j] \in heard

Heard(load) ==
    ~dangling /\ load.path # NullPath =>
        /\ load.i <= Len(callBackList) + 1
        /\ load.due \subseteq Range(callBackList)
        /\ load.pc = "before" => Upto(load, load.told)
        /\ load.pc # "before" => load.due \subseteq load.told
        /\ load.pc = "after" => Upto(load, load.toldAfter)
        /\ load.pc = "done" => load.due \subseteq load.toldAfter

\* What the linker was given is what the reports say.
Truthful(load) ==
    load.path # NullPath =>
        /\ load.pc \notin {"before", "redirect"} =>
              load.loaded = IF load.reloc = NoPath THEN load.path ELSE load.reloc
        /\ load.pc \notin {"after", "done"} => load.reported = {}
        /\ load.reported \subseteq {load.reloc}

Sound(load) == load.i >= 1 /\ Heard(load) /\ Truthful(load)

AllSound == \A t \in Threads : \A k \in DOMAIN loads[t] : Sound(loads[t][k])

IInv == TypeOK /\ Range(callBackList) \subseteq registered /\ AllSound

------------------------------------------------------------------------------
(* Stacks of loads.                                                         *)

\* The innermost load of a thread is one of its loads.
LEMMA InnerLoad ==
    ASSUME TypeOK, NEW t \in Threads, loads[t] # <<>>
    PROVE  /\ Inner(t) \in Load
           /\ Len(loads[t]) \in DOMAIN loads[t]
BY DEF TypeOK, Inner

\* Taking it away leaves the others.
LEMMA Ending ==
    ASSUME NEW s \in Seq(Load), s # <<>>
    PROVE  /\ Front(s) \in Seq(Load)
           /\ Len(Front(s)) = Len(s) - 1
           /\ \A k \in DOMAIN Front(s) : k \in DOMAIN s /\ Front(s)[k] = s[k]
<1>1. Len(s) \in Nat /\ Len(s) >= 1 /\ DOMAIN s = 1..Len(s)
  OBVIOUS
<1>2. \A i \in 1..(Len(s) - 1) : s[i] \in Load
  BY <1>1
<1>3. /\ Front(s) \in Seq(Load)
      /\ Len(Front(s)) = Len(s) - 1
      /\ \A i \in 1..(Len(s) - 1) : Front(s)[i] = s[i]
  BY <1>1, <1>2, SubSeqProperties DEF Front
<1>4. QED
  BY <1>1, <1>3

\* Replacing it leaves the others.
LEMMA Replacing ==
    ASSUME NEW s \in Seq(Load), s # <<>>, NEW w \in Load
    PROVE  /\ Append(Front(s), w) \in Seq(Load)
           /\ \A k \in DOMAIN Append(Front(s), w) :
                 \/ Append(Front(s), w)[k] = w
                 \/ k \in DOMAIN s /\ Append(Front(s), w)[k] = s[k]
<1>1. Front(s) \in Seq(Load) /\ \A k \in DOMAIN Front(s) : k \in DOMAIN s /\ Front(s)[k] = s[k]
  BY Ending
<1>2. QED
  BY <1>1, AppendProperties

\* A step that changes one load keeps the others sound.
LEMMA OneLoad ==
    ASSUME IInv, NEW t \in Threads, loads[t] # <<>>, NEW w \in Load,
           Now(t, w), UNCHANGED registry, Sound(w), deadCall' \in BOOLEAN
    PROVE  IInv'
<1>1. /\ loads' \in [Threads -> Seq(Load)]
      /\ \A u \in Threads : u # t => loads'[u] = loads[u]
      /\ loads'[t] = Append(Front(loads[t]), w)
  BY Replacing DEF Now, IInv, TypeOK
<1>2. TypeOK'
  BY <1>1 DEF IInv, TypeOK, registry
<1>3. \A load : Sound(load) => Sound(load)'
  BY DEF Sound, Heard, Truthful, Upto, registry
<1>4. ASSUME NEW u \in Threads, NEW k \in DOMAIN loads'[u]
      PROVE  Sound(loads'[u][k])
  <2>1. CASE u # t
    BY <1>1, <2>1 DEF IInv, AllSound
  <2>2. CASE u = t
    BY <1>1, <2>2, Replacing DEF IInv, AllSound, TypeOK
  <2>3. QED
    BY <2>1, <2>2
<1>5. AllSound'
  BY <1>3, <1>4 DEF AllSound
<1>6. QED
  BY <1>2, <1>5 DEF IInv, registry

\* The invariant of the innermost load.
LEMMA InnerSound ==
    ASSUME IInv, NEW t \in Threads, loads[t] # <<>>
    PROVE  Inner(t) \in Load /\ Sound(Inner(t))
BY InnerLoad DEF IInv, AllSound, Inner

------------------------------------------------------------------------------
(* The steps of a load.                                                     *)

LEMMA TellBeforeKeeps ==
    ASSUME IInv, NEW t \in Threads, TellBefore(t)
    PROVE  IInv'
<1> DEFINE load == Inner(t)
           c == callBackList[load.i]
           w == [load EXCEPT !.i = @ + 1, !.told = @ \cup {c}]
<1>1. loads[t] # <<>> /\ load.pc = "before" /\ load.path # NullPath
      /\ load.i <= Len(callBackList) /\ Now(t, w) /\ UNCHANGED registry
      /\ deadCall' \in BOOLEAN
  BY DEF TellBefore, At, HasNext
<1>2. load \in Load /\ Sound(load)
  BY <1>1, InnerSound
<1>3. callBackList \in Seq(Callbacks) /\ load.i \in DOMAIN callBackList /\ c \in Callbacks
  BY <1>1, <1>2 DEF IInv, TypeOK, Load, Sound
<1> HIDE DEF load, c
<1>4. /\ w \in Load
      /\ w.i = load.i + 1 /\ w.told = load.told \cup {c}
      /\ w.pc = load.pc /\ w.path = load.path /\ w.due = load.due
      /\ w.loaded = load.loaded /\ w.reloc = load.reloc /\ w.reported = load.reported
      /\ w.toldAfter = load.toldAfter
  <2> DEFINE n == load.i + 1
             heard == load.told \cup {c}
  <2>1. n \in Nat /\ heard \in SUBSET Callbacks
    BY <1>2, <1>3 DEF Load
  <2>2. w = [load EXCEPT !.i = n, !.told = heard]
    BY DEF w
  <2> HIDE DEF w, n, heard
  <2>3. /\ w \in Load /\ w.i = n /\ w.told = heard
        /\ w.pc = load.pc /\ w.path = load.path /\ w.due = load.due
        /\ w.loaded = load.loaded /\ w.reloc = load.reloc /\ w.reported = load.reported
        /\ w.toldAfter = load.toldAfter
    BY <1>2, <2>1, <2>2 DEF Load
  <2>4. QED
    BY <2>3 DEF n, heard
<1> HIDE DEF w
<1>5. Heard(w)
  <2> SUFFICES ASSUME ~dangling PROVE /\ w.i <= Len(callBackList) + 1
                                      /\ w.due \subseteq Range(callBackList)
                                      /\ Upto(w, w.told)
    BY <1>1, <1>4 DEF Heard
  <2>1. load.due \subseteq Range(callBackList) /\ Upto(load, load.told)
    BY <1>1, <1>2 DEF Sound, Heard
  <2>2. ASSUME NEW j \in DOMAIN callBackList, j < w.i PROVE callBackList[j] \in w.told
    <3>1. j \in Nat /\ load.i \in Nat
      BY <1>2, <1>3 DEF Load
    <3>2. CASE j = load.i
      BY <1>4, <3>2 DEF c
    <3>3. CASE j < load.i
      BY <1>4, <2>1, <3>3 DEF Upto
    <3>4. QED
      BY <1>4, <2>2, <3>1, <3>2, <3>3
  <2>3. w.i <= Len(callBackList) + 1
    BY <1>1, <1>2, <1>3, <1>4 DEF Load
  <2>4. QED
    BY <1>4, <2>1, <2>2, <2>3 DEF Upto
<1>6. Sound(w)
  BY <1>1, <1>2, <1>4, <1>5 DEF Sound, Truthful, Load
<1>7. QED
  BY <1>1, <1>4, <1>6, OneLoad

LEMMA TellAfterKeeps ==
    ASSUME IInv, NEW t \in Threads, TellAfter(t)
    PROVE  IInv'
<1> DEFINE load == Inner(t)
           c == callBackList[load.i]
           w == [load EXCEPT !.i = @ + 1, !.toldAfter = @ \cup {c},
                             !.reported = @ \cup {load.reloc}]
<1>1. loads[t] # <<>> /\ load.pc = "after" /\ load.path # NullPath
      /\ load.i <= Len(callBackList) /\ Now(t, w) /\ UNCHANGED registry
      /\ deadCall' \in BOOLEAN
  BY DEF TellAfter, At, HasNext, Report
<1>2. load \in Load /\ Sound(load)
  BY <1>1, InnerSound
<1>3. callBackList \in Seq(Callbacks) /\ load.i \in DOMAIN callBackList /\ c \in Callbacks
  BY <1>1, <1>2 DEF IInv, TypeOK, Load, Sound
<1> HIDE DEF load, c
<1>4. /\ w \in Load
      /\ w.i = load.i + 1 /\ w.toldAfter = load.toldAfter \cup {c}
      /\ w.reported = load.reported \cup {load.reloc}
      /\ w.pc = load.pc /\ w.path = load.path /\ w.due = load.due
      /\ w.loaded = load.loaded /\ w.reloc = load.reloc /\ w.told = load.told
  <2> DEFINE n == load.i + 1
             heard == load.toldAfter \cup {c}
             files == load.reported \cup {load.reloc}
  <2>1. /\ n \in Nat /\ heard \in SUBSET Callbacks
        /\ files \in SUBSET (Paths \cup {NoPath})
    BY <1>2, <1>3 DEF Load
  <2>2. w = [load EXCEPT !.i = n, !.toldAfter = heard, !.reported = files]
    BY DEF w
  <2> HIDE DEF w, n, heard, files
  <2>3. /\ w \in Load /\ w.i = n /\ w.toldAfter = heard /\ w.reported = files
        /\ w.pc = load.pc /\ w.path = load.path /\ w.due = load.due
        /\ w.loaded = load.loaded /\ w.reloc = load.reloc /\ w.told = load.told
    BY <1>2, <2>1, <2>2 DEF Load
  <2>4. QED
    BY <2>3 DEF n, heard, files
<1> HIDE DEF w
<1>5. Heard(w)
  <2> SUFFICES ASSUME ~dangling PROVE /\ w.i <= Len(callBackList) + 1
                                      /\ w.due \subseteq Range(callBackList)
                                  /\ w.due \subseteq w.told
                                      /\ Upto(w, w.toldAfter)
    BY <1>1, <1>4 DEF Heard
  <2>1. /\ load.due \subseteq Range(callBackList) /\ load.due \subseteq load.told
        /\ Upto(load, load.toldAfter)
    BY <1>1, <1>2 DEF Sound, Heard
  <2>2. ASSUME NEW j \in DOMAIN callBackList, j < w.i
        PROVE callBackList[j] \in w.toldAfter
    <3>1. j \in Nat /\ load.i \in Nat
      BY <1>2, <1>3 DEF Load
    <3>2. CASE j = load.i
      BY <1>4, <3>2 DEF c
    <3>3. CASE j < load.i
      BY <1>4, <2>1, <3>3 DEF Upto
    <3>4. QED
      BY <1>4, <2>2, <3>1, <3>2, <3>3
  <2>3. w.i <= Len(callBackList) + 1
    BY <1>1, <1>2, <1>3, <1>4 DEF Load
  <2>4. QED
    BY <1>4, <2>1, <2>2, <2>3 DEF Upto
<1>6. Sound(w)
  <2>1. Truthful(w)
    BY <1>1, <1>2, <1>4 DEF Sound, Truthful
  <2>2. QED
    BY <1>2, <1>4, <1>5, <2>1 DEF Sound, Load
<1>7. QED
  BY <1>1, <1>4, <1>6, OneLoad

\* A loop that is over has told everybody who is due.
LEMMA LoopOver ==
    ASSUME IInv, NEW load \in Load, load.path # NullPath, ~dangling, LoopEnds(load),
           load.due \subseteq Range(callBackList), NEW heard, Upto(load, heard)
    PROVE  load.due \subseteq heard
<1>1. load.i \in Nat /\ load.i > Len(callBackList)
      /\ DOMAIN callBackList = 1..Len(callBackList) /\ Len(callBackList) \in Nat
  BY DEF IInv, TypeOK, LoopEnds, HasNext, Load
<1>2. \A j \in DOMAIN callBackList : j < load.i
  BY <1>1
<1>3. QED
  BY <1>2 DEF Upto, Range

LEMMA BeforeDoneKeeps ==
    ASSUME IInv, NEW t \in Threads, BeforeDone(t)
    PROVE  IInv'
<1> DEFINE load == Inner(t)
           w == [load EXCEPT !.pc = "redirect"]
<1>1. loads[t] # <<>> /\ load.pc = "before" /\ LoopEnds(load) /\ Now(t, w)
      /\ UNCHANGED registry /\ deadCall' \in BOOLEAN
  BY DEF BeforeDone, At, IInv, TypeOK
<1>2. load \in Load /\ Sound(load)
  BY <1>1, InnerSound
<1>3. /\ w \in Load /\ w.pc = "redirect" /\ w.i = load.i /\ w.told = load.told
      /\ w.path = load.path /\ w.due = load.due /\ w.loaded = load.loaded
      /\ w.reloc = load.reloc /\ w.reported = load.reported
  BY <1>2 DEF Load
<1> HIDE DEF w, load
<1>4. Sound(w)
  <2>1. Heard(w)
    BY <1>1, <1>2, <1>3, LoopOver DEF Sound, Heard
  <2>2. Truthful(w)
    BY <1>1, <1>2, <1>3 DEF Sound, Truthful
  <2>3. QED
    BY <1>2, <1>3, <2>1, <2>2 DEF Sound
<1>5. QED
  BY <1>1, <1>3, <1>4, OneLoad

LEMMA AfterDoneKeeps ==
    ASSUME IInv, NEW t \in Threads, AfterDone(t)
    PROVE  IInv'
<1> DEFINE load == Inner(t)
           w == [load EXCEPT !.pc = "done"]
<1>1. loads[t] # <<>> /\ load.pc = "after" /\ LoopEnds(load) /\ Now(t, w)
      /\ UNCHANGED registry /\ deadCall' \in BOOLEAN
  BY DEF AfterDone, At, IInv, TypeOK
<1>2. load \in Load /\ Sound(load)
  BY <1>1, InnerSound
<1>3. /\ w \in Load /\ w.pc = "done" /\ w.i = load.i /\ w.told = load.told
      /\ w.toldAfter = load.toldAfter
      /\ w.path = load.path /\ w.due = load.due /\ w.loaded = load.loaded
      /\ w.reloc = load.reloc /\ w.reported = load.reported
  BY <1>2 DEF Load
<1> HIDE DEF w, load
<1>4. Sound(w)
  <2>1. Heard(w)
    BY <1>1, <1>2, <1>3, LoopOver DEF Sound, Heard
  <2>2. Truthful(w)
    BY <1>1, <1>2, <1>3 DEF Sound, Truthful
  <2>3. QED
    BY <1>2, <1>3, <2>1, <2>2 DEF Sound
<1>5. QED
  BY <1>1, <1>3, <1>4, OneLoad

\* What a redirect answers is a path or the empty string.
LEMMA RedirectAnswers ==
    ASSUME TypeOK, NEW p \in Paths \cup {NullPath}
    PROVE  RedirectOf(p) \in Paths \cup {NoPath}
BY RelocAssumption DEF TypeOK, RedirectOf

LEMMA AskRedirectKeeps ==
    ASSUME IInv, NEW t \in Threads, AskRedirect(t)
    PROVE  IInv'
<1> DEFINE load == Inner(t)
           q == RedirectOf(load.path)
           w == [load EXCEPT !.pc = "orig", !.reloc = q,
                             !.loaded = IF q = NoPath THEN load.path ELSE q]
<1>1. loads[t] # <<>> /\ load.pc = "redirect" /\ Now(t, w)
      /\ UNCHANGED registry /\ deadCall' \in BOOLEAN
  BY DEF AskRedirect, At, IInv, TypeOK
<1>2. load \in Load /\ Sound(load)
  BY <1>1, InnerSound
<1>3. load.path \in Paths \cup {NullPath} /\ q \in Paths \cup {NoPath}
  BY <1>2, RedirectAnswers DEF Load, IInv
<1> HIDE DEF q
<1>4. /\ w \in Load /\ w.pc = "orig" /\ w.i = load.i /\ w.told = load.told
      /\ w.path = load.path /\ w.due = load.due /\ w.reloc = q
      /\ w.loaded = IF q = NoPath THEN load.path ELSE q
      /\ w.reported = load.reported
  BY <1>2, <1>3 DEF Load
<1> HIDE DEF w, load
<1>5. Sound(w)
  <2>1. Heard(w)
    BY <1>1, <1>2, <1>4 DEF Sound, Heard
  <2>2. Truthful(w)
    BY <1>1, <1>2, <1>4 DEF Sound, Truthful
  <2>3. QED
    BY <1>2, <1>4, <2>1, <2>2 DEF Sound
<1>6. QED
  BY <1>1, <1>4, <1>5, OneLoad

LEMMA OrigReturnsKeeps ==
    ASSUME IInv, NEW t \in Threads, OrigReturns(t)
    PROVE  IInv'
<1> DEFINE load == Inner(t)
           w == [load EXCEPT !.pc = "after", !.i = 1]
<1>1. loads[t] # <<>> /\ load.pc \in {"orig", "inside"} /\ Now(t, w)
      /\ UNCHANGED registry /\ deadCall' \in BOOLEAN
  BY DEF OrigReturns, At, IInv, TypeOK
<1>2. load \in Load /\ Sound(load)
  BY <1>1, InnerSound
<1>3. /\ w \in Load /\ w.pc = "after" /\ w.i = 1 /\ w.told = load.told
      /\ w.path = load.path /\ w.due = load.due /\ w.loaded = load.loaded
      /\ w.reloc = load.reloc /\ w.reported = load.reported
  BY <1>2 DEF Load
<1> HIDE DEF w, load
<1>4. Sound(w)
  <2>1. Upto(w, w.toldAfter)
    BY <1>3 DEF Upto, IInv, TypeOK
  <2>2. Heard(w)
    <3>1. 1 <= Len(callBackList) + 1
      BY DEF IInv, TypeOK
    <3>2. QED
      BY <1>1, <1>2, <1>3, <2>1, <3>1 DEF Sound, Heard
  <2>3. Truthful(w)
    BY <1>1, <1>2, <1>3 DEF Sound, Truthful
  <2>4. QED
    BY <1>3, <2>2, <2>3 DEF Sound
<1>5. QED
  BY <1>1, <1>3, <1>4, OneLoad

LEMMA EndLoadKeeps ==
    ASSUME IInv, NEW t \in Threads, EndLoad(t)
    PROVE  IInv'
<1>1. loads[t] # <<>> /\ loads' = [loads EXCEPT ![t] = Front(@)]
      /\ UNCHANGED registry /\ UNCHANGED deadCall
  BY DEF EndLoad, At
<1>2. /\ loads' \in [Threads -> Seq(Load)]
      /\ \A u \in Threads : u # t => loads'[u] = loads[u]
      /\ loads'[t] = Front(loads[t])
  BY <1>1, Ending DEF IInv, TypeOK
<1>3. TypeOK'
  BY <1>1, <1>2 DEF IInv, TypeOK, registry
<1>4. \A load : Sound(load) => Sound(load)'
  BY <1>1 DEF Sound, Heard, Truthful, Upto, registry
<1>5. ASSUME NEW u \in Threads, NEW k \in DOMAIN loads'[u]
      PROVE  Sound(loads'[u][k])
  BY <1>1, <1>2, <1>5, Ending DEF IInv, AllSound, TypeOK
<1>6. AllSound'
  BY <1>4, <1>5 DEF AllSound
<1>7. QED
  BY <1>1, <1>3, <1>6 DEF IInv, registry

\* A load begins with nobody told; the load around it is as sound as before.
LEMMA BeginLoadKeeps ==
    ASSUME IInv, NEW t \in Threads, NEW p \in Paths \cup {NullPath}, BeginLoad(t, p)
    PROVE  IInv'
<1> DEFINE new == [path |-> p, pc |-> "before", i |-> 1, reloc |-> NoPath,
                   loaded |-> NoPath, reported |-> {}, due |-> Range(callBackList),
                   told |-> {}, toldAfter |-> {}]
           outer == IF loads[t] = <<>> THEN <<>>
                    ELSE Append(Front(loads[t]), [Inner(t) EXCEPT !.pc = "inside"])
<1>1. /\ loads' = [loads EXCEPT ![t] = Append(outer, new)]
      /\ UNCHANGED registry /\ UNCHANGED deadCall
      /\ loads[t] # <<>> => Inner(t).pc = "orig"
  BY DEF BeginLoad
<1>2. new \in Load /\ Sound(new)
  <2>1. Range(callBackList) \in SUBSET Callbacks /\ 1 <= Len(callBackList) + 1
    BY DEF IInv, TypeOK, Range
  <2>2. new \in Load
    BY <2>1 DEF Load
  <2>3. Upto(new, {})
    BY DEF Upto, IInv, TypeOK
  <2>4. QED
    BY <2>1, <2>2, <2>3 DEF Sound, Heard, Truthful
<1> HIDE DEF new
<1>3. outer \in Seq(Load) /\ \A k \in DOMAIN outer : Sound(outer[k])
  <2>1. CASE loads[t] = <<>>
    BY <2>1
  <2>2. CASE loads[t] # <<>>
    <3> DEFINE load == Inner(t)
               w == [load EXCEPT !.pc = "inside"]
    <3>1. load \in Load /\ Sound(load) /\ load.pc = "orig"
      BY <1>1, <2>2, InnerSound
    <3>2. /\ w \in Load /\ w.pc = "inside" /\ w.i = load.i /\ w.told = load.told
          /\ w.path = load.path /\ w.due = load.due /\ w.loaded = load.loaded
          /\ w.reloc = load.reloc /\ w.reported = load.reported
      BY <3>1 DEF Load
    <3>3. outer = Append(Front(loads[t]), w)
      BY <2>2
    <3> HIDE DEF w, load, outer
    <3>4. Sound(w)
      BY <3>1, <3>2 DEF Sound, Heard, Truthful
    <3>5. loads[t] \in Seq(Load) /\ \A k \in DOMAIN loads[t] : Sound(loads[t][k])
      BY DEF IInv, TypeOK, AllSound
    <3>6. QED
      BY <2>2, <3>2, <3>3, <3>4, <3>5, Replacing
  <2>3. QED
    BY <2>1, <2>2
<1> HIDE DEF outer
<1>4. /\ Append(outer, new) \in Seq(Load)
      /\ \A k \in DOMAIN Append(outer, new) : Sound(Append(outer, new)[k])
  BY <1>2, <1>3, AppendProperties
<1>5. /\ loads' \in [Threads -> Seq(Load)]
      /\ \A u \in Threads : u # t => loads'[u] = loads[u]
      /\ loads'[t] = Append(outer, new)
  BY <1>1, <1>4 DEF IInv, TypeOK
<1>6. TypeOK'
  BY <1>1, <1>5 DEF IInv, TypeOK, registry
<1>7. \A load : Sound(load) => Sound(load)'
  BY <1>1 DEF Sound, Heard, Truthful, Upto, registry
<1>8. ASSUME NEW u \in Threads, NEW k \in DOMAIN loads'[u]
      PROVE  Sound(loads'[u][k])
  BY <1>4, <1>5, <1>8 DEF IInv, AllSound
<1>9. AllSound'
  BY <1>7, <1>8 DEF AllSound
<1>10. QED
  BY <1>1, <1>6, <1>9 DEF IInv, registry

------------------------------------------------------------------------------
(* The interface.                                                           *)

LEMMA InitKeeps ==
    ASSUME IInv, init
    PROVE  IInv'
<1>1. hook' \in {"none", "dlopen", "openat"}
  BY DEF init, HookedEntry, FoundSyscall
<1>2. UNCHANGED <<callBackList, registered, freed, dangling, deadCall, redirect,
                  aborted, loads>>
  BY DEF init
<1>3. QED
  BY <1>1, <1>2 DEF IInv, TypeOK, AllSound, Sound, Heard, Truthful, Upto

\* The list grows at its end, behind every loop that is under way.
LEMMA AddKeeps ==
    ASSUME IInv, NEW c \in Callbacks, addLinkerCallBack(c)
    PROVE  IInv'
<1>1. /\ \/ callBackList' = Append(callBackList, c)
         \/ dangling /\ callBackList' = callBackList
      /\ registered' = registered \cup {c}
      /\ UNCHANGED <<hook, freed, dangling, deadCall, redirect, aborted, loads>>
  BY DEF addLinkerCallBack
<1>2. /\ callBackList' \in Seq(Callbacks)
      /\ Range(callBackList') \subseteq registered \cup {c}
  <2>1. callBackList \in Seq(Callbacks) /\ Range(callBackList) \subseteq registered
    BY DEF IInv, TypeOK
  <2>2. CASE callBackList' = callBackList
    BY <2>1, <2>2
  <2>3. CASE callBackList' = Append(callBackList, c)
    <3>1. /\ callBackList' \in Seq(Callbacks)
          /\ DOMAIN callBackList' = 1..(Len(callBackList) + 1)
          /\ \A j \in 1..Len(callBackList) : callBackList'[j] = callBackList[j]
          /\ callBackList'[Len(callBackList) + 1] = c
      BY <2>1, <2>3, AppendProperties
    <3>2. ASSUME NEW j \in DOMAIN callBackList' PROVE callBackList'[j] \in registered \cup {c}
      <4>1. CASE j = Len(callBackList) + 1
        BY <3>1, <4>1
      <4>2. CASE j \in DOMAIN callBackList
        BY <2>1, <3>1, <4>2 DEF Range
      <4>3. QED
        BY <2>1, <3>1, <4>1, <4>2
    <3>3. QED
      BY <3>1, <3>2 DEF Range
  <2>4. QED
    BY <1>1, <2>2, <2>3
<1>3. TypeOK'
  BY <1>1, <1>2 DEF IInv, TypeOK
<1>4. ASSUME NEW load \in Load, Sound(load) PROVE Sound(load)'
  <2>1. CASE dangling
    BY <1>1, <1>4, <2>1 DEF Sound, Heard, Truthful
  <2>2. CASE ~dangling
    <3>1. /\ callBackList \in Seq(Callbacks)
          /\ callBackList' = Append(callBackList, c)
          /\ Len(callBackList') = Len(callBackList) + 1
          /\ \A j \in 1..Len(callBackList) : callBackList'[j] = callBackList[j]
      BY <1>1, <2>2, AppendProperties DEF IInv, TypeOK
    <3>2. Range(callBackList) \subseteq Range(callBackList')
      BY <3>1 DEF Range
    <3>3. ASSUME NEW heard, Upto(load, heard), load.i <= Len(callBackList) + 1
          PROVE  Upto(load, heard)'
      <4>1. load.i \in Nat
        BY DEF Load
      <4>2. ASSUME NEW j \in DOMAIN callBackList', j < load.i
            PROVE  j \in DOMAIN callBackList
        BY <3>1, <3>3, <4>1, <4>2
      <4>3. QED
        BY <3>1, <3>3, <4>2 DEF Upto
    <3>4. load.i \in Nat /\ Len(callBackList) \in Nat
      BY <3>1 DEF Load
    <3>5. load.path # NullPath => load.i <= Len(callBackList) + 1
      BY <1>4, <2>2 DEF Sound, Heard
    <3>6. load.path # NullPath => load.i <= Len(callBackList') + 1
      BY <3>1, <3>4, <3>5
    <3>7. Heard(load)'
      <4> SUFFICES ASSUME load.path # NullPath
                   PROVE  /\ load.due \subseteq Range(callBackList')
                          /\ load.pc = "before" => Upto(load, load.told)'
                          /\ load.pc # "before" => load.due \subseteq load.told
                          /\ load.pc = "after" => Upto(load, load.toldAfter)'
                          /\ load.pc = "done" => load.due \subseteq load.toldAfter
        BY <1>1, <3>6 DEF Heard
      <4>1. QED
        BY <1>4, <2>2, <3>2, <3>3, <3>5 DEF Sound, Heard
    <3>8. QED
      BY <1>4, <3>7 DEF Sound, Truthful
  <2>3. QED
    BY <2>1, <2>2
<1>5. AllSound'
  BY <1>1, <1>4 DEF IInv, AllSound, TypeOK
<1>6. QED
  BY <1>1, <1>2, <1>3, <1>5 DEF IInv

LEMMA CleanKeeps ==
    ASSUME IInv, cleanCallBack
    PROVE  IInv'
<1>1. /\ freed' = freed \cup Range(callBackList) /\ dangling' = TRUE
      /\ UNCHANGED <<hook, callBackList, registered, deadCall, redirect, aborted, loads>>
  BY DEF cleanCallBack
<1>2. TypeOK'
  BY <1>1 DEF IInv, TypeOK
<1>3. AllSound'
  BY <1>1 DEF IInv, AllSound, Sound, Heard, Truthful
<1>4. QED
  BY <1>1, <1>2, <1>3 DEF IInv

LEMMA RedirectKeeps ==
    ASSUME IInv, NEW r \in Redirects, linkerIORedirect(r)
    PROVE  IInv'
<1>1. /\ UNCHANGED <<hook, callBackList, registered, freed, dangling, deadCall, loads>>
      /\ redirect' \in Redirects \cup {NoRedirect} /\ aborted' \in BOOLEAN
  BY DEF linkerIORedirect, IInv, TypeOK
<1>2. QED
  BY <1>1 DEF IInv, TypeOK, AllSound, Sound, Heard, Truthful, Upto

------------------------------------------------------------------------------

THEOREM Invariance == Spec => []IInv
<1>1. Init => IInv
  <2> SUFFICES ASSUME Init PROVE IInv
    OBVIOUS
  <2>1. TypeOK
    <3>1. <<>> \in Seq(Callbacks) /\ <<>> \in Seq(Load)
      OBVIOUS
    <3>2. QED
      BY <3>1 DEF Init, TypeOK
  <2>2. AllSound /\ Range(callBackList) \subseteq registered
    BY DEF Init, AllSound, Range
  <2>3. QED
    BY <2>1, <2>2 DEF IInv
<1>2. IInv /\ [Next]_vars => IInv'
  <2> SUFFICES ASSUME IInv, [Next]_vars PROVE IInv'
    OBVIOUS
  <2>1. ASSUME NEW t \in Threads, LoadStep(t) PROVE IInv'
    BY <2>1, TellBeforeKeeps, BeforeDoneKeeps, AskRedirectKeeps, OrigReturnsKeeps,
       TellAfterKeeps, AfterDoneKeeps, EndLoadKeeps DEF LoadStep
  <2>2. CASE Next
    BY <2>1, <2>2, InitKeeps, AddKeeps, CleanKeeps, RedirectKeeps, BeginLoadKeeps DEF Next
  <2>3. CASE UNCHANGED vars
    BY <2>3 DEF vars, IInv, TypeOK, AllSound, Sound, Heard, Truthful, Upto
  <2>4. QED
    BY <2>2, <2>3
<1>3. QED
  BY <1>1, <1>2, PTL DEF Spec

\* The lists, objects and loads of the linker handler are what they are taken
\* for, however the interface is called (linkerHandler.cpp).
THEOREM TypeCorrect == Spec => []TypeOK
<1>1. IInv => TypeOK
  BY DEF IInv
<1>2. QED
  BY Invariance, <1>1, PTL

\* Before cleanCallBack, the two loops of the replaced dlopen family tell every
\* callback that was registered when the load began, although the list grows
\* under them and other loads walk it, in this thread too.
THEOREM EveryoneHears == Spec => []ToldBothSides
<1>1. IInv => ToldBothSides
  BY DEF IInv, TypeOK, AllSound, Sound, Heard, ToldBothSides, LoadsAt, Range
<1>2. QED
  BY Invariance, <1>1, PTL

\* A redirect that is set between the start of a load and its report does not
\* make the report wrong: relocated_path is read once.
THEOREM ReportsAreTrue == Spec => []ReportsWhatWasLoaded
<1>1. IInv => ReportsWhatWasLoaded
  BY DEF IInv, TypeOK, AllSound, Sound, Truthful, ReportsWhatWasLoaded, LoadsAt, Range
<1>2. QED
  BY Invariance, <1>1, PTL
=============================================================================
