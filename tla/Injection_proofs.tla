-------------------------- MODULE Injection_proofs --------------------------
(***************************************************************************)
(* LHook starts the tracers at most once in a process in which no two      *)
(* threads are inside it at the same time, and starts them as one save     *)
(* chose, for any packages, threads, configurations, saves and loads.      *)
(***************************************************************************)
EXTENDS Injection, TLAPS

Busy(t) == threads[t].at # "idle"
Between(t) == threads[t].at \in {"merge", "find", "file for lines", "start"}

\* What is being saved is a configuration.
Saving == saving.at # "idle" => saving.config \in Configs

\* Nothing runs or has started outside a process, and a process has a loader.
Running ==
    /\ host = None => starts = <<>> /\ \A t \in Threads : ~Busy(t)
    /\ host # None => fields.loader \in Packages

\* The class that native methods are called of is that of some loader.
Classed == \A t \in Threads :
    threads[t].at \in {"file for lines", "start"} => threads[t].class \in Loaders

\* Without an overlap: one thread at a time; it leaves with isInit set once
\* the tracers were started, and they were not if it is on the way there.
Alone == \A t, u \in Threads : Busy(t) /\ Busy(u) => t = u
Before == \A t \in Threads : Between(t) => starts = <<>>
After ==
    /\ Len(starts) <= 1
    /\ starts # <<>> => fields.isInit \/ \E t \in Threads : threads[t].at = "set"

Single == Alone /\ Before /\ After

IInv == TypeOK /\ Saving /\ Running /\ Classed /\ (met \/ Single)

Thread == [at : Steps, package : Packages \cup {None}, class : Loaders \cup {None}]
Fields == [tag : Packages \cup {None}, functions : SUBSET Functions,
           system : BOOLEAN, serialization : BOOLEAN, loader : Packages \cup {None},
           isInit : BOOLEAN, hooked : BOOLEAN, merged : SUBSET Loaders,
           lib : Loaders \cup {None}, named : BOOLEAN]
Starts == Seq([functions : SUBSET Functions, loader : Loaders])

\* The part of the type invariant that is about the files.
StoreType ==
    /\ saving \in [at : SaveSteps, config : Configs \cup {None},
                   file : Configs \cup {Empty}, failed : BOOLEAN]
    /\ {prefs, saved} \subseteq Configs \cup {None}
    /\ files \in [Packages -> Configs \cup {None, Empty}]
    /\ dexes \subseteq Packages
    /\ counts \in [saves : 0..MaxSaves, loads : 0..MaxLoads]
\* The part that is about the process.
ProcessType ==
    /\ due \in Configs \cup {None} /\ host \in Packages \cup {None}
    /\ fields \in Fields /\ threads \in [Threads -> Thread]
    /\ starts \in Starts /\ met \in BOOLEAN /\ hindered \in BOOLEAN

LEMMA Parts == TypeOK <=> StoreType /\ ProcessType
BY DEF TypeOK, StoreType, ProcessType, Fields, Thread, Starts

------------------------------------------------------------------------------
(* What the steps of threads have in common.                                *)

LEMMA Moving ==
    ASSUME threads \in [Threads -> Thread], NEW t \in Threads, NEW w \in Thread,
           threads' = [threads EXCEPT ![t] = w]
    PROVE  /\ threads' \in [Threads -> Thread] /\ threads'[t] = w
           /\ \A u \in Threads : u # t => threads'[u] = threads[u]
OBVIOUS

\* A thread inside LHook goes on, to w: it must not go back before the start
\* once there was one, nor leave without isInit being set.
LEMMA Continues ==
    ASSUME IInv, NEW t \in Threads, Busy(t), NEW w \in Thread,
           threads' = [threads EXCEPT ![t] = w],
           UNCHANGED <<store, host, due, met, counts>>, hindered' \in BOOLEAN,
           fields' \in Fields, fields'.loader = fields.loader, starts' \in Starts,
           w.at \in {"file for lines", "start"} => w.class \in Loaders,
           Single => /\ w.at \in {"merge", "find", "file for lines", "start"} => starts' = <<>>
                     /\ Len(starts') <= 1
                     /\ starts' # <<>> => fields'.isInit \/ w.at = "set"
    PROVE  IInv'
<1>1. StoreType /\ ProcessType
  BY Parts DEF IInv
<1>2. /\ threads' \in [Threads -> Thread] /\ threads'[t] = w
      /\ \A u \in Threads : u # t => threads'[u] = threads[u]
  BY <1>1, Moving DEF ProcessType
<1>3. StoreType'
  BY <1>1 DEF StoreType, store
<1>4. ProcessType'
  BY <1>1, <1>2 DEF ProcessType
<1>5. TypeOK'
  <2>1. TypeOK' <=> StoreType' /\ ProcessType'
    BY Parts, PTL
  <2>2. QED
    BY <1>3, <1>4, <2>1
<1>6. Saving'
  BY DEF IInv, Saving, store
<1>7. Running'
  BY DEF IInv, Running
<1>8. Classed'
  BY <1>2 DEF IInv, Classed, Loaders
<1>9. ASSUME Single PROVE Single'
  <2>1. \A u \in Threads : u # t => ~Busy(u)
    BY <1>9 DEF Single, Alone
  <2>2. \A u \in Threads : u # t => threads'[u].at = "idle"
    BY <1>2, <2>1 DEF Busy
  <2>3. Alone'
    BY <2>2 DEF Alone, Busy
  <2>4. Before'
    BY <1>2, <1>9, <2>2 DEF Before, Between
  <2>5. After'
    BY <1>2, <1>9 DEF After
  <2>6. QED
    BY <2>3, <2>4, <2>5 DEF Single
<1>10. QED
  BY <1>5, <1>6, <1>7, <1>8, <1>9 DEF IInv

\* The step that a thread goes on to; what it works on stays.
Onto(t, at) == [threads[t] EXCEPT !.at = at]

LEMMA Going ==
    ASSUME threads \in [Threads -> Thread], NEW t \in Threads, NEW at \in Steps
    PROVE  /\ Onto(t, at) \in Thread /\ Onto(t, at).at = at
           /\ Onto(t, at).class = threads[t].class
           /\ Goes(t, at) => threads' = [threads EXCEPT ![t] = Onto(t, at)]
<1>1. threads[t] \in Thread
  OBVIOUS
<1>2. /\ Onto(t, at) \in Thread /\ Onto(t, at).at = at
      /\ Onto(t, at).class = threads[t].class
  BY <1>1 DEF Onto, Thread
<1>3. Goes(t, at) => threads' = [threads EXCEPT ![t] = Onto(t, at)]
  BY DEF Goes, Onto
<1>4. QED
  BY <1>2, <1>3

LEMMA IdleType == Idle \in Thread /\ Idle.at = "idle"
BY DEF Idle, Thread, Steps

\* The facts that every step needs.
LEMMA Facts ==
    ASSUME IInv
    PROVE  /\ StoreType /\ fields \in Fields /\ threads \in [Threads -> Thread]
           /\ starts \in Starts /\ met \in BOOLEAN /\ hindered \in BOOLEAN
           /\ due \in Configs \cup {None} /\ host \in Packages \cup {None}
           /\ Hinder => hindered' \in BOOLEAN
           /\ UNCHANGED hindered => hindered' \in BOOLEAN
           /\ \A t \in Threads : Busy(t) => host \in Packages /\ fields.loader \in Packages
<1>1. StoreType /\ ProcessType
  BY Parts DEF IInv
<1>2. QED
  BY <1>1 DEF ProcessType, Hinder, IInv, Running

\* A configuration replaces the fields and adds to the lists.
LEMMA Reading ==
    ASSUME fields \in Fields, NEW json
    PROVE  /\ InitConfigData(json) \in Fields
           /\ InitConfigData(json).loader = fields.loader
           /\ InitConfigData(json).isInit = fields.isInit
<1>1. CASE json \in Configs
  <2>1. json \in Configurations
    BY <1>1, ConfigsAssumption
  <2>2. /\ json.package \in Packages /\ json.functions \in SUBSET Functions
        /\ json.system \in BOOLEAN /\ json.serialization \in BOOLEAN
    BY <2>1 DEF Configurations
  <2>3. fields.functions \cup json.functions \in SUBSET Functions
    BY <2>2 DEF Fields
  <2>4. (fields.named \/ json.package = host) \in BOOLEAN
    OBVIOUS
  <2>5. QED
    BY <1>1, <2>2, <2>3, <2>4 DEF InitConfigData, Fields
<1>2. CASE json \notin Configs
  BY <1>2 DEF InitConfigData
<1>3. QED
  BY <1>1, <1>2

\* The most common step: nothing but the thread changes, and it is not about to
\* start anything that was started.
LEMMA Stepping ==
    ASSUME IInv, NEW t \in Threads, Busy(t), NEW at \in Steps,
           at \in {"file for lines", "start"} => threads[t].class \in Loaders,
           at \in {"merge", "find", "file for lines", "start"} => Between(t),
           threads[t].at # "set" \/ at = "set",
           Goes(t, at), UNCHANGED <<store, host, starts, due, met, counts>>,
           hindered' \in BOOLEAN, fields' \in Fields, fields'.loader = fields.loader,
           fields'.isInit = fields.isInit
    PROVE  IInv'
<1>1. threads \in [Threads -> Thread] /\ starts \in Starts
  BY Facts
<1>2. /\ Onto(t, at) \in Thread /\ Onto(t, at).at = at
      /\ Onto(t, at).class = threads[t].class
      /\ threads' = [threads EXCEPT ![t] = Onto(t, at)]
  BY <1>1, Going
<1>3. ASSUME Single
      PROVE  /\ at \in {"merge", "find", "file for lines", "start"} => starts' = <<>>
             /\ Len(starts') <= 1
             /\ starts' # <<>> => fields'.isInit \/ at = "set"
  <2>1. at \in {"merge", "find", "file for lines", "start"} => starts' = <<>>
    BY <1>3 DEF Single, Before
  <2>2. Len(starts') <= 1
    BY <1>3 DEF Single, After
  <2>3. ASSUME starts # <<>> PROVE fields.isInit \/ threads[t].at = "set"
    <3>1. PICK u \in Threads : fields.isInit \/ threads[u].at = "set"
      BY <1>3, <2>3 DEF Single, After
    <3>2. threads[u].at = "set" => u = t
      BY <1>3 DEF Single, Alone, Busy
    <3>3. QED
      BY <3>1, <3>2
  <2>4. QED
    BY <2>1, <2>2, <2>3
<1>4. QED
  BY <1>1, <1>2, <1>3, Continues

LEMMA Out ==
    ASSUME IInv, NEW t \in Threads, Busy(t), threads[t].at # "set",
           Leaves(t), UNCHANGED <<store, host, starts, due, met, counts>>,
           hindered' \in BOOLEAN, fields' \in Fields, fields'.loader = fields.loader,
           fields'.isInit = fields.isInit
    PROVE  IInv'
<1>1. threads' = [threads EXCEPT ![t] = Idle] /\ starts \in Starts
  BY Facts DEF Leaves
<1>2. ASSUME Single
      PROVE  Len(starts') <= 1 /\ (starts' # <<>> => fields'.isInit)
  <2>1. ASSUME starts # <<>> PROVE fields.isInit
    <3>1. PICK u \in Threads : fields.isInit \/ threads[u].at = "set"
      BY <1>2, <2>1 DEF Single, After
    <3>2. threads[u].at = "set" => u = t
      BY <1>2 DEF Single, Alone, Busy
    <3>3. QED
      BY <3>1, <3>2
  <2>2. QED
    BY <1>2, <2>1 DEF Single, After
<1>3. QED
  BY <1>1, <1>2, IdleType, Continues

LEMMA Reads ==
    ASSUME IInv, NEW t \in Threads, ReadPrefs(t) \/ ReadFile(t) \/ Match(t)
    PROVE  IInv'
<1>1. /\ fields \in Fields /\ hindered \in BOOLEAN /\ (Hinder => hindered' \in BOOLEAN)
      /\ threads \in [Threads -> Thread]
  BY Facts
<1>2. CASE ReadPrefs(t)
  <2>1. Busy(t) /\ threads[t].at = "prefs"
    BY <1>2 DEF ReadPrefs, At, Busy
  <2>2. PICK json \in {prefs, None} :
            /\ fields' = InitConfigData(json)
            /\ Goes(t, IF json = None THEN "file" ELSE "match")
    BY <1>2 DEF ReadPrefs
  <2>3. /\ fields' \in Fields /\ fields'.loader = fields.loader
        /\ fields'.isInit = fields.isInit
    BY <1>1, <2>2, Reading
  <2>4. UNCHANGED <<store, host, starts, due, met, hindered, counts>>
    BY <1>2 DEF ReadPrefs
  <2>5. PICK at \in {"file", "match"} : Goes(t, at)
    BY <2>2
  <2>6. at \in Steps
    BY DEF Steps
  <2>7. QED
    BY <1>1, <2>1, <2>3, <2>4, <2>5, <2>6, Stepping
<1>3. CASE ReadFile(t)
  <2>1. /\ Busy(t) /\ threads[t].at = "file"
        /\ UNCHANGED <<store, host, starts, due, met, counts>>
    BY <1>3 DEF ReadFile, At, Busy
  <2>2. CASE Leaves(t) /\ UNCHANGED <<fields, hindered>>
    BY <1>1, <2>1, <2>2, Out
  <2>3. CASE Goes(t, "match") /\ fields' = InitConfigData(files[threads[t].package])
             /\ UNCHANGED hindered
    <3>1. /\ fields' \in Fields /\ fields'.loader = fields.loader
          /\ fields'.isInit = fields.isInit
      BY <1>1, <2>3, Reading
    <3>2. "match" \in Steps
      BY DEF Steps
    <3>3. QED
      BY <1>1, <2>1, <2>3, <3>1, <3>2, Stepping
  <2>4. CASE Goes(t, "match") /\ Hinder /\ UNCHANGED fields
    <3>1. "match" \in Steps
      BY DEF Steps
    <3>2. QED
      BY <1>1, <2>1, <2>4, <3>1, Stepping
  <2>5. QED
    BY <1>3, <2>2, <2>3, <2>4 DEF ReadFile
<1>4. CASE Match(t)
  <2>1. /\ Busy(t) /\ threads[t].at = "match"
        /\ UNCHANGED <<store, host, starts, due, met, hindered, counts>>
    BY <1>4 DEF Match, At, Busy
  <2>2. CASE Leaves(t) /\ UNCHANGED fields
    BY <1>1, <2>1, <2>2, Out
  <2>3. CASE Leaves(t) /\ fields' = [fields EXCEPT !.hooked = TRUE]
    <3>1. /\ fields' \in Fields /\ fields'.loader = fields.loader
          /\ fields'.isInit = fields.isInit
      BY <1>1, <2>3 DEF Fields
    <3>2. QED
      BY <1>1, <2>1, <2>3, <3>1, Out
  <2>4. CASE threads' = [threads EXCEPT ![t] = [Idle EXCEPT !.at = "test"]] /\ UNCHANGED fields
    <3>1. [Idle EXCEPT !.at = "test"] \in Thread /\ [Idle EXCEPT !.at = "test"].at = "test"
      BY DEF Idle, Thread, Steps
    <3>2. ASSUME Single
          PROVE  Len(starts') <= 1 /\ (starts' # <<>> => fields'.isInit)
      <4>1. ASSUME starts # <<>> PROVE fields.isInit
        <5>1. PICK u \in Threads : fields.isInit \/ threads[u].at = "set"
          BY <3>2, <4>1 DEF Single, After
        <5>2. threads[u].at = "set" => u = t
          BY <2>1, <3>2 DEF Single, Alone, Busy
        <5>3. QED
          BY <2>1, <5>1, <5>2
      <4>2. QED
        BY <2>1, <2>4, <3>2, <4>1 DEF Single, After
    <3>3. starts \in Starts
      BY Facts
    <3>4. QED
      BY <1>1, <2>1, <2>4, <3>1, <3>2, <3>3, Continues
  <2>5. QED
    BY <1>4, <2>2, <2>3, <2>4 DEF Match
<1>5. QED
  BY <1>2, <1>3, <1>4

\* The loader that is merged and looked in is there.
LEMMA Loading ==
    ASSUME IInv, NEW t \in Threads, Busy(t)
    PROVE  LoaderOf \in Loaders
BY Facts DEF LoaderOf, Loaders

LEMMA Prepares ==
    ASSUME IInv, NEW t \in Threads, Merge(t) \/ FindClass(t) \/ MakeFile(t)
    PROVE  IInv'
<1>1. /\ fields \in Fields /\ hindered \in BOOLEAN /\ (Hinder => hindered' \in BOOLEAN)
      /\ threads \in [Threads -> Thread] /\ starts \in Starts
  BY Facts
<1>2. CASE Merge(t)
  <2>1. /\ Busy(t) /\ threads[t].at = "merge" /\ Goes(t, "find")
        /\ UNCHANGED <<store, host, starts, due, met, counts>>
    BY <1>2 DEF Merge, At, Busy
  <2>2. LoaderOf \in Loaders
    BY <2>1, Loading
  <2>3. fields.merged \cup {LoaderOf} \in SUBSET Loaders
    BY <1>1, <2>2 DEF Fields
  <2>4. /\ fields' \in Fields /\ fields'.loader = fields.loader
        /\ fields'.isInit = fields.isInit
    <3>1. CASE UNCHANGED fields
      BY <1>1, <3>1
    <3>2. CASE fields' = [fields EXCEPT !.merged = @ \cup {LoaderOf},
                             !.lib = IF @ = None THEN LoaderOf ELSE @]
      <4>1. (IF fields.lib = None THEN LoaderOf ELSE fields.lib) \in Loaders \cup {None}
        BY <1>1, <2>2 DEF Fields
      <4>2. QED
        BY <1>1, <2>3, <3>2, <4>1 DEF Fields
    <3>3. CASE fields' = [fields EXCEPT !.merged = @ \cup {LoaderOf}]
      BY <1>1, <2>3, <3>3 DEF Fields
    <3>4. QED
      BY <1>2, <3>1, <3>2, <3>3 DEF Merge
  <2>5. hindered' \in BOOLEAN
    BY <1>1, <1>2 DEF Merge
  <2>6. "find" \in Steps /\ Between(t)
    BY <2>1 DEF Steps, Between
  <2>7. QED
    BY <2>1, <2>4, <2>5, <2>6, Stepping
<1>3. CASE FindClass(t)
  <2>1. /\ Busy(t) /\ threads[t].at = "find" /\ Between(t)
        /\ UNCHANGED <<store, host, fields, starts, due, met, hindered, counts>>
    BY <1>3 DEF FindClass, At, Busy, Between
  <2>2. CASE Leaves(t)
    BY <1>1, <2>1, <2>2, Out
  <2>3. CASE threads' = [threads EXCEPT ![t].at = "file for lines", ![t].class = LoaderOf]
    <3>1. LoaderOf \in Loaders
      BY <2>1, Loading
    <3>2. DEFINE w == [threads[t] EXCEPT !.at = "file for lines", !.class = LoaderOf]
    <3>3. w \in Thread /\ w.at = "file for lines" /\ w.class \in Loaders
      BY <1>1, <3>1 DEF Thread, Steps
    <3>4. threads' = [threads EXCEPT ![t] = w]
      BY <1>1, <2>3 DEF Thread
    <3>5. Single => starts' = <<>> /\ Len(starts') <= 1
      BY <2>1 DEF Single, Before
    <3>6. QED
      BY <1>1, <2>1, <3>3, <3>4, <3>5, Continues
  <2>4. QED
    BY <1>3, <2>2, <2>3 DEF FindClass
<1>4. CASE MakeFile(t)
  <2>1. /\ Busy(t) /\ threads[t].at = "file for lines" /\ Between(t)
        /\ UNCHANGED <<store, host, fields, starts, due, met, hindered, counts>>
    BY <1>4 DEF MakeFile, At, Busy, Between
  <2>2. threads[t].class \in Loaders
    BY <2>1 DEF IInv, Classed
  <2>3. CASE Leaves(t)
    BY <1>1, <2>1, <2>3, Out
  <2>4. ASSUME NEW at \in {"start", "set"}, Goes(t, at) PROVE IInv'
    <3>1. at \in Steps
      BY DEF Steps
    <3>2. QED
      BY <1>1, <2>1, <2>2, <2>4, <3>1, Stepping
  <2>5. QED
    BY <1>4, <2>3, <2>4 DEF MakeFile
<1>5. QED
  BY <1>2, <1>3, <1>4

LEMMA Tests ==
    ASSUME IInv, NEW t \in Threads, TestInit(t)
    PROVE  IInv'
<1>1. /\ fields \in Fields /\ hindered \in BOOLEAN
      /\ threads \in [Threads -> Thread] /\ starts \in Starts
  BY Facts
<1>2. /\ Busy(t) /\ threads[t].at = "test"
      /\ UNCHANGED <<store, host, fields, starts, due, met, hindered, counts>>
  BY DEF TestInit, At, Busy
<1>3. CASE Leaves(t)
  BY <1>1, <1>2, <1>3, Out
<1>4. ASSUME ~fields.isInit, NEW at \in {"set", "merge"}, Goes(t, at) PROVE IInv'
  <2>1. at \in Steps
    BY DEF Steps
  <2>2. /\ Onto(t, at) \in Thread /\ Onto(t, at).at = at
        /\ threads' = [threads EXCEPT ![t] = Onto(t, at)]
    BY <1>1, <1>4, <2>1, Going
  <2>3. ASSUME Single PROVE starts = <<>>
    <3>1. \A u \in Threads : threads[u].at = "set" => u = t
      BY <1>2, <2>3 DEF Single, Alone, Busy
    <3>2. QED
      BY <1>2, <1>4, <2>3, <3>1 DEF Single, After
  <2>4. Single => starts' = <<>> /\ Len(starts') <= 1
    BY <1>2, <2>3
  <2>5. at \notin {"file for lines", "start"}
    OBVIOUS
  <2>6. QED
    BY <1>1, <1>2, <2>2, <2>4, <2>5, Continues
<1>5. QED
  BY <1>3, <1>4 DEF TestInit

LEMMA Appending ==
    ASSUME NEW S, NEW s \in Seq(S), NEW e \in S
    PROVE  Append(s, e) \in Seq(S) /\ (s = <<>> => Len(Append(s, e)) <= 1)
OBVIOUS

LEMMA BeginsTracing ==
    ASSUME IInv, NEW t \in Threads, StartHookJni(t) \/ SetInit(t)
    PROVE  IInv'
<1>1. /\ fields \in Fields /\ hindered \in BOOLEAN
      /\ threads \in [Threads -> Thread] /\ starts \in Starts
  BY Facts
<1>2. CASE StartHookJni(t)
  <2>1. /\ Busy(t) /\ threads[t].at = "start" /\ Between(t) /\ Goes(t, "set")
        /\ UNCHANGED <<store, host, fields, due, met, hindered, counts>>
    BY <1>2 DEF StartHookJni, At, Busy, Between
  <2>2. threads[t].class \in Loaders
    BY <2>1 DEF IInv, Classed
  <2>3. "set" \in Steps
    BY DEF Steps
  <2>4. /\ Onto(t, "set") \in Thread /\ Onto(t, "set").at = "set"
        /\ threads' = [threads EXCEPT ![t] = Onto(t, "set")]
    BY <1>1, <2>1, <2>3, Going
  <2>5. DEFINE e == [functions |-> fields.functions, loader |-> fields.lib]
  <2>6. starts' = starts \/ (fields.lib \in Loaders /\ starts' = Append(starts, e))
    BY <1>2, <2>2 DEF StartHookJni
  <2>7. fields.lib \in Loaders => e \in [functions : SUBSET Functions, loader : Loaders]
    BY <1>1 DEF Fields
  <2> HIDE DEF e
  <2>8. starts' \in Starts /\ (starts = <<>> => Len(starts') <= 1)
    <3>1. CASE starts' = starts
      BY <1>1, <3>1
    <3>2. CASE fields.lib \in Loaders /\ starts' = Append(starts, e)
      <4>1. e \in [functions : SUBSET Functions, loader : Loaders]
        BY <2>7, <3>2
      <4>2. starts \in Seq([functions : SUBSET Functions, loader : Loaders])
        BY <1>1 DEF Starts
      <4>3. /\ Append(starts, e) \in Seq([functions : SUBSET Functions, loader : Loaders])
            /\ (starts = <<>> => Len(Append(starts, e)) <= 1)
        BY <4>1, <4>2, Appending
      <4>4. QED
        BY <3>2, <4>3 DEF Starts
    <3>3. QED
      BY <2>6, <3>1, <3>2
  <2>9. Single => Len(starts') <= 1
    BY <2>1, <2>8 DEF Single, Before
  <2>10. QED
    BY <1>1, <2>1, <2>4, <2>8, <2>9, Continues
<1>3. CASE SetInit(t)
  <2>1. /\ Busy(t) /\ Leaves(t) /\ fields' = [fields EXCEPT !.isInit = TRUE]
        /\ UNCHANGED <<store, host, starts, due, met, hindered, counts>>
    BY <1>3 DEF SetInit, At, Busy
  <2>2. fields' \in Fields /\ fields'.loader = fields.loader /\ fields'.isInit
    BY <1>1, <2>1 DEF Fields
  <2>3. threads' = [threads EXCEPT ![t] = Idle]
    BY <2>1 DEF Leaves
  <2>4. Single => Len(starts') <= 1
    BY <2>1 DEF Single, After
  <2>5. QED
    BY <1>1, <2>1, <2>2, <2>3, <2>4, IdleType, Continues
<1>4. QED
  BY <1>2, <1>3

------------------------------------------------------------------------------
(* Threads that enter LHook, and processes.                                 *)

\* A thread that enters either is alone in LHook, or that is noted.
LEMMA Entering ==
    ASSUME IInv, NEW t \in Threads, NEW at \in {"prefs", "test"},
           NEW p \in Packages \cup {None}, Enters(t, at, p),
           UNCHANGED <<saving, prefs, files, dexes, saved, host, starts, due, hindered>>,
           fields' \in Fields, fields'.loader \in Packages, fields'.isInit = fields.isInit,
           counts' \in [saves : 0..MaxSaves, loads : 0..MaxLoads]
    PROVE  IInv'
<1>1. /\ StoreType /\ threads \in [Threads -> Thread] /\ starts \in Starts
      /\ hindered \in BOOLEAN /\ met \in BOOLEAN
      /\ due \in Configs \cup {None} /\ host \in Packages \cup {None}
  BY Facts
<1>2. DEFINE w == [Idle EXCEPT !.at = at, !.package = p]
<1>3. w \in Thread /\ w.at = at
  BY DEF Idle, Thread, Steps
<1>4. threads' = [threads EXCEPT ![t] = w] /\ host # None /\ threads[t].at = "idle"
  BY DEF Enters, At
<1> HIDE DEF w
<1>5. /\ threads' \in [Threads -> Thread] /\ threads'[t] = w
      /\ \A u \in Threads : u # t => threads'[u] = threads[u]
  BY <1>1, <1>3, <1>4, Moving
<1>6. met' = (met \/ \E u \in Threads : ~At(u, "idle"))
  BY DEF Enters
<1>7. TypeOK'
  <2>1. StoreType'
    BY <1>1 DEF StoreType
  <2>2. ProcessType'
    BY <1>1, <1>5, <1>6 DEF ProcessType
  <2>3. TypeOK' <=> StoreType' /\ ProcessType'
    BY DEF TypeOK, StoreType, ProcessType, Fields, Thread, Starts
  <2>4. QED
    BY <2>1, <2>2, <2>3
<1>8. Saving' /\ Running'
  BY <1>4 DEF IInv, Saving, Running
<1>9. Classed'
  <2>1. w.at \notin {"file for lines", "start"}
    BY <1>3
  <2>2. QED
    BY <1>5, <2>1 DEF IInv, Classed, Loaders
<1>10. ASSUME ~met' PROVE Single'
  <2>1. Single /\ \A u \in Threads : threads[u].at = "idle"
    BY <1>6, <1>10 DEF IInv, At
  <2>2. \A u \in Threads : u # t => threads'[u].at = "idle"
    BY <1>5, <2>1
  <2>3. Alone'
    BY <2>2 DEF Alone, Busy
  <2>4. Before'
    BY <1>3, <1>5, <2>2 DEF Before, Between
  <2>5. After'
    <3>1. ASSUME starts # <<>> PROVE fields.isInit
      BY <2>1, <3>1 DEF Single, After
    <3>2. QED
      BY <2>1, <3>1 DEF Single, After
  <2>6. QED
    BY <2>3, <2>4, <2>5 DEF Single
<1>11. QED
  BY <1>7, <1>8, <1>9, <1>10 DEF IInv

LEMMA Loads ==
    ASSUME IInv, NEW t \in Threads,
           CreateAppContext(t) \/ \E p \in Packages : HandleLoadPackage(t, p)
    PROVE  IInv'
<1>1. /\ StoreType /\ fields \in Fields /\ host \in Packages \cup {None}
  BY Facts
<1>2. CASE CreateAppContext(t)
  <2>1. fields.loader \in Packages
    BY <1>2 DEF IInv, Running, CreateAppContext, Enters
  <2>2. counts \in [saves : 0..MaxSaves, loads : 0..MaxLoads]
    BY <1>1 DEF StoreType
  <2>3. /\ UNCHANGED <<saving, prefs, files, dexes, saved, host, fields, starts, due, hindered, counts>>
        /\ Enters(t, "test", None)
    BY <1>2 DEF CreateAppContext, store
  <2>4. QED
    BY <1>1, <2>1, <2>2, <2>3, Entering
<1>3. ASSUME NEW p \in Packages, HandleLoadPackage(t, p) PROVE IInv'
  <2>1. fields' \in Fields /\ fields'.loader \in Packages /\ fields'.isInit = fields.isInit
    BY <1>1, <1>3 DEF HandleLoadPackage, Fields
  <2>2. counts' \in [saves : 0..MaxSaves, loads : 0..MaxLoads]
    <3>1. counts \in [saves : 0..MaxSaves, loads : 0..MaxLoads]
      BY <1>1 DEF StoreType
    <3>2. counts.loads + 1 \in 0..MaxLoads
      BY <1>3, <3>1, BoundsAssumption DEF HandleLoadPackage
    <3>3. QED
      BY <1>3, <3>1, <3>2 DEF HandleLoadPackage
  <2>3. /\ UNCHANGED <<saving, prefs, files, dexes, saved, host, starts, due, hindered>>
        /\ Enters(t, "prefs", p)
    BY <1>3 DEF HandleLoadPackage, store
  <2>4. QED
    BY <2>1, <2>2, <2>3, Entering
<1>4. QED
  BY <1>2, <1>3

LEMMA FreshType ==
    Fresh \in Fields /\ \A h \in Packages : [Fresh EXCEPT !.loader = h] \in Fields
                                            /\ [Fresh EXCEPT !.loader = h].loader = h
BY DEF Fresh, Fields

LEMMA Processes ==
    ASSUME IInv, Kill \/ \E h \in Packages : Launch(h)
    PROVE  IInv'
<1>1. /\ StoreType /\ threads \in [Threads -> Thread] /\ starts \in Starts
      /\ met \in BOOLEAN
  BY Facts
<1>2. Saving'
  BY DEF IInv, Saving, Kill, Launch, store
<1>3. ASSUME Kill PROVE IInv'
  <2>1. /\ host' = None /\ fields' = Fresh /\ threads' = [t \in Threads |-> Idle]
        /\ starts' = <<>> /\ due' = None /\ met' = FALSE /\ hindered' = FALSE
        /\ counts' = [counts EXCEPT !.loads = 0]
        /\ UNCHANGED <<saving, prefs, files, dexes, saved>>
    BY <1>3 DEF Kill, store
  <2>2. counts' \in [saves : 0..MaxSaves, loads : 0..MaxLoads]
    BY <1>1, <2>1, BoundsAssumption DEF StoreType
  <2>3. StoreType'
    BY <1>1, <2>1, <2>2 DEF StoreType
  <2>4. starts' \in Starts
    BY <2>1 DEF Starts
  <2>5. ProcessType'
    BY <2>1, <2>4, FreshType, IdleType DEF ProcessType
  <2>6. TypeOK'
    BY <2>3, <2>5 DEF TypeOK, StoreType, ProcessType, Fields, Thread, Starts
  <2>7. \A t \in Threads : threads'[t].at = "idle"
    BY <2>1, IdleType
  <2>8. Running' /\ Classed'
    BY <2>1, <2>7 DEF Running, Classed, Busy
  <2>9. Single'
    BY <2>1, <2>7 DEF Single, Alone, Before, After, Busy, Between
  <2>10. QED
    BY <1>2, <2>6, <2>8, <2>9 DEF IInv
<1>4. ASSUME NEW h \in Packages, Launch(h) PROVE IInv'
  <2>1. DEFINE w == [Idle EXCEPT !.at = "prefs", !.package = h]
  <2>2. w \in Thread /\ w.at = "prefs"
    BY DEF Idle, Thread, Steps
  <2>3. /\ host = None /\ host' = h /\ fields' = [Fresh EXCEPT !.loader = h]
        /\ threads' = [threads EXCEPT ![Main] = w]
        /\ hindered' = FALSE
        /\ UNCHANGED <<saving, prefs, files, dexes, saved, starts, met, counts>>
    BY <1>4 DEF Launch, store
  <2> HIDE DEF w
  <2>4. /\ threads' \in [Threads -> Thread] /\ threads'[Main] = w
        /\ \A u \in Threads : u # Main => threads'[u] = threads[u]
    BY <1>1, <2>2, <2>3, Moving, ConfigsAssumption
  <2>5. due' \in Configs \cup {None}
    BY <1>1, <1>4 DEF Launch, StoreType
  <2>6. StoreType'
    BY <1>1, <2>3 DEF StoreType
  <2>7. ProcessType'
    BY <1>1, <2>3, <2>4, <2>5, FreshType DEF ProcessType
  <2>8. TypeOK'
    BY <2>6, <2>7 DEF TypeOK, StoreType, ProcessType, Fields, Thread, Starts
  <2>9. starts' = <<>> /\ \A u \in Threads : u # Main => threads'[u].at = "idle"
    BY <2>3, <2>4 DEF IInv, Running, Busy
  <2>10. Running'
    BY <2>3, FreshType, ConfigsAssumption DEF Running
  <2>11. Classed'
    BY <2>2, <2>4, <2>9 DEF Classed
  <2>12. Single'
    BY <2>9 DEF Single, Alone, Before, After, Busy
  <2>13. QED
    BY <1>2, <2>8, <2>10, <2>11, <2>12 DEF IInv
<1>5. QED
  BY <1>3, <1>4

------------------------------------------------------------------------------
(* Saving touches no process.                                               *)

LEMMA Saved ==
    ASSUME IInv, StoreType', Saving', hindered' \in BOOLEAN,
           UNCHANGED <<host, fields, threads, starts, due, met>>
    PROVE  IInv'
<1>1. ProcessType'
  BY Facts DEF ProcessType
<1>2. TypeOK'
  BY <1>1 DEF TypeOK, StoreType, ProcessType, Fields, Thread, Starts
<1>3. Running' /\ Classed' /\ (met' \/ Single')
  BY DEF IInv, Running, Classed, Busy, Single, Alone, Before, After, Between, Loaders
<1>4. QED
  BY <1>2, <1>3 DEF IInv

LEMMA Saves ==
    ASSUME IInv, Save
    PROVE  IInv'
<1>1. /\ StoreType /\ hindered \in BOOLEAN /\ (Hinder => hindered' \in BOOLEAN)
      /\ (UNCHANGED hindered => hindered' \in BOOLEAN)
  BY Facts
<1> DEFINE SavingSet == [at : SaveSteps, config : Configs \cup {None},
                         file : Configs \cup {Empty}, failed : BOOLEAN]
<1>2. /\ saving \in SavingSet
      /\ saving.at # "idle" => saving.config \in Configs
  BY <1>1 DEF IInv, Saving, StoreType
<1>3. NotSaving \in SavingSet /\ NotSaving.at = "idle"
  BY DEF NotSaving, SaveSteps
<1>4. ASSUME NEW c \in Configs, SaveConfig(c) PROVE IInv'
  <2>1. /\ saving' = [NotSaving EXCEPT !.at = "write", !.config = c]
        /\ counts.saves < MaxSaves /\ counts' = [counts EXCEPT !.saves = @ + 1]
        /\ saved' = None /\ Hinder
        /\ UNCHANGED <<prefs, files, dexes, host, fields, threads, starts, due, met>>
    BY <1>4 DEF SaveConfig
  <2>2. saving' \in SavingSet /\ saving'.config \in Configs
    BY <2>1 DEF NotSaving, SaveSteps
  <2>3. counts' \in [saves : 0..MaxSaves, loads : 0..MaxLoads]
    BY <1>1, <2>1, BoundsAssumption DEF StoreType
  <2>4. StoreType'
    BY <1>1, <2>1, <2>2, <2>3 DEF StoreType
  <2>5. QED
    BY <1>1, <2>1, <2>2, <2>4, Saved DEF Saving
<1>6. /\ \A at \in SaveSteps : SaveGoes(at) =>
             saving' \in SavingSet /\ saving'.config = saving.config
      /\ SaveFails => saving' \in SavingSet /\ saving'.config = saving.config
  BY <1>2 DEF SaveGoes, SaveFails, SaveSteps
<1>7. {"write", "remove", "move", "extract", "chmod", "put"} \subseteq SaveSteps
  BY DEF SaveSteps
<1>8. ASSUME saving.at # "idle", saving' \in SavingSet,
             saving'.config = saving.config \/ saving'.at = "idle",
             {prefs', saved'} \subseteq Configs \cup {None},
             files' \in [Packages -> Configs \cup {None, Empty}], dexes' \subseteq Packages,
             UNCHANGED <<process, counts>>
      PROVE  IInv'
  <2>1. StoreType'
    BY <1>1, <1>8 DEF StoreType
  <2>2. Saving'
    BY <1>2, <1>8 DEF Saving
  <2>3. QED
    BY <1>1, <1>8, <2>1, <2>2, Saved DEF process
<1>9. /\ {prefs, saved} \subseteq Configs \cup {None} /\ dexes \subseteq Packages
      /\ files \in [Packages -> Configs \cup {None, Empty}]
  BY <1>1 DEF StoreType
<1>10. saving.at # "idle" => Target \in Packages
  BY <1>2, ConfigsAssumption DEF Target, Configurations
<1>11. CASE WriteTemp
  <2>1. saving' \in SavingSet /\ saving'.config = saving.config
    <3>1. CASE SaveFails
      BY <1>6, <3>1
    <3>2. ASSUME NEW file \in {saving.config, Empty},
                 saving' = [saving EXCEPT !.at = "remove", !.file = file,
                                         !.failed = (file = Empty)]
          PROVE  saving' \in SavingSet /\ saving'.config = saving.config
      <4>1. file \in Configs \cup {Empty} /\ (file = Empty) \in BOOLEAN /\ "remove" \in SaveSteps
        BY <1>2, <1>11, <3>2 DEF WriteTemp, SaveSteps
      <4>2. QED
        BY <1>2, <3>2, <4>1
    <3>3. QED
      BY <1>11, <3>1, <3>2 DEF WriteTemp
  <2>2. QED
    BY <1>8, <1>9, <1>11, <2>1 DEF WriteTemp
<1>12. CASE RemoveOld
  BY <1>6, <1>7, <1>8, <1>9, <1>12 DEF RemoveOld
<1>13. CASE MoveConfig
  <2>1. files' \in [Packages -> Configs \cup {None, Empty}]
    BY <1>2, <1>9, <1>13 DEF MoveConfig
  <2>2. QED
    BY <1>6, <1>7, <1>8, <1>9, <1>13, <2>1 DEF MoveConfig
<1>14. CASE MoveDex
  BY <1>6, <1>7, <1>8, <1>9, <1>14 DEF MoveDex
<1>15. CASE Chmod
  BY <1>6, <1>7, <1>8, <1>9, <1>10, <1>15 DEF Chmod
<1>16. CASE PutString
  BY <1>2, <1>3, <1>8, <1>9, <1>16 DEF PutString
<1>17. CASE ModuleDies
  BY <1>3, <1>8, <1>9, <1>17 DEF ModuleDies
<1>18. QED
  BY <1>4, <1>11, <1>12, <1>13, <1>14, <1>15, <1>16, <1>17 DEF Save

------------------------------------------------------------------------------
LEMMA Initially == Init => IInv
<1>1. SUFFICES ASSUME Init PROVE IInv
  OBVIOUS
<1>2. StoreType
  BY <1>1, BoundsAssumption DEF Init, StoreType, NotSaving, SaveSteps
<1>3. <<>> \in Starts
  BY DEF Starts
<1>4. ProcessType
  BY <1>1, <1>3, FreshType, IdleType DEF Init, ProcessType
<1>5. \A t \in Threads : threads[t].at = "idle"
  BY <1>1, IdleType DEF Init
<1>6. Saving /\ Running /\ Classed
  BY <1>1, <1>5 DEF Init, Saving, Running, Classed, Busy, NotSaving
<1>7. Single
  BY <1>1, <1>5 DEF Init, Single, Alone, Before, After, Busy, Between
<1>8. QED
  BY <1>2, <1>4, <1>6, <1>7, Parts DEF IInv

LEMMA StepKeeps == IInv /\ [Next]_vars => IInv'
<1>1. SUFFICES ASSUME IInv, [Next]_vars PROVE IInv'
  OBVIOUS
<1>2. ASSUME NEW t \in Threads, Hook(t) PROVE IInv'
  BY <1>1, <1>2, Reads, Tests, Prepares, BeginsTracing DEF Hook
<1>3. CASE UNCHANGED vars
  <2>1. StoreType' /\ Saving' /\ hindered' \in BOOLEAN
    BY <1>1, <1>3, Facts DEF vars, store, process, StoreType, IInv, Saving
  <2>2. QED
    BY <1>1, <1>3, <2>1, Saved DEF vars, process
<1>4. QED
  BY <1>1, <1>2, <1>3, Saves, Processes, Loads DEF Next

\* Configurations, files, threads and the fields of LHook are what they are
\* taken for, whatever is saved and loaded: in particular a native method is
\* only called of a class that some loader has (MainListViewAdapter, LHook).
THEOREM TypeCorrect == Spec => []TypeOK
<1>1. IInv => TypeOK
  BY DEF IInv
<1>2. QED
  BY Initially, StepKeeps, <1>1, PTL DEF Spec

\* isInit, which is tested first and set last in initFunJni, is enough to
\* start the tracers once where threads do not meet in LHook, in spite of all
\* the ways out in between that do not set it.
THEOREM TracersStartOnce == Spec => []StartedOnce
<1>1. IInv => StartedOnce
  BY DEF IInv, Single, After, StartedOnce
<1>2. QED
  BY Initially, StepKeeps, <1>1, PTL DEF Spec

------------------------------------------------------------------------------
(* What the tracers are started with.                                       *)

\* A save that has not failed so far has delivered what is saved.
Delivered ==
    ~saving.failed =>
        /\ saving.at \in {"remove", "move", "extract", "chmod", "put"} =>
               saving.file = saving.config
        /\ saving.at \in {"extract", "chmod", "put"} => files[Target] = saving.config

\* Where the last save is complete, all that a process can read is that.
Complete == saved # None =>
    saving.at = "idle" /\ prefs = saved /\ files[saved.package] = saved

\* The tag names the own package only after a configuration did, and without
\* functions nothing is started.
Named ==
    /\ host # None /\ fields.tag = host => fields.named
    /\ \A t \in Threads : threads[t].at = "start" => fields.named /\ fields.functions # {}
    /\ starts # <<>> => fields.named

\* As long as nothing interferes, only what is due was read and started.
OnlyDue == due # None /\ ~hindered =>
    /\ saved = due /\ due.package = host
    /\ fields.functions \in {{}, due.functions}
    /\ starts # <<>> => starts[1].functions = due.functions

Choice == Delivered /\ Complete /\ Named /\ OnlyDue

LEMMA StoreStays ==
    ASSUME Delivered, Complete, UNCHANGED store
    PROVE  Delivered' /\ Complete'
BY DEF Delivered, Complete, store, Target

\* A thread goes on, to a step that starts nothing.
LEMMA Onward ==
    ASSUME IInv, Choice, NEW t \in Threads, NEW w \in Thread, w.at # "start",
           threads' = [threads EXCEPT ![t] = w],
           UNCHANGED <<store, host, starts, due>>,
           hindered' = hindered \/ Hinder,
           fields'.tag = fields.tag, fields'.named = fields.named,
           fields'.functions = fields.functions
    PROVE  Choice'
<1>1. /\ threads \in [Threads -> Thread] /\ hindered \in BOOLEAN
      /\ UNCHANGED <<saving, prefs, files, dexes, saved>>
  BY Facts DEF store
<1>2. \A u \in Threads : threads'[u].at = "start" => threads[u].at = "start"
  BY <1>1, Moving
<1>3. Named'
  BY <1>2 DEF Choice, Named
<1>4. OnlyDue'
  BY <1>1 DEF Choice, OnlyDue, Hinder
<1>5. QED
  BY <1>3, <1>4, StoreStays DEF Choice

\* Reading the preferences or the own file.
LEMMA ReadsDue ==
    ASSUME IInv, Choice, NEW t \in Threads, NEW w \in Thread, w.at # "start",
           threads' = [threads EXCEPT ![t] = w],
           UNCHANGED <<store, host, starts, due, hindered>>, host # None,
           NEW json \in {prefs, None, files[host]},
           fields' = InitConfigData(json)
    PROVE  Choice'
<1>1. /\ threads \in [Threads -> Thread] /\ fields \in Fields
      /\ UNCHANGED <<saving, prefs, files, dexes, saved>>
  BY Facts DEF store
<1>2. \A u \in Threads : threads'[u].at = "start" => threads[u].at = "start"
  BY <1>1, Moving
<1>3. CASE json \notin Configs
  <2>1. UNCHANGED fields
    BY <1>3 DEF InitConfigData
  <2>2. QED
    BY <2>1, Onward
<1>4. CASE json \in Configs
  <2>1. fields' = [fields EXCEPT !.tag = json.package, !.functions = @ \cup json.functions,
                        !.system = json.system, !.serialization = json.serialization,
                        !.named = @ \/ json.package = host]
    BY <1>4 DEF InitConfigData
  <2>2. /\ fields'.tag = json.package /\ fields'.functions = fields.functions \cup json.functions
        /\ fields'.named = (fields.named \/ json.package = host)
    BY <1>1, <2>1 DEF Fields
  <2>3. Named'
    BY <1>2, <2>2 DEF Choice, Named
  <2>4. ASSUME due # None, ~hindered PROVE json = due
    <3>1. saved = due /\ due.package = host
      BY <2>4 DEF Choice, OnlyDue
    <3>2. prefs = due /\ files[host] = due
      BY <2>4, <3>1 DEF Choice, Complete
    <3>3. None \notin Configs
      BY ConfigsAssumption
    <3>4. QED
      BY <1>4, <3>2, <3>3
  <2>5. OnlyDue'
    <3>1. SUFFICES ASSUME due # None, ~hindered
                   PROVE  fields'.functions \in {{}, due.functions}
      BY <1>1 DEF Choice, OnlyDue
    <3>2. fields.functions \in {{}, due.functions}
      BY <3>1 DEF Choice, OnlyDue
    <3>3. fields'.functions = fields.functions \cup due.functions
      BY <2>2, <2>4, <3>1
    <3>4. QED
      BY <3>2, <3>3
  <2>6. QED
    BY <2>3, <2>5, StoreStays DEF Choice
<1>5. QED
  BY <1>3, <1>4

\* The same, in the words of the actions.
LEMMA OnwardOrOut ==
    ASSUME IInv, Choice, NEW t \in Threads, NEW at \in Steps \ {"start"},
           Goes(t, at) \/ Leaves(t),
           UNCHANGED <<store, host, starts, due>>,
           hindered' = hindered \/ Hinder,
           fields'.tag = fields.tag, fields'.named = fields.named,
           fields'.functions = fields.functions
    PROVE  Choice'
<1>1. threads \in [Threads -> Thread]
  BY Facts
<1>2. CASE Goes(t, at)
  <2>1. /\ Onto(t, at) \in Thread /\ Onto(t, at).at = at
        /\ threads' = [threads EXCEPT ![t] = Onto(t, at)]
    BY <1>1, <1>2, Going
  <2>2. QED
    BY <2>1, Onward
<1>3. CASE Leaves(t)
  BY <1>3, IdleType, Onward DEF Leaves
<1>4. QED
  BY <1>2, <1>3

LEMMA ChoosesReading ==
    ASSUME IInv, Choice, NEW t \in Threads, ReadPrefs(t) \/ ReadFile(t)
    PROVE  Choice'
<1>1. /\ threads \in [Threads -> Thread] /\ {"file", "match"} \subseteq Steps \ {"start"}
      /\ \A u \in Threads : Busy(u) => host \in Packages
  BY Facts DEF Steps
<1>2. host # None
  BY <1>1, ConfigsAssumption DEF ReadPrefs, ReadFile, At, Busy
<1>3. CASE ReadPrefs(t)
  <2>1. PICK json \in {prefs, None}, at \in {"file", "match"} :
            fields' = InitConfigData(json) /\ Goes(t, at)
    BY <1>3 DEF ReadPrefs
  <2>2. /\ Onto(t, at) \in Thread /\ Onto(t, at).at = at
        /\ threads' = [threads EXCEPT ![t] = Onto(t, at)]
    BY <1>1, <2>1, Going
  <2>3. UNCHANGED <<store, host, starts, due, hindered>>
    BY <1>3 DEF ReadPrefs
  <2>4. QED
    BY <1>2, <2>1, <2>2, <2>3, ReadsDue
<1>4. CASE ReadFile(t)
  <2>1. UNCHANGED <<store, host, starts, due>>
    BY <1>4 DEF ReadFile
  <2>2. CASE Leaves(t) /\ UNCHANGED <<fields, hindered>>
    BY <1>1, <2>1, <2>2, OnwardOrOut
  <2>3. CASE Goes(t, "match") /\ Hinder /\ UNCHANGED fields
    BY <1>1, <2>1, <2>3, OnwardOrOut
  <2>4. CASE /\ threads[t].package = host /\ Goes(t, "match")
             /\ fields' = InitConfigData(files[threads[t].package]) /\ UNCHANGED hindered
    <3>1. /\ Onto(t, "match") \in Thread /\ Onto(t, "match").at = "match"
          /\ threads' = [threads EXCEPT ![t] = Onto(t, "match")]
      BY <1>1, <2>4, Going
    <3>2. QED
      BY <1>2, <2>1, <2>4, <3>1, ReadsDue
  <2>5. QED
    BY <1>4, <2>2, <2>3, <2>4 DEF ReadFile
<1>5. QED
  BY <1>3, <1>4

LEMMA ChoosesQuietly ==
    ASSUME IInv, Choice, NEW t \in Threads,
           Match(t) \/ CreateAppContext(t) \/ TestInit(t) \/ Merge(t) \/ FindClass(t) \/ SetInit(t)
    PROVE  Choice'
<1>1. threads \in [Threads -> Thread] /\ fields \in Fields
  BY Facts
<1>2. {"set", "merge", "find"} \subseteq Steps \ {"start"}
  BY DEF Steps
<1>3. [Idle EXCEPT !.at = "test"] \in Thread /\ [Idle EXCEPT !.at = "test"].at = "test"
  BY DEF Idle, Thread, Steps
<1>4. CASE Match(t)
  <2>1. /\ UNCHANGED <<store, host, starts, due, hindered>>
        /\ \/ Leaves(t) \/ threads' = [threads EXCEPT ![t] = [Idle EXCEPT !.at = "test"]]
        /\ \/ UNCHANGED fields \/ fields' = [fields EXCEPT !.hooked = TRUE]
    BY <1>4 DEF Match
  <2>2. /\ fields'.tag = fields.tag /\ fields'.named = fields.named
        /\ fields'.functions = fields.functions
    BY <1>1, <2>1 DEF Fields
  <2>3. CASE Leaves(t)
    BY <1>2, <2>1, <2>2, <2>3, OnwardOrOut
  <2>4. CASE threads' = [threads EXCEPT ![t] = [Idle EXCEPT !.at = "test"]]
    BY <1>3, <2>1, <2>2, <2>4, Onward
  <2>5. QED
    BY <2>1, <2>3, <2>4
<1>5. CASE CreateAppContext(t)
  <2>1. DEFINE w == [Idle EXCEPT !.at = "test", !.package = None]
  <2>2. w \in Thread /\ w.at = "test"
    BY DEF Idle, Thread, Steps
  <2>3. /\ UNCHANGED <<store, host, fields, starts, due, hindered>>
        /\ threads' = [threads EXCEPT ![t] = w]
    BY <1>5 DEF CreateAppContext, Enters
  <2>4. QED
    BY <2>2, <2>3, Onward
<1>6. CASE TestInit(t)
  <2>1. /\ UNCHANGED <<store, host, fields, starts, due, hindered>>
        /\ \E at \in {"set", "merge"} : Goes(t, at) \/ Leaves(t)
    BY <1>6 DEF TestInit
  <2>2. QED
    BY <1>2, <2>1, OnwardOrOut
<1>7. CASE Merge(t)
  <2>1. /\ UNCHANGED <<store, host, starts, due>> /\ Goes(t, "find")
        /\ hindered' = hindered \/ Hinder
        /\ \/ UNCHANGED fields
           \/ fields' = [fields EXCEPT !.merged = @ \cup {LoaderOf},
                             !.lib = IF @ = None THEN LoaderOf ELSE @]
           \/ fields' = [fields EXCEPT !.merged = @ \cup {LoaderOf}]
    BY <1>7 DEF Merge
  <2>2. /\ fields'.tag = fields.tag /\ fields'.named = fields.named
        /\ fields'.functions = fields.functions
    BY <1>1, <2>1 DEF Fields
  <2>3. QED
    BY <1>2, <2>1, <2>2, OnwardOrOut
<1>8. CASE FindClass(t)
  <2>1. /\ UNCHANGED <<store, host, fields, starts, due, hindered>>
        /\ \/ Leaves(t)
           \/ threads' = [threads EXCEPT ![t].at = "file for lines", ![t].class = LoaderOf]
    BY <1>8 DEF FindClass
  <2>2. CASE Leaves(t)
    BY <1>2, <2>1, <2>2, OnwardOrOut
  <2>3. CASE threads' = [threads EXCEPT ![t].at = "file for lines", ![t].class = LoaderOf]
    <3>1. LoaderOf \in Loaders
      BY <1>8, Loading DEF FindClass, At, Busy
    <3>2. DEFINE w == [threads[t] EXCEPT !.at = "file for lines", !.class = LoaderOf]
    <3>3. w \in Thread /\ w.at = "file for lines"
      BY <1>1, <3>1 DEF Thread, Steps
    <3>4. threads' = [threads EXCEPT ![t] = w]
      BY <1>1, <2>3 DEF Thread
    <3>5. QED
      BY <2>1, <3>3, <3>4, Onward
  <2>4. QED
    BY <2>1, <2>2, <2>3
<1>9. CASE SetInit(t)
  <2>1. /\ UNCHANGED <<store, host, starts, due, hindered>> /\ Leaves(t)
        /\ fields' = [fields EXCEPT !.isInit = TRUE]
    BY <1>9 DEF SetInit
  <2>2. /\ fields'.tag = fields.tag /\ fields'.named = fields.named
        /\ fields'.functions = fields.functions
    BY <1>1, <2>1 DEF Fields
  <2>3. QED
    BY <1>2, <2>1, <2>2, OnwardOrOut
<1>10. QED
  BY <1>4, <1>5, <1>6, <1>7, <1>8, <1>9

LEMMA ChoosesStart ==
    ASSUME IInv, Choice, NEW t \in Threads, MakeFile(t) \/ StartHookJni(t)
    PROVE  Choice'
<1>1. /\ threads \in [Threads -> Thread] /\ fields \in Fields /\ starts \in Starts
      /\ {"set"} \subseteq Steps \ {"start"} /\ "start" \in Steps
  BY Facts DEF Steps
<1>2. CASE MakeFile(t)
  <2>1. UNCHANGED <<store, host, fields, starts, due, hindered>>
    BY <1>2 DEF MakeFile
  <2>2. CASE Goes(t, "set") \/ Leaves(t)
    BY <1>1, <2>1, <2>2, OnwardOrOut
  <2>3. CASE fields.tag = host /\ fields.functions # {} /\ Goes(t, "start")
    <3>1. threads' = [threads EXCEPT ![t] = Onto(t, "start")]
      BY <1>1, <2>3, Going
    <3>2. \A u \in Threads : u # t => threads'[u] = threads[u]
      BY <1>1, <3>1
    <3>3. host # None
      BY <1>2, Facts, ConfigsAssumption DEF MakeFile, At, Busy
    <3>4. Named'
      BY <2>1, <2>3, <3>2, <3>3 DEF Choice, Named
    <3>5. OnlyDue' /\ Delivered' /\ Complete'
      BY <2>1, StoreStays DEF Choice, OnlyDue, store
    <3>6. QED
      BY <3>4, <3>5 DEF Choice
  <2>4. QED
    BY <1>2, <2>2, <2>3 DEF MakeFile
<1>3. CASE StartHookJni(t)
  <2>1. /\ UNCHANGED <<store, host, fields, due, hindered>> /\ Goes(t, "set")
        /\ threads[t].at = "start"
        /\ \/ starts' = starts
           \/ starts' = Append(starts, [functions |-> fields.functions, loader |-> fields.lib])
    BY <1>3 DEF StartHookJni, At
  <2>2. CASE starts' = starts
    BY <1>1, <2>1, <2>2, OnwardOrOut
  <2>3. CASE starts' = Append(starts, [functions |-> fields.functions, loader |-> fields.lib])
    <3>1. fields.named /\ fields.functions # {}
      BY <2>1 DEF Choice, Named
    <3>2. threads' = [threads EXCEPT ![t] = Onto(t, "set")] /\ Onto(t, "set").at = "set"
      BY <1>1, <2>1, Going DEF Steps
    <3>3. \A u \in Threads : threads'[u].at = "start" => threads[u].at = "start"
      BY <1>1, <3>2
    <3>4. Named'
      BY <2>1, <3>1, <3>3 DEF Choice, Named
    <3>5. starts'[1] = IF starts = <<>>
                       THEN [functions |-> fields.functions, loader |-> fields.lib]
                       ELSE starts[1]
      BY <1>1, <2>3 DEF Starts
    <3>6. starts'[1].functions = IF starts = <<>> THEN fields.functions ELSE starts[1].functions
      BY <3>5
    <3>7. OnlyDue'
      BY <2>1, <3>1, <3>6 DEF Choice, OnlyDue, store
    <3>8. QED
      BY <2>1, <3>4, <3>7, StoreStays DEF Choice
  <2>4. QED
    BY <2>1, <2>2, <2>3
<1>4. QED
  BY <1>2, <1>3

LEMMA ChoosesProcess ==
    ASSUME IInv, Choice,
           \/ Kill \/ \E h \in Packages : Launch(h)
           \/ \E t \in Threads, p \in Packages : HandleLoadPackage(t, p)
    PROVE  Choice'
<1>1. /\ threads \in [Threads -> Thread] /\ fields \in Fields
      /\ \A h \in Packages : h # None
  BY Facts, ConfigsAssumption
<1>2. CASE Kill
  <2>1. /\ host' = None /\ threads' = [t \in Threads |-> Idle] /\ starts' = <<>>
        /\ due' = None /\ UNCHANGED store
    BY <1>2 DEF Kill
  <2>2. Named'
    BY <2>1, IdleType DEF Named
  <2>3. OnlyDue'
    BY <2>1 DEF OnlyDue
  <2>4. QED
    BY <2>1, <2>2, <2>3, StoreStays DEF Choice
<1>3. ASSUME NEW h \in Packages, Launch(h) PROVE Choice'
  <2>1. /\ host = None /\ host' = h /\ fields' = [Fresh EXCEPT !.loader = h]
        /\ threads' = [threads EXCEPT ![Main] = [Idle EXCEPT !.at = "prefs", !.package = h]]
        /\ due' = (IF Traceable(saved) /\ saved.package = h THEN saved ELSE None)
        /\ UNCHANGED store /\ starts' = starts
    BY <1>3 DEF Launch
  <2>2. starts' = <<>> /\ \A t \in Threads : threads[t].at = "idle"
    BY <2>1 DEF IInv, Running, Busy
  <2>3. \A t \in Threads : threads'[t].at # "start"
    BY <1>1, <2>1, <2>2 DEF Idle
  <2>4. fields'.tag = None /\ fields'.functions = {}
    BY <2>1 DEF Fresh
  <2>5. Named'
    BY <1>1, <2>1, <2>2, <2>3, <2>4 DEF Named
  <2>6. OnlyDue'
    BY <2>1, <2>2, <2>4 DEF OnlyDue, store
  <2>7. QED
    BY <2>1, <2>5, <2>6, StoreStays DEF Choice
<1>4. ASSUME NEW t \in Threads, NEW p \in Packages, HandleLoadPackage(t, p) PROVE Choice'
  <2>1. DEFINE w == [Idle EXCEPT !.at = "prefs", !.package = p]
  <2>2. w \in Thread /\ w.at = "prefs"
    BY DEF Idle, Thread, Steps
  <2>3. /\ UNCHANGED <<store, host, starts, due, hindered>>
        /\ threads' = [threads EXCEPT ![t] = w]
        /\ fields' = [fields EXCEPT !.loader = p]
    BY <1>4 DEF HandleLoadPackage, Enters
  <2>4. /\ fields'.tag = fields.tag /\ fields'.named = fields.named
        /\ fields'.functions = fields.functions
    BY <1>1, <2>3 DEF Fields
  <2>5. QED
    BY <2>2, <2>3, <2>4, Onward
<1>5. QED
  BY <1>2, <1>3, <1>4

\* A process does not notice a save, and from the first step on a save counts
\* as an interference until it is complete.
LEMMA ChoosesSaving ==
    ASSUME IInv, Choice, Save
    PROVE  Choice'
<1>1. /\ saving.at # "idle" => saving.config \in Configs
      /\ saving \in [at : SaveSteps, config : Configs \cup {None},
                     file : Configs \cup {Empty}, failed : BOOLEAN]
      /\ files \in [Packages -> Configs \cup {None, Empty}]
      /\ hindered \in BOOLEAN
      /\ \A c \in Configs : c # None /\ c.package \in Packages
  BY Facts, ConfigsAssumption DEF IInv, Saving, StoreType, Configurations
<1>2. Named'
  <2>1. UNCHANGED <<host, fields, threads, starts>>
    BY DEF Save, SaveConfig, WriteTemp, RemoveOld, MoveConfig, MoveDex, Chmod,
       PutString, ModuleDies, process
  <2>2. QED
    BY <2>1 DEF Choice, Named
<1>3. ASSUME NEW c \in Configs, SaveConfig(c) PROVE Choice'
  <2>1. /\ saving' = [NotSaving EXCEPT !.at = "write", !.config = c] /\ saved' = None
        /\ Hinder /\ due' = due
    BY <1>3 DEF SaveConfig
  <2>2. saving'.at = "write"
    BY <2>1 DEF NotSaving
  <2>3. Delivered' /\ Complete' /\ OnlyDue'
    BY <2>1, <2>2 DEF Delivered, Complete, OnlyDue, Hinder
  <2>4. QED
    BY <1>2, <2>3 DEF Choice
<1>4. ASSUME saving.at # "idle", UNCHANGED process, Delivered',
             saved' \in {None, saved} \/ (saved = None /\ Complete')
      PROVE  Choice'
  <2>1. saved = None
    BY <1>4 DEF Choice, Complete
  <2>2. Complete'
    BY <1>4, <2>1 DEF Complete
  <2>3. OnlyDue'
    BY <1>4, <2>1 DEF Choice, OnlyDue, process
  <2>4. QED
    BY <1>2, <1>4, <2>2, <2>3 DEF Choice
<1>5. CASE WriteTemp
  <2>0. saving.at = "write" /\ saved' = saved /\ UNCHANGED process
    BY <1>5 DEF WriteTemp
  <2>1. CASE SaveFails
    <3>1. saving'.failed
      BY <1>1, <2>1 DEF SaveFails
    <3>2. Delivered'
      BY <3>1 DEF Delivered
    <3>3. QED
      BY <1>4, <2>0, <3>2
  <2>2. ASSUME NEW file \in {saving.config, Empty},
               saving' = [saving EXCEPT !.at = "remove", !.file = file,
                                       !.failed = (file = Empty)]
        PROVE  Choice'
    <3>1. /\ saving'.at = "remove" /\ saving'.file = file /\ saving'.config = saving.config
          /\ saving'.failed = (file = Empty)
      BY <1>1, <2>2
    <3>2. Delivered'
      BY <3>1 DEF Delivered
    <3>3. QED
      BY <1>4, <2>0, <3>2
  <2>3. QED
    BY <1>5, <2>1, <2>2 DEF WriteTemp
<1>6. ASSUME NEW at \in {"move", "extract", "chmod", "put"}, SaveGoes(at)
      PROVE  /\ saving'.at = at /\ saving'.file = saving.file
             /\ saving'.config = saving.config /\ saving'.failed = saving.failed
  BY <1>1, <1>6 DEF SaveGoes
<1>7. CASE RemoveOld
  <2>1. SaveGoes("move") /\ saving.at = "remove" /\ saved' = saved /\ UNCHANGED process
    BY <1>7 DEF RemoveOld
  <2>2. Delivered'
    BY <1>6, <2>1 DEF Choice, Delivered
  <2>3. QED
    BY <1>4, <2>1, <2>2
<1>8. CASE MoveConfig
  <2>1. /\ SaveGoes("extract") /\ saving.at = "move" /\ saved' = saved /\ UNCHANGED process
        /\ files' = [files EXCEPT ![Target] = saving.file]
    BY <1>8 DEF MoveConfig
  <2>2. Target' = Target /\ Target \in Packages
    BY <1>1, <1>6, <2>1 DEF Target
  <2>3. files'[Target] = saving.file
    BY <1>1, <2>1, <2>2
  <2>4. Delivered'
    BY <1>6, <2>1, <2>2, <2>3 DEF Choice, Delivered
  <2>5. QED
    BY <1>4, <2>1, <2>4
<1>9. CASE MoveDex
  <2>1. saving.at = "extract" /\ UNCHANGED files /\ saved' = saved /\ UNCHANGED process
    BY <1>9 DEF MoveDex
  <2>2. CASE SaveFails
    <3>1. saving'.failed
      BY <1>1, <2>2 DEF SaveFails
    <3>2. QED
      BY <1>4, <2>1, <3>1 DEF Delivered
  <2>3. CASE SaveGoes("chmod")
    <3>1. Delivered'
      BY <1>6, <2>1, <2>3 DEF Choice, Delivered, Target
    <3>2. QED
      BY <1>4, <2>1, <3>1
  <2>4. QED
    BY <1>9, <2>2, <2>3 DEF MoveDex
<1>10. CASE Chmod
  <2>1. saving.at = "chmod" /\ SaveGoes("put") /\ UNCHANGED files /\ saved' = saved /\ UNCHANGED process
    BY <1>10 DEF Chmod
  <2>2. Delivered'
    BY <1>6, <2>1 DEF Choice, Delivered, Target
  <2>3. QED
    BY <1>4, <2>1, <2>2
<1>11. CASE PutString
  <2>1. /\ saving.at = "put" /\ saving' = NotSaving /\ prefs' = saving.config
        /\ saved' = (IF saving.failed THEN None ELSE saving.config)
        /\ UNCHANGED files /\ UNCHANGED process
    BY <1>11 DEF PutString
  <2>2. saving'.at = "idle"
    BY <2>1 DEF NotSaving
  <2>3. Delivered'
    BY <2>2 DEF Delivered
  <2>4. saved = None
    BY <2>1 DEF Choice, Complete
  <2>5. ~saving.failed => files[saving.config.package] = saving.config
    BY <2>1 DEF Choice, Delivered, Target
  <2>6. Complete'
    BY <2>1, <2>2, <2>5 DEF Complete
  <2>7. QED
    BY <1>4, <2>1, <2>3, <2>4, <2>6
<1>12. CASE ModuleDies
  <2>1. /\ saving.at # "idle" /\ saving' = NotSaving /\ saved' = saved /\ UNCHANGED process
    BY <1>12 DEF ModuleDies
  <2>2. Delivered'
    BY <2>1 DEF Delivered, NotSaving
  <2>3. QED
    BY <1>4, <2>1, <2>2
<1>13. QED
  BY <1>3, <1>5, <1>7, <1>8, <1>9, <1>10, <1>11, <1>12 DEF Save

LEMMA ChoiceKept == IInv /\ Choice /\ [Next]_vars => Choice'
<1>1. SUFFICES ASSUME IInv, Choice, [Next]_vars PROVE Choice'
  OBVIOUS
<1>2. CASE UNCHANGED vars
  BY <1>1, <1>2 DEF vars, store, process, Choice, Delivered, Target, Complete, Named, OnlyDue
<1>3. ASSUME NEW t \in Threads, CreateAppContext(t) \/ Hook(t) PROVE Choice'
  BY <1>1, <1>3, ChoosesReading, ChoosesQuietly, ChoosesStart DEF Hook
<1>4. QED
  BY <1>1, <1>2, <1>3, ChoosesSaving, ChoosesProcess DEF Next

LEMMA ChoiceFirst == Init => Choice
<1>1. SUFFICES ASSUME Init PROVE Choice
  OBVIOUS
<1>2. saving.at = "idle" /\ saved = None /\ due = None /\ host = None /\ starts = <<>>
      /\ \A t \in Threads : threads[t].at = "idle"
  BY <1>1, IdleType DEF Init, NotSaving
<1>3. QED
  BY <1>2 DEF Choice, Delivered, Complete, Named, OnlyDue

\* Whatever packages a process loads, and whatever saves failed before, it is
\* traced only when it has read a configuration that names it, and with the
\* functions of the last complete save if nothing interfered.
THEOREM StartsWhatWasChosen == Spec => []StartsAsChosen
<1>1. Choice => StartsAsChosen
  BY DEF Choice, Named, OnlyDue, StartsAsChosen
<1>2. QED
  BY Initially, StepKeeps, ChoiceFirst, ChoiceKept, <1>1, PTL DEF Spec
=============================================================================
