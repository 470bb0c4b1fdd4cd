-------------------------- MODULE CodeMemory_proofs --------------------------
(***************************************************************************)
(* However many threads patch code at once, and wherever: no page is left  *)
(* writable and executable, and everything keeps its type.  As long as     *)
(* they take turns: blocks are apart and where they should be, nothing     *)
(* faults, and the pages of the application are spared.                    *)
(***************************************************************************)
EXTENDS CodeMemory, FiniteSetTheorems, SequenceTheorems, TLAPS

\* The part of the type invariant that the argument needs: which fields the
\* state of a thread has, and those of a page.
Record(w) == w = [f \in DOMAIN w |-> w[f]] /\ {"at", "addr", "n"} \subseteq DOMAIN w
Page(m) == [owner |-> m.owner, perm |-> m.perm]
Shaped ==
    /\ threads = [t \in Threads |-> threads[t]]
    /\ \A t \in Threads : Record(threads[t])
    /\ maps = [p \in Pages |-> maps[p]]
    /\ \A p \in Pages : maps[p] = Page(maps[p])

IInv == Shaped /\ WritableOnlyWhilePatched

Writing(t) == threads[t].at \in {"copy", "rx"}
Rwx(p) == maps[p].perm = "rwx"

\* What a step of thread t may do without leaving a page writable: open pages
\* that it is then writing to, and stop writing only to pages that it closes.
Careful(t) ==
    /\ \A u \in Threads \ {t} : threads'[u] = threads[u]
    /\ \A p \in Pages : maps'[p].perm = "rwx" =>
          \/ Rwx(p) /\ ~(Writing(t) /\ p \in PatchPages(t))
          \/ Writing(t)' /\ p \in PatchPages(t)'

LEMMA CarefulKeeps ==
    ASSUME IInv, NEW t \in Threads, Careful(t), Shaped'
    PROVE  IInv'
<1>1. SUFFICES ASSUME NEW p \in Pages, maps'[p].perm = "rwx"
               PROVE  \E u \in Threads : Writing(u)' /\ p \in PatchPages(u)'
  BY DEF IInv, WritableOnlyWhilePatched, Writing
<1>2. CASE Writing(t)' /\ p \in PatchPages(t)'
  BY <1>2
<1>3. CASE Rwx(p) /\ ~(Writing(t) /\ p \in PatchPages(t))
  <2>1. PICK u \in Threads : Writing(u) /\ p \in PatchPages(u)
    BY <1>3 DEF IInv, WritableOnlyWhilePatched, Writing, Rwx
  <2>2. u # t
    BY <1>3, <2>1
  <2>3. threads'[u] = threads[u]
    BY <2>2 DEF Careful
  <2>4. Writing(u)' /\ p \in PatchPages(u)'
    BY <2>1, <2>3 DEF Writing, PatchPages, LastPage, PageOf
  <2>5. QED
    BY <2>4
<1>4. QED
  BY <1>1, <1>2, <1>3 DEF Careful

\* Whatever a thread goes on to, the others stay as they are.
LEMMA Becoming ==
    ASSUME Shaped, NEW t \in Threads, NEW w, Record(w), Becomes(t, w)
    PROVE  /\ threads' = [u \in Threads |-> threads'[u]]
           /\ \A u \in Threads : Record(threads'[u])
           /\ threads'[t] = w
           /\ \A u \in Threads \ {t} : threads'[u] = threads[u]
<1>1. threads' = [u \in Threads |-> IF u = t THEN w ELSE threads[u]]
  BY DEF Shaped, Becomes
<1>2. QED
  BY <1>1 DEF Shaped

\* Changing the protection of mapped pages: only "rwx" opens a page, and any
\* other permission closes it.
LEMMA Protecting ==
    ASSUME Shaped, NEW ps, NEW perm, Protect(ps, perm)
    PROVE  /\ maps' = [p \in Pages |-> maps'[p]]
           /\ \A p \in Pages : maps'[p] = Page(maps'[p])
           /\ \A p \in Pages : maps'[p].perm = "rwx" =>
                 \/ p \in ps /\ perm = "rwx"
                 \/ p \notin ps /\ Rwx(p)
<1>1. maps' = [p \in Pages |-> IF p \in ps /\ p \in Mapped THEN [maps[p] EXCEPT !.perm = perm]
                               ELSE maps[p]]
  BY DEF Protect
<1>2. ASSUME NEW p \in Pages
      PROVE  maps'[p] = Page(maps'[p]) /\ (maps'[p].perm = "rwx" =>
                 (p \in ps /\ perm = "rwx") \/ (p \notin ps /\ Rwx(p)))
  <2>1. CASE p \in ps /\ p \in Mapped
    <3>1. maps'[p] = [owner |-> maps[p].owner, perm |-> perm]
      BY <1>1, <2>1 DEF Shaped, Page
    <3>2. QED
      BY <2>1, <3>1 DEF Page
  <2>2. CASE p \in ps /\ p \notin Mapped
    <3>1. maps'[p] = Unmapped
      BY <1>1, <2>2 DEF Mapped
    <3>2. QED
      BY <3>1 DEF Unmapped, Page
  <2>3. CASE p \notin ps
    <3>1. maps'[p] = maps[p]
      BY <1>1, <2>3
    <3>2. QED
      BY <2>3, <3>1 DEF Shaped, Rwx
  <2>4. QED
    BY <2>1, <2>2, <2>3
<1>3. maps' = [p \in Pages |-> maps'[p]]
  BY <1>1
<1>4. QED
  BY <1>2, <1>3

\* A thread that neither writes nor opens a page is careful.
LEMMA Harmless ==
    ASSUME IInv, NEW t \in Threads, NEW w, Record(w), Becomes(t, w), ~Writing(t),
           maps' = [p \in Pages |-> maps'[p]],
           \A p \in Pages : maps'[p] = Page(maps'[p]),
           \A p \in Pages : maps'[p].perm = "rwx" => Rwx(p)
    PROVE  IInv'
<1>1. Shaped'
  BY Becoming DEF IInv, Shaped
<1>2. Careful(t)
  BY Becoming DEF IInv, Careful
<1>3. QED
  BY <1>1, <1>2, CarefulKeeps

\* So is one that leaves the pages alone, whether it goes on or aborts.
LEMMA PagesKept ==
    ASSUME IInv, NEW t \in Threads, NEW w, Record(w), Becomes(t, w), ~Writing(t),
           maps' = maps
    PROVE  IInv'
BY Harmless DEF IInv, Shaped, Rwx

LEMMA NothingMoves ==
    ASSUME IInv, maps' = maps, threads' = threads
    PROVE  IInv'
BY DEF IInv, Shaped, WritableOnlyWhilePatched, PatchPages, LastPage, PageOf

LEMMA Allocates ==
    ASSUME IInv, NEW t \in Threads,
           Scan(t) \/ LookInArenas(t) \/ GetProcessMemoryLayout(t) \/ NoneNear(t)
             \/ Register(t) \/ Skip(t) \/ Skipped(t) \/ Check(t) \/ Cut(t) \/ Cutting(t)
    PROVE  IInv'
<1>1. Shaped /\ Record(threads[t])
  BY DEF IInv, Shaped
<1>2. ASSUME NEW at PROVE Record([threads[t] EXCEPT !.at = at])
  BY <1>1 DEF Record
<1>3. Record(Idle)
  BY DEF Idle, Record
<1>a. CASE Scan(t)
  <2>1. ~Writing(t) /\ maps' = maps
    BY <1>a DEF Scan, At, Writing
  <2>2. CASE Goes(t, "cut")
    BY <1>2, <2>1, <2>2, PagesKept DEF Goes
  <2>3. CASE Becomes(t, [threads[t] EXCEPT !.k = @ + 1])
    <3>1. Record([threads[t] EXCEPT !.k = @ + 1])
      BY <1>1 DEF Record
    <3>2. QED
      BY <2>1, <2>3, <3>1, PagesKept
  <2>4. QED
    BY <1>a, <2>2, <2>3 DEF Scan
<1>b. CASE LookInArenas(t)
  <2>1. ~Writing(t) /\ maps' = maps
    BY <1>b DEF LookInArenas, At, Writing
  <2>2. CASE Goes(t, "layout")
    BY <1>2, <2>1, <2>2, PagesKept DEF Goes
  <2>3. ASSUME NEW k, NEW a,
               Becomes(t, [threads[t] EXCEPT !.at = "skip", !.path = "default", !.k = k,
                                            !.addr = a])
        PROVE  IInv'
    <3> DEFINE w == [threads[t] EXCEPT !.at = "skip", !.path = "default", !.k = k, !.addr = a]
    <3>1. Record(w)
      BY <1>1 DEF Record
    <3>2. QED
      BY <2>1, <2>3, <3>1, PagesKept
  <2>4. QED
    BY <1>b, <2>2, <2>3 DEF LookInArenas
<1>c. CASE GetProcessMemoryLayout(t)
  <2> DEFINE w == [threads[t] EXCEPT !.at = "map", !.seen = Mapped]
  <2>1. ~Writing(t) /\ maps' = maps /\ Becomes(t, w)
    BY <1>c DEF GetProcessMemoryLayout, At, Writing
  <2>2. Record(w)
    BY <1>1 DEF Record
  <2>3. QED
    BY <2>1, <2>2, PagesKept
<1>d. CASE NoneNear(t)
  <2>1. ~Writing(t) /\ maps' = maps /\ Becomes(t, Idle)
    BY <1>d DEF NoneNear, At, Writing
  <2>2. QED
    BY <1>3, <2>1, PagesKept
<1>e. CASE Register(t)
  <2> DEFINE next == IF threads[t].path = "region" THEN "protect" ELSE "check"
  <2> DEFINE w == [threads[t] EXCEPT !.k = Len(code_arenas) + 1, !.at = next]
  <2>1. ~Writing(t) /\ maps' = maps /\ Becomes(t, w)
    BY <1>e DEF Register, At, Writing
  <2>2. Record(w)
    <3> HIDE DEF next
    <3>1. QED
      BY <1>1 DEF Record
  <2>3. QED
    BY <2>1, <2>2, PagesKept
<1>f. CASE Skip(t)
  <2> DEFINE hole == threads[t].addr - Arena(t).cursor_addr
             next == IF Fits(Arena(t), hole) THEN "skipped" ELSE "check"
             w == [threads[t] EXCEPT !.hole = hole, !.at = next]
  <2>1. ~Writing(t) /\ maps' = maps /\ Becomes(t, w)
    BY <1>f DEF Skip, At, Writing
  <2>2. Record(w)
    <3> HIDE DEF hole, next
    <3>1. QED
      BY <1>1 DEF Record
  <2>3. QED
    BY <2>1, <2>2, PagesKept
<1>g. CASE Skipped(t)
  <2>1. ~Writing(t) /\ maps' = maps /\ Goes(t, "check")
    BY <1>g DEF Skipped, At, Writing
  <2>2. QED
    BY <1>2, <2>1, PagesKept DEF Goes
<1>h. CASE Check(t)
  <2>1. ~Writing(t) /\ maps' = maps
    BY <1>h DEF Check, At, Writing
  <2>2. ASSUME NEW at, Goes(t, at) PROVE IInv'
    BY <1>2, <2>1, <2>2, PagesKept DEF Goes
  <2>3. CASE Becomes(t, Idle)
    BY <1>3, <2>1, <2>3, PagesKept
  <2>4. CASE UNCHANGED threads
    BY <2>1, <2>4, NothingMoves
  <2>5. QED
    BY <1>h, <2>2, <2>3, <2>4 DEF Check
<1>i. CASE Cut(t)
  <2> DEFINE w == [threads[t] EXCEPT !.at = "cutting", !.addr = Arena(t).cursor_addr]
  <2>1. ~Writing(t) /\ maps' = maps /\ Becomes(t, w)
    BY <1>i DEF Cut, At, Writing
  <2>2. Record(w)
    BY <1>1 DEF Record
  <2>3. QED
    BY <2>1, <2>2, PagesKept
<1>j. CASE Cutting(t)
  <2>1. ~Writing(t) /\ maps' = maps
    BY <1>j DEF Cutting, At, Writing
  <2>2. CASE Goes(t, "rwx")
    BY <1>2, <2>1, <2>2, PagesKept DEF Goes
  <2>3. CASE Becomes(t, [threads[t] EXCEPT !.at = "look", !.n = Job(t).long])
    <3> DEFINE w == [threads[t] EXCEPT !.at = "look", !.n = Job(t).long]
    <3>1. Record(w)
      BY <1>1 DEF Record
    <3>2. QED
      BY <2>1, <2>3, <3>1, PagesKept
  <2>4. QED
    BY <1>j, <2>2, <2>3 DEF Cutting
<1>z. QED
  BY <1>a, <1>b, <1>c, <1>d, <1>e, <1>f, <1>g, <1>h, <1>i, <1>j

\* Pages are mapped without the permission to write and execute.
LEMMA Maps ==
    ASSUME IInv, NEW t \in Threads,
           Begin(t) \/ NewArena(t) \/ MapFixed(t) \/ ProtectArena(t)
    PROVE  IInv'
<1>1. Shaped /\ Record(threads[t])
  BY DEF IInv, Shaped
<1>a. CASE Begin(t)
  <2>1. PICK j \in Jobs :
          Becomes(t, [Idle EXCEPT !.job = j, !.n = j.size, !.addr = j.pos,
              !.at = [build |-> "scan", forward |-> "look", patch |-> "rwx"][j.kind]])
    BY <1>a DEF Begin
  <2> DEFINE at == [build |-> "scan", forward |-> "look", patch |-> "rwx"][j.kind]
             w == [Idle EXCEPT !.job = j, !.n = j.size, !.addr = j.pos, !.at = at]
  <2>2. Record(w)
    <3> HIDE DEF at
    <3>1. QED
      BY DEF Record, Idle
  <2>3. ~Writing(t) /\ maps' = maps
    BY <1>a DEF Begin, At, Writing
  <2>4. QED
    BY <2>1, <2>2, <2>3, PagesKept
<1>b. CASE NewArena(t)
  <2>1. PICK p \in Pages :
          /\ maps' = [maps EXCEPT ![p] = [owner |-> "dobby", perm |-> "rx"]]
          /\ Becomes(t, [threads[t] EXCEPT !.at = "register", !.run = {p}])
    BY <1>b DEF NewArena
  <2> DEFINE w == [threads[t] EXCEPT !.at = "register", !.run = {p}]
  <2>2. Record(w)
    BY <1>1 DEF Record
  <2>3. maps' = [q \in Pages |-> maps'[q]]
    BY <1>1, <2>1 DEF Shaped
  <2>4. \A q \in Pages : maps'[q] = Page(maps'[q]) /\ (maps'[q].perm = "rwx" => Rwx(q))
    BY <1>1, <2>1 DEF Shaped, Page, Rwx
  <2>5. ~Writing(t)
    BY <1>b DEF NewArena, At, Writing
  <2>6. QED
    BY <2>1, <2>2, <2>3, <2>4, <2>5, Harmless
<1>c. CASE MapFixed(t)
  <2>1. PICK a, run :
          /\ maps' = [p \in Pages |-> IF p \in run THEN [owner |-> "dobby", perm |-> "none"]
                                      ELSE maps[p]]
          /\ Becomes(t, [threads[t] EXCEPT !.at = "register", !.path = "region",
                                          !.addr = a, !.run = run])
    BY <1>c DEF MapFixed
  <2> DEFINE w == [threads[t] EXCEPT !.at = "register", !.path = "region",
                                    !.addr = a, !.run = run]
  <2>2. Record(w)
    BY <1>1 DEF Record
  <2>3. maps' = [q \in Pages |-> maps'[q]]
    BY <2>1
  <2>4. \A q \in Pages : maps'[q] = Page(maps'[q]) /\ (maps'[q].perm = "rwx" => Rwx(q))
    BY <1>1, <2>1 DEF Shaped, Page, Rwx
  <2>5. ~Writing(t)
    BY <1>c DEF MapFixed, At, Writing
  <2>6. QED
    BY <2>1, <2>2, <2>3, <2>4, <2>5, Harmless
<1>d. CASE ProtectArena(t)
  <2> DEFINE w == [threads[t] EXCEPT !.at = "skip"]
  <2>1. Record(w)
    BY <1>1 DEF Record
  <2>2. /\ maps' = [p \in Pages |-> maps'[p]]
        /\ \A p \in Pages : maps'[p] = Page(maps'[p])
        /\ \A p \in Pages : maps'[p].perm = "rwx" => Rwx(p)
    BY <1>1, <1>d, Protecting DEF ProtectArena
  <2>3. ~Writing(t) /\ Becomes(t, w)
    BY <1>d DEF ProtectArena, Goes, At, Writing
  <2>4. QED
    BY <2>1, <2>2, <2>3, Harmless
<1>e. QED
  BY <1>a, <1>b, <1>c, <1>d

\* A patch opens its pages, writes to them and closes them.
LEMMA Patches ==
    ASSUME IInv, NEW t \in Threads, MakeWritable(t) \/ Copy(t) \/ Restore(t)
    PROVE  IInv'
<1>1. Shaped /\ Record(threads[t])
  BY DEF IInv, Shaped
<1>2. ASSUME NEW at, Goes(t, at)
      PROVE  /\ threads' = [u \in Threads |-> threads'[u]]
             /\ \A u \in Threads : Record(threads'[u])
             /\ \A u \in Threads \ {t} : threads'[u] = threads[u]
             /\ threads'[t].at = at /\ PatchPages(t)' = PatchPages(t)
  <2> DEFINE w == [threads[t] EXCEPT !.at = at]
  <2>1. Record(w) /\ w.at = at /\ w.addr = threads[t].addr /\ w.n = threads[t].n
    BY <1>1 DEF Record
  <2>2. Becomes(t, w)
    BY <1>2 DEF Goes
  <2>3. threads'[t] = w
    BY <1>1, <2>1, <2>2, Becoming
  <2>4. threads'[t].at = at /\ threads'[t].addr = threads[t].addr
          /\ threads'[t].n = threads[t].n
    BY <2>1, <2>3
  <2>5. PatchPages(t)' = PatchPages(t)
    BY <2>4 DEF PatchPages, LastPage, PageOf
  <2> HIDE DEF w
  <2>6. QED
    BY <1>1, <2>1, <2>2, <2>4, <2>5, Becoming
<1>a. CASE MakeWritable(t)
  <2>1. Goes(t, "copy") /\ Protect(PatchPages(t), "rwx") /\ ~Writing(t)
    BY <1>a DEF MakeWritable, At, Writing
  <2>2. /\ maps' = [p \in Pages |-> maps'[p]]
        /\ \A p \in Pages : maps'[p] = Page(maps'[p])
        /\ \A p \in Pages : maps'[p].perm = "rwx" => p \in PatchPages(t) \/ Rwx(p)
    BY <1>1, <2>1, Protecting
  <2>3. Shaped'
    BY <1>2, <2>1, <2>2 DEF Shaped
  <2>4. Writing(t)' /\ PatchPages(t)' = PatchPages(t)
    BY <1>2, <2>1 DEF Writing
  <2>5. Careful(t)
    BY <1>2, <2>1, <2>2, <2>4 DEF Careful
  <2>6. QED
    BY <2>3, <2>5, CarefulKeeps
<1>b. CASE Copy(t)
  <2>1. maps' = maps
    BY <1>b DEF Copy
  <2>2. CASE Goes(t, "rx")
    <3>1. Shaped'
      BY <1>1, <1>2, <2>1, <2>2 DEF Shaped
    <3>2. Writing(t)' /\ PatchPages(t)' = PatchPages(t)
      BY <1>2, <2>2 DEF Writing
    <3>3. Careful(t)
      BY <1>2, <2>1, <2>2, <3>2 DEF Careful, Rwx
    <3>4. QED
      BY <3>1, <3>3, CarefulKeeps
  <2>3. CASE UNCHANGED threads
    BY <2>1, <2>3, NothingMoves
  <2>4. QED
    BY <1>b, <2>2, <2>3 DEF Copy
<1>c. CASE Restore(t)
  <2>1. Becomes(t, Idle) /\ Protect(PatchPages(t), "rx")
    BY <1>c DEF Restore
  <2>2. Record(Idle)
    BY DEF Record, Idle
  <2>3. /\ maps' = [p \in Pages |-> maps'[p]]
        /\ \A p \in Pages : maps'[p] = Page(maps'[p])
        /\ \A p \in Pages : maps'[p].perm = "rwx" => p \notin PatchPages(t) /\ Rwx(p)
    BY <1>1, <2>1, Protecting
  <2>4. /\ threads' = [u \in Threads |-> threads'[u]]
        /\ \A u \in Threads : Record(threads'[u])
        /\ \A u \in Threads \ {t} : threads'[u] = threads[u]
    BY <1>1, <2>1, <2>2, Becoming
  <2>5. Shaped'
    BY <2>3, <2>4 DEF Shaped
  <2>6. Careful(t)
    BY <2>3, <2>4 DEF Careful
  <2>7. QED
    BY <2>5, <2>6, CarefulKeeps
<1>d. QED
  BY <1>a, <1>b, <1>c

LEMMA Initially == Init => IInv
<1>1. SUFFICES ASSUME Init PROVE IInv
  OBVIOUS
<1>2. threads = [t \in Threads |-> Idle] /\ Record(Idle)
  BY <1>1 DEF Init, Record, Idle
<1>3. maps = [p \in Pages |-> IF p \in Text THEN [owner |-> "app", perm |-> "rx"]
                              ELSE IF p \in Data THEN [owner |-> "app", perm |-> "rw"]
                              ELSE Unmapped]
  BY <1>1 DEF Init
<1>4. \A p \in Pages : maps[p] = Page(maps[p]) /\ maps[p].perm # "rwx"
  BY <1>3 DEF Page, Unmapped
<1>5. Shaped
  BY <1>2, <1>3, <1>4 DEF Shaped
<1>6. WritableOnlyWhilePatched
  BY <1>4 DEF WritableOnlyWhilePatched
<1>7. QED
  BY <1>5, <1>6 DEF IInv

LEMMA StepKeeps == IInv /\ [Next]_vars => IInv'
<1>1. SUFFICES ASSUME IInv, [Next]_vars PROVE IInv'
  OBVIOUS
<1>2. ASSUME NEW t \in Threads, Emit(t) PROVE IInv'
  BY <1>1, <1>2, Allocates, Maps, Patches DEF Emit
<1>3. ASSUME NEW p \in NewMaps, AppMaps(p) PROVE IInv'
  <2>1. Shaped
    BY <1>1 DEF IInv
  <2>2. maps' = [maps EXCEPT ![p] = [owner |-> "app", perm |-> "rw"]]
    BY <1>3 DEF AppMaps
  <2>3. maps' = [q \in Pages |-> maps'[q]]
    BY <2>1, <2>2 DEF Shaped
  <2>4. \A q \in Pages : maps'[q] = Page(maps'[q]) /\ (maps'[q].perm = "rwx" => Rwx(q))
    BY <2>1, <2>2 DEF Shaped, Page, Rwx
  <2>5. threads' = threads
    BY <1>3 DEF AppMaps
  <2>6. Shaped'
    BY <2>1, <2>3, <2>4, <2>5 DEF Shaped
  <2>7. WritableOnlyWhilePatched'
    BY <1>1, <2>4, <2>5
    DEF IInv, WritableOnlyWhilePatched, Rwx, PatchPages, LastPage, PageOf
  <2>8. QED
    BY <2>6, <2>7 DEF IInv
<1>4. CASE UNCHANGED vars
  BY <1>1, <1>4, NothingMoves DEF vars
<1>5. QED
  BY <1>1, <1>2, <1>3, <1>4 DEF Next

\* A page that is writable and executable is one that a thread is patching:
\* what DobbyCodePatch opens it closes ("restore page permission"), and a
\* thread that closes a page under another one's hands does no worse.
THEOREM NoPageLeftOpen == Spec => []WritableOnlyWhilePatched
<1>1. IInv => WritableOnlyWhilePatched
  BY DEF IInv
<1>2. QED
  BY Initially, StepKeeps, <1>1, PTL DEF Spec

------------------------------------------------------------------------------
(* The arithmetic of pages.                                                  *)

Base(p) == p * PageSize

LEMMA PageBounds ==
    ASSUME NEW a \in Nat
    PROVE  PageOf(a) \in Nat /\ Base(PageOf(a)) <= a /\ a < Base(PageOf(a)) + PageSize
BY SizeAssumption DEF PageOf, Base

LEMMA BaseOrder ==
    ASSUME NEW p \in Nat, NEW q \in Nat
    PROVE  /\ Base(p) \in Nat /\ Base(p + 1) = Base(p) + PageSize
           /\ p < q => Base(p) + PageSize <= Base(q)
<1>1. Base(p) \in Nat /\ Base(p + 1) = Base(p) + PageSize
  BY SizeAssumption DEF Base
<1>2. ASSUME p < q PROVE Base(p) + PageSize <= Base(q)
  <2>1. PICK d \in Nat : q = p + 1 + d
    <3>1. q - p - 1 \in Nat /\ q = p + 1 + (q - p - 1)
      BY <1>2
    <3>2. QED
      BY <3>1
  <2>2. d * PageSize \in Nat
    BY SizeAssumption
  <2>3. q * PageSize = p * PageSize + PageSize + d * PageSize
    BY <2>1, SizeAssumption
  <2>4. QED
    BY <1>1, <2>2, <2>3, SizeAssumption DEF Base
<1>3. QED
  BY <1>1, <1>2

LEMMA Unwrapped ==
    ASSUME NEW x \in Nat, x < Width
    PROVE  x % Width = x
BY SizeAssumption

\* Pages have addresses, and there is room behind each.
LEMMA PageFacts ==
    ASSUME NEW p \in Pages
    PROVE  /\ p \in Nat \ {0} /\ Base(p) \in Nat \ {0} /\ Base(p) >= PageSize
           /\ Base(p) + PageSize < Width
<1>1. p \in Nat \ {0} /\ p - 1 \in Nat
  BY PagesAssumption
<1>2. Base(p) \in Nat /\ Base(p + 1) = Base(p) + PageSize
  BY <1>1, BaseOrder
<1>3. Base(p - 1) \in Nat /\ Base((p - 1) + 1) = Base(p - 1) + PageSize
  BY <1>1, BaseOrder
<1>4. (p - 1) + 1 = p
  BY <1>1
<1>5. Base(p + 1) < Width
  BY SpaceAssumption DEF Base
<1>6. QED
  BY <1>1, <1>2, <1>3, <1>4, <1>5, SizeAssumption

\* An address between the start and the end of a run of pages is on one of them.
LEMMA PageWithin ==
    ASSUME NEW f \in Nat, NEW l \in Nat, NEW a \in Nat,
           Base(f) <= a, a < Base(l) + PageSize
    PROVE  PageOf(a) \in f..l
<1> DEFINE p == PageOf(a)
<1>1. p \in Nat /\ Base(p) <= a /\ a < Base(p) + PageSize
  BY PageBounds
<1>2. Base(f) \in Nat /\ Base(l) \in Nat /\ Base(p) \in Nat
  BY <1>1, BaseOrder
<1> HIDE DEF p
<1>3. ~(p < f)
  <2>1. p < f => Base(p) + PageSize <= Base(f)
    BY <1>1, BaseOrder
  <2>2. QED
    BY <1>1, <1>2, <2>1, SizeAssumption
<1>4. ~(l < p)
  <2>1. l < p => Base(l) + PageSize <= Base(p)
    BY <1>1, BaseOrder
  <2>2. QED
    BY <1>1, <1>2, <2>1, SizeAssumption
<1>5. p \in f..l
  BY <1>1, <1>3, <1>4
<1>6. QED
  BY <1>5 DEF p

------------------------------------------------------------------------------
(* Types, in whatever order the threads take: an arena in hand exists, the   *)
(* pages of a new one are an interval, and an address to cut at is one.      *)

InHand == {"protect", "skip", "skipped", "check", "cut", "cutting"}
Interval(run) == \E f, l \in Pages : f <= l /\ run = f..l
Sound(w, arenas) ==
    /\ w.at \in InHand => w.k \in 1..arenas
    /\ w.at = "register" => Interval(w.run)
    /\ w.at = "cutting" => w.addr \in Nat
Typed == TypeOK /\ \A t \in Threads : Sound(threads[t], Len(code_arenas))

ArenaRecord == [addr : Nat, size : Nat, cursor_addr : Nat]
PageRecord == [owner : {"none", "app", "dobby"}, perm : Permissions]
BlockRecord == [addr : Nat, size : Nat, near : BOOLEAN, pos : Nat]

\* The jobs that are at hand have sizes, and positions out of which the reach
\* of a branch can be taken.
LEMMA Tasks ==
    ASSUME NEW w \in Working
    PROVE  /\ w.job.size \in 1..PageSize /\ w.job.long \in 1..PageSize
           /\ w.job.pos \in Nat /\ w.job.pos >= Reach
           /\ w.n \in Nat \ {0} /\ w.n <= PageSize
<1>1. w.job \in Jobs \cup {Nothing} /\ w.n \in 1..PageSize
  BY DEF Working
<1>2. CASE w.job = Nothing
  BY <1>1, <1>2, SizeAssumption DEF Nothing
<1>3. CASE w.job \in Jobs
  <2>1. w.job \in Work /\ w.job.pos >= Reach
    BY <1>3, JobsAssumption
  <2>2. QED
    BY <1>1, <2>1, SizeAssumption DEF Work
<1>4. QED
  BY <1>1, <1>2, <1>3

\* A thread goes on to w, and the arenas may have grown.
LEMMA Moves ==
    ASSUME Typed, NEW t \in Threads, NEW w \in Working, Becomes(t, w),
           code_arenas' \in Seq(ArenaRecord), Len(code_arenas) <= Len(code_arenas'),
           Sound(w, Len(code_arenas'))
    PROVE  /\ threads' \in [Threads -> Working]
           /\ \A u \in Threads : Sound(threads'[u], Len(code_arenas'))
           /\ threads'[t] = w
           /\ \A u \in Threads \ {t} : threads'[u] = threads[u]
<1>1. threads \in [Threads -> Working] /\ code_arenas \in Seq(ArenaRecord)
  BY DEF Typed, TypeOK, ArenaRecord
<1>2. /\ threads' \in [Threads -> Working] /\ threads'[t] = w
      /\ \A u \in Threads \ {t} : threads'[u] = threads[u]
  BY <1>1 DEF Becomes
<1>3. ASSUME NEW u \in Threads, u # t PROVE Sound(threads'[u], Len(code_arenas'))
  <2>1. threads'[u] = threads[u] /\ Sound(threads[u], Len(code_arenas))
    BY <1>2, <1>3 DEF Typed
  <2>2. Len(code_arenas) \in Nat /\ Len(code_arenas') \in Nat
    BY <1>1, LenProperties
  <2>3. threads[u].k \in 1..Len(code_arenas) => threads[u].k \in 1..Len(code_arenas')
    BY <2>2
  <2>4. QED
    BY <2>1, <2>3 DEF Sound
<1>4. QED
  BY <1>2, <1>3

\* The same, when the arenas and the pages stay.
LEMMA MovesOn ==
    ASSUME Typed, NEW t \in Threads, NEW w \in Working, Becomes(t, w),
           Sound(w, Len(code_arenas)),
           UNCHANGED <<code_arenas, maps, blocks, overlapped, abutted, begun>>,
           crashed' \in BOOLEAN
    PROVE  Typed'
<1>1. code_arenas' \in Seq(ArenaRecord) /\ Len(code_arenas) <= Len(code_arenas')
  BY LenProperties DEF Typed, TypeOK, ArenaRecord
<1>2. /\ threads' \in [Threads -> Working]
      /\ \A u \in Threads : Sound(threads'[u], Len(code_arenas'))
  BY <1>1, Moves
<1>3. QED
  BY <1>2 DEF Typed, TypeOK

------------------------------------------------------------------------------
(* What is found near a position, and the pages that are mapped for it.      *)

InReach(a, n, pos) == pos - Reach <= a /\ a + n <= pos + Reach

\* Unused memory that is found lies between start and end, and in reach.
LEMMA UnusedFacts ==
    ASSUME NEW t \in Threads, threads[t] \in Working, NEW start \in Nat, NEW end \in Nat
    PROVE  /\ Unused(start, end, t) \in Nat
           /\ Unused(start, end, t) # 0 =>
                 /\ start <= Unused(start, end, t)
                 /\ Unused(start, end, t) + threads[t].n <= end
                 /\ InReach(Unused(start, end, t), threads[t].n, threads[t].job.pos)
<1>1. /\ Job(t).pos \in Nat /\ Job(t).pos >= Reach
      /\ threads[t].n \in Nat \ {0}
  BY Tasks DEF Job
<1>2. QED
  BY <1>1, SizeAssumption DEF Unused, InReach, Job

\* The pages from f to l hold n instructions at a, which are in reach of pos.
Holds(f, l, a, n, pos) == Base(f) <= a /\ a + n < Base(l) + PageSize /\ InReach(a, n, pos)

\* The pages that are mapped for n instructions at a.
RunOf(a, n) == {p \in Pages : PageOf(a) <= p /\ p <= LastPage(a, n)}

\* In a gap between mapped pages, the pages from that of the address to that
\* behind the block are an interval; only the last may be mapped already, and
\* then the block ends at its start.
LEMMA GapFacts ==
    ASSUME TypeOK, NEW t \in Threads, NEW g \in Gaps(t), Found(g, t) # 0
    PROVE  /\ \E f, l \in Pages :
                 f <= l /\ RunOf(Found(g, t), threads[t].n) = f..l
                   /\ Holds(f, l, Found(g, t), threads[t].n, threads[t].job.pos)
           /\ Found(g, t) \in Nat
           /\ \A p \in RunOf(Found(g, t), threads[t].n) \cap threads[t].seen :
                 p = g[2] /\ Found(g, t) + threads[t].n = Base(p)
<1> DEFINE a == Found(g, t)
           n == threads[t].n
           f == PageOf(a)
           l == PageOf(a + n)
           run == RunOf(a, n)
<1>1. /\ threads[t] \in Working /\ threads[t].seen \in SUBSET Pages
      /\ n \in Nat \ {0}
  BY Tasks DEF TypeOK, Working
<1>2. /\ g[1] \in threads[t].seen /\ g[2] \in threads[t].seen /\ g[1] < g[2]
      /\ \A p \in threads[t].seen : ~(g[1] < p /\ p < g[2])
  BY DEF Gaps
<1>3. g[1] \in Pages /\ g[2] \in Pages /\ g[1] \in Nat /\ g[2] \in Nat
  BY <1>1, <1>2, PagesAssumption
<1>4. /\ Base(g[1] + 1) \in Nat /\ Base(g[2]) \in Nat
      /\ a = Unused(Base(g[1] + 1), Base(g[2]), t)
  BY <1>3, BaseOrder DEF Found, Base
<1>5. /\ a \in Nat /\ Base(g[1] + 1) <= a /\ a + n <= Base(g[2])
      /\ InReach(a, n, threads[t].job.pos)
  BY <1>1, <1>4, UnusedFacts
<1> HIDE DEF a, n, run
<1>6. a + n \in Nat /\ a < Base(g[2]) + PageSize /\ a + n < Base(g[2]) + PageSize
      /\ Base(g[1] + 1) <= a + n
  BY <1>1, <1>4, <1>5, SizeAssumption
<1>7. f \in (g[1] + 1)..g[2] /\ l \in (g[1] + 1)..g[2]
  BY <1>3, <1>5, <1>6, PageWithin
<1>8. /\ f \in Nat /\ Base(f) \in Nat /\ Base(f) <= a
      /\ l \in Nat /\ Base(l) \in Nat /\ Base(l) <= a + n /\ a + n < Base(l) + PageSize
  BY <1>5, <1>6, PageBounds, BaseOrder
<1> HIDE DEF f, l
<1>9. f # g[2]
  BY <1>1, <1>5, <1>8
<1>10. f \in g[1]..g[2] /\ l \in g[1]..g[2] /\ f < g[2] /\ g[1] < f
  BY <1>3, <1>7, <1>9
<1>11. f \in Pages /\ l \in Pages
  BY <1>3, <1>10, SpaceAssumption
<1>12. f <= l
  <2>1. l < f => Base(l) + PageSize <= Base(f)
    BY <1>8, BaseOrder
  <2>2. QED
    BY <1>1, <1>5, <1>8, <2>1, SizeAssumption
<1>13. run = f..l
  <2>1. run = {p \in Pages : f <= p /\ p <= l}
    BY DEF run, f, l, RunOf, LastPage
  <2>2. f..l \subseteq Pages
    BY <1>11, SpaceAssumption
  <2>3. Pages \subseteq Int
    BY PagesAssumption
  <2>4. ASSUME NEW p PROVE p \in run <=> p \in f..l
    <3>1. p \in run <=> p \in Pages /\ f <= p /\ p <= l
      BY <2>1
    <3>2. p \in f..l <=> p \in Int /\ f <= p /\ p <= l
      BY <1>8
    <3>3. QED
      BY <2>2, <2>3, <3>1, <3>2
  <2>5. QED
    BY <2>1, <2>4
<1>14. ASSUME NEW p \in run \cap threads[t].seen
       PROVE  p = g[2] /\ a + n = Base(p)
  <2>1. p \in Nat /\ f <= p /\ p <= l
    BY <1>8, <1>13
  <2>2. p = g[2] /\ l = g[2]
    BY <1>2, <1>3, <1>10, <2>1
  <2>3. QED
    BY <1>1, <1>4, <1>5, <1>8, <2>2
<1>15. QED
  BY <1>5, <1>8, <1>11, <1>12, <1>13, <1>14 DEF a, n, run, Holds

\* The arena of a run of pages spans them, and its cursor is at their start.
LEMMA ArenaFacts ==
    ASSUME NEW f \in Pages, NEW l \in Pages, f <= l
    PROVE  /\ ArenaOf(f..l) \in ArenaRecord
           /\ ArenaOf(f..l).addr = Base(f) /\ ArenaOf(f..l).cursor_addr = Base(f)
           /\ ArenaOf(f..l).addr + ArenaOf(f..l).size = Base(l) + PageSize
<1>1. f \in Nat /\ l \in Nat
  BY PagesAssumption
<1>2. (CHOOSE p \in f..l : \A q \in f..l : p <= q) = f
  <2>1. f \in f..l /\ \A q \in f..l : f <= q
    BY <1>1
  <2>2. \A p \in f..l : (\A q \in f..l : p <= q) => p = f
    BY <1>1, <2>1
  <2>3. QED
    BY <2>1, <2>2
<1>3. Cardinality(f..l) = l - f + 1
  BY <1>1, FS_Interval
<1>4. PICK d \in Nat : d = l - f
  BY <1>1
<1>5. ArenaOf(f..l) = [addr |-> f * PageSize, size |-> (d + 1) * PageSize,
                       cursor_addr |-> f * PageSize]
  BY <1>2, <1>3, <1>4 DEF ArenaOf
<1>6. f * PageSize \in Nat /\ (d + 1) * PageSize \in Nat
  BY <1>1, <1>4, SizeAssumption
<1>7. f * PageSize + (d + 1) * PageSize = l * PageSize + PageSize
  <2>1. l = f + d
    BY <1>1, <1>4
  <2>2. l * PageSize = f * PageSize + d * PageSize
    BY <1>1, <1>4, <2>1, SizeAssumption
  <2>3. (d + 1) * PageSize = d * PageSize + PageSize
    BY <1>4, SizeAssumption
  <2>4. d * PageSize \in Nat
    BY <1>4, SizeAssumption
  <2>5. QED
    BY <1>6, <2>2, <2>3, <2>4, SizeAssumption
<1>8. QED
  BY <1>5, <1>6, <1>7 DEF ArenaRecord, Base

------------------------------------------------------------------------------
(* Every step keeps the types.                                               *)

LEMMA GoesOn ==
    ASSUME Typed, NEW t \in Threads, NEW at \in Steps
    PROVE  /\ threads[t] \in Working /\ Sound(threads[t], Len(code_arenas))
           /\ [threads[t] EXCEPT !.at = at] \in Working
BY DEF Typed, TypeOK, Working

LEMMA IdleWorks ==
    ASSUME NEW n
    PROVE  Idle \in Working /\ Sound(Idle, n)
<1>1. Sound(Idle, n)
  BY DEF Idle, Sound, InHand
<1>2. 1 \in 1..PageSize /\ 1 \in Nat \ {0} /\ {} \in SUBSET Pages
  BY SizeAssumption
<1>3. "idle" \in Steps /\ "exec" \in Paths
  BY DEF Steps, Paths
<1>4. \A at \in Steps, path \in Paths, job \in Jobs \cup {Nothing} :
         [at |-> at, job |-> job, n |-> 1, path |-> path, k |-> 1,
          addr |-> 0, hole |-> 0, seen |-> {}, run |-> {}] \in Working
  BY <1>2 DEF Working
<1>5. Idle \in Working
  BY <1>3, <1>4 DEF Idle
<1>6. QED
  BY <1>1, <1>5

LEMMA Taken ==
    ASSUME NEW w \in Working, NEW at \in Steps, NEW path \in Paths, NEW k \in Nat \ {0},
           NEW a \in Int
    PROVE  [w EXCEPT !.at = at, !.path = path, !.k = k, !.addr = a] \in Working
BY DEF Working

LEMMA TypedQuiet ==
    ASSUME Typed, NEW t \in Threads,
           Scan(t) \/ LookInArenas(t) \/ GetProcessMemoryLayout(t) \/ NoneNear(t)
             \/ Skip(t) \/ Check(t) \/ Cut(t) \/ Copy(t)
    PROVE  Typed'
<1>1. threads[t] \in Working /\ Sound(threads[t], Len(code_arenas))
  BY DEF Typed, TypeOK
<1>2. /\ code_arenas \in Seq(ArenaRecord) /\ DOMAIN code_arenas = 1..Len(code_arenas)
      /\ crashed \in BOOLEAN
      /\ \A k \in 1..Len(code_arenas) : code_arenas[k] \in ArenaRecord
  <2>1. code_arenas \in Seq(ArenaRecord) /\ crashed \in BOOLEAN
    BY DEF Typed, TypeOK, ArenaRecord
  <2>2. QED
    BY <2>1
<1>3. Idle \in Working /\ Sound(Idle, Len(code_arenas))
  BY IdleWorks
<1>4. ASSUME NEW at \in Steps, Goes(t, at), crashed' \in BOOLEAN,
             UNCHANGED <<code_arenas, maps, blocks, overlapped, abutted, begun>>,
             Sound([threads[t] EXCEPT !.at = at], Len(code_arenas))
      PROVE  Typed'
  <2> DEFINE w == [threads[t] EXCEPT !.at = at]
  <2>1. w \in Working
    BY GoesOn
  <2>2. Becomes(t, w) /\ Sound(w, Len(code_arenas))
    BY <1>4 DEF Goes
  <2> HIDE DEF w
  <2>3. QED
    BY <1>4, <2>1, <2>2, MovesOn
<1>5. ASSUME UNCHANGED <<code_arenas, maps, blocks, threads, overlapped, abutted, begun>>,
             crashed' \in BOOLEAN
      PROVE  Typed'
  BY <1>5 DEF Typed, TypeOK
<1>6. {"cut", "layout", "rx"} \subseteq Steps
  BY DEF Steps
<1>a. CASE Scan(t)
  <2>1. CASE threads[t].k <= Len(code_arenas) /\ Goes(t, "cut")
    <3>1. Sound([threads[t] EXCEPT !.at = "cut"], Len(code_arenas))
      BY <1>1, <1>2, <2>1 DEF Sound, InHand, Working
    <3>2. QED
      BY <1>2, <1>4, <1>6, <1>a, <2>1, <3>1 DEF Scan
  <2>2. CASE Becomes(t, [threads[t] EXCEPT !.k = @ + 1])
    <3> DEFINE w == [threads[t] EXCEPT !.k = @ + 1]
    <3>1. w \in Working /\ w.at = "scan"
      BY <1>1, <1>a DEF Scan, At, Working
    <3>2. Sound(w, Len(code_arenas))
      BY <3>1 DEF Sound, InHand
    <3> HIDE DEF w
    <3>3. Becomes(t, w)
      BY <2>2 DEF w
    <3>4. QED
      BY <1>2, <1>a, <3>1, <3>2, <3>3, MovesOn DEF Scan
  <2>3. QED
    BY <1>a, <2>1, <2>2 DEF Scan
<1>b. CASE LookInArenas(t)
  <2>1. CASE Goes(t, "layout")
    <3>1. Sound([threads[t] EXCEPT !.at = "layout"], Len(code_arenas))
      BY <1>1 DEF Sound, InHand, Working
    <3>2. QED
      BY <1>2, <1>4, <1>6, <1>b, <2>1, <3>1 DEF LookInArenas
  <2>2. ASSUME NEW k \in DOMAIN code_arenas,
               Becomes(t, [threads[t] EXCEPT !.at = "skip", !.path = "default", !.k = k,
                                            !.addr = UnusedIn(code_arenas[k], t)])
        PROVE  Typed'
    <3>0. UnusedIn(code_arenas[k], t) \in Nat
      <4>1. /\ code_arenas[k].cursor_addr \in Nat
            /\ code_arenas[k].addr + code_arenas[k].size \in Nat
        BY <1>2 DEF ArenaRecord
      <4>2. QED
        BY <1>1, <4>1, UnusedFacts DEF UnusedIn
    <3>1. PICK a \in Nat : a = UnusedIn(code_arenas[k], t)
      BY <3>0
    <3> DEFINE w == [threads[t] EXCEPT !.at = "skip", !.path = "default", !.k = k, !.addr = a]
    <3>2. w \in Working /\ w.at = "skip" /\ w.k = k
      <4>1. "skip" \in Steps /\ "default" \in Paths
        BY DEF Steps, Paths
      <4>2. k \in Nat \ {0} /\ a \in Int
        BY <1>2
      <4>3. w \in Working
        BY <1>1, <4>1, <4>2, Taken
      <4>4. w.at = "skip" /\ w.k = k
        BY <1>1 DEF Working
      <4>5. QED
        BY <4>3, <4>4
    <3>3. Becomes(t, w)
      BY <2>2, <3>1
    <3> HIDE DEF w
    <3>4. Sound(w, Len(code_arenas))
      BY <1>2, <3>2 DEF Sound
    <3>5. QED
      BY <1>2, <1>b, <3>2, <3>3, <3>4, MovesOn DEF LookInArenas
  <2>3. QED
    BY <1>b, <2>1, <2>2 DEF LookInArenas
<1>c. CASE GetProcessMemoryLayout(t)
  <2> DEFINE w == [threads[t] EXCEPT !.at = "map", !.seen = Mapped]
  <2>1. w \in Working /\ w.at = "map"
    <3>1. "map" \in Steps /\ Mapped \in SUBSET Pages
      BY DEF Steps, Mapped
    <3>2. QED
      BY <1>1, <3>1 DEF Working
  <2>2. Becomes(t, w)
    BY <1>c DEF GetProcessMemoryLayout
  <2> HIDE DEF w
  <2>3. Sound(w, Len(code_arenas))
    BY <2>1 DEF Sound, InHand
  <2>4. QED
    BY <1>2, <1>c, <2>1, <2>2, <2>3, MovesOn DEF GetProcessMemoryLayout
<1>d. CASE NoneNear(t)
  BY <1>2, <1>3, <1>d, MovesOn DEF NoneNear
<1>e. CASE Skip(t)
  <2> DEFINE hole == threads[t].addr - Arena(t).cursor_addr
             next == IF Fits(Arena(t), hole) THEN "skipped" ELSE "check"
             w == [threads[t] EXCEPT !.hole = hole, !.at = next]
  <2>1. threads[t].at = "skip" /\ threads[t].k \in 1..Len(code_arenas)
    BY <1>1, <1>e DEF Skip, At, Sound, InHand
  <2>2. hole \in Int
    BY <1>1, <1>2, <2>1 DEF Working, Arena, ArenaRecord
  <2>3. next \in {"skipped", "check"}
    OBVIOUS
  <2>4. Becomes(t, w)
    BY <1>e DEF Skip
  <2> HIDE DEF hole, next
  <2>5. w \in Working /\ w.at \in {"skipped", "check"} /\ w.k = threads[t].k
    BY <1>1, <2>2, <2>3 DEF Working, Steps
  <2> HIDE DEF w
  <2>6. Sound(w, Len(code_arenas))
    BY <2>1, <2>5 DEF Sound
  <2>7. QED
    BY <1>2, <1>e, <2>4, <2>5, <2>6, MovesOn DEF Skip
<1>f. CASE Check(t)
  <2>1. threads[t].at = "check" /\ threads[t].k \in 1..Len(code_arenas)
    BY <1>1, <1>f DEF Check, At, Sound, InHand
  <2>2. crashed' \in BOOLEAN
    BY <1>2, <1>f DEF Check
  <2>3. ASSUME NEW at \in {"cut", "layout"}, Goes(t, at) PROVE Typed'
    <3>1. Sound([threads[t] EXCEPT !.at = at], Len(code_arenas))
      BY <1>1, <2>1 DEF Sound, InHand, Working
    <3>2. at \in Steps
      BY DEF Steps
    <3>3. QED
      BY <1>4, <1>f, <2>2, <2>3, <3>1, <3>2 DEF Check
  <2>4. CASE Becomes(t, Idle)
    BY <1>3, <1>f, <2>2, <2>4, MovesOn DEF Check
  <2>5. CASE UNCHANGED threads
    BY <1>5, <1>f, <2>2, <2>5 DEF Check
  <2>6. QED
    BY <1>f, <2>3, <2>4, <2>5 DEF Check
<1>g. CASE Cut(t)
  <2>1. threads[t].at = "cut" /\ threads[t].k \in 1..Len(code_arenas)
    BY <1>1, <1>g DEF Cut, At, Sound, InHand
  <2>2. PICK a \in Nat : a = Arena(t).cursor_addr
    BY <1>2, <2>1 DEF Arena, ArenaRecord
  <2>3. a \in Int /\ "cutting" \in Steps
    BY DEF Steps
  <2> DEFINE w == [threads[t] EXCEPT !.at = "cutting", !.addr = a]
  <2>4. w \in Working /\ w.at = "cutting" /\ w.addr = a /\ w.k = threads[t].k
    BY <1>1, <2>3 DEF Working
  <2>5. Becomes(t, w)
    BY <1>g, <2>2 DEF Cut
  <2> HIDE DEF w
  <2>6. Sound(w, Len(code_arenas))
    BY <2>1, <2>2, <2>4 DEF Sound
  <2>7. QED
    BY <1>2, <1>g, <2>4, <2>5, <2>6, MovesOn DEF Cut
<1>h. CASE Copy(t)
  <2>1. crashed' \in BOOLEAN
    BY <1>2, <1>h DEF Copy
  <2>2. CASE Goes(t, "rx")
    <3>1. Sound([threads[t] EXCEPT !.at = "rx"], Len(code_arenas))
      BY <1>1 DEF Sound, InHand, Working
    <3>2. QED
      BY <1>4, <1>6, <1>h, <2>1, <2>2, <3>1 DEF Copy
  <2>3. CASE UNCHANGED threads
    BY <1>5, <1>h, <2>1, <2>3 DEF Copy
  <2>4. QED
    BY <1>h, <2>2, <2>3 DEF Copy
<1>z. QED
  BY <1>a, <1>b, <1>c, <1>d, <1>e, <1>f, <1>g, <1>h

\* The cursor of an arena in hand moves, and its address and size stay.
LEMMA BumpTypes ==
    ASSUME Typed, NEW t \in Threads, threads[t].k \in 1..Len(code_arenas),
           NEW n \in Int, NEW read \in Int, Bump(t, n, read)
    PROVE  code_arenas' \in Seq(ArenaRecord) /\ Len(code_arenas') = Len(code_arenas)
<1>1. code_arenas \in Seq(ArenaRecord) /\ threads[t].k \in DOMAIN code_arenas
  BY DEF Typed, TypeOK, ArenaRecord
<1>2. Arena(t) \in ArenaRecord
  BY <1>1 DEF Arena
<1>3. PICK base \in {read, Arena(t).cursor_addr} :
         code_arenas' = [code_arenas EXCEPT ![threads[t].k].cursor_addr = (base + n) % Width]
  BY DEF Bump
<1>4. base \in Int
  BY <1>2, <1>3 DEF ArenaRecord
<1>5. PICK c \in Nat : c = (base + n) % Width
  BY <1>4, SizeAssumption
<1>6. [Arena(t) EXCEPT !.cursor_addr = c] \in ArenaRecord
  BY <1>2 DEF ArenaRecord
<1>7. code_arenas' = [code_arenas EXCEPT ![threads[t].k] = [Arena(t) EXCEPT !.cursor_addr = c]]
  BY <1>3, <1>5 DEF Arena
<1>8. QED
  BY <1>1, <1>6, <1>7, ExceptSeq

\* Pages get owners and permissions.
LEMMA MapTypes ==
    ASSUME Typed, NEW ps, NEW perm \in Permissions, Protect(ps, perm)
    PROVE  maps' \in [Pages -> PageRecord]
<1>1. \A p \in Pages : maps[p] \in PageRecord
  BY DEF Typed, TypeOK, PageRecord
<1>2. \A p \in Pages : [maps[p] EXCEPT !.perm = perm] \in PageRecord
  BY <1>1 DEF PageRecord
<1>3. QED
  BY <1>1, <1>2 DEF Protect

LEMMA TypedBegin ==
    ASSUME Typed, NEW t \in Threads, Begin(t)
    PROVE  Typed'
<1>1. PICK j \in Jobs :
        Becomes(t, [Idle EXCEPT !.job = j, !.n = j.size, !.addr = j.pos,
            !.at = [build |-> "scan", forward |-> "look", patch |-> "rwx"][j.kind]])
  BY DEF Begin
<1>2. j \in Work /\ Idle \in Working
  BY JobsAssumption, IdleWorks
<1>3. PICK at \in {"scan", "look", "rwx"} :
         at = [build |-> "scan", forward |-> "look", patch |-> "rwx"][j.kind]
  BY <1>2 DEF Work
<1> DEFINE w == [Idle EXCEPT !.job = j, !.n = j.size, !.addr = j.pos, !.at = at]
<1>4. w \in Working /\ w.at = at
  <2>1. at \in Steps /\ j.size \in 1..PageSize /\ j.pos \in Int /\ j \in Jobs \cup {Nothing}
    BY <1>2 DEF Steps, Work
  <2>2. QED
    BY <1>2, <2>1 DEF Working
<1>5. Becomes(t, w)
  BY <1>1, <1>3
<1> HIDE DEF w
<1>6. Sound(w, Len(code_arenas'))
  BY <1>3, <1>4 DEF Sound, InHand
<1>7. /\ code_arenas' = code_arenas /\ code_arenas \in Seq(ArenaRecord)
      /\ Len(code_arenas) <= Len(code_arenas')
  BY LenProperties DEF Begin, Typed, TypeOK, ArenaRecord
<1>8. /\ threads' \in [Threads -> Working]
      /\ \A u \in Threads : Sound(threads'[u], Len(code_arenas'))
  BY <1>4, <1>5, <1>6, <1>7, Moves
<1>9. begun' \in 0..MaxJobs /\ overlapped' \in BOOLEAN
  BY SizeAssumption DEF Begin, Typed, TypeOK
<1>10. QED
  BY <1>8, <1>9 DEF Begin, Typed, TypeOK

LEMMA TypedMemory ==
    ASSUME Typed, NEW t \in Threads,
           NewArena(t) \/ MapFixed(t) \/ Register(t) \/ ProtectArena(t) \/ Skipped(t)
             \/ Cutting(t) \/ MakeWritable(t) \/ Restore(t)
    PROVE  Typed'
<1>1. threads[t] \in Working /\ Sound(threads[t], Len(code_arenas))
  BY DEF Typed, TypeOK
<1>2. /\ code_arenas \in Seq(ArenaRecord) /\ Len(code_arenas) \in Nat
      /\ maps \in [Pages -> PageRecord] /\ blocks \in Seq(BlockRecord)
      /\ abutted \in BOOLEAN
  BY LenProperties DEF Typed, TypeOK, ArenaRecord, PageRecord, BlockRecord
<1>3. ASSUME NEW w \in Working, Becomes(t, w),
             code_arenas' \in Seq(ArenaRecord), Len(code_arenas) <= Len(code_arenas'),
             Sound(w, Len(code_arenas')), maps' \in [Pages -> PageRecord],
             blocks' \in Seq(BlockRecord), abutted' \in BOOLEAN,
             UNCHANGED <<crashed, overlapped, begun>>
      PROVE  Typed'
  <2>1. /\ threads' \in [Threads -> Working]
        /\ \A u \in Threads : Sound(threads'[u], Len(code_arenas'))
    BY <1>3, Moves
  <2>2. QED
    BY <1>3, <2>1 DEF Typed, TypeOK, ArenaRecord, PageRecord, BlockRecord
<1>a. CASE NewArena(t)
  <2>1. PICK p \in Pages :
          /\ maps' = [maps EXCEPT ![p] = [owner |-> "dobby", perm |-> "rx"]]
          /\ Becomes(t, [threads[t] EXCEPT !.at = "register", !.run = {p}])
    BY <1>a DEF NewArena
  <2> DEFINE w == [threads[t] EXCEPT !.at = "register", !.run = {p}]
  <2>2. w \in Working /\ w.at = "register" /\ w.run = {p}
    <3>1. "register" \in Steps /\ {p} \in SUBSET Pages
      BY DEF Steps
    <3>2. QED
      BY <1>1, <3>1 DEF Working
  <2>3. Becomes(t, w)
    BY <2>1
  <2> HIDE DEF w
  <2>4. Sound(w, Len(code_arenas'))
    <3>1. p <= p /\ {p} = p..p
      BY PageFacts
    <3>2. QED
      BY <2>2, <3>1 DEF Sound, InHand, Interval
  <2>5. maps' \in [Pages -> PageRecord]
    BY <1>2, <2>1 DEF PageRecord, Permissions
  <2>6. UNCHANGED <<code_arenas, blocks, crashed, overlapped, abutted, begun>>
    BY <1>a DEF NewArena
  <2>7. code_arenas' \in Seq(ArenaRecord) /\ Len(code_arenas) <= Len(code_arenas')
          /\ blocks' \in Seq(BlockRecord) /\ abutted' \in BOOLEAN
    BY <1>2, <2>6
  <2>8. QED
    BY <1>3, <2>2, <2>3, <2>4, <2>5, <2>6, <2>7
<1>b. CASE MapFixed(t)
  <2>1. PICK g \in Gaps(t), run \in SUBSET Pages :
          /\ Found(g, t) # 0
          /\ run = {p \in Pages : PageOf(Found(g, t)) <= p
                       /\ p <= LastPage(Found(g, t), threads[t].n)}
          /\ maps' = [p \in Pages |-> IF p \in run THEN [owner |-> "dobby", perm |-> "none"]
                                      ELSE maps[p]]
          /\ abutted' = (abutted \/ g[2] \in run)
          /\ Becomes(t, [threads[t] EXCEPT !.at = "register", !.path = "region",
                                          !.addr = Found(g, t), !.run = run])
    BY <1>b DEF MapFixed
  <2>2. Interval(run) /\ Found(g, t) \in Nat
    <3>1. TypeOK /\ run = RunOf(Found(g, t), threads[t].n)
      BY <2>1 DEF Typed, RunOf
    <3>2. Found(g, t) \in Nat /\ \E f, l \in Pages : f <= l /\ run = f..l
      BY <2>1, <3>1, GapFacts
    <3>3. QED
      BY <3>2 DEF Interval
  <2>3. PICK a \in Int : a = Found(g, t)
    BY <2>2
  <2> DEFINE w == [threads[t] EXCEPT !.at = "register", !.path = "region",
                                    !.addr = a, !.run = run]
  <2>4. w \in Working /\ w.at = "register" /\ w.run = run
    <3>1. "register" \in Steps /\ "region" \in Paths
      BY DEF Steps, Paths
    <3>2. \A at \in Steps, path \in Paths :
             [threads[t] EXCEPT !.at = at, !.path = path, !.addr = a, !.run = run] \in Working
      BY <1>1 DEF Working
    <3>3. w.at = "register" /\ w.run = run
      BY <1>1 DEF Working
    <3>4. QED
      BY <3>1, <3>2, <3>3
  <2>5. Becomes(t, w)
    BY <2>1, <2>3
  <2> HIDE DEF w
  <2>6. Sound(w, Len(code_arenas'))
    BY <2>2, <2>4 DEF Sound, InHand
  <2>7. maps' \in [Pages -> PageRecord]
    BY <1>2, <2>1 DEF PageRecord, Permissions
  <2>8. abutted' \in BOOLEAN
    BY <1>2, <2>1
  <2>9. UNCHANGED <<code_arenas, blocks, crashed, overlapped, begun>>
    BY <1>b DEF MapFixed
  <2>10. code_arenas' \in Seq(ArenaRecord) /\ Len(code_arenas) <= Len(code_arenas')
           /\ blocks' \in Seq(BlockRecord)
    BY <1>2, <2>9
  <2>11. QED
    BY <1>3, <2>4, <2>5, <2>6, <2>7, <2>8, <2>9, <2>10
<1>c. CASE Register(t)
  <2>1. PICK f \in Pages, l \in Pages : f <= l /\ threads[t].run = f..l
    BY <1>1, <1>c DEF Register, At, Sound, Interval
  <2>2. ArenaOf(threads[t].run) \in ArenaRecord
    BY <2>1, ArenaFacts
  <2>3. code_arenas' \in Seq(ArenaRecord) /\ Len(code_arenas') = Len(code_arenas) + 1
    BY <1>2, <1>c, <2>2, AppendProperties DEF Register
  <2>4. PICK k \in Nat \ {0} : k = Len(code_arenas) + 1
    BY <1>2
  <2>5. PICK at \in {"protect", "check"} :
           at = IF threads[t].path = "region" THEN "protect" ELSE "check"
    OBVIOUS
  <2> DEFINE w == [threads[t] EXCEPT !.k = k, !.at = at]
  <2>6. w \in Working /\ w.at = at /\ w.k = k
    <3>1. at \in Steps
      BY DEF Steps
    <3>2. QED
      BY <1>1, <3>1 DEF Working
  <2>7. Becomes(t, w)
    BY <1>c, <2>4, <2>5 DEF Register
  <2> HIDE DEF w
  <2>8. Sound(w, Len(code_arenas'))
    BY <1>2, <2>3, <2>4, <2>5, <2>6 DEF Sound
  <2>9. QED
    BY <1>2, <1>3, <1>c, <2>3, <2>6, <2>7, <2>8 DEF Register
<1>d. CASE ProtectArena(t)
  <2> DEFINE w == [threads[t] EXCEPT !.at = "skip"]
  <2>1. w \in Working /\ w.at = "skip" /\ w.k = threads[t].k
    <3>1. "skip" \in Steps
      BY DEF Steps
    <3>2. QED
      BY <1>1, <3>1 DEF Working
  <2>2. Becomes(t, w) /\ threads[t].at = "protect"
    BY <1>d DEF ProtectArena, Goes, At
  <2> HIDE DEF w
  <2>3. Sound(w, Len(code_arenas'))
    BY <1>1, <1>d, <2>1, <2>2 DEF Sound, InHand, ProtectArena
  <2>4. maps' \in [Pages -> PageRecord]
    BY <1>d, MapTypes DEF ProtectArena, Permissions
  <2>5. QED
    BY <1>2, <1>3, <1>d, <2>1, <2>2, <2>3, <2>4 DEF ProtectArena
<1>e. CASE Skipped(t)
  <2> DEFINE w == [threads[t] EXCEPT !.at = "check"]
  <2>1. w \in Working /\ w.at = "check" /\ w.k = threads[t].k
    <3>1. "check" \in Steps
      BY DEF Steps
    <3>2. QED
      BY <1>1, <3>1 DEF Working
  <2>2. Becomes(t, w) /\ threads[t].at = "skipped"
    BY <1>e DEF Skipped, Goes, At
  <2> HIDE DEF w
  <2>3. threads[t].k \in 1..Len(code_arenas)
    BY <1>1, <2>2 DEF Sound, InHand
  <2>4. code_arenas' \in Seq(ArenaRecord) /\ Len(code_arenas') = Len(code_arenas)
    <3>1. threads[t].hole \in Int /\ threads[t].addr - threads[t].hole \in Int
      BY <1>1 DEF Working
    <3>2. Bump(t, threads[t].hole, threads[t].addr - threads[t].hole)
      BY <1>e DEF Skipped
    <3>3. QED
      BY <2>3, <3>1, <3>2, BumpTypes
  <2>5. Sound(w, Len(code_arenas'))
    BY <2>1, <2>3, <2>4 DEF Sound
  <2>6. QED
    BY <1>2, <1>3, <1>e, <2>1, <2>2, <2>4, <2>5 DEF Skipped
<1>f. CASE Cutting(t)
  <2>1. threads[t].at = "cutting" /\ threads[t].addr \in Nat /\ threads[t].k \in 1..Len(code_arenas)
    BY <1>1, <1>f DEF Cutting, At, Sound, InHand
  <2>2. code_arenas' \in Seq(ArenaRecord) /\ Len(code_arenas') = Len(code_arenas)
    <3>1. threads[t].n \in Int /\ threads[t].addr \in Int
      BY <2>1, <1>1, Tasks
    <3>2. Bump(t, threads[t].n, threads[t].addr)
      BY <1>f DEF Cutting
    <3>3. QED
      BY <2>1, <3>1, <3>2, BumpTypes
  <2>3. blocks' \in Seq(BlockRecord)
    <3> DEFINE b == [addr |-> threads[t].addr, size |-> threads[t].n,
                     near |-> Job(t).kind = "forward", pos |-> Job(t).pos]
    <3>1. b \in BlockRecord
      <4>1. threads[t].n \in Nat /\ Job(t).pos \in Nat /\ (Job(t).kind = "forward") \in BOOLEAN
        BY <1>1, Tasks DEF Job
      <4>2. QED
        BY <2>1, <4>1 DEF BlockRecord
    <3>2. blocks' = Append(blocks, b)
      BY <1>f DEF Cutting
    <3> HIDE DEF b
    <3>3. QED
      BY <1>2, <3>1, <3>2, AppendProperties
  <2>4. CASE Goes(t, "rwx")
    <3> DEFINE w == [threads[t] EXCEPT !.at = "rwx"]
    <3>1. w \in Working /\ w.at = "rwx"
      <4>1. "rwx" \in Steps
        BY DEF Steps
      <4>2. QED
        BY <1>1, <4>1 DEF Working
    <3>2. Becomes(t, w)
      BY <2>4 DEF Goes
    <3> HIDE DEF w
    <3>3. Sound(w, Len(code_arenas'))
      BY <3>1 DEF Sound, InHand
    <3>4. QED
      BY <1>2, <1>3, <1>f, <2>2, <2>3, <3>1, <3>2, <3>3 DEF Cutting
  <2>5. CASE Becomes(t, [threads[t] EXCEPT !.at = "look", !.n = Job(t).long])
    <3>1. PICK n \in 1..PageSize : n = Job(t).long
      BY <1>1, Tasks DEF Job
    <3> DEFINE w == [threads[t] EXCEPT !.at = "look", !.n = n]
    <3>2. w \in Working /\ w.at = "look"
      <4>1. "look" \in Steps
        BY DEF Steps
      <4>2. QED
        BY <1>1, <4>1 DEF Working
    <3>3. Becomes(t, w)
      BY <2>5, <3>1
    <3> HIDE DEF w
    <3>4. Sound(w, Len(code_arenas'))
      BY <3>2 DEF Sound, InHand
    <3>5. QED
      BY <1>2, <1>3, <1>f, <2>2, <2>3, <3>2, <3>3, <3>4 DEF Cutting
  <2>6. QED
    BY <1>f, <2>4, <2>5 DEF Cutting
<1>g. CASE MakeWritable(t)
  <2> DEFINE w == [threads[t] EXCEPT !.at = "copy"]
  <2>1. w \in Working /\ w.at = "copy"
    <3>1. "copy" \in Steps
      BY DEF Steps
    <3>2. QED
      BY <1>1, <3>1 DEF Working
  <2>2. Becomes(t, w)
    BY <1>g DEF MakeWritable, Goes
  <2> HIDE DEF w
  <2>3. Sound(w, Len(code_arenas'))
    BY <2>1 DEF Sound, InHand
  <2>4. maps' \in [Pages -> PageRecord]
    BY <1>g, MapTypes DEF MakeWritable, Permissions
  <2>5. QED
    BY <1>2, <1>3, <1>g, <2>1, <2>2, <2>3, <2>4 DEF MakeWritable
<1>h. CASE Restore(t)
  <2>1. Idle \in Working /\ Sound(Idle, Len(code_arenas')) /\ Becomes(t, Idle)
    BY <1>h, IdleWorks DEF Restore
  <2>2. maps' \in [Pages -> PageRecord]
    BY <1>h, MapTypes DEF Restore, Permissions
  <2>3. QED
    BY <1>2, <1>3, <1>h, <2>1, <2>2 DEF Restore
<1>z. QED
  BY <1>a, <1>b, <1>c, <1>d, <1>e, <1>f, <1>g, <1>h

LEMMA TypedInit == Init => Typed
<1>1. SUFFICES ASSUME Init PROVE Typed
  OBVIOUS
<1>2. /\ code_arenas = <<>> /\ blocks = <<>> /\ threads = [t \in Threads |-> Idle]
      /\ begun \in 0..MaxJobs /\ {crashed, overlapped, abutted} \subseteq BOOLEAN
  <2>1. 0 \in 0..MaxJobs
    BY SizeAssumption
  <2>2. QED
    BY <1>1, <2>1 DEF Init
<1>3. maps \in [Pages -> PageRecord]
  BY <1>1 DEF Init, Unmapped, PageRecord, Permissions
<1>4. threads \in [Threads -> Working]
      /\ \A t \in Threads : Sound(threads[t], Len(code_arenas))
  BY <1>2, IdleWorks
<1>5. code_arenas \in Seq(ArenaRecord) /\ blocks \in Seq(BlockRecord)
  BY <1>2
<1>6. QED
  BY <1>2, <1>3, <1>4, <1>5 DEF Typed, TypeOK, ArenaRecord, PageRecord, BlockRecord

LEMMA TypedStep == Typed /\ [Next]_vars => Typed'
<1>1. SUFFICES ASSUME Typed, [Next]_vars PROVE Typed'
  OBVIOUS
<1>2. ASSUME NEW t \in Threads, Emit(t) PROVE Typed'
  BY <1>1, <1>2, TypedBegin, TypedQuiet, TypedMemory DEF Emit
<1>3. ASSUME NEW p \in NewMaps, AppMaps(p) PROVE Typed'
  <2>1. maps' \in [Pages -> PageRecord]
    BY <1>1, <1>3 DEF AppMaps, Typed, TypeOK, PageRecord, Permissions
  <2>2. QED
    BY <1>1, <1>3, <2>1 DEF AppMaps, Typed, TypeOK, PageRecord
<1>4. CASE UNCHANGED vars
  BY <1>1, <1>4 DEF vars, Typed, TypeOK
<1>5. QED
  BY <1>1, <1>2, <1>3, <1>4 DEF Next

------------------------------------------------------------------------------
(* As long as threads take turns.  Arenas span pages that are Dobby's and,   *)
(* unless one abuts, are apart; blocks lie between the start and the cursor  *)
(* of an arena, and near ones in reach; the application's code stays mapped. *)

End(arena) == arena.addr + arena.size
Dobbys(p) == maps[p].owner = "dobby"
Spans(arena, f, l) ==
    f <= l /\ arena.addr = Base(f) /\ End(arena) = Base(l) + PageSize
Solid(arena) ==
    /\ \E f, l \in Pages : Spans(arena, f, l) /\ \A p \in f..l : Dobbys(p)
    /\ arena.addr <= arena.cursor_addr /\ arena.cursor_addr <= End(arena)
Filled(b, arena) == arena.addr <= b.addr /\ b.addr + b.size <= arena.cursor_addr
Ground ==
    /\ \A k \in DOMAIN code_arenas : Solid(code_arenas[k])
    /\ Text \subseteq Mapped
Apart ==
    abutted \/ /\ \A k, l \in DOMAIN code_arenas :
                     k # l => Disjoint(code_arenas[k], code_arenas[l])
               /\ \A m, n \in DOMAIN blocks : m # n => Disjoint(blocks[m], blocks[n])
Placed ==
    \A m \in DOMAIN blocks :
        /\ \E k \in DOMAIN code_arenas : Filled(blocks[m], code_arenas[k])
        /\ blocks[m].near => InReach(blocks[m].addr, blocks[m].size, blocks[m].pos)
Grown == Ground /\ Apart /\ Placed

\* What a thread counts on between two of its steps: room at the cursor, that
\* is in reach if it must be; an address ahead of the cursor; new pages that
\* are apart from the arenas; pages to write to that are mapped.
Room(t) ==
    /\ Arena(t).cursor_addr + threads[t].n <= End(Arena(t))
    /\ Job(t).kind = "forward" => InReach(Arena(t).cursor_addr, threads[t].n, Job(t).pos)
Ahead(t) ==
    /\ Arena(t).cursor_addr <= threads[t].addr
    /\ threads[t].addr + threads[t].n <= End(Arena(t))
    /\ InReach(threads[t].addr, threads[t].n, Job(t).pos)
NewPages(t) ==
    \E f, l \in Pages :
        /\ f <= l /\ threads[t].run = f..l
        /\ abutted \/ \A k \in DOMAIN code_arenas :
              Base(l) + PageSize <= code_arenas[k].addr \/ End(code_arenas[k]) <= Base(f)
        /\ \/ threads[t].path = "exec" /\ Job(t).kind # "forward"
           \/ threads[t].path = "region" /\ Holds(f, l, threads[t].addr, threads[t].n, Job(t).pos)
Target(t) ==
    /\ threads[t].addr \in Nat
    /\ \A p \in WrittenPages(t) :
          /\ p \in Mapped
          /\ threads[t].at = "copy" => Rwx(p)
          /\ Job(t).kind = "patch" \/ Dobbys(p)
Doing(t) ==
    /\ threads[t].at = "scan" => threads[t].path = "exec" /\ Job(t).kind # "forward"
    /\ threads[t].at = "map" => \A p \in Pages : Dobbys(p) => p \in threads[t].seen
    /\ threads[t].at \in {"register", "protect"} => \A p \in threads[t].run : Dobbys(p)
    /\ threads[t].at = "register" => NewPages(t)
    /\ threads[t].at \in {"protect", "skip", "skipped"} => Ahead(t)
    /\ threads[t].at = "skipped" => threads[t].hole = threads[t].addr - Arena(t).cursor_addr
    /\ threads[t].at \in {"check", "cut", "cutting"} => Room(t)
    /\ threads[t].at = "cutting" => threads[t].addr = Arena(t).cursor_addr
    /\ threads[t].at \in {"rwx", "copy", "rx"} => Target(t)

Alone == \A t, u \in Threads : t = u \/ threads[t].at = "idle" \/ threads[u].at = "idle"
Orderly == ~crashed /\ Alone /\ Grown /\ \A t \in Threads : Doing(t)
TurnsInv == Typed /\ (overlapped \/ Orderly)

\* Only the others stay as they are.
Others(t) == \A u \in Threads \ {t} : threads'[u] = threads[u]

LEMMA TakesTurn ==
    ASSUME Alone, NEW t \in Threads, threads[t].at # "idle", Others(t),
           ~crashed', Grown', Doing(t)'
    PROVE  Orderly'
<1>1. \A u \in Threads \ {t} : threads'[u].at = "idle"
  BY DEF Alone, Others
<1>2. Alone'
  BY <1>1 DEF Alone
<1>3. ASSUME NEW u \in Threads PROVE Doing(u)'
  BY <1>1 DEF Doing
<1>4. QED
  BY <1>2, <1>3 DEF Orderly

\* Pages that are Dobby's, and mapped pages, stay so.
Lasting == /\ \A p \in Pages : Dobbys(p) => maps'[p].owner = "dobby"
           /\ \A p \in Mapped : p \in Mapped'
           /\ abutted => abutted'

LEMMA Standing ==
    ASSUME Grown, Lasting, UNCHANGED <<code_arenas, blocks>>
    PROVE  Grown'
<1>1. ASSUME NEW k \in DOMAIN code_arenas' PROVE Solid(code_arenas[k])'
  <2>1. Solid(code_arenas[k])
    BY DEF Grown, Ground
  <2>2. PICK f, l \in Pages : Spans(code_arenas[k], f, l) /\ \A p \in f..l : Dobbys(p)
    BY <2>1 DEF Solid
  <2>3. f..l \subseteq Pages
    BY SpaceAssumption
  <2>4. \A p \in f..l : Dobbys(p)'
    BY <2>2, <2>3 DEF Lasting, Dobbys
  <2>5. Spans(code_arenas[k], f, l)'
    BY <2>2 DEF Spans, End
  <2>6. QED
    BY <2>1, <2>4, <2>5 DEF Solid, End
<1>2. (Text \subseteq Mapped)'
  BY DEF Lasting, Grown, Ground
<1>3. Apart'
  BY DEF Lasting, Grown, Apart
<1>4. Placed'
  BY DEF Grown, Placed, Filled
<1>5. QED
  BY <1>1, <1>2, <1>3, <1>4 DEF Grown, Ground

LEMMA PagesAsTheyWere ==
    ASSUME maps' = maps, abutted' = abutted
    PROVE  Lasting
BY DEF Lasting, Dobbys, Mapped

\* A change of protection leaves the owner, and unmaps nothing.
LEMMA ProtectLasts ==
    ASSUME Typed, NEW ps, NEW perm \in {"rx", "rwx"}, Protect(ps, perm),
           abutted' = abutted
    PROVE  /\ Lasting
           /\ \A p \in Pages : maps'[p].owner = maps[p].owner
           /\ \A p \in Pages \ ps : maps'[p] = maps[p]
           /\ \A p \in ps \cap Mapped : maps'[p].perm = perm
<1>1. \A p \in Pages : maps[p] \in PageRecord
  BY DEF Typed, TypeOK, PageRecord
<1>2. ASSUME NEW p \in Pages
      PROVE  /\ maps'[p].owner = maps[p].owner
             /\ p \notin ps => maps'[p] = maps[p]
             /\ p \in ps /\ p \in Mapped => maps'[p].perm = perm
             /\ p \in Mapped => p \in Mapped'
  <2>1. CASE p \in ps /\ p \in Mapped
    <3>1. maps'[p] = [maps[p] EXCEPT !.perm = perm]
      BY <2>1 DEF Protect
    <3>2. maps'[p].owner = maps[p].owner /\ maps'[p].perm = perm
      BY <1>1, <3>1 DEF PageRecord
    <3>3. p \in Mapped'
      BY <3>2 DEF Mapped, Unmapped
    <3>4. QED
      BY <2>1, <3>2, <3>3
  <2>2. CASE ~(p \in ps /\ p \in Mapped)
    <3>1. maps'[p] = maps[p]
      BY <2>2 DEF Protect
    <3>2. QED
      BY <2>2, <3>1 DEF Mapped
  <2>3. QED
    BY <2>1, <2>2
<1>3. Mapped \subseteq Pages
  BY DEF Mapped
<1>4. QED
  BY <1>2, <1>3 DEF Lasting, Dobbys

\* In an arena of Dobby's, unsigned subtraction does not wrap.
LEMMA ArenaBounds ==
    ASSUME NEW arena \in ArenaRecord, Solid(arena)
    PROVE  /\ arena.addr \in Nat \ {0} /\ End(arena) \in Nat /\ End(arena) < Width
           /\ PageSize <= End(arena)
           /\ arena.cursor_addr \in Nat /\ arena.cursor_addr # 0
           /\ arena.addr <= arena.cursor_addr /\ arena.cursor_addr <= End(arena)
<1>1. PICK f, l \in Pages : Spans(arena, f, l)
  BY DEF Solid
<1>2. /\ Base(f) \in Nat \ {0} /\ Base(l) \in Nat /\ Base(l) + PageSize < Width
      /\ PageSize <= Base(l) + PageSize
  BY PageFacts, SizeAssumption
<1>3. arena.addr \in Nat /\ arena.size \in Nat /\ arena.cursor_addr \in Nat
  BY DEF ArenaRecord
<1>4. QED
  BY <1>1, <1>2, <1>3 DEF Spans, Solid, End

LEMMA FitsFacts ==
    ASSUME NEW arena \in ArenaRecord, Solid(arena), NEW n \in Nat, n < Width
    PROVE  Fits(arena, n) <=> arena.cursor_addr + n <= End(arena)
<1>1. /\ arena.cursor_addr \in Nat /\ End(arena) \in Nat /\ End(arena) < Width
      /\ arena.cursor_addr <= End(arena) /\ arena.addr \in Nat
  BY ArenaBounds
<1>2. PICK d \in Nat : d = End(arena) - arena.cursor_addr /\ d < Width
  <2>1. End(arena) - arena.cursor_addr \in Nat /\ End(arena) - arena.cursor_addr < Width
    BY <1>1, SizeAssumption
  <2>2. QED
    BY <2>1
<1>3. d % Width = d /\ n % Width = n
  BY <1>2, Unwrapped
<1>4. Fits(arena, n) <=> d % Width >= n % Width
  <2>1. arena.addr \in Nat /\ arena.size \in Nat /\ arena.cursor_addr \in Nat
    BY DEF ArenaRecord
  <2>2. arena.addr + arena.size - arena.cursor_addr = d
    BY <1>2, <2>1 DEF End
  <2>3. QED
    BY <2>1, <2>2, SizeAssumption DEF Fits
<1>5. QED
  BY <1>1, <1>2, <1>3, <1>4

------------------------------------------------------------------------------
(* Every step of the only thread at work keeps the order.                    *)

LEMMA Became ==
    ASSUME Typed, NEW t \in Threads, NEW w, Becomes(t, w)
    PROVE  threads'[t] = w /\ Others(t)
<1>1. threads \in [Threads -> Working]
  BY DEF Typed, TypeOK
<1>2. QED
  BY <1>1 DEF Becomes, Others

\* What a thread that goes on to another step keeps.
SameWork(t) ==
    /\ threads'[t].job = threads[t].job /\ threads'[t].n = threads[t].n
    /\ threads'[t].path = threads[t].path /\ threads'[t].k = threads[t].k
    /\ threads'[t].addr = threads[t].addr /\ threads'[t].hole = threads[t].hole
    /\ threads'[t].run = threads[t].run

LEMMA Going ==
    ASSUME Typed, NEW t \in Threads, NEW at, Goes(t, at)
    PROVE  threads'[t].at = at /\ SameWork(t) /\ Others(t)
<1> DEFINE w == [threads[t] EXCEPT !.at = at]
<1>1. threads[t] \in Working
  BY DEF Typed, TypeOK
<1>2. /\ w.at = at /\ w.job = threads[t].job /\ w.n = threads[t].n
      /\ w.path = threads[t].path /\ w.k = threads[t].k /\ w.addr = threads[t].addr
      /\ w.hole = threads[t].hole /\ w.run = threads[t].run
  BY <1>1 DEF Working
<1>3. Becomes(t, w)
  BY DEF Goes
<1> HIDE DEF w
<1>4. threads'[t] = w /\ Others(t)
  BY <1>3, Became
<1>5. QED
  BY <1>2, <1>4 DEF SameWork

\* The arena that a thread has in hand.
LEMMA Hand ==
    ASSUME Typed, Grown, NEW t \in Threads, threads[t].at \in InHand
    PROVE  /\ threads[t].k \in DOMAIN code_arenas /\ Arena(t) = code_arenas[threads[t].k]
           /\ Arena(t) \in ArenaRecord /\ Solid(Arena(t))
<1>1. code_arenas \in Seq(ArenaRecord)
  BY DEF Typed, TypeOK, ArenaRecord
<1>2. threads[t].k \in 1..Len(code_arenas)
  BY DEF Typed, Sound
<1>3. threads[t].k \in DOMAIN code_arenas
  BY <1>1, <1>2
<1>4. QED
  BY <1>1, <1>3 DEF Arena, Grown, Ground

\* A thread that becomes idle has nothing to count on.
LEMMA Rests ==
    ASSUME Typed, Orderly, NEW t \in Threads, threads[t].at # "idle",
           Becomes(t, Idle), Grown', ~crashed'
    PROVE  Orderly'
<1>1. threads'[t] = Idle /\ Others(t)
  BY Became
<1>2. Doing(t)'
  BY <1>1 DEF Idle, Doing
<1>3. QED
  BY <1>1, <1>2, TakesTurn DEF Orderly

LEMMA OrderlyScan ==
    ASSUME Typed, Orderly, NEW t \in Threads, Scan(t)
    PROVE  Orderly'
<1>1. /\ threads[t] \in Working /\ code_arenas \in Seq(ArenaRecord)
      /\ Grown /\ Alone /\ Doing(t) /\ threads[t].at = "scan"
      /\ threads[t].path = "exec" /\ Job(t).kind # "forward"
  BY DEF Typed, TypeOK, Orderly, Doing, Scan, At, ArenaRecord
<1>2. Grown' /\ ~crashed'
  BY <1>1, PagesAsTheyWere, Standing DEF Scan, Orderly
<1>3. CASE Fits(Arena(t), threads[t].n) /\ Goes(t, "cut")
  <2>1. threads'[t].at = "cut" /\ SameWork(t) /\ Others(t)
    BY <1>3, Going
  <2>2. threads[t].k \in DOMAIN code_arenas
    BY <1>1 DEF Scan, Working
  <2>3. Arena(t) \in ArenaRecord /\ Solid(Arena(t))
    BY <1>1, <2>2 DEF Arena, Grown, Ground
  <2>4. Arena(t).cursor_addr + threads[t].n <= End(Arena(t))
    <3>1. threads[t].n \in Nat /\ threads[t].n < Width
      <4>1. threads[t].n \in Nat /\ threads[t].n <= PageSize
        BY <1>1, Tasks
      <4>2. PageSize <= End(Arena(t)) /\ End(Arena(t)) < Width /\ End(Arena(t)) \in Nat
        BY <2>3, ArenaBounds
      <4>3. QED
        BY <4>1, <4>2, SizeAssumption
    <3>2. QED
      BY <1>3, <2>3, <3>1, FitsFacts
  <2>5. Arena(t)' = Arena(t) /\ Job(t)' = Job(t)
    BY <2>1 DEF Arena, Job, SameWork, Scan
  <2>6. Room(t)'
    BY <1>1, <2>1, <2>4, <2>5 DEF Room, SameWork, End
  <2>7. Doing(t)'
    BY <2>1, <2>6 DEF Doing
  <2>8. QED
    BY <1>1, <1>2, <2>1, <2>7, TakesTurn
<1>4. CASE Becomes(t, [threads[t] EXCEPT !.k = @ + 1])
  <2> DEFINE w == [threads[t] EXCEPT !.k = @ + 1]
  <2>1. w.at = "scan" /\ w.path = "exec" /\ w.job = threads[t].job
    BY <1>1 DEF Working
  <2>2. threads'[t] = w /\ Others(t)
    BY <1>4, Became
  <2> HIDE DEF w
  <2>3. Doing(t)'
    BY <1>1, <2>1, <2>2 DEF Doing, Job
  <2>4. QED
    BY <1>1, <1>2, <2>2, <2>3, TakesTurn
<1>5. QED
  BY <1>3, <1>4 DEF Scan

LEMMA OrderlyBegin ==
    ASSUME Typed, Orderly, NEW t \in Threads, Begin(t), ~overlapped'
    PROVE  Orderly'
<1>1. PICK j \in Jobs :
        Becomes(t, [Idle EXCEPT !.job = j, !.n = j.size, !.addr = j.pos,
            !.at = [build |-> "scan", forward |-> "look", patch |-> "rwx"][j.kind]])
  BY DEF Begin
<1>2. j \in Work
  BY JobsAssumption
<1>3. PICK at : at = [build |-> "scan", forward |-> "look", patch |-> "rwx"][j.kind]
  OBVIOUS
<1> DEFINE w == [Idle EXCEPT !.job = j, !.n = j.size, !.addr = j.pos, !.at = at]
<1>4. w.at = at /\ w.job = j /\ w.n = j.size /\ w.addr = j.pos /\ w.path = "exec"
  BY DEF Idle
<1>5. Becomes(t, w)
  BY <1>1, <1>3
<1> HIDE DEF w
<1>6. threads'[t] = w /\ Others(t)
  BY <1>5, Became
<1>7. Grown' /\ ~crashed' /\ maps' = maps
  BY PagesAsTheyWere, Standing DEF Begin, Orderly
<1>8. \A u \in Threads \ {t} : threads'[u].at = "idle"
  BY <1>6 DEF Begin, Others
<1>9. Doing(t)'
  <2>1. CASE j.kind = "build"
    <3>1. threads'[t].at = "scan" /\ threads'[t].path = "exec" /\ Job(t)'.kind = "build"
      BY <1>3, <1>4, <1>6, <2>1 DEF Job
    <3>2. QED
      BY <3>1 DEF Doing
  <2>2. CASE j.kind = "forward"
    <3>1. threads'[t].at = "look"
      BY <1>3, <1>4, <1>6, <2>2
    <3>2. QED
      BY <3>1 DEF Doing
  <2>3. CASE j.kind = "patch"
    <3>1. /\ threads'[t].at = "rwx" /\ threads'[t].addr = j.pos /\ threads'[t].n = j.size
          /\ Job(t)' = j
      BY <1>3, <1>4, <1>6, <2>3 DEF Job
    <3>2. j.pos \in Nat /\ j.pos \in j.pos..(j.pos + j.size - 1)
            /\ j.pos + j.size - 1 \in j.pos..(j.pos + j.size - 1)
      BY <1>2, SizeAssumption DEF Work
    <3>3. \A a \in {j.pos, j.pos + j.size - 1} : PageOf(a) \in Text
      BY <2>3, <3>2, JobsAssumption DEF PageOf
    <3>4. WrittenPages(t)' = {PageOf(j.pos), PageOf(j.pos + j.size - 1)}
      BY <3>1 DEF WrittenPages, PageOf
    <3>5. \A p \in WrittenPages(t)' : p \in Mapped'
      BY <1>7, <3>3, <3>4 DEF Orderly, Grown, Ground, Mapped
    <3>6. Target(t)'
      BY <2>3, <3>1, <3>2, <3>5 DEF Target
    <3>7. QED
      BY <3>1, <3>6 DEF Doing
  <2>4. QED
    BY <1>2, <2>1, <2>2, <2>3 DEF Work
<1>10. Alone'
  BY <1>8 DEF Alone
<1>11. ASSUME NEW u \in Threads PROVE Doing(u)'
  BY <1>8, <1>9 DEF Doing
<1>12. QED
  BY <1>7, <1>10, <1>11 DEF Orderly

LEMMA OrderlyLook ==
    ASSUME Typed, Orderly, NEW t \in Threads, LookInArenas(t)
    PROVE  Orderly'
<1>1. /\ threads[t] \in Working /\ code_arenas \in Seq(ArenaRecord)
      /\ Grown /\ Alone /\ threads[t].at = "look"
  BY DEF Typed, TypeOK, Orderly, LookInArenas, At, ArenaRecord
<1>2. Grown' /\ ~crashed'
  BY <1>1, PagesAsTheyWere, Standing DEF LookInArenas, Orderly
<1>3. CASE Goes(t, "layout")
  <2>1. threads'[t].at = "layout" /\ Others(t)
    BY <1>3, Going
  <2>2. Doing(t)'
    BY <2>1 DEF Doing
  <2>3. QED
    BY <1>1, <1>2, <2>1, <2>2, TakesTurn
<1>4. ASSUME NEW k \in DOMAIN code_arenas, UnusedIn(code_arenas[k], t) # 0,
             Becomes(t, [threads[t] EXCEPT !.at = "skip", !.path = "default", !.k = k,
                                          !.addr = UnusedIn(code_arenas[k], t)])
      PROVE  Orderly'
  <2> DEFINE arena == code_arenas[k]
  <2>1. PICK a : a = UnusedIn(arena, t)
    OBVIOUS
  <2> DEFINE w == [threads[t] EXCEPT !.at = "skip", !.path = "default", !.k = k, !.addr = a]
  <2>2. /\ w.at = "skip" /\ w.k = k /\ w.addr = a /\ w.n = threads[t].n
        /\ w.job = threads[t].job
    BY <1>1 DEF Working
  <2>3. Becomes(t, w)
    BY <1>4, <2>1
  <2> HIDE DEF w
  <2>4. threads'[t] = w /\ Others(t)
    BY <2>3, Became
  <2>5. arena \in ArenaRecord
    BY <1>1
  <2>6. /\ arena.cursor_addr <= a /\ a + threads[t].n <= End(arena)
        /\ InReach(a, threads[t].n, threads[t].job.pos)
    <3>1. arena.cursor_addr \in Nat /\ arena.addr + arena.size \in Nat
      BY <2>5 DEF ArenaRecord
    <3>2. QED
      BY <1>1, <1>4, <2>1, <3>1, UnusedFacts DEF UnusedIn, End
  <2>7. Arena(t)' = arena /\ Job(t)' = threads[t].job
    BY <2>2, <2>4 DEF Arena, Job, LookInArenas
  <2>8. Ahead(t)'
    BY <2>2, <2>4, <2>6, <2>7 DEF Ahead, End, InReach
  <2>9. Doing(t)'
    BY <2>2, <2>4, <2>8 DEF Doing
  <2>10. QED
    BY <1>1, <1>2, <2>4, <2>9, TakesTurn
<1>5. QED
  BY <1>3, <1>4 DEF LookInArenas

LEMMA OrderlyLayout ==
    ASSUME Typed, Orderly, NEW t \in Threads, GetProcessMemoryLayout(t)
    PROVE  Orderly'
<1>1. threads[t] \in Working /\ Grown /\ Alone /\ threads[t].at = "layout"
  BY DEF Typed, TypeOK, Orderly, GetProcessMemoryLayout, At
<1>2. Grown' /\ ~crashed' /\ maps' = maps
  BY <1>1, PagesAsTheyWere, Standing DEF GetProcessMemoryLayout, Orderly
<1> DEFINE w == [threads[t] EXCEPT !.at = "map", !.seen = Mapped]
<1>3. w.at = "map" /\ w.seen = Mapped
  BY <1>1 DEF Working
<1>4. Becomes(t, w)
  BY DEF GetProcessMemoryLayout
<1> HIDE DEF w
<1>5. threads'[t] = w /\ Others(t)
  BY <1>4, Became
<1>6. \A p \in Pages : Dobbys(p)' => p \in threads'[t].seen
  BY <1>2, <1>3, <1>5 DEF Dobbys, Mapped, Unmapped
<1>7. Doing(t)'
  BY <1>3, <1>5, <1>6 DEF Doing
<1>8. QED
  BY <1>1, <1>2, <1>5, <1>7, TakesTurn

\* New pages, none of which is Dobby's yet, are apart from every arena.
LEMMA RunsApart ==
    ASSUME Ground, NEW f \in Pages, NEW l \in Pages, f <= l,
           \A p \in f..l : ~Dobbys(p), NEW k \in DOMAIN code_arenas
    PROVE  Base(l) + PageSize <= code_arenas[k].addr \/ End(code_arenas[k]) <= Base(f)
<1>1. PICK g, m \in Pages : Spans(code_arenas[k], g, m) /\ \A p \in g..m : Dobbys(p)
  BY DEF Ground, Solid
<1>2. f \in Nat /\ l \in Nat /\ g \in Nat /\ m \in Nat /\ g <= m
  BY <1>1, PagesAssumption DEF Spans
<1>3. f..l \cap g..m = {}
  BY <1>1
<1>4. l < g \/ m < f
  <2>1. f \notin g..m /\ g \notin f..l
    BY <1>2, <1>3
  <2>2. QED
    BY <1>2, <2>1
<1>5. l < g => Base(l) + PageSize <= Base(g)
  BY <1>2, BaseOrder
<1>6. m < f => Base(m) + PageSize <= Base(f)
  BY <1>2, BaseOrder
<1>7. QED
  BY <1>1, <1>4, <1>5, <1>6 DEF Spans

LEMMA OrderlyNewArena ==
    ASSUME Typed, Orderly, NEW t \in Threads, NewArena(t)
    PROVE  Orderly'
<1>1. /\ threads[t] \in Working /\ Grown /\ Alone /\ threads[t].at = "scan"
      /\ threads[t].path = "exec" /\ Job(t).kind # "forward"
  BY DEF Typed, TypeOK, Orderly, Doing, NewArena, At
<1>2. PICK p \in Pages \ Mapped :
        /\ maps' = [maps EXCEPT ![p] = [owner |-> "dobby", perm |-> "rx"]]
        /\ Becomes(t, [threads[t] EXCEPT !.at = "register", !.run = {p}])
  BY DEF NewArena
<1> DEFINE w == [threads[t] EXCEPT !.at = "register", !.run = {p}]
<1>3. /\ w.at = "register" /\ w.run = {p} /\ w.path = threads[t].path
      /\ w.job = threads[t].job
  BY <1>1 DEF Working
<1>4. Becomes(t, w)
  BY <1>2
<1> HIDE DEF w
<1>5. threads'[t] = w /\ Others(t)
  BY <1>4, Became
<1>6. /\ maps'[p] = [owner |-> "dobby", perm |-> "rx"]
      /\ \A q \in Pages \ {p} : maps'[q] = maps[q]
  BY <1>2 DEF Typed, TypeOK
<1>7. Lasting
  <2>1. \A q \in Pages : Dobbys(q) => maps'[q].owner = "dobby"
    BY <1>6 DEF Dobbys
  <2>2. \A q \in Mapped : q \in Mapped'
    BY <1>2, <1>6 DEF Mapped
  <2>3. QED
    BY <2>1, <2>2 DEF Lasting, NewArena
<1>8. Grown' /\ ~crashed'
  BY <1>1, <1>7, Standing DEF NewArena, Orderly
<1>9. ~Dobbys(p)
  BY <1>2 DEF Mapped, Unmapped, Dobbys
<1>10. p <= p /\ p..p = {p}
  BY PageFacts
<1>11. NewPages(t)'
  <2>1. \A k \in DOMAIN code_arenas' :
           Base(p) + PageSize <= code_arenas'[k].addr \/ End(code_arenas'[k]) <= Base(p)
    <3>1. \A k \in DOMAIN code_arenas :
             Base(p) + PageSize <= code_arenas[k].addr \/ End(code_arenas[k]) <= Base(p)
      BY <1>1, <1>9, <1>10, RunsApart DEF Grown
    <3>2. QED
      BY <3>1 DEF NewArena
  <2>2. threads'[t].run = p..p /\ threads'[t].path = "exec" /\ Job(t)'.kind # "forward"
    BY <1>1, <1>3, <1>5, <1>10 DEF Job
  <2>3. QED
    BY <1>10, <2>1, <2>2 DEF NewPages, End
<1>12. Doing(t)'
  <2>1. \A q \in threads'[t].run : Dobbys(q)'
    BY <1>3, <1>5, <1>6 DEF Dobbys
  <2>2. QED
    BY <1>3, <1>5, <1>11, <2>1 DEF Doing
<1>13. QED
  BY <1>1, <1>5, <1>8, <1>12, TakesTurn

LEMMA OrderlyMapFixed ==
    ASSUME Typed, Orderly, NEW t \in Threads, MapFixed(t)
    PROVE  Orderly'
<1>1. /\ threads[t] \in Working /\ Grown /\ Alone /\ threads[t].at = "map" /\ TypeOK
      /\ \A p \in Pages : Dobbys(p) => p \in threads[t].seen
  BY DEF Typed, TypeOK, Orderly, Doing, MapFixed, At
<1>2. PICK g \in Gaps(t), run \in SUBSET Pages :
        /\ Found(g, t) # 0
        /\ run = RunOf(Found(g, t), threads[t].n)
        /\ maps' = [p \in Pages |-> IF p \in run THEN [owner |-> "dobby", perm |-> "none"]
                                    ELSE maps[p]]
        /\ abutted' = (abutted \/ g[2] \in run)
        /\ Becomes(t, [threads[t] EXCEPT !.at = "register", !.path = "region",
                                        !.addr = Found(g, t), !.run = run])
  BY DEF MapFixed, RunOf
<1>3. PICK a \in Nat : a = Found(g, t)
  BY <1>1, <1>2, GapFacts
<1>4. PICK f, l \in Pages :
        f <= l /\ run = f..l /\ Holds(f, l, a, threads[t].n, threads[t].job.pos)
  BY <1>1, <1>2, <1>3, GapFacts
<1>5. \A p \in run \cap threads[t].seen : p = g[2]
  BY <1>1, <1>2, GapFacts
<1> DEFINE w == [threads[t] EXCEPT !.at = "register", !.path = "region",
                                  !.addr = a, !.run = run]
<1>6. /\ w.at = "register" /\ w.path = "region" /\ w.addr = a /\ w.run = run
      /\ w.n = threads[t].n /\ w.job = threads[t].job
  BY <1>1 DEF Working
<1>7. Becomes(t, w)
  BY <1>2, <1>3
<1> HIDE DEF w
<1>8. threads'[t] = w /\ Others(t)
  BY <1>7, Became
<1>9. \A p \in Pages : maps'[p] = IF p \in run THEN [owner |-> "dobby", perm |-> "none"]
                                  ELSE maps[p]
  BY <1>2
<1>10. Lasting
  <2>1. \A q \in Pages : Dobbys(q) => maps'[q].owner = "dobby"
    BY <1>9 DEF Dobbys
  <2>2. \A q \in Mapped : q \in Mapped'
    BY <1>9 DEF Mapped, Unmapped
  <2>3. abutted => abutted'
    BY <1>2
  <2>4. QED
    BY <2>1, <2>2, <2>3 DEF Lasting
<1>11. Grown' /\ ~crashed'
  BY <1>1, <1>10, Standing DEF MapFixed, Orderly
<1>12. NewPages(t)'
  <2>1. abutted' \/ \A k \in DOMAIN code_arenas' :
           Base(l) + PageSize <= code_arenas'[k].addr \/ End(code_arenas'[k]) <= Base(f)
    <3>1. SUFFICES ASSUME ~abutted'
                   PROVE  \A k \in DOMAIN code_arenas : Base(l) + PageSize <= code_arenas[k].addr
                             \/ End(code_arenas[k]) <= Base(f)
      BY DEF MapFixed
    <3>2. g[2] \notin run
      BY <1>2, <3>1
    <3>3. \A p \in f..l : ~Dobbys(p)
      BY <1>1, <1>4, <1>5, <3>2
    <3>4. QED
      BY <1>1, <1>4, <3>3, RunsApart DEF Grown
  <2>2. /\ threads'[t].run = f..l /\ threads'[t].path = "region"
        /\ Holds(f, l, threads'[t].addr, threads'[t].n, Job(t)'.pos)
    BY <1>4, <1>6, <1>8 DEF Job
  <2>3. QED
    BY <1>4, <2>1, <2>2 DEF NewPages, End, Holds, Base, InReach
<1>13. Doing(t)'
  <2>1. \A q \in threads'[t].run : Dobbys(q)'
    BY <1>6, <1>8, <1>9 DEF Dobbys
  <2>2. QED
    BY <1>6, <1>8, <1>12, <2>1 DEF Doing
<1>14. QED
  BY <1>1, <1>8, <1>11, <1>13, TakesTurn

LEMMA OrderlyNoneNear ==
    ASSUME Typed, Orderly, NEW t \in Threads, NoneNear(t)
    PROVE  Orderly'
<1>1. Grown' /\ ~crashed' /\ threads[t].at # "idle" /\ Becomes(t, Idle)
  BY PagesAsTheyWere, Standing DEF NoneNear, Orderly, At
<1>2. QED
  BY <1>1, Rests

LEMMA OrderlyRegister ==
    ASSUME Typed, Orderly, NEW t \in Threads, Register(t)
    PROVE  Orderly'
<1>1. /\ threads[t] \in Working /\ code_arenas \in Seq(ArenaRecord)
      /\ Grown /\ Alone /\ threads[t].at = "register" /\ NewPages(t)
      /\ \A p \in threads[t].run : Dobbys(p)
  BY DEF Typed, TypeOK, Orderly, Doing, Register, At, ArenaRecord
<1>2. PICK f, l \in Pages :
        /\ f <= l /\ threads[t].run = f..l
        /\ abutted \/ \A k \in DOMAIN code_arenas :
              Base(l) + PageSize <= code_arenas[k].addr \/ End(code_arenas[k]) <= Base(f)
        /\ \/ threads[t].path = "exec" /\ Job(t).kind # "forward"
           \/ threads[t].path = "region" /\ Holds(f, l, threads[t].addr, threads[t].n, Job(t).pos)
  BY <1>1 DEF NewPages
<1>3. PICK arena \in ArenaRecord : arena = ArenaOf(f..l)
  BY <1>2, ArenaFacts
<1>4. arena.addr = Base(f) /\ arena.cursor_addr = Base(f) /\ End(arena) = Base(l) + PageSize
  BY <1>2, <1>3, ArenaFacts DEF End
<1>5. PICK last \in Nat : last = Len(code_arenas) + 1
  BY <1>1, LenProperties
<1>6. /\ code_arenas' = Append(code_arenas, arena) /\ DOMAIN code_arenas' = 1..last
      /\ DOMAIN code_arenas = 1..(last - 1) /\ code_arenas'[last] = arena
      /\ \A k \in 1..(last - 1) : code_arenas'[k] = code_arenas[k]
  <2>1. code_arenas' = Append(code_arenas, arena)
    BY <1>2, <1>3 DEF Register
  <2>2. QED
    BY <1>1, <1>5, <2>1, AppendProperties, LenProperties
<1>7. /\ UNCHANGED <<maps, blocks, abutted>> /\ ~crashed'
  BY DEF Register, Orderly
<1>8. Solid(arena)
  <2>1. /\ Base(f) \in Nat /\ Base(l) \in Nat
        /\ Base(f) <= Base(l) + PageSize
    <3>1. f \in Nat /\ l \in Nat /\ Base(f) \in Nat /\ Base(l) \in Nat
      BY PageFacts
    <3>2. f < l => Base(f) + PageSize <= Base(l)
      BY <3>1, BaseOrder
    <3>3. QED
      BY <1>2, <3>1, <3>2, SizeAssumption
  <2>2. QED
    BY <1>1, <1>2, <1>4, <2>1 DEF Solid, Spans
<1>9. Ground'
  <2>1. ASSUME NEW k \in DOMAIN code_arenas' PROVE Solid(code_arenas[k])'
    <3>1. Solid(code_arenas'[k])
      <4>1. CASE k = last
        BY <1>6, <1>8, <4>1
      <4>2. CASE k # last
        <5>1. k \in 1..(last - 1)
          BY <1>6, <2>1, <4>2
        <5>2. QED
          BY <1>1, <1>6, <5>1 DEF Grown, Ground
      <4>3. QED
        BY <4>1, <4>2
    <3>2. QED
      BY <1>7, <3>1 DEF Solid, Dobbys, Spans, End
  <2>2. QED
    BY <1>1, <1>7, <2>1 DEF Grown, Ground, Mapped
<1>10. Apart'
  <2>1. SUFFICES ASSUME ~abutted PROVE Apart'
    BY <1>7 DEF Apart
  <2>2. \A k \in 1..(last - 1) :
           Disjoint(code_arenas[k], arena) /\ Disjoint(arena, code_arenas[k])
    BY <1>2, <1>4, <1>6, <2>1 DEF Disjoint, End
  <2>3. ASSUME NEW k \in 1..last, NEW m \in 1..last, k # m
        PROVE  Disjoint(code_arenas'[k], code_arenas'[m])
    <3>1. CASE k = last
      BY <1>6, <2>2, <2>3, <3>1
    <3>2. CASE m = last
      BY <1>6, <2>2, <2>3, <3>2
    <3>3. CASE k # last /\ m # last
      <4>1. k \in 1..(last - 1) /\ m \in 1..(last - 1)
        BY <3>3
      <4>2. QED
        BY <1>1, <1>6, <2>1, <2>3, <4>1 DEF Grown, Apart
    <3>4. QED
      BY <3>1, <3>2, <3>3
  <2>4. \A m, n \in DOMAIN blocks' : m # n => Disjoint(blocks'[m], blocks'[n])
    BY <1>1, <1>7, <2>1 DEF Grown, Apart
  <2>5. QED
    BY <1>6, <2>3, <2>4 DEF Apart, Disjoint
<1>11. Placed'
  <2>1. ASSUME NEW m \in DOMAIN blocks
        PROVE  \E k \in DOMAIN code_arenas' : Filled(blocks[m], code_arenas'[k])
    <3>1. PICK k \in DOMAIN code_arenas : Filled(blocks[m], code_arenas[k])
      BY <1>1, <2>1 DEF Grown, Placed
    <3>2. k \in DOMAIN code_arenas' /\ code_arenas'[k] = code_arenas[k]
      BY <1>6, <3>1
    <3>3. QED
      BY <3>1, <3>2
  <2>2. QED
    BY <1>1, <1>7, <2>1 DEF Grown, Placed, Filled
<1>12. PICK at : at = IF threads[t].path = "region" THEN "protect" ELSE "check"
  OBVIOUS
<1> DEFINE w == [threads[t] EXCEPT !.k = last, !.at = at]
<1>13. /\ w.at = at /\ w.k = last /\ w.n = threads[t].n /\ w.job = threads[t].job
       /\ w.addr = threads[t].addr /\ w.run = threads[t].run
  BY <1>1 DEF Working
<1>14. Becomes(t, w)
  BY <1>5, <1>12 DEF Register
<1> HIDE DEF w
<1>15. threads'[t] = w /\ Others(t)
  BY <1>14, Became
<1>16. Arena(t)' = arena /\ Job(t)' = Job(t)
  BY <1>6, <1>13, <1>15 DEF Arena, Job
<1>17. Doing(t)'
  <2>1. threads[t].n \in Nat /\ threads[t].n <= PageSize
    BY <1>1, Tasks
  <2>2. CASE threads[t].path = "region"
    <3>1. threads'[t].at = "protect"
      BY <1>12, <1>13, <1>15, <2>2
    <3>2. Holds(f, l, threads[t].addr, threads[t].n, Job(t).pos)
      BY <1>2, <2>2
    <3>3. /\ arena.cursor_addr <= threads[t].addr
          /\ threads[t].addr + threads[t].n <= End(arena)
          /\ InReach(threads[t].addr, threads[t].n, Job(t).pos)
      <4>1. threads[t].addr \in Int /\ Base(l) + PageSize \in Nat
        BY <1>1, PageFacts, SizeAssumption DEF Working
      <4>2. QED
        BY <1>4, <2>1, <3>2, <4>1 DEF Holds
    <3>4. Ahead(t)'
      BY <1>13, <1>15, <1>16, <3>3 DEF Ahead, End, InReach
    <3>5. \A p \in threads'[t].run : Dobbys(p)'
      BY <1>1, <1>7, <1>13, <1>15 DEF Dobbys
    <3>6. QED
      BY <3>1, <3>4, <3>5 DEF Doing
  <2>3. CASE threads[t].path # "region"
    <3>1. threads'[t].at = "check" /\ Job(t).kind # "forward"
      BY <1>2, <1>12, <1>13, <1>15, <2>3
    <3>2. arena.cursor_addr + threads[t].n <= End(arena)
      <4>1. f \in Nat /\ l \in Nat /\ Base(f) \in Nat /\ Base(l) \in Nat
        BY PageFacts
      <4>2. f < l => Base(f) + PageSize <= Base(l)
        BY <4>1, BaseOrder
      <4>3. QED
        BY <1>2, <1>4, <2>1, <4>1, <4>2, SizeAssumption
    <3>3. Room(t)'
      BY <1>13, <1>15, <1>16, <3>1, <3>2 DEF Room, End
    <3>4. QED
      BY <3>1, <3>3 DEF Doing
  <2>4. QED
    BY <2>2, <2>3
<1>18. QED
  BY <1>1, <1>7, <1>9, <1>10, <1>11, <1>15, <1>17, TakesTurn DEF Grown

LEMMA OrderlyProtectArena ==
    ASSUME Typed, Orderly, NEW t \in Threads, ProtectArena(t)
    PROVE  Orderly'
<1>1. Grown /\ Alone /\ Doing(t) /\ threads[t].at = "protect" /\ ~crashed
  BY DEF Orderly, ProtectArena, At
<1>2. Grown' /\ ~crashed'
  BY <1>1, ProtectLasts, Standing DEF ProtectArena
<1>3. threads'[t].at = "skip" /\ SameWork(t) /\ Others(t)
  BY Going DEF ProtectArena
<1>4. Ahead(t)'
  BY <1>1, <1>3 DEF Doing, Ahead, Arena, Job, SameWork, End, InReach, ProtectArena
<1>5. Doing(t)'
  BY <1>3, <1>4 DEF Doing
<1>6. QED
  BY <1>1, <1>2, <1>3, <1>5, TakesTurn

LEMMA OrderlySkip ==
    ASSUME Typed, Orderly, NEW t \in Threads, Skip(t)
    PROVE  Orderly'
<1>1. /\ threads[t] \in Working /\ Grown /\ Alone /\ Doing(t) /\ ~crashed
      /\ threads[t].at = "skip" /\ Ahead(t)
  BY DEF Typed, TypeOK, Orderly, Doing, Skip, At
<1>2. Grown' /\ ~crashed'
  BY <1>1, PagesAsTheyWere, Standing DEF Skip
<1>3. Arena(t) \in ArenaRecord /\ Solid(Arena(t))
  BY <1>1, Hand DEF InHand
<1>4. /\ Arena(t).cursor_addr \in Nat /\ End(Arena(t)) \in Nat /\ End(Arena(t)) < Width
      /\ threads[t].addr \in Int /\ threads[t].n \in Nat
  BY <1>1, <1>3, ArenaBounds, Tasks DEF Working
<1>5. PICK hole \in Nat : hole = threads[t].addr - Arena(t).cursor_addr /\ hole < Width
  <2>1. /\ threads[t].addr - Arena(t).cursor_addr \in Nat
        /\ threads[t].addr - Arena(t).cursor_addr < Width
    BY <1>1, <1>4, SizeAssumption DEF Ahead
  <2>2. QED
    BY <2>1
<1>6. Arena(t).cursor_addr + hole <= End(Arena(t))
  BY <1>1, <1>4, <1>5 DEF Ahead
<1>7. Fits(Arena(t), hole)
  BY <1>3, <1>5, <1>6, FitsFacts
<1> DEFINE w == [threads[t] EXCEPT !.hole = hole, !.at = "skipped"]
<1>8. /\ w.at = "skipped" /\ w.hole = hole /\ w.k = threads[t].k /\ w.addr = threads[t].addr
      /\ w.n = threads[t].n /\ w.job = threads[t].job
  BY <1>1 DEF Working
<1>9. Becomes(t, w)
  BY <1>5, <1>7 DEF Skip
<1> HIDE DEF w
<1>10. threads'[t] = w /\ Others(t)
  BY <1>9, Became
<1>11. Arena(t)' = Arena(t) /\ Job(t)' = Job(t)
  BY <1>8, <1>10 DEF Arena, Job, Skip
<1>12. Ahead(t)'
  BY <1>1, <1>8, <1>10, <1>11 DEF Ahead, End, InReach
<1>13. threads'[t].hole = threads'[t].addr - Arena(t)'.cursor_addr
  BY <1>5, <1>8, <1>10, <1>11
<1>14. Doing(t)'
  BY <1>8, <1>10, <1>12, <1>13 DEF Doing
<1>15. QED
  BY <1>1, <1>2, <1>10, <1>14, TakesTurn

\* The cursor of the arena in hand moves by n, and nothing else does.
LEMMA Bumped ==
    ASSUME Typed, Grown, NEW t \in Threads, threads[t].at \in InHand, NEW n \in Nat,
           Arena(t).cursor_addr + n <= End(Arena(t)),
           NEW read, read = Arena(t).cursor_addr, Bump(t, n, read),
           UNCHANGED <<maps, abutted>>
    PROVE  /\ DOMAIN code_arenas' = DOMAIN code_arenas
           /\ \A k \in DOMAIN code_arenas :
                 /\ code_arenas'[k].addr = code_arenas[k].addr
                 /\ code_arenas'[k].size = code_arenas[k].size
                 /\ code_arenas[k].cursor_addr <= code_arenas'[k].cursor_addr
           /\ code_arenas'[threads[t].k].cursor_addr = Arena(t).cursor_addr + n
           /\ Ground'
           /\ \A m \in DOMAIN blocks : \E k \in DOMAIN code_arenas :
                 Filled(blocks[m], code_arenas'[k])
<1>1. /\ code_arenas \in Seq(ArenaRecord)
      /\ \A k \in DOMAIN code_arenas : code_arenas[k] \in ArenaRecord
      /\ \A m \in DOMAIN blocks : blocks[m] \in BlockRecord
  <2>1. code_arenas \in Seq(ArenaRecord) /\ blocks \in Seq(BlockRecord)
    BY DEF Typed, TypeOK, ArenaRecord, BlockRecord
  <2>2. QED
    BY <2>1
<1> DEFINE k0 == threads[t].k
<1>2. k0 \in DOMAIN code_arenas /\ Arena(t) = code_arenas[k0] /\ Solid(Arena(t))
  BY Hand
<1>3. PICK c \in Nat : c = Arena(t).cursor_addr + n /\ c < Width
  <2>1. /\ Arena(t).cursor_addr \in Nat /\ End(Arena(t)) \in Nat /\ End(Arena(t)) < Width
    BY <1>1, <1>2, ArenaBounds
  <2>2. Arena(t).cursor_addr + n \in Nat /\ Arena(t).cursor_addr + n < Width
    BY <2>1, SizeAssumption
  <2>3. QED
    BY <2>2
<1>4. code_arenas' = [code_arenas EXCEPT ![k0].cursor_addr = c]
  <2>1. c % Width = c
    BY <1>3, Unwrapped
  <2>2. code_arenas' = [code_arenas EXCEPT ![k0].cursor_addr = (Arena(t).cursor_addr + n) % Width]
    BY DEF Bump
  <2>3. QED
    BY <1>3, <2>1, <2>2
<1> HIDE DEF k0
<1>5. /\ DOMAIN code_arenas' = DOMAIN code_arenas
      /\ code_arenas'[k0] = [code_arenas[k0] EXCEPT !.cursor_addr = c]
      /\ \A k \in DOMAIN code_arenas : k # k0 => code_arenas'[k] = code_arenas[k]
  BY <1>1, <1>2, <1>4
<1>6. /\ code_arenas'[k0].addr = code_arenas[k0].addr
      /\ code_arenas'[k0].size = code_arenas[k0].size
      /\ code_arenas'[k0].cursor_addr = c
  BY <1>1, <1>2, <1>5 DEF ArenaRecord
<1>7. code_arenas[k0].cursor_addr \in Nat /\ code_arenas[k0].cursor_addr <= c
  BY <1>1, <1>2, <1>3 DEF ArenaRecord
<1>8. ASSUME NEW k \in DOMAIN code_arenas
      PROVE  /\ code_arenas'[k].addr = code_arenas[k].addr
             /\ code_arenas'[k].size = code_arenas[k].size
             /\ code_arenas[k].cursor_addr <= code_arenas'[k].cursor_addr
             /\ code_arenas[k].cursor_addr \in Nat /\ code_arenas'[k].cursor_addr \in Nat
             /\ code_arenas'[k].cursor_addr <= End(code_arenas[k])
  <2>1. CASE k = k0
    BY <1>2, <1>3, <1>6, <1>7, <2>1
  <2>2. CASE k # k0
    <3>1. code_arenas'[k] = code_arenas[k] /\ code_arenas[k] \in ArenaRecord
      BY <1>1, <1>5, <2>2
    <3>2. Solid(code_arenas[k])
      BY DEF Grown, Ground
    <3>3. QED
      BY <3>1, <3>2, ArenaBounds
  <2>3. QED
    BY <2>1, <2>2
<1>9. Ground'
  <2>1. ASSUME NEW k \in DOMAIN code_arenas PROVE Solid(code_arenas[k])'
    <3>1. Solid(code_arenas[k]) /\ code_arenas[k] \in ArenaRecord
      BY <1>1 DEF Grown, Ground
    <3>2. PICK f, l \in Pages : Spans(code_arenas[k], f, l) /\ \A p \in f..l : Dobbys(p)
      BY <3>1 DEF Solid
    <3>3. /\ End(code_arenas'[k]) = End(code_arenas[k])
          /\ code_arenas'[k].addr = code_arenas[k].addr
      BY <1>8 DEF End
    <3>4. Spans(code_arenas'[k], f, l)
      BY <3>2, <3>3 DEF Spans
    <3>5. /\ code_arenas'[k].addr <= code_arenas'[k].cursor_addr
          /\ code_arenas'[k].cursor_addr <= End(code_arenas'[k])
      <4>1. code_arenas[k].addr \in Nat /\ code_arenas[k].addr <= code_arenas[k].cursor_addr
        BY <3>1, ArenaBounds
      <4>2. QED
        BY <1>8, <3>3, <4>1
    <3>6. QED
      BY <3>2, <3>4, <3>5 DEF Solid, Spans, End, Dobbys
  <2>2. QED
    BY <1>5, <2>1 DEF Ground, Grown, Mapped
<1>10. ASSUME NEW m \in DOMAIN blocks
       PROVE  \E k \in DOMAIN code_arenas : Filled(blocks[m], code_arenas'[k])
  <2>1. PICK k \in DOMAIN code_arenas : Filled(blocks[m], code_arenas[k])
    BY DEF Grown, Placed
  <2>2. blocks[m].addr \in Nat /\ blocks[m].size \in Nat
    BY <1>1 DEF BlockRecord
  <2>3. Filled(blocks[m], code_arenas'[k])
    BY <1>8, <2>1, <2>2 DEF Filled
  <2>4. QED
    BY <2>3
<1>11. QED
  <2>1. code_arenas'[threads[t].k].cursor_addr = Arena(t).cursor_addr + n
    BY <1>3, <1>6 DEF k0
  <2>2. QED
    BY <1>5, <1>8, <1>9, <1>10, <2>1

LEMMA OrderlySkipped ==
    ASSUME Typed, Orderly, NEW t \in Threads, Skipped(t)
    PROVE  Orderly'
<1>1. /\ threads[t] \in Working /\ Grown /\ Alone /\ ~crashed
      /\ threads[t].at = "skipped" /\ Ahead(t)
      /\ threads[t].hole = threads[t].addr - Arena(t).cursor_addr
  BY DEF Typed, TypeOK, Orderly, Doing, Skipped, At
<1>2. threads[t].k \in DOMAIN code_arenas /\ Arena(t) = code_arenas[threads[t].k]
        /\ Arena(t) \in ArenaRecord /\ Solid(Arena(t))
  BY <1>1, Hand DEF InHand
<1>3. /\ Arena(t).cursor_addr \in Nat /\ End(Arena(t)) \in Nat
      /\ threads[t].addr \in Int /\ threads[t].n \in Nat
  BY <1>1, <1>2, ArenaBounds, Tasks DEF Working
<1>4. /\ threads[t].hole \in Nat
      /\ Arena(t).cursor_addr + threads[t].hole = threads[t].addr
      /\ Arena(t).cursor_addr + threads[t].hole <= End(Arena(t))
      /\ threads[t].addr - threads[t].hole = Arena(t).cursor_addr
  BY <1>1, <1>3 DEF Ahead
<1>5. Bump(t, threads[t].hole, threads[t].addr - threads[t].hole)
        /\ UNCHANGED <<maps, blocks, abutted, crashed>>
  BY DEF Skipped
<1>6. threads[t].at \in InHand
  BY <1>1 DEF InHand
<1>7. /\ DOMAIN code_arenas' = DOMAIN code_arenas
      /\ \A k \in DOMAIN code_arenas :
            /\ code_arenas'[k].addr = code_arenas[k].addr
            /\ code_arenas'[k].size = code_arenas[k].size
      /\ code_arenas'[threads[t].k].cursor_addr = threads[t].addr
      /\ Ground'
      /\ \A m \in DOMAIN blocks : \E k \in DOMAIN code_arenas :
            Filled(blocks[m], code_arenas'[k])
  BY <1>1, <1>4, <1>5, <1>6, Bumped
<1>8. Apart'
  BY <1>1, <1>5, <1>7 DEF Grown, Apart, Disjoint
<1>9. Placed'
  BY <1>1, <1>5, <1>7 DEF Grown, Placed, Filled
<1>10. threads'[t].at = "check" /\ SameWork(t) /\ Others(t)
  BY Going DEF Skipped
<1>11. /\ Arena(t)'.cursor_addr = threads[t].addr
       /\ Arena(t)'.addr = Arena(t).addr /\ Arena(t)'.size = Arena(t).size
       /\ Job(t)' = Job(t)
  BY <1>2, <1>7, <1>10 DEF Arena, Job, SameWork
<1>12. Room(t)'
  BY <1>1, <1>10, <1>11 DEF Room, Ahead, End, SameWork, InReach
<1>13. Doing(t)'
  BY <1>10, <1>12 DEF Doing
<1>14. QED
  BY <1>1, <1>5, <1>7, <1>8, <1>9, <1>10, <1>13, TakesTurn DEF Grown

LEMMA RoomFits ==
    ASSUME Typed, Grown, NEW t \in Threads, threads[t].at \in InHand, Room(t)
    PROVE  Fits(Arena(t), threads[t].n)
<1>1. Arena(t) \in ArenaRecord /\ Solid(Arena(t)) /\ threads[t] \in Working
  BY Hand DEF Typed, TypeOK
<1>2. threads[t].n \in Nat /\ threads[t].n < Width
  <2>1. threads[t].n \in Nat /\ threads[t].n <= PageSize
    BY <1>1, Tasks
  <2>2. PageSize <= End(Arena(t)) /\ End(Arena(t)) < Width /\ End(Arena(t)) \in Nat
    BY <1>1, ArenaBounds
  <2>3. QED
    BY <2>1, <2>2, SizeAssumption
<1>3. QED
  BY <1>1, <1>2, FitsFacts DEF Room

LEMMA OrderlyCheck ==
    ASSUME Typed, Orderly, NEW t \in Threads, Check(t)
    PROVE  Orderly'
<1>1. Grown /\ Alone /\ threads[t].at = "check" /\ Room(t) /\ ~crashed
  BY DEF Orderly, Doing, Check, At
<1>2. Fits(Arena(t), threads[t].n)
  BY <1>1, RoomFits DEF InHand
<1>3. Goes(t, "cut") /\ UNCHANGED crashed
  BY <1>2 DEF Check
<1>4. Grown' /\ ~crashed'
  BY <1>1, <1>3, PagesAsTheyWere, Standing DEF Check
<1>5. threads'[t].at = "cut" /\ SameWork(t) /\ Others(t)
  BY <1>3, Going
<1>6. Room(t)'
  BY <1>1, <1>5 DEF Room, Arena, Job, End, SameWork, InReach, Check
<1>7. Doing(t)'
  BY <1>5, <1>6 DEF Doing
<1>8. QED
  BY <1>1, <1>4, <1>5, <1>7, TakesTurn

LEMMA OrderlyCut ==
    ASSUME Typed, Orderly, NEW t \in Threads, Cut(t)
    PROVE  Orderly'
<1>1. /\ threads[t] \in Working /\ Grown /\ Alone /\ threads[t].at = "cut" /\ Room(t)
      /\ ~crashed
  BY DEF Typed, TypeOK, Orderly, Doing, Cut, At
<1>2. Grown' /\ ~crashed'
  BY <1>1, PagesAsTheyWere, Standing DEF Cut
<1>3. PICK a : a = Arena(t).cursor_addr
  OBVIOUS
<1> DEFINE w == [threads[t] EXCEPT !.at = "cutting", !.addr = a]
<1>4. /\ w.at = "cutting" /\ w.addr = a /\ w.k = threads[t].k
      /\ w.n = threads[t].n /\ w.job = threads[t].job
  BY <1>1 DEF Working
<1>5. Becomes(t, w)
  BY <1>3 DEF Cut
<1> HIDE DEF w
<1>6. threads'[t] = w /\ Others(t)
  BY <1>5, Became
<1>7. Arena(t)' = Arena(t) /\ Job(t)' = Job(t)
  BY <1>4, <1>6 DEF Arena, Job, Cut
<1>8. Room(t)'
  BY <1>1, <1>4, <1>6, <1>7 DEF Room, End, InReach
<1>9. Doing(t)'
  BY <1>3, <1>4, <1>6, <1>7, <1>8 DEF Doing
<1>10. QED
  BY <1>1, <1>2, <1>6, <1>9, TakesTurn

\* A block is cut at the cursor: behind every block of the arena, and apart
\* from the blocks of the others.
LEMMA OrderlyCutting ==
    ASSUME Typed, Orderly, NEW t \in Threads, Cutting(t)
    PROVE  Orderly'
<1>1. /\ threads[t] \in Working /\ Grown /\ Alone /\ ~crashed
      /\ threads[t].at = "cutting" /\ Room(t)
      /\ threads[t].addr = Arena(t).cursor_addr
      /\ code_arenas \in Seq(ArenaRecord) /\ blocks \in Seq(BlockRecord)
  BY DEF Typed, TypeOK, Orderly, Doing, Cutting, At, ArenaRecord, BlockRecord
<1> DEFINE k0 == threads[t].k
<1>2. k0 \in DOMAIN code_arenas /\ Arena(t) = code_arenas[k0]
        /\ Arena(t) \in ArenaRecord /\ Solid(Arena(t))
  BY <1>1, Hand DEF InHand
<1>3. PICK a \in Nat, n \in Nat :
        /\ a = threads[t].addr /\ n = threads[t].n /\ n # 0
        /\ a = Arena(t).cursor_addr /\ a + n <= End(Arena(t))
        /\ Arena(t).addr \in Nat /\ Arena(t).addr <= a /\ End(Arena(t)) \in Nat
  <2>1. /\ Arena(t).cursor_addr \in Nat /\ threads[t].n \in Nat \ {0}
        /\ Arena(t).addr \in Nat /\ Arena(t).addr <= Arena(t).cursor_addr
        /\ End(Arena(t)) \in Nat
    BY <1>1, <1>2, ArenaBounds, Tasks
  <2>2. QED
    BY <1>1, <2>1 DEF Room
<1>4. PICK b : /\ b = [addr |-> a, size |-> n, near |-> Job(t).kind = "forward",
                       pos |-> Job(t).pos]
               /\ blocks' = Append(blocks, b)
  BY <1>3 DEF Cutting
<1>5. /\ b.addr = a /\ b.size = n /\ b.near = (Job(t).kind = "forward") /\ b.pos = Job(t).pos
  BY <1>4
<1>6. PICK last \in Nat : last = Len(blocks) + 1
  BY <1>1, LenProperties
<1>7. /\ DOMAIN blocks' = 1..last /\ DOMAIN blocks = 1..(last - 1) /\ blocks'[last] = b
      /\ \A m \in 1..(last - 1) : blocks'[m] = blocks[m]
  <2>1. b \in BlockRecord
    <3>1. Job(t).pos \in Nat /\ (Job(t).kind = "forward") \in BOOLEAN
      BY <1>1, Tasks DEF Job
    <3>2. QED
      BY <1>4, <3>1 DEF BlockRecord
  <2>2. QED
    BY <1>1, <1>4, <1>6, <2>1, AppendProperties, LenProperties
<1>8. Bump(t, n, a) /\ UNCHANGED <<maps, abutted, crashed>>
  BY <1>3 DEF Cutting
<1>9. threads[t].at \in InHand
  BY <1>1 DEF InHand
<1>10. /\ DOMAIN code_arenas' = DOMAIN code_arenas
       /\ \A k \in DOMAIN code_arenas :
             /\ code_arenas'[k].addr = code_arenas[k].addr
             /\ code_arenas'[k].size = code_arenas[k].size
       /\ code_arenas'[k0].cursor_addr = a + n
       /\ Ground'
       /\ \A m \in DOMAIN blocks : \E k \in DOMAIN code_arenas :
             Filled(blocks[m], code_arenas'[k])
  BY <1>1, <1>3, <1>8, <1>9, Bumped
<1> HIDE DEF k0
<1>11. ASSUME ~abutted, NEW m \in DOMAIN blocks
       PROVE  Disjoint(blocks[m], b) /\ Disjoint(b, blocks[m])
  <2>1. PICK k \in DOMAIN code_arenas : Filled(blocks[m], code_arenas[k])
    BY <1>1 DEF Grown, Placed
  <2>2. /\ blocks[m].addr \in Nat /\ blocks[m].size \in Nat
    <3>1. blocks[m] \in BlockRecord
      BY <1>1
    <3>2. QED
      BY <3>1 DEF BlockRecord
  <2>3. code_arenas[k] \in ArenaRecord /\ Solid(code_arenas[k])
    BY <1>1 DEF Grown, Ground
  <2>4. /\ code_arenas[k].addr \in Nat /\ End(code_arenas[k]) \in Nat
        /\ code_arenas[k].cursor_addr \in Nat
        /\ code_arenas[k].cursor_addr <= End(code_arenas[k])
    BY <2>3, ArenaBounds
  <2>5. blocks[m].addr + blocks[m].size <= code_arenas[k].cursor_addr
          /\ code_arenas[k].addr <= blocks[m].addr
    BY <2>1 DEF Filled
  <2>6. CASE k = k0
    BY <1>2, <1>3, <1>5, <2>2, <2>5, <2>6 DEF Disjoint
  <2>7. CASE k # k0
    <3>1. \/ End(code_arenas[k]) <= code_arenas[k0].addr
          \/ End(code_arenas[k0]) <= code_arenas[k].addr
      BY <1>1, <1>2, <1>11, <2>7 DEF Grown, Apart, Disjoint, End
    <3>2. blocks[m].addr + blocks[m].size <= a \/ a + n <= blocks[m].addr
      BY <1>2, <1>3, <2>2, <2>4, <2>5, <3>1
    <3>3. QED
      BY <1>5, <3>2 DEF Disjoint
  <2>8. QED
    BY <2>6, <2>7
<1>12. Apart'
  <2>1. SUFFICES ASSUME ~abutted PROVE Apart'
    BY <1>8 DEF Apart
  <2>2. \A k, l \in DOMAIN code_arenas' : k # l => Disjoint(code_arenas'[k], code_arenas'[l])
    BY <1>1, <1>10, <2>1 DEF Grown, Apart, Disjoint
  <2>3. ASSUME NEW m \in 1..last, NEW q \in 1..last, m # q
        PROVE  Disjoint(blocks'[m], blocks'[q])
    <3>1. CASE m = last
      <4>1. q \in DOMAIN blocks
        BY <1>7, <2>3, <3>1
      <4>2. QED
        BY <1>7, <1>11, <2>1, <3>1, <4>1
    <3>2. CASE q = last
      <4>1. m \in DOMAIN blocks
        BY <1>7, <2>3, <3>2
      <4>2. QED
        BY <1>7, <1>11, <2>1, <3>2, <4>1
    <3>3. CASE m # last /\ q # last
      <4>1. m \in DOMAIN blocks /\ q \in DOMAIN blocks
        BY <1>7, <3>3
      <4>2. QED
        BY <1>1, <1>7, <2>1, <2>3, <4>1 DEF Grown, Apart
    <3>4. QED
      BY <3>1, <3>2, <3>3
  <2>4. QED
    BY <1>7, <2>2, <2>3 DEF Apart, Disjoint
<1>13. Placed'
  <2>1. ASSUME NEW m \in 1..last
        PROVE  /\ \E k \in DOMAIN code_arenas' : Filled(blocks'[m], code_arenas'[k])
               /\ blocks'[m].near => InReach(blocks'[m].addr, blocks'[m].size, blocks'[m].pos)
    <3>1. CASE m = last
      <4>1. Filled(b, code_arenas'[k0])
        <5>1. code_arenas'[k0].addr = code_arenas[k0].addr
          BY <1>2, <1>10
        <5>2. QED
          BY <1>2, <1>3, <1>5, <1>10, <5>1 DEF Filled
      <4>2. b.near => InReach(b.addr, b.size, b.pos)
        BY <1>1, <1>3, <1>5 DEF Room
      <4>3. QED
        BY <1>2, <1>7, <1>10, <3>1, <4>1, <4>2
    <3>2. CASE m # last
      <4>1. m \in DOMAIN blocks /\ blocks'[m] = blocks[m]
        BY <1>7, <3>2
      <4>2. QED
        BY <1>1, <1>10, <4>1 DEF Grown, Placed
    <3>3. QED
      BY <3>1, <3>2
  <2>2. QED
    BY <1>7, <2>1 DEF Placed, Filled, InReach
<1>14. CASE Goes(t, "rwx")
  <2>1. threads'[t].at = "rwx" /\ SameWork(t) /\ Others(t)
    BY <1>14, Going
  <2>2. PICK f, l \in Pages : Spans(Arena(t), f, l) /\ \A p \in f..l : Dobbys(p)
    BY <1>2 DEF Solid
  <2>3. /\ f \in Nat /\ l \in Nat /\ Base(f) <= a /\ a < Base(l) + PageSize
        /\ a + n - 1 \in Nat /\ Base(f) <= a + n - 1 /\ a + n - 1 < Base(l) + PageSize
    <3>1. f \in Nat /\ l \in Nat /\ Base(f) \in Nat /\ Base(l) \in Nat
      BY PageFacts
    <3>2. Arena(t).addr = Base(f) /\ End(Arena(t)) = Base(l) + PageSize
      BY <2>2 DEF Spans
    <3>3. QED
      BY <1>3, <3>1, <3>2
  <2>4. PageOf(a) \in f..l /\ PageOf(a + n - 1) \in f..l
    BY <2>3, PageWithin
  <2>5. WrittenPages(t)' = {PageOf(a), PageOf(a + n - 1)} /\ threads'[t].addr = a
    BY <1>3, <2>1 DEF WrittenPages, PageOf, SameWork
  <2>6. ASSUME NEW p \in WrittenPages(t)' PROVE Dobbys(p)' /\ p \in Mapped'
    <3>1. p \in f..l /\ f..l \subseteq Pages
      BY <2>4, <2>5, SpaceAssumption
    <3>2. QED
      BY <1>8, <2>2, <3>1 DEF Dobbys, Mapped, Unmapped
  <2>7. Target(t)'
    BY <1>3, <2>1, <2>5, <2>6 DEF Target
  <2>8. Doing(t)'
    BY <2>1, <2>7 DEF Doing
  <2>9. QED
    BY <1>1, <1>8, <1>10, <1>12, <1>13, <2>1, <2>8, TakesTurn DEF Grown
<1>15. CASE Becomes(t, [threads[t] EXCEPT !.at = "look", !.n = Job(t).long])
  <2>1. PICK long : long = Job(t).long
    OBVIOUS
  <2> DEFINE w == [threads[t] EXCEPT !.at = "look", !.n = long]
  <2>2. w.at = "look"
    BY <1>1 DEF Working
  <2>3. Becomes(t, w)
    BY <1>15, <2>1
  <2> HIDE DEF w
  <2>4. threads'[t] = w /\ Others(t)
    BY <2>3, Became
  <2>5. Doing(t)'
    BY <2>2, <2>4 DEF Doing
  <2>6. QED
    BY <1>1, <1>8, <1>10, <1>12, <1>13, <2>4, <2>5, TakesTurn DEF Grown
<1>16. QED
  BY <1>14, <1>15 DEF Cutting

\* What is written is on the pages that are made writable.
LEMMA WrittenArePatched ==
    ASSUME NEW a \in Nat, NEW n \in Nat \ {0}, n <= PageSize
    PROVE  /\ PageOf(a + n - 1) \in {PageOf(a), LastPage(a, n)}
           /\ LastPage(a, n) = PageOf(a + n - 1) \/ Base(LastPage(a, n)) = a + n
<1> DEFINE p == PageOf(a)
           q == PageOf(a + n - 1)
           r == PageOf(a + n)
<1>1. a + n - 1 \in Nat /\ a + n \in Nat
  OBVIOUS
<1>2. /\ p \in Nat /\ Base(p) <= a /\ a < Base(p) + PageSize
      /\ q \in Nat /\ Base(q) <= a + n - 1 /\ a + n - 1 < Base(q) + PageSize
      /\ r \in Nat /\ Base(r) <= a + n /\ a + n < Base(r) + PageSize
  BY <1>1, PageBounds
<1> HIDE DEF p, q, r
<1>3. /\ Base(p) \in Nat /\ Base(q) \in Nat /\ Base(r) \in Nat
      /\ p < q => Base(p) + PageSize <= Base(q)
      /\ q < p => Base(q) + PageSize <= Base(p)
      /\ q < r => Base(q) + PageSize <= Base(r)
      /\ r < q => Base(r) + PageSize <= Base(q)
  BY <1>2, BaseOrder
<1>4. ~(q < p) /\ ~(r < q)
  BY <1>2, <1>3, SizeAssumption
<1>5. r = q \/ Base(r) = a + n
  BY <1>2, <1>3, <1>4, SizeAssumption
<1>6. q = p \/ r = q
  BY <1>2, <1>3, <1>4, SizeAssumption
<1>7. QED
  BY <1>5, <1>6 DEF p, q, r, LastPage

LEMMA OrderlyMakeWritable ==
    ASSUME Typed, Orderly, NEW t \in Threads, MakeWritable(t)
    PROVE  Orderly'
<1>1. /\ threads[t] \in Working /\ Grown /\ Alone /\ ~crashed
      /\ threads[t].at = "rwx" /\ Target(t)
  BY DEF Typed, TypeOK, Orderly, Doing, MakeWritable, At
<1>2. Protect(PatchPages(t), "rwx") /\ Goes(t, "copy") /\ abutted' = abutted
        /\ UNCHANGED <<code_arenas, blocks, crashed>>
  BY DEF MakeWritable
<1>3. /\ Lasting
      /\ \A p \in Pages : maps'[p].owner = maps[p].owner
      /\ \A p \in PatchPages(t) \cap Mapped : maps'[p].perm = "rwx"
  BY <1>2, ProtectLasts
<1>4. Grown' /\ ~crashed'
  BY <1>1, <1>2, <1>3, Standing
<1>5. threads'[t].at = "copy" /\ SameWork(t) /\ Others(t)
  BY <1>2, Going
<1>6. WrittenPages(t)' = WrittenPages(t) /\ Job(t)' = Job(t) /\ threads'[t].addr = threads[t].addr
  BY <1>5 DEF WrittenPages, PageOf, Job, SameWork
<1>7. WrittenPages(t) \subseteq PatchPages(t)
  <2>1. threads[t].addr \in Nat /\ threads[t].n \in Nat \ {0} /\ threads[t].n <= PageSize
    BY <1>1, Tasks DEF Target
  <2>2. QED
    BY <2>1, WrittenArePatched DEF WrittenPages, PatchPages
<1>8. ASSUME NEW p \in WrittenPages(t)
      PROVE  p \in Mapped' /\ Rwx(p)' /\ (Job(t).kind = "patch" \/ Dobbys(p)')
  <2>1. p \in Mapped /\ (Job(t).kind = "patch" \/ Dobbys(p)) /\ p \in Pages
    BY <1>1, <1>8 DEF Target, Mapped
  <2>2. QED
    BY <1>3, <1>7, <2>1 DEF Rwx, Dobbys, Lasting
<1>9. Target(t)'
  BY <1>1, <1>6, <1>8 DEF Target
<1>10. Doing(t)'
  BY <1>5, <1>9 DEF Doing
<1>11. QED
  BY <1>1, <1>4, <1>5, <1>10, TakesTurn

\* The write goes through.
LEMMA CopyGoesOn ==
    ASSUME Orderly, NEW t \in Threads, Copy(t)
    PROVE  Goes(t, "rx") /\ UNCHANGED crashed
<1>1. threads[t].at = "copy" /\ Target(t)
  BY DEF Orderly, Doing, Copy, At
<1>2. \A p \in WrittenPages(t) : p \in Pages /\ maps[p].perm \in {"rw", "rwx"}
  BY <1>1 DEF Target, Rwx, Mapped
<1>3. QED
  BY <1>2 DEF Copy

LEMMA OrderlyCopy ==
    ASSUME Typed, Orderly, NEW t \in Threads, Copy(t)
    PROVE  Orderly'
<1>1. Grown /\ Alone /\ threads[t].at = "copy" /\ Target(t) /\ ~crashed
  BY DEF Orderly, Doing, Copy, At
<1>2. Goes(t, "rx") /\ UNCHANGED crashed
  BY CopyGoesOn
<1>3. Grown' /\ ~crashed' /\ maps' = maps
  BY <1>1, <1>2, PagesAsTheyWere, Standing DEF Copy
<1>4. threads'[t].at = "rx" /\ SameWork(t) /\ Others(t)
  BY <1>2, Going
<1>5. WrittenPages(t)' = WrittenPages(t) /\ Job(t)' = Job(t) /\ threads'[t].addr = threads[t].addr
  BY <1>4 DEF WrittenPages, PageOf, Job, SameWork
<1>6. Target(t)'
  BY <1>1, <1>3, <1>4, <1>5 DEF Target, Dobbys, Mapped
<1>7. Doing(t)'
  BY <1>4, <1>6 DEF Doing
<1>8. QED
  BY <1>1, <1>3, <1>4, <1>7, TakesTurn

LEMMA OrderlyRestore ==
    ASSUME Typed, Orderly, NEW t \in Threads, Restore(t)
    PROVE  Orderly'
<1>1. Grown /\ ~crashed /\ threads[t].at # "idle"
  BY DEF Orderly, Restore, At
<1>2. Lasting
  BY ProtectLasts DEF Restore
<1>3. Grown' /\ ~crashed' /\ Becomes(t, Idle)
  BY <1>1, <1>2, Standing DEF Restore
<1>4. QED
  BY <1>1, <1>3, Rests

\* The application maps a page that nobody has in hand.
LEMMA OrderlyAppMaps ==
    ASSUME Typed, Orderly, NEW p \in NewMaps, AppMaps(p)
    PROVE  Orderly'
<1>1. /\ maps' = [maps EXCEPT ![p] = [owner |-> "app", perm |-> "rw"]]
      /\ p \in Pages \ Mapped /\ maps \in [Pages -> PageRecord]
      /\ UNCHANGED <<code_arenas, blocks, threads, crashed, abutted>>
  BY PagesAssumption DEF AppMaps, Typed, TypeOK, PageRecord
<1>2. \A q \in Mapped : maps'[q] = maps[q]
  BY <1>1 DEF Mapped
<1>3. \A q \in Pages : Dobbys(q) <=> maps'[q].owner = "dobby"
  <2>1. ~Dobbys(p)
    BY <1>1 DEF Mapped, Unmapped, Dobbys
  <2>2. QED
    BY <1>1, <2>1 DEF Dobbys
<1>4. Lasting
  BY <1>1, <1>2, <1>3 DEF Lasting, Mapped
<1>5. Grown'
  BY <1>1, <1>4, Standing DEF Orderly
<1>6. ASSUME NEW t \in Threads PROVE Doing(t)'
  <2>1. Doing(t)
    BY DEF Orderly
  <2>2. threads[t] \in Working
    BY DEF Typed, TypeOK
  <2>3. Mapped \subseteq Pages
    BY DEF Mapped
  <2>4. ASSUME Target(t) PROVE Target(t)'
    <3>1. WrittenPages(t)' = WrittenPages(t) /\ Job(t)' = Job(t) /\ threads'[t] = threads[t]
      BY <1>1 DEF WrittenPages, PageOf, Job
    <3>2. ASSUME NEW q \in WrittenPages(t)
          PROVE  /\ q \in Mapped' /\ (Rwx(q) => Rwx(q)') /\ (Dobbys(q) => Dobbys(q)')
      <4>1. q \in Mapped /\ q \in Pages
        BY <2>3, <2>4 DEF Target
      <4>2. QED
        BY <1>2, <1>4, <4>1 DEF Rwx, Dobbys, Lasting
    <3>3. QED
      BY <2>4, <3>1, <3>2 DEF Target
  <2>5. (Room(t) => Room(t)') /\ (Ahead(t) => Ahead(t)') /\ (NewPages(t) => NewPages(t)')
    BY <1>1 DEF Room, Ahead, NewPages, Arena, Job, End, InReach, Holds
  <2>6. \A q \in threads[t].run : Dobbys(q) => Dobbys(q)'
    BY <1>3, <2>2 DEF Working, Dobbys
  <2>7. (\A q \in Pages : Dobbys(q) => q \in threads[t].seen)
           => \A q \in Pages : Dobbys(q)' => q \in threads'[t].seen
    BY <1>1, <1>3 DEF Dobbys
  <2>8. Arena(t)' = Arena(t) /\ Job(t)' = Job(t) /\ threads'[t] = threads[t]
    BY <1>1 DEF Arena, Job
  <2>9. QED
    BY <2>1, <2>4, <2>5, <2>6, <2>7, <2>8 DEF Doing
<1>7. QED
  BY <1>1, <1>5, <1>6 DEF Orderly, Alone

------------------------------------------------------------------------------
(* The invariant, and what follows from it.                                  *)

LEMMA TurnsInit == Init => TurnsInv
<1>1. SUFFICES ASSUME Init PROVE Typed /\ Orderly
  BY DEF TurnsInv
<1>2. Typed
  BY <1>1, TypedInit
<1>3. /\ code_arenas = <<>> /\ blocks = <<>> /\ ~crashed
      /\ \A t \in Threads : threads[t].at = "idle"
      /\ maps = [p \in Pages |-> IF p \in Text THEN [owner |-> "app", perm |-> "rx"]
                                 ELSE IF p \in Data THEN [owner |-> "app", perm |-> "rw"]
                                 ELSE Unmapped]
  BY <1>1 DEF Init, Idle
<1>4. Text \subseteq Mapped
  BY <1>3, PagesAssumption DEF Mapped, Unmapped
<1>5. Grown
  BY <1>3, <1>4 DEF Grown, Ground, Apart, Placed
<1>6. Alone /\ \A t \in Threads : Doing(t)
  BY <1>3 DEF Alone, Doing
<1>7. QED
  BY <1>2, <1>3, <1>5, <1>6 DEF Orderly

\* Only the start of a job can make threads overlap, and nothing undoes it.
LEMMA OverlapLasts ==
    ASSUME [Next]_vars
    PROVE  overlapped => overlapped'
<1>1. ASSUME NEW t \in Threads, Emit(t) PROVE overlapped => overlapped'
  BY <1>1 DEF Emit, Begin, Scan, NewArena, LookInArenas, GetProcessMemoryLayout, MapFixed,
              NoneNear, Register, ProtectArena, Skip, Skipped, Check, Cut, Cutting,
              MakeWritable, Copy, Restore
<1>2. ASSUME NEW p \in NewMaps, AppMaps(p) PROVE overlapped => overlapped'
  BY <1>2 DEF AppMaps
<1>3. CASE UNCHANGED vars
  BY <1>3 DEF vars
<1>4. QED
  BY <1>1, <1>2, <1>3 DEF Next

LEMMA TurnsStep == TurnsInv /\ [Next]_vars => TurnsInv'
<1>1. SUFFICES ASSUME TurnsInv, [Next]_vars PROVE TurnsInv'
  OBVIOUS
<1>2. Typed /\ Typed'
  BY <1>1, TypedStep DEF TurnsInv
<1>3. SUFFICES ASSUME ~overlapped, ~overlapped', Orderly PROVE Orderly'
  BY <1>1, <1>2, OverlapLasts DEF TurnsInv
<1>4. ASSUME NEW t \in Threads, Emit(t) PROVE Orderly'
  BY <1>2, <1>3, <1>4, OrderlyBegin, OrderlyScan, OrderlyNewArena, OrderlyLook, OrderlyLayout,
     OrderlyMapFixed, OrderlyNoneNear, OrderlyRegister, OrderlyProtectArena, OrderlySkip,
     OrderlySkipped, OrderlyCheck, OrderlyCut, OrderlyCutting, OrderlyMakeWritable,
     OrderlyCopy, OrderlyRestore DEF Emit
<1>5. ASSUME NEW p \in NewMaps, AppMaps(p) PROVE Orderly'
  BY <1>2, <1>3, <1>5, OrderlyAppMaps
<1>6. CASE UNCHANGED vars
  <2>1. UNCHANGED <<code_arenas, maps, blocks, threads, crashed, abutted>>
    BY <1>6 DEF vars
  <2>2. Grown'
    BY <1>3, <2>1, PagesAsTheyWere, Standing DEF Orderly
  <2>3. ASSUME NEW t \in Threads PROVE Doing(t)'
    <3>1. Doing(t)
      BY <1>3 DEF Orderly
    <3>2. Arena(t)' = Arena(t) /\ Job(t)' = Job(t) /\ WrittenPages(t)' = WrittenPages(t)
      BY <2>1 DEF Arena, Job, WrittenPages, PageOf
    <3>3. (Room(t) => Room(t)') /\ (Ahead(t) => Ahead(t)')
      BY <2>1, <3>2 DEF Room, Ahead, End, InReach
    <3>4. NewPages(t) => NewPages(t)'
      BY <2>1, <3>2 DEF NewPages, End, InReach, Holds
    <3>5. Target(t) => Target(t)'
      BY <2>1, <3>2 DEF Target, Rwx, Dobbys, Mapped
    <3>6. QED
      BY <2>1, <3>1, <3>2, <3>3, <3>4, <3>5 DEF Doing, Dobbys
  <2>4. QED
    BY <1>3, <2>1, <2>2, <2>3 DEF Orderly, Alone
<1>7. QED
  BY <1>1, <1>4, <1>5, <1>6 DEF Next

\* In whatever order the threads take: the allocator's arenas, the pages, the
\* blocks and the threads keep their types.
THEOREM TypeCorrect == Spec => []TypeOK
<1>1. Typed => TypeOK
  BY DEF Typed
<1>2. QED
  BY TypedInit, TypedStep, <1>1, PTL DEF Spec

\* As long as threads take turns, and no arena was laid over its neighbour,
\* allocMemBlock hands out no instruction twice, and none outside an arena.
THEOREM BlocksStayApart == Spec => []BlocksApart
<1>1. TurnsInv => BlocksApart
  <2>1. SUFFICES ASSUME Typed, Orderly, ~abutted PROVE BlocksApart
    BY DEF TurnsInv, BlocksApart
  <2>2. \A m, n \in DOMAIN blocks : m # n => Disjoint(blocks[m], blocks[n])
    BY <2>1 DEF Orderly, Grown, Apart
  <2>3. ASSUME NEW m \in DOMAIN blocks
        PROVE  \E k \in DOMAIN code_arenas : Within(blocks[m], code_arenas[k])
    <3>1. PICK k \in DOMAIN code_arenas : Filled(blocks[m], code_arenas[k])
      BY <2>1 DEF Orderly, Grown, Placed
    <3>2. code_arenas[k] \in ArenaRecord /\ Solid(code_arenas[k])
      <4>1. code_arenas \in Seq(ArenaRecord)
        BY <2>1 DEF Typed, TypeOK, ArenaRecord
      <4>2. QED
        BY <2>1, <4>1 DEF Orderly, Grown, Ground
    <3>3. blocks[m].addr \in Nat /\ blocks[m].size \in Nat
      <4>1. blocks \in Seq(BlockRecord)
        BY <2>1 DEF Typed, TypeOK, BlockRecord
      <4>2. blocks[m] \in BlockRecord
        BY <4>1
      <4>3. QED
        BY <4>2 DEF BlockRecord
    <3>4. /\ code_arenas[k].cursor_addr \in Nat /\ End(code_arenas[k]) \in Nat
          /\ code_arenas[k].cursor_addr <= End(code_arenas[k])
      BY <3>2, ArenaBounds
    <3>5. blocks[m].addr + blocks[m].size <= End(code_arenas[k])
      BY <3>1, <3>3, <3>4 DEF Filled
    <3>6. Within(blocks[m], code_arenas[k])
      BY <3>1, <3>5 DEF Filled, Within, End
    <3>7. QED
      BY <3>6
  <2>4. QED
    BY <2>2, <2>3 DEF BlocksApart
<1>2. QED
  BY TurnsInit, TurnsStep, <1>1, PTL DEF Spec

\* As long as threads take turns, what allocateNearBlock returns is where it
\* looked: within reach of the branch.
THEOREM NearBlocksReach == Spec => []NearInReach
<1>1. TurnsInv => NearInReach
  BY DEF TurnsInv, Orderly, Grown, Placed, NearInReach, InReach
<1>2. QED
  BY TurnsInit, TurnsStep, <1>1, PTL DEF Spec

\* A single thread neither faults in DobbyCodePatch nor aborts in
\* CHECK_NOT_NULL, whatever it emits and wherever.
THEOREM NoFaultAlone == Spec => []FaultsNeedOverlap
<1>1. TurnsInv => FaultsNeedOverlap
  BY DEF TurnsInv, Orderly, FaultsNeedOverlap
<1>2. QED
  BY TurnsInit, TurnsStep, <1>1, PTL DEF Spec

\* A page of the application that changes under a patch is written to, or lies
\* right behind what is written.
LEMMA PatchedPages ==
    ASSUME Typed, NEW t \in Threads, Target(t), NEW p \in PatchPages(t),
           maps[p].owner = "app"
    PROVE  Excused(t, p)
<1>1. threads[t].addr \in Nat /\ threads[t].n \in Nat \ {0} /\ threads[t].n <= PageSize
  <2>1. threads[t] \in Working
    BY DEF Typed, TypeOK
  <2>2. QED
    BY <2>1, Tasks DEF Target
<1>2. p \in WrittenPages(t) \/ Base(p) = threads[t].addr + threads[t].n
  BY <1>1, WrittenArePatched DEF PatchPages, WrittenPages
<1>3. CASE p \in WrittenPages(t)
  BY <1>3 DEF Target, Dobbys, Excused
<1>4. CASE Base(p) = threads[t].addr + threads[t].n
  BY <1>4 DEF Base, Excused
<1>5. QED
  BY <1>2, <1>3, <1>4

LEMMA PagesSpared ==
    ASSUME Typed, Orderly, NEW t \in Threads, Emit(t), NEW p \in Pages,
           maps[p].owner = "app", maps'[p] # maps[p]
    PROVE  Excused(t, p)
<1>1. threads[t] \in Working /\ p \in Mapped /\ ~Dobbys(p) /\ Doing(t)
  BY DEF Typed, TypeOK, Mapped, Unmapped, Dobbys, Orderly
<1>a. CASE NewArena(t)
  <2>1. PICK q \in Pages \ Mapped :
          maps' = [maps EXCEPT ![q] = [owner |-> "dobby", perm |-> "rx"]]
    BY <1>a DEF NewArena
  <2>2. q # p
    BY <1>1, <2>1
  <2>3. QED
    BY <2>1, <2>2 DEF Typed, TypeOK
<1>b. CASE MapFixed(t)
  <2>1. PICK g \in Gaps(t), run \in SUBSET Pages :
          /\ Found(g, t) # 0
          /\ run = RunOf(Found(g, t), threads[t].n)
          /\ maps' = [q \in Pages |-> IF q \in run THEN [owner |-> "dobby", perm |-> "none"]
                                      ELSE maps[q]]
          /\ Becomes(t, [threads[t] EXCEPT !.at = "register", !.path = "region",
                                          !.addr = Found(g, t), !.run = run])
    BY <1>b DEF MapFixed, RunOf
  <2>2. p \in run
    BY <2>1
  <2>3. CASE p \in threads[t].seen
    <3>1. Found(g, t) + threads[t].n = Base(p)
      BY <2>1, <2>2, <2>3, GapFacts DEF Typed
    <3>2. PICK a : a = Found(g, t)
      OBVIOUS
    <3> DEFINE w == [threads[t] EXCEPT !.at = "register", !.path = "region",
                                      !.addr = a, !.run = run]
    <3>3. w.addr = a
      BY <1>1 DEF Working
    <3>4. Becomes(t, w)
      BY <2>1, <3>2
    <3> HIDE DEF w
    <3>5. threads'[t].addr = Found(g, t)
      BY <3>2, <3>3, <3>4, Became
    <3>6. QED
      BY <3>1, <3>5 DEF Base, Excused
  <2>4. CASE p \notin threads[t].seen
    BY <1>b, <2>4 DEF MapFixed, Excused
  <2>5. QED
    BY <2>3, <2>4
<1>c. CASE ProtectArena(t)
  <2>1. \A q \in threads[t].run : Dobbys(q)
    BY <1>1, <1>c DEF ProtectArena, At, Doing
  <2>2. p \in threads[t].run
    BY <1>c, ProtectLasts DEF ProtectArena
  <2>3. QED
    BY <1>1, <2>1, <2>2
<1>d. CASE MakeWritable(t) \/ Restore(t)
  <2>1. Target(t)
    BY <1>1, <1>d DEF MakeWritable, Restore, At, Doing
  <2>2. p \in PatchPages(t)
    BY <1>d, ProtectLasts DEF MakeWritable, Restore
  <2>3. QED
    BY <2>1, <2>2, PatchedPages
<1>e. CASE ~(NewArena(t) \/ MapFixed(t) \/ ProtectArena(t) \/ MakeWritable(t) \/ Restore(t))
  <2>1. maps' = maps
    BY <1>e DEF Emit, Begin, Scan, LookInArenas, GetProcessMemoryLayout, NoneNear, Register,
                Skip, Skipped, Check, Cut, Cutting, Copy
  <2>2. QED
    BY <2>1
<1>f. QED
  BY <1>a, <1>b, <1>c, <1>d, <1>e

\* As long as threads take turns, a step of Dobby takes or protects a page of
\* the application only where it patches, right behind a block that ends at
\* the start of the page, or when the page was mapped behind its back.
THEOREM AppPagesSpared == Spec => AppPagesKept
<1>1. TurnsInv /\ [Next]_vars =>
         [\A t \in Threads : Emit(t) =>
             overlapped \/ \A p \in Pages :
                 maps[p].owner = "app" /\ maps'[p] # maps[p] => Excused(t, p)]_vars
  BY PagesSpared DEF TurnsInv
<1>2. QED
  BY TurnsInit, TurnsStep, <1>1, PTL DEF Spec, AppPagesKept
=============================================================================
