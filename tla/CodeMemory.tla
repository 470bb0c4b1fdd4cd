----------------------------- MODULE CodeMemory -----------------------------
(***************************************************************************)
(* The memory that Dobby emits code to, and how it writes code: arenas     *)
(* that blocks are cut from (MemoryAllocator.cc), blocks within reach of a *)
(* branch (NearMemoryAllocator.cc), and patches of pages that are made     *)
(* writable for a moment (code-patch-tool-posix.cc).  Nothing is locked.   *)
(* Addresses and sizes are counted in instructions, and pages are numbered.*)
(***************************************************************************)
EXTENDS Integers, Sequences, FiniteSets

CONSTANTS
    Threads,        \* threads that hook or instrument functions
    Pages,          \* pages of the process
    PageSize,
    Width,          \* addresses are computed modulo Width
    Reach,          \* how far a branch reaches
    Text, Data,     \* pages of the application, with code and with data
    NewMaps,        \* pages that the application may map in the meantime
    Jobs,           \* what is emitted: see Work
    MaxJobs         \* bound on the jobs that are begun

\* A "build" emits code anywhere.  A "forward" emits a trampoline near pos,
\* and if it is far from where it leads, one more of the long form.  A "patch"
\* overwrites the function at pos.
Work == [kind : {"build", "forward", "patch"}, size : 1..PageSize, long : 1..PageSize,
        pos : Nat, far : BOOLEAN]

ASSUME SizeAssumption ==
    PageSize \in Nat \ {0} /\ Width \in Nat \ {0} /\ Reach \in Nat /\ MaxJobs \in Nat
ASSUME PagesAssumption ==
    Pages \subseteq Nat \ {0} /\ Text \cup Data \cup NewMaps \subseteq Pages
\* The address space has no holes, and its addresses do not wrap.
ASSUME SpaceAssumption ==
    \A p \in Pages : (\A q \in Pages : p..q \subseteq Pages) /\ (p + 1) * PageSize < Width
\* What is patched is code of the application.
ASSUME JobsAssumption ==
    /\ Jobs \subseteq Work /\ \A j \in Jobs : j.pos >= Reach
    /\ \A j \in Jobs : j.kind = "patch" =>
          \A a \in j.pos..(j.pos + j.size - 1) : a \div PageSize \in Text

VARIABLES
    code_arenas,  \* [addr, size, cursor_addr], in the order of their making
    maps,         \* owner and permission of each page
    blocks,       \* the blocks that were handed out
    threads,      \* what each thread is doing
    begun,        \* how many jobs were begun
    crashed,      \* a write to a page that is not writable, or an abort
    overlapped,   \* two threads were in Dobby at once
    abutted       \* a new arena was laid over the mapping it should end at

vars == <<code_arenas, maps, blocks, threads, begun, crashed, overlapped, abutted>>

------------------------------------------------------------------------------
(* Pages and threads.                                                       *)

Unmapped == [owner |-> "none", perm |-> "none"]
Mapped == {p \in Pages : maps[p] # Unmapped}
PageOf(a) == a \div PageSize
Protect(ps, perm) ==
    maps' = [p \in Pages |->
                IF p \in ps /\ p \in Mapped THEN [maps[p] EXCEPT !.perm = perm] ELSE maps[p]]

Nothing == [kind |-> "build", size |-> 1, long |-> 1, pos |-> Reach, far |-> FALSE]
Paths == {"exec", "default", "region"}
Steps == {"idle", "scan", "open", "look", "layout", "map", "register", "protect",
          "skip", "skipped", "check", "cut", "cutting", "rwx", "copy", "rx"}

\* What a thread works on: the job, the size it asks for, which allocation
\* that is, the arena in hand, the address found, the size of a placeholder,
\* the layout read, and the pages of a new arena.
Working == [at : Steps, job : Jobs \cup {Nothing}, n : 1..PageSize, path : Paths,
            k : Nat \ {0}, addr : Int, hole : Int, seen : SUBSET Pages, run : SUBSET Pages]
Idle == [at |-> "idle", job |-> Nothing, n |-> 1, path |-> "exec", k |-> 1,
         addr |-> 0, hole |-> 0, seen |-> {}, run |-> {}]

Init ==
    /\ code_arenas = <<>> /\ blocks = <<>>
    /\ maps = [p \in Pages |-> IF p \in Text THEN [owner |-> "app", perm |-> "rx"]
                               ELSE IF p \in Data THEN [owner |-> "app", perm |-> "rw"]
                               ELSE Unmapped]
    /\ threads = [t \in Threads |-> Idle] /\ begun = 0
    /\ crashed = FALSE /\ overlapped = FALSE /\ abutted = FALSE

At(t, at) == ~crashed /\ threads[t].at = at
Job(t) == threads[t].job
Arena(t) == code_arenas[threads[t].k]
Becomes(t, w) == threads' = [threads EXCEPT ![t] = w]
Goes(t, at) == Becomes(t, [threads[t] EXCEPT !.at = at])

------------------------------------------------------------------------------
(* Cutting blocks from arenas.                                              *)

\* "end - cursor < size", unsigned: a cursor past the end has room for all.
Fits(arena, n) ==
    (arena.addr + arena.size - arena.cursor_addr) % Width >= n % Width

\* Bug: the cursor stops at the last instruction of the block.
BugBump(t, n, read) ==
    \E base \in {read, Arena(t).cursor_addr} :
        code_arenas' = [code_arenas EXCEPT ![threads[t].k].cursor_addr = (base + n - 1) % Width]

\* cursor_addr += size: what was read for the block may be used again.
Bump(t, n, read) ==
    \E base \in {read, Arena(t).cursor_addr} :
        code_arenas' = [code_arenas EXCEPT ![threads[t].k].cursor_addr = (base + n) % Width]

\* The hook of a function, an instrumentation, or a trampoline for one begins.
Begin(t) ==
    /\ At(t, "idle") /\ begun < MaxJobs /\ begun' = begun + 1
    /\ \E j \in Jobs :
          Becomes(t, [Idle EXCEPT !.job = j, !.n = j.size, !.addr = j.pos,
              !.at = [build |-> "scan", forward |-> "look", patch |-> "rwx"][j.kind]])
    /\ overlapped' = (overlapped \/ \E u \in Threads \ {t} : threads[u].at # "idle")
    /\ UNCHANGED <<code_arenas, maps, blocks, crashed, abutted>>

\* allocateExecBlock walks the arenas, and maps a new one after the last.
Scan(t) ==
    /\ At(t, "scan") /\ threads[t].k <= Len(code_arenas)
    /\ IF Fits(Arena(t), threads[t].n) THEN Goes(t, "cut")
       ELSE Becomes(t, [threads[t] EXCEPT !.k = @ + 1])
    /\ UNCHANGED <<code_arenas, maps, blocks, crashed, overlapped, abutted, begun>>
NewArena(t) ==
    /\ At(t, "scan") /\ threads[t].k > Len(code_arenas)
    /\ \E p \in Pages \ Mapped :
          /\ maps' = [maps EXCEPT ![p] = [owner |-> "dobby", perm |-> "rx"]]
          /\ Becomes(t, [threads[t] EXCEPT !.at = "register", !.run = {p}])
    /\ UNCHANGED <<code_arenas, blocks, crashed, overlapped, abutted, begun>>

\* Bug: memory below what is in reach is taken too.
BugUnused(start, end, t) ==
    LET high == IF end > Job(t).pos + Reach THEN Job(t).pos + Reach ELSE end
    IN  IF start < high /\ high - start >= threads[t].n THEN start ELSE 0

\* allocateNearBlockFromDefaultAllocator looks for unused memory in reach.
Unused(start, end, t) ==
    LET low == IF start < Job(t).pos - Reach THEN Job(t).pos - Reach ELSE start
        high == IF end > Job(t).pos + Reach THEN Job(t).pos + Reach ELSE end
    IN  IF low < high /\ high - low >= threads[t].n THEN low ELSE 0
UnusedIn(arena, t) == Unused(arena.cursor_addr, arena.addr + arena.size, t)
LookInArenas(t) ==
    /\ At(t, "look")
    /\ \/ \E k \in DOMAIN code_arenas :
             /\ UnusedIn(code_arenas[k], t) # 0
             /\ \A l \in 1..(k - 1) : UnusedIn(code_arenas[l], t) = 0
             /\ Becomes(t, [threads[t] EXCEPT !.at = "skip", !.path = "default", !.k = k,
                                             !.addr = UnusedIn(code_arenas[k], t)])
       \/ /\ \A k \in DOMAIN code_arenas : UnusedIn(code_arenas[k], t) = 0
          /\ Goes(t, "layout")
    /\ UNCHANGED <<code_arenas, maps, blocks, crashed, overlapped, abutted, begun>>

\* allocateNearBlockFromUnusedRegion reads /proc/self/maps ...
GetProcessMemoryLayout(t) ==
    /\ At(t, "layout")
    /\ Becomes(t, [threads[t] EXCEPT !.at = "map", !.seen = Mapped])
    /\ UNCHANGED <<code_arenas, maps, blocks, crashed, overlapped, abutted, begun>>

\* ... and maps the pages of the first gap in reach that is large enough, and
\* the page that the block ends at, with MAP_FIXED.
Gaps(t) ==
    {g \in threads[t].seen \X threads[t].seen :
        g[1] < g[2] /\ \A p \in threads[t].seen : ~(g[1] < p /\ p < g[2])}
Found(g, t) == Unused((g[1] + 1) * PageSize, g[2] * PageSize, t)

\* Bug: the end is rounded up, and then another page added.
BugLastPage(a, n) == PageOf(a + n + PageSize - 1)

LastPage(a, n) == PageOf(a + n)
MapFixed(t) ==
    /\ At(t, "map")
    /\ \E g \in Gaps(t) :
          LET a == Found(g, t)
              run == {p \in Pages : PageOf(a) <= p /\ p <= LastPage(a, threads[t].n)}
          IN  /\ a # 0 /\ \A h \in Gaps(t) : h[1] < g[1] => Found(h, t) = 0
              /\ maps' = [p \in Pages |-> IF p \in run THEN [owner |-> "dobby", perm |-> "none"]
                                          ELSE maps[p]]
              /\ abutted' = (abutted \/ g[2] \in run)
              /\ Becomes(t, [threads[t] EXCEPT !.at = "register", !.path = "region",
                                              !.addr = a, !.run = run])
    /\ UNCHANGED <<code_arenas, blocks, crashed, overlapped, begun>>
NoneNear(t) ==
    /\ At(t, "map") /\ \A g \in Gaps(t) : Found(g, t) = 0
    /\ Becomes(t, Idle)
    /\ UNCHANGED <<code_arenas, maps, blocks, crashed, overlapped, abutted, begun>>

ArenaOf(run) ==
    LET start == (CHOOSE p \in run : \A q \in run : p <= q) * PageSize
    IN  [addr |-> start, size |-> Cardinality(run) * PageSize, cursor_addr |-> start]

\* Bug: the thread goes on with the arena before the new one.
BugRegister(t) ==
    /\ At(t, "register")
    /\ code_arenas' = Append(code_arenas, ArenaOf(threads[t].run))
    /\ Becomes(t, [threads[t] EXCEPT !.k = Len(code_arenas),
                     !.at = IF threads[t].path = "region" THEN "protect" ELSE "check"])
    /\ UNCHANGED <<maps, blocks, crashed, overlapped, abutted, begun>>

\* The new arena is listed, and one for near blocks made executable then.
Register(t) ==
    /\ At(t, "register")
    /\ code_arenas' = Append(code_arenas, ArenaOf(threads[t].run))
    /\ Becomes(t, [threads[t] EXCEPT !.k = Len(code_arenas) + 1,
                     !.at = IF threads[t].path = "region" THEN "protect" ELSE "check"])
    /\ UNCHANGED <<maps, blocks, crashed, overlapped, abutted, begun>>
ProtectArena(t) ==
    /\ At(t, "protect")
    /\ Protect(threads[t].run, "rx")
    /\ Goes(t, "skip")
    /\ UNCHANGED <<code_arenas, blocks, crashed, overlapped, abutted, begun>>

\* The placeholder up to the address that was found; no room is no error.
Skip(t) ==
    LET hole == threads[t].addr - Arena(t).cursor_addr
    IN  /\ At(t, "skip")
        /\ Becomes(t, [threads[t] EXCEPT !.hole = hole,
                         !.at = IF Fits(Arena(t), hole) THEN "skipped" ELSE "check"])
        /\ UNCHANGED <<code_arenas, maps, blocks, crashed, overlapped, abutted, begun>>
Skipped(t) ==
    /\ At(t, "skipped")
    /\ Bump(t, threads[t].hole, threads[t].addr - threads[t].hole)
    /\ Goes(t, "check")
    /\ UNCHANGED <<maps, blocks, crashed, overlapped, abutted, begun>>

\* allocMemBlock: is there room, where is the cursor, move it.  Without room
\* in an arena the region is asked, and then there is no block near; without
\* room in a new arena for any address, CHECK_NOT_NULL aborts.
Check(t) ==
    /\ At(t, "check")
    /\ \/ Fits(Arena(t), threads[t].n) /\ Goes(t, "cut") /\ UNCHANGED crashed
       \/ /\ ~Fits(Arena(t), threads[t].n)
          /\ \/ threads[t].path = "default" /\ Goes(t, "layout") /\ UNCHANGED crashed
             \/ threads[t].path = "region" /\ Becomes(t, Idle) /\ UNCHANGED crashed
             \/ threads[t].path = "exec" /\ crashed' = TRUE /\ UNCHANGED threads
    /\ UNCHANGED <<code_arenas, maps, blocks, overlapped, abutted, begun>>
Cut(t) ==
    /\ At(t, "cut")
    /\ Becomes(t, [threads[t] EXCEPT !.at = "cutting", !.addr = Arena(t).cursor_addr])
    /\ UNCHANGED <<code_arenas, maps, blocks, crashed, overlapped, abutted, begun>>

\* A trampoline that leads too far gives up its block for a longer one.
NeedsLong(t) == Job(t).kind = "forward" /\ Job(t).far /\ threads[t].n # Job(t).long
Cutting(t) ==
    /\ At(t, "cutting")
    /\ Bump(t, threads[t].n, threads[t].addr)
    /\ blocks' = Append(blocks, [addr |-> threads[t].addr, size |-> threads[t].n,
                                 near |-> Job(t).kind = "forward", pos |-> Job(t).pos])
    /\ IF NeedsLong(t) THEN Becomes(t, [threads[t] EXCEPT !.at = "look", !.n = Job(t).long])
                       ELSE Goes(t, "rwx")
    /\ UNCHANGED <<maps, crashed, overlapped, abutted, begun>>

------------------------------------------------------------------------------
(* DobbyCodePatch: emitted code, and the entries of functions.              *)

\* The page of the first instruction, and that of the one after the last.
PatchPages(t) == {PageOf(threads[t].addr), LastPage(threads[t].addr, threads[t].n)}
WrittenPages(t) == {PageOf(threads[t].addr), PageOf(threads[t].addr + threads[t].n - 1)}

\* Bug: only the page behind the patch is made writable.
BugMakeWritable(t) ==
    /\ At(t, "rwx")
    /\ Protect({LastPage(threads[t].addr, threads[t].n)}, "rwx")
    /\ Goes(t, "copy")
    /\ UNCHANGED <<code_arenas, blocks, crashed, overlapped, abutted, begun>>

MakeWritable(t) ==
    /\ At(t, "rwx")
    /\ Protect(PatchPages(t), "rwx")
    /\ Goes(t, "copy")
    /\ UNCHANGED <<code_arenas, blocks, crashed, overlapped, abutted, begun>>
Copy(t) ==
    /\ At(t, "copy")
    /\ IF \A p \in WrittenPages(t) : p \in Pages /\ maps[p].perm \in {"rw", "rwx"}
       THEN Goes(t, "rx") /\ UNCHANGED crashed
       ELSE crashed' = TRUE /\ UNCHANGED threads
    /\ UNCHANGED <<code_arenas, maps, blocks, overlapped, abutted, begun>>

\* Bug: the second page keeps its permission.
BugRestore(t) ==
    /\ At(t, "rx")
    /\ Protect({PageOf(threads[t].addr)}, "rx")
    /\ Becomes(t, Idle)
    /\ UNCHANGED <<code_arenas, blocks, crashed, overlapped, abutted, begun>>

Restore(t) ==
    /\ At(t, "rx")
    /\ Protect(PatchPages(t), "rx")
    /\ Becomes(t, Idle)
    /\ UNCHANGED <<code_arenas, blocks, crashed, overlapped, abutted, begun>>

\* The application maps memory for itself.
AppMaps(p) ==
    /\ ~crashed /\ p \in NewMaps \ Mapped
    /\ maps' = [maps EXCEPT ![p] = [owner |-> "app", perm |-> "rw"]]
    /\ UNCHANGED <<code_arenas, blocks, threads, crashed, overlapped, abutted, begun>>

Emit(t) ==
    \/ Begin(t) \/ Scan(t) \/ NewArena(t) \/ LookInArenas(t)
    \/ GetProcessMemoryLayout(t) \/ MapFixed(t) \/ NoneNear(t) \/ Register(t)
    \/ ProtectArena(t) \/ Skip(t) \/ Skipped(t) \/ Check(t) \/ Cut(t) \/ Cutting(t)
    \/ MakeWritable(t) \/ Copy(t) \/ Restore(t)

Next == (\E t \in Threads : Emit(t)) \/ (\E p \in NewMaps : AppMaps(p))

Spec == Init /\ [][Next]_vars

------------------------------------------------------------------------------
(* Properties.                                                              *)

Permissions == {"none", "rx", "rw", "rwx"}
TypeOK ==
    /\ code_arenas \in Seq([addr : Nat, size : Nat, cursor_addr : Nat])
    /\ maps \in [Pages -> [owner : {"none", "app", "dobby"}, perm : Permissions]]
    /\ blocks \in Seq([addr : Nat, size : Nat, near : BOOLEAN, pos : Nat])
    /\ threads \in [Threads -> Working] /\ begun \in 0..MaxJobs
    /\ {crashed, overlapped, abutted} \subseteq BOOLEAN

\* As long as threads take turns, and no arena was laid over its neighbour,
\* blocks do not share an instruction and lie within arenas
\* (MemoryArena::allocMemBlock: "insufficient memory", else the next bytes).
Disjoint(b, c) == b.addr + b.size <= c.addr \/ c.addr + c.size <= b.addr
Within(b, arena) == arena.addr <= b.addr /\ b.addr + b.size <= arena.addr + arena.size
BlocksApart ==
    overlapped \/ abutted \/
        /\ \A m, n \in DOMAIN blocks : m # n => Disjoint(blocks[m], blocks[n])
        /\ \A m \in DOMAIN blocks : \E k \in DOMAIN code_arenas :
              Within(blocks[m], code_arenas[k])

\* A trampoline lies within reach of the branch to it, unless another thread
\* moved the cursor between the search and the cut.
NearInReach ==
    overlapped \/ \A m \in DOMAIN blocks : blocks[m].near =>
        /\ blocks[m].pos - Reach <= blocks[m].addr
        /\ blocks[m].addr + blocks[m].size <= blocks[m].pos + Reach

\* Whoever patches, and however many: a page is writable and executable at
\* once only as long as some thread is about to write to it (DobbyCodePatch
\* "restore page permission").
WritableOnlyWhilePatched ==
    \A p \in Pages : maps[p].perm = "rwx" =>
        \E t \in Threads : threads[t].at \in {"copy", "rx"} /\ p \in PatchPages(t)

\* A write faults, and an allocation aborts, only when two threads met.
FaultsNeedOverlap == crashed => overlapped

\* A step of Dobby changes a page of the application only where a function
\* is patched, in the page behind what it emits if that ends at a boundary,
\* or when it was mapped after the layout was read (mmap with MAP_FIXED, and
\* mprotect of patch_end_page).
Excused(t, p) ==
    \/ p * PageSize = threads'[t].addr + threads[t].n \/ p * PageSize = threads[t].addr + threads[t].n
    \/ At(t, "map") /\ p \notin threads[t].seen
    \/ Job(t).kind = "patch" /\ p \in WrittenPages(t)
AppPagesKept ==
    [][\A t \in Threads : Emit(t) =>
          overlapped \/ \A p \in Pages :
              maps[p].owner = "app" /\ maps'[p] # maps[p] => Excused(t, p)]_vars
=============================================================================
