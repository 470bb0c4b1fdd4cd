----------------------------- MODULE BackupCode -----------------------------
(***************************************************************************)
(* The copy of a function's first instructions that a hook hands out as    *)
(* the original: Dobby's relo_relocate (InstructionRelocationARM64.cc) and *)
(* SandHook's Translator (arm64/translator.cc) rewrite every instruction   *)
(* that depends on its address, and append a branch to the rest of the     *)
(* function.  The instructions themselves are overwritten by the patch,    *)
(* and so is what loads find at their addresses.                           *)
(***************************************************************************)
EXTENDS A64

CONSTANTS
    Start,        \* address of the function
    Scratch,      \* the register each engine uses for itself
    Twin,         \* the X register with the number of a register
    Windows,      \* the codes that may be overwritten
    Inputs,       \* what registers may hold when the function is called
    PageSizes,    \* page sizes of devices, in instructions
    PatchLoad(_, _) \* what a load of a size finds where it meets the patch

Engines == {"dobby", "sandhook"}

ASSUME RegsAssumption == Scratch \in [Engines -> Regs] /\ Twin \in [Regs -> Regs]
ASSUME InputsAssumption == \A f \in Inputs : f = [r \in Regs |-> f[r]]
ASSUME StartAssumption == Start \in Nat /\ PageSizes \subseteq Nat \ {0}
ASSUME WindowsAssumption == Windows \subseteq Seq(Instruction) \ {<<>>}
VARIABLES
    engine, code,   \* which engine overwrites which instructions
    page_size,      \* what getpagesize() says
    stage,          \* "hook"ing, "run"ning the copy, "left" it, or "aborted"
    patched,        \* the patch is written over the instructions
    i, k,           \* the copied instruction that runs, and where in its code
    regs, calls,    \* registers, and functions called so far
    exit            \* where execution goes on once the copy is left

vars == <<engine, code, page_size, stage, patched, i, k, regs, calls, exit>>

------------------------------------------------------------------------------
(* The code that is emitted.                                                *)

Tmp == Scratch[engine]

\* movz and movk, or the load of a literal behind the copy: one step.
Mov(r, v) == [op |-> "mov", rd |-> r, val |-> v]
Br(r) == [op |-> "br", rn |-> r]
Blr(r) == [op |-> "blr", rn |-> r]
LoadFromTmp(r, s) == [op |-> "load", rd |-> r, size |-> s]
SkipIf(s, r, n) == [op |-> "skip", sense |-> s, rn |-> r, n |-> n]
Emit(ins) == [op |-> "other", rd |-> ins.rd, rn |-> ins.rn]

\* The lowest bit of the condition, or bit 24, is flipped; the partner of
\* "always" is not "never".
Inverse(sense) == [z |-> "nz", nz |-> "z", al |-> "al"][sense]

\* Bug: the test lands on the branch instead of behind it.
BugPast(ins, target) ==
    <<SkipIf(Inverse(ins.sense), ins.rn, 2), Mov(Tmp, target), Br(Tmp)>>

Past(ins, target) ==
    <<SkipIf(Inverse(ins.sense), ins.rn, 3), Mov(Tmp, target), Br(Tmp)>>

\* SandHook's b.cond goes to the branch or jumps over it.
ToOrPast(ins, target) ==
    <<SkipIf(ins.sense, ins.rn, 2), SkipIf("al", ins.rn, 3), Mov(Tmp, target), Br(Tmp)>>

\* Dobby's loads are always of 64 bits into an X register, whatever the size.
LiteralSize(size) == IF engine = "dobby" THEN "x" ELSE size
LiteralReg(r) == IF engine = "dobby" THEN Twin[r] ELSE r

\* SandHook takes the page size of the device for the granule of ADRP.
AdrpValue(ins, at) ==
    IF engine = "dobby" THEN PageOf(at + ins.imm * Granule)
    ELSE at - (at % page_size) + ins.imm * page_size

Relocate(ins, at) ==
    LET target == at + ins.imm
    IN  [other |-> <<Emit(ins)>>,
         b     |-> <<Mov(Tmp, target), Br(Tmp)>>,
         bl    |-> <<Mov(Tmp, target), Blr(Tmp)>>,
         bcond |-> IF engine = "dobby" THEN Past(ins, target) ELSE ToOrPast(ins, target),
         cbz   |-> Past(ins, target),
         adr   |-> <<Mov(ins.rd, target)>>,
         adrp  |-> <<Mov(ins.rd, AdrpValue(ins, at))>>,
         ldr   |-> <<Mov(Tmp, target),
                     LoadFromTmp(LiteralReg(ins.rd), LiteralSize(ins.size))>>][ins.op]

At(j) == Start + j - 1

\* Bug: the copy resumes at the last overwritten instruction.
BugBranchToRest == <<Mov(Tmp, At(Len(code))), Br(Tmp)>>

BranchToRest == <<Mov(Tmp, At(Len(code) + 1)), Br(Tmp)>>
Copy(j) == IF j <= Len(code) THEN Relocate(code[j], At(j)) ELSE BranchToRest

\* Sizes of literal loads that Dobby leaves unimplemented, which aborts.
Unimplemented ==
    engine = "dobby" /\ \E j \in DOMAIN code :
        code[j].op = "ldr" /\ code[j].size \in {"sw", "prfm", "q"}

------------------------------------------------------------------------------
(* Hooking, and a call through the copy.                                    *)

Init ==
    /\ engine \in Engines /\ code \in Windows /\ page_size \in PageSizes
    /\ stage = "hook" /\ patched = FALSE
    /\ i = 1 /\ k = 1
    /\ regs \in Inputs /\ calls = <<>> /\ exit = Start

Overwritten == Start..(At(Len(code)))

\* The copy is made and handed out; it may be called from now on.
Hook ==
    /\ stage = "hook"
    /\ stage' = IF Unimplemented THEN "aborted" ELSE "run"
    /\ UNCHANGED <<engine, code, page_size, patched, i, k, regs, calls, exit>>

\* The patch is written only then, over the instructions that were copied.
WritePatch ==
    /\ stage \in {"run", "left"} /\ ~patched
    /\ patched' = TRUE
    /\ UNCHANGED <<engine, code, page_size, stage, i, k, regs, calls, exit>>

\* What a load finds in memory now.
InPatch(size, a) == Span(size, a) \cap Overwritten # {}
LoadNow(size, a) == IF patched /\ InPatch(size, a) THEN PatchLoad(size, a) ELSE Load(size, a)

Now == Copy(i)[k]
Runs(op) == stage = "run" /\ Now.op = op

\* The next step of the copy, n instructions on.
Forward(n) ==
    /\ IF k + n <= Len(Copy(i)) THEN k' = k + n /\ i' = i
                                ELSE k' = 1 /\ i' = i + 1
    /\ UNCHANGED <<engine, code, page_size, stage, patched, exit>>

RunOther ==
    /\ Runs("other")
    /\ regs' = [regs EXCEPT ![Now.rd] = Alu(regs[Now.rn])]
    /\ Forward(1) /\ UNCHANGED calls
RunMov ==
    /\ Runs("mov")
    /\ regs' = [regs EXCEPT ![Now.rd] = Now.val]
    /\ Forward(1) /\ UNCHANGED calls
RunLoad ==
    /\ Runs("load")
    /\ regs' = Loaded(regs, Now.rd, Now.size, LoadNow(Now.size, regs[Tmp]))
    /\ Forward(1) /\ UNCHANGED calls
RunSkip ==
    /\ Runs("skip")
    /\ Forward(IF Holds(Now.sense, regs[Now.rn]) THEN Now.n ELSE 1)
    /\ UNCHANGED <<regs, calls>>
RunBlr ==
    /\ Runs("blr")
    /\ calls' = Append(calls, regs[Now.rn])
    /\ Forward(1) /\ UNCHANGED regs
RunBr ==
    /\ Runs("br")
    /\ stage' = "left" /\ exit' = regs[Now.rn]
    /\ UNCHANGED <<engine, code, page_size, patched, i, k, regs, calls>>

Run == RunOther \/ RunMov \/ RunLoad \/ RunSkip \/ RunBlr \/ RunBr
Next == Hook \/ WritePatch \/ Run

Spec == Init /\ [][Next]_vars

------------------------------------------------------------------------------
(* Properties.                                                             *)

TypeOK ==
    /\ engine \in Engines /\ code \in Windows /\ page_size \in PageSizes
    /\ stage \in {"hook", "run", "left", "aborted"} /\ patched \in BOOLEAN
    /\ i \in 1..(Len(code) + 1) /\ k \in 1..Len(Copy(i))
    /\ regs = [r \in Regs |-> regs[r]] /\ calls \in Seq(Int) /\ exit \in Int

Branches == {j \in DOMAIN code : code[j].op \in {"b", "bcond", "cbz"}}
TargetOf(j) == At(j) + code[j].imm

\* The code whose copy can be exact: the scratch register is not in use, the
\* engine renders every instruction as it is, and no literal lies in the words
\* that the patch overwrites.
Rendered(ins) ==
    /\ Tmp \notin {ins.rd, ins.rn}
    /\ ins.op = "cbz" => ins.sense # "al"
    /\ engine = "dobby" =>
          /\ ins.op = "bcond" => ins.sense # "al"
          /\ ins.op = "ldr" => ins.size = "x" /\ Twin[ins.rd] = ins.rd
    /\ engine = "sandhook" => (ins.op = "adrp" => page_size = Granule)
Apart(j) == code[j].op = "ldr" /\ code[j].size # "prfm" => ~InPatch(code[j].size, TargetOf(j))
Exact == \A j \in DOMAIN code : Rendered(code[j]) /\ Apart(j)

\* A call through the copy does to every register but the scratch one, and to
\* the functions called, what the instructions did where they were
\* (HookUtils.cpp:70 "org": the pointer to the original function), and goes
\* on where they went on, before the patch is written and after it.
Original == INSTANCE OriginalCode WITH
    trusted <- Exact,
    pc <- IF stage = "left" THEN exit ELSE At(i),
    regs <- [r \in Regs \ {Tmp} |-> regs[r]]
ImplementsOriginal == Original!Spec

\* Execution comes back into the overwritten instructions, which now are the
\* jump to the replacement, only through a branch that went there before.
NeverIntoPatch ==
    stage = "left" /\ exit \in Overwritten =>
        \E j \in Branches : TargetOf(j) = exit
=============================================================================
