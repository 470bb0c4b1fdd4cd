---------------------------- MODULE OriginalCode ----------------------------
(***************************************************************************)
(* The first instructions of a function, as the processor runs them where  *)
(* they were compiled: what a call through the pointer to the original has *)
(* to amount to.  A callee is an entry in a list.                          *)
(***************************************************************************)
EXTENDS A64

CONSTANT Start   \* address of the function

VARIABLES
    code,      \* the instructions that will be overwritten
    trusted,   \* the copy of this code is expected to be exact
    pc, regs,  \* program counter, and the registers that count
    calls      \* functions called so far

vars == <<code, trusted, pc, regs, calls>>

Init == trusted => pc = Start /\ calls = <<>>

InCode == pc \in Start..(Start + Len(code) - 1)
Ins == code[pc - Start + 1]
Target == pc + Ins.imm
Is(op) == InCode /\ Ins.op = op
Set(r, v) == regs' = [regs EXCEPT ![r] = v]
Onward == pc' = pc + 1

Other == Is("other") /\ Set(Ins.rd, Alu(regs[Ins.rn])) /\ Onward /\ UNCHANGED calls
Branch == Is("b") /\ pc' = Target /\ UNCHANGED <<regs, calls>>
BranchLink == Is("bl") /\ calls' = Append(calls, Target) /\ Onward /\ UNCHANGED regs
ConditionalBranch ==
    /\ Is("bcond") \/ Is("cbz")
    /\ IF Holds(Ins.sense, regs[Ins.rn]) THEN pc' = Target ELSE Onward
    /\ UNCHANGED <<regs, calls>>
Adr == Is("adr") /\ Set(Ins.rd, Target) /\ Onward /\ UNCHANGED calls
Adrp ==
    /\ Is("adrp")
    /\ Set(Ins.rd, PageOf(pc) + Ins.imm * Granule)
    /\ Onward /\ UNCHANGED calls
LoadLiteral ==
    /\ Is("ldr")
    /\ regs' = Loaded(regs, Ins.rd, Ins.size, Load(Ins.size, Target))
    /\ Onward /\ UNCHANGED calls

Step == \/ Other \/ Branch \/ BranchLink \/ ConditionalBranch
        \/ Adr \/ Adrp \/ LoadLiteral

\* Of code that is not trusted nothing is promised.
Next == UNCHANGED <<code, trusted>> /\ (trusted => Step)

Spec == Init /\ [][Next]_vars
=============================================================================
