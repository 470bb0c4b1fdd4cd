-------------------------------- MODULE A64 ---------------------------------
(***************************************************************************)
(* What the models of code share: the A64 instructions that a hook has to  *)
(* tell apart.  Addresses and offsets are counted in instructions of four  *)
(* bytes.  An ordinary instruction, one that is not relative to the        *)
(* program counter, is one operation on registers; what it reads through a *)
(* register is left out.                                                   *)
(***************************************************************************)
EXTENDS Integers, Sequences

CONSTANTS
    Regs,        \* registers, X and V together, and the flags
    Zero,        \* the values a condition or a test takes for zero
    Alu(_),      \* what an ordinary instruction computes
    Load(_, _)   \* what a load of a size finds at an address of the program

\* Sizes of literal loads; "al" is the condition "always" of bcond (b.cond).  Tests of
\* bits (tbz) are like tests of registers (cbz).
Sizes == {"w", "x", "sw", "prfm", "s", "d", "q"}
Senses == {"z", "nz", "al"}
Instruction == [op : {"other", "b", "bl", "bcond", "cbz", "adr", "adrp", "ldr"},
                rd : Regs, rn : Regs, imm : Int, sense : Senses, size : Sizes]

\* The page granule of ADRP, 4096 bytes.
Granule == 1024
PageOf(a) == a - (a % Granule)

Holds(sense, v) ==
    /\ sense = "z" => v \in Zero
    /\ sense = "nz" => v \notin Zero

\* The words that a literal load at an address reads.
Span(size, a) ==
    a..(a + (IF size \in {"w", "sw", "s"} THEN 0 ELSE IF size = "q" THEN 3 ELSE 1))

\* The registers after a literal load of a value; a prefetch changes none.
Loaded(regs, r, size, value) ==
    IF size = "prfm" THEN regs ELSE [regs EXCEPT ![r] = value]
=============================================================================
