---------------------------- MODULE MCBackupCode ----------------------------
(* BackupCode with every window of up to two instructions of each kind, and  *)
(* the two usual lengths of a patch for some.                                *)
EXTENDS BackupCode

CONSTANTS x0, x1, x16, x17, v0

MCScratch == [e \in Engines |-> IF e = "dobby" THEN x17 ELSE x16]
MCTwin == [r \in Regs |-> IF r = v0 THEN x0 ELSE r]
MCInputs == {[r \in Regs |-> IF r = x0 THEN a ELSE b] : a, b \in {0, 1}}
MCAlu(v) == v + 10000
MCLoad(size, a) ==
    IF size \in {"w", "sw", "s"} THEN a % 2 ELSE 5000 + (a % 3)
MCPatchLoad(size, a) == IF size \in {"w", "sw", "s"} THEN 2 ELSE 6000

Ins(op, rd, rn, imm, sense, size) ==
    [op |-> op, rd |-> rd, rn |-> rn, imm |-> imm, sense |-> sense, size |-> size]
Instrs ==
    {Ins("other", x0, x1, 0, "al", "x"), Ins("other", x1, x17, 0, "al", "x"),
     Ins("bl", x1, x1, 50, "al", "x"),
     Ins("adr", x0, x0, -7, "al", "x"), Ins("adrp", x16, x1, -1, "al", "x"),
     Ins("adrp", x0, x0, 2, "al", "x")}
    \cup {Ins("b", x1, x1, imm, "al", "x") : imm \in {-9, 1}}
    \cup {Ins("bcond", x1, x1, imm, s, "x") : imm \in {9, -1}, s \in Senses}
    \cup {Ins("cbz", x0, x0, 9, s, "x") : s \in {"z", "nz"}}
    \cup {Ins("ldr", x0, x1, 6, "al", s) : s \in {"w", "x", "sw", "prfm"}}
    \cup {Ins("ldr", v0, x1, 6, "al", s) : s \in {"s", "d", "q"}}
    \cup {Ins("ldr", x0, x1, imm, "al", "x") : imm \in {-2, -1, 1}}
Tails ==
    {<<Ins("cbz", x0, x0, -8, "nz", "x"), Ins("ldr", x0, x1, 3, "al", "x")>>,
     <<Ins("bcond", x1, x1, 4, "z", "x"), Ins("bl", x1, x1, -50, "al", "x"),
       Ins("other", x0, x0, 0, "al", "x")>>}
MCWindows ==
    LET short == {<<a>> : a \in Instrs} \cup {<<a, b>> : a, b \in Instrs}
    IN  short \cup {w \o t : w \in {<<a>> : a \in Instrs}, t \in Tails}
=============================================================================
