-------------------------- MODULE BackupCode_proofs --------------------------
(***************************************************************************)
(* For every code that is overwritten, every content of registers, memory  *)
(* and patch: running the copy amounts to running the instructions that    *)
(* the engine renders exactly, and never adds a jump into the patch.       *)
(***************************************************************************)
EXTENDS BackupCode, TLAPS

\* The copy of instruction j, step by step.
Is2(j, a, b) == Len(Copy(j)) = 2 /\ Copy(j)[1] = a /\ Copy(j)[2] = b
IsPast(j) ==
    /\ Len(Copy(j)) = 3
    /\ Copy(j)[1] = SkipIf(Inverse(code[j].sense), code[j].rn, 3)
    /\ Copy(j)[2] = Mov(Tmp, TargetOf(j)) /\ Copy(j)[3] = Br(Tmp)
IsToOrPast(j) ==
    /\ Len(Copy(j)) = 4
    /\ Copy(j)[1] = SkipIf(code[j].sense, code[j].rn, 2)
    /\ Copy(j)[2] = SkipIf("al", code[j].rn, 3)
    /\ Copy(j)[3] = Mov(Tmp, TargetOf(j)) /\ Copy(j)[4] = Br(Tmp)
Is1(j, a) == Len(Copy(j)) = 1 /\ Copy(j)[1] = a

Shape(j) ==
    \/ j = Len(code) + 1 /\ Is2(j, Mov(Tmp, At(j)), Br(Tmp))
    \/ /\ j \in DOMAIN code
       /\ \/ code[j].op = "b" /\ Is2(j, Mov(Tmp, TargetOf(j)), Br(Tmp))
          \/ code[j].op = "bl" /\ Is2(j, Mov(Tmp, TargetOf(j)), Blr(Tmp))
          \/ code[j].op = "bcond" /\ engine = "sandhook" /\ IsToOrPast(j)
          \/ code[j].op = "bcond" /\ engine = "dobby" /\ IsPast(j)
          \/ code[j].op = "cbz" /\ IsPast(j)
          \/ code[j].op = "adr" /\ Is1(j, Mov(code[j].rd, TargetOf(j)))
          \/ code[j].op = "adrp" /\ Is1(j, Mov(code[j].rd, AdrpValue(code[j], At(j))))
          \/ /\ code[j].op = "ldr"
             /\ Is2(j, Mov(Tmp, TargetOf(j)),
                       LoadFromTmp(LiteralReg(code[j].rd), LiteralSize(code[j].size)))
          \/ code[j].op = "other" /\ Is1(j, Emit(code[j]))

\* The registers and the code have their types; the list of windows is known
\* to hold instructions only.
LEMMA CodeType ==
    ASSUME code \in Windows
    PROVE  /\ Len(code) \in Nat \ {0} /\ DOMAIN code = 1..Len(code)
           /\ \A j \in DOMAIN code : code[j] \in Instruction
BY WindowsAssumption

\* What the two engines emit for each kind of instruction.
LEMMA Shapes ==
    ASSUME code \in Windows, engine \in Engines, NEW j \in 1..(Len(code) + 1)
    PROVE  Shape(j)
<1>1. CASE j = Len(code) + 1
  BY <1>1, CodeType DEF Shape, Is2, Copy, BranchToRest
<1>2. CASE j \in DOMAIN code
  <2>1. Copy(j) = Relocate(code[j], At(j)) /\ At(j) + code[j].imm = TargetOf(j)
    BY <1>2, CodeType DEF Copy, TargetOf
  <2>2. code[j] \in Instruction
    BY <1>2, CodeType
  <2>3. CASE code[j].op = "b"
    BY <1>2, <2>1, <2>3 DEF Shape, Is2, Relocate
  <2>4. CASE code[j].op = "bl"
    BY <1>2, <2>1, <2>4 DEF Shape, Is2, Relocate
  <2>5. CASE code[j].op = "bcond"
    BY <1>2, <2>1, <2>5 DEF Shape, IsPast, IsToOrPast, Relocate, Past, ToOrPast, Engines
  <2>6. CASE code[j].op = "cbz"
    BY <1>2, <2>1, <2>6 DEF Shape, IsPast, Relocate, Past
  <2>7. CASE code[j].op = "adr"
    BY <1>2, <2>1, <2>7 DEF Shape, Is1, Relocate
  <2>8. CASE code[j].op = "adrp"
    BY <1>2, <2>1, <2>8 DEF Shape, Is1, Relocate
  <2>9. CASE code[j].op = "ldr"
    BY <1>2, <2>1, <2>9 DEF Shape, Is2, Relocate
  <2>10. CASE code[j].op = "other"
    BY <1>2, <2>1, <2>10 DEF Shape, Is1, Relocate
  <2>11. QED
    BY <2>2, <2>3, <2>4, <2>5, <2>6, <2>7, <2>8, <2>9, <2>10 DEF Instruction
<1>3. QED
  BY <1>1, <1>2, CodeType

------------------------------------------------------------------------------
(* What running each kind of emitted instruction means.                     *)

\* Where the branch, call or load of a copy goes.
Dest(j) == IF j = Len(code) + 1 THEN At(j) ELSE TargetOf(j)
IsLast == k = Len(Copy(i))
OpIs(op) == i \in DOMAIN code /\ code[i].op = op

LEMMA Ops ==
    /\ \A r, v : Mov(r, v).op = "mov"
    /\ \A r : Br(r).op = "br" /\ Blr(r).op = "blr"
    /\ \A c, r, n : SkipIf(c, r, n).op = "skip"
    /\ \A r, c : LoadFromTmp(r, c).op = "load"
    /\ \A ins : Emit(ins).op = "other"
BY DEF Mov, Br, Blr, SkipIf, LoadFromTmp, Emit

\* Where the copy is, by the instruction that runs.
At1(a) == k = 1 /\ IsLast /\ Now = a
BeforeLast == k + 1 = Len(Copy(i))
At2(a, b) ==
    \/ k = 1 /\ BeforeLast /\ Now = a
    \/ k = 2 /\ IsLast /\ Now = b
AtPast ==
    /\ Len(Copy(i)) = 3
    /\ \/ k = 1 /\ Now = SkipIf(Inverse(code[i].sense), code[i].rn, 3)
       \/ k = 2 /\ BeforeLast /\ Now = Mov(Tmp, Dest(i))
       \/ k = 3 /\ IsLast /\ Now = Br(Tmp)
AtToOrPast ==
    /\ Len(Copy(i)) = 4
    /\ \/ k = 1 /\ Now = SkipIf(code[i].sense, code[i].rn, 2)
       \/ k = 2 /\ Now = SkipIf("al", code[i].rn, 3)
       \/ k = 3 /\ BeforeLast /\ Now = Mov(Tmp, Dest(i))
       \/ k = 4 /\ IsLast /\ Now = Br(Tmp)

LEMMA Where ==
    ASSUME TypeOK
    PROVE  \/ (i = Len(code) + 1 \/ OpIs("b")) /\ At2(Mov(Tmp, Dest(i)), Br(Tmp))
           \/ OpIs("bl") /\ At2(Mov(Tmp, Dest(i)), Blr(Tmp))
           \/ OpIs("bcond") /\ engine = "sandhook" /\ AtToOrPast
           \/ OpIs("bcond") /\ engine = "dobby" /\ AtPast
           \/ OpIs("cbz") /\ AtPast
           \/ OpIs("adr") /\ At1(Mov(code[i].rd, TargetOf(i)))
           \/ OpIs("adrp") /\ At1(Mov(code[i].rd, AdrpValue(code[i], At(i))))
           \/ OpIs("ldr") /\ At2(Mov(Tmp, Dest(i)),
                  LoadFromTmp(LiteralReg(code[i].rd), LiteralSize(code[i].size)))
           \/ OpIs("other") /\ At1(Emit(code[i]))
<1>1. Shape(i) /\ i \in 1..(Len(code) + 1) /\ k \in 1..Len(Copy(i))
  BY Shapes DEF TypeOK
<1>2. Len(code) \in Nat \ {0} /\ DOMAIN code = 1..Len(code)
  BY CodeType DEF TypeOK
<1>3. \A a : Is1(i, a) => At1(a)
  BY <1>1 DEF Is1, At1, Now, IsLast
<1>4. \A a, b : Is2(i, a, b) => At2(a, b)
  BY <1>1 DEF Is2, At2, Now, IsLast, BeforeLast
<1>5. i \in DOMAIN code => Dest(i) = TargetOf(i)
  BY <1>1, <1>2 DEF Dest
<1>6. i \in DOMAIN code /\ IsPast(i) => AtPast
  BY <1>1, <1>5 DEF IsPast, AtPast, Now, IsLast, BeforeLast
<1>7. i \in DOMAIN code /\ IsToOrPast(i) => AtToOrPast
  BY <1>1, <1>5 DEF IsToOrPast, AtToOrPast, Now, IsLast, BeforeLast
<1>8. QED
  BY <1>1, <1>3, <1>4, <1>5, <1>6, <1>7 DEF Shape, OpIs, Dest

LEMMA WhereOther ==
    ASSUME TypeOK, Now.op = "other"
    PROVE  OpIs("other") /\ IsLast /\ Now = Emit(code[i])
<1>1. OpIs("other")
  BY Where, Ops DEF At1, At2, AtPast, AtToOrPast
<1>2. IsLast
  BY Where, Ops DEF At1, At2, AtPast, AtToOrPast
<1>3. Now = Emit(code[i])
  BY Where, Ops DEF At1, At2, AtPast, AtToOrPast
<1>4. QED
  BY <1>1, <1>2, <1>3

LEMMA WhereMov ==
    ASSUME TypeOK, Now.op = "mov"
    PROVE  \/ OpIs("adr") /\ IsLast /\ Now = Mov(code[i].rd, TargetOf(i))
           \/ OpIs("adrp") /\ IsLast /\ Now = Mov(code[i].rd, AdrpValue(code[i], At(i)))
           \/ /\ BeforeLast /\ Now = Mov(Tmp, Dest(i))
              /\ k = 1 => ~OpIs("bcond") /\ ~OpIs("cbz")
              /\ k = 2 => ~(OpIs("bcond") /\ engine = "sandhook")
<1>1. \/ OpIs("adr") /\ IsLast /\ Now = Mov(code[i].rd, TargetOf(i))
      \/ OpIs("adrp") /\ IsLast /\ Now = Mov(code[i].rd, AdrpValue(code[i], At(i)))
      \/ /\ BeforeLast /\ Now = Mov(Tmp, Dest(i))
         /\ \/ k = 1 /\ (i = Len(code) + 1 \/ OpIs("b") \/ OpIs("bl") \/ OpIs("ldr"))
            \/ k = 2 /\ (OpIs("cbz") \/ (OpIs("bcond") /\ engine = "dobby"))
            \/ k = 3 /\ OpIs("bcond") /\ engine = "sandhook"
  BY Where, Ops DEF At1, At2, AtPast, AtToOrPast
<1>2. ~(i = Len(code) + 1 /\ i \in DOMAIN code)
  BY CodeType DEF TypeOK
<1>3. QED
  BY <1>1, <1>2 DEF OpIs

LEMMA WhereSkip ==
    ASSUME TypeOK, Now.op = "skip"
    PROVE  \/ /\ OpIs("cbz") \/ (OpIs("bcond") /\ engine = "dobby")
              /\ k = 1 /\ Len(Copy(i)) = 3 /\ Now = SkipIf(Inverse(code[i].sense), code[i].rn, 3)
           \/ /\ OpIs("bcond") /\ engine = "sandhook" /\ Len(Copy(i)) = 4
              /\ \/ k = 1 /\ Now = SkipIf(code[i].sense, code[i].rn, 2)
                 \/ k = 2 /\ Now = SkipIf("al", code[i].rn, 3)
<1>1. \/ (OpIs("cbz") \/ (OpIs("bcond") /\ engine = "dobby")) /\ AtPast
      \/ OpIs("bcond") /\ engine = "sandhook" /\ AtToOrPast
  BY Where, Ops DEF At1, At2, AtPast, AtToOrPast
<1>2. QED
  BY <1>1, Ops DEF AtPast, AtToOrPast

LEMMA WhereLoad ==
    ASSUME TypeOK, Now.op = "load"
    PROVE  /\ OpIs("ldr") /\ k = 2 /\ IsLast
           /\ Now = LoadFromTmp(LiteralReg(code[i].rd), LiteralSize(code[i].size))
<1>1. OpIs("ldr")
  BY Where, Ops DEF At1, At2, AtPast, AtToOrPast
<1>2. k = 2 /\ IsLast
  BY Where, Ops DEF At1, At2, AtPast, AtToOrPast
<1>3. Now = LoadFromTmp(LiteralReg(code[i].rd), LiteralSize(code[i].size))
  BY Where, Ops DEF At1, At2, AtPast, AtToOrPast
<1>4. QED
  BY <1>1, <1>2, <1>3

LEMMA WhereBlr ==
    ASSUME TypeOK, Now.op = "blr"
    PROVE  OpIs("bl") /\ k = 2 /\ IsLast /\ Now = Blr(Tmp)
<1>1. OpIs("bl")
  BY Where, Ops DEF At1, At2, AtPast, AtToOrPast
<1>2. k = 2 /\ IsLast
  BY Where, Ops DEF At1, At2, AtPast, AtToOrPast
<1>3. Now = Blr(Tmp)
  BY Where, Ops DEF At1, At2, AtPast, AtToOrPast
<1>4. QED
  BY <1>1, <1>2, <1>3

LEMMA WhereBr ==
    ASSUME TypeOK, Now.op = "br"
    PROVE  /\ k > 1 /\ IsLast /\ Now = Br(Tmp)
           /\ i = Len(code) + 1 \/ OpIs("b") \/ OpIs("bcond") \/ OpIs("cbz")
<1>1. k > 1
  BY Where, Ops DEF At1, At2, AtPast, AtToOrPast
<1>2. IsLast
  BY Where, Ops DEF At1, At2, AtPast, AtToOrPast
<1>3. Now = Br(Tmp)
  BY Where, Ops DEF At1, At2, AtPast, AtToOrPast
<1>4. i = Len(code) + 1 \/ OpIs("b") \/ OpIs("bcond") \/ OpIs("cbz")
  BY Where, Ops DEF At1, At2, AtPast, AtToOrPast
<1>5. QED
  BY <1>1, <1>2, <1>3, <1>4

------------------------------------------------------------------------------
(* The invariant.                                                           *)

\* A branch, call or load finds its address in the scratch register.
Holding == stage = "run" /\ Now.op \in {"br", "blr", "load"} => regs[Tmp] = Dest(i)

\* Behind the test of a conditional branch the condition is known.
Cond == Holds(code[i].sense, regs[code[i].rn])
ToSkip == engine = "sandhook" /\ OpIs("bcond") /\ k = 2
Judged ==
    stage = "run" /\ Exact /\ (OpIs("bcond") \/ OpIs("cbz")) /\ k > 1 =>
        IF ToSkip THEN ~Cond ELSE Cond

AtStart == stage = "hook" => i = 1 /\ k = 1

IInv == TypeOK /\ AtStart /\ Holding /\ Judged

LEMMA Types ==
    ASSUME TypeOK
    PROVE  /\ Len(code) \in Nat /\ DOMAIN code = 1..Len(code)
           /\ \A j \in DOMAIN code : code[j] \in Instruction
           /\ Tmp \in Regs /\ At(i) \in Int
           /\ i \in 1..(Len(code) + 1) /\ k \in Nat \ {0} /\ Len(Copy(i)) \in Nat
           /\ DOMAIN regs = Regs /\ Dest(i) \in Int
<1>1. Len(code) \in Nat \ {0} /\ DOMAIN code = 1..Len(code)
      /\ \A j \in DOMAIN code : code[j] \in Instruction
  BY CodeType DEF TypeOK
<1>2. Tmp \in Regs
  BY RegsAssumption DEF TypeOK, Tmp
<1>3. i \in 1..(Len(code) + 1) /\ k \in 1..Len(Copy(i))
  BY DEF TypeOK
<1>4. Len(Copy(i)) \in Nat
  BY <1>3, Shapes DEF TypeOK, Shape, Is1, Is2, IsPast, IsToOrPast
<1>5. At(i) \in Int
  BY <1>3, StartAssumption DEF At
<1>6. i # Len(code) + 1 => code[i].imm \in Int
  BY <1>1, <1>3 DEF Instruction
<1>7. Dest(i) \in Int
  BY <1>5, <1>6 DEF Dest, TargetOf
<1>8. DOMAIN regs = Regs
  BY DEF TypeOK
<1>9. QED
  BY <1>1, <1>2, <1>3, <1>4, <1>5, <1>7, <1>8

\* The copy does not change while it runs.
LEMMA SameCopy ==
    ASSUME UNCHANGED <<engine, code, page_size>>
    PROVE  /\ Tmp' = Tmp /\ Exact' = Exact
           /\ i' = i => Copy(i)' = Copy(i) /\ Dest(i)' = Dest(i)
           /\ i' = i + 1 => Copy(i)' = Copy(i + 1)
<1>1. Tmp' = Tmp /\ Exact' = Exact
  BY DEF Tmp, Exact, Rendered, Apart, InPatch, Span, Overwritten, TargetOf, At
<1>2. i' = i => Copy(i)' = Copy(i) /\ Dest(i)' = Dest(i)
  BY DEF Copy, Relocate, Past, ToOrPast, BranchToRest, AdrpValue, LiteralReg, LiteralSize,
     Mov, Br, Blr, SkipIf, LoadFromTmp, Emit, Tmp, At, Dest, TargetOf, Inverse, PageOf
<1>3. i' = i + 1 => Copy(i)' = Copy(i + 1)
  BY DEF Copy, Relocate, Past, ToOrPast, BranchToRest, AdrpValue, LiteralReg, LiteralSize,
     Mov, Br, Blr, SkipIf, LoadFromTmp, Emit, Tmp, At, Inverse, PageOf
<1>4. QED
  BY <1>1, <1>2, <1>3

\* No copy begins with a step that uses the scratch register.
LEMMA First ==
    ASSUME TypeOK, NEW j \in 1..(Len(code) + 1)
    PROVE  Len(Copy(j)) \in Nat \ {0} /\ Copy(j)[1].op \in {"mov", "skip", "other"}
<1>1. Shape(j)
  BY Shapes DEF TypeOK
<1>2. QED
  BY <1>1, Ops DEF Shape, Is1, Is2, IsPast, IsToOrPast

\* The last step of the copy of an instruction leads to the next one,
\* whatever it did to the registers.
LEMMA NextCopy ==
    ASSUME TypeOK, stage = "run", i \in DOMAIN code, i' = i + 1, k' = 1,
           regs' = [r \in Regs |-> regs'[r]], calls' \in Seq(Int),
           UNCHANGED <<engine, code, page_size, stage, patched, exit>>
    PROVE  IInv'
<1>1. i + 1 \in 1..(Len(code) + 1) /\ Copy(i)' = Copy(i + 1)
  BY Types, SameCopy
<1>2. Len(Copy(i)') \in Nat \ {0} /\ Now'.op \in {"mov", "skip", "other"}
  BY <1>1, First DEF Now
<1>3. TypeOK'
  BY <1>1, <1>2 DEF TypeOK
<1>4. Holding'
  BY <1>2 DEF Holding
<1>5. Judged' /\ AtStart'
  BY DEF Judged, AtStart
<1>6. QED
  BY <1>3, <1>4, <1>5 DEF IInv

\* A step within the copy of an instruction.
LEMMA WithinCopy ==
    ASSUME TypeOK, stage = "run", i' = i, k' \in 1..Len(Copy(i)),
           regs' = [r \in Regs |-> regs'[r]], UNCHANGED calls,
           UNCHANGED <<engine, code, page_size, stage, patched, exit>>
    PROVE  TypeOK' /\ Copy(i)' = Copy(i) /\ Now' = Copy(i)[k']
<1>1. Copy(i)' = Copy(i)
  BY SameCopy
<1>2. QED
  BY <1>1 DEF TypeOK, Now

LEMMA Going ==
    ASSUME TypeOK
    PROVE  /\ IsLast /\ Forward(1) => i' = i + 1 /\ k' = 1
           /\ BeforeLast /\ Forward(1) => i' = i /\ k' = k + 1 /\ k' = Len(Copy(i))
           /\ \A n \in Nat : Forward(n) =>
                 UNCHANGED <<engine, code, page_size, stage, patched, exit>>
BY Types DEF Forward, IsLast, BeforeLast

LEMMA InitInvariant == Init => IInv
<1>1. SUFFICES ASSUME Init PROVE IInv
  OBVIOUS
<1>2. Len(code) \in Nat \ {0} /\ DOMAIN code = 1..Len(code)
  BY <1>1, CodeType DEF Init
<1>3. Shape(1)
  BY <1>1, <1>2, Shapes DEF Init
<1>4. Len(Copy(1)) \in Nat \ {0}
  BY <1>3 DEF Shape, Is1, Is2, IsPast, IsToOrPast
<1>5. TypeOK
  <2>1. regs = [r \in Regs |-> regs[r]]
    BY <1>1, InputsAssumption DEF Init
  <2>2. calls \in Seq(Int) /\ exit \in Int
    BY <1>1, StartAssumption DEF Init
  <2>3. i \in 1..(Len(code) + 1) /\ k \in 1..Len(Copy(i))
    BY <1>1, <1>2, <1>4 DEF Init
  <2>4. QED
    BY <1>1, <2>1, <2>2, <2>3 DEF Init, TypeOK
<1>6. Holding /\ Judged /\ AtStart
  BY <1>1 DEF Init, Holding, Judged, AtStart
<1>7. QED
  BY <1>5, <1>6 DEF IInv

------------------------------------------------------------------------------
(* Every step keeps the invariant.                                          *)

LEMMA OtherKeeps == ASSUME IInv, RunOther PROVE IInv'
<1>1. TypeOK /\ stage = "run" /\ OpIs("other") /\ IsLast /\ i \in DOMAIN code
  BY WhereOther DEF IInv, RunOther, Runs, OpIs
<1>2. regs' = [r \in Regs |-> regs'[r]]
  BY <1>1, Types DEF RunOther
<1>3. QED
  BY <1>1, <1>2, Going, NextCopy DEF RunOther, TypeOK

LEMMA LoadKeeps == ASSUME IInv, RunLoad PROVE IInv'
<1>1. TypeOK /\ stage = "run" /\ OpIs("ldr") /\ IsLast /\ i \in DOMAIN code
  BY WhereLoad DEF IInv, RunLoad, Runs, OpIs
<1>2. regs' = [r \in Regs |-> regs'[r]]
  BY <1>1, Types DEF RunLoad, Loaded, TypeOK
<1>3. QED
  BY <1>1, <1>2, Going, NextCopy DEF RunLoad, TypeOK

LEMMA BlrKeeps == ASSUME IInv, RunBlr PROVE IInv'
<1>1. TypeOK /\ stage = "run" /\ OpIs("bl") /\ IsLast /\ i \in DOMAIN code
  BY WhereBlr DEF IInv, RunBlr, Runs, OpIs
<1>2. regs[Now.rn] \in Int
  BY WhereBlr, Types DEF IInv, RunBlr, Runs, Holding, Blr
<1>3. regs' = [r \in Regs |-> regs'[r]] /\ calls' \in Seq(Int)
  BY <1>1, <1>2, Types DEF RunBlr, TypeOK
<1>4. QED
  BY <1>1, <1>3, Going, NextCopy DEF RunBlr

LEMMA BrKeeps == ASSUME IInv, RunBr PROVE IInv'
<1>1. TypeOK /\ stage = "run" /\ Now = Br(Tmp) /\ Now.op = "br"
  BY WhereBr DEF IInv, RunBr, Runs
<1>2. regs[Now.rn] = Dest(i) /\ Dest(i) \in Int
  BY <1>1, Types DEF IInv, Holding, Br
<1>3. Copy(i)' = Copy(i)
  BY SameCopy DEF RunBr
<1>4. TypeOK'
  BY <1>1, <1>2, <1>3 DEF TypeOK, RunBr
<1>5. Holding' /\ Judged' /\ AtStart'
  BY DEF Holding, Judged, AtStart, RunBr
<1>6. QED
  BY <1>4, <1>5 DEF IInv

LEMMA HookKeeps == ASSUME IInv, Hook PROVE IInv'
<1>1. /\ TypeOK /\ stage = "hook"
      /\ UNCHANGED <<engine, code, page_size, patched, i, k, regs, calls, exit>>
  BY DEF IInv, Hook
<1>2. Copy(i)' = Copy(i)
  BY <1>1, SameCopy
<1>3. stage' \in {"run", "aborted"}
  BY DEF Hook
<1>4. TypeOK'
  BY <1>1, <1>2, <1>3 DEF TypeOK
<1>5. Now' = Copy(1)[1] /\ k' = 1 /\ Now'.op \in {"mov", "skip", "other"}
  BY <1>1, <1>2, First, Types DEF Now, IInv, AtStart
<1>6. Holding' /\ Judged' /\ AtStart'
  BY <1>3, <1>5 DEF Holding, Judged, AtStart
<1>7. QED
  BY <1>4, <1>6 DEF IInv

LEMMA PatchKeeps == ASSUME IInv, WritePatch PROVE IInv'
<1>1. TypeOK /\ UNCHANGED <<engine, code, page_size, stage, i, k, regs, calls, exit>>
  BY DEF IInv, WritePatch
<1>2. /\ Copy(i)' = Copy(i) /\ Dest(i)' = Dest(i) /\ Exact' = Exact /\ Tmp' = Tmp
      /\ patched' \in BOOLEAN
  BY <1>1, SameCopy DEF WritePatch
<1>3. TypeOK' /\ Holding'
  BY <1>1, <1>2 DEF IInv, TypeOK, Holding, Now
<1>4. AtStart' /\ Judged'
  BY <1>1, <1>2 DEF IInv, AtStart, Judged, Cond, ToSkip, OpIs
<1>5. QED
  BY <1>3, <1>4 DEF IInv

LEMMA MovKeeps == ASSUME IInv, RunMov PROVE IInv'
<1>1. TypeOK /\ stage = "run" /\ Now.op = "mov" /\ Forward(1) /\ UNCHANGED calls
  BY DEF IInv, RunMov, Runs
<1>2. regs' = [r \in Regs |-> regs'[r]]
  BY <1>1, Types DEF RunMov
<1>3. CASE (OpIs("adr") \/ OpIs("adrp")) /\ IsLast
  BY <1>1, <1>2, <1>3, Going, NextCopy DEF TypeOK, OpIs
<1>4. CASE /\ BeforeLast /\ Now = Mov(Tmp, Dest(i))
           /\ k = 1 => ~OpIs("bcond") /\ ~OpIs("cbz")
           /\ k = 2 => ~(OpIs("bcond") /\ engine = "sandhook")
  <2>1. i' = i /\ k' = k + 1 /\ k' \in 1..Len(Copy(i))
        /\ UNCHANGED <<engine, code, page_size, stage, patched, exit>>
    BY <1>1, <1>4, Going, Types
  <2>2. TypeOK' /\ Exact' = Exact /\ Dest(i)' = Dest(i) /\ Tmp' = Tmp
    BY <1>1, <1>2, <2>1, WithinCopy, SameCopy
  <2>3. regs' = [regs EXCEPT ![Tmp] = Dest(i)]
    BY <1>4 DEF RunMov, Mov
  <2>4. Holding'
    BY <1>1, <2>2, <2>3, Types DEF Holding
  <2>5. OpIs("bcond")' = OpIs("bcond") /\ OpIs("cbz")' = OpIs("cbz")
    BY <2>1 DEF OpIs
  <2>6. ASSUME Exact, OpIs("bcond") \/ OpIs("cbz") PROVE Cond' = Cond
    <3>1. code[i].rn # Tmp /\ i \in DOMAIN code
      BY <2>6 DEF Exact, Rendered, OpIs
    <3>2. code[i].rn \in Regs
      BY <1>1, <3>1, Types DEF Instruction
    <3>3. QED
      BY <1>1, <2>1, <2>3, <3>1, <3>2, Types DEF Cond, Holds
  <2>7. Judged'
    <3>1. ASSUME stage' = "run", Exact', (OpIs("bcond") \/ OpIs("cbz"))', k' > 1
          PROVE  Cond' /\ ~ToSkip'
      <4>1. Exact /\ (OpIs("bcond") \/ OpIs("cbz")) /\ k > 1 /\ k + 1 # 2
        BY <1>1, <1>4, <2>2, <2>5, <3>1, Types
      <4>2. Cond
        BY <1>1, <1>4, <4>1 DEF IInv, Judged, ToSkip
      <4>3. QED
        BY <2>1, <2>6, <4>1, <4>2, Types DEF ToSkip
    <3>2. QED
      BY <3>1 DEF Judged
  <2>8. QED
    BY <2>1, <2>2, <2>4, <2>7, <1>1 DEF IInv, AtStart
<1>5. QED
  BY <1>1, <1>3, <1>4, WhereMov

\* A test of Past: on to the branch when the condition holds, past it when not.
LEMMA SkipPastKeeps ==
    ASSUME IInv, RunSkip, Len(Copy(i)) = 3, k = 1,
           OpIs("cbz") \/ (OpIs("bcond") /\ engine = "dobby"),
           Now = SkipIf(Inverse(code[i].sense), code[i].rn, 3)
    PROVE  IInv'
<1>1. /\ TypeOK /\ stage = "run"
      /\ UNCHANGED <<engine, code, page_size, stage, patched, exit, regs, calls>>
      /\ i \in DOMAIN code /\ code[i] \in Instruction
  BY Types DEF IInv, RunSkip, Runs, Forward, OpIs
<1>2. regs' = [r \in Regs |-> regs'[r]] /\ calls' \in Seq(Int)
  BY <1>1 DEF TypeOK
<1>3. CASE Holds(Inverse(code[i].sense), regs[code[i].rn])
  <2>1. i' = i + 1 /\ k' = 1
    BY <1>3, Types, <1>1 DEF RunSkip, SkipIf, Forward
  <2>2. QED
    BY <1>1, <1>2, <2>1, NextCopy
<1>4. CASE ~Holds(Inverse(code[i].sense), regs[code[i].rn])
  <2>1. i' = i /\ k' = 2
    BY <1>4 DEF RunSkip, SkipIf, Forward
  <2>2. TypeOK' /\ Now' = Copy(i)[2] /\ Exact' = Exact
    BY <1>1, <1>2, <2>1, WithinCopy, SameCopy
  <2>3. IsPast(i)
    <3>1. Shape(i) /\ i # Len(code) + 1
      BY <1>1, Shapes, Types DEF TypeOK
    <3>2. QED
      BY <3>1 DEF Shape, OpIs
  <2>4. Holding'
    BY <2>2, <2>3, Ops DEF IsPast, Holding
  <2>5. Exact => Cond
    <3>1. Exact => code[i].sense \in {"z", "nz"}
      BY <1>1 DEF Exact, Rendered, Instruction, Senses, OpIs, Engines
    <3>2. QED
      BY <1>4, <3>1 DEF Cond, Holds, Inverse
  <2>6. Judged'
    BY <1>1, <2>1, <2>2, <2>5 DEF Judged, Cond, ToSkip, OpIs
  <2>7. QED
    BY <1>1, <2>2, <2>4, <2>6 DEF IInv, AtStart
<1>5. QED
  BY <1>3, <1>4

\* The tests of ToOrPast: to the branch, or to the jump over it.
LEMMA SkipToOrPastKeeps ==
    ASSUME IInv, RunSkip, Len(Copy(i)) = 4, OpIs("bcond"), engine = "sandhook",
           \/ k = 1 /\ Now = SkipIf(code[i].sense, code[i].rn, 2)
           \/ k = 2 /\ Now = SkipIf("al", code[i].rn, 3)
    PROVE  IInv'
<1>1. /\ TypeOK /\ stage = "run"
      /\ UNCHANGED <<engine, code, page_size, stage, patched, exit, regs, calls>>
      /\ i \in DOMAIN code
  BY DEF IInv, RunSkip, Runs, Forward, OpIs
<1>2. regs' = [r \in Regs |-> regs'[r]] /\ calls' \in Seq(Int)
  BY <1>1 DEF TypeOK
<1>3. CASE k = 2 /\ Now = SkipIf("al", code[i].rn, 3)
  <2>1. i' = i + 1 /\ k' = 1
    BY <1>3, Types, <1>1 DEF RunSkip, SkipIf, Forward, Holds
  <2>2. QED
    BY <1>1, <1>2, <2>1, NextCopy
<1>4. CASE k = 1 /\ Now = SkipIf(code[i].sense, code[i].rn, 2)
  <2>1. i' = i /\ k' = IF Cond THEN 3 ELSE 2
    BY <1>4 DEF RunSkip, SkipIf, Forward, Cond
  <2>2. TypeOK' /\ Now' = Copy(i)[k'] /\ Exact' = Exact
    BY <1>1, <1>2, <2>1, WithinCopy, SameCopy
  <2>3. IsToOrPast(i)
    <3>1. Shape(i) /\ i # Len(code) + 1
      BY <1>1, Shapes, Types DEF TypeOK
    <3>2. QED
      BY <3>1 DEF Shape, OpIs
  <2>4. Holding'
    BY <2>1, <2>2, <2>3, Ops DEF IsToOrPast, Holding
  <2>5. Judged'
    BY <1>1, <2>1, <2>2 DEF Judged, Cond, ToSkip, OpIs
  <2>6. QED
    BY <1>1, <2>2, <2>4, <2>5 DEF IInv, AtStart
<1>5. QED
  BY <1>3, <1>4

LEMMA NextInvariant == ASSUME IInv, [Next]_vars PROVE IInv'
<1>1. CASE Hook
  BY <1>1, HookKeeps
<1>2. CASE RunOther
  BY <1>2, OtherKeeps
<1>3. CASE RunMov
  BY <1>3, MovKeeps
<1>4. CASE RunLoad
  BY <1>4, LoadKeeps
<1>5. CASE RunSkip
  BY <1>5, WhereSkip, SkipPastKeeps, SkipToOrPastKeeps DEF IInv, RunSkip, Runs
<1>6. CASE RunBlr
  BY <1>6, BlrKeeps
<1>7. CASE RunBr
  BY <1>7, BrKeeps
<1>8. CASE UNCHANGED vars
  <2>1. Copy(i)' = Copy(i) /\ Dest(i)' = Dest(i) /\ Exact' = Exact /\ Tmp' = Tmp
    BY <1>8, SameCopy DEF vars
  <2>2. TypeOK' /\ Holding'
    BY <1>8, <2>1 DEF IInv, TypeOK, Holding, Now, vars
  <2>3. AtStart' /\ Judged'
    BY <1>8, <2>1 DEF IInv, AtStart, Judged, Cond, ToSkip, OpIs, vars
  <2>4. QED
    BY <2>2, <2>3 DEF IInv
<1>9. CASE WritePatch
  BY <1>9, PatchKeeps
<1>10. QED
  BY <1>1, <1>2, <1>3, <1>4, <1>5, <1>6, <1>7, <1>8, <1>9 DEF Next, Run

\* The types hold, for every code that is overwritten: a branch always finds
\* an address in the scratch register, and no step leads out of the copy
\* (relo_relocate and Translator lay the copy out one instruction after the
\* other).
THEOREM TypeInvariant == Spec => []TypeOK
<1>1. Spec => []IInv
  BY InitInvariant, NextInvariant, PTL DEF Spec
<1>2. IInv => TypeOK
  BY DEF IInv
<1>3. QED
  BY <1>1, <1>2, PTL

LEMMA SpecInvariant == Spec => []IInv
BY InitInvariant, NextInvariant, PTL DEF Spec

------------------------------------------------------------------------------
(* Execution comes back into the patch only where the code branched to it.  *)

LEMMA BrLeaves ==
    ASSUME IInv, RunBr
    PROVE  exit' = Dest(i) /\ (i = Len(code) + 1 \/ i \in Branches)
<1>1. TypeOK /\ Now = Br(Tmp)
      /\ (i = Len(code) + 1 \/ OpIs("b") \/ OpIs("bcond") \/ OpIs("cbz"))
  BY WhereBr DEF IInv, RunBr, Runs
<1>2. Now.op = "br" /\ Now.rn = Tmp
  BY <1>1 DEF Br
<1>3. exit' = Dest(i)
  BY <1>2 DEF IInv, Holding, RunBr, Runs
<1>4. QED
  BY <1>1, <1>3 DEF Branches, OpIs

\* Whatever the code, the copy leads into the overwritten instructions only
\* by a branch of theirs: the branch that CodeGen appends to the copy
\* (LiteralLdrBranch, DirectJump) goes right behind them.
THEOREM PatchIsBypassed == Spec => []NeverIntoPatch
<1>1. Init => NeverIntoPatch
  BY DEF Init, NeverIntoPatch
<1>2. ASSUME IInv, NeverIntoPatch, [Next]_vars PROVE NeverIntoPatch'
  <2>1. CASE RunBr
    <3>1. exit' = Dest(i) /\ UNCHANGED code
      BY <1>2, <2>1, BrLeaves DEF RunBr
    <3>2. CASE i = Len(code) + 1
      <4>1. exit' \notin Overwritten
        BY <1>2, <3>1, <3>2, Types, StartAssumption DEF IInv, Dest, Overwritten, At
      <4>2. QED
        BY <3>1, <4>1 DEF NeverIntoPatch, Overwritten, At
    <3>3. CASE i # Len(code) + 1
      <4>1. i \in Branches /\ exit' = TargetOf(i)
        BY <1>2, <2>1, <3>1, <3>3, BrLeaves DEF Dest
      <4>2. QED
        BY <3>1, <4>1 DEF NeverIntoPatch, Branches, TargetOf, At
    <3>4. QED
      BY <3>2, <3>3
  <2>2. CASE UNCHANGED vars
    BY <1>2, <2>2 DEF NeverIntoPatch, Overwritten, Branches, TargetOf, At, vars
  <2>3. CASE stage' # "left"
    BY <2>3 DEF NeverIntoPatch
  <2>4. CASE WritePatch
    BY <1>2, <2>4 DEF NeverIntoPatch, Overwritten, Branches, TargetOf, At, WritePatch
  <2>5. Next => RunBr \/ WritePatch \/ stage' # "left"
    BY DEF Next, Run, Hook, RunOther, RunMov, RunLoad, RunSkip, RunBlr, Runs, Forward
  <2>6. QED
    BY <1>2, <2>1, <2>2, <2>3, <2>4, <2>5
<1>3. QED
  BY <1>1, <1>2, SpecInvariant, PTL DEF Spec

------------------------------------------------------------------------------
(* The copy amounts to the original.                                        *)

Seen == [r \in Regs \ {Tmp} |-> regs[r]]
Pc == IF stage = "left" THEN exit ELSE At(i)

LEMMA StartsAsOriginal == Init => Original!Init
BY StartAssumption DEF Init, Original!Init, At

\* What is not exact is not trusted.
LEMMA InexactIsFree == ASSUME ~Exact, [Next]_vars PROVE [Original!Next]_(Original!vars)
<1>1. UNCHANGED <<engine, code, page_size>>
  BY DEF Next, Run, Hook, WritePatch, RunOther, RunMov, RunLoad, RunSkip, RunBlr, RunBr,
     Forward, vars
<1>2. UNCHANGED <<code, Exact>>
  BY <1>1, SameCopy
<1>3. QED
  BY <1>2 DEF Original!Next

\* The instruction that the abstract program counter is at.
LEMMA AtInstruction ==
    ASSUME IInv, stage = "run", i \in DOMAIN code
    PROVE  /\ Original!InCode /\ Original!Ins = code[i] /\ Original!Target = TargetOf(i)
           /\ Pc = At(i) /\ Pc + 1 = At(i + 1)
<1>1. i \in 1..Len(code) /\ Start \in Int /\ Len(code) \in Nat
  BY Types, StartAssumption DEF IInv
<1>2. At(i) - Start + 1 = i /\ At(i) \in Start..(Start + Len(code) - 1) /\ At(i) + 1 = At(i + 1)
  BY <1>1 DEF At
<1>3. QED
  BY <1>2 DEF Original!InCode, Original!Ins, Original!Target, TargetOf, Pc

\* What an exact copy does not touch.
LEMMA Untouched ==
    ASSUME IInv, Exact, i \in DOMAIN code
    PROVE  /\ code[i] \in Instruction /\ Rendered(code[i]) /\ Apart(i)
           /\ code[i].rd \in Regs \ {Tmp} /\ code[i].rn \in Regs \ {Tmp}
           /\ Seen[code[i].rn] = regs[code[i].rn]
BY Types DEF IInv, Exact, Rendered, Seen, Instruction

\* The steps of the copy that end the copy of an instruction.
LEMMA Onwards ==
    ASSUME IInv, stage = "run", i \in DOMAIN code, i' = i + 1,
           UNCHANGED <<engine, code, page_size, stage, patched, exit>>
    PROVE  Original!Onward /\ UNCHANGED <<code, Exact>> /\ Tmp' = Tmp /\ Pc' = At(i + 1)
<1>1. Pc' = At(i + 1)
  BY DEF Pc, At
<1>2. QED
  BY <1>1, AtInstruction, SameCopy DEF Original!Onward, Pc, At

LEMMA OtherImplements ==
    ASSUME IInv, Exact, RunOther PROVE Original!Next
<1>1. /\ stage = "run" /\ OpIs("other") /\ i \in DOMAIN code /\ Now = Emit(code[i])
      /\ i' = i + 1 /\ UNCHANGED <<engine, code, page_size, stage, patched, exit>>
  BY WhereOther, Going DEF IInv, RunOther, Runs, OpIs
<1>2. regs' = [regs EXCEPT ![code[i].rd] = Alu(regs[code[i].rn])] /\ UNCHANGED calls
  BY <1>1 DEF RunOther, Emit
<1>3. Seen' = [Seen EXCEPT ![code[i].rd] = Alu(Seen[code[i].rn])]
  BY <1>1, <1>2, Untouched, Onwards, Types DEF IInv, Seen
<1>4. Original!Other
  BY <1>1, <1>2, <1>3, AtInstruction, Onwards DEF Original!Other, Original!Is, Original!Set, Seen, OpIs
<1>5. QED
  BY <1>1, <1>4, Onwards DEF Original!Next, Original!Step

LEMMA BlrImplements ==
    ASSUME IInv, Exact, RunBlr PROVE Original!Next
<1>1. /\ stage = "run" /\ OpIs("bl") /\ i \in DOMAIN code /\ Now = Blr(Tmp) /\ Now.op = "blr"
      /\ i' = i + 1 /\ UNCHANGED <<engine, code, page_size, stage, patched, exit>>
  BY WhereBlr, Going DEF IInv, RunBlr, Runs, OpIs
<1>2. Dest(i) = TargetOf(i) /\ regs[Now.rn] = Dest(i)
  BY <1>1, Types DEF IInv, Holding, Dest, Blr
<1>3. calls' = Append(calls, TargetOf(i)) /\ Seen' = Seen
  BY <1>1, <1>2, Onwards DEF RunBlr, Seen
<1>4. Original!BranchLink
  BY <1>1, <1>3, AtInstruction, Onwards DEF Original!BranchLink, Original!Is, Seen, OpIs
<1>5. QED
  BY <1>1, <1>4, Onwards DEF Original!Next, Original!Step

LEMMA LoadImplements ==
    ASSUME IInv, Exact, RunLoad PROVE Original!Next
<1>1. /\ stage = "run" /\ OpIs("ldr") /\ i \in DOMAIN code /\ Now.op = "load"
      /\ Now = LoadFromTmp(LiteralReg(code[i].rd), LiteralSize(code[i].size))
      /\ i' = i + 1 /\ UNCHANGED <<engine, code, page_size, stage, patched, exit>> /\ UNCHANGED calls
  BY WhereLoad, Going DEF IInv, RunLoad, Runs, OpIs
<1>2. Dest(i) = TargetOf(i) /\ regs[Tmp] = TargetOf(i)
  BY <1>1, Types DEF IInv, Holding, Dest
<1>3. LiteralReg(code[i].rd) = code[i].rd /\ LiteralSize(code[i].size) = code[i].size
  BY <1>1, Untouched DEF Rendered, LiteralReg, LiteralSize, OpIs
<1> DEFINE value == Load(code[i].size, TargetOf(i))
<1>4. regs' = Loaded(regs, code[i].rd, code[i].size, value)
  <2>1. regs' = Loaded(regs, code[i].rd, code[i].size, LoadNow(code[i].size, TargetOf(i)))
    BY <1>1, <1>2, <1>3 DEF RunLoad, LoadFromTmp
  <2>2. code[i].size = "prfm" \/ ~InPatch(code[i].size, TargetOf(i))
    BY <1>1, Untouched DEF Apart, OpIs
  <2>3. QED
    BY <2>1, <2>2 DEF Loaded, LoadNow
<1>5. Seen' = Loaded(Seen, code[i].rd, code[i].size, value)
  <2> HIDE DEF value
  <2>1. QED
    BY <1>1, <1>4, Untouched, Onwards, Types DEF IInv, Seen, Loaded
<1>6. Original!LoadLiteral
  BY <1>1, <1>5, AtInstruction, Onwards
  DEF Original!LoadLiteral, Original!Is, Original!Loaded, Loaded, Seen, OpIs
<1>7. QED
  BY <1>1, <1>6, Onwards DEF Original!Next, Original!Step

\* ADRP from the copy: Dobby aligns the sum, SandHook trusts the page size.
LEMMA AdrpExact ==
    ASSUME IInv, Exact, OpIs("adrp")
    PROVE  AdrpValue(code[i], At(i)) = PageOf(At(i)) + code[i].imm * Granule
<1>1. At(i) \in Int /\ code[i].imm \in Int /\ engine \in Engines
  BY Types DEF IInv, TypeOK, OpIs, Instruction
<1>2. CASE engine = "dobby"
  <2>1. \A a, m \in Int : (a + m * 1024) % 1024 = a % 1024
    OBVIOUS
  <2>2. (At(i) + code[i].imm * 1024) % 1024 = At(i) % 1024
    BY <1>1, <2>1
  <2>3. QED
    BY <1>1, <1>2, <2>2 DEF AdrpValue, PageOf, Granule
<1>3. CASE engine = "sandhook"
  <2>1. page_size = Granule
    BY <1>3, Untouched DEF Rendered, OpIs
  <2>2. QED
    BY <1>3, <2>1 DEF AdrpValue, PageOf
<1>4. QED
  BY <1>1, <1>2, <1>3 DEF Engines

\* Stutters: steps that prepare or test, within the copy of an instruction.
LEMMA Stutters ==
    ASSUME IInv, stage = "run", i' = i,
           UNCHANGED <<engine, code, page_size, stage, patched, exit, calls>>,
           \A r \in Regs \ {Tmp} : regs'[r] = regs[r]
    PROVE  UNCHANGED Original!vars
<1>1. UNCHANGED <<code, Exact, Tmp>> /\ Pc' = Pc
  BY SameCopy DEF Pc, At
<1>2. Seen' = Seen
  BY <1>1 DEF Seen
<1>3. QED
  BY <1>1, <1>2 DEF Original!vars, Pc, Seen

LEMMA MovImplements ==
    ASSUME IInv, Exact, RunMov PROVE [Original!Next]_(Original!vars)
<1>1. /\ stage = "run" /\ Forward(1) /\ Now.op = "mov" /\ UNCHANGED calls
      /\ UNCHANGED <<engine, code, page_size, stage, patched, exit>>
  BY DEF RunMov, Runs, Forward
<1>2. CASE OpIs("adr") /\ IsLast /\ Now = Mov(code[i].rd, TargetOf(i))
  <2>1. i \in DOMAIN code /\ i' = i + 1
    BY <1>1, <1>2, Going DEF IInv, OpIs
  <2>2. Seen' = [Seen EXCEPT ![code[i].rd] = TargetOf(i)]
    BY <1>1, <1>2, <2>1, Untouched, Onwards, Types DEF IInv, Seen, RunMov, Mov
  <2>3. Original!Adr
    BY <1>1, <1>2, <2>1, <2>2, AtInstruction, Onwards
    DEF Original!Adr, Original!Is, Original!Set, Seen, OpIs
  <2>4. QED
    BY <1>1, <2>1, <2>3, Onwards DEF Original!Next, Original!Step
<1>3. CASE OpIs("adrp") /\ IsLast /\ Now = Mov(code[i].rd, AdrpValue(code[i], At(i)))
  <2>1. i \in DOMAIN code /\ i' = i + 1
    BY <1>1, <1>3, Going DEF IInv, OpIs
  <2>2. Seen' = [Seen EXCEPT ![code[i].rd] = PageOf(At(i)) + code[i].imm * Granule]
    BY <1>1, <1>3, <2>1, Untouched, AdrpExact, Onwards, Types DEF IInv, Seen, RunMov, Mov
  <2>3. Pc = At(i) /\ Original!PageOf(Pc) = PageOf(At(i)) /\ Original!Granule = Granule
    BY <1>1, <2>1, AtInstruction DEF PageOf, Original!PageOf, Granule, Original!Granule
  <2>4. Original!Adrp
    BY <1>1, <1>3, <2>1, <2>2, <2>3, AtInstruction, Onwards
    DEF Original!Adrp, Original!Is, Original!Set, Seen, Pc, OpIs
  <2>5. QED
    BY <1>1, <2>1, <2>4, Onwards DEF Original!Next, Original!Step
<1>4. CASE BeforeLast /\ Now = Mov(Tmp, Dest(i))
  <2>1. i' = i
    BY <1>1, <1>4, Going DEF IInv
  <2>2. \A r \in Regs \ {Tmp} : regs'[r] = regs[r]
    BY <1>4, Types DEF IInv, RunMov, Mov
  <2>3. QED
    BY <1>1, <2>1, <2>2, Stutters
<1>5. QED
  BY <1>1, <1>2, <1>3, <1>4, WhereMov DEF IInv

\* The original goes past a conditional branch whose condition does not hold,
\* and to its target when it does.
LEMMA Conditional ==
    ASSUME IInv, Exact, stage = "run", OpIs("bcond") \/ OpIs("cbz"),
           UNCHANGED <<engine, code, page_size, regs, calls>>,
           IF Cond THEN Pc' = TargetOf(i) ELSE Pc' = Pc + 1
    PROVE  Original!Next
<1>1. i \in DOMAIN code
  BY DEF OpIs
<1>2. Seen' = Seen /\ UNCHANGED <<code, Exact>>
  BY SameCopy DEF Seen
<1>3. Original!Holds(code[i].sense, Seen[code[i].rn]) <=> Cond
  BY <1>1, Untouched DEF Original!Holds, Holds, Cond
<1>4. Original!ConditionalBranch
  BY <1>1, <1>2, <1>3, AtInstruction
  DEF Original!ConditionalBranch, Original!Is, Original!Onward, Seen, Pc, OpIs
<1>5. QED
  BY <1>2, <1>4 DEF Original!Next, Original!Step

LEMMA SkipImplements ==
    ASSUME IInv, Exact, RunSkip PROVE [Original!Next]_(Original!vars)
<1>1. /\ stage = "run" /\ Now.op = "skip" /\ i \in DOMAIN code
      /\ OpIs("bcond") \/ OpIs("cbz")
      /\ UNCHANGED <<engine, code, page_size, stage, patched, exit, regs, calls>>
      /\ Forward(IF Holds(Now.sense, regs[Now.rn]) THEN Now.n ELSE 1)
  BY WhereSkip DEF IInv, RunSkip, Runs, Forward, OpIs
<1>2. CASE i' = i
  BY <1>1, <1>2, Stutters
<1>3. CASE i' = i + 1 /\ ~Cond
  <2>1. Pc' = Pc + 1
    BY <1>1, <1>3, AtInstruction, Onwards DEF Pc
  <2>2. QED
    BY <1>1, <1>3, <2>1, Conditional
<1>4. CASE k = 1 /\ Len(Copy(i)) = 3 /\ Now = SkipIf(Inverse(code[i].sense), code[i].rn, 3)
  <2>1. Holds(Inverse(code[i].sense), regs[code[i].rn]) \/ i' = i
    BY <1>1, <1>4 DEF Forward, SkipIf
  <2>2. i' = i \/ i' = i + 1
    BY <1>1 DEF Forward
  <2>3. code[i].sense \in {"z", "nz"} \/ (OpIs("bcond") /\ engine = "sandhook")
    BY <1>1, Untouched DEF IInv, TypeOK, Rendered, Instruction, Senses, OpIs, Engines
  <2>4. code[i].sense \in {"z", "nz"}
    BY <1>1, <1>4, <2>3, WhereSkip DEF IInv, OpIs
  <2>5. Holds(Inverse(code[i].sense), regs[code[i].rn]) => ~Cond
    BY <2>4 DEF Holds, Inverse, Cond
  <2>6. QED
    BY <1>2, <1>3, <2>1, <2>2, <2>5
<1>5. CASE OpIs("bcond") /\ engine = "sandhook" /\ Len(Copy(i)) = 4
           /\ k = 1 /\ Now = SkipIf(code[i].sense, code[i].rn, 2)
  BY <1>1, <1>2, <1>5 DEF Forward, SkipIf
<1>6. CASE OpIs("bcond") /\ engine = "sandhook" /\ Len(Copy(i)) = 4
           /\ k = 2 /\ Now = SkipIf("al", code[i].rn, 3)
  <2>1. ~Cond
    BY <1>1, <1>6 DEF IInv, Judged, ToSkip
  <2>2. i' = i \/ i' = i + 1
    BY <1>1 DEF Forward
  <2>3. QED
    BY <1>2, <1>3, <2>1, <2>2
<1>7. QED
  BY <1>1, <1>4, <1>5, <1>6, WhereSkip DEF IInv

LEMMA BrImplements ==
    ASSUME IInv, Exact, RunBr PROVE [Original!Next]_(Original!vars)
<1>1. /\ stage = "run" /\ stage' = "left" /\ Now.op = "br" /\ TypeOK
      /\ UNCHANGED <<engine, code, page_size, patched, i, k, regs, calls>>
  BY DEF IInv, RunBr, Runs
<1>2. Pc' = Dest(i) /\ UNCHANGED <<code, Exact, Tmp>> /\ Seen' = Seen
  BY <1>1, BrLeaves, SameCopy DEF Pc, Seen
<1>3. CASE i = Len(code) + 1
  BY <1>1, <1>2, <1>3 DEF Original!vars, Pc, Seen, Dest
<1>4. CASE OpIs("b")
  <2>1. i \in DOMAIN code /\ Pc' = TargetOf(i)
    BY <1>1, <1>2, <1>4, Types DEF Dest, OpIs
  <2>2. Original!Branch
    BY <1>1, <1>2, <1>4, <2>1, AtInstruction DEF Original!Branch, Original!Is, Pc, Seen, OpIs
  <2>3. QED
    BY <1>2, <2>2 DEF Original!Next, Original!Step
<1>5. CASE OpIs("bcond") \/ OpIs("cbz")
  <2>1. i \in DOMAIN code /\ Pc' = TargetOf(i)
    BY <1>1, <1>2, <1>5, Types DEF Dest, OpIs
  <2>2. k > 1 /\ ~ToSkip
    <3>1. i # Len(code) + 1
      BY <1>1, <2>1, Types
    <3>2. \/ OpIs("b") \/ OpIs("cbz") \/ engine # "sandhook"
          \/ OpIs("bcond") /\ AtToOrPast
      BY <1>1, <3>1, Where, Ops DEF At1, At2, Engines
    <3>3. OpIs("bcond") /\ AtToOrPast => k = 4
      BY <1>1, Ops DEF AtToOrPast
    <3>4. QED
      BY <1>1, <3>2, <3>3, WhereBr DEF ToSkip, OpIs
  <2>3. Cond
    BY <1>1, <1>5, <2>2 DEF IInv, Judged
  <2>4. QED
    BY <1>1, <1>5, <2>1, <2>3, Conditional
<1>6. QED
  BY <1>1, <1>3, <1>4, <1>5, WhereBr

\* Writing the patch is nothing the caller of the copy can tell.
LEMMA PatchStutters == ASSUME IInv, WritePatch PROVE UNCHANGED Original!vars
<1>1. UNCHANGED <<engine, code, page_size, stage, i, regs, calls, exit>> /\ Pc' = Pc
  BY DEF WritePatch, Pc, At
<1>2. Seen' = Seen /\ UNCHANGED Exact
  BY <1>1, SameCopy DEF Seen
<1>3. QED
  BY <1>1, <1>2 DEF Original!vars, Pc, Seen

LEMMA StepsImplement == ASSUME IInv, [Next]_vars PROVE [Original!Next]_(Original!vars)
<1>1. CASE ~Exact
  BY <1>1, InexactIsFree
<1>2. CASE Exact /\ Hook
  <2>1. UNCHANGED <<engine, code, page_size, i, regs, calls>> /\ Pc' = Pc
    BY <1>2 DEF Hook, Pc, At
  <2>2. Seen' = Seen /\ UNCHANGED Exact
    BY <2>1, SameCopy DEF Seen
  <2>3. QED
    BY <2>1, <2>2 DEF Original!vars, Pc, Seen
<1>3. CASE Exact /\ UNCHANGED vars
  <2>1. Seen' = Seen /\ Pc' = Pc /\ UNCHANGED <<Exact, code, calls>>
    BY <1>3, SameCopy DEF Seen, Pc, At, vars
  <2>2. QED
    BY <2>1 DEF Original!vars, Pc, Seen
<1>4. CASE Exact /\ Run
  BY <1>4, OtherImplements, MovImplements, LoadImplements, SkipImplements, BlrImplements,
     BrImplements DEF Run
<1>5. CASE WritePatch
  BY <1>5, PatchStutters
<1>6. QED
  BY <1>1, <1>2, <1>3, <1>4, <1>5 DEF Next

\* A call through the copy is a call of the original code, for every code
\* that the engine renders exactly and that has no literal in the words the
\* patch overwrites, whatever its instructions compute, whatever the memory and
\* the patch hold, and whenever the patch is written (HookUtils.cpp:70).
THEOREM CopyIsOriginal == Spec => ImplementsOriginal
<1>1. Init => Original!Init
  BY StartsAsOriginal
<1>2. IInv /\ [Next]_vars => [Original!Next]_(Original!vars)
  BY StepsImplement
<1>3. QED
  BY <1>1, <1>2, SpecInvariant, PTL DEF Spec, ImplementsOriginal, Original!Spec
=============================================================================
