------------------------------ MODULE MCIl2cpp ------------------------------
(* Il2cppTracer with a pointer two methods share, a method without code and  *)
(* one that the filter leaves out.                                           *)
EXTENDS Il2cppTracer

CONSTANTS m1, m2, m3, m4, m5, a1, a2

MCOrder == <<m1, m2, m4, m5, m3>>
MCPointer == [m \in {m1, m2, m3, m4, m5} |->
                IF m \in {m1, m2} THEN a1 ELSE IF m = m4 THEN NullAddr ELSE a2]
=============================================================================
