------------------------------ MODULE MCHookApi ------------------------------
(* Every public operation of HookUtils, null arguments included, in any      *)
(* order.                                                                    *)
EXTENDS HookRegistry

CONSTANTS a1, a2, r1, r2

MCRequests == {<<a1, r1>>, <<a2, r2>>, <<a1, NullRep>>, <<NullAddr, r1>>}
=============================================================================
