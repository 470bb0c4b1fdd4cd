----------------------------- MODULE MCHookApps -----------------------------
(* HookUtils as the hooking thread of the tracer uses it, with application   *)
(* threads calling the functions meanwhile.                                  *)
EXTENDS HookRegistry

CONSTANTS a1, a2, r1, r2, r3

MCRequests == {<<a1, r1>>, <<a1, r2>>, <<a2, r3>>, <<NullAddr, r3>>}
=============================================================================
