----------------------------- MODULE MCJniTrace -----------------------------
(* JniTrace with the three kinds of libraries and the settings the            *)
(* configuration screen can produce.                                         *)
EXTENDS JniTrace

CONSTANTS app, sys, own

TraceAll == {[all |-> TRUE, filter |-> {}], [all |-> FALSE, filter |-> {app}]}
FilterMatchesOwn == {[all |-> FALSE, filter |-> {app, own}]}
=============================================================================
