---------------------------- MODULE MCTracerLog ----------------------------
(* TracerLog with the three kinds of libraries.                              *)
EXTENDS TracerLog, TLC

CONSTANTS app, sys, own

Ask(list, all, filter, found, pretty, opens, stops) ==
    [list |-> list, all |-> all, filter |-> filter, found |-> found,
     pretty |-> pretty, opens |-> opens, stops |-> stops]

\* All five tracers at once; with each thing missing that may be; stopping,
\* with and without filters.
FullRequests ==
    {Ask(Tracers, TRUE, {}, Tracers, TRUE, TRUE, FALSE),
     Ask(Tracers, TRUE, {}, Tracers \ {"string"}, TRUE, TRUE, FALSE),
     Ask(Tracers, TRUE, {}, Tracers, FALSE, TRUE, FALSE),
     Ask({"jni", "string", "linker"}, TRUE, {}, Tracers, TRUE, TRUE, TRUE),
     Ask({"string", "jni"}, FALSE, {app, sys}, Tracers, TRUE, TRUE, TRUE),
     Ask({"register", "linker"}, TRUE, {}, Tracers, TRUE, TRUE, FALSE),
     Ask(Tracers, TRUE, {}, Tracers, TRUE, FALSE, FALSE)}
\* Threads are treated alike, and no property is about one of them.
ThreadSymmetry == Permutations(Threads)
=============================================================================
