---------------------------- MODULE MCInjection ----------------------------
(* Two packages, two tracers, and configurations that trace the first       *)
(* package with one tracer or the other, in the class loader of the process *)
(* or in the module's own, or with none, and that dump the memory of the    *)
(* second.                                                                  *)
EXTENDS Injection
CONSTANTS app, other, jni, linker

Config(p, fs, system, serialization) ==
    [package |-> p, functions |-> fs, system |-> system, serialization |-> serialization]
MCConfigs ==
    {Config(app, {jni}, TRUE, FALSE), Config(app, {linker}, FALSE, FALSE),
     Config(app, {}, FALSE, FALSE), Config(other, {}, FALSE, TRUE)}
=============================================================================
