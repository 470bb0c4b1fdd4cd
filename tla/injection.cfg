\* Two saves, any number of processes, two threads and one more package in each.
SPECIFICATION Spec
CONSTANTS
    app = app
    other = other
    jni = jni
    linker = linker
    Packages = {app, other}
    Functions = {jni, linker}
    Configs <- MCConfigs
    Threads = {t1, t2}
    Main = t1
    Module = Module
    None = None
    Empty = Empty
    MaxSaves = 2
    MaxLoads = 1
INVARIANTS TypeOK StartedOnce StartsAsChosen
PROPERTIES StartsInTheEnd
\* The user saves nothing more, and no process runs.
CHECK_DEADLOCK FALSE
