CONSTANTS
    app = app
    sys = sys
    own = own
    Threads = {t1}
    OwnSo = own
    AppSos = {app}
    SysSos = {sys}
    NoSo = NoSo
    Modes <- TraceAll
    CanStop = TRUE
    MaxNested = 3
    StackLimit = 4
SPECIFICATION FairSpec
INVARIANTS OrigOncePerCall ExceptionsSurvive
PROPERTIES CallsReturn ImplementsUntraced
