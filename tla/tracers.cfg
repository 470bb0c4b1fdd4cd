CONSTANTS
    app = app
    sys = sys
    own = own
    Threads = {t1, t2}
    OwnSo = own
    AppSos = {app}
    SysSos = {sys}
    NoSo = NoSo
    Requests <- FullRequests
    MaxCalls = 2
SPECIFICATION Spec
SYMMETRY ThreadSymmetry
INVARIANTS TypeOK ChosenAreHooked
PROPERTIES LinesAreSaved LabelsAreRight StoppedStaysAway
CHECK_DEADLOCK FALSE
