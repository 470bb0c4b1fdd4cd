CONSTANTS
    p1 = p1
    p2 = p2
    r1 = r1
    r2 = r2
    Threads = {t1}
    Paths = {p1, p2}
    NullPath = NullPath
    NoPath = NoPath
    Callbacks = {c1, c2}
    Redirects = {r1, r2}
    NoRedirect = NoRedirect
    Reloc <- MCReloc
    Linkers <- MCLinkers
    MaxDepth = 2
SPECIFICATION FairSpec
INVARIANTS TypeOK ToldBothSides ReportsWhatWasLoaded
PROPERTY LoadsEnd
CHECK_DEADLOCK FALSE
