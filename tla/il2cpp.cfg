CONSTANTS
    m1 = m1
    m2 = m2
    m3 = m3
    m4 = m4
    m5 = m5
    a1 = a1
    a2 = a2
    Hacks = {h1, h2}
    Game = {g1}
    MethodOrder <- MCOrder
    Selected = {m1, m2, m3, m4}
    Addrs = {a1, a2}
    NullAddr = NullAddr
    Pointer <- MCPointer
SPECIFICATION FairSpec
INVARIANTS TypeOK TrampolinesAreRecorded DoublePatchNeedsOverlap
PROPERTIES NotFoundOnlyInWindow EventuallyTraced
CHECK_DEADLOCK FALSE
