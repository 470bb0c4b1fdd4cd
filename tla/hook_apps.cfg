CONSTANTS
    a1 = a1
    a2 = a2
    r1 = r1
    r2 = r2
    r3 = r3
    Addrs = {a1, a2}
    NullAddr = NullAddr
    Reps = {r1, r2, r3}
    NullRep = NullRep
    Instr = Instr
    NoEntry = NoEntry
    Unset = Unset
    Requests <- MCRequests
    Callers = {t1}
    Api = {"Hooker", "addTrampoline", "startBranchTrampoline"}
    MaxLayers = 3
SPECIFICATION FairSpec
INVARIANTS TypeOK HookedAtMostOnce OrgReadyWhenEntered NoReentry
PROPERTIES CallsReturn ImplementsTable
