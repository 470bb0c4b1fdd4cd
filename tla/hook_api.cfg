CONSTANTS
    a1 = a1
    a2 = a2
    r1 = r1
    r2 = r2
    Addrs = {a1, a2}
    NullAddr = NullAddr
    Reps = {r1, r2}
    NullRep = NullRep
    Instr = Instr
    NoEntry = NoEntry
    Unset = Unset
    Requests <- MCRequests
    Callers = {}
    Api = {"Hooker", "HookerForSign", "unHook", "addTrampoline", "startBranchTrampoline"}
    MaxLayers = 3
SPECIFICATION Spec
INVARIANTS ListedArePatched SuccessMeansPatched NearBranchOnlyAsked
