CONSTANTS
    t1 = t1
    t2 = t2
    Threads = {t1, t2}
    Pages = {1, 2, 3, 4, 5, 6}
    PageSize = 8
    Width = 256
    Reach = 12
    Text = {4, 5}
    Data = {1, 6}
    NewMaps = {3}
    Jobs <- MCJobs
    MaxJobs = 3
SYMMETRY Symmetry
SPECIFICATION Spec
INVARIANTS TypeOK BlocksApart NearInReach WritableOnlyWhilePatched FaultsNeedOverlap
PROPERTIES AppPagesKept
CHECK_DEADLOCK FALSE
