SPECIFICATION ReadsSpec
CONSTANTS
    Threads = {t1, t2, t3}
    Securities = {1, 2}
    Calendar = 3
    Locks = {l1, l2, l3, l4}
    None = None
    Callers = {c1, c2}
    Capacity = 1
    Underlyings = {u}
    MaxClears = 1
    MaxInstances = 2
    MaxFailures = 1
    MaxAttempts = 2
    Nothing = Nothing
    Size = 3
    Workers = 2
    Traffic <- OneAtATime
SYMMETRY Interchangeable
INVARIANTS
    MutualExclusion
    QueriesMove
    OneInstance
    FreshAfterClear
    BatchIsWhole
CHECK_DEADLOCK FALSE
