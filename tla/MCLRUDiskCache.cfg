\* With and without options.stale, entries of both kinds, file operations that fail.
CONSTANTS
    o1 = o1
    o2 = o2
    o3 = o3
    k1 = k1
    k2 = k2
    None = None
    Ops = {o1, o2, o3}
    Keys = {k1, k2}
    MaxItems = 1
    MaxAges = {1}
    Stales = {FALSE, TRUE}
    Lifetimes = {0, 1}
    MayFail = TRUE
    MaxTime = 2
SPECIFICATION Spec
INVARIANTS TypeOK NeverReplaced LiveEntryHasFile
PROPERTY EveryCallReturns
CHECK_DEADLOCK FALSE
