\* An entry renewed while a get reads the old one.
CONSTANTS
    o1 = o1
    o2 = o2
    o3 = o3
    k1 = k1
    k2 = k2
    None = None
    Ops = {o1, o2, o3}
    Keys = {k1, k2}
    MaxItems = 1
    MaxAges = {0}
    Stales = {TRUE}
    Lifetimes = {1}
    MayFail = FALSE
    MaxTime = 2
SPECIFICATION Spec
PROPERTY DropsOutdatedOnly
CHECK_DEADLOCK FALSE
