CONSTANTS
    Calls = {1, 2}
    a1 = a1
    a2 = a2
    b1 = b1
    c1 = c1
    w1 = w1
    w2 = w2
    en = en
    pt = pt
    MetaCalls <- MCMetaCalls
    RequestOf <- MCRequestOf
    Workers = {w1, w2}
    Locales = {en, pt}
    WorkerOf <- MCWorkerOf
    LocaleOf <- MCLocaleOf
    Warm <- MCWarm
    MaxPublished = 2
    Items <- MCItems
    ComparableKeys = {"id", "slug"}
    MaxItems = 2
    Callers = {1, 2, 3}
    MaxRetries = 1
SPECIFICATION ClientsSpec
INVARIANTS ClientsTypeOK SharedAnswersMatch ArraysMergeThreeWay CallsAccountedFor
PROPERTY RefreshesInOrder
CHECK_DEADLOCK FALSE
