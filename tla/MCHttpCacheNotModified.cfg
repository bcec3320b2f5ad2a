\* Two layers, the first call cached in memory only: a 304 reaches the disk.
CONSTANTS
    c1 = c1
    c2 = c2
    c3 = c3
    s1 = s1
    s2 = s2
    None = None
    Calls = {c1, c2, c3}
    Segments = {s1, s2}
    SegmentOf <- OneSegmentEach
    Configurations <- Two
    Cacheable <- FirstInMemory
    HeaderSets <- TaggedHeaders
    ForceMaxAge = 0
    MaxVersion = 1
    MaxTime = 3
SPECIFICATION Spec
INVARIANT OnlyCacheableStored
CHECK_DEADLOCK FALSE
