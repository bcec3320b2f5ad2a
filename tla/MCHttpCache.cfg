\* One layer with responses of every kind; two layers without etags, of which the
\* first call uses memory only.
CONSTANTS
    c1 = c1
    c2 = c2
    c3 = c3
    s1 = s1
    s2 = s2
    None = None
    Calls = {c1, c2, c3}
    Segments = {s1, s2}
    SegmentOf <- OneSegmentEach
    Configurations <- OneOrTwo
    Cacheable <- FirstInMemory
    HeaderSets <- HeadersByLayers
    ForceMaxAge = 0
    MaxVersion = 1
    MaxTime = 3
SPECIFICATION Spec
INVARIANTS TypeOK OwnSegment BodyIsVouchedFor
PROPERTY WithinLifetimes
CHECK_DEADLOCK FALSE
