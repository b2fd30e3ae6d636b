SPECIFICATION FairSpec
CONSTANTS
    MINALLOC = 2
    Requests = {0, 1, 2}
    Gaps = {0, 1}
    MaxTop = 6
INVARIANTS
    TypeOK
    Disjoint
    RingExact
PROPERTIES
    GrowsWhenNothingFits
    NothingLeaks
    CallsReturn
