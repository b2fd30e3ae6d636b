\* Two files, the name of the first a prefix of the second's, both prefixes of a
\* name of no file; three calls, one restart, removal or creation.
CONSTANTS
    f1 = f1
    f2 = f2
    junk = junk
    Files = {f1, f2}
    FileNames = {f1, f2, junk}
    MaxCalls = 3
    MaxBacklog = 1
    Nodes = {n1, n2, n3}
    Null = null
    IsPrefix <- Begins
    MaxTroubles = 1
SPECIFICATION Spec
INVARIANTS TypeOK NothingLost DirtyIsQueued
PROPERTY InOrder
SYMMETRY Symmetry
CHECK_DEADLOCK FALSE
