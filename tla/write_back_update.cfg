\* One file written twice in a row; nothing is removed or restarted.
CONSTANTS
    f1 = f1
    f2 = f2
    junk = junk
    Files = {f1}
    FileNames = {f1}
    MaxCalls = 2
    MaxBacklog = 2
    Nodes = {n1, n2}
    Null = null
    IsPrefix = {}
    MaxTroubles = 0
SPECIFICATION Spec
INVARIANT UpdateIsNode
CHECK_DEADLOCK FALSE
