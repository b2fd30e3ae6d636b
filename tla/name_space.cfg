SPECIFICATION Spec
CONSTANTS
    Nodes = {n1, n2, n3, n4, n5}
    Root = Root
    NULL = NULL
    Junk = Junk
    SU = su
    Shared = shared
    Upper = upper
    ann = ann
    bob = bob
    Users <- MCUsers
    Matches <- MCMatches
    Paths <- MCPaths
    NoFile = NoFile
    MaxStarts = 2
    MaxChanges = 3
SYMMETRY NodeSymmetry
CHECK_DEADLOCK FALSE
INVARIANTS
    TypeOK
    PointersExact
    FilesFound
    AddedCanLogIn
