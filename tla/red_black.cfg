SPECIFICATION Spec
CONSTANTS
    Keys = {1, 2, 3, 4, 5, 6}
    Nodes = {n1, n2, n3, n4, n5, n6}
    NIL_NODE = NIL_NODE
SYMMETRY NodeSymmetry
INVARIANTS
    TypeOK
    SearchTree
    RedBlack
    NeighboursFound
    FixupsEnd
