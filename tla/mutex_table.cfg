\* Three clients over two files and two entries: the table can be full, also
\* of the name "" that a client leaves when it dies between connect and write.
\* Clients may all die, after which the system rightly stops.
CONSTANTS
    Clients = {c1, c2, c3}
    Modifiers = {}
    Files = {f1, f2}
    EmptyName = noname
    None = none
    MUTEX_NUM = 2
SPECIFICATION Spec
INVARIANTS TypeOK MutualExclusion CountIsUse OneEntryPerFile
SYMMETRY Symmetry
CHECK_DEADLOCK FALSE
