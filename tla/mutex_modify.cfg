\* Two modify_md clients and one that uses the other programs, without symmetry:
\* liveness and the abstract lock service.  The table has room for every name.
CONSTANTS
    Clients = {c1, c2, c3}
    Modifiers = {c1, c2}
    Files = {f1}
    EmptyName = noname
    None = none
    MUTEX_NUM = 2
SPECIFICATION FairSpec
PROPERTIES ImplementsService NonBlockingAnswered LockReleased
CHECK_DEADLOCK FALSE
