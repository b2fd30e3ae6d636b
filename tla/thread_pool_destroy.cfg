\* One worker that is about to sleep while the pool is destroyed.
CONSTANTS
    Workers = {w1}
    Adders = {a1}
    Tasks = {t1}
    None = none
SPECIFICATION Spec
INVARIANT NoneLeftAsleep
CHECK_DEADLOCK FALSE
