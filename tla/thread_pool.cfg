\* Two workers, two threads that add, three tasks, and the shutdown.
CONSTANTS
    Workers = {w1, w2}
    Adders = {a1, a2}
    Tasks = {t1, t2, t3}
    None = none
SPECIFICATION FairSpec
INVARIANTS TypeOK QueueExact
PROPERTY TasksStart
\* Without work, or with a worker left asleep in the freed pool, nothing moves.
CHECK_DEADLOCK FALSE
