SPECIFICATION Spec
CONSTANTS
    Workers = {w1, w2, w3}
    Spawners = {s1, s2}
    Jobs = {j1, j2, j3}
    Futures = {j1}
    Cpus = 2
    Idle = Idle
    MaxIdle = 2
    MaxWakes = 2
INVARIANTS PoolInv WorkCarried WorkHasWorker
PROPERTIES EveryJobRuns SpinsDown
\* The system stops when no job is left and the pool has spun down.
CHECK_DEADLOCK FALSE
