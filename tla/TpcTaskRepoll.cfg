SPECIFICATION Spec
CONSTANTS
    Workers = {w1, w2}
    Futures = {f1, f2}
    NoFuture = NoFuture
    MaxWork = 2
    MaxClones = 1
INVARIANT NoPollAfterReady
\* Workers wait for ever when nobody wakes anything, or all have died.
CHECK_DEADLOCK FALSE
