SPECIFICATION Spec
CONSTANTS
    Futures = {f1, f2}
    FailFast = {f2}
    Gone = Gone
    HandleSize = 4
    MaxChannel = 2
INVARIANTS ExecutorInv NothingMissed DrainComplete
PROPERTIES DrainReturns FailsFast KeepsContract
\* An executor that has been drained or dropped stops.
CHECK_DEADLOCK FALSE
