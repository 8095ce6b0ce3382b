SPECIFICATION VecSpec
CONSTANTS
    Children <- MCChildren
    Kinds = {"scoped", "simple"}
    CounterSize = 8
    Lengths <- MCLengths
    Strategies <- MCStrategies
    Cpus = 2
INVARIANTS SetInv ReadyMeansComplete HostIsWoken ScopedResultsVisible PlanPartitions BuiltWhole
PROPERTY VecResolves
\* A set that has been awaited or dropped stops.
CHECK_DEADLOCK FALSE
