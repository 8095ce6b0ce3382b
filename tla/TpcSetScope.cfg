SPECIFICATION Spec
CONSTANTS
    Children = {c1, c2, c3}
    Kinds = {"scoped", "simple"}
    CounterSize = 8
INVARIANT ChildrenInScope
\* A set that has been awaited or dropped stops.
CHECK_DEADLOCK FALSE
