SPECIFICATION Spec
CONSTANTS
    Futures = {f1, f2}
    Threads = {k1, k2}
    None = None
    Hosts = {h1, h2}
    OneWaits = {TRUE, FALSE}
INVARIANT NeverStranded
\* A pool whose futures are resolved or dropped has nothing left to do.
CHECK_DEADLOCK FALSE
