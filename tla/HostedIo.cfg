SPECIFICATION Spec
CONSTANTS
    Hosts = {"busy", "sparse", "once"}
    Futures = {"stream_read", "stream_write", "seek_all", "seek_read", "win_all", "win_read"}
    Width = 4
    MaxPieces = 3
INVARIANT SparseIsWoken
PROPERTIES KeepsReadContract Returns
\* A host that has returned stops.
CHECK_DEADLOCK FALSE
