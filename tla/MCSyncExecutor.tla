--------------------------- MODULE MCSyncExecutor ---------------------------
(* A join2 and a try_join2, one extra wake of each kind queued: wakes come  *)
(* before, during and after a poll, after completion and after the drain.   *)
EXTENDS SyncExecutor
=============================================================================
