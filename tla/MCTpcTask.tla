----------------------------- MODULE MCTpcTask -----------------------------
(* Two workers and two futures, at most two queued messages and one clone   *)
(* of each: enough for two workers to hold the same future, for a wake to   *)
(* arrive at every point of a poll and for a wake after completion.         *)
EXTENDS TpcTask
=============================================================================
