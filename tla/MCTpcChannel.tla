---------------------------- MODULE MCTpcChannel ----------------------------
(* Two workers and a client, three messages and queues of two: a queue can  *)
(* fill up, both workers can race for one element, and a scan that has left *)
(* level 0 can meet sends to both levels.                                   *)
EXTENDS TpcChannel
=============================================================================
