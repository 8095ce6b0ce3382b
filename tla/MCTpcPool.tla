----------------------------- MODULE MCTpcPool -----------------------------
(* Two cores, one thread more than cores (so that a pool grown too large is *)
(* seen), two spawners, two closures and a future that is woken up to twice *)
(* at any time: spawns and wakes race with each other, with the future's    *)
(* lock, with Idle messages and with exits.                                 *)
EXTENDS TpcPool
=============================================================================
