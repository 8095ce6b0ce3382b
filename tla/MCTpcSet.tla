------------------------------ MODULE MCTpcSet ------------------------------
(* Sets of up to three children of both kinds, the empty one included: the  *)
(* last child can be overtaken by a poll, a register or a second poll of    *)
(* another one.  The counter wraps below zero.                              *)
EXTENDS TpcSet
=============================================================================
