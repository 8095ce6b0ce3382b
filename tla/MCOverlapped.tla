---------------------------- MODULE MCOverlapped ----------------------------
(* A read of up to two pieces and two writes: with two permits the third    *)
(* signal can be lost, and with room for two closures a sender can find the *)
(* channel full.                                                            *)
EXTENDS Overlapped
=============================================================================
