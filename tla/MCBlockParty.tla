---------------------------- MODULE MCBlockParty ----------------------------
(* Two thread identities, so that a second worker would be seen, and two    *)
(* futures that may move between two hosts, with either kind of side        *)
(* channel.  The channel is full for the second sender.                     *)
EXTENDS BlockParty
=============================================================================
