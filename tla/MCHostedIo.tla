----------------------------- MODULE MCHostedIo -----------------------------
(* Every future on every host, with streams and files of up to three       *)
(* pieces: an operation completes before, during and after a poll, between *)
(* two of them, and after the host has given up.                           *)
EXTENDS HostedIo
=============================================================================
