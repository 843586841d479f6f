---------------------------- MODULE MCWorkQueue ----------------------------
(* Two jobs and one or two workers for TLC. *)
EXTENDS WorkQueue
=============================================================================
