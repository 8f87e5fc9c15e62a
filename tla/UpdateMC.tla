------------------------------- MODULE UpdateMC -------------------------------
(* Instances of Update for TLC. *)
EXTENDS Update
=============================================================================
