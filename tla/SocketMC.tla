------------------------------- MODULE SocketMC -------------------------------
(* Instances of Socket for TLC. *)
EXTENDS Socket



=============================================================================
