------------------------------- MODULE AtCmdMC -------------------------------
(* Instances of AtCmd for TLC. *)
EXTENDS AtCmd

\* _xbee_atcmd_query_regs cut down to one register that only the full query
\* reads and one that a refresh reads too.
QueryList == <<"HV", "MY">>
=============================================================================
