----------------------------- MODULE OemUpdateMC -----------------------------
(* Instances of OemUpdate for TLC. *)
EXTENDS OemUpdate

\* A module and a port as an update needs them, and what may be different, one by one.
Usual ==
    [use |-> "install", prompt |-> FALSE, opens |-> TRUE, file |-> "good", hv |-> "same",
     compat |-> "same", prog |-> "ERROR", speed |-> "fast", mode |-> "UNKNOWN"]
SomeSetups ==
    {Usual, [Usual EXCEPT !.opens = FALSE], [Usual EXCEPT !.file = "EBADMSG"],
     [Usual EXCEPT !.hv = "other"], [Usual EXCEPT !.compat = "other"],
     [Usual EXCEPT !.prog = "OK"], [Usual EXCEPT !.mode = "WAIT_IDLE"]}
    \cup {[Usual EXCEPT !.prompt = TRUE, !.speed = speed, !.compat = compat] :
             speed \in {"slow", "fast"}, compat \in {"same", "ERROR"}}
    \cup {[Usual EXCEPT !.use = "session", !.prompt = prompt] : prompt \in BOOLEAN}

UR == <<"U", "R">>
=============================================================================
