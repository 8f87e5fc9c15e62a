---------------------------- MODULE CommissioningMC ----------------------------
(* Instances of Commissioning for TLC. *)
EXTENDS Commissioning

Rec(attribute, value) == [attribute |-> attribute, value |-> value, form |-> "good"]

\* The registers the state depends on.
ShortRegs == <<"DL", "OP">>

DefaultSas == [Blank EXCEPT !.startup_control = "FROM_SCRATCH"]

Bad(attribute, form) == [attribute |-> attribute, value |-> Unset, form |-> form]

\* A network and a key; a network, and a start the firmware cannot make; a network, and
\* the attribute that has no place; a start without a name, and a network that is replaced
\* by another; a network, and everything else that can be wrong.
WriteRequests ==
    {<<Rec("extended_panid", "p2"), Rec("network_key", "k")>>,
     <<Rec("extended_panid", "p2"), Rec("startup_control", "COORDINATOR")>>,
     <<Rec("extended_panid", "p1"), Rec("trust_ctr_master_key", "k")>>,
     <<Rec("extended_panid", "p2"), Rec("startup_control", "RESERVED"), Rec("extended_panid", "p1")>>,
     <<Rec("extended_panid", "p2"), Rec("use_insecure_join", 2), Rec("trust_ctr_addr", "p1"),
       Rec("unheard_of", 0), Bad("network_key", "typed"), Bad("network_key", "short"),
       Rec("extended_panid", "p1")>>}
=============================================================================
