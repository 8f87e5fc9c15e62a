------------------------------ MODULE Attributes ------------------------------
(***************************************************************************)
(* Writing the attributes of the ZCL Commissioning cluster: the parser of  *)
(* write requests (src/zigbee/zigbee_zcl.c) and the table of the startup   *)
(* attributes (src/zigbee/zcl_commissioning.c), as operators.              *)
(*                                                                         *)
(* A record of a request names an attribute and a value; `form' says how   *)
(* the record is wrong for every attribute: its type is another one, or it *)
(* is cut off.                                                             *)
(***************************************************************************)
EXTENDS Integers, Sequences

\* zcl_comm_startup_attributes: the attributes that can be written and have a
\* place in the startup attribute set.
Stored == {"startup_control", "extended_panid", "network_key", "use_insecure_join"}

\* No place: its value is NULL.
OutOfBand == {"trust_ctr_master_key"}
ReadOnly == {"trust_ctr_addr"}

\* The four values with a name, and "RESERVED" for 4 .. 255.
StartupControl == {"JOINED", "COORDINATOR", "REJOIN", "FROM_SCRATCH", "RESERVED"}

\* zcl_check_minmax() finds nothing to check: the entry of startup_control has a minimum
\* and a maximum, but not the flags that make them count.  zcl_decode_attribute() looks
\* at booleans.
InRange(rec) == rec.attribute = "use_insecure_join" => rec.value \in 0 .. 1

\* _zcl_comm_startup_control_set(): what the module can be; `role' is "none" until
\* the firmware version was looked at.  A value without a name is not looked at.
StartupAllowed(value, role) ==
    CASE value = "COORDINATOR" -> role = "coordinator"
      [] value \in {"REJOIN", "FROM_SCRATCH"} -> role = "router"
      [] OTHER -> TRUE

\* The status of a record in one pass: zcl_parse_attribute_record() with the write
\* function of its attribute.  The flags of a pass are "none" (ZCL_ATTR_WRITE_FLAG_NONE)
\* or "assign" (ZCL_ATTR_WRITE_FLAG_ASSIGN): only a pass that assigns finds that there
\* is no place.
StatusOf(rec, flags, role) ==
    CASE rec.form = "short" -> "MALFORMED_COMMAND"
      [] rec.form = "good" /\ rec.attribute \notin Stored \cup OutOfBand \cup ReadOnly ->
            "UNSUPPORTED_ATTRIBUTE"
      [] rec.form = "typed" -> "INVALID_DATA_TYPE"
      [] rec.form = "good" /\ rec.attribute \in ReadOnly -> "READ_ONLY"
      [] rec.form = "good" /\ rec.attribute \in Stored ->
            IF InRange(rec)
               /\ (rec.attribute = "startup_control" => StartupAllowed(rec.value, role))
            THEN "SUCCESS" ELSE "INVALID_VALUE"
      [] rec.form = "good" /\ rec.attribute \in OutOfBand ->
            IF flags = "assign" THEN "DEFINED_OUT_OF_BAND" ELSE "SUCCESS"

\* One pass over the records: what it makes of the attributes, whether a record
\* failed, and whether one was cut off, which ends the pass.
PassStep(role, flags, rec, acc) ==
    LET status == StatusOf(rec, flags, role)
    IN  IF acc.cut THEN acc
        ELSE [sas |-> IF flags = "assign" /\ status = "SUCCESS"
                      THEN [acc.sas EXCEPT ![rec.attribute] = rec.value] ELSE acc.sas,
              failed |-> acc.failed \/ status # "SUCCESS",
              cut |-> status = "MALFORMED_COMMAND"]

\* What the pass has made of the first n records.
Passed(records, flags, sas, role) ==
    LET after[n \in 0 .. Len(records)] ==
          IF n = 0 THEN [sas |-> sas, failed |-> FALSE, cut |-> FALSE]
          ELSE PassStep(role, flags, records[n], after[n - 1])
    IN  after

Pass(records, flags, sas, role) == Passed(records, flags, sas, role)[Len(records)]

\* _zcl_write_attributes(): an undivided write assigns in a second pass, which is
\* made only when no record failed in the first one.
WriteAtOnce(undivided, records, sas, role) == Pass(records, "assign", sas, role)
Write(undivided, records, sas, role) ==
    LET check == Pass(records, "none", sas, role)
    IN  IF undivided /\ check.failed THEN check ELSE Pass(records, "assign", sas, role)
=============================================================================
