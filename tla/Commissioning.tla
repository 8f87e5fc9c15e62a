----------------------------- MODULE Commissioning -----------------------------
(***************************************************************************)
(* The Commissioning cluster server of a device whose radio is an XBee     *)
(* module: the startup attribute set (SAS), the commands of a remote tool  *)
(* (src/zigbee/zcl_commissioning.c), and xbee_commissioning_tick(), which  *)
(* reads the set from the module, installs it there, restarts it and       *)
(* follows it as it joins and leaves (src/xbee/xbee_commissioning.c).      *)
(*                                                                         *)
(* The module and its network are the environment.  A command takes effect *)
(* in the module when it is sent; answers and modem status frames come     *)
(* back later, in order, through `up'.                                     *)
(***************************************************************************)
EXTENDS Attributes

CONSTANTS
    Epid,           \* extended PAN ids
    Key,            \* keys
    Regs,           \* xbee_comm_regs: the registers that are read, in order
    Default,        \* zcl_comm_default_sas, provided by the application
    Role,           \* what the firmware of the module can be
    Requests,       \* the write requests of the tool, with the records of each
    Delays,         \* delays of a restart
    MaxTool,        \* bound: commands of the tool
    MaxRoam,        \* bound: how often the module leaves its network by itself
    MaxFail         \* bound: commands to the module that are refused or unanswered

VARIABLES
    comm,       \* zcl_comm_state_t
    query,      \* the register that is being read, 0 for none
    wpan,       \* flags and address of wpan_dev_t
    radio,      \* the module
    up,         \* frames of the module that have not been dispatched
    tools, roams, fails,    \* the bounds' counters
    seen        \* history: a query was `unanswered', a command `refused'; the module `moved'
                \* (it left since the registers were asked); the tool `staged' a PAN id since
                \* it was read; a "joined" frame was under way at a restart (`early')

commvars == <<comm, query, wpan, radio, up, tools, roams, fails, seen>>
counters == <<tools, roams, fails>>

\* extended_panid, network_key: all bits set.  The module has all bits clear for a PAN
\* id that is not there.
AnyPan == "any"
Unset == "unset"
Zeros == "zeros"

SasType ==
    [startup_control : StartupControl, extended_panid : Epid \cup {AnyPan},
     network_key : Key \cup {Unset}, use_insecure_join : 0 .. 1]

\* response.status[]: the records that fail must fit.
StatusRecords == 25

\* What the module can be configured to; all that a tool can write where the decoder does
\* not limit the value; `OP' is among the registers, and neither 0 nor "none" a network.
WellFormed ==
    /\ Zeros \notin Epid /\ "none" \notin Epid
    /\ Regs \in Seq(STRING) /\ \E i \in 1 .. Len(Regs) : Regs[i] = "OP"
    /\ Default \in SasType
    /\ \A records \in Requests :
          /\ Len(records) \in 0 .. StatusRecords /\ DOMAIN records = 1 .. Len(records)
          /\ \A i \in DOMAIN records : records[i].form \in {"good", "typed", "short"}
          /\ \A i \in {k \in DOMAIN records : records[k].form = "good"} :
                /\ records[i].attribute = "extended_panid" => records[i].value \in Epid \cup {AnyPan}
                /\ records[i].attribute = "network_key" => records[i].value \in Key \cup {Unset}
                /\ records[i].attribute = "startup_control" => records[i].value \in StartupControl
    /\ Delays \subseteq Nat /\ {MaxTool, MaxRoam, MaxFail} \subseteq Nat

ASSUME CommAssumption == WellFormed

Factory == [startup_control |-> "JOINED", extended_panid |-> AnyPan]
ConfigType == [startup_control : StartupControl, extended_panid : Epid \cup {AnyPan}]

\* zcl_comm_sas_init()
Blank == [startup_control |-> "JOINED", extended_panid |-> AnyPan, network_key |-> Unset,
          use_insecure_join |-> 0]

CommTypeOK ==
    /\ comm \in
        [state : {"INIT", "LOADING", "STARTUP", "UNJOINED", "REFRESH", "JOINED"},
         role : {Role} \cup {"none"}, delayed : BOOLEAN, factory : BOOLEAN, install : BOOLEAN,
         save : BOOLEAN, wait : Nat, sas : SasType]
    /\ query \in 0 .. Len(Regs)
    /\ wpan \in [joined : BOOLEAN, known : BOOLEAN]
    /\ radio \in [config : ConfigType, saved : ConfigType, on : Epid \cup {"none"},
                  proved : BOOLEAN]
    /\ up \in Seq([kind : {"joined", "left", "answer"},
                   value : StartupControl \cup Epid \cup {Zeros, Unset}])
    /\ tools \in 0 .. MaxTool /\ roams \in 0 .. MaxRoam /\ fails \in 0 .. MaxFail
    /\ seen \in [unanswered : BOOLEAN, refused : BOOLEAN, moved : BOOLEAN, staged : BOOLEAN,
                 early : BOOLEAN]

\* The module has a configuration, and may be on a network that fits it.
CommInit ==
    /\ comm = [state |-> "INIT", role |-> "none", delayed |-> FALSE, factory |-> FALSE,
               install |-> FALSE, save |-> FALSE, wait |-> 0, sas |-> Blank]
    /\ query = 0
    /\ \E e \in Epid \cup {"none"} :
          /\ radio = [config |-> Factory, saved |-> Factory, on |-> e, proved |-> e # "none"]
          /\ wpan = [joined |-> e # "none", known |-> e # "none"]
    /\ up = <<>>
    /\ tools = 0 /\ roams = 0 /\ fails = 0
    /\ seen = [unanswered |-> FALSE, refused |-> FALSE, moved |-> FALSE, staged |-> FALSE,
               early |-> FALSE]

-----------------------------------------------------------------------------
(***************************************************************************)
(* The tick works on a copy of what it changes, x: the fields are those of *)
(* the variables, and `fails' counts the commands that are refused.        *)
(***************************************************************************)
Now == [comm |-> comm, query |-> query, wpan |-> wpan, radio |-> radio, up |-> up,
        fails |-> fails, seen |-> seen]

Becomes(x) ==
    /\ comm' = x.comm /\ query' = x.query /\ wpan' = x.wpan /\ radio' = x.radio
    /\ up' = x.up /\ fails' = x.fails /\ seen' = x.seen

\* A command is refused: its table is full, or the frame cannot be written.
Refused(x) == IF x.fails < MaxFail
              THEN {[x EXCEPT !.fails = @ + 1, !.seen.refused = TRUE]} ELSE {}

\* ATNR, ATWR
Left(x) == IF x.radio.on = "none" THEN x
           ELSE [x EXCEPT !.radio.on = "none", !.up = Append(@, [kind |-> "left", value |-> Unset])]
NetworkReset(x) == {Left(x)} \cup Refused(x)
WriteSettings(x) == {[x EXCEPT !.radio.saved = x.radio.config]} \cup Refused(x)

\* What the module answers when a register is read.
ValueOf(reg, r) ==
    CASE reg = "DL" -> r.config.startup_control
      [] reg = "OP" -> IF r.on = "none" THEN Zeros ELSE r.on
      [] OTHER -> Unset
Queried(x, i) ==
    {[x EXCEPT !.query = i, !.up = Append(@, [kind |-> "answer", value |-> ValueOf(Regs[i], x.radio)])]}
    \cup (IF x.fails < MaxFail THEN {[x EXCEPT !.query = i, !.fails = @ + 1]} ELSE {})

\* xbee_commissioning_set(): the set is sent parameter by parameter.  A parameter the
\* module does not get is not noticed, and the key is wiped.
Sent(x, field) == {x.comm.sas[field]}
                  \cup (IF x.fails < MaxFail THEN {x.radio.config[field]} ELSE {})
Install(x) ==
    {[x EXCEPT !.radio.config = config,
               !.radio.proved = FALSE,
               !.comm.sas.network_key = Unset,
               !.comm.save = TRUE,
               !.fails = IF \A field \in DOMAIN config : config[field] = x.comm.sas[field]
                         THEN @ ELSE @ + 1]
        : config \in [startup_control : Sent(x, "startup_control"),
                      extended_panid : Sent(x, "extended_panid")]}

\* The delayed restart.  When the set cannot be installed, all of it is tried again in
\* the next tick.  A "joined" frame that is under way is of the network that is left.
UnjoinedLater(x) ==
    {[y EXCEPT !.comm.delayed = FALSE, !.comm.factory = FALSE, !.comm.install = FALSE]
        : y \in NetworkReset(x)}
UnjoinedIfJoined(x) ==
    {[y EXCEPT !.wpan.joined = FALSE, !.comm.delayed = FALSE, !.comm.factory = FALSE,
               !.comm.install = FALSE]
        : y \in IF x.wpan.joined THEN NetworkReset(x) ELSE {x}}
Unjoined(x) ==
    {[y EXCEPT !.wpan.joined = FALSE, !.comm.delayed = FALSE, !.comm.factory = FALSE,
               !.comm.install = FALSE,
               !.seen.early = @ \/ \E i \in DOMAIN x.up : x.up[i].kind = "joined"]
        : y \in NetworkReset(x)}

Due == comm.delayed /\ comm.wait = 0
Reset(x) == IF x.comm.factory
            THEN [x EXCEPT !.comm.sas = Default, !.seen.staged = TRUE] ELSE x

RestartPart ==
    IF ~Due THEN {Now}
    ELSE UNION {Unjoined(x) : x \in IF comm.install THEN Install(Reset(Now)) ELSE {Reset(Now)}}

\* xbee_commissioning_init(): the set and the flags are cleared, a restart that is due
\* with them; then the registers are read from the first on.
InitialiseOnce(x) ==
    {[y EXCEPT !.comm.state = "LOADING"] : y \in Queried(x, 1) \cup Refused(x)}
Initialise(x) ==
    LET cleared == [x EXCEPT !.comm = [state |-> "INIT", role |-> Role, delayed |-> FALSE,
                        factory |-> FALSE, install |-> FALSE, save |-> FALSE, wait |-> 0,
                        sas |-> Blank], !.seen.staged = FALSE]
    IN  {[y EXCEPT !.comm.state = "LOADING"] : y \in Queried(cleared, 1)} \cup Refused(cleared)

\* ZCL_COMM_STATE_UNJOINED: the set is saved once the module has joined with it, and
\* read again once its address is known.
Save(x) == IF x.comm.save
           THEN {[y EXCEPT !.comm.save = FALSE] : y \in WriteSettings(x)} ELSE {x}

OPindex == CHOOSE i \in 1 .. Len(Regs) : Regs[i] = "OP"
RefreshSkips(x) ==
    IF ~x.wpan.known THEN {x} ELSE {[x EXCEPT !.comm.state = "JOINED", !.seen.moved = FALSE]}
Refresh(x) ==
    IF ~x.wpan.known THEN {x}
    ELSE {[y EXCEPT !.comm.state = "REFRESH", !.seen.moved = FALSE] : y \in Queried(x, OPindex)}
         \cup Refused(x)

StatePart(x) ==
    CASE x.comm.state = "INIT" -> Initialise(x)
      [] x.comm.state = "STARTUP" ->
            {[y EXCEPT !.comm.state = "UNJOINED"] :
                y \in IF x.comm.sas.startup_control \notin {"JOINED", "COORDINATOR"}
                      THEN NetworkReset(x) ELSE {x}}
      [] x.comm.state = "UNJOINED" /\ x.wpan.joined -> UNION {Refresh(y) : y \in Save(x)}
      [] x.comm.state = "JOINED" /\ ~x.wpan.joined ->
            {[x EXCEPT !.comm.state = "UNJOINED", !.comm.sas.extended_panid = AnyPan]}
      [] OTHER -> {x}

\* xbee_commissioning_tick()
CommTick ==
    /\ \/ \E x \in RestartPart : \E y \in StatePart(x) : Becomes(y)
       \/ Due /\ comm.install /\ \E x \in Refused(Reset(Now)) : Becomes(x)
    /\ UNCHANGED <<tools, roams>>

-----------------------------------------------------------------------------
\* Frames of the module

\* xbee_comm_reg_callback(): the value is stored, and the next register is read with
\* the same handle; the last answer moves the state on.
Assigned(x, reg, value) ==
    CASE reg = "DL" -> [x EXCEPT !.comm.sas.startup_control = value]
      [] reg = "OP" -> [x EXCEPT !.comm.sas.extended_panid = IF value = Zeros THEN AnyPan ELSE value,
                                 !.seen.staged = FALSE]
      [] OTHER -> x

ArrivedLoading(x) ==
    [x EXCEPT !.query = 0, !.comm.state = IF @ = "LOADING" THEN "STARTUP" ELSE @]
Arrived(x) ==
    [x EXCEPT !.query = 0,
              !.comm.state = IF @ = "LOADING" THEN "STARTUP"
                             ELSE IF @ = "REFRESH" THEN "JOINED" ELSE @]

RegCallback(x, value) ==
    UNION {IF x.query < Len(Regs) THEN Queried(y, x.query + 1) ELSE {Arrived(y)}
           : y \in {Assigned(x, Regs[x.query], value)}
                   \cup {[z EXCEPT !.seen.staged = TRUE] : z \in Refused(x)}}

\* _xbee_dev_modem_status()
Status(x, kind) ==
    IF kind = "joined" THEN [x EXCEPT !.wpan.joined = TRUE]
    ELSE [x EXCEPT !.wpan = [joined |-> FALSE, known |-> FALSE], !.seen.moved = TRUE]

Dispatch ==
    /\ up # <<>>
    /\ LET x == [Now EXCEPT !.up = Tail(up)]
       IN  IF Head(up).kind = "answer"
           THEN \E y \in RegCallback(x, Head(up).value) : Becomes(y)
           ELSE Becomes(Status(x, Head(up).kind))
    /\ UNCHANGED <<tools, roams>>

\* The request expires: the callback does nothing.
Expires ==
    /\ query # 0 /\ \A i \in DOMAIN up : up[i].kind # "answer"
    /\ query' = 0 /\ seen' = [seen EXCEPT !.unanswered = TRUE]
    /\ UNCHANGED <<comm, wpan, radio, up, counters>>

\* The device learns the network address of the module (xbee_cmd_query_device()).
LearnAddress ==
    /\ wpan.joined /\ ~wpan.known
    /\ wpan' = [wpan EXCEPT !.known = TRUE]
    /\ UNCHANGED <<comm, query, radio, up, counters, seen>>

-----------------------------------------------------------------------------
\* The remote tool

\* zcl_comm_sas_is_valid()
IsValid(sas) == sas.startup_control = "FROM_SCRATCH" \/ sas.extended_panid # AnyPan

\* zcl_general_command(): the attributes are written.
WriteAttributes(undivided, records) ==
    LET w == Write(undivided, records, comm.sas, comm.role)
    IN  /\ comm' = [comm EXCEPT !.sas = w.sas]
        /\ seen' = [seen EXCEPT !.staged = @ \/ w.sas.extended_panid # comm.sas.extended_panid]

RestartDevice(delay, save) ==
    /\ comm' = IF IsValid(comm.sas)
               THEN [comm EXCEPT !.wait = delay, !.delayed = TRUE, !.install = save] ELSE comm
    /\ UNCHANGED seen

\* ZCL_COMM_CMD_RESET_STARTUP_PARAM, and zcl_comm_factory_reset()
FactoryReset(delay) ==
    /\ comm' = [comm EXCEPT !.wait = delay, !.delayed = TRUE, !.factory = TRUE, !.install = TRUE]
    /\ UNCHANGED seen

\* zcl_comm_clust_handler()
Tool ==
    /\ tools < MaxTool /\ tools' = tools + 1
    /\ \/ \E undivided \in BOOLEAN, records \in Requests : WriteAttributes(undivided, records)
       \/ \E delay \in Delays, save \in BOOLEAN : RestartDevice(delay, save)
       \/ \E delay \in Delays : FactoryReset(delay)
    /\ UNCHANGED <<query, wpan, radio, up, roams, fails>>

-----------------------------------------------------------------------------
\* The module and time

Joins ==
    /\ radio.on = "none"
    /\ \E e \in Epid :
          /\ radio.config.extended_panid \in {AnyPan, e}
          /\ radio' = [radio EXCEPT !.on = e, !.proved = TRUE]
    /\ up' = Append(up, [kind |-> "joined", value |-> Unset])
    /\ UNCHANGED <<comm, query, wpan, counters, seen>>

Leaves ==
    /\ roams < MaxRoam /\ roams' = roams + 1
    /\ radio.on # "none"
    /\ radio' = [radio EXCEPT !.on = "none"]
    /\ up' = Append(up, [kind |-> "left", value |-> Unset])
    /\ UNCHANGED <<comm, query, wpan, tools, fails, seen>>

TimePasses ==
    /\ comm.wait > 0
    /\ comm' = [comm EXCEPT !.wait = @ - 1]
    /\ UNCHANGED <<query, wpan, radio, up, counters, seen>>

CommNext ==
    \/ CommTick \/ Dispatch \/ Expires \/ LearnAddress
    \/ Tool
    \/ Joins \/ Leaves \/ TimePasses

CommSpec == CommInit /\ [][CommNext]_commvars

FairCommSpec ==
    /\ CommSpec
    /\ WF_commvars(CommTick) /\ WF_commvars(Dispatch) /\ WF_commvars(Expires)
    /\ WF_commvars(LearnAddress) /\ WF_commvars(TimePasses)

-----------------------------------------------------------------------------
(***************************************************************************)
(* Properties.                                                             *)
(***************************************************************************)

\* An undivided write is made as a whole or not at all, over the two passes that check it
\* and make it (_zcl_write_attributes()): when it changes the set, no record was refused,
\* and the last record of every attribute that has a place is what the set holds.  A
\* record for the attribute that has no place is the exception: it passes the check, and
\* the pass that assigns leaves it out (zcl_decode_attribute()).
Undivided ==
    \A records \in Requests :
        LET w == Write(TRUE, records, comm.sas, comm.role)
        IN  w.sas # comm.sas =>
              \A i \in DOMAIN records :
                 /\ StatusOf(records[i], "none", comm.role) = "SUCCESS"
                 /\ \/ records[i].attribute \in OutOfBand
                    \/ \E j \in i + 1 .. Len(records) : records[j].attribute = records[i].attribute
                    \/ w.sas[records[i].attribute] = records[i].value

\* In JOINED, with no frame of a change under way, the set names the network the module
\* is on, although it was read over several commands while the module could leave, join
\* and be restarted.  It does not when the tool staged another network since it was
\* read, and when the module left and came back between two ticks: the JOINED state
\* looks at the flag only.
TracksNetwork ==
    comm.state = "JOINED" /\ wpan.joined /\ ~seen.moved /\ ~seen.staged
    /\ (\A i \in DOMAIN up : up[i].kind = "answer")
        => comm.sas.extended_panid = radio.on

\* ATWR makes a configuration permanent only when the module has joined a network with
\* it: what SAVE_ON_JOIN and the flag workaround of the tick are for.  A "joined" frame
\* that was under way when the module was restarted defeats them: it is about the
\* configuration before.
SavesWhatJoined ==
    [][radio'.saved # radio.saved => radio.proved \/ seen.early]_commvars

\* The two states that wait for the registers have a query to wait for.  Only a query
\* without an answer leaves them without one, and then for ever: the callback of a
\* request that expires does nothing.
Awaited == comm.state \in {"LOADING", "REFRESH"} => query # 0 \/ seen.unanswered

\* A restart the tool asked for makes the module leave its network, whatever the device
\* believes of it, unless a command is refused.  While the state is still INIT the next
\* xbee_commissioning_init() may forget the restart.
Restarts ==
    comm.delayed /\ comm.state # "INIT" ~> radio.on = "none" \/ seen.refused

\* An installed set is saved once the module has joined with it, unless a register is
\* never answered or a command is refused, or the module leaves and comes back between
\* two ticks: the state machine stays in JOINED and does not look at SAVE_ON_JOIN again.
Saves == comm.save /\ radio.on # "none" ~>
    \/ ~comm.save \/ radio.on = "none"
    \/ seen.unanswered \/ seen.refused
    \/ comm.state = "JOINED" /\ seen.moved
=============================================================================
