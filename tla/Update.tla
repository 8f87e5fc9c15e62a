-------------------------------- MODULE Update --------------------------------
(***************************************************************************)
(* A firmware update of a module whose bootloader takes the image by       *)
(* XMODEM (xbee_fw_install_ebl_tick() and xbee_fw_install_hcs08_tick() of  *)
(* src/xbee/xbee_firmware.c), over the sender of Xmodem.                   *)
(*                                                                         *)
(* The program calls the tick until it returns something else than 0.  The *)
(* bootloader at the other end is the environment, as the driver expects   *)
(* it: it prompts, takes the blocks in the order of their numbers, answers *)
(* each packet, repeats its request when nothing comes, and gives up.      *)
(***************************************************************************)
EXTENDS Xmodem

CONSTANTS
    LoadTries,      \* how often an update is begun (3)
    LoadWait,       \* XBEE_FW_LOAD_TIMEOUT (5 s)
    BreakWait,      \* the serial break (150 ms)
    DoneWait,       \* wait after the transfer (3 s)
    MaxGap,         \* bound: time between two ticks
    MaxFault        \* bound: bytes lost or damaged on the line, breaks missed, power failures

ASSUME UpdateAssumption ==
    /\ LoadTries \in Nat \ {0}
    /\ {LoadWait, BreakWait, DoneWait, MaxGap, MaxFault} \subseteq Nat

VARIABLES
    source,     \* xbee_fw_source_t
    boot,       \* the module
    idle,       \* time since the last tick
    faults      \* what has gone wrong so far

updateVars == <<source, boot, idle, faults>>
vars == <<xmodemVars, updateVars>>

Waited == 0 .. LoadWait + DoneWait + BreakWait + 1

\* xbee_fw_source_t; `age' is the time since `timer' was set, `ret' what the tick
\* returned last.  `from' is history: the blocks of the file that were read before
\* this transfer began.
SourceType ==
    source \in
        [kind : {"ebl", "hcs08"},
         state : {"INIT", "RESET", "BREAK", "PROMPT", "XMODEM_WAIT", "XMODEM_SEND", "XMODEM_DONE",
                  "FINAL_PROMPT", "SUCCESS", "FAILURE"},
         tries : 0 .. LoadTries, age : Waited, ret : {"0", "1", "EIO", "ETIMEDOUT"}, from : 0 .. Blocks]

\* The module: it runs an image, prompts in its bootloader, receives, or is off.
\* `flash' holds the blocks it has taken since it was last told to receive.
BootType ==
    boot \in [phase : {"app", "menu", "receive", "off"}, flash : Seq(1 .. Blocks)]

TypeOK ==
    /\ XmodemType /\ SourceType /\ BootType
    /\ idle \in 0 .. MaxGap /\ faults \in 0 .. MaxFault

\* xbee_fw_install_init()
Init ==
    /\ source \in [kind : {"ebl", "hcs08"}, state : {"INIT"}, tries : {0}, age : {0}, ret : {"0"},
                   from : {0}]
    /\ boot = [phase |-> "app", flash |-> <<>>]
    /\ xm = XmodemInit /\ file = 0 /\ line = <<>> /\ back = <<>> /\ late = FALSE
    /\ sent = <<>> /\ cut = {}
    /\ now \in 0 .. Wrap - 1
    /\ idle = 0 /\ faults = 0

-----------------------------------------------------------------------------
\* The driver

Running(state) == source.state = state /\ source.ret = "0"
GoTo(state) == [source EXCEPT !.state = state, !.age = 0]
KeepsXmodem == UNCHANGED <<xm, file, sent, cut, late>>

\* States that have not returned share the load timeout.  The state stays when the
\* last try has failed.  A retry goes back to the reset, and not to the start of
\* the file.
TimeoutRetries ==
    IF source.age > LoadWait THEN GoTo("RESET") ELSE source
Timeout ==
    IF source.age <= LoadWait THEN source
    ELSE IF source.tries + 1 < LoadTries THEN [GoTo("RESET") EXCEPT !.tries = @ + 1]
    ELSE [source EXCEPT !.tries = @ + 1, !.ret = "ETIMEDOUT"]

\* The module is reset while the transmit line is held low: it loses what is on the
\* line, and starts its bootloader, unless it misses the break.
Reset ==
    /\ Running("INIT") \/ Running("RESET")
    /\ source' = [GoTo("BREAK") EXCEPT !.tries = IF source.state = "INIT" THEN 0 ELSE @]
    /\ \/ boot' = [boot EXCEPT !.phase = IF @ = "off" THEN "off" ELSE "menu"] /\ UNCHANGED faults
       \/ /\ faults < MaxFault /\ faults' = faults + 1
          /\ boot' = [boot EXCEPT !.phase = "app"]
    /\ line' = <<>>
    /\ KeepsXmodem /\ UNCHANGED back

\* The break ends: what came in meanwhile is flushed, and a prompt is asked for.
Break ==
    /\ Running("BREAK")
    /\ IF source.age > BreakWait
       THEN /\ source' = GoTo("PROMPT")
            /\ back' = <<>>
            /\ line' = Written(Char("CR"))
       ELSE source' = Timeout /\ UNCHANGED <<line, back>>
    /\ KeepsXmodem /\ UNCHANGED <<boot, faults>>

Prompt ==
    /\ Running("PROMPT")
    /\ IF Got = ">"
       THEN source' = GoTo("XMODEM_WAIT") /\ line' = Written(Char("load"))
       ELSE source' = Timeout /\ UNCHANGED line
    /\ back' = Left
    /\ KeepsXmodem /\ UNCHANGED <<boot, faults>>

XmodemWait ==
    /\ Running("XMODEM_WAIT")
    /\ IF Got = "C"
       THEN /\ xm' = [xm EXCEPT !.state = "START", !.packet_num = 0]
            /\ source' = [source EXCEPT !.state = "XMODEM_SEND", !.from = file]
            /\ sent' = <<>> /\ cut' = {}
       ELSE source' = Timeout /\ UNCHANGED <<xm, sent, cut>>
    /\ back' = Left
    /\ UNCHANGED <<file, line, late, boot, faults>>

\* The sender ticks.  This state returns, and so has no load timeout.
XmodemSend ==
    /\ Running("XMODEM_SEND")
    /\ \E ret \in {"0", "1", "EIO", "ETIMEDOUT"} :
          /\ TxTick(ret)
          /\ source' = IF ret = "0" THEN source
                       ELSE IF ret = "1" THEN GoTo("XMODEM_DONE")
                       ELSE [source EXCEPT !.state = "FAILURE", !.ret = ret]
    /\ UNCHANGED <<boot, faults>>

\* The prompt of the bootloader after the transfer; s is the source when it has not
\* come, l the line.
LastPrompt(s, l) ==
    /\ IF Got = ">"
       THEN /\ source' = [GoTo("SUCCESS") EXCEPT !.ret = "1"]
            /\ line' = IF Len(l) < Room THEN Append(l, Char("run")) ELSE l
       ELSE source' = s /\ line' = l
    /\ back' = Left

\* A module of kind "hcs08" has no prompt: the update is over.
XmodemDoneQuits ==
    /\ Running("XMODEM_DONE")
    /\ source' = [GoTo("SUCCESS") EXCEPT !.ret = "1"]
    /\ KeepsXmodem /\ UNCHANGED <<line, back, boot, faults>>
XmodemDone ==
    /\ Running("XMODEM_DONE")
    /\ IF source.age > DoneWait
       THEN LastPrompt(IF source.kind = "ebl" THEN GoTo("FINAL_PROMPT")
                       ELSE [GoTo("SUCCESS") EXCEPT !.ret = "1"], Written(Char("CR")))
       ELSE UNCHANGED <<source, line, back>>
    /\ KeepsXmodem /\ UNCHANGED <<boot, faults>>

FinalPrompt ==
    /\ Running("FINAL_PROMPT")
    /\ LastPrompt(Timeout, line)
    /\ KeepsXmodem /\ UNCHANGED <<boot, faults>>

Tick ==
    /\ \/ Reset \/ Break \/ Prompt \/ XmodemWait \/ XmodemSend \/ XmodemDone \/ FinalPrompt
    /\ idle' = 0
    /\ UNCHANGED now

-----------------------------------------------------------------------------
\* The module and the line

Answer(ch, item) ==
    back' = IF Len(back) < Room THEN Append(back, [ch |-> ch, of |-> item]) ELSE back
Says(ch) == Answer(ch, Char(ch))
Acknowledges(item) == Answer("ACK", item)

\* The bootloader takes the packet it expects, and answers; a packet it has already
\* taken is only answered, and one it does not expect ends the transfer.  A part of a
\* packet is none: it is dropped, and asked for.
TakePacket(p) ==
    LET n == Len(boot.flash)
    IN  \/ /\ p.num = (n + 1) % Packets
           /\ boot' = [boot EXCEPT !.flash = Append(@, p.block)]
           /\ Acknowledges(p)
        \/ /\ p.num = n % Packets /\ n > 0
           /\ Acknowledges(p) /\ UNCHANGED boot
        \/ /\ p.num # (n + 1) % Packets /\ ~(p.num = n % Packets /\ n > 0)
           /\ Says("CAN") /\ boot' = [boot EXCEPT !.phase = "menu"]

Take(item) ==
    CASE boot.phase = "menu" /\ item.kind = "CR" -> Says(">") /\ UNCHANGED boot
      [] boot.phase = "menu" /\ item.kind = "load" ->
            boot' = [phase |-> "receive", flash |-> <<>>] /\ Says("C")
      [] boot.phase = "menu" /\ item.kind = "run" ->
            boot' = [boot EXCEPT !.phase = "app"] /\ UNCHANGED back
      [] boot.phase = "receive" /\ item.kind = "packet" -> TakePacket(item)
      [] boot.phase = "receive" /\ item.kind = "EOT" ->
            /\ boot' = [boot EXCEPT !.phase = IF source.kind = "hcs08" THEN "app" ELSE "menu"]
            /\ Acknowledges(item)
      [] boot.phase = "receive" /\ item.kind = "CAN" ->
            boot' = [boot EXCEPT !.phase = "menu"] /\ UNCHANGED back
      [] OTHER -> UNCHANGED <<boot, back>>

\* What follows a part of a packet may be taken for the rest of it, and is dropped too.
ModuleReads ==
    /\ line # <<>>
    /\ \/ Take(Head(line)) /\ line' = Tail(line)
       \/ /\ Head(line).kind = "part" /\ Len(line) > 1 /\ boot.phase = "receive"
          /\ line' = Tail(Tail(line)) /\ UNCHANGED <<back, boot>>
    /\ UNCHANGED <<xm, file, now, sent, cut, late, source, idle, faults>>

\* It asks again when nothing comes.
ModuleAsks ==
    /\ boot.phase = "receive"
    /\ IF boot.flash = <<>> THEN Says("C") ELSE Says("NAK")
    /\ UNCHANGED <<xm, file, line, now, sent, cut, late, source, boot, idle, faults>>

Fault ==
    /\ faults < MaxFault /\ faults' = faults + 1
    /\ \/ line # <<>> /\ line' = Tail(line) /\ UNCHANGED <<back, boot>>
       \/ back # <<>> /\ back' = Tail(back) /\ UNCHANGED <<line, boot>>
       \/ boot' = [boot EXCEPT !.phase = "off"] /\ UNCHANGED <<line, back>>
       \/ boot' = [boot EXCEPT !.phase = "menu"] /\ boot.phase = "receive" /\ UNCHANGED <<line, back>>
    /\ UNCHANGED <<xm, file, now, sent, cut, late, source, idle>>

TimePasses ==
    /\ source.ret = "0"
    /\ idle < MaxGap
    /\ idle' = idle + 1
    /\ now' = (now + 1) % Wrap
    /\ source' = [source EXCEPT !.age = IF @ + 1 \in Waited THEN @ + 1 ELSE @]
    /\ UNCHANGED <<xm, file, line, back, sent, cut, late, boot, faults>>

Next == Tick \/ ModuleReads \/ ModuleAsks \/ Fault \/ TimePasses

Spec == Init /\ [][Next]_vars

FairSpec == Spec /\ WF_vars(Tick) /\ WF_vars(ModuleReads) /\ WF_vars(ModuleAsks) /\ SF_vars(TimePasses)

-----------------------------------------------------------------------------
\* What the module has is what was written whole, in that order, whatever is lost on
\* the line and however often xbee_xmodem_tx_tick() sends a packet again: no block
\* twice, none of another position.  And what was written whole is the file from where
\* this transfer began, in its order, without the blocks whose first write the port
\* did not take whole: those are left out and never sent again.
InOrder ==
    /\ Len(boot.flash) <= Len(sent)
    /\ \A i \in 1 .. Len(boot.flash) : boot.flash[i] = sent[i]
    /\ \A i, j \in 1 .. Len(sent) : i < j => sent[i] < sent[j]
    /\ \A b \in source.from + 1 .. file : b \in cut \/ \E i \in 1 .. Len(sent) : sent[i] = b
    /\ \A i \in 1 .. Len(sent) : sent[i] \in (source.from + 1 .. file) \ cut

\* What xbee_fw_install_ebl_tick() reports as success is the file without the blocks in
\* `cut': the module has all the others, each once and in order, and none of those.  It
\* is the whole file when the port took each packet whole at its first write.  Not
\* so (1) when an ACK came after the packet it answers had been sent again: it carries
\* no number, and WAIT_ACK takes it for the next packet; and (2) for a second try: a
\* retry resets the module and not the file, so that the transfer begins at the block
\* that was to be read next.
WholeImage ==
    source.state = "SUCCESS" /\ ~late /\ source.from = 0 =>
        /\ \A b \in (1 .. Blocks) \ cut : \E i \in 1 .. Len(boot.flash) : boot.flash[i] = b
        /\ \A i \in 1 .. Len(boot.flash) : boot.flash[i] \notin cut
        /\ \A i, j \in 1 .. Len(boot.flash) : i < j => boot.flash[i] < boot.flash[j]

\* Where the driver waits and nothing limits the wait: for the first 'C' of a module
\* that has stopped receiving, for the ACK of one when the timer of the sender was set
\* so late that its low word comes round first, and in RESEND, for a port that takes
\* the whole packet.
NoTimer ==
    /\ source.state = "XMODEM_SEND"
    /\ \/ xm.state = "RESEND"
       \/ /\ boot.phase # "receive"
          /\ \/ xm.state = "START"
             \/ xm.state = "WAIT_ACK" /\ Wrap - xm.timer <= AckWait
             \/ xm.state = "FINAL_ACK" /\ Wrap - xm.timer <= FinalWait

\* An update ends: some call of the tick returns 1 (installed) or an error, however
\* the line and the module behave, except where nothing limits the wait.
Ends == <>(source.ret # "0") \/ <>[]NoTimer

\* Once the transfer is over the module comes to run its image: the driver asks for the
\* last prompt and gives the command to run (XMODEM_DONE and FINAL_PROMPT of the EBL
\* tick) before it reports success, and nothing that is written is taken for something
\* else, whatever was lost or cut off during the transfer.  Unless something is lost
\* from then on, the prompt does not come in time, or the module is off.
Boots ==
    \A n \in 0 .. MaxFault :
        source.state = "XMODEM_DONE" /\ ~late /\ boot.phase # "off" /\ faults = n
            ~> \/ boot.phase = "app" \/ faults > n
               \/ source.state = "RESET" \/ source.ret = "ETIMEDOUT"
=============================================================================
