------------------------------ MODULE OemUpdate ------------------------------
(***************************************************************************)
(* The users of AT command mode: the driver that installs .OEM firmware    *)
(* (xbee_fw_install_oem_tick() of src/xbee/xbee_firmware.c), one call of   *)
(* the tick at a time, and an application that enters command mode, sends  *)
(* commands and leaves it.  The module, its bootloader and the serial line *)
(* are the environment.                                                    *)
(*                                                                         *)
(* A block of the image is its number; its data are Parts pieces of at     *)
(* most 128 bytes, and the response the file holds for it is `Reply'.      *)
(***************************************************************************)
EXTENDS AtMode

CONSTANTS
    Setups,         \* what is attached to the program, see SetupRecord
    Blocks,         \* blocks of the image
    Parts,          \* pieces of a block
    Reply,          \* the response of the bootloader to a good block
    Tries,          \* how often a block is sent again (3)
    BreakWait,      \* the serial break (400 ms)
    PlusWait,       \* for the bootloader's first answer (1000 ms)
    ReplyWait,      \* for its response to a block (4000 ms)
    FinalWait,      \* for the reboot (3000 ms)
    GuardAfter,     \* silence after which the module answers the escape sequence
    RxRoom,         \* what the receive buffer holds
    MaxAsk,         \* bound: requests of the application
    MaxGap,         \* bound: time between two ticks
    MaxFault        \* bound: faults of the line, the module and the file

ASSUME OemAssumption ==
    /\ {Blocks, Parts, Tries} \subseteq Nat \ {0} /\ Reply \in Seq({"U", "R"}) /\ Reply # <<>>
    /\ {BreakWait, PlusWait, ReplyWait, FinalWait, GuardAfter, RxRoom} \subseteq Nat
    /\ {MaxAsk, MaxGap, MaxFault} \subseteq Nat

VARIABLES
    setup,      \* what is attached to the program
    source,     \* xbee_fw_source_t; in a session, the response of the application
    dev,        \* xbee_dev_t
    radio,      \* the module
    idle,       \* time since the last tick
    faults,     \* faults that may still happen
    history     \* what has happened that the program does not know of

vars == <<setup, source, dev, radio, idle, faults, history>>

Waited == 0 .. Max({Guard, AnswerWait, CommandWait, BreakWait, PlusWait, ReplyWait, FinalWait}) + 1
\* source->timer, before it is set.
Unset == 0 - 1

Kinds == Commands \cup {"+++", "+", "data", "stale"}
Chars == Texts \cup {"CR", "U", "R", "N", "junk"}
Items == [kind : Kinds, of : Nat, part : Nat]
CharRecord == [ch : Chars, of : Nat]

\* How the port, the file and the module are: `prompt' if nothing goes wrong and the
\* module is never slow, `opens' if xbee_ser_open() ends a break and empties the buffers,
\* `file' what _xbee_oem_verify() finds, `speed' of the firmware, `mode' the device is in.
SetupRecord ==
    [use : {"install", "session"}, prompt : BOOLEAN, opens : BOOLEAN,
     file : {"good", "EILSEQ", "EBADMSG"}, hv : Texts, compat : Texts, prog : {"OK", "ERROR"},
     speed : {"slow", "fast"}, mode : {"UNKNOWN", "WAIT_IDLE"}]

ASSUME SetupsAssumption == Setups \subseteq SetupRecord

States ==
    {"INIT", "RESET", "CMD_PENDING", "PARSE_RESPONSE", "HV", "COMPAT", "VR", "CF1", "SL",
     "PROG", "FR", "BREAK", "BOOTLOADER", "TX_START", "TX_BLOCK", "SENDING", "RX_BLOCK",
     "RX_FAIL", "FINAL_PROMPT", "SUCCESS", "FAILURE", "SESSION"}

\* `block' is block_offset, `left' what is left of a block to send or of its response to
\* be read; `bad' a file that cannot be read any more.
SourceRecord ==
    [state : States, next : States, tries : 0 .. Tries + 1, timer : Waited \cup {Unset},
     buffer : Seq(CharRecord), block : 1 .. Blocks + 1, left : Nat, bad : BOOLEAN,
     ret : {"0", "1", "EIO", "EILSEQ", "EBADMSG", "ENOTSUP"}]

\* `quiet' is the time since a byte came, `got' the pieces of the block that is under way,
\* `has' the blocks that were written.
RadioRecord ==
    [phase : {"app", "escaped", "command", "resetting", "boot"}, quiet : Waited,
     got : Seq(Items), has : SUBSET (1 .. Blocks)]

\* `crossed': an answer was taken for another one.  `missed': an answer was given up, or a
\* block is sent again, and what is left of the answer may come.
\* `forged': the line has changed or made up a character.  `misread': the file failed and
\* was taken for its end.
HistoryRecord == [crossed : BOOLEAN, missed : BOOLEAN, forged : BOOLEAN, misread : BOOLEAN]

TypeOK ==
    /\ setup \in SetupRecord /\ source \in SourceRecord
    /\ dev \in Device(Waited, Items, CharRecord)
    /\ Len(dev.line) <= Room /\ Len(dev.back) <= RxRoom
    /\ radio \in RadioRecord /\ history \in HistoryRecord
    /\ idle \in 0 .. MaxGap /\ faults \in 0 .. MaxFault

-----------------------------------------------------------------------------
\* The driver

Running(state) == setup.use = "install" /\ source.state = state /\ source.ret = "0"

Fails(s, ret) == [s EXCEPT !.state = "FAILURE", !.ret = ret]
Turns(s, state) == [s EXCEPT !.state = state]

\* xbee_ser_open() of a port that is open.
Opened(d, baud) ==
    IF setup.opens THEN [d EXCEPT !.baud = baud, !.broken = FALSE, !.line = <<>>, !.back = <<>>]
    ELSE [d EXCEPT !.baud = baud]

\* _xbee_fw_send_request()
Asks(s, next) == [s EXCEPT !.buffer = <<>>, !.state = "PARSE_RESPONSE", !.next = next]
Asking(command, next) ==
    /\ source' = Asks(source, next) /\ dev' = Requested(dev, command)
    /\ UNCHANGED <<radio, history>>

\* What strcmp() and xbee_fw_hex2word() see of the response.
Exactly(ch) == Len(source.buffer) = 1 /\ source.buffer[1].ch = ch
Same == source.buffer # <<>> /\ source.buffer[1].ch = "same" /\ ~source.bad

Verify ==
    /\ Running("INIT")
    /\ \/ ~source.bad /\ setup.file = "good"
          /\ source' = [Turns(source, "RESET") EXCEPT !.tries = 0]
       \/ ~source.bad /\ setup.file # "good" /\ source' = Fails(source, setup.file)
       \/ source.bad /\ \E ret \in {"EIO", "EBADMSG"} : source' = Fails(source, ret)
    /\ UNCHANGED <<dev, radio, history>>

Reset ==
    /\ Running("RESET")
    /\ dev' = Entered(Opened(dev, IF source.tries = 0 THEN "fast" ELSE "slow"))
    /\ source' = Turns(source, "CMD_PENDING")
    /\ UNCHANGED <<radio, history>>

\* xbee_atmode_tick() gives up an answer that may still come.
GivenUp(d) ==
    LET t == Ticked(d)
    IN  [history EXCEPT !.missed = @ \/ (d.mode = "POST_ESCAPE" /\ t.mode = "IDLE")
                                     \/ (d.mode \in {"WAIT_RESPONSE", "WAIT_IDLE"} /\ t.mode # d.mode)]

\* The second try is at the default speed.
RetriesNot(s) == Fails(s, "EIO")
Retries(s) ==
    IF s.tries = 0 THEN [Turns(s, "RESET") EXCEPT !.tries = 1] ELSE Fails(s, "EIO")

CmdPending ==
    /\ Running("CMD_PENDING")
    /\ LET t == Ticked(dev)
       IN  CASE t.mode = "COMMAND" -> source' = Asks(source, "HV") /\ dev' = Requested(t, "HV")
             [] t.mode = "IDLE" -> source' = Retries(source) /\ dev' = t
             [] OTHER -> dev' = t /\ UNCHANGED source
    /\ history' = GivenUp(dev)
    /\ UNCHANGED radio

\* What was read as the answer to the last request.
Accepted(d, r) ==
    LET taken == r.buffer \o SubSeq(d.back, 1, Len(d.back) - Len(r.dev.back))
    IN  [history EXCEPT !.crossed = @ \/ \E i \in 1 .. Len(taken) : taken[i].of # d.asked]

ParseResponse ==
    /\ Running("PARSE_RESPONSE")
    /\ LET r == Read(dev, source.buffer)
           s == [source EXCEPT !.buffer = r.buffer]
       IN  /\ dev' = r.dev
           /\ source' = CASE r.ret = "0" -> Turns(s, source.next)
                          [] r.ret = "EAGAIN" -> s
                          [] OTHER -> Fails(s, "EIO")
           /\ history' = IF r.ret = "0" THEN Accepted(dev, r) ELSE history
    /\ UNCHANGED radio

\* A file for another module; the state stays, and the radio in command mode.
NotSupported(state) ==
    /\ Running(state) /\ ~Same /\ (state = "COMPAT" => ~Exactly("ERROR"))
    /\ source' = [source EXCEPT !.ret = "ENOTSUP"]
    /\ UNCHANGED <<dev, radio, history>>

HardwareVersion == Running("HV") /\ Same /\ Asking("%C", "COMPAT")
Compatibility == Running("COMPAT") /\ (Same \/ Exactly("ERROR")) /\ Asking("VR", "VR")
\* XBEE_OEM_FLAG_FORCEUPDATE is always set: the version decides nothing.
Version == Running("VR") /\ Asking("CF1", "CF1")
SerialFormat == Running("CF1") /\ Asking("SL", "SL")
SerialNumber == Running("SL") /\ Asking("%P", "PROG")
NotProgramming == Running("PROG") /\ ~Exactly("OK") /\ Asking("FR", "FR")

\* The module is in its bootloader; the timer is not set on this way.
Programming ==
    /\ Running("PROG") /\ Exactly("OK")
    /\ source' = Turns(source, "BOOTLOADER")
    /\ UNCHANGED <<dev, radio, history>>

Break ==
    /\ Running("FR")
    /\ source' = [Turns(source, "BREAK") EXCEPT !.timer = 0]
    /\ dev' = [dev EXCEPT !.broken = TRUE]
    /\ UNCHANGED <<radio, history>>

BreakLasts ==
    /\ Running("BREAK") /\ source.timer <= BreakWait
    /\ UNCHANGED <<source, dev, radio, history>>

\* What a timer that was never set says of the time is left open.
Timers == IF source.timer = Unset THEN 0 .. PlusWait + 1 ELSE {source.timer}

\* xbee_ser_getchar()
Got(d) == IF d.back = <<>> THEN "none" ELSE Head(d.back).ch
Left(d) == IF d.back = <<>> THEN d ELSE [d EXCEPT !.back = Tail(@)]

\* TX_START, the state that BOOTLOADER falls through to.
TxStart(s, d) ==
    /\ source' = CASE Got(d) = "none" /\ s.timer <= PlusWait -> Turns(s, "TX_START")
                   [] Got(d) \in {"U", "N"} ->
                         [Turns(s, "TX_BLOCK") EXCEPT !.tries = 0, !.block = 1]
                   [] OTHER -> Fails(s, "EIO")
    /\ dev' = Left(d)
    /\ UNCHANGED <<radio, history>>

Bootloader ==
    /\ Running("BOOTLOADER") \/ (Running("BREAK") /\ source.timer > BreakWait)
    /\ \E timer \in Timers :
          TxStart([source EXCEPT !.timer = timer], Write(Opened(dev, "boot"), Item("+", 0, 0)))
AwaitsBootloader == Running("TX_START") /\ TxStart(source, dev)

\* The length of the block at block_offset, or 0 at the end of the image; a read that
\* fails leaves 0 too.
TxBlock ==
    /\ Running("TX_BLOCK") /\ source.block <= Blocks /\ ~source.bad
    /\ source' = [Turns(source, "SENDING") EXCEPT !.left = Parts]
    /\ UNCHANGED <<dev, radio, history>>

\* The module is reset, and comes up at the speed of a new firmware.
EndOfImage ==
    /\ Running("TX_BLOCK") /\ (source.block > Blocks \/ source.bad)
    /\ source' = [Turns(source, "FINAL_PROMPT") EXCEPT !.timer = 0]
    /\ dev' = Goes(Opened(dev, "slow"), "UNKNOWN")
    /\ radio' = [radio EXCEPT !.phase = IF dev.broken THEN "boot" ELSE "app", !.got = <<>>]
    /\ history' = [history EXCEPT !.misread = @ \/ source.block <= Blocks]

\* As much of the block as there is room for, 128 bytes at most; then the length of the
\* response is read.
Sending ==
    /\ Running("SENDING")
    /\ LET sent == Min({Free(dev), source.left, 1})
           left == source.left - sent
           piece == Item(IF source.bad THEN "stale" ELSE "data", source.block,
                         Parts - source.left + 1)
       IN  /\ dev' = IF sent = 1 THEN Write(dev, piece) ELSE dev
           /\ source' = IF left > 0 THEN [source EXCEPT !.left = left]
                        ELSE [Turns(source, "RX_BLOCK") EXCEPT
                                 !.left = IF source.bad THEN 0 ELSE Len(Reply), !.timer = 0]
    /\ UNCHANGED <<radio, history>>

\* What has come of the response, as far as it is expected.
Come == Min({source.left, Len(dev.back)})
Expected ==
    /\ ~source.bad
    /\ \A i \in 1 .. Come : dev.back[i].ch = Reply[Len(Reply) - source.left + i]
TakesReply ==
    /\ Running("RX_BLOCK") /\ Come > 0
    /\ dev' = [dev EXCEPT !.back = SubSeq(@, Come + 1, Len(@))]
    /\ UNCHANGED radio

RxGood ==
    /\ TakesReply /\ Expected
    /\ source' = IF source.left > Come THEN [source EXCEPT !.left = @ - Come]
                 ELSE [Turns(source, "TX_BLOCK") EXCEPT !.left = 0, !.tries = 0, !.block = @ + 1]
    /\ history' = [history EXCEPT
                      !.crossed = @ \/ \E i \in 1 .. Come : dev.back[i].of # source.block]
\* RxWrong that sends the next block.
RxWrongGoesOn ==
    /\ TakesReply /\ ~Expected
    /\ source' = [Turns(source, "TX_BLOCK") EXCEPT !.block = @ + 1]
    /\ UNCHANGED history
RxWrong ==
    /\ TakesReply /\ ~Expected
    /\ source' = Turns(source, "RX_FAIL")
    /\ UNCHANGED history

\* RX_FAIL, the state that a timeout falls through to.
SendsAgain(s) ==
    IF s.tries < Tries THEN [Turns(s, "TX_BLOCK") EXCEPT !.tries = @ + 1]
    ELSE [Fails(s, "EIO") EXCEPT !.tries = @ + 1]
RxWaits ==
    /\ Running("RX_BLOCK") /\ Come = 0 /\ source.timer <= ReplyWait
    /\ UNCHANGED <<source, dev, radio, history>>
RxTimeout ==
    /\ Running("RX_BLOCK") /\ Come = 0 /\ source.timer > ReplyWait
    /\ source' = SendsAgain(source) /\ history' = [history EXCEPT !.missed = TRUE]
    /\ UNCHANGED <<dev, radio>>
RxFail ==
    /\ Running("RX_FAIL")
    /\ source' = SendsAgain(source) /\ history' = [history EXCEPT !.missed = TRUE]
    /\ UNCHANGED <<dev, radio>>

FinalPrompt ==
    /\ Running("FINAL_PROMPT")
    /\ source' = IF source.timer > FinalWait THEN [Turns(source, "SUCCESS") EXCEPT !.ret = "1"]
                 ELSE source
    /\ UNCHANGED <<dev, radio, history>>

Install ==
    \/ Verify \/ Reset \/ CmdPending \/ ParseResponse \/ NotSupported("HV")
    \/ NotSupported("COMPAT") \/ HardwareVersion \/ Compatibility \/ Version \/ SerialFormat
    \/ SerialNumber \/ NotProgramming \/ Programming \/ Break \/ BreakLasts \/ Bootloader
    \/ AwaitsBootloader \/ TxBlock \/ EndOfImage \/ Sending \/ RxGood \/ RxWrong \/ RxWaits
    \/ RxTimeout \/ RxFail \/ FinalPrompt

-----------------------------------------------------------------------------
\* The application

Session == setup.use = "session"

AppEnters ==
    /\ Session /\ dev.asked < MaxAsk
    /\ dev' = Entered(dev) /\ history' = GivenUp(dev)
    /\ UNCHANGED <<source, radio>>

AppTicks ==
    /\ Session
    /\ dev' = Ticked(dev) /\ history' = GivenUp(dev)
    /\ UNCHANGED <<source, radio>>

\* It sends a command when it was told that the device is in command mode.
AppSends ==
    /\ Session /\ dev.mode = "COMMAND" /\ dev.asked < MaxAsk
    /\ dev' = Requested(dev, "VR") /\ source' = [source EXCEPT !.buffer = <<>>]
    /\ UNCHANGED <<radio, history>>

AppReads ==
    /\ Session
    /\ LET r == Read(dev, source.buffer)
       IN  /\ dev' = r.dev
           /\ source' = [source EXCEPT !.buffer = IF r.ret = "EAGAIN" THEN r.buffer ELSE <<>>]
           /\ history' = CASE r.ret = "0" -> Accepted(dev, r)
                           [] r.ret = "ETIMEDOUT" -> [history EXCEPT !.missed = TRUE]
                           [] OTHER -> history
    /\ UNCHANGED radio

AppExits ==
    /\ Session /\ dev.asked < MaxAsk
    /\ dev' = Exited(dev) /\ history' = GivenUp(dev)
    /\ source' = [source EXCEPT !.buffer = IF dev.mode = "COMMAND" THEN <<>> ELSE @]
    /\ UNCHANGED radio

Application == AppEnters \/ AppTicks \/ AppSends \/ AppReads \/ AppExits

Tick == (Install \/ Application) /\ idle' = 0 /\ UNCHANGED <<setup, faults>>

-----------------------------------------------------------------------------
\* The module and the line

Tuned ==
    /\ ~dev.broken
    /\ dev.baud = IF radio.phase = "boot" THEN "boot" ELSE setup.speed

\* Characters of the module; what the receive buffer has no room for is lost.
Says(d, chars) == IF Len(d.back) + Len(chars) <= RxRoom THEN [d EXCEPT !.back = @ \o chars] ELSE d

TextOf(kind) ==
    CASE kind = "HV" -> setup.hv [] kind = "%C" -> setup.compat [] kind = "%P" -> setup.prog
      [] kind \in {"VR", "SL"} -> "other" [] OTHER -> "OK"
Answer(item) == <<Char(TextOf(item.kind), item.of), Char("CR", item.of)>>
PhaseAfter(kind) ==
    CASE kind = "CN" -> "app" [] kind = "FR" -> "resetting"
      [] kind = "%P" /\ setup.prog = "OK" -> "boot" [] OTHER -> "command"

\* A piece of a block: the first begins a block, the last completes it.
PieceTaken(got, d) ==
    LET n == Len(got)
        inOrder == \A i \in 1 .. n : got[i] = Item("data", got[n].of, i)
    IN  CASE ~inOrder -> [got |-> <<>>, dev |-> Says(d, <<Char("N", got[n].of)>>), has |-> {}]
          [] inOrder /\ n < Parts -> [got |-> got, dev |-> d, has |-> {}]
          [] OTHER -> [got |-> <<>>, has |-> {got[n].of},
                       dev |-> Says(d, [i \in 1 .. Len(Reply) |-> Char(Reply[i], got[n].of)])]

ModuleReads ==
    /\ dev.line # <<>>
    /\ LET item == Head(dev.line)
           d == [dev EXCEPT !.line = Tail(@)]
           r == [radio EXCEPT !.quiet = 0]
       IN  CASE ~Tuned -> dev' = d /\ UNCHANGED radio
             [] Tuned /\ radio.phase = "app" ->
                   dev' = d /\ radio' = [r EXCEPT !.phase = IF item.kind = "+++" THEN "escaped" ELSE @]
             [] Tuned /\ radio.phase = "escaped" -> dev' = d /\ radio' = [r EXCEPT !.phase = "app"]
             [] Tuned /\ radio.phase = "command" /\ item.kind \in Commands ->
                   dev' = Says(d, Answer(item)) /\ radio' = [r EXCEPT !.phase = PhaseAfter(item.kind)]
             [] Tuned /\ radio.phase = "boot" /\ item.kind = "+" ->
                   dev' = Says(d, <<Char("U", 0)>>) /\ radio' = [r EXCEPT !.got = <<>>]
             [] Tuned /\ radio.phase = "boot" /\ item.kind \in {"data", "stale"} ->
                   LET b == PieceTaken(Append(radio.got, item), d)
                   IN  dev' = b.dev /\ radio' = [r EXCEPT !.got = b.got, !.has = @ \cup b.has]
             [] OTHER -> dev' = d /\ radio' = r
    /\ UNCHANGED <<setup, source, idle, faults, history>>

\* Silence after the escape sequence.
ModuleGreets ==
    /\ radio.phase = "escaped" /\ radio.quiet >= GuardAfter
    /\ radio' = [radio EXCEPT !.phase = "command", !.quiet = 0]
    /\ dev' = IF Tuned THEN Says(dev, <<Char("OK", dev.asked), Char("CR", dev.asked)>>) ELSE dev
    /\ UNCHANGED <<setup, source, idle, faults, history>>

\* The module leaves command mode by itself.
ModuleLeaves ==
    /\ radio.phase = "command" /\ radio.quiet > CommandWait
    /\ radio' = [radio EXCEPT !.phase = "app"]
    /\ UNCHANGED <<setup, source, dev, idle, faults, history>>

\* A module that restarts while the break lasts runs its bootloader.  With a prompt
\* module the program is in time.
ModuleStarts ==
    /\ radio.phase = "resetting" /\ (setup.prompt => dev.broken)
    /\ radio' = [radio EXCEPT !.phase = IF dev.broken THEN "boot" ELSE "app", !.got = <<>>]
    /\ UNCHANGED <<setup, source, dev, idle, faults, history>>

Module == ModuleReads \/ ModuleGreets \/ ModuleLeaves \/ ModuleStarts

Spend == faults > 0 /\ faults' = faults - 1

ItemLost == dev.line # <<>> /\ dev' = [dev EXCEPT !.line = Tail(@)] /\ UNCHANGED history
CharLost == dev.back # <<>> /\ dev' = [dev EXCEPT !.back = Tail(@)] /\ UNCHANGED history
CharForged ==
    /\ \E ch \in IF Session THEN {"OK", "CR", "junk"} ELSE Chars :
          \/ dev.back # <<>> /\ dev' = [dev EXCEPT !.back = <<Char(ch, 0)>> \o Tail(@)]
          \/ Len(dev.back) < RxRoom /\ dev' = [dev EXCEPT !.back = Append(@, Char(ch, 0))]
    /\ history' = [history EXCEPT !.forged = TRUE]
LineFails == (ItemLost \/ CharLost \/ CharForged) /\ UNCHANGED <<source, radio>>
ModuleResets ==
    /\ radio' = [radio EXCEPT !.phase = IF dev.broken THEN "boot" ELSE "app", !.got = <<>>]
    /\ UNCHANGED <<source, dev, history>>
FileFails ==
    /\ setup.use = "install" /\ source' = [source EXCEPT !.bad = TRUE]
    /\ UNCHANGED <<dev, radio, history>>
Fault == Spend /\ (LineFails \/ ModuleResets \/ FileFails) /\ UNCHANGED <<setup, idle>>

\* A line and a module that are never slow leave nothing to do while time passes.
Prompt ==
    /\ dev.line = <<>> /\ dev.back = <<>>
    /\ radio.phase # "resetting"
    /\ radio.phase = "escaped" => radio.quiet < GuardAfter
    /\ radio.phase = "command" => radio.quiet <= CommandWait

Later(t, by) == IF t = Unset \/ t + by \notin Waited THEN t ELSE t + by
TimePasses ==
    /\ source.ret = "0" /\ idle < MaxGap /\ idle' = idle + 1
    /\ setup.prompt => Prompt
    /\ source' = [source EXCEPT !.timer = Later(@, 1)]
    /\ dev' = [dev EXCEPT !.age = Later(@, 1)]
    /\ radio' = [radio EXCEPT !.quiet = Later(@, 1)]
    /\ UNCHANGED <<setup, faults, history>>

Init ==
    /\ setup \in Setups
    /\ source = [state |-> IF setup.use = "install" THEN "INIT" ELSE "SESSION", next |-> "INIT",
                 tries |-> 0, timer |-> Unset, buffer |-> <<>>, block |-> 1, left |-> 0,
                 bad |-> FALSE, ret |-> "0"]
    /\ dev = [mode |-> setup.mode, age |-> 0, line |-> <<>>, back |-> <<>>, asked |-> 0,
              baud |-> setup.speed, broken |-> FALSE]
    /\ radio = [phase |-> "app", quiet |-> 0, got |-> <<>>, has |-> {}]
    /\ idle = 0 /\ faults = IF setup.prompt THEN 0 ELSE MaxFault
    /\ history = [crossed |-> FALSE, missed |-> FALSE, forged |-> FALSE, misread |-> FALSE]

Next == Tick \/ Module \/ Fault \/ TimePasses
Spec == Init /\ [][Next]_vars
FairSpec == Spec /\ WF_vars(Tick) /\ SF_vars(TimePasses) /\ WF_vars(Module)

-----------------------------------------------------------------------------
\* An update that is reported as done has brought every block, unless an answer was taken
\* for another one, or the file failed and was taken for its end.
WholeImage ==
    source.ret = "1" => radio.has = 1 .. Blocks \/ history.crossed \/ history.misread

\* An answer is taken for the one to another request, or to another block, only when the
\* line has changed it, or after a request was given up whose answer came all the same, or
\* a block was sent again (what was received by then is not flushed).
OwnAnswer == history.crossed => history.missed \/ history.forged

\* As long as a module is prompt, a session knows whether it is in command mode: only when
\* the time for a command is over, the one end may leave it before the other.  A command
\* that is sent after that time finds nobody; when its answer is given up, the program goes
\* back to a command mode the module has left.
ModesAgree ==
    Session /\ setup.prompt =>
        /\ dev.mode = "IDLE" => radio.phase # "command" \/ radio.quiet > CommandWait
        /\ dev.mode = "COMMAND" =>
              radio.phase = "command" \/ dev.age > CommandWait \/ history.missed

\* What an update needs from the port, the file and the module.
Suitable ==
    /\ setup.use = "install" /\ setup.prompt /\ setup.opens /\ setup.file = "good"
    /\ setup.hv = "same" /\ setup.compat \in {"same", "ERROR"} /\ setup.prog = "ERROR"
    /\ setup.mode = "UNKNOWN"

\* Then a good line and a module that answers in time are enough.
Installs == Suitable ~> source.ret = "1"
=============================================================================
