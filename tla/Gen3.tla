--------------------------------- MODULE Gen3 ---------------------------------
(***************************************************************************)
(* A firmware update through the Gen3 bootloader                           *)
(* (xbee_bl_gen3_install_tick() of src/xbee/xbee_bl_gen3.c), one call of   *)
(* the tick at a time, with the bootloader and the serial line as the      *)
(* environment.                                                            *)
(*                                                                         *)
(* `line' holds the bytes the driver has written and the module has not    *)
(* read: a command, or a byte of a page.  `back' holds the characters of   *)
(* the module that wait in the receive buffer.  A page of the image is     *)
(* named by its number; its data are PageSize bytes that carry that name.  *)
(***************************************************************************)
EXTENDS Integers, Sequences, FiniteSetsExt

CONSTANTS
    Images,         \* firmware images: sequences of pages, TRUE unless the page is all 0xFF
    PageSize,       \* XBEE_GEN3_UPLOAD_PAGE_SIZE (512)
    LowByte,        \* values of the low byte of a page number (256)
    Room,           \* what the transmit buffer holds
    RxRoom,         \* what the receive buffer holds
    Retries,        \* what the retry counter may reach (3)
    EnterWait,      \* how long the break lasts (6 s)
    ReadyWait,      \* before the bootloader is spoken to (100 ms)
    LoadTimeout,    \* XBEE_GEN3_FW_LOAD_TIMEOUT_MS (10 s)
    MaxGap,         \* bound: time between two ticks
    MaxFault        \* bound: faults of the line, the module and the file

ASSUME Gen3Assumption ==
    /\ Images \subseteq Seq(BOOLEAN)
    /\ {PageSize, LowByte, Retries} \subseteq Nat \ {0}
    /\ Room \in Nat /\ Room >= 3 /\ RxRoom \in Nat /\ RxRoom >= 2
    /\ {EnterWait, ReadyWait, LoadTimeout, MaxGap, MaxFault} \subseteq Nat

VARIABLES
    image,      \* the file: its pages, and whether the last one is as long as the others
    source,     \* xbee_gen3_update_t and the serial port
    line, back, \* the two directions of the serial line
    boot,       \* the module
    idle,       \* time since the last tick
    prompt,     \* nothing goes wrong, and the module and the line are never slow
    faults,     \* faults that may still happen
    forged      \* history: the line has changed or made up a character of `back'

vars == <<image, source, line, back, boot, idle, prompt, faults, forged>>

\* The states of the tick, in the order the states are run through.
After ==
    [INIT |-> "ENTER_BOOTLOADER", ENTER_BOOTLOADER |-> "GET_BL_VERSION",
     GET_BL_VERSION |-> "BL_VERSION", BL_VERSION |-> "BL_PROTOCOL", BL_PROTOCOL |-> "BAUD_RATE",
     BAUD_RATE |-> "EXT_VERSION", EXT_VERSION |-> "START_TRANSFER",
     START_TRANSFER |-> "SEND_PAGE", SEND_PAGE |-> "LOAD_PAGE", LOAD_PAGE |-> "VERIFY",
     VERIFY |-> "SUCCESS"]
States == DOMAIN After \cup {"SUCCESS", "FAILURE"}

\* What a page of the buffer or of the flash may hold but a page of the image.
Junk == 0 - 1
Erased == 0 - 2
OldPage == 0 - 3

Pages == Len(image.pages)
HasData(k) == k \in 0 .. Pages - 1 /\ image.pages[k + 1]
Blank == \A k \in 0 .. Pages - 1 : ~HasData(k)
PageNumbers == UNION {0 .. Len(pages) + 1 : pages \in Images}
Content == PageNumbers \cup {Junk, Erased, OldPage}

Kinds == {"B", "L", "R", "V", "I", "P", "C", "num", "high", "data", "sum", "stray"}
Bytes == [kind : Kinds, v : Int]
Byte(kind, v) == [kind |-> kind, v |-> v]
Command(kind) == Byte(kind, 0)
Chars == {"U", "1", "text", "FAIL", "CRC", "VERIFY"}
Texts == {"", "text", "?"}
Times == 0 .. Max({EnterWait, ReadyWait, LoadTimeout}) + 1

\* xbee_gen3_update_t; `age' is the time since `timer' was set, `retries', `eof',
\* `query' and `proto1' are the parts of `flags', `text' is the baud rate in the buffer,
\* `broken' the serial break, `ret' what the tick returned last.  `pos' counts the pages
\* read from the file.
SourceRecord ==
    [state : States, age : Times, retries : Nat, eof : BOOLEAN,
     query : BOOLEAN, proto1 : BOOLEAN, page_num : PageNumbers, page_offset : -1 .. PageSize,
     buffer : Content, text : Texts, baud : {"slow", "fast", "none"},
     broken : BOOLEAN, pos : PageNumbers,
     ret : {"0", "EAGAIN", "EIO", "ECANCELED", "EILSEQ", "ETIMEDOUT"}]

\* The module: its application or its bootloader; `got' are the bytes of the page that
\* is under way.
BootRecord ==
    [phase : {"app", "boot"}, proto1 : BOOLEAN, baud : {"slow", "fast"},
     got : Seq(Bytes), flash : [PageNumbers -> Content]]

TypeOK ==
    /\ source \in SourceRecord /\ boot \in BootRecord
    /\ line \in Seq(Bytes) /\ Len(line) <= Room
    /\ back \in Seq(Chars) /\ Len(back) <= RxRoom
    /\ idle \in 0 .. MaxGap /\ faults \in 0 .. MaxFault /\ forged \in BOOLEAN

-----------------------------------------------------------------------------
\* The driver

Free == Room - Len(line)

\* xbee_ser_putchar(): a full buffer takes nothing, and nobody looks.
Put(byte) == IF Free > 0 THEN Append(line, byte) ELSE line

Got == IF back = <<>> THEN "none" ELSE Head(back)
Left == IF back = <<>> THEN back ELSE Tail(back)

\* _next_state()
NextState(s) == [s EXCEPT !.state = After[@], !.age = 0]
Returns(s, ret) == [s EXCEPT !.ret = ret, !.state = IF ret = "0" THEN "SUCCESS" ELSE "FAILURE"]

\* What every state shares that has not returned.
Timeout(s) == IF s.age > LoadTimeout THEN Returns(s, "ETIMEDOUT") ELSE s

\* _load_page(): pages of 0xFF only are left out, their numbers are not.  A source that
\* has no more data leaves what the buffer held, or 0xFF.
Remaining(s) == {k \in s.pos .. Pages - 1 : HasData(k)}
\* LoadPage without the numbers of the pages left out.
LoadPageUncounted(s) ==
    IF s.eof \/ Remaining(s) = {} THEN [s EXCEPT !.eof = TRUE]
    ELSE LET k == Min(Remaining(s))
         IN  [s EXCEPT !.eof = k = Pages - 1 /\ ~image.full, !.pos = k + 1, !.buffer = k]
LoadPage(s) ==
    IF s.eof THEN s
    ELSE IF Remaining(s) = {}
    THEN [s EXCEPT !.eof = TRUE, !.page_num = @ + Pages - s.pos, !.pos = Pages,
                   !.buffer = IF s.pos < Pages THEN Junk ELSE @]
    ELSE LET k == Min(Remaining(s))
         IN  [s EXCEPT !.eof = k = Pages - 1 /\ ~image.full, !.page_num = @ + k - s.pos,
                       !.pos = k + 1, !.buffer = k]
Loads(s) == ~s.eof /\ Remaining(s) # {}

\* The file cannot be read: its error is handed on.
ReadFails(s) == [Returns(s, "EIO") EXCEPT !.eof = TRUE]

Running(state) == source.state = state /\ source.ret = "EAGAIN"
Spend == faults > 0 /\ faults' = faults - 1

\* The port is opened, RTS cleared and the break begun.
Initialise ==
    /\ Running("INIT")
    /\ source' = [NextState(source) EXCEPT !.baud = "slow", !.broken = TRUE]
    /\ UNCHANGED <<line, back, faults>>

\* CTS tells that the bootloader runs.
EnterBootloader ==
    /\ Running("ENTER_BOOTLOADER")
    /\ source' = IF source.age > EnterWait \/ boot.phase = "boot"
                 THEN NextState(source) ELSE Timeout(source)
    /\ UNCHANGED <<line, back, faults>>

GetVersion ==
    /\ Running("GET_BL_VERSION")
    /\ IF source.age > ReadyWait
       THEN /\ source' = [NextState(source) EXCEPT !.broken = FALSE]
            /\ line' = Put(Command("B")) /\ back' = <<>>
       ELSE source' = Timeout(source) /\ UNCHANGED <<line, back>>
    /\ UNCHANGED faults

\* Whatever the characters of the version are, they are taken out.
Version ==
    /\ Running("BL_VERSION")
    /\ IF Len(back) >= 2
       THEN source' = NextState(source) /\ line' = Put(Command("L")) /\ back' = Tail(Tail(back))
       ELSE source' = Timeout(source) /\ UNCHANGED <<line, back>>
    /\ UNCHANGED faults

Protocol ==
    /\ Running("BL_PROTOCOL")
    /\ source' = CASE Got = "1" -> Timeout([source EXCEPT !.proto1 = TRUE])
                   [] Got = "U" -> [NextState(source) EXCEPT !.page_offset = 0, !.text = ""]
                   [] OTHER -> Timeout(source)
    /\ line' = IF Got = "U" THEN Put(Command("R")) ELSE line
    /\ back' = Left
    /\ UNCHANGED faults

\* The characters before the 'U' are the new rate.
BaudRate ==
    /\ Running("BAUD_RATE")
    /\ source' =
        CASE Got = "U" -> [NextState(source) EXCEPT
                              !.baud = IF source.text = "text" THEN "fast" ELSE "none"]
          [] Got = "none" -> Timeout(source)
          [] OTHER -> Timeout([source EXCEPT
                                  !.text = IF @ = "" /\ Got = "text" THEN "text" ELSE "?"])
    /\ line' = IF Got = "U" THEN Put(Command("V")) ELSE line
    /\ back' = Left
    /\ UNCHANGED faults

\* A query goes no further, and tells the bootloader to run the firmware.
ExtVersion ==
    /\ Running("EXT_VERSION")
    /\ IF Len(back) < 2 THEN source' = Timeout(source) /\ UNCHANGED <<line, back>>
       ELSE /\ back' = Tail(Tail(back))
            /\ IF source.query
               THEN source' = Returns(source, "0") /\ line' = Put(Command("C"))
               ELSE source' = NextState(source) /\ line' = Put(Command("I"))
    /\ UNCHANGED faults

\* The first page is loaded, and sent even if there was none.
StartTransfer ==
    /\ Running("START_TRANSFER")
    /\ back' = Left /\ UNCHANGED line
    /\ \/ /\ source' = IF Got = "U" THEN [NextState(LoadPage(source)) EXCEPT !.page_offset = -1]
                       ELSE Timeout(source)
          /\ UNCHANGED faults
       \/ Got = "U" /\ Spend /\ source' = ReadFails(source)

\* Header of one protocol for both.
HeaderLow(s) == <<Command("P"), Byte("num", s.page_num % LowByte)>>
Header(s) ==
    <<Command("P"), Byte("num", s.page_num % LowByte)>>
        \o IF s.proto1 THEN <<Byte("high", s.page_num \div LowByte)>> ELSE <<>>
\* Bytes of the buffer from page_offset; the one before it is not in the buffer.
PageBytes(s, n) ==
    [i \in 1 .. n |-> IF s.page_offset + i = 0 THEN Byte("stray", 0) ELSE Byte("data", s.buffer)]
Sum1(content) == <<Byte("sum", content)>>
Sum(proto1, content) == Sum1(content) \o IF proto1 THEN Sum1(content) ELSE <<>>

\* _send_page(): as much as there is room for; a header that finds room for one or two
\* bytes only falls to the branch of the data.
SendHeader ==
    /\ source.page_offset < 0 /\ Free >= 3
    /\ source' = Timeout([source EXCEPT !.page_offset = 0])
    /\ line' = line \o Header(source) /\ UNCHANGED back
SendData ==
    /\ Free > 0 /\ ~(source.page_offset < 0 /\ Free >= 3) /\ source.page_offset < PageSize
    /\ LET n == Min({PageSize - source.page_offset, Free})
       IN  /\ source' = Timeout([source EXCEPT !.page_offset = @ + n])
           /\ line' = line \o PageBytes(source, n)
    /\ UNCHANGED back
SendSum ==
    /\ source.page_offset = PageSize /\ Free >= 2
    /\ source' = NextState(source)
    /\ line' = line \o Sum(source.proto1, source.buffer) /\ back' = <<>>
SendNothing ==
    /\ Free = 0 \/ (source.page_offset = PageSize /\ Free = 1)
    /\ source' = Timeout(source) /\ UNCHANGED <<line, back>>
SendPage ==
    /\ Running("SEND_PAGE")
    /\ SendHeader \/ SendData \/ SendSum \/ SendNothing
    /\ UNCHANGED faults

\* The common end of both answers that lead to another page sent.
Resend(s) ==
    LET r == [s EXCEPT !.retries = @ + 1]
    IN  IF r.retries > Retries THEN Returns(r, "ECANCELED")
        ELSE [r EXCEPT !.page_offset = -1, !.state = "SEND_PAGE", !.age = 0]

\* NextPage that does not wait for the answer to the last command.
NextPageLast ==
    /\ Running("LOAD_PAGE") /\ Got = "U"
    /\ LET s == [source EXCEPT !.retries = 0, !.page_num = @ + 1]
       IN  IF Loads(s) THEN source' = Resend(LoadPage(s)) /\ UNCHANGED line
           ELSE source' = Returns(s, "0") /\ line' = Put(Command("C"))
    /\ back' = Left /\ UNCHANGED faults
\* The answer to a page.
NextPage ==
    /\ Running("LOAD_PAGE") /\ Got = "U"
    /\ LET s == [source EXCEPT !.retries = 0, !.page_num = @ + 1]
       IN  \/ /\ Loads(s) /\ source' = Resend(LoadPage(s)) /\ UNCHANGED <<line, faults>>
           \/ /\ ~Loads(s) /\ source' = NextState(LoadPage(s))
              /\ line' = Put(Command("C")) /\ UNCHANGED faults
           \/ Spend /\ ~s.eof /\ source' = ReadFails(s) /\ UNCHANGED line
    /\ back' = Left

\* SamePage that sends the page again instead of waiting.
SamePageAtOnce ==
    /\ Running("LOAD_PAGE") /\ Got # "U"
    /\ source' = IF Got \in {"CRC", "none"} THEN Resend(source) ELSE Timeout(source)
    /\ back' = Left /\ UNCHANGED <<line, faults>>
\* SamePage without a time limit.
SamePageWaits ==
    /\ Running("LOAD_PAGE") /\ Got # "U"
    /\ source' = CASE Got = "CRC" -> Resend(source)
                   [] Got = "VERIFY" -> Returns(source, "ECANCELED")
                   [] OTHER -> source
    /\ back' = Left /\ UNCHANGED <<line, faults>>
SamePage ==
    /\ Running("LOAD_PAGE") /\ Got # "U"
    /\ source' = CASE Got = "CRC" -> Resend(source)
                   [] Got = "VERIFY" -> Returns(source, "ECANCELED")
                   [] OTHER -> Timeout(source)
    /\ back' = Left
    /\ UNCHANGED <<line, faults>>

Verify ==
    /\ Running("VERIFY")
    /\ source' = CASE Got = "FAIL" -> Returns(source, "EILSEQ")
                   [] Got = "U" -> Returns(source, "0")
                   [] OTHER -> Timeout(source)
    /\ back' = Left
    /\ UNCHANGED <<line, faults>>

Tick ==
    /\ \/ Initialise \/ EnterBootloader \/ GetVersion \/ Version \/ Protocol \/ BaudRate
       \/ ExtVersion \/ StartTransfer \/ SendPage \/ NextPage \/ SamePage \/ Verify
    /\ idle' = 0
    /\ UNCHANGED <<image, boot, prompt, forged>>

-----------------------------------------------------------------------------
\* The module and the line

Tuned == source.baud = boot.baud

\* Characters of the module; what the receive buffer has no room for is lost.
Says(chars) ==
    back' = IF Len(back) + Len(chars) <= RxRoom THEN back \o chars ELSE back

PageLength == IF boot.proto1 THEN 3 + PageSize + 2 ELSE 2 + PageSize + 1
NumberOf(got) == got[2].v + IF boot.proto1 THEN LowByte * got[3].v ELSE 0

\* The page `content' as the bootloader expects it behind the header; the checksum is
\* about the data only.
Body(content) == [i \in 1 .. PageSize |-> Byte("data", content)] \o Sum(boot.proto1, content)
BodyOf(got) == SubSeq(got, IF boot.proto1 THEN 4 ELSE 3, Len(got))

\* The firmware of the flash is the image.
Installed == \A k \in PageNumbers : boot.flash[k] = IF HasData(k) THEN k ELSE Erased

\* The last byte of a page: it is written if its checksum is right and the write succeeds.
TakePage(got) ==
    \/ /\ \E content \in Content :
             /\ BodyOf(got) = Body(content)
             /\ IF NumberOf(got) \in PageNumbers
                THEN /\ boot' = [boot EXCEPT !.got = <<>>, !.flash[NumberOf(got)] = content]
                     /\ Says(<<"U">>)
                ELSE boot' = [boot EXCEPT !.got = <<>>] /\ Says(<<"VERIFY">>)
       /\ UNCHANGED faults
    \/ Spend /\ boot' = [boot EXCEPT !.got = <<>>] /\ Says(<<"VERIFY">>)
    \/ /\ \A content \in Content : BodyOf(got) # Body(content)
       /\ boot' = [boot EXCEPT !.got = <<>>] /\ Says(<<"CRC">>) /\ UNCHANGED faults

TakeCommand(kind) ==
    CASE kind = "B" -> Says(<<"text", "U">>) /\ UNCHANGED boot
      [] kind = "L" -> Says(IF boot.proto1 THEN <<"1", "U">> ELSE <<"U">>) /\ UNCHANGED boot
      [] kind = "R" -> Says(<<"text", "U">>) /\ boot' = [boot EXCEPT !.baud = "fast"]
      [] kind = "V" -> Says(<<"text", "U">>) /\ UNCHANGED boot
      [] kind = "I" ->
            Says(<<"U">>) /\ boot' = [boot EXCEPT !.flash = [k \in PageNumbers |-> Erased]]
      [] kind = "P" -> boot' = [boot EXCEPT !.got = <<Command("P")>>] /\ UNCHANGED back
      [] kind = "C" ->
            IF (Installed /\ ~Blank) \/ \A k \in PageNumbers : boot.flash[k] = OldPage
            THEN Says(<<"U">>) /\ boot' = [boot EXCEPT !.phase = "app"]
            ELSE Says(<<"FAIL">>) /\ UNCHANGED boot
      [] OTHER -> UNCHANGED <<boot, back>>

ModuleReads ==
    /\ line # <<>> /\ line' = Tail(line)
    /\ IF boot.phase = "boot" /\ Tuned
       THEN LET got == Append(boot.got, Head(line))
            IN  CASE boot.got = <<>> -> TakeCommand(Head(line).kind) /\ UNCHANGED faults
                  [] boot.got # <<>> /\ Len(got) < PageLength ->
                        boot' = [boot EXCEPT !.got = got] /\ UNCHANGED <<back, faults>>
                  [] OTHER -> TakePage(got)
       ELSE UNCHANGED <<boot, back, faults>>
    /\ UNCHANGED <<image, source, idle, prompt, forged>>

\* A reset starts the bootloader while the break lasts, and the application otherwise.
ModuleResets ==
    /\ boot' = [boot EXCEPT !.phase = IF source.broken THEN "boot" ELSE "app",
                            !.baud = "slow", !.got = <<>>]
    /\ IF source.broken /\ boot.phase = "app" THEN UNCHANGED faults ELSE Spend
    /\ UNCHANGED <<image, source, line, back, idle, prompt, forged>>

\* A byte is lost, changed or made up by the line.  The number of a page is changed to
\* another number; a byte the bootloader does not know takes the place of any other.
Damaged(byte) ==
    IF byte.kind = "num" THEN {Byte("num", v) : v \in 0 .. LowByte - 1} ELSE {Byte("stray", 0)}
LineFails ==
    /\ line # <<>>
    /\ \E l \in {Tail(line)} \cup {<<byte>> \o Tail(line) : byte \in Damaged(Head(line))} :
          line' = l
    /\ UNCHANGED <<back, forged>>
AnswerLost == back # <<>> /\ back' = Tail(back) /\ UNCHANGED <<line, forged>>
AnswerForged ==
    /\ \E ch \in Chars :
          \/ back # <<>> /\ back' = <<ch>> \o Tail(back)
          \/ Len(back) < RxRoom /\ back' = Append(back, ch)
    /\ forged' = TRUE /\ UNCHANGED line
Fault ==
    /\ Spend
    /\ LineFails \/ AnswerLost \/ AnswerForged
    /\ UNCHANGED <<image, source, boot, idle, prompt>>

\* A line and a module that are never slow leave nothing unread while time passes, and
\* the program does not rest while it sends.
Prompt ==
    /\ line = <<>> /\ back = <<>>
    /\ source.state # "SEND_PAGE"
    /\ source.broken => boot.phase = "boot"

TimePasses ==
    /\ source.ret = "EAGAIN"
    /\ prompt => Prompt
    /\ idle < MaxGap /\ idle' = idle + 1
    /\ source' = [source EXCEPT !.age = IF @ + 1 \in Times THEN @ + 1 ELSE @]
    /\ UNCHANGED <<image, line, back, boot, prompt, faults, forged>>

\* xbee_bl_gen3_install_init()
Init ==
    /\ image \in [pages : Images, full : BOOLEAN]
    /\ source \in [state : {"INIT"}, age : {0}, retries : {0}, eof : {FALSE}, query : BOOLEAN,
                   proto1 : {FALSE}, page_num : {0}, page_offset : {0}, buffer : {Junk},
                   text : {""}, baud : {"none"}, broken : {FALSE}, pos : {0}, ret : {"EAGAIN"}]
    /\ boot \in [phase : {"app"}, proto1 : BOOLEAN, baud : {"slow"}, got : {<<>>},
                 flash : {[k \in PageNumbers |-> OldPage]}]
    /\ line = <<>> /\ back = <<>>
    /\ idle = 0 /\ forged = FALSE
    /\ prompt \in BOOLEAN /\ faults = IF prompt THEN 0 ELSE MaxFault

Next == Tick \/ ModuleReads \/ ModuleResets \/ Fault \/ TimePasses

Spec == Init /\ [][Next]_vars

FairSpec ==
    /\ Spec /\ WF_vars(Tick) /\ SF_vars(TimePasses)
    /\ WF_vars(ModuleReads) /\ WF_vars(ModuleResets)

-----------------------------------------------------------------------------
\* An image the bootloader can be given: it has data, and in the old protocol, which
\* numbers pages by one byte, no more pages than that.
Suitable == ~Blank /\ (boot.proto1 \/ Pages <= LowByte)

\* Success means that the flash holds the image, whatever happens once to the line, the
\* module or the file: no checksum covers the number of a page, an answer may be made up
\* by the line, and what is left to notice it is the answer to the last command.
WholeImage == source.ret = "0" /\ ~source.query => Installed \/ ~Suitable

\* What _send_page() sends under a number is the page of the image that has that number,
\* whatever _load_page() has left out before it.  An image without data is the exception:
\* what the buffer holds is sent, because the first page is not asked for its length.
InPlace == source.state = "SEND_PAGE" => source.buffer = source.page_num \/ Blank

\* A header finds room.  _send_page() counts on it: for a header that does not, it sends
\* bytes from before the buffer.  It holds because an answer comes when the module has
\* read all of a page, and so not for an answer the line has made up.
Headed == source.state = "SEND_PAGE" /\ source.page_offset < 0 => Free >= 3 \/ forged

\* An update ends, whatever the module does and if it does nothing at all.
Ends == <>(source.ret # "EAGAIN")

\* A good line and a module that answers in time are enough for an image to be installed,
\* and for a query to be answered.
Installs == prompt /\ (source.query \/ Suitable) ~> source.ret = "0"
=============================================================================
