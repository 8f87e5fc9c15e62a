# A verification project for the XBee ANSI C library

TLA+ models of the library's core, their model-checking runs and machine-checked
proofs. Paths are those of the repository (`src/xbee/...` is `src/src/xbee/...` seen
from the directory above it). `PROJECT.json` lists every definition with the lines
it stands for.

## The system

The library drives Digi XBee radio and cellular modules over a serial port. It is
single-threaded and polled: a program calls `xbee_dev_tick()` (and the ticks of the
layers it uses) from its main loop, and everything else happens in calls of the
program or in callbacks that run inside these ticks. There is no lock because there
is no second thread; what replaces concurrency, and is as hard to test, is

* **re-entrancy**: a frame handler or an expiry calls a callback, the callback calls
  the layer again, and the handler goes on with a table that has changed under it;
* **the module at the other end**: answers cross requests on the line, come late,
  come twice or do not come, and ids (frame ids, socket ids, sequence numbers,
  handles) of one or two bytes come round and are used again;
* **tables at their limit**: request, socket and conversation tables of a few slots.

| component | state | operations | correct when |
|---|---|---|---|
| device and frame link (`xbee_device.c`) | receive state and buffer, frame id, flags | `xbee_dev_tick`, `xbee_frame_write`, dispatch | frames sent are the frames dispatched, in order; a damaged one costs no other |
| serial buffers (`xbee_cbuf.c`) | ring buffer | put, get, used, free, flush | a FIFO of bytes |
| AT commands (`xbee_atcmd.c`) | request table, list context, query flags | create, set, send, release, tick, response and modem status handlers, device query | an answer reaches the request it answers; requests leave the table; the query ends and is repeated when asked |
| sockets (`xbee_socket.c`) | socket table | create, connect, bind, listen, send, option, close, reset, handlers | a frame reaches the socket it is about; host and module agree |
| APS conversations (`wpan_aps.c`) | conversation table, transaction id | register, response, expire | a response reaches the conversation it answers, once; every conversation ends |
| XMODEM sender (`xbee_xmodem.c`) | packet, tries, timer | `xbee_xmodem_tx_tick` | the receiver has the file when the sender reports success; blocks are never doubled or out of order |
| firmware updates (`xbee_firmware.c`, `xbee_bl_gen3.c`, EBL, OTA) | bootloader dialogue | ticks | an update ends, and success means the whole file |
| AT mode (`xbee_atmode.c`) | mode, timer | enter, exit, send, read, tick | the mode follows the module's |
| commissioning (`xbee_commissioning.c`) | ZCL startup set, state | tick, register callback | it reaches JOINED and follows the network |
| simple XBee API (`xbee_sxa.c`) | nodes and cached registers | discovery, cache | a cached value is the one last read |
| frame builders and parsers, ZigBee clusters, utilities | little or none | - | functional |

Components interact through the dispatch table (a frame type gives a list of
handlers), through callbacks kept in their tables, through the frame id counter of
the device that all layers share, and through the flags of `xbee_dev_t`. AT commands
carry the device query, commissioning and the simple API; XMODEM and the AT mode
carry the firmware updates; the APS conversations carry the ZigBee client.

## Modules

| module | contents |
|---|---|
| `AtCmd` | the AT command layer: table, send, expiry, responses, list execution, device query, modem status, the application and the module |
| `AtCmdMC` | its instances for TLC |
| `AtCmdProofs` | type correctness of `AtCmd`, `NestingBounded`, that an expiry keeps its slot, and `AnswersOwnRequest` until frame ids come round; in a table with room `CallbackKeepsSlot`, `QueryAlive`, and that no create finds the table full |
| `Socket` | the socket layer: table, calls, frame handlers, the module with its sockets and the link |
| `SocketMC` | its instances for TLC |
| `FrameLink` | the frame link: the line and its faults, the receive state machine, the tick, the dispatch of frames, `xbee_frame_write()` |
| `FrameLinkMC` | its instances for TLC |
| `FrameLinkProofs` | type correctness, `HandlersAgree`, `WholeFrames`, `BusyIsTemporary` and `InOrder` of `FrameLink`; `Contained` where frames hold no start marker |
| `Cbuf` | the circular buffer, one step for each memory access of the main program |
| `Fifo` | what the buffer promises: a bounded queue |
| `CbufMC` | the instances of `Cbuf` for TLC |
| `CbufProofs` | type correctness of `Cbuf`, and that it implements `Fifo` |
| `SocketProofs` | type correctness of `Socket`, its life cycle, that a notification reaches the owner, and that host and module agree |
| `Exchange` | what an endpoint promises to the handler of a request |
| `Conversation` | the conversation tables of the endpoints, the ZDO and ZCL client requests that use them, the tick that expires them |
| `ConversationMC` | its instance for TLC |
| `ZigbeeProofs` | five theorems about `Conversation`, among them that it implements `Exchange`, and five about `Commissioning`: its type correctness, `Awaited`, `TracksNetwork`, `SavesWhatJoined` and `Undivided` |
| `Xmodem` | the XMODEM sender, one call of its tick at a time |
| `Update` | the EBL and HCS08 firmware drivers over `Xmodem`, with the line and the bootloader |
| `UpdateMC` | its instance for TLC |
| `UpdateProofs` | type correctness of `Update`, and that the module takes what was written whole, in order, and at success all of it |
| `Gen3` | the driver of the Gen3 bootloader, with the line, the bootloader and its flash |
| `Gen3MC` | its instance for TLC |
| `Gen3Proofs` | type correctness of `Gen3`, that pages go to their place, that their headers find room, and that what is flashed is whole |
| `AtMode` | AT command mode: what each function does to a device, as operators |
| `OemUpdate` | the OEM firmware driver and a session in command mode, both over `AtMode`, with the module, its bootloader and the line |
| `OemUpdateMC` | its instance for TLC |
| `OemUpdateProofs` | type correctness of `OemUpdate`, that an update reported as done is whole, that an answer is taken for its own request, and that a session knows its mode |
| `Attributes` | the write of cluster attributes in one and in two passes, as operators |
| `Commissioning` | the startup attribute set, the commissioning tick and queries, the remote tool, the module and its network; uses `Attributes` |
| `CommissioningMC` | its instance for TLC |

### AtCmd

`slot` is `xbee_cmd_request_table`, `clc` the list context
`_xbee_atcmd_query_regs_head` that all devices share, `flags` the `CMD_INIT` and
`QUERY_*` bits, `ticked` whether `xbee_cmd_tick()` already ran this second. A C call
that calls a callback is split where the callback runs: `call` is the stack of
activations (`tick` with its loop index, `create` waiting for the tick it ran,
`query`, and callbacks of the application and of the list), and only the top of a
non-empty stack moves. What a function does after a nested call returned is done by
the action that pops it, from what the table holds by then, as the code does.
Timers are counted down instead of compared with the clock; a timer of 0 has
expired.

Data that no property tells apart is left out: parameters, status values, the
addresses of remote modules. The registers of the query are plain copies (the
callbacks of `EO` and `AI` change only `wpan_dev.flags`; whether the device is
joined without a network address is chosen freely in `EndQuery`).

Assumptions about what is outside `src/`: the clock advances when no callback runs;
the module answers a frame before its frame id comes round, or never; the application
does not use handles from `SeqMod` requests ago, does not release the request whose
callback runs, keeps a callback on a request it sends again from its callback, and
answers a timeout with `XBEE_ATCMD_DONE` unless it has sent the request again.

* `at_full`: two slots, the default of `XBEE_CMD_REQUEST_TABLESIZE`, one application
  request, one modem status frame that may come before the query, one refused write,
  one repeated answer. `NestingBounded`: `xbee_cmd_tick()` is not
  entered twice and callbacks nest at most two deep, although every callback may
  create requests on a full table.
* `at_room`: three slots. `CallbackKeepsSlot`, `AnswersOwnRequest`, `QueryAlive`,
  and, under fairness, `RefreshHonoured` and `SlotsDrain`.
* `at_stuck` (violated): the same on two slots. The refresh that
  `_xbee_cmd_query_handle_end()` starts finds the table full, ticks, and is given
  the slot that the outer handler then releases: the device stays
  `QUERY_INPROGRESS` and ignores every later refresh.

Two limits of the runs. A refused write in `at_room` would break `CallbackKeepsSlot` (it
has `MaxFail = 0`): `xbee_cmd_list_execute()` leaves the request of a refused send in the
table with the list callback (line 501), and its expiry moves the list while another query
runs. And the runs have one module (`Dev`). With two, the list context that all devices share
lets the answers of one be stored in the `xbee_dev_t` of the other: `info[d]` holds the
modules whose answers `d` has, and gets a second one as soon as both are queried at
the same time.

Fairness: the library goes on once it is called (`Library`), the main loop polls
(`CmdTick`), time passes (`Second`), a response in the air arrives or is lost, and
the application's callback, if it returns again and again, does not ask for reuse
every time (`SF` of `AppReturnsDone`). The first four are the polling main loop the
documentation of `xbee_cmd_tick()` asks for.

### Socket

`sock` is `socket_table`; `call` is the stack of callbacks, each with what its
handler does to the slot when it returns (`then`). `radio`, `sending` and `rx` are the
module: its sockets, the payloads it owes a TX Status, and its frames on the way. A
request is served when it is written, so that everything the module sent before
crosses it. `uid` is a ghost number that tells sockets apart: host slot, module
socket and frames of one socket carry the same number, which is how `OwnerNotified`
can say that a frame reached its own socket. `notify_handler` is set exactly when a
slot is in use and is not a field of its own.

Assumptions: the module answers a frame before its frame id comes round; it does not
give out a socket id while the host has frames with it to read; the application does
not use a socket again that it was told is closed. Two behaviours of the application
are constants: `Patient`, it waits for the Create Response before it uses a socket
(the documentation of `xbee_sock_create()` tells it to), and `FreeInCallback`, it
closes sockets from callbacks.

* `sock_safe`: two slots, two socket ids, three frame ids, four calls, two events
  of the module, callbacks two deep; patient, and closing from the main loop.
  `OwnerNotified`, `HostAgrees`, `LifeCycle`, and `Settles` under fairness. Two slots let one socket take the slot, the socket id or the frame id of
  another; four calls are a create, an attach, a close and one more create.
Without these limits of the application and the module two of the properties fail. With
`FreeInCallback` the notify handler of a failed attach closes its socket, and
`handle_attach_resp()` then writes `CREATED` into the freed slot, which no call can free
again (`LifeCycle`). With 0 among `Ids` a slot that is still pending takes the frames of
socket 0 (`OwnerNotified`).

The deadlock check is off in this run: an application that has made its calls and
a module with nothing to say may stop. Fairness: received frames are handled, the
module answers attach requests, `xbee_sock_close_all()` goes on, callbacks return.

### FrameLink

`rx` is `xbee_dev_t.rx` (`bytes_read` is the length of `frame_data`), `inTick` the
flag `XBEE_DEV_FLAG_IN_TICK`, `wpan` the two flags a modem status moves. `calls` holds
the activations of `xbee_dev_tick()`; one with an `entry` is inside that handler of the
dispatch table, and only then, or when no tick runs, does the application act. `w` is
the activation of `xbee_frame_write()`: what it read of the serial port and how much it
has written. `rxbuf` and `tx` are the buffers of the serial port.

Bytes arrive and leave while the program runs, so that each read of the port is a step
of its own: `LoadStart`, `LoadMsb` and `LoadLsb` read one byte, `LoadPart` what there
is of a frame (and ends the tick), `LoadDamaged` and `LoadDispatches` the end of one.
The same holds for writing: the free room is read in `FrameWrite`, the used room in
`WriteRefused`, and the three parts are written one by one, with `TxDrains` in between.
A C function that falls through from one state to the next is here two steps of the
same activation; they cannot be told apart, as nothing else reads `rx.state`.

A line damages a byte in three ways (`ByteLost`, `ByteChanged`, `ByteAdded`), and
`DevReset` cuts a frame off, as the module that restarts does; the receive state stays.
The ghosts `origin` and `log` say which frames the module sent and which were
dispatched, and at which byte of the line each begins; `damage` is where the last
damage was.

Bytes are numbers below `Base` and the start marker is the greatest one; the length has
two digits to that base. With `Base = 6` and frames of 2 to 8 bytes the length has
more than one value of its high byte (0 and 1), can be 5, the marker, in its low byte,
and can be wrong in both digits.

* `link`: three uses of the link, each alone so that the product stays small. On the
  good line payloads hold markers and look like frames; on the damaged line four frames of
  payloads without a marker meet one fault; the application writes frames that fit,
  fit just, and do not fit. A receive buffer of 3 bytes forces a frame over several
  ticks, `MaxDispatch = 2` ends a tick with frames left. `InOrder`;
  `Contained`: frames that begin more than `MaxLen + 3` bytes behind the damage
  are dispatched, and nothing else is (frames without a marker inside are needed: with one, a
  receiver that lost its place can start inside a payload, and the claim is false);
  `HandlersAgree`; `WholeFrames`; and `ComesToRest` under fairness.

`BusyIsTemporary`, that a frame refused with `-EBUSY` fits an empty buffer, is proved. Its
opposite does not hold, although the documentation of
`xbee_frame_write()` says that a frame refused with `-EMSGSIZE` can never be sent: a drain
between the two looks at the transmit buffer makes `-EMSGSIZE` of what is `-EBUSY`.

Fairness: bytes of a frame arrive, the main loop polls, a handler returns, a call goes
on. A handler that never returns or a main loop that never polls is a defect of the
application, and the documentation of `xbee_dev_tick()` excludes both.

Assumptions: the serial port knows its room (`xbee_ser_tx_free()`). The POSIX port
does not: it returns `INT_MAX`, and `write()` may be short; there `WholeFrames` is not
promised. `ChecksumAssumption`, that the sum of bytes is a byte and that a checksum
completes its frame, is an `ASSUME` that TLC evaluates on the payloads of the run.

### Cbuf

`head`, `tail` and `data` are the fields of `xbee_cbuf_t`; an index is reduced modulo
`Size = mask + 1`. An interrupt handler works on one end and the main program on the
other, without a lock. The handler runs to its end, so its calls are single steps; a
call of the main program is one step for each access of a field the handler moves or
reads (`pc` says where it is). `mix` is how a buffer is used: what the handler calls,
and what the main program calls.

`Fifo` is the promise of `cbuf.h`: bytes are accepted in order as long as there is room,
and leave in order and once. A block may come in parts. The refinement maps the queue to
`Contents`, the bytes between head and tail, and the bytes that have found room and
are not yet visible to `Offered`.

* `cbuf`: a buffer of 3 bytes, the smallest, used as the sound mixes allow: filled by
  the handler and read byte by byte, emptied by the handler, and without handler.
  `Implements` is the refinement. Blocks of 4 bytes wrap, fill the
  buffer and are cut.
* `cbuf_read` (violated): filled by the handler and read in blocks, as `xbee_ser_read()`
  of the ports with a receive interrupt does. `xbee_cbuf_get()` leaves the head at
  `mask + 1` when a read ends with the array, and `xbee_cbuf_putch()` then does not
  see that the buffer is full.

### Conversation

`slot[e]` is the table of conversations of endpoint `e` (1 is the ZDO), `last[e]` its
`last_transaction`, `now` the low word of the seconds counter. `call` is the handler that
runs: `Respond` and `Tick` call one, `ReturnAnswer` and `ReturnTimeout` do what
`wpan_conversation_response()` and `_wpan_endpoint_expire_conversations()` do after it
returned, and in between the handler acts (`Running`): it takes ids, opens conversations
or deletes its own. A tick that found an expired conversation looks on from there
(`LookOn`), in the table as the handler left it. Three kinds of handlers: those of the two
address lookups, which always end their conversation and store its result, the one of a
Match Descriptor request, which goes on until its timeout, and those of applications,
which do either. What a payload says, and which device answers, is left out: any request
may be answered at any time, any number of times.

`Exchange` is the promise: a handler is called only while its conversation is open, a
timeout is its last call, and only the handler itself closes a conversation. Under the
refinement a request of the program is `asked[r]`, and open while a slot holds it.

* `conv`: two endpoints, tables of two, two transaction ids and a seconds counter of four
  values, so that both come round several times in a run with two conversations and
  three ids an endpoint. `OwnAnswer` allows for the wrap: an answer that comes when its
  request is `Ids` requests old may find another one of the same id. `NeverEarly`,
  `LookupAwaited`, `Implements`, and `Settles` under fairness.

`Rebirth = TRUE` is an application whose handlers delete their conversation and then make a
request: the new conversation may take the slot that the caller is going to clear, and
then its handler is never called, not even with the timeout. `Implements` and
`LookupAwaited` are violated then at once; the documentation of `wpan_response_fn` does not
exclude such a handler. The run has `FALSE`.

`Settles` assumes that a main loop ticks at least once in half a turn of the seconds
counter (9 hours); `MaxGap` is that bound in the model. Fairness: time passes and `wpan_tick()` is
called, also when answers keep coming (`SF`: a main loop dispatches and ticks in turns),
and handlers return.

### Xmodem and Update

`xm` is `xbee_xmodem_state_t` and `TxTick(ret)` one call of `xbee_xmodem_tx_tick()` that
returns `ret`; its disjuncts are the `case`s of the `switch`. `line` and `back` are the two
directions of the serial port, each of `Room` items: a packet is one item (its checksum is
right, or the line lost it). A write may be taken whole, in part or not at all (`Sending`). A part of
a packet is an item that the receiver drops, with what follows it or alone. An
answer carries in `of` what it is about. The sender does not see that: the
ghost `late` records when an answer to one packet is taken for another.

After a write that was not taken whole the code does not go on with the same packet:
`XBEE_XMODEM_STATE_SENDING`, for "sending bytes of packet" (`src/include/xbee/xmodem.h:103`), is in no
assignment, and the state stays `SEND` or `RESEND`. In `SEND` the next tick calls `_assemble_packet()`
again (`src/src/xbee/xbee_xmodem.c:347`), which reads the next block of the file under the same packet
number: the block before is skipped and never sent. In `RESEND` the packet begins again
behind its own first bytes. The transfer can then end with success and blocks missing,
with no fault and no late answer: TLC shows a success with nothing in the flash when no
block was taken whole. The model does what the code does, and two histories say
what is lost: `sent`, the blocks that were written whole, and `cut`, those whose first write was not.

`Update` adds the drivers: `source` is `xbee_fw_source_t`, `age` the time since its timer was
set, and each `case` of `xbee_fw_install_ebl_tick()` is an action. `kind` says which
driver runs; `xbee_fw_install_hcs08_tick()` wraps the EBL tick and ends the update where
that one would wait for the last prompt. `boot` is the module. It prompts, takes the packet
it expects, answers one it has already taken, ends the transfer on any other, and asks again
when nothing comes. A fault takes the head of the line or of the answers, makes the module
miss a break, restarts its bootloader, or switches it off.

* `update`: a file of two blocks, packet numbers modulo 4, two tries of everything, one
  fault, a clock of three values. Two blocks are what it takes for an answer to count for
  the next packet, and for one block to be skipped and the other not; a second try begins in
  the middle of the file. `InOrder`, without exception: what the module has is the beginning of
  `sent`, and `sent` and `cut` are together what was read of the file, each block in one of them and
  `sent` in order. `WholeImage`: at success the module has the file without exactly the blocks in
  `cut`, but for a late ACK and a second try, which does not rewind the source. Under
  fairness `Ends` and `Boots`. `Boots` follows the module from the end of the transfer to its
  image: whatever was lost before, it comes to run when from then on nothing is, the prompt
  comes in time and the module is not off. `Ends` excepts, in `NoTimer`, the
  waits that nothing limits, as `XMODEM_SEND` returns before the load timeout: for the first `C`; for a
  port that takes the packet of `RESEND` whole; and for an ACK when the timer was set less than `wait` before the
  16-bit clock comes round, since the sender compares `(uint16_t) now - timer < wait` in an
  `int`, which is then true for ever. The first and the last need a module that does not
  receive, and `NoTimer` holds in no other case.

Fairness: the program ticks, time passes (`SF`: ticks do not stop the clock), the line
delivers, and a bootloader that waits asks again. `Ends` would not need the last two.

### Gen3

`source` is `xbee_gen3_update_t` (`retries`, `eof`, `query` and `proto1` are parts of its
`flags`, `age` the time since its timer was set) and each `case` of
`xbee_bl_gen3_install_tick()` is an action; `_load_page()` is `LoadPage` and `_send_page()`
the four `Send` actions. `line` holds bytes and `back` characters of the bootloader, because
a page is sent as the transmit buffer has room for it. A page of the image is its number, or
is blank and left out; its bytes carry that number and their place, so that the bootloader's
checksum is right exactly for the bytes of one page in order. `boot` is the module with its
`flash`: it takes a page at the number that came with it, whatever that is.

* `gen3`: both protocols, five images (none, a blank one, and images whose pages are written
  and left out in turn), pages of two bytes, page numbers with a low byte of two values, a
  transmit buffer for four bytes (a header of three fits, a page does not), one retry and one
  fault: a byte or a character lost, changed or made up, or a module that restarts or misses
  the break. `prompt` states have no fault and a module that is never slow.
  `WholeImage`: success means that the flash holds the image, although no checksum
  covers the number of a page. `InPlace`: what is sent under a number is the page of that number.
  `Headed`: a header finds room, when a page is begun and when it is sent again. Under fairness `Ends`, without exception, and `Installs`,
  that an image is installed when nothing goes wrong.

What the properties except is what the code does not do. A blank image sends the buffer as it
is under the first number (line 386 takes the result 0 of `_load_page()` for a page). A header
that finds room for one or two bytes goes on to the branch for data, which sends from before
the buffer (line 193); only an answer the line has made up brings the driver there. In the old
protocol a page number is one byte and comes round after 256 pages (`Suitable`). The header
file says that three CRC failures end the update; the counter is compared so that the first page
is sent four times and later ones three times.

Fairness: the program ticks, time passes (`SF`), the bootloader reads, and a break resets the
module. `Ends` needs the first two only.

### AtMode and OemUpdate

`AtMode` is `xbee_atmode.c` as operators on `dev`, an `xbee_dev_t` with its serial port:
`Entered`, `Exited`, `Ticked`, `Requested` and `Read` are its five functions, with what they do
not look at (whether a write found room, which mode a request is sent in, which request an
answer is for). A text is one character, followed by its carriage return.

`OemUpdate` uses them twice, as `setup.use` says. In `install`, each `case` of
`xbee_fw_install_oem_tick()` is an action, and `source` is `xbee_fw_source_t`; what falls through
in C (`BREAK`, `BOOTLOADER` and `TX_START`; a timeout and `RX_FAIL`) is one step. In `session`, an
application enters command mode, sends commands, reads and leaves, in any order. `radio` is the
module with its guard time, its own idle timeout and its bootloader. Characters and pieces say
in `of` which request or block they belong to; the program does not see it, and `history` is
told when one is taken for another.

* `oem`: two blocks of three pieces, a response of two characters, a receive buffer for three,
  a transmit buffer for two, one fault (a command, piece or character lost, changed or made up, a
  restart, a file that cannot be read any more). Two blocks are what it takes for a late response
  to count for the next one, and three pieces for a block that is sent again to find an answer
  to its first try: two of them can each be answered with a refusal, and only one answer is read. The setups are the usual one and one difference each: a port
  whose open neither ends the break nor empties the buffers, a bad file, a file for other
  hardware, a module that enters its bootloader by `AT%P`, a device left in `WAIT_IDLE`; then
  prompt modules at both speeds, and sessions. All waits are 0 or 1, so that each of them can
  end before and after the answer, but the time of command mode is 2: as in the code it is longer
  than the wait for an answer, so that an answer can be given up before it is over. `WholeImage` (an update that is reported as done has
  brought every block), `OwnAnswer` (an answer is taken for another one only after
  one was given up or a block sent again, or when the line has changed it), `ModesAgree` (a prompt module and its host agree
  whether they are in command mode, but for the moment when the idle time is over, and after an
  answer was given up), and under fairness `Installs`.

What they except are weaknesses of the driver, each reached by TLC when the exception is taken
away or the setup changed. `xbee_atmode_send_request()` does not look at the time, so that a command may be
written when the module has just left command mode by itself; nobody answers it, and when the
answer is given up after two seconds `xbee_atmode_tick()` goes back to `COMMAND`, for up to ten. The receive buffer is not emptied before a block is sent again, so a late
response counts for the next block. The length of a block is read without a check, and a
failing read is the end of the image: the update reports success. On the way where
`AT%P` is answered with OK the timer is never set before `TX_START` compares with it. Nothing ends
the serial break but `xbee_ser_open()` of the efm32 port: the posix and win32 ports leave it on. A
device that is still in `WAIT_IDLE` makes the first attempt fail. A file for another module leaves
the radio in command mode. `SENDING` has no timer, and waits for ever for a module that holds CTS.

Fairness: the program ticks, time passes (`SF`), and the module reads, answers and restarts. Type
correctness is a theorem, as that of `Commissioning` is.

### Attributes and Commissioning

`comm` is `zcl_comm_state_t`, with its flags as fields of their own and `wait` for what is
left of the restart delay; `query` is the register the handle of
`xbee_comm_reg_callback()` asks for; `wpan` is what modem status frames and the device query
have made of `wpan_dev_t`. The tick is one step, as in the code: `RestartPart` is its first
half, `StatePart` its `switch`, each the set of what can come of it, since a command may be
refused (`Refused`). `Attributes` holds `_zcl_write_attributes()`: `Write` makes one pass, or
for an undivided write a checking pass and an assigning one; `flags` is the
`ZCL_ATTR_WRITE_FLAG_` of a pass.

A tool can write any byte to `startup_control`, and the model has `RESERVED` for 4 to 255. The table gives
it a minimum and a maximum, and `src/include/zigbee/zcl_commissioning.h:128` says "limited range of values";
but the entry has only `ZCL_ATTRIB_FLAG_FULL` (`src/src/zigbee/zcl_commissioning.c:139`),
`zcl_check_minmax()` looks at the limits only with `HAS_MIN` or `HAS_MAX`, and
`_zcl_comm_startup_control_set()` has no `default`. Such a value is stored, installed in the module,
and resets the network like `REJOIN` (the tick compares with `>=`).

The module is `radio`: a configuration, what is saved of it, and the network it is on. It
takes a command when it is sent and answers in order, so that answers, "joined" and "left"
frames wait in `up` while ticks go on. Of the startup set, the model keeps the four fields
that decide something: `startup_control`, `extended_panid`, the key that an install
wipes, and a boolean, the one value the decoder checks; the other registers are read and copied like these.

* `comm`: two networks, the registers `DL` and `OP`, two commands of the tool with five write
  requests, one time the module leaves by itself, one refused or unanswered command.
  Requests hold every way a record can be wrong, and the attribute without a place.
  `TracksNetwork`, `Awaited`, `Undivided`, `SavesWhatJoined`, and under fairness `Restarts`
  and `Saves`. What each of them excepts is a weakness of the code: the module that leaves
  and comes back between two ticks is not noticed in `JOINED`; a register that is not
  answered leaves `LOADING` or `REFRESH` for ever; a status frame from before the restart
  counts as having joined; the out-of-band attribute is found in the second pass of an
  undivided write, which the comment at `src/src/zigbee/zigbee_zcl.c:874` assumes cannot
  fail. `Undivided` says how far that goes: a write that changes the set had no record
  refused by the check, and the set holds the last record of each attribute, so that only
  records of the attribute without a place are left out of a write that is otherwise whole.

The deadlock check is off in `conv`, `update`, `gen3`, `oem` and `comm`: their bounds, an update that has
ended and a tool that has nothing more to say may stop. Fairness: ticks, frames that wait,
expiries and time; the module joins when it likes.

## What is proved

With tlapm, for every value of the constants that satisfies the named assumption of
the module (`AtAssumption`, `SockAssumption`, `LinkAssumption` with `ChecksumAssumption`,
`CbufAssumption`, `ConvAssumption`, `XmodemAssumption` with `UpdateAssumption`, `Gen3Assumption`,
`AtModeAssumption` with `OemAssumption` and `SetupsAssumption`, `CommAssumption`):

* `AtCmd`: `TypeCorrect`, `NestingBoundedHolds` and `ExpiryKeepsSlotHolds`, for tables of any
  size, any number of modules and any list. `NestingBounded` counts activations, and what
  bounds them is their order, so the invariant (`IInv`) is about the stack. `OneTick`: there is one activation of
  `xbee_cmd_tick()`, because it has seen this second before it calls anybody. `Placed`: a callback
  is called by a frame handler at the bottom of the stack, or by the tick right below it. `Kept`:
  while an expiry runs, its slot still holds the request that expired, although the callback may
  create and send requests; `AppHolds`, that the application has no handle of a request of the
  list, is what a release by the application needs. `Asked` and `ListBased`: who
  advances the list finds its context. The same is not true of the callback of a response on a
  full table, which is what `at_stuck` shows.
  `AnswersOwnRequestHolds`: `Spec /\ []Distinct => []AnswersOwnRequest`. A response is told apart by
  the module, the frame id, the kind of frame and the command; `Distinct` says that no two
  requests in the table have all of these, which can fail only when a request has
  waited while every other id of the byte was used (with one frame id TLC has a
  counterexample; in `at_room` it holds throughout). The invariant (`AnswerInv`): a response that
  is on its way matches no request but its own (`Latest`), because a command that
  is sent takes an id that ends the wait for an older answer, and what is on the stack
  was given its own answer. It needs no room in the table.
* `AtCmd` in a table with room: `CallbackKeepsSlotHolds`, `QueryAliveHolds` and `NeverFullHolds`
  say what it takes to avoid `at_stuck`, for any list, timeouts and number of requests. The
  hypothesis `Roomy` is that of `at_room`: one module, no modem status before it is set up, no
  refused write (each of these breaks the properties, see above), and two slots more than the
  application holds requests: one for the query in progress, one for a query that has ended and
  whose callback, which still owns its slot, asks for the next. The default table of two slots
  has that room only for an application without requests. The invariant (`RoomInv`) needs the three
  theorems of each other: no create ticks as long as there is a free slot (`FindsSlot`, the pigeonhole
  principle), so the stack has the simple form of `Layout`; every request but the
  list's has its handle with the application (`Placing`), which bounds the slots in use by the
  handles held (`Holding`); and `QUERY_INPROGRESS` is set exactly as long as there is one open
  request of the list, which waits for the register the list context is at (`Querying`), so
  that the answer `_xbee_cmd_list_callback()` does not expect, after which the query would
  stay in progress, does not come.
* `Socket`: `TypeCorrect`, `Spec => []TypeOK`, one lemma for each action.
  `LifeCycleHolds`: `Patient /\ ~FreeInCallback` implies `Spec => LifeCycle`. A step
  of `CallbackReturns` writes a state that was chosen when the callback was called,
  so `LifeCycle` is not inductive: the invariant `CallsInTurn` says that
  nothing but `xbee_sock_close_all()` is below another activation on the stack, and
  that a slot whose handler is going to write a state is still in `ATTACH`. Both
  assumptions are needed: without the second one a handler writes into a slot that its callback
  freed, and without the first `PENDING -> ATTACH` is a move.
  `OwnerNotifiedHolds`: `Patient /\ ~FreeInCallback` implies `Spec => []OwnerNotified`. A
  callback gets the birth of a socket and not its id, so the invariant (`Identity`) says whose
  each number is. `Tables`: no two slots hold one id of the module or wait for one
  frame. `Answers`: an answer that is on its way to a frame is about the socket the slot
  with that frame was born for. `NamesOK` and `Births`: a name that the module uses
  is held by one slot, of the same birth, unless that slot was given up. `AcceptRuns`: the
  slot that a listener takes for a client is not known to anybody before its callback has
  returned. It needs the two assumptions of `LifeCycle`, and that id 0 is not given by the module
  (a slot that waits for its id has 0 in its place); TLC has a counterexample for each one that is dropped.
  `HostAgreesHolds`: under the same assumptions `Spec => []HostAgrees`. The type of a slot and the
  state of its socket change at different times: the module goes on when it is asked, and the
  slot when the callback of the answer has returned. `HostAgrees` looks only between callbacks, so
  the invariant (`States`) follows a socket through that time: the module is in the state
  of the type a slot has, or will have after the one answer that is on its way, or whose
  callback runs (`StateIs`); a slot that waits for its id is open on the module, by the
  id in its Create Response (`OpenAt`); a client that is announced is connected (`ClientState`).
  A socket that the module has ended is in none of them: `Identity` already has its
  last word on the way. `Settles`, that the answer is also read, is left to TLC.
* `Cbuf`: `TypeCorrect` and `ImplementsFifo`, `Spec => Queue!Spec`, both under
  `LegalMixes`, which describes the sound uses by what is called and not by a list; the
  run `cbuf_read` is a use that is not legal. The invariant says what the
  main program knows at each `pc`, although the handler has moved the other end since it
  looked: room once found stays (`PutStage`), bytes once counted stay (`GetStage`), and
  only a buffer that no handler touches is left with its head at `mask + 1` (`InMix`).
  The proof is about remainders; `Arith` and `Remainders` turn them into cases once.
* `FrameLink`: `TypeCorrect`, `HandlersAgreeHolds`, `WholeFramesHold` and
  `BusyIsTemporaryHolds`, from one invariant. `OneTick`: there is at most one
  activation of the tick, and while its handlers run no frame is received, so that
  nobody writes to the buffer they read. `FrameFits`: a length that was accepted is
  that of the buffer, and the high digit of one that is being read leaves room for the
  low one. `RoomKept`: only the call itself adds to the transmit buffer, so the room it
  found is there for the rest of its frame. These are proved for frames of any length
  and handler tables of any size, with and without damage.
  `InOrderHolds`: `Spec => []InOrder`, that without damage the frames dispatched are the
  first of those that were sent, each of them whole. The receiver keeps no more than a state, a
  count and a buffer, so the invariant (`Followed`) puts it at a place of the history. `Sent`: the
  frames lie one behind the other, and what is not yet read is as it was framed.
  `Logged`: frame `i` of the log is frame `i` sent. `Placed`: the receiver waits at the
  first byte of the frame after those, or is inside of it with the part it has read in its buffer
  and the rest counted. What could spoil it is a start marker that is none: within a frame without
  damage the receiver looks for one only at a length digit, and the high digit of a
  legal length is never `0x7E`.
  `ContainedHolds`: `Spec => []Contained` under `Unmistakable`, that on a line that may do
  damage only the first byte of a frame, or the checksum that ends it, is a start marker (one
  payload of the run has such a checksum); any number of faults, each wherever it happens.
  The invariant (`Recovers`) is about what lies behind the latest damage: a start marker that has not
  been read begins a frame that is still whole, or is a checksum with the next frame behind
  it (`Marked`); a frame that began there is whole (`Standing`). The receiver follows something that
  began before the damage, or a whole frame, whose length and data it then has right, or a
  checksum, which the marker behind it corrects (`Following`). A frame that began before the damage
  ends within `Reach` of it, so that behind `Reach` the log and the history are the same up to
  the place of the receiver (`Found`). The claim is false without `Unmistakable`:
  a receiver that lost its place can start inside a payload, and from there in the next one.

* `Conversation`: `TypeCorrect`, `OwnAnswerHolds` and `NeverEarlyHolds` for every application,
  `LookupAwaitedHolds` and `EndpointImplementsExchange` under `~Rebirth`. The invariant
  (`IInv`) relates the table to the history. `Numbered`: the requests of an endpoint are
  numbered as ids were issued, and an id is such a number modulo `Ids`, so that two requests
  with one id are a multiple of `Ids` apart; `OwnAnswer` is that remainder argument.
  `Slotted`: a used slot names a request of its endpoint, with its id and handler, and no
  two slots name the same one. `Clocked`: as long as a conversation has time left, its
  deadline is that many seconds ahead of the clock, or one more (where second 0 was
  replaced by 1), which is less than half a turn of the counter. `Called`: the handler that
  runs is that of the request in its slot, unless it deleted it. `Freed`, which needs
  `~Rebirth`, says that the slot is then still empty, so that the delete after
  the call clears nothing else; the refinement and `LookupAwaited` rest on it.

* `Update`: `TypeCorrect` for every instance; `TakenInOrder` and `SuccessIsWhole` when
  `Packets > Room + 1`, that is, when more packet numbers exist than packets fit on the
  line (256 numbers, and a serial buffer holds a few packets). Blocks are skipped, so the
  invariant (`IInv`) counts packets and not blocks: `nth` is the place of a packet in the transfer, which
  is its place in `sent`, and `Has` how many the module has taken. The number of a packet says
  which one it is only because sender and module are never far apart. `Sender`: the sender has written
  at most `Room + 1` packets more than the module has, and at most `Room` while it may go on, that is, in
  `SEND` or with an ACK to be read; a packet that was cut off is not counted, as its
  number is used again. `Followed`: behind each packet on the line come those of all later
  ones, which bounds the distance when the module answers a packet for the second time. `Line` and
  `Near`: every packet on the line is the one `sent` has in its place, and within `Room + 1`
  packets of what the module has, so that its remainder is not that of another one (`ModNear`). `Early` says
  why nothing of an earlier try is left when a transfer begins: the reset empties the line,
  and the break flushes the answers. `Recorded` is what `InOrder` says of `sent` and `cut` alone, and
  `Beginning` that the module has a beginning of `sent`. `Acked` and `Whole` carry the rest: what is acknowledged was
  taken, and without a mistaken ACK the sender goes on, and ends, only when the module has
  all of `sent`.

* `Gen3`: `TypeCorrect` and `PagesInPlace`, for images of any length with any pages left out, any
  page size and any faults. The page in the buffer and the number it is sent under are counted by
  different functions, so the invariant couples them (`Coupled`): before the first page nothing
  has been read and the number is 0; afterwards the buffer is the last page that was read, and it is the
  page of its number; and a blank image has been read to its end.
  `HeadersFit` (`Spec => []Headed`) and `WholeImageUnlessForged` (`WholeImage`, or the
  line has answered with a byte of its own) speak of what is on the line and in the module.
  Their invariant (`Orderly`) says that one exchange is under way at a time: either
  a header and its page are on their way, or one answer is, or the driver is about to send;
  and that the bytes of a page are those the module still counts. A forged answer ends that order,
  and what then holds of `WholeImage` is left to TLC.

* `OemUpdate`: `TypeCorrect`, `WholeImageHolds`, `OwnAnswerHolds` and `ModesAgreeHolds`, for images, buffers and waits
  of any size, any setups and any number of faults. `WholeImage` follows from two facts of
  `IInv`. `Letters`: a character that belongs to a block and could be part of its response is on
  its way only when the bootloader has written that block. `Brought`: the blocks before the one
  the driver sends are written, unless an answer was crossed or the file misread.
  `OwnAnswer` cannot say why it holds, since the program sees no owner on a character; its
  invariant (`Ordered`) is that, while nothing was given up, sent again or made up, one question is
  under way at a time. In command mode it follows the mode of the device (`Dialogue`): in
  `POST_ESCAPE` what is on its way is the greeting (`Greeting`), in `WAIT_RESPONSE` the command or
  its answer (`Asked`), in the others nothing (`Quiet`). In the bootloader, `Starts` is the time
  up to its first answer. Then either the pieces of the block being sent are on their way in their order
  (`Underway`), where an answer before the last piece can only be a refusal, and the bootloader
  then never completes the block; or the response of that block is (`Replied`).
  The proof corrected the model: a block of three pieces or more that is refused and sent again
  may find the next refusal of its first try, as `RX_FAIL` flushes nothing. `history.missed`
  therefore includes a block sent again, and the run has three pieces.
  `ModesAgree` is proved for a module whose guard time is within the driver's
  (`GuardAfter <= Guard`; the driver adds 200 ms) and a receive buffer that holds the greeting.
  The two ends count their times apart, so its invariant (`Together`) relates the clocks:
  for each mode it says what is on its way, where the module is, and that the time since the
  module's last byte is the time since the driver set its timer, as nothing is on its way while
  time passes. This proof corrected the property, which had been checked with a command time no longer
  than the wait for an answer: the time runs out, a command is sent, and its answer is given up.

* `Commissioning`: `CommissioningTypeCorrect`, `AwaitedHolds`, `TracksNetworkHolds`,
  `SavesWhatJoinedHolds` and `UndividedHolds`, for any registers, networks and keys, requests of up to the
  25 records whose failures the response has room for, any delays and any number of commands of the tool, departures and refusals. The
  assumption `CommAssumption` is that the registers include `OP`, that neither zeros nor `"none"` is a
  network, that a request has at most as many records as the response has room for, and that what a tool writes is of
  the type of its attribute. The module's `Init`, `Next`,
  `Spec` and `Tick` are called `CommInit`, `CommNext`, `CommSpec` and `CommTick`, because `ZigbeeProofs` extends
  `Conversation` as well. A tick makes several changes in one step, each the
  set of what can come of it, so the lemmas are about a copy `x` of the variables, one for
  each part of the tick (`InitialiseKeeps`, `InstallKeeps`, `UnjoinedKeeps`, `SaveKeeps` and so on),
  and one for each other action. The invariant (`Configured`) says of a copy: `InStep`, a query is under
  way only in a state that waits for one, and has one answer, of a value its register can have;
  `Waits`, which is `Awaited`; `Told`, that a module on no network has said so, or that
  "left" is on its way behind every "joined"; `ReadRight`, that, while the module stays on the
  network it was asked about, that network is what `OP` is answered with, and is in the set once
  `OP` was read. `TracksNetwork` is about the end of a read of several commands, and
  `ReadRight` carries it from the first of them; `Told` is why the read begins on a network, and
  why a departure is still to be seen. `NotEarly`, that the device takes a module for joined only
  when a network has proved its configuration, gives `SavesWhatJoined`. It does not hold at each
  point of a tick: an install stages a configuration that nothing has proved while the device
  believes it is joined, and the restart that follows in the same tick corrects that.
  `Undivided` relates two passes over the records of a request: one that checks and does not fail
  refused no record (`CheckedAll`), a record that passed the check is written unless it has no place
  (`CheckedIsWritten`), and so the set holds the last record of each attribute (`AllWritten`). These are
  inductions over the records, which need no induction theorem: a least number of records for
  which it does not hold (`LeastIn`) is excluded by the one before it (`OneMore`).

That a loop which stops at the first match stops at a member of a non-empty set
(`LeastSlot`; `LeastIn` for numbers), and that a stack without its top keeps the rest (`StackPop`), is stated as a
lemma in each module that rests on it.

Only model-checked: liveness (`Settles` of both, `RefreshHonoured`, `SlotsDrain`,
`ComesToRest`, `Ends` and `Installs` of both, `Boots`, `Restarts`, `Saves`), which needs fairness
and `ENABLED`; `AnswersOwnRequest` of `AtCmd` after frame ids have come round to a request that waits;
`WholeImage` of `Gen3` after a forged answer. `Contained` of `FrameLink` is not claimed where payloads hold start markers.

## Plan

Done: the modules above, and their proofs. What is left, in this order:

1. The OTA client and server (`pxbee_ota_client.c`), which send blocks through user data
   frames.
2. The simple XBee API (`xbee_sxa.c`): the cache of nodes over the interface of `AtCmd`.

`Conversation`, `AtCmd`, `Commissioning`, `Update`, `Gen3` and `OemUpdate` meet only through the
interface of a lower layer. `Commissioning` uses that of the AT commands (a request is answered,
refused or expires), not the module `AtCmd`: what that layer does to its table is the subject of
the runs `at_*`. The drivers use that of the serial port: a write that finds room, and what was
received in order.

## Not modelled

* Builders and parsers of single frames (I/O, routes, GPM, BLE, file system, SMS, IPv4,
  Wi-Fi, GNSS, user data) and node discovery: no state between calls.
* ZCL attribute encoding, reading, reporting and discovery, and the clusters that only
  answer: functions of one frame.
* OTA updates and the EBL file parser: see the plan.
* The simple XBee API, which `src/include/xbee/sxa.h:16` calls deprecated and unmaintained. A model
  has to say what follows from its one list context for each node (`io.clc`): `sxa_tick()`
  starts the first cache group without a look at `clc.status`, so that it can run over the
  list of `sxa_init_or_exit()` or of `sxa_io_query()`, and `_sxa_launch_update()` drops the result of
  `xbee_cmd_list_execute()`, which on a full table has set `RUNNING` already.
* A write request whose failing records are more than the 25 of `response.status[]`
  (`src/src/zigbee/zigbee_zcl.c:847`): the code does not limit them (its `@todo` at line 838), and what they
  overwrite is not in the model. Requests are as long as the array (`StatusRecords`).
* A coordinator as the module that is commissioned. It "does not notify us when it's leaving the
  network" (`src/src/xbee/xbee_commissioning.c:501`, the reason for the flag the tick clears there); the
  model's module says "left" whenever it leaves, and the runs have a router.
* Secure sessions: one request and its response; the arithmetic of SRP is out of reach.
* `src/src/mbedtls` is third-party code, `src/ports`, `src/samples`, `src/test` and `src/tools`
  are platform code, programs and tests. They are the greater part of the lines of the
  repository; the core that is modelled is the state machines of `src/src`.

`PROJECT.json` lists the components with the reason for each.
