------------------------------- MODULE FrameLink -------------------------------
(***************************************************************************)
(* The frame link to a radio module (src/xbee/xbee_device.c): the receive  *)
(* state machine that xbee_dev_tick() drives, the dispatch of frames to    *)
(* the handlers of the application, and xbee_frame_write().                *)
(*                                                                         *)
(* Bytes come in and go out while the program runs, so that each access to *)
(* the serial port is a step.  A line may lose, change or add a byte, and  *)
(* a reset of the module cuts a frame off.                                 *)
(***************************************************************************)
EXTENDS Integers, Sequences

CONSTANTS
    Base,           \* 256: the number of byte values; the start marker is the last one
    MaxLen,         \* XBEE_MAX_RX_FRAME_LEN
    MaxDispatch,    \* XBEE_DEV_MAX_DISPATCH_PER_TICK
    Handlers,       \* xbee_frame_handlers: frame type and id, 0 for any
    RxSize, TxSize, \* buffers of the serial port
    Uses            \* how the link is used

Byte == 0 .. Base - 1
Start == Base - 1

\* What the module sends, at most how many frames, how often the line or a reset
\* damages one, and how many frames of what length the application writes.
UseType == [payloads : SUBSET Seq(Byte), frames : Nat, faults : Nat,
            writes : Nat, sizes : SUBSET (5 .. MaxLen + 4)]

ASSUME LinkAssumption ==
    /\ Base \in Nat /\ Base >= 4
    /\ MaxLen \in 2 .. Base * (Base - 1) - 1
    /\ MaxDispatch \in Nat \ {0}
    /\ Handlers \in Seq([type : Byte, id : Byte])
    /\ RxSize \in Nat \ {0} /\ TxSize \in Nat
    /\ Uses \subseteq UseType
    /\ \A u \in Uses : \A p \in u.payloads : Len(p) \in 2 .. MaxLen

VARIABLES
    use, faults, writes,    \* how the link is used, and what is left of it
    sending,    \* bytes of a frame the module has still to send
    rxbuf,      \* bytes received by the serial port
    rx,         \* xbee_dev_t.rx
    inTick,     \* XBEE_DEV_FLAG_IN_TICK
    flow,       \* XBEE_DEV_FLAG_USE_FLOWCONTROL
    wpan,       \* WPAN_FLAG_JOINED and WPAN_FLAG_AUTHENTICATED
    calls,      \* activations of xbee_dev_tick(), the running one last
    w,          \* the activation of xbee_frame_write()
    wrote,      \* how the last one ended
    tx,         \* number of bytes in the transmit buffer
    count,      \* ghost: bytes received so far
    begun,      \* ghost: place of the start marker the receiver follows
    origin,     \* ghost: frames of the module, at the place of their marker
    log,        \* ghost: frames that were dispatched
    damage      \* ghost: place of the last damage; 0 for none

lineVars == <<use, faults, sending, origin, damage>>
rxVars == <<rx, inTick, wpan, calls, begun, log>>
txVars == <<writes, flow, w, wrote, tx>>
vars == <<lineVars, rxbuf, count, rxVars, txVars>>

NoCall == [stage |-> "none", size |-> 0, cts |-> FALSE, free |-> 0, put |-> 0]

Init ==
    /\ use \in Uses /\ faults = use.faults /\ writes = use.writes
    /\ sending = <<>> /\ rxbuf = <<>>
    /\ rx = [state |-> "WAITSTART", bytes_in_frame |-> 0, frame_data |-> <<>>]
    /\ inTick = FALSE /\ flow = TRUE /\ wpan = {}
    /\ calls = <<>> /\ w = NoCall /\ tx = 0
    /\ wrote = [ret |-> "none", size |-> 0, put |-> 0]
    /\ count = 0 /\ begun = 0 /\ origin = <<>> /\ log = <<>> /\ damage = 0

Top == calls[Len(calls)]

\* The application's code runs, in its main loop or in a frame handler.
AppRuns == w.stage = "none" /\ (calls # <<>> => Top.entry # 0)
-----------------------------------------------------------------------------
(* The module and the line *)

\* _xbee_checksum(): what makes all bytes add up to 0xFF.
Checksum(s) ==
    LET left[i \in 0 .. Len(s)] == IF i = 0 THEN Start ELSE (left[i - 1] - s[i]) % Base
    IN  left[Len(s)]

\* The sum of bytes is a byte, and a frame's own checksum completes it.
ASSUME ChecksumAssumption ==
    \A u \in Uses : \A p \in u.payloads :
        Checksum(p) \in Byte /\ Checksum(Append(p, Checksum(p))) = 0

Framed(p) == <<Start, Len(p) \div Base, Len(p) % Base>> \o p \o <<Checksum(p)>>

ModuleSends(p) ==
    /\ sending = <<>> /\ Len(origin) < use.frames
    /\ sending' = Framed(p)
    /\ origin' = Append(origin, [at |-> count + 1, frame |-> p])
    /\ UNCHANGED <<use, faults, damage, rxbuf, count, rxVars, txVars>>

Arrives(b) ==
    /\ Len(rxbuf) < RxSize
    /\ rxbuf' = Append(rxbuf, b) /\ count' = count + 1

ByteArrives ==
    /\ sending # <<>>
    /\ Arrives(Head(sending))
    /\ sending' = Tail(sending)
    /\ UNCHANGED <<use, faults, origin, damage, rxVars, txVars>>

Fault ==
    /\ faults > 0 /\ faults' = faults - 1
    /\ damage' = count + 1
    /\ UNCHANGED <<use, origin, txVars>>

ByteLost ==
    /\ sending # <<>> /\ sending' = Tail(sending)
    /\ Fault /\ UNCHANGED <<rxbuf, count, rxVars>>

ByteChanged(b) ==
    /\ sending # <<>> /\ b # Head(sending) /\ sending' = Tail(sending)
    /\ Arrives(b)
    /\ Fault /\ UNCHANGED rxVars

ByteAdded(b) ==
    /\ Arrives(b)
    /\ Fault /\ UNCHANGED <<sending, rxVars>>

\* xbee_dev_reset(): the module starts again.  The receiver does not.
DevReset ==
    /\ AppRuns
    /\ sending # <<>> /\ sending' = <<>>
    /\ Fault /\ UNCHANGED <<rxbuf, count, rxVars>>
-----------------------------------------------------------------------------
(* xbee_dev_tick() and _xbee_frame_load() *)

\* Mutant: the flag is not tested.
DevTickReenters ==
    /\ AppRuns
    /\ inTick' = TRUE
    /\ calls' = Append(calls, [dispatched |-> 0, entry |-> 0, frame |-> <<>>])
    /\ UNCHANGED <<lineVars, rxbuf, count, rx, wpan, begun, log, txVars>>

\* In its main loop or in a handler the application polls; while a tick runs that
\* is refused.
DevTick ==
    /\ AppRuns /\ ~inTick
    /\ inTick' = TRUE
    /\ calls' = Append(calls, [dispatched |-> 0, entry |-> 0, frame |-> <<>>])
    /\ UNCHANGED <<lineVars, rxbuf, count, rx, wpan, begun, log, txVars>>

\* Mutant: the flag is not cleared.
TickEndsBusy == calls' = SubSeq(calls, 1, Len(calls) - 1) /\ UNCHANGED inTick

TickEnds == calls' = SubSeq(calls, 1, Len(calls) - 1) /\ inTick' = FALSE

Loading(state) == calls # <<>> /\ Top.entry = 0 /\ rx.state = state

\* The place of the byte that is read next.
Place == count - Len(rxbuf) + 1

Reads(n) ==
    /\ Len(rxbuf) >= n
    /\ rxbuf' = SubSeq(rxbuf, n + 1, Len(rxbuf))
    /\ UNCHANGED <<lineVars, count, txVars>>

\* No byte to read: the tick ends and the next one goes on from here.
LoadNothing ==
    /\ \E s \in {"WAITSTART", "LENGTH_MSB", "LENGTH_LSB"} : Loading(s)
    /\ rxbuf = <<>>
    /\ TickEnds
    /\ UNCHANGED <<lineVars, rxbuf, count, rx, wpan, begun, log, txVars>>

LoadStart ==
    /\ Loading("WAITSTART") /\ Reads(1)
    /\ IF Head(rxbuf) = Start
       THEN rx' = [rx EXCEPT !.state = "LENGTH_MSB"] /\ begun' = Place
       ELSE UNCHANGED <<rx, begun>>
    /\ UNCHANGED <<inTick, wpan, calls, log>>

\* Mutant: a start marker is not looked for in the length.
LoadMsbAny ==
    /\ Loading("LENGTH_MSB") /\ Reads(1)
    /\ rx' = [rx EXCEPT !.state = "LENGTH_LSB", !.bytes_in_frame = Head(rxbuf) * Base]
    /\ UNCHANGED <<begun, inTick, wpan, calls, log>>

\* The high byte of a length is never a start marker: it is another marker.
LoadMsb ==
    /\ Loading("LENGTH_MSB") /\ Reads(1)
    /\ IF Head(rxbuf) = Start
       THEN begun' = Place /\ UNCHANGED rx
       ELSE /\ rx' = [rx EXCEPT !.state = "LENGTH_LSB", !.bytes_in_frame = Head(rxbuf) * Base]
            /\ UNCHANGED begun
    /\ UNCHANGED <<inTick, wpan, calls, log>>

LoadLsb ==
    /\ Loading("LENGTH_LSB") /\ Reads(1)
    /\ LET length == rx.bytes_in_frame + Head(rxbuf)
           next == IF length \in 2 .. MaxLen THEN "RXFRAME"
                   ELSE IF Head(rxbuf) = Start THEN "LENGTH_MSB" ELSE "WAITSTART"
       IN  /\ rx' = [state |-> next, bytes_in_frame |-> length,
                     frame_data |-> IF next = "RXFRAME" THEN <<>> ELSE rx.frame_data]
           /\ begun' = IF next = "LENGTH_MSB" THEN Place ELSE begun
    /\ UNCHANGED <<inTick, wpan, calls, log>>

BytesLeft == rx.bytes_in_frame - Len(rx.frame_data) + 1

\* Mutant: every part is read to the start of the buffer.
LoadPartAtStart ==
    /\ Loading("RXFRAME") /\ Len(rxbuf) < BytesLeft
    /\ Reads(Len(rxbuf))
    /\ rx' = [rx EXCEPT !.frame_data = rxbuf]
    /\ TickEnds
    /\ UNCHANGED <<wpan, begun, log>>

\* Part of a frame: what there is is kept for the next tick.
LoadPart ==
    /\ Loading("RXFRAME") /\ Len(rxbuf) < BytesLeft
    /\ Reads(Len(rxbuf))
    /\ rx' = [rx EXCEPT !.frame_data = @ \o rxbuf]
    /\ TickEnds
    /\ UNCHANGED <<wpan, begun, log>>

\* The last bytes of a frame, whose checksum fails.
LoadDamaged ==
    /\ Loading("RXFRAME") /\ Reads(BytesLeft)
    /\ LET data == rx.frame_data \o SubSeq(rxbuf, 1, BytesLeft)
       IN  /\ Checksum(data) # 0
           /\ rx' = [rx EXCEPT !.state = "WAITSTART", !.frame_data = data]
    /\ UNCHANGED <<inTick, wpan, calls, begun, log>>
-----------------------------------------------------------------------------
(* _xbee_frame_dispatch() *)

StatusFrame == 1    \* XBEE_FRAME_MODEM_STATUS; in its second byte the status:
HwReset == 0        \* also a watchdog reset and a disassociation
Joined == 1
KeyEstablished == 2 \* also the start of a coordinator

\* _xbee_dev_modem_status()
AfterStatus(status) ==
    CASE status = KeyEstablished -> wpan \cup {"joined", "authenticated"}
      [] status = Joined -> wpan \cup {"joined"}
      [] status = HwReset -> {}
      [] OTHER -> wpan

\* The first entry from e on that takes the frame; 0 if there is none.
EntryFrom(e, frame) ==
    LET takes == {i \in e .. Len(Handlers) : /\ Handlers[i].type \in {0, frame[1]}
                                             /\ Handlers[i].id \in {0, frame[2]}}
    IN  IF takes = {} THEN 0 ELSE CHOOSE i \in takes : \A j \in takes : i <= j

\* A tick goes on with the next frame, unless it has dispatched enough.
Dispatched(call) ==
    IF call.entry = 0 /\ call.dispatched = MaxDispatch THEN TickEnds
    ELSE calls' = [calls EXCEPT ![Len(calls)] = call] /\ UNCHANGED inTick

LoadDispatches ==
    /\ Loading("RXFRAME") /\ Reads(BytesLeft)
    /\ LET data == rx.frame_data \o SubSeq(rxbuf, 1, BytesLeft)
           frame == SubSeq(data, 1, rx.bytes_in_frame)
       IN  /\ Checksum(data) = 0
           /\ rx' = [rx EXCEPT !.state = "WAITSTART", !.frame_data = data]
           /\ wpan' = IF frame[1] = StatusFrame THEN AfterStatus(frame[2]) ELSE wpan
           /\ Dispatched([dispatched |-> Top.dispatched + 1,
                          entry |-> EntryFrom(1, frame), frame |-> frame])
           /\ log' = Append(log, [at |-> begun, frame |-> frame])
    /\ UNCHANGED begun

\* A handler returns, and the next one that takes the frame is called.
HandlerReturns ==
    /\ calls # <<>> /\ Top.entry # 0 /\ w.stage = "none"
    /\ Dispatched([Top EXCEPT !.entry = EntryFrom(@ + 1, Top.frame)])
    /\ UNCHANGED <<lineVars, rxbuf, count, rx, wpan, begun, log, txVars>>
-----------------------------------------------------------------------------
(* xbee_frame_write(), xbee_dev_flowcontrol() *)

SetFlowControl ==
    /\ AppRuns /\ writes > 0
    /\ flow' = ~flow
    /\ UNCHANGED <<lineVars, rxbuf, count, rxVars, writes, w, wrote, tx>>

\* The module asserts CTS or not, and takes bytes when it likes.
FrameWrite(size, cts) ==
    /\ AppRuns /\ writes > 0
    /\ writes' = writes - 1
    /\ w' = [stage |-> "used", size |-> size, cts |-> cts \/ ~flow,
             free |-> TxSize - tx, put |-> 0]
    /\ UNCHANGED <<lineVars, rxbuf, count, rxVars, flow, wrote, tx>>

TxDrains ==
    /\ tx > 0 /\ tx' = tx - 1
    /\ UNCHANGED <<lineVars, rxbuf, count, rxVars, writes, flow, w, wrote>>

\* Mutant: the room for the checksum is not counted.
RoomButChecksum == w.cts /\ w.free >= w.size - 1

Room == w.cts /\ w.free >= w.size

Refusal == IF w.size - w.free > tx THEN "EMSGSIZE" ELSE "EBUSY"

WriteRefused ==
    /\ w.stage = "used" /\ ~Room
    /\ wrote' = [ret |-> Refusal, size |-> w.size, put |-> 0]
    /\ w' = NoCall
    /\ UNCHANGED <<lineVars, rxbuf, count, rxVars, writes, flow, tx>>

WriteAccepted ==
    /\ w.stage = "used" /\ Room
    /\ w' = [w EXCEPT !.stage = "prefix"]
    /\ UNCHANGED <<lineVars, rxbuf, count, rxVars, writes, flow, wrote, tx>>

\* xbee_ser_write() takes what there is room for, and nobody looks at its result.
WritePart(stage, n, next) ==
    LET taken == IF n <= TxSize - tx THEN n ELSE TxSize - tx
        put == w.put + taken
    IN  /\ w.stage = stage
        /\ tx' = tx + taken
        /\ IF next = "none"
           THEN w' = NoCall /\ wrote' = [ret |-> "OK", size |-> w.size, put |-> put]
           ELSE w' = [w EXCEPT !.stage = next, !.put = put] /\ UNCHANGED wrote
        /\ UNCHANGED <<lineVars, rxbuf, count, rxVars, writes, flow>>

WritePrefix == WritePart("prefix", 3, "bytes")
WriteBytes == WritePart("bytes", w.size - 4, "checksum")
WriteChecksum == WritePart("checksum", 1, "none")
-----------------------------------------------------------------------------

Line ==
    \/ \E p \in use.payloads : ModuleSends(p)
    \/ ByteArrives \/ ByteLost
    \/ \E b \in Byte : ByteChanged(b) \/ ByteAdded(b)

Load ==
    \/ LoadNothing \/ LoadStart \/ LoadMsb \/ LoadLsb
    \/ LoadPart \/ LoadDamaged \/ LoadDispatches

Write ==
    \/ SetFlowControl
    \/ \E size \in use.sizes, cts \in BOOLEAN : FrameWrite(size, cts)
    \/ TxDrains
    \/ WriteRefused \/ WriteAccepted \/ WritePrefix \/ WriteBytes \/ WriteChecksum

Next == Line \/ DevReset \/ DevTick \/ Load \/ HandlerReturns \/ Write

Spec == Init /\ [][Next]_vars

\* Bytes arrive, the main loop polls, handlers return and a call goes on.
Fairness ==
    /\ WF_vars(ByteArrives)
    /\ WF_vars(DevTick)
    /\ WF_vars(Load)
    /\ WF_vars(HandlerReturns)
    /\ WF_vars(WriteRefused \/ WriteAccepted \/ WritePrefix \/ WriteBytes \/ WriteChecksum)

FairSpec == Spec /\ Fairness
-----------------------------------------------------------------------------
(* Properties *)

LineType ==
    /\ use \in Uses /\ faults \in 0 .. use.faults
    /\ sending \in Seq(Byte)
    /\ rxbuf \in Seq(Byte) /\ Len(rxbuf) <= RxSize

RxType ==
    /\ rx \in [state : {"WAITSTART", "LENGTH_MSB", "LENGTH_LSB", "RXFRAME"},
               bytes_in_frame : 0 .. Base * Base - 1, frame_data : Seq(Byte)]
    /\ Len(rx.frame_data) <= MaxLen + 1
    /\ inTick \in BOOLEAN
    /\ wpan \subseteq {"joined", "authenticated"}
    /\ calls \in Seq([dispatched : 0 .. MaxDispatch, entry : 0 .. Len(Handlers), frame : Seq(Byte)])

TxType ==
    /\ writes \in Nat /\ flow \in BOOLEAN
    /\ w \in [stage : {"none", "used", "prefix", "bytes", "checksum"}, size : Nat,
              cts : BOOLEAN, free : 0 .. TxSize, put : Nat]
    /\ wrote \in [ret : {"none", "OK", "EBUSY", "EMSGSIZE"}, size : Nat, put : Nat]
    /\ tx \in 0 .. TxSize

TypeOK == LineType /\ RxType /\ TxType

\* Nothing is under way.
Quiet ==
    /\ sending = <<>> /\ rxbuf = <<>> /\ calls = <<>> /\ w.stage = "none"

\* On a good line the frames of the module are dispatched once each and in order,
\* and none is forgotten, however its bytes are spread over ticks and whatever a
\* payload looks like.
InOrder ==
    damage = 0 =>
        /\ Len(log) <= Len(origin)
        /\ \A i \in 1 .. Len(log) : log[i] = origin[i]
        /\ Quiet => Len(log) = Len(origin)

\* How far behind a damaged byte a frame may still be lost: the damage leads to a
\* length that is read two bytes on, at most, and swallows MaxLen bytes and one more.
Reach == MaxLen + 3

\* A damaged byte costs the frames around it and no others: behind it the receiver
\* finds the frames again, and finds nothing that is not one.
Contained ==
    LET Behind(frames) == {f \in {frames[i] : i \in 1 .. Len(frames)} : f.at > damage + Reach}
    IN  /\ Behind(log) \subseteq Behind(origin)
        /\ Quiet => Behind(log) = Behind(origin)

\* Every handler of a frame is given that frame, whatever the ones before it did.
HandlersAgree ==
    \A i \in {j \in 1 .. Len(calls) : calls[j].entry # 0} :
        \A k \in 1 .. Len(calls[i].frame) :
            /\ k <= Len(rx.frame_data)
            /\ rx.frame_data[k] = calls[i].frame[k]

\* A frame is written as a whole or not at all.
WholeFrames == wrote.put = IF wrote.ret = "OK" THEN wrote.size ELSE 0

\* A frame that xbee_frame_write() refuses for now (-EBUSY) could be sent later.  The
\* converse does not hold: bytes the transmit interrupt takes out between the two looks
\* at the buffer are counted in neither, and a frame that fits is refused with -EMSGSIZE.
BusyIsTemporary == wrote.ret = "EBUSY" => wrote.size <= TxSize

\* The link comes to rest, and polling goes on, when the module is silent.
ComesToRest == []<>Quiet
=============================================================================
