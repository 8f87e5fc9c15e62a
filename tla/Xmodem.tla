-------------------------------- MODULE Xmodem --------------------------------
(***************************************************************************)
(* The XMODEM sender (src/xbee/xbee_xmodem.c), one call of                 *)
(* xbee_xmodem_tx_tick() at a time.                                        *)
(*                                                                         *)
(* `line' holds what the sender has written and the receiver has not read, *)
(* `back' the characters of the receiver that wait in the receive buffer.  *)
(* A character of the receiver is modelled with the packet it answers,     *)
(* `of', which the real one does not carry and the sender does not see.    *)
(* A block of the file is its number, a packet its number and its block.   *)
(* A write that the port takes in part leaves a "part" on the line.        *)
(***************************************************************************)
EXTENDS Integers, Sequences

CONSTANTS
    Blocks,         \* length of the file
    Packets,        \* packet numbers are 0 .. Packets - 1 (256 of them)
    Room,           \* what the buffers of the serial port hold, each way
    Wrap,           \* values of the low word of the millisecond timer (65536)
    Tries,          \* how often a packet is sent (3)
    AckWait,        \* time an ACK is awaited (10 s)
    FinalWait       \* time the ACK of EOT is awaited (3 s)

ASSUME XmodemAssumption ==
    /\ Blocks \in Nat
    /\ {Packets, Room, Wrap, Tries, AckWait, FinalWait} \subseteq Nat \ {0}
    /\ FinalWait < Wrap /\ AckWait < Wrap

VARIABLES
    xm,         \* xbee_xmodem_state_t
    file,       \* blocks read from the source
    line,       \* written to the receiver
    back,       \* received from the receiver
    now,        \* (uint16_t) xbee_millisecond_timer()
    sent,       \* history: the blocks of this transfer that were written whole
    cut,        \* history: the blocks whose first write was not taken whole
    late        \* history: an answer to one packet was taken for another

xmodemVars == <<xm, file, line, back, now, sent, cut, late>>

\* XBEE_XMODEM_STATE_SENDING is not among them: nothing sets it.
XmodemState == {"START", "SEND", "RESEND", "WAIT_ACK", "EOF", "FINAL_ACK", "SUCCESS", "FAILURE"}

\* xbee_xmodem_state_t; `block' is the block in the buffer.  The offset into it is 0
\* before every write.
XmodemType ==
    /\ xm \in [state : XmodemState, packet_num : 0 .. Packets - 1, block : 0 .. Blocks,
               tries : 0 .. Tries, timer : 0 .. Wrap - 1]
    /\ file \in 0 .. Blocks
    /\ Len(line) <= Room /\ Len(back) <= Room
    /\ now \in 0 .. Wrap - 1
    /\ sent \in Seq(1 .. Blocks) /\ cut \subseteq 1 .. Blocks
    /\ late \in BOOLEAN

\* The packet in the buffer; `nth', its place in the transfer, is history.
Packet(x, nth) == [kind |-> "packet", num |-> x.packet_num, block |-> x.block, nth |-> nth]
Char(ch) == [kind |-> ch, num |-> 0, block |-> 0, nth |-> 0]

\* A write that finds no room takes nothing.
Written(item) == IF Len(line) < Room THEN Append(line, item) ELSE line

\* _xbee_xmodem_getchar(): the character read, and what is left.
Got == IF back = <<>> THEN "none" ELSE Head(back).ch
Left == IF back = <<>> THEN back ELSE Tail(back)

\* xbee_xmodem_tx_init(): what the fields are that it does not set is of no matter.
XmodemInit == [state |-> "START", packet_num |-> 0, block |-> 0, tries |-> 0, timer |-> 0]

-----------------------------------------------------------------------------
\* failure: the receiver is told, if there is room.  A caller may flush the port, as
\* the firmware driver does: what has not gone out by then, in the end the CAN too, is
\* dropped.
Fail(x, error, ret) ==
    /\ xm' = [x EXCEPT !.state = "FAILURE"]
    /\ LET told == Written(Char("CAN"))
       IN  \E out \in 0 .. Len(told) : line' = SubSeq(told, 1, out)
    /\ ret = error

\* The write of the packet in the buffer, from its first byte.  When the port takes
\* only a part of it, or nothing, the state stays: the next tick goes through SEND or
\* RESEND again, and so through `offset = 0'.
Sending(x, nth, ret) ==
    \/ /\ Len(line) < Room
       /\ line' = Append(line, Packet(x, nth))
       /\ xm' = [x EXCEPT !.state = "WAIT_ACK", !.timer = now]
       /\ ret = "0"
    \/ /\ line' = Written(Char("part"))
       /\ xm' = x
       /\ ret = "0"
    \/ Fail(x, "EIO", ret)

\* XBEE_XMODEM_STATE_SEND: _assemble_packet() reads the next block, also when the
\* last one has not been written whole; the answers that have come in are flushed.
Send(num, rest, ret) ==
    LET x == [xm EXCEPT !.state = "SEND", !.packet_num = num, !.tries = Tries]
    IN  \/ /\ file < Blocks
           /\ file' = file + 1
           /\ back' = <<>>
           /\ Sending([x EXCEPT !.block = file + 1], Len(sent) + 1, ret)
           /\ IF xm'.state = "WAIT_ACK"
              THEN sent' = Append(sent, file + 1) /\ UNCHANGED cut
              ELSE cut' = cut \cup {file + 1} /\ UNCHANGED sent
        \/ /\ file = Blocks
           /\ xm' = [x EXCEPT !.state = "EOF"]
           /\ back' = rest
           /\ ret = "0"
           /\ UNCHANGED <<file, line, sent, cut>>
        \/ /\ file < Blocks     \* the source cannot be read
           /\ Fail(x, "EIO", ret)
           /\ back' = rest
           /\ UNCHANGED <<file, sent, cut>>

Start(ret) ==
    /\ xm.state = "START"
    /\ \/ /\ Got = "C"
          /\ Send(1 % Packets, Left, ret)
       \/ /\ Got # "C"
          /\ back' = Left
          /\ ret = "0"
          /\ UNCHANGED <<xm, file, line, sent, cut>>
    /\ UNCHANGED late

NextPacket(ret) ==
    /\ xm.state = "SEND"
    /\ Send(xm.packet_num, back, ret)
    /\ UNCHANGED late

\* XBEE_XMODEM_STATE_RESEND: the packet that is in the buffer, without a try less.
Resend(ret) ==
    /\ xm.state = "RESEND"
    /\ Sending(xm, Len(sent), ret)
    /\ UNCHANGED <<file, back, sent, cut, late>>

\* (uint16_t) xbee_millisecond_timer() - timer < wait, where int has more than 16
\* bits: the difference is negative once the low word has come round.
Waiting(wait) == now - xm.timer < wait

\* No answer in time, or one that is no ACK: again, or the transfer has failed.
RetryAssembles(state, ret) ==
    /\ xm' = [xm EXCEPT !.state = IF state = "RESEND" THEN "SEND" ELSE state]
    /\ ret = "0"
    /\ UNCHANGED line
Retry(state, ret) ==
    IF xm.tries > 1
    THEN /\ xm' = [xm EXCEPT !.state = state, !.tries = @ - 1]
         /\ ret = "0"
         /\ UNCHANGED line
    ELSE Fail([xm EXCEPT !.tries = 0], "ETIMEDOUT", ret)

\* The two states that wait for an ACK.
Await(state, wait, again, ret) ==
    /\ xm.state = state
    /\ Got # "ACK"
    /\ IF Got = "none" /\ Waiting(wait)
       THEN ret = "0" /\ UNCHANGED <<xm, line>>
       ELSE Retry(again, ret)
    /\ back' = Left
    /\ UNCHANGED <<file, sent, cut, late>>

\* The number of the packet the ACK is for is not looked at: there is none.
Taken(item) == late' = (late \/ Head(back).of # item)

AckTakesPacket == [xm EXCEPT !.state = "SEND"]
AckTaken == [xm EXCEPT !.state = "SEND", !.packet_num = (@ + 1) % Packets]

WaitAck(ret) ==
    \/ Await("WAIT_ACK", AckWait, "RESEND", ret)
    \/ /\ xm.state = "WAIT_ACK" /\ Got = "ACK"
       /\ Taken(Packet(xm, Len(sent)))
       /\ xm' = AckTaken
       /\ back' = Left
       /\ ret = "0"
       /\ UNCHANGED <<file, line, sent, cut>>

Eof(ret) ==
    /\ xm.state = "EOF"
    /\ line' = Written(Char("EOT"))
    /\ xm' = [xm EXCEPT !.state = "FINAL_ACK", !.timer = now]
    /\ ret = "0"
    /\ UNCHANGED <<file, back, sent, cut, late>>

FinalAck(ret) ==
    \/ Await("FINAL_ACK", FinalWait, "EOF", ret)
    \/ /\ xm.state = "FINAL_ACK" /\ Got = "ACK"
       /\ Taken(Char("EOT"))
       /\ xm' = [xm EXCEPT !.state = "SUCCESS"]
       /\ back' = Left
       /\ ret = "1"
       /\ UNCHANGED <<file, line, sent, cut>>

Over(ret) ==
    /\ xm.state \in {"SUCCESS", "FAILURE"}
    /\ ret = IF xm.state = "SUCCESS" THEN "1" ELSE "ETIMEDOUT"
    /\ UNCHANGED <<xm, file, line, back, sent, cut, late>>

\* xbee_xmodem_tx_tick(), which returns ret.
TxTick(ret) ==
    /\ \/ Start(ret) \/ NextPacket(ret) \/ Resend(ret)
       \/ WaitAck(ret) \/ Eof(ret) \/ FinalAck(ret) \/ Over(ret)
    /\ UNCHANGED now
=============================================================================
