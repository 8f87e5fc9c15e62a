-------------------------------- MODULE AtMode --------------------------------
(***************************************************************************)
(* AT command mode (src/xbee/xbee_atmode.c): what each of its functions    *)
(* does to a device and to the buffers of its serial port.                 *)
(*                                                                         *)
(* `line' holds what was written and not yet read by the module: an escape *)
(* sequence, a command, or something the firmware driver writes.  `back'   *)
(* holds what was received: a text is one character here, followed by the  *)
(* carriage return.  Each character says in `of' which request it answers, *)
(* which the functions do not see.                                         *)
(***************************************************************************)
EXTENDS Integers, Sequences, FiniteSetsExt

CONSTANTS
    Guard,          \* guard_time + 200 ms
    AnswerWait,     \* how long an answer is waited for (2000 ms)
    CommandWait,    \* idle_timeout (10 s)
    Room,           \* what the transmit buffer holds
    RespSize        \* size of the buffer a response is read into

ASSUME AtModeAssumption ==
    {Guard, AnswerWait, CommandWait} \subseteq Nat /\ {Room, RespSize} \subseteq Nat \ {0}

Modes == {"UNKNOWN", "IDLE", "PRE_ESCAPE", "POST_ESCAPE", "COMMAND", "WAIT_IDLE", "WAIT_RESPONSE"}
Commands == {"HV", "%C", "VR", "CF1", "SL", "%P", "FR", "CN"}
Texts == {"OK", "ERROR", "same", "other"}

\* What the two ends write: of a block, `part' is the place in it.
Item(kind, of, part) == [kind |-> kind, of |-> of, part |-> part]
Char(ch, of) == [ch |-> ch, of |-> of]

\* xbee_dev_t with its serial port; `age' is the time since mode_timer was set, and
\* `asked' history: the requests written.
Device(times, items, chars) ==
    [mode : Modes, age : times, line : Seq(items), back : Seq(chars), asked : Nat,
     baud : {"slow", "fast", "boot"}, broken : BOOLEAN]

Free(d) == Room - Len(d.line)

\* xbee_ser_write(): what there is no room for is not written, and nobody looks.
Write(d, item) == IF Free(d) > 0 THEN [d EXCEPT !.line = Append(@, item)] ELSE d

Goes(d, mode) == [d EXCEPT !.mode = mode]
Stamped(d, mode) == [d EXCEPT !.mode = mode, !.age = 0]

\* The first three bytes that come after the escape sequence are the answer to it.
Greeted(d) == d.back[1].ch = "OK" /\ d.back[2].ch = "CR"
\* xbee_atmode_tick()
Ticked(d) ==
    CASE d.mode = "PRE_ESCAPE" /\ d.age > Guard ->
            [Stamped(Write(d, Item("+++", d.asked, 0)), "POST_ESCAPE") EXCEPT !.back = <<>>]
      [] d.mode = "POST_ESCAPE" /\ Len(d.back) >= 2 ->
            [IF Greeted(d) THEN Stamped(d, "COMMAND") ELSE Goes(d, "IDLE")
                EXCEPT !.back = Tail(Tail(@))]
      [] d.mode = "POST_ESCAPE" /\ Len(d.back) < 2 /\ d.age > Guard -> Goes(d, "IDLE")
      [] d.mode = "WAIT_RESPONSE" /\ d.age > AnswerWait -> Goes(d, "COMMAND")
      [] d.mode = "WAIT_IDLE" /\ d.age > AnswerWait -> Goes(d, "IDLE")
      [] d.mode = "COMMAND" /\ d.age > CommandWait -> Goes(d, "IDLE")
      [] OTHER -> d

\* xbee_atmode_enter()
Entered(d) ==
    LET t == Ticked(d)
    IN  IF t.mode \in {"UNKNOWN", "IDLE"} THEN Stamped(t, "PRE_ESCAPE") ELSE t

\* xbee_atmode_send_request(): the mode is not looked at.
Requested(d, command) ==
    IF Free(d) = 0 THEN d
    ELSE [Stamped(Write(d, Item(command, d.asked + 1, 0)), "WAIT_RESPONSE") EXCEPT !.asked = @ + 1]

\* Exited that does not wait for the answer to ATCN.
ExitedAtOnce(d) ==
    LET t == Ticked(d)
    IN  CASE t.mode = "PRE_ESCAPE" -> Goes(t, "IDLE")
          [] t.mode = "COMMAND" -> Goes(Requested(t, "CN"), "IDLE")
          [] OTHER -> t
\* xbee_atmode_exit(): whether ATCN found room is not looked at.
Exited(d) ==
    LET t == Ticked(d)
    IN  CASE t.mode = "PRE_ESCAPE" -> Goes(t, "IDLE")
          [] t.mode = "COMMAND" -> Goes(Requested(t, "CN"), "WAIT_IDLE")
          [] OTHER -> t

\* A response, or the wait for it, has come to its end.
Ended(d) ==
    CASE d.mode = "WAIT_IDLE" -> Goes(d, "IDLE")
      [] d.mode = "WAIT_RESPONSE" -> Goes(d, "COMMAND")
      [] OTHER -> d

\* The device, the response so far and the result.
Response(d, buffer, ret) == [dev |-> d, buffer |-> buffer, ret |-> ret]
\* Read that does not wait for the carriage return.
ReadWhatCame(d, buffer) ==
    IF d.mode \notin {"WAIT_IDLE", "WAIT_RESPONSE"} THEN Response(d, buffer, "EPERM")
    ELSE IF d.back = <<>> THEN Response(d, buffer, "EAGAIN")
    ELSE Response([Ended(d) EXCEPT !.back = Tail(@)], <<Head(d.back)>>, "0")
\* xbee_atmode_read_response()
Read(d, buffer) ==
    LET returns == {i \in 1 .. Len(d.back) : d.back[i].ch = "CR"}
        text == IF returns = {} THEN Len(d.back) ELSE Min(returns) - 1
        room == Max({RespSize - 1 - Len(buffer), 0})
        n == Min({text, room})
        longer == buffer \o SubSeq(d.back, 1, n)
        left == [d EXCEPT !.back = SubSeq(@, n + 1, Len(@))]
    IN  CASE d.mode \notin {"WAIT_IDLE", "WAIT_RESPONSE"} -> Response(d, buffer, "EPERM")
          [] d.mode \in {"WAIT_IDLE", "WAIT_RESPONSE"} /\ text >= room ->
                Response(left, longer, "ENOSPC")
          [] d.mode \in {"WAIT_IDLE", "WAIT_RESPONSE"} /\ text < room /\ returns # {} ->
                Response([Ended(left) EXCEPT !.back = Tail(@)], longer, "0")
          [] OTHER -> IF d.age > AnswerWait THEN Response(Ended(left), longer, "ETIMEDOUT")
                      ELSE Response(left, longer, "EAGAIN")
=============================================================================
