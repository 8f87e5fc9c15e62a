-------------------------------- MODULE AtCmd --------------------------------
(***************************************************************************)
(* The AT command layer (src/xbee/xbee_atcmd.c): the table of outstanding  *)
(* requests, the dispatch of AT responses to their callbacks, expiry, and  *)
(* the device query, a list of commands executed on one request.           *)
(*                                                                         *)
(* The library is single-threaded and re-entrant: a callback may call any  *)
(* function of the layer, and xbee_cmd_create() on a full table runs       *)
(* xbee_cmd_tick(), which calls other callbacks.  `call' is the stack of   *)
(* activations that are waiting for a nested call to return.  While it is  *)
(* not empty only its top can move, so a handler is atomic with respect to *)
(* the main loop and interleaves only with what it calls.                  *)
(***************************************************************************)
EXTENDS Integers, Sequences, FiniteSets

CONSTANTS
    Dev,            \* the local XBee modules (xbee_dev_t)
    NULL,           \* "no device": the slot is free
    N,              \* XBEE_CMD_REQUEST_TABLESIZE
    SeqMod,         \* values of the rolling sequence byte (256 in the code)
    FrameMax,       \* frame ids are 1 .. FrameMax (255 in the code)
    AppCmd,         \* commands the application sends
    MultiCmd,       \* those of them that are answered several times (ATND)
    List,           \* the commands of _xbee_atcmd_query_regs
    RefreshIdx,     \* where a refresh starts (XBEE_ATCMD_REG_REFRESH_IDX)
    LocalTimeout, ReuseTimeout, RemoteTimeout,   \* 2, 5 and 180 s
    EarlyStatus,    \* modem status frames may precede xbee_cmd_init_device()
    AppMax,         \* requests the application holds at a time
    MaxRequest,     \* bound: requests the application creates or sends again
    MaxEvent,       \* bound: modem status frames and repeated answers
    MaxFail         \* bound: writes refused by the serial layer

ASSUME AtAssumption ==
    /\ NULL \notin Dev
    /\ N \in Nat \ {0}
    /\ SeqMod \in Nat \ {0} /\ FrameMax \in Nat \ {0}
    /\ List \in Seq(STRING) /\ RefreshIdx \in 1 .. Len(List)
    /\ EarlyStatus \in BOOLEAN
    /\ MultiCmd \subseteq AppCmd /\ AppCmd \subseteq STRING
    /\ {LocalTimeout, ReuseTimeout, RemoteTimeout} \subseteq Nat \ {0}
    /\ {AppMax, MaxRequest, MaxEvent, MaxFail} \subseteq Nat

VARIABLES
    slot,       \* xbee_cmd_request_table
    flags,      \* xbee->flags: the CMD_INIT and QUERY_* bits of each device
    clc,        \* _xbee_atcmd_query_regs_head, the one list context
    frameId,    \* xbee->frame_id of each device
    info,       \* modules whose answers each xbee_dev_t holds
    ticked,     \* last_time == now in xbee_cmd_tick()
    call,       \* activations waiting for a nested call, top last
    held,       \* handles the application keeps
    air,        \* responses on their way from the radio
    budget      \* what is left of the bounds MaxRequest, MaxEvent and MaxFail

vars == <<slot, flags, clc, frameId, info, ticked, call, held, air, budget>>

Slots == 0 .. N - 1     \* indices of xbee_cmd_request_table

Flag == {"CMD_INIT", "QUERY_BEGIN", "QUERY_INPROGRESS", "QUERY_DONE",
         "QUERY_ERROR", "QUERY_REFRESH"}
Cmd == AppCmd \cup {List[k] : k \in 1 .. Len(List)}
Callback == {"none", "app", "list"}
Handle == [slot : Slots, seq : 0 .. SeqMod - 1]
Timer == 0 .. (LocalTimeout + ReuseTimeout + RemoteTimeout)

Request ==
    [dev : Dev \cup {NULL}, seq : 0 .. SeqMod - 1, timer : Timer,
     remote : BOOLEAN, reuse : BOOLEAN, cb : Callback,
     frame : 0 .. FrameMax, cmd : Cmd]

\* A response in the air; `from' is the request that sent the command.
Response ==
    [dev : Dev, frame : 1 .. FrameMax, remote : BOOLEAN, cmd : Cmd, from : Handle]

\* An activation: the callback of a request, xbee_cmd_tick() with `slot' the
\* next one to look at, xbee_cmd_create() and xbee_cmd_query_device().
Activation ==
    [fn : {"appcb", "listcb"}, h : Handle, from : Handle, by : {"tick", "response"}]
    \cup [fn : {"tick"}, next : 0 .. N]
    \cup [fn : {"create"}, dev : Dev, for : {"app", "query"},
          start : 1 .. Len(List), retry : BOOLEAN]
    \cup [fn : {"query"}, dev : Dev, refresh : BOOLEAN]

Context ==
    [base : Dev \cup {NULL}, list : 1 .. Len(List), index : 0 .. Len(List),
     status : {"DONE", "RUNNING", "TIMEOUT", "ERROR"}]
-----------------------------------------------------------------------------
(* The stack of activations *)

Top == call[Len(call)]
Below == SubSeq(call, 1, Len(call) - 1)
TopIs(f) == call # <<>> /\ Top.fn = f
Idle == call = <<>>

\* The application runs: in its main loop, or in one of its callbacks.
AppRuns == Idle \/ TopIs("appcb")

\* `initialized' is 2 while a create waits for the tick it called.
CreateRetrying == \E k \in 1 .. Len(call) : call[k].fn = "create" /\ call[k].retry

\* The handle of the request in slot i.  An application that still holds it from
\* SeqMod requests ago has forgotten it when it is given out again.
HandleOf(i) == [slot |-> i, seq |-> slot[i].seq]

TickCall(i) == [fn |-> "tick", next |-> i]
QueryCall(d, r) == [fn |-> "query", dev |-> d, refresh |-> r]
CreateCall(d, for, start, retry) ==
    [fn |-> "create", dev |-> d, for |-> for, start |-> start, retry |-> retry]
CallbackCall(f, i, from, by) ==
    [fn |-> f, h |-> HandleOf(i), from |-> from, by |-> by]
-----------------------------------------------------------------------------
(* The request table *)

\* _xbee_cmd_handle_to_address(): only the sequence byte is compared.
Resolves(h) == slot[h.slot].seq = h.seq

\* The request the application holds handle h of is still in the table.
Live(h) == Resolves(h) /\ slot[h.slot].dev # NULL

FreeSlots == {i \in Slots : slot[i].dev = NULL}
FirstOf(S) == CHOOSE i \in S : \A j \in S : i <= j

\* A free slot.  Its other fields are cleared when it is taken.
Blank(seq) ==
    [dev |-> NULL, seq |-> seq, timer |-> 0, remote |-> FALSE, reuse |-> FALSE,
     cb |-> "none", frame |-> 0, cmd |-> List[1]]

\* _xbee_cmd_release_request()
Released(r) == Blank((r.seq + 1) % SeqMod)

\* What xbee_cmd_create() leaves in the slot it found.
Created(i, d, c) ==
    [Blank(slot[i].seq) EXCEPT !.dev = d, !.timer = LocalTimeout, !.cmd = c]

\* xbee_cmd_send() of request r: a request without a callback takes frame id 0.
SendFrame(r) == IF r.cb = "none" THEN 0 ELSE (frameId[r.dev] % FrameMax) + 1

\* The request after xbee_cmd_send(); ok is what xbee_frame_write() returned.
Sent(r, ok) ==
    LET s == [r EXCEPT !.frame = SendFrame(r)]
    IN  IF ok /\ s.frame # 0
        THEN [s EXCEPT !.timer = IF r.remote THEN RemoteTimeout ELSE LocalTimeout]
        ELSE IF ok /\ ~r.reuse THEN Released(s) ELSE s

\* The responses in the air after r took its frame id.  The module answers an
\* older frame before its id comes round, or never; and r if it was written.
Airborne(i, r, others, ok) ==
    {a \in others : ~(a.dev = r.dev /\ a.frame = SendFrame(r))}
    \cup {a \in {[dev |-> r.dev, frame |-> SendFrame(r), remote |-> r.remote,
                  cmd |-> r.cmd, from |-> HandleOf(i)]} : ok}

\* xbee_cmd_send() for slot i: the frame id is spent even if the write is refused.
Transmit(i, r, ok) ==
    IF r.cb = "none" THEN UNCHANGED <<frameId, air>>
    ELSE /\ frameId' = [frameId EXCEPT ![r.dev] = SendFrame(r)]
         /\ air' = Airborne(i, r, air, ok)

\* xbee_frame_write() succeeds, or is refused within the bound.
Write(ok) == ok \/ budget.fail > 0
Spend(ok) == IF ok THEN budget ELSE [budget EXCEPT !.fail = @ - 1]

\* Mutant: responses are told apart by command only.
MatchesAnyFrame(a) ==
    {i \in Slots : slot[i].dev = a.dev /\ slot[i].remote = a.remote /\ slot[i].cmd = a.cmd}

\* _xbee_cmd_handle_response(): the first request a response matches.
Matches(a) ==
    {i \in Slots : /\ slot[i].dev = a.dev
                   /\ slot[i].frame = a.frame
                   /\ slot[i].remote = a.remote
                   /\ slot[i].cmd = a.cmd}
-----------------------------------------------------------------------------
(* Device query *)

\* Mutant: a failed query stays in progress.
QueryEndedStuck(d, failed, missing) ==
    IF failed THEN flags[d] \cup {"QUERY_ERROR"}
    ELSE (flags[d] \ {"QUERY_INPROGRESS"}) \cup {"QUERY_DONE"}

\* _xbee_cmd_query_handle_end() up to the new query it may start; `missing' is
\* a joined device whose network address is not known.
QueryEnded(d, failed, missing) ==
    LET fs == (flags[d] \ {"QUERY_INPROGRESS"})
                 \cup {IF failed THEN "QUERY_ERROR" ELSE "QUERY_DONE"}
    IN  IF "QUERY_ERROR" \in fs /\ missing THEN fs \cup {"QUERY_REFRESH"} ELSE fs

\* Mutant: a refresh asked for during the query is not started at its end.
EndQueryNoRefresh(rest, a, failed) ==
    \E missing \in BOOLEAN :
      /\ flags' = [flags EXCEPT ![clc.base] = QueryEnded(clc.base, failed, missing)]
      /\ call' = rest \o <<a>>

\* The list callback, activation a on top of `rest', has ended the query: it runs
\* handle_end() and, if a refresh is due, waits for xbee_cmd_query_device().
EndQuery(rest, a, failed) ==
    \E missing \in BOOLEAN :
      LET d == clc.base
          fs == QueryEnded(d, failed, missing)
      IN  /\ flags' = [flags EXCEPT ![d] = fs]
          /\ call' = rest \o (IF "QUERY_REFRESH" \in fs
                              THEN <<a, QueryCall(d, TRUE)>> ELSE <<a>>)

\* xbee_cmd_query_device()
QueryDevice ==
    /\ TopIs("query")
    /\ LET d  == Top.dev
           fs == IF Top.refresh THEN flags[d] \cup {"QUERY_REFRESH"} ELSE flags[d]
           start == IF Top.refresh THEN RefreshIdx ELSE 1
       IN  /\ flags' = [flags EXCEPT ![d] = fs]
           /\ IF "QUERY_INPROGRESS" \in fs
              THEN /\ call' = Below
                   /\ UNCHANGED clc
              ELSE /\ clc' = [base |-> d, list |-> start, index |-> 0, status |-> "RUNNING"]
                   /\ call' = Append(Below, CreateCall(d, "query", start, FALSE))
    /\ UNCHANGED <<slot, frameId, info, ticked, held, air, budget>>

\* xbee_cmd_create() found slot i for the list: the rest of
\* xbee_cmd_list_execute() and of xbee_cmd_query_device().
ExecuteList(d, i, start, ok) ==
    LET r == [Created(i, d, List[start]) EXCEPT !.cb = "list"]
    IN  /\ Write(ok)
        /\ slot' = [slot EXCEPT ![i] = Sent(r, ok)]
        /\ Transmit(i, r, ok)
        /\ budget' = Spend(ok)
        /\ flags' = IF ~ok THEN flags
                    ELSE [flags EXCEPT ![d] =
                            (@ \cup {"QUERY_BEGIN", "QUERY_INPROGRESS"})
                            \ {"QUERY_ERROR", "QUERY_DONE", "QUERY_REFRESH"}]
        /\ held' = held \ {HandleOf(i)}
-----------------------------------------------------------------------------
(* xbee_cmd_create() *)

\* The application asks for a request.
AppCreate(d) ==
    /\ AppRuns
    /\ Cardinality(held) < AppMax /\ budget.request > 0
    /\ budget' = [budget EXCEPT !.request = @ - 1]
    /\ call' = Append(call, CreateCall(d, "app", 1, FALSE))
    /\ UNCHANGED <<slot, flags, clc, frameId, info, ticked, held, air>>

\* The first request of a device calls xbee_cmd_init_device(), which queries it.
CreateInitsDevice ==
    /\ TopIs("create") /\ "CMD_INIT" \notin flags[Top.dev]
    /\ flags' = [flags EXCEPT ![Top.dev] = @ \cup {"CMD_INIT"}]
    /\ call' = IF "QUERY_BEGIN" \in flags[Top.dev] THEN call
               ELSE Append(call, QueryCall(Top.dev, FALSE))
    /\ UNCHANGED <<slot, clc, frameId, info, ticked, held, air, budget>>

\* `initialized' returns to 1 when a create that retried returns.
Creating == TopIs("create") /\ "CMD_INIT" \in flags[Top.dev]

CreateInFreeSlot ==
    /\ Creating /\ FreeSlots # {}
    /\ LET i == FirstOf(FreeSlots)
       IN  IF Top.for = "query"
           THEN \E ok \in BOOLEAN : ExecuteList(Top.dev, i, Top.start, ok)
           ELSE \E c \in AppCmd :
                /\ slot' = [slot EXCEPT ![i] = Created(i, Top.dev, c)]
                /\ held' = held \cup {HandleOf(i)}
                /\ UNCHANGED <<flags, frameId, air, budget>>
    /\ call' = Below
    /\ UNCHANGED <<clc, info, ticked>>

\* Mutant: xbee_cmd_tick() does not look at the time.
CreateAlwaysTicks ==
    /\ Creating /\ FreeSlots = {} /\ ~CreateRetrying
    /\ call' = Append(Append(Below, [Top EXCEPT !.retry = TRUE]), TickCall(0))
    /\ ticked' = TRUE
    /\ UNCHANGED <<slot, flags, clc, frameId, info, held, air, budget>>

\* All slots are in use: run xbee_cmd_tick() once, then try again.
CreateTicksFirst ==
    /\ Creating /\ FreeSlots = {} /\ ~CreateRetrying
    /\ LET again == Append(Below, [Top EXCEPT !.retry = TRUE])
       IN  call' = IF ticked THEN again ELSE Append(again, TickCall(0))
    /\ ticked' = TRUE
    /\ UNCHANGED <<slot, flags, clc, frameId, info, held, air, budget>>

\* -ENOSPC.
CreateFails ==
    /\ Creating /\ FreeSlots = {} /\ CreateRetrying
    /\ call' = Below
    /\ UNCHANGED <<slot, flags, clc, frameId, info, ticked, held, air, budget>>
-----------------------------------------------------------------------------
(* The application's other calls *)

InCallback(h) == \E k \in 1 .. Len(call) : call[k].fn = "appcb" /\ call[k].h = h

\* xbee_cmd_set_target(), set_flags(), set_callback() and xbee_cmd_send(), on a
\* new request or to send one again.  A callback that sends its own request keeps
\* a callback on it: without one the send itself would release the request.
AppSend(h, remote, reuse, cb) ==
    /\ AppRuns /\ h \in held /\ Live(h)
    /\ slot[h.slot].frame = 0 \/ budget.request > 0
    /\ InCallback(h) => cb = "app"
    /\ LET r == [slot[h.slot] EXCEPT !.remote = remote, !.reuse = reuse, !.cb = cb]
       IN  \E ok \in BOOLEAN :
             /\ Write(ok)
             /\ slot' = [slot EXCEPT ![h.slot] = Sent(r, ok)]
             /\ Transmit(h.slot, r, ok)
             /\ budget' = IF slot[h.slot].frame = 0 THEN Spend(ok)
                          ELSE [Spend(ok) EXCEPT !.request = @ - 1]
             /\ held' = IF ok /\ cb = "none" /\ ~reuse THEN held \ {h} ELSE held
    /\ UNCHANGED <<flags, clc, info, ticked, call>>

\* A handle that expired before it was sent: every call returns -EINVAL.
AppFindsStale(h) ==
    /\ AppRuns /\ h \in held /\ ~Live(h)
    /\ held' = held \ {h}
    /\ UNCHANGED <<slot, flags, clc, frameId, info, ticked, call, air, budget>>

\* xbee_cmd_release_handle(), for a request whose callback is not running.
AppRelease(h) ==
    /\ AppRuns /\ h \in held /\ Live(h)
    /\ ~InCallback(h)
    /\ slot' = [slot EXCEPT ![h.slot] = Released(@)]
    /\ held' = held \ {h}
    /\ UNCHANGED <<flags, clc, frameId, info, ticked, call, air, budget>>

-----------------------------------------------------------------------------
(* xbee_cmd_tick() *)

\* Called from the main loop, at most one pass a second.
CmdTick ==
    /\ Idle /\ ~ticked
    /\ ticked' = TRUE
    /\ call' = <<TickCall(0)>>
    /\ UNCHANGED <<slot, flags, clc, frameId, info, held, air, budget>>

\* Mutant: only a request with a callback expires.
ExpiredWithCallback ==
    {i \in Slots : /\ i >= Top.next /\ slot[i].dev # NULL
                   /\ slot[i].timer = 0 /\ slot[i].cb # "none"}

Expired == {i \in Slots : i >= Top.next /\ slot[i].dev # NULL /\ slot[i].timer = 0}

\* The request in slot i is released; a refresh that is pending on its device
\* is started in the slot that just opened.
TickReleases(i, rest) ==
    /\ slot' = [slot EXCEPT ![i] = Released(@)]
    /\ call' = IF "QUERY_REFRESH" \in flags[slot[i].dev]
               THEN Append(rest, QueryCall(slot[i].dev, TRUE)) ELSE rest

TickEnds ==
    /\ TopIs("tick") /\ Expired = {}
    /\ call' = Below
    /\ UNCHANGED <<slot, flags, clc, frameId, info, ticked, held, air, budget>>

\* Mutant: the slot is given back before its callback is told.
TellAppReleased(i, rest) ==
    /\ call' = Append(rest, CallbackCall("appcb", i, HandleOf(i), "tick"))
    /\ slot' = [slot EXCEPT ![i] = Released(@)]

\* The callback of the request in slot i is told that it expired.
TellApp(i, rest) ==
    /\ call' = Append(rest, CallbackCall("appcb", i, HandleOf(i), "tick"))
    /\ UNCHANGED slot

TickExpires ==
    /\ TopIs("tick") /\ Expired # {}
    /\ LET i == FirstOf(Expired)
           rest == Append(Below, TickCall(i + 1))
       IN  \/ /\ slot[i].cb = "none"
              /\ TickReleases(i, rest)
              /\ UNCHANGED <<flags, clc>>
           \/ /\ slot[i].cb = "app"
              /\ TellApp(i, rest)
              /\ UNCHANGED <<flags, clc>>
           \/ /\ slot[i].cb = "list"
              /\ clc' = [clc EXCEPT !.status = "TIMEOUT"]
              /\ EndQuery(rest, CallbackCall("listcb", i, HandleOf(i), "tick"), TRUE)
              /\ UNCHANGED slot
    /\ UNCHANGED <<frameId, info, ticked, held, air, budget>>
-----------------------------------------------------------------------------
(* _xbee_cmd_handle_response() *)

\* The response is consumed; a command like ATND is answered again.
Consume(a) ==
    \/ air' = air \ {a} /\ UNCHANGED budget
    \/ /\ a.cmd \in MultiCmd /\ budget.event > 0
       /\ budget' = [budget EXCEPT !.event = @ - 1]
       /\ UNCHANGED air

ResponseUnmatched(a) ==
    /\ Idle /\ Matches(a) = {}
    /\ air' = air \ {a}
    /\ UNCHANGED <<slot, flags, clc, frameId, info, ticked, call, held, budget>>

ResponseToApp(a) ==
    /\ Idle /\ Matches(a) # {}
    /\ LET i == FirstOf(Matches(a))
       IN  /\ slot[i].cb = "app"
           /\ call' = <<CallbackCall("appcb", i, a.from, "response")>>
    /\ Consume(a)
    /\ UNCHANGED <<slot, flags, clc, frameId, info, ticked, held>>

\* The register of _xbee_atcmd_query_regs the list context is at.
Current == clc.list + clc.index

\* The value is stored through the base of the list context.
Store(a) == info' = [info EXCEPT ![clc.base] = @ \cup {a.dev}]

\* _xbee_cmd_list_callback() for a response with the expected command, when
\* another one follows: it is sent on the same request, whatever comes of it.
ResponseAdvancesList(a) ==
    /\ Idle /\ Matches(a) # {}
    /\ LET i == FirstOf(Matches(a))
           r == [slot[i] EXCEPT !.cmd = List[Current + 1]]
       IN  /\ slot[i].cb = "list" /\ Current < Len(List) /\ List[Current] = a.cmd
           /\ Store(a)
           /\ clc' = [clc EXCEPT !.index = @ + 1]
           /\ \E ok \in BOOLEAN :
                /\ Write(ok)
                /\ budget' = Spend(ok)
                /\ slot' = [slot EXCEPT ![i] = [Sent(r, ok) EXCEPT !.timer = ReuseTimeout]]
                /\ frameId' = [frameId EXCEPT ![a.dev] = SendFrame(r)]
                /\ air' = Airborne(i, r, air \ {a}, ok)
    /\ UNCHANGED <<flags, ticked, call, held>>

\* ... for the last command of the list, or for a command the list context is
\* not at, where only the last register has a callback to run.
ResponseEndsList(a) ==
    /\ Idle /\ Matches(a) # {}
    /\ LET i == FirstOf(Matches(a))
           cb == CallbackCall("listcb", i, a.from, "response")
       IN  /\ slot[i].cb = "list"
           /\ \/ /\ Current = Len(List) /\ List[Current] = a.cmd
                 /\ Store(a)
                 /\ clc' = [clc EXCEPT !.index = @ + 1, !.status = "DONE"]
                 /\ EndQuery(<<>>, cb, FALSE)
              \/ /\ Current > Len(List)
                 /\ clc' = [clc EXCEPT !.status = "ERROR"]
                 /\ EndQuery(<<>>, cb, TRUE)
                 /\ UNCHANGED info
              \/ /\ Current <= Len(List) /\ List[Current] # a.cmd
                 /\ clc' = [clc EXCEPT !.status = "ERROR"]
                 /\ call' = <<cb>>
                 /\ UNCHANGED <<flags, info>>
    /\ air' = air \ {a}
    /\ UNCHANGED <<slot, frameId, ticked, held, budget>>
-----------------------------------------------------------------------------
(* Returns of callbacks *)

\* The list callback returns XBEE_ATCMD_DONE: its slot is released, whoever
\* holds it now.
ListReturns ==
    /\ TopIs("listcb")
    /\ IF Top.by = "tick" THEN TickReleases(Top.h.slot, Below)
       ELSE /\ slot' = [slot EXCEPT ![Top.h.slot] = Released(@)]
            /\ call' = Below
    /\ UNCHANGED <<flags, clc, frameId, info, ticked, held, air, budget>>

\* The application's callback returns XBEE_ATCMD_DONE ...
AppReturnsDone ==
    /\ TopIs("appcb")
    /\ held' = held \ {Top.h}
    /\ IF Top.by = "tick" THEN TickReleases(Top.h.slot, Below)
       ELSE /\ slot' = [slot EXCEPT ![Top.h.slot] = Released(@)]
            /\ call' = Below
    /\ UNCHANGED <<flags, clc, frameId, info, ticked, air, budget>>

\* ... or XBEE_ATCMD_REUSE: it expects more answers, or has sent the request
\* again.  After a timeout it keeps the request only to send it again.
AppReturnsReuse ==
    /\ TopIs("appcb")
    /\ IF Top.by = "tick"
       THEN slot[Top.h.slot].timer > 0 /\ UNCHANGED slot
       ELSE slot' = [slot EXCEPT ![Top.h.slot].timer = ReuseTimeout]
    /\ call' = Below
    /\ UNCHANGED <<flags, clc, frameId, info, ticked, held, air, budget>>
-----------------------------------------------------------------------------
(* The environment *)

\* _xbee_cmd_modem_status(): the module joined, or a key was established.
ModemStatus(d) ==
    /\ Idle /\ budget.event > 0
    /\ EarlyStatus \/ "CMD_INIT" \in flags[d]
    /\ budget' = [budget EXCEPT !.event = @ - 1]
    /\ call' = <<QueryCall(d, TRUE)>>
    /\ UNCHANGED <<slot, flags, clc, frameId, info, ticked, held, air>>

\* A response is lost.
Lose(a) ==
    /\ Idle
    /\ air' = air \ {a}
    /\ UNCHANGED <<slot, flags, clc, frameId, info, ticked, call, held, budget>>

\* xbee_seconds_timer() advances.  Callbacks take less than a second.
Second ==
    /\ Idle
    /\ ticked' = FALSE
    /\ slot' = [i \in Slots |-> IF slot[i].timer = 0 THEN slot[i]
                                ELSE [slot[i] EXCEPT !.timer = @ - 1]]
    /\ UNCHANGED <<flags, clc, frameId, info, call, held, air, budget>>
-----------------------------------------------------------------------------

Init ==
    /\ slot = [i \in Slots |-> Blank(0)]
    /\ flags = [d \in Dev |-> {}]
    /\ clc = [base |-> NULL, list |-> 1, index |-> 0, status |-> "DONE"]
    /\ frameId = [d \in Dev |-> 0]
    /\ info = [d \in Dev |-> {}]
    /\ ticked = TRUE
    /\ call = <<>>
    /\ held = {}
    /\ air = {}
    /\ budget = [request |-> MaxRequest, event |-> MaxEvent, fail |-> MaxFail]

\* What the program does once it is called: it always goes on.
Library == QueryDevice \/ CreateInitsDevice \/ CreateInFreeSlot \/ CreateTicksFirst
           \/ CreateFails \/ TickEnds \/ TickExpires \/ ListReturns

App == \/ \E d \in Dev : AppCreate(d)
       \/ \E h \in held :
            \/ \E remote, reuse \in BOOLEAN, cb \in {"none", "app"} :
                 AppSend(h, remote, reuse, cb)
            \/ AppFindsStale(h) \/ AppRelease(h)
       \/ AppReturnsDone \/ AppReturnsReuse

Respond(a) == ResponseUnmatched(a) \/ ResponseToApp(a)
              \/ ResponseAdvancesList(a) \/ ResponseEndsList(a)

Environment == \/ \E d \in Dev : ModemStatus(d)
               \/ \E a \in air : Respond(a) \/ Lose(a)
               \/ Second

Next == Library \/ App \/ CmdTick \/ Environment

Spec == Init /\ [][Next]_vars
-----------------------------------------------------------------------------
(* Fairness: the main loop polls, time passes, the radio answers or is silent, *)
(* and a callback of the application returns.                                  *)

Fairness ==
    /\ WF_vars(Library)
    /\ WF_vars(CmdTick)
    /\ WF_vars(Second)
    /\ WF_vars(\E a \in air : Respond(a) \/ Lose(a))
    /\ SF_vars(AppReturnsDone)

FairSpec == Spec /\ Fairness
-----------------------------------------------------------------------------
(* Properties *)

TypeOK ==
    /\ slot \in [Slots -> Request]
    /\ flags \in [Dev -> SUBSET Flag]
    /\ clc \in Context
    /\ frameId \in [Dev -> 0 .. FrameMax]
    /\ info \in [Dev -> SUBSET Dev]
    /\ ticked \in BOOLEAN
    /\ call \in Seq(Activation)
    /\ held \subseteq Handle
    /\ air \subseteq Response
    /\ budget \in [request : 0 .. MaxRequest, event : 0 .. MaxEvent, fail : 0 .. MaxFail]

Callbacks == {k \in 1 .. Len(call) : call[k].fn \in {"appcb", "listcb"}}

\* xbee_cmd_tick() is never entered again from a callback it runs, and the
\* nesting of callbacks stops at two, although a callback may create requests on
\* a full table and each of these ticks, expires and calls back.
NestingBounded ==
    /\ Cardinality({k \in 1 .. Len(call) : call[k].fn = "tick"}) <= 1
    /\ Cardinality(Callbacks) <= 2

\* A callback is given the answer to a command sent on its own request: never
\* the late answer to an earlier request of the same slot or of another one.
AnswersOwnRequest == \A k \in Callbacks : call[k].from = call[k].h

\* A slot is not given away while the callback of its request runs: when the
\* callback returns, the request that is released is the one it ran for.
CallbackKeepsSlot ==
    \A k \in Callbacks : Live(call[k].h)

\* A query that is in progress has a request that will end it, by an answer or
\* by its expiry.
QueryAlive ==
    \A d \in Dev : "QUERY_INPROGRESS" \in flags[d] =>
      \E i \in Slots : slot[i].dev = d /\ slot[i].cb = "list"

\* Every request leaves the table: it is answered, or it expires.
SlotsDrain == \A i \in Slots : slot[i].dev # NULL ~> slot[i].dev = NULL

\* A refresh that was asked for is started.
RefreshHonoured ==
    \A d \in Dev : "QUERY_REFRESH" \in flags[d] ~> "QUERY_REFRESH" \notin flags[d]
=============================================================================
