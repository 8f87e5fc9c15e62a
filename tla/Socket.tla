-------------------------------- MODULE Socket --------------------------------
(***************************************************************************)
(* The socket layer (src/xbee/xbee_socket.c): the table of host sockets,   *)
(* the calls of the application, the frames of the XBee Cellular module    *)
(* and the callbacks that notify the application of them.                  *)
(*                                                                         *)
(* A frame handler calls the application back and writes its slot, or      *)
(* frees it, when the callback has returned; the callback may call any     *)
(* function of the layer.  `call' is the stack of callbacks that run, each *)
(* with what is left to do when it returns.                                *)
(*                                                                         *)
(* The module is the environment.  It answers over a FIFO link, so that    *)
(* its answers cross the calls of the application.  Every socket carries a *)
(* number, `uid', that the program does not have: host slot, module socket *)
(* and frames of one socket share it.                                      *)
(***************************************************************************)
EXTENDS Integers, Sequences, FiniteSets

CONSTANTS
    Dev,            \* the XBee modules (xbee_dev_t)
    NULL,           \* "no device": the slot is not in use
    N,              \* XBEE_SOCK_SOCKET_COUNT (10)
    Ids,            \* socket ids a module gives out (0 .. 254)
    FrameMax,       \* frame ids are 1 .. FrameMax (255 in the code)
    Uid,            \* numbers that tell sockets apart; a free one is given again
    Protocol,       \* protocols the application uses, of "UDP" and "TCP"
    Patient,        \* the application waits for the Create Response of a socket
    FreeInCallback, \* the application closes sockets from callbacks
    MaxCall,        \* bound: calls of the application
    MaxEvent,       \* bound: data, clients and ends of connections
    MaxDepth        \* bound: callbacks that run inside one another

ASSUME SockAssumption ==
    /\ NULL \notin Dev
    /\ N \in Nat \ {0} /\ FrameMax \in Nat \ {0}
    /\ Ids \subseteq 0 .. 254
    /\ 0 \notin Uid
    /\ Protocol \subseteq {"UDP", "TCP"}
    /\ {Patient, FreeInCallback} \subseteq BOOLEAN
    /\ {MaxCall, MaxEvent, MaxDepth} \subseteq Nat

VARIABLES
    sock,       \* socket_table
    frameId,    \* xbee->frame_id of each device
    call,       \* callbacks that run, innermost last
    radio,      \* sockets of each module
    sending,    \* payloads of which the module owes a TX Status
    rx,         \* frames from each module, in order
    budget      \* what is left of the bounds MaxCall and MaxEvent

vars == <<sock, frameId, call, radio, sending, rx, budget>>

Slots == 0 .. N - 1

Type == {"AVAILABLE", "PENDING", "CREATED", "ATTACH", "CONNECT", "BIND", "LISTEN"}
Mark == {0} \cup Uid     \* 0: no socket
Handler == {"none", "receive", "receive_from", "ipv4_client"}

Socket ==
    [type : Type, dev : Dev \cup {NULL}, create_frame_id : 0 .. FrameMax,
     tx_frame_id : 0 .. FrameMax, socket_id : {0} \cup Ids, protocol : {"UDP", "TCP"},
     handler : Handler, option : BOOLEAN, uid : Mark]

\* A socket of the module; uid 0: the id is free.
Radio ==
    [uid : Mark, protocol : {"UDP", "TCP"},
     state : {"open", "connecting", "connected", "opening", "listening", "bound"}]

Frame ==
    [kind : {"create_resp", "connect_resp", "listen_resp", "option_resp", "tx_status",
             "receive", "receive_from", "ipv4_client", "state"},
     uid : Mark, id : {0} \cup Ids, frame : 0 .. FrameMax, ok : BOOLEAN,
     client : {0} \cup Ids, clientUid : Mark]

\* A running callback: the slot it was called for, what is done to the slot when
\* it returns, the socket the frame is about, and the socket the slot held.
CallbackCall ==
    [then : {"nothing", "free", "CREATED", "CONNECT", "attached", "sent", "accept"},
     dev : Dev, slot : Slots, client : Slots \cup {N}, id : {0} \cup Ids,
     about : Mark, to : Mark]

\* xbee_sock_close_all() for one device, or all, with the next slot to look at.
CloseAllCall == [then : {"close_all"}, dev : Dev \cup {NULL}, next : 0 .. N]
-----------------------------------------------------------------------------
(* The socket table *)

\* _socket_free()
Free == [type |-> "AVAILABLE", dev |-> NULL, create_frame_id |-> 0, tx_frame_id |-> 0,
         socket_id |-> 0, protocol |-> "UDP", handler |-> "none", option |-> FALSE, uid |-> 0]

InUse(i) == sock[i].type # "AVAILABLE"
FirstOf(S) == CHOOSE i \in S : \A j \in S : i <= j

\* _socket_alloc() takes the first of these.
Available == {i \in Slots : ~InUse(i)}

\* _lookup_socket_id(): the first of these is the socket of a received frame.
Lookup(d, id) == {i \in Slots : InUse(i) /\ sock[i].dev = d /\ sock[i].socket_id = id}

\* The application holds the handle of slot i.  It does not use a socket again
\* that it was told is closed, although its slot is freed later.
Holds(i) ==
    /\ sock[i].dev # NULL /\ (Patient => sock[i].type # "PENDING")
    /\ \A k \in 1 .. Len(call) : ~(call[k].then = "free" /\ call[k].slot = i)

\* The numbers of the sockets on the host, on a module and on the way.
KnownUid ==
    {sock[i].uid : i \in Slots}
    \cup {radio[d][id].uid : d \in Dev, id \in Ids}
    \cup (UNION {{s.uid : s \in sending[d]} : d \in Dev})
    \cup (UNION {{rx[d][k].uid : k \in 1 .. Len(rx[d])} : d \in Dev})
    \cup (UNION {{rx[d][k].clientUid : k \in 1 .. Len(rx[d])} : d \in Dev})
FreshUid == Uid \ KnownUid

\* xbee_next_frame_id()
NextFrame(d) == (frameId[d] % FrameMax) + 1

\* The module answers a frame before its id comes round.
FrameAnswered(d) ==
    /\ \A s \in sending[d] : s.frame # NextFrame(d)
    /\ \A k \in 1 .. Len(rx[d]) : rx[d][k].frame # NextFrame(d)

\* A request takes a frame id, whether it can be written or not.
TakeFrame(d) ==
    /\ FrameAnswered(d)
    /\ frameId' = [frameId EXCEPT ![d] = NextFrame(d)]
-----------------------------------------------------------------------------
(* The link and the module.  A request is served when it is written: what the  *)
(* module sent before is ahead of the answer in rx.                            *)

FrameOf(kind, uid, id, frame, ok) ==
    [kind |-> kind, uid |-> uid, id |-> id, frame |-> frame, ok |-> ok,
     client |-> 0, clientUid |-> 0]

Answer(d, f) == rx' = [rx EXCEPT ![d] = Append(@, f)]

Unused == [uid |-> 0, protocol |-> "UDP", state |-> "open"]

\* Ids the module gives out: not those it has told of what the host did not read.
FreeIds(d) ==
    {id \in Ids : /\ radio[d][id].uid = 0
                  /\ \A k \in 1 .. Len(rx[d]) : id \notin {rx[d][k].id, rx[d][k].client}}

Closed(d, id) == IF id \in Ids THEN [radio EXCEPT ![d][id] = Unused] ELSE radio

Top == call[Len(call)]
Below == SubSeq(call, 1, Len(call) - 1)

\* The application runs, in its main loop or in a callback ...
AppCalls ==
    /\ Len(call) < MaxDepth /\ (call # <<>> => Top.then # "close_all")
    /\ budget.call > 0
    /\ budget' = [budget EXCEPT !.call = @ - 1]

\* ... and frees a socket.
AppFrees == AppCalls /\ (call = <<>> \/ FreeInCallback)

\* The callback for slot i, about socket `about'; client and id are those of a
\* new connection.
Callback(i, then, about, client, id) ==
    [then |-> then, dev |-> sock[i].dev, slot |-> i, client |-> client, id |-> id,
     about |-> about, to |-> sock[i].uid]
-----------------------------------------------------------------------------
(* Calls of the application.  A write that is refused (-EBUSY) returns before *)
(* the slot is written, with the frame id spent.                              *)

Refused(d) == AppCalls /\ TakeFrame(d) /\ UNCHANGED <<sock, call, radio, sending, rx>>

\* xbee_sock_create()
Create(d, protocol) ==
    /\ AppCalls /\ Available # {} /\ FreshUid # {}
    /\ LET i == FirstOf(Available)
           u == CHOOSE u \in FreshUid : TRUE
       IN  /\ sock' = [sock EXCEPT ![i] =
                         [Free EXCEPT !.type = "PENDING", !.dev = d, !.uid = u,
                            !.create_frame_id = NextFrame(d), !.protocol = protocol]]
           /\ \/ \E id \in FreeIds(d) :
                   /\ radio' = [radio EXCEPT ![d][id] =
                                  [uid |-> u, protocol |-> protocol, state |-> "open"]]
                   /\ Answer(d, FrameOf("create_resp", u, id, NextFrame(d), TRUE))
              \/ /\ Answer(d, FrameOf("create_resp", u, 0, NextFrame(d), FALSE))
                 /\ UNCHANGED radio
    /\ TakeFrame(d)
    /\ UNCHANGED <<call, sending>>

\* op goes out for slot i; a socket the module does not have is refused.
AttachSent(i, op, handler) ==
    LET d == sock[i].dev
        id == sock[i].socket_id
    IN  /\ AppCalls /\ Holds(i)
        /\ TakeFrame(d)
        /\ sock' = [sock EXCEPT ![i].type = "ATTACH", ![i].handler = handler]
        /\ IF id \in Ids /\ radio[d][id].uid # 0 /\ radio[d][id].state = "open"
           THEN radio' = [radio EXCEPT ![d][id].state = op] /\ UNCHANGED rx
           ELSE /\ Answer(d, FrameOf(IF op = "connecting" THEN "connect_resp" ELSE "listen_resp",
                                     sock[i].uid, id, NextFrame(d), FALSE))
                /\ UNCHANGED radio
        /\ UNCHANGED <<call, sending>>

\* Mutant: a socket that is attached can be attached again.
AttachAgain(i, op, handler) == InUse(i) /\ AttachSent(i, op, handler)

\* xbee_sock_connect(), xbee_sock_bind() and xbee_sock_listen()
Attach(i, op, handler) ==
    sock[i].type \in {"PENDING", "CREATED"} /\ AttachSent(i, op, handler)

Connect(i) == Attach(i, "connecting", "receive")
Bind(i) == sock[i].protocol = "UDP" /\ Attach(i, "opening", "receive_from")
Listen(i) == sock[i].protocol # "UDP" /\ Attach(i, "opening", "ipv4_client")

\* xbee_sock_send() and xbee_sock_sendto()
Send(i) ==
    LET d == sock[i].dev
    IN  /\ AppCalls /\ Holds(i) /\ sock[i].type \in {"CONNECT", "BIND"}
        /\ TakeFrame(d)
        /\ sock' = [sock EXCEPT ![i].tx_frame_id = NextFrame(d)]
        /\ sending' = [sending EXCEPT ![d] = @ \cup {[uid |-> sock[i].uid, frame |-> NextFrame(d)]}]
        /\ UNCHANGED <<call, radio, rx>>

\* xbee_sock_option(): without a callback no answer is asked for.
Option(i, callback) ==
    LET d == sock[i].dev
    IN  /\ AppCalls /\ Holds(i) /\ sock[i].type # "PENDING"
        /\ sock' = [sock EXCEPT ![i].option = callback]
        /\ IF callback
           THEN /\ TakeFrame(d)
                /\ Answer(d, FrameOf("option_resp", sock[i].uid, sock[i].socket_id,
                                     NextFrame(d), TRUE))
           ELSE UNCHANGED <<frameId, rx>>
        /\ UNCHANGED <<call, radio, sending>>

\* _sock_close() of slot i, once its Close frame is written: it is notified and
\* freed when the callback returns.
CloseWritten(i, stack) ==
    /\ radio' = Closed(sock[i].dev, sock[i].socket_id)
    /\ call' = Append(stack, Callback(i, "free", sock[i].uid, N, 0))
    /\ UNCHANGED <<sock, frameId, sending, rx>>

\* xbee_sock_close()
Close(i) == AppFrees /\ Holds(i) /\ CloseWritten(i, call)

\* xbee_sock_reset(): what becomes of its Close frame, it has freed the slots.
Reset(d) ==
    /\ AppFrees
    /\ sock' = [i \in Slots |-> IF sock[i].dev = d THEN Free ELSE sock[i]]
    /\ \/ radio' = [radio EXCEPT ![d] = [id \in Ids |-> Unused]]
       \/ UNCHANGED radio
    /\ UNCHANGED <<frameId, call, sending, rx>>

\* xbee_sock_close_all() starts at the first slot.
CloseAll(d) ==
    /\ AppFrees
    /\ call' = Append(call, [then |-> "close_all", dev |-> d, next |-> 0])
    /\ UNCHANGED <<sock, frameId, radio, sending, rx>>

\* It closes the next socket that was created; it returns after the last one, or
\* when a Close frame is not written.
CloseNext ==
    /\ call # <<>> /\ Top.then = "close_all"
    /\ LET open == {i \in Slots : /\ i >= Top.next
                                  /\ sock[i].type \notin {"AVAILABLE", "PENDING"}
                                  /\ Top.dev \in {NULL, sock[i].dev}}
           i == FirstOf(open)
       IN  \/ /\ call' = Below
              /\ UNCHANGED <<sock, frameId, radio, sending, rx, budget>>
           \/ /\ open # {} /\ sock[i].dev # NULL
              /\ CloseWritten(i, Append(Below, [Top EXCEPT !.next = i + 1]))
              /\ UNCHANGED budget
-----------------------------------------------------------------------------
(* Frame handlers *)

\* The slot a frame is handled for, or none: -ENOENT and -EPERM.
Target(d, f) ==
    LET first == {i \in Lookup(d, f.id) : \A j \in Lookup(d, f.id) : i <= j}
        pending == {i \in Slots : /\ sock[i].type = "PENDING" /\ sock[i].dev = d
                                  /\ sock[i].create_frame_id = f.frame}
        waiting == {i \in Slots : sock[i].dev = d /\ sock[i].tx_frame_id = f.frame}
        typed(type) == {i \in first : sock[i].type = type}
    IN  CASE f.kind = "create_resp" -> pending
          [] f.kind = "tx_status" -> waiting
          [] f.kind \in {"connect_resp", "listen_resp"} -> typed("ATTACH")
          [] f.kind = "receive" -> typed("CONNECT")
          [] f.kind = "receive_from" -> typed("BIND")
          [] f.kind = "ipv4_client" -> typed("LISTEN")
          [] f.kind = "option_resp" -> {i \in first : sock[i].option}
          [] OTHER -> first

\* Mutants: the slot of a socket that has ended is kept, the status of an attach
\* is not looked at, the slot of a failed create is kept.
AfterCallbackKeepsEnded(f) ==
    CASE f.kind = "create_resp" -> IF f.ok THEN "nothing" ELSE "free"
      [] f.kind = "connect_resp" -> IF f.ok THEN "CONNECT" ELSE "CREATED"
      [] f.kind = "listen_resp" -> IF f.ok THEN "attached" ELSE "CREATED"
      [] f.kind = "tx_status" -> "sent"
      [] OTHER -> "nothing"
AfterCallbackNoStatus(f) ==
    CASE f.kind = "create_resp" -> IF f.ok THEN "nothing" ELSE "free"
      [] f.kind = "connect_resp" -> "CONNECT"
      [] f.kind = "listen_resp" -> "attached"
      [] f.kind = "tx_status" -> "sent"
      [] f.kind = "state" -> IF f.ok THEN "nothing" ELSE "free"
      [] OTHER -> "nothing"
AfterCallbackKeepsFailed(f) ==
    IF f.kind = "create_resp" THEN "nothing" ELSE AfterCallbackNoStatus(f)

\* What the handler does to the slot when the callback has returned.
AfterCallback(f) ==
    CASE f.kind = "create_resp" -> IF f.ok THEN "nothing" ELSE "free"
      [] f.kind = "connect_resp" -> IF f.ok THEN "CONNECT" ELSE "CREATED"
      [] f.kind = "listen_resp" -> IF f.ok THEN "attached" ELSE "CREATED"
      [] f.kind = "tx_status" -> "sent"
      [] f.kind = "state" -> IF f.ok THEN "nothing" ELSE "free"
      [] OTHER -> "nothing"

\* The next frame of device d is f; xbee_dev_tick() is not entered again.
Receives(d, f) ==
    /\ call = <<>> /\ rx[d] # <<>> /\ f = Head(rx[d])
    /\ rx' = [rx EXCEPT ![d] = Tail(@)]
    /\ UNCHANGED <<frameId, radio, sending, budget>>

Unmatched(d, f) ==
    /\ Receives(d, f) /\ Target(d, f) = {}
    /\ UNCHANGED <<sock, call>>

\* handle_create_resp(), handle_attach_resp(), handle_tx_status(),
\* handle_option_resp(), handle_receive(), handle_receive_from() and
\* handle_sock_state() up to the callback.
Matched(d, f) ==
    /\ Receives(d, f) /\ Target(d, f) # {} /\ f.kind # "ipv4_client"
    /\ LET i == FirstOf(Target(d, f))
       IN  /\ sock' = IF f.kind = "create_resp" /\ f.ok
                      THEN [sock EXCEPT ![i].socket_id = f.id, ![i].type = "CREATED"]
                      ELSE sock
           /\ call' = <<Callback(i, AfterCallback(f), f.uid, N, 0)>>

\* handle_ipv4_client() up to the callback: the client has a slot if one is left.
ClientArrives(d, f) ==
    /\ Receives(d, f) /\ Target(d, f) # {} /\ f.kind = "ipv4_client"
    /\ LET l == FirstOf(Target(d, f))
           client == [Free EXCEPT !.type = "CONNECT", !.dev = d, !.socket_id = f.client,
                        !.protocol = sock[l].protocol, !.uid = f.clientUid,
                        !.create_frame_id = sock[l].create_frame_id]
           c == IF Available = {} THEN N ELSE FirstOf(Available)
       IN  /\ sock' = [i \in Slots |-> IF i = c THEN client ELSE sock[i]]
           /\ call' = <<Callback(l, "accept", f.uid, c, f.client)>>

\* The type of slot s after a LISTEN_RESP, from the protocol it has by then.
Attached(s) == IF s.protocol = "UDP" THEN "BIND" ELSE "LISTEN"

\* Slot s when the callback of a handler has returned.
Written(s, then) ==
    CASE then = "free" -> Free
      [] then = "sent" -> [s EXCEPT !.tx_frame_id = 0]
      [] then = "attached" -> [s EXCEPT !.type = Attached(s)]
      [] then \in {"CREATED", "CONNECT"} -> [s EXCEPT !.type = then]
      [] OTHER -> s

\* A callback returns, and its handler writes the slot it was called for, whatever
\* the slot holds by now.
CallbackReturns ==
    /\ call # <<>> /\ Top.then \notin {"close_all", "accept"}
    /\ sock' = [sock EXCEPT ![Top.slot] = Written(@, Top.then)]
    /\ call' = Below
    /\ UNCHANGED <<frameId, radio, sending, rx, budget>>

\* The callback of a client returns a handler for what it receives ...
ClientAccepted ==
    /\ call # <<>> /\ Top.then = "accept" /\ Top.client # N
    /\ sock' = [sock EXCEPT ![Top.client].handler = "receive"]
    /\ call' = Below
    /\ UNCHANGED <<frameId, radio, sending, rx, budget>>

\* ... or rejects it, or there was no slot: the module is asked to close it.
ClientRejected ==
    /\ call # <<>> /\ Top.then = "accept"
    /\ sock' = [i \in Slots |-> IF i = Top.client THEN Free ELSE sock[i]]
    /\ radio' = Closed(Top.dev, Top.id) \/ UNCHANGED radio
    /\ call' = Below
    /\ UNCHANGED <<frameId, sending, rx, budget>>
-----------------------------------------------------------------------------
(* The module *)

Event == budget.event > 0 /\ budget' = [budget EXCEPT !.event = @ - 1]

\* It answers a connect, bind or listen.
AnswersAttach(d, id, ok) ==
    LET r == radio[d][id]
        kind == IF r.state = "connecting" THEN "connect_resp" ELSE "listen_resp"
        done == IF r.state = "connecting" THEN "connected"
                ELSE IF r.protocol = "UDP" THEN "bound" ELSE "listening"
    IN  /\ r.uid # 0 /\ r.state \in {"connecting", "opening"}
        /\ radio' = [radio EXCEPT ![d][id].state = IF ok THEN done ELSE "open"]
        /\ Answer(d, FrameOf(kind, r.uid, id, 0, ok))
        /\ UNCHANGED <<sock, frameId, call, sending, budget>>

\* It reports on a payload, in any order.
Reports(d, s) ==
    /\ sending' = [sending EXCEPT ![d] = @ \ {s}]
    /\ Answer(d, FrameOf("tx_status", s.uid, 0, s.frame, TRUE))
    /\ UNCHANGED <<sock, frameId, call, radio, budget>>

\* Data, or word that the connection stands, for socket id.
Delivers(d, id) ==
    /\ Event
    /\ LET r == radio[d][id]
       IN  \/ /\ r.uid # 0 /\ r.state = "connected"
              /\ \E kind \in {"receive", "state"} : Answer(d, FrameOf(kind, r.uid, id, 0, TRUE))
           \/ /\ r.uid # 0 /\ r.state = "bound"
              /\ Answer(d, FrameOf("receive_from", r.uid, id, 0, TRUE))
    /\ UNCHANGED <<sock, frameId, call, radio, sending>>

\* A client connects to listener id: the module has a socket for it.
AcceptsClient(d, id) ==
    /\ Event
    /\ radio[d][id].uid # 0 /\ radio[d][id].state = "listening" /\ FreshUid # {}
    /\ \E c \in FreeIds(d) :
         LET u == CHOOSE u \in FreshUid : TRUE
         IN  /\ radio' = [radio EXCEPT ![d][c] =
                             [uid |-> u, protocol |-> radio[d][id].protocol, state |-> "connected"]]
             /\ Answer(d, [FrameOf("ipv4_client", radio[d][id].uid, id, 0, TRUE)
                             EXCEPT !.client = c, !.clientUid = u])
    /\ UNCHANGED <<sock, frameId, call, sending>>

\* A socket ends: "all values other than 0x00 (CONNECTED) are fatal, resulting in
\* a closed socket and invalidated socket_id".
Ends(d, id) ==
    /\ Event
    /\ radio[d][id].uid # 0 /\ radio[d][id].state # "open"
    /\ radio' = Closed(d, id)
    /\ Answer(d, FrameOf("state", radio[d][id].uid, id, 0, FALSE))
    /\ UNCHANGED <<sock, frameId, call, sending>>
-----------------------------------------------------------------------------

Init ==
    /\ sock = [i \in Slots |-> Free]
    /\ frameId = [d \in Dev |-> 0]
    /\ call = <<>>
    /\ radio = [d \in Dev |-> [id \in Ids |-> Unused]]
    /\ sending = [d \in Dev |-> {}]
    /\ rx = [d \in Dev |-> <<>>]
    /\ budget = [call |-> MaxCall, event |-> MaxEvent]

App ==
    \/ \E d \in Dev, protocol \in Protocol : Create(d, protocol)
    \/ \E d \in Dev : Reset(d) \/ Refused(d)
    \/ \E d \in Dev \cup {NULL} : CloseAll(d)
    \/ \E i \in Slots :
         \/ Connect(i) \/ Bind(i) \/ Listen(i) \/ Send(i) \/ Close(i)
         \/ \E callback \in BOOLEAN : Option(i, callback)

Handle(d, f) == Unmatched(d, f) \/ Matched(d, f) \/ ClientArrives(d, f)

Returns == CallbackReturns \/ ClientAccepted \/ ClientRejected

Module ==
    \E d \in Dev :
      \/ \E id \in Ids : \/ \E ok \in BOOLEAN : AnswersAttach(d, id, ok)
                         \/ Delivers(d, id) \/ AcceptsClient(d, id) \/ Ends(d, id)
      \/ \E s \in sending[d] : Reports(d, s)

Next == \/ App \/ CloseNext \/ Returns \/ Module
        \/ \E d \in Dev : rx[d] # <<>> /\ Handle(d, Head(rx[d]))

Spec == Init /\ [][Next]_vars
-----------------------------------------------------------------------------
(* Fairness: the main loop polls, the module answers, callbacks return. *)

Fairness ==
    /\ \A d \in Dev : WF_vars(rx[d] # <<>> /\ Handle(d, Head(rx[d])))
    /\ \A d \in Dev, id \in Ids : WF_vars(\E ok \in BOOLEAN : AnswersAttach(d, id, ok))
    /\ WF_vars(CloseNext)
    /\ SF_vars(Returns)

FairSpec == Spec /\ Fairness
-----------------------------------------------------------------------------
(* Properties *)

TypeOK ==
    /\ sock \in [Slots -> Socket]
    /\ frameId \in [Dev -> 0 .. FrameMax]
    /\ call \in Seq(CallbackCall \cup CloseAllCall)
    /\ radio \in [Dev -> [Ids -> Radio]]
    /\ sending \in [Dev -> SUBSET [uid : Mark, frame : 1 .. FrameMax]]
    /\ rx \in [Dev -> Seq(Frame)]
    /\ budget \in [call : 0 .. MaxCall, event : 0 .. MaxEvent]

\* The socket the application is told about is the socket the frame is about:
\* never one that has taken its slot, its socket id or its frame id since.
OwnerNotified ==
    \A k \in 1 .. Len(call) : call[k].then # "close_all" => call[k].to = call[k].about

\* The state machine in the comment above socket_t, with the clients that
\* handle_ipv4_client() adds.
Moves ==
    {<<"AVAILABLE", "PENDING">>, <<"PENDING", "CREATED">>, <<"CREATED", "ATTACH">>,
     <<"ATTACH", "CREATED">>, <<"ATTACH", "CONNECT">>, <<"ATTACH", "BIND">>,
     <<"ATTACH", "LISTEN">>, <<"AVAILABLE", "CONNECT">>}
    \cup {<<t, t>> : t \in Type} \cup {<<t, "AVAILABLE">> : t \in Type}

LifeCycle == [][\A i \in Slots : <<sock[i].type, sock'[i].type>> \in Moves]_vars

\* The module has ended the socket and its word is on the way.
Ended(i) ==
    \E k \in 1 .. Len(rx[sock[i].dev]) :
      LET f == rx[sock[i].dev][k] IN f.uid = sock[i].uid /\ f.kind = "state" /\ ~f.ok

OnTheWay(i, kinds) ==
    \E k \in 1 .. Len(rx[sock[i].dev]) :
      LET f == rx[sock[i].dev][k] IN f.uid = sock[i].uid /\ f.kind \in kinds

Agrees(i) ==
    LET s == sock[i]
        r == radio[s.dev][s.socket_id]
        has(states) == s.socket_id \in Ids /\ r.uid = s.uid /\ r.state \in states
    IN  CASE s.type = "PENDING" -> OnTheWay(i, {"create_resp"})
          [] s.type = "CREATED" -> has({"open"})
          [] s.type = "ATTACH" -> \/ has({"connecting", "opening"})
                                  \/ OnTheWay(i, {"connect_resp", "listen_resp"})
          [] s.type = "CONNECT" -> has({"connected"})
          [] s.type = "BIND" -> has({"bound"})
          [] s.type = "LISTEN" -> has({"listening"})

\* Host and module agree on every socket, or the frame that will make them agree
\* is on the way: no socket waits for an answer that will not come, and none is
\* used that the module has not in that state.
HostAgrees == call = <<>> => \A i \in Slots : InUse(i) => Agrees(i) \/ Ended(i)

\* A socket does not stay between two states.
Settles == \A i \in Slots : sock[i].type \in {"PENDING", "ATTACH"}
                            ~> sock[i].type \notin {"PENDING", "ATTACH"}
=============================================================================
