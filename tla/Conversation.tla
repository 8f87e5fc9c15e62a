----------------------------- MODULE Conversation -----------------------------
(***************************************************************************)
(* Conversations: the requests of an endpoint that wait for an answer      *)
(* (src/wpan/wpan_aps.c), with the requests of the ZigBee Device Object    *)
(* (src/zigbee/zigbee_zdo.c) and of the ZCL client (zcl_client.c) that     *)
(* use them.                                                               *)
(*                                                                         *)
(* Each endpoint has a small table.  A conversation holds the transaction  *)
(* id that was sent with the request, the second it expires in and the     *)
(* handler that is called with the answer, or with none when it expires.   *)
(* A handler of the application may make requests and delete its own       *)
(* conversation; `call' is the handler that runs.                          *)
(*                                                                         *)
(* The peers are the environment: any request may be answered at any time, *)
(* as often as they like, or never.  `asked' and `issued' are history: the *)
(* program has neither.                                                    *)
(***************************************************************************)
EXTENDS Integers, Sequences, FiniteSets

CONSTANTS
    Endpoints,      \* number of endpoints in the table of the device; 1 is the ZDO
    Slots,          \* WPAN_MAX_CONVERSATIONS (3)
    Ids,            \* transaction ids are 0 .. Ids - 1 (256 of them)
    Half,           \* half the range of the seconds counter (32768)
    ZdoWait,        \* ZDO_CONVERSATION_TIMEOUT (15 s)
    MatchWait,      \* timeout of a Match Descriptor request (60 s)
    Wait,           \* timeouts of the application's own conversations, 0 for none
    Rebirth,        \* handlers make requests after they deleted their conversation
    MaxGap,         \* bound: seconds between two ticks
    MaxRequest,     \* bound: conversations
    MaxIssue        \* bound: transaction ids an endpoint gives out

ASSUME ConvAssumption ==
    /\ {Endpoints, Slots, Ids, Half} \subseteq Nat \ {0}
    /\ {ZdoWait, MatchWait} \subseteq 1 .. Half - 1
    /\ Wait \subseteq 0 .. Half - 1
    /\ Rebirth \in BOOLEAN
    /\ {MaxGap, MaxRequest, MaxIssue} \subseteq Nat

VARIABLES
    now,        \* (uint16_t) xbee_seconds_timer()
    idle,       \* seconds since the last tick
    last,       \* last_transaction of each endpoint
    slot,       \* conversations of each endpoint
    call,       \* the handler that runs
    asked,      \* history: the conversations, in the order they were opened
    issued      \* history: how many ids each endpoint has given out

vars == <<now, idle, last, slot, call, asked, issued>>

Endpoint == 1 .. Endpoints
ZDO == 1
Slot == 1 .. Slots
Wrap == 2 * Half
Handler == {"address", "match", "custom"}

\* wpan_conversation_t; `context' says which request it is.
Conversation ==
    [transaction_id : 0 .. Ids - 1, timeout : 0 .. Wrap - 1,
     handler : {"NULL"} \cup Handler, context : Nat]
Free == [transaction_id |-> 0, timeout |-> 0, handler |-> "NULL", context |-> 0]

\* One conversation: where and with what it was opened, the second of its life
\* it is in, and the variable its answer is stored in (*net, *ieee_be).
Asked ==
    [ep : Endpoint, handler : Handler, id : 0 .. Ids - 1, number : Nat, wait : Nat,
     age : Nat, result : {"none", "pending", "value", "error", "timeout"}]

Request == 1 .. MaxRequest

NoCall == [what |-> "none", ep |-> 1, slot |-> 1, of |-> 0, answers |-> 0,
           last |-> FALSE, deleted |-> FALSE]
Call ==
    [what : {"answer", "timeout"}, ep : Endpoint, slot : Slot, of : Nat,
     answers : Nat, last : BOOLEAN, deleted : BOOLEAN]

InUse(c) == c.handler # "NULL"
Open(r) == \E e \in Endpoint, i \in Slot : InUse(slot[e][i]) /\ slot[e][i].context = r

TypeOK ==
    /\ now \in 0 .. Wrap - 1
    /\ idle \in 0 .. MaxGap
    /\ last \in [Endpoint -> 0 .. Ids - 1]
    /\ slot \in [Endpoint -> [Slot -> Conversation]]
    /\ call \in Call \cup {NoCall}
    /\ asked \in Seq(Asked) /\ Len(asked) <= MaxRequest
    /\ issued \in [Endpoint -> 0 .. MaxIssue]

-----------------------------------------------------------------------------
Init ==
    /\ now \in 0 .. Wrap - 1
    /\ idle = 0
    /\ last = [e \in Endpoint |-> 0]
    /\ slot = [e \in Endpoint |-> [i \in Slot |-> Free]]
    /\ call = NoCall
    /\ asked = <<>>
    /\ issued = [e \in Endpoint |-> 0]

NextId(id) == (id + 1) % Ids

\* The second a conversation expires in; 0 says never, so 1 stands for it.
DeadlineUnmapped(wait) == IF wait = 0 THEN 0 ELSE (now + wait) % Wrap
Deadline(wait) ==
    LET t == (now + wait) % Wrap
    IN  IF wait = 0 THEN 0 ELSE IF t = 0 THEN 1 ELSE t

\* (int16_t) (now - timeout) >= 0
ExpiredUnsigned(c) == InUse(c) /\ c.timeout # 0 /\ now >= c.timeout
Expired(c) == InUse(c) /\ c.timeout # 0 /\ (now - c.timeout) % Wrap < Half

\* The slot a new conversation takes: the first one that is free.
TakesFirst(e, i) == i = 1
Takes(e, i) == ~InUse(slot[e][i]) /\ \A j \in 1 .. i - 1 : InUse(slot[e][j])

\* The conversation an answer goes to: the first one that is open under its id.
AnyOpen(e, i, id) == InUse(slot[e][i]) /\ \A j \in 1 .. i - 1 : ~InUse(slot[e][j])
Named(e, i, id) == InUse(slot[e][i]) /\ slot[e][i].transaction_id = id
Answers(e, i, id) == Named(e, i, id) /\ \A j \in 1 .. i - 1 : ~Named(e, j, id)

-----------------------------------------------------------------------------
\* The application runs: in its main loop, or in the handler of a conversation
\* of its own.
Running ==
    \/ call.what = "none"
    \/ /\ call.what # "none" /\ asked[call.of].handler = "custom"
       /\ call.deleted => Rebirth

\* An id is taken for a request that expects no answer: wpan_endpoint_next_trans(),
\* wpan_conversation_register() without a handler.
Issue(e) ==
    /\ issued[e] < MaxIssue
    /\ last' = [last EXCEPT ![e] = NextId(@)]
    /\ issued' = [issued EXCEPT ![e] = @ + 1]

NextTrans(e) ==
    /\ Running
    /\ Issue(e)
    /\ UNCHANGED <<now, idle, slot, call, asked>>

\* wpan_conversation_register(): on a full table the request is refused and
\* nothing is changed.  Whether the request is then sent makes no difference to
\* the table: the conversation stays open when wpan_envelope_send() fails.
Register(e, handler, wait, result) ==
    /\ Running
    /\ Len(asked) < MaxRequest
    /\ Issue(e)
    /\ \E i \in Slot :
          /\ Takes(e, i)
          /\ slot' = [slot EXCEPT ![e][i] =
                [transaction_id |-> NextId(last[e]), timeout |-> Deadline(wait),
                 handler |-> handler, context |-> Len(asked) + 1]]
    /\ asked' = Append(asked,
          [ep |-> e, handler |-> handler, id |-> NextId(last[e]),
           number |-> issued[e] + 1, wait |-> wait, age |-> 0, result |-> result])
    /\ UNCHANGED <<now, idle, call>>

\* zdo_send_nwk_addr_req() and zdo_send_ieee_addr_req(): the variable for the
\* answer says so while it is awaited.
AskAddress == Register(ZDO, "address", ZdoWait, "pending")

\* zdo_send_match_desc(), as zcl_find_and_read_attributes() calls it
AskMatch == Register(ZDO, "match", MatchWait, "none")

\* zdo_simple_desc_request(), zdo_send_bind_req() and zdo_send_descriptor_req()
\* with a callback, and conversations the application registers itself
AskCustom ==
    \/ Register(ZDO, "custom", ZdoWait, "none")
    \/ \E e \in Endpoint \ {ZDO}, wait \in Wait : Register(e, "custom", wait, "none")

-----------------------------------------------------------------------------
\* The call of the handler of a conversation.
CallOf(what, e, i, answers, verdict) ==
    [what |-> what, ep |-> e, slot |-> i, of |-> slot[e][i].context,
     answers |-> answers, last |-> verdict, deleted |-> FALSE]

\* What a handler returns to an answer: _zdo_process_nwk_addr_resp() and
\* _zdo_process_ieee_addr_resp() WPAN_CONVERSATION_END, the handler of a Match
\* Descriptor request WPAN_CONVERSATION_CONTINUE.
Verdicts(handler) ==
    CASE handler = "address" -> {TRUE}
      [] handler = "match" -> {FALSE}
      [] handler = "custom" -> BOOLEAN

\* wpan_conversation_response(): an answer to request r comes in, through
\* zdo_handler() or zcl_general_command().  An answer that finds no conversation
\* is dropped, or rejected with a ZCL Default Response.
Respond(r) ==
    /\ call.what = "none"
    /\ \E e \in {asked[r].ep} : \E i \in Slot :
          /\ Answers(e, i, asked[r].id)
          /\ \E verdict \in Verdicts(slot[e][i].handler) :
                call' = CallOf("answer", e, i, r, verdict)
    /\ UNCHANGED <<now, idle, last, slot, asked, issued>>

\* wpan_conversation_delete()
Deleted(e, i) == [slot EXCEPT ![e][i] = Free]

\* A handler deletes its own conversation.
DeleteOwn ==
    /\ call.what # "none" /\ ~call.deleted
    /\ asked[call.of].handler = "custom"
    /\ slot' = Deleted(call.ep, call.slot)
    /\ call' = [call EXCEPT !.deleted = TRUE]
    /\ UNCHANGED <<now, idle, last, asked, issued>>

\* The two address handlers store what they were given.
Store(result) == asked' = [asked EXCEPT ![call.of].result = result]

\* The handler returns; WPAN_CONVERSATION_END deletes what its slot holds.
AfterAnswer == IF call.last THEN Deleted(call.ep, call.slot) ELSE slot

ReturnAnswer ==
    /\ call.what = "answer"
    /\ IF asked[call.of].handler = "address"
       THEN Store("value") \/ Store("error") ELSE UNCHANGED asked
    /\ \* _zcl_send_read_from_zdo_match() reads the attributes of the device it found
       \/ asked[call.of].handler = "match" /\ \E e \in Endpoint \ {ZDO} : Issue(e)
       \/ UNCHANGED <<last, issued>>
    /\ slot' = AfterAnswer
    /\ call' = NoCall
    /\ UNCHANGED <<now, idle>>

-----------------------------------------------------------------------------
\* wpan_tick() goes through the endpoints, and
\* _wpan_endpoint_expire_conversations() through the table of each, in order.
Before(d, i, e, j) == d < e \/ (d = e /\ i < j)

\* Conversation i of endpoint e is the first in `table' that has expired, after
\* the one given.
NextExpired(table, e, i, afterEp, afterSlot) ==
    /\ Before(afterEp, afterSlot, e, i)
    /\ Expired(table[e][i])
    /\ \A d \in Endpoint, j \in Slot :
          Before(afterEp, afterSlot, d, j) /\ Before(d, j, e, i) => ~Expired(table[d][j])

NoneExpired(table, afterEp, afterSlot) ==
    \A e \in Endpoint, i \in Slot : Before(afterEp, afterSlot, e, i) => ~Expired(table[e][i])

\* The tick looks on: at the next conversation that has expired, or at no more.
LookOn(table, afterEp, afterSlot) ==
    \/ /\ NoneExpired(table, afterEp, afterSlot)
       /\ call' = NoCall /\ idle' = 0
    \/ /\ \E e \in Endpoint, i \in Slot :
             /\ NextExpired(table, e, i, afterEp, afterSlot)
             /\ call' = [CallOf("timeout", e, i, 0, TRUE) EXCEPT !.of = table[e][i].context]
       /\ UNCHANGED idle

Tick ==
    /\ call.what = "none"
    /\ LookOn(slot, 0, 0)
    /\ UNCHANGED <<now, last, slot, asked, issued>>

\* The handler has returned, and the tick deletes the conversation.
AfterTimeoutKeeps == IF asked[call.of].handler = "address" THEN slot ELSE Deleted(call.ep, call.slot)
AfterTimeout == Deleted(call.ep, call.slot)

ReturnTimeout ==
    /\ call.what = "timeout"
    /\ IF asked[call.of].handler = "address" THEN Store("timeout") ELSE UNCHANGED asked
    /\ slot' = AfterTimeout
    /\ LookOn(AfterTimeout, call.ep, call.slot)
    /\ UNCHANGED <<now, last, issued>>

Second ==
    /\ call.what = "none"
    /\ idle < MaxGap
    /\ now' = (now + 1) % Wrap
    /\ idle' = idle + 1
    /\ asked' = [r \in DOMAIN asked |->
          IF Open(r) /\ asked[r].age < asked[r].wait
          THEN [asked[r] EXCEPT !.age = @ + 1] ELSE asked[r]]
    /\ UNCHANGED <<last, slot, call, issued>>

Next ==
    \/ \E e \in Endpoint : NextTrans(e)
    \/ AskAddress \/ AskMatch \/ AskCustom
    \/ \E r \in DOMAIN asked : Respond(r)
    \/ DeleteOwn \/ ReturnAnswer \/ ReturnTimeout
    \/ Tick
    \/ Second

Spec == Init /\ [][Next]_vars

\* Time passes, and handlers return.  A main loop calls wpan_tick() in every round,
\* after the frames that came in were dispatched: answers that keep coming do not
\* keep it from the tick, hence SF.
FairSpec ==
    Spec /\ SF_vars(Second) /\ SF_vars(Tick) /\ WF_vars(ReturnAnswer \/ ReturnTimeout)

-----------------------------------------------------------------------------
\* The endpoint keeps its promise to every handler (Exchange): no conversation
\* is overwritten by a new one, ended by the handler of another one, called after
\* its end or forgotten.
ExchangeCall ==
    IF call.what = "none" THEN NoCall
    ELSE [of |-> call.of, what |-> call.what, last |-> call.last]

ExchangeLife ==
    [r \in Request |->
        IF r > Len(asked) THEN "new" ELSE IF Open(r) THEN "open" ELSE "closed"]

Promise == INSTANCE Exchange WITH
    Request <- Request, None <- NoCall, life <- ExchangeLife, call <- ExchangeCall

Implements == Promise!Spec

\* An answer is handed to the handler of another request only when one of the two
\* requests is Ids or more requests old, so that their transaction ids are the same.
OwnAnswer ==
    call.what = "answer" =>
        \/ call.answers = call.of
        \/ issued[call.ep] - asked[call.answers].number >= Ids
        \/ issued[call.ep] - asked[call.of].number >= Ids

\* No conversation is told of a timeout before it has lasted as long as it was
\* to last, wherever the seconds counter wraps.
NeverEarly ==
    call.what = "timeout" =>
        asked[call.of].wait # 0 /\ asked[call.of].age >= asked[call.of].wait

\* The variable an address is looked up into says "pending" exactly while the
\* conversation is open, so that a caller who waits for it, as zdo.h has it, does
\* not wait for an answer that can no longer come.
LookupAwaited ==
    \A r \in DOMAIN asked :
        asked[r].handler = "address" => (asked[r].result = "pending" <=> Open(r))

\* Every conversation with a timeout ends: answered, deleted or expired.
Settles ==
    \A r \in Request :
        (r <= Len(asked) /\ asked[r].wait # 0 /\ Open(r)) ~> (r <= Len(asked) /\ ~Open(r))
=============================================================================
