----------------------------- MODULE SocketProofs -----------------------------
(* Theorems about Socket, for every value of its constants. *)
EXTENDS Socket, FiniteSetTheorems, SequenceTheorems, TLAPS

Activation == CallbackCall \cup CloseAllCall
-----------------------------------------------------------------------------
(* Lemmas about the operators of the module. *)

\* A non-empty set of slots has a first one: the loops over the tables that stop
\* at the first match (CHOOSE in the models) stop at a slot of the set.
LEMMA LeastSlot ==
    ASSUME NEW S \in SUBSET Nat, S # {}
    PROVE  /\ (CHOOSE i \in S : \A j \in S : i <= j) \in S
           /\ \A k \in S : (CHOOSE i \in S : \A j \in S : i <= j) <= k
<1> DEFINE T == {0 .. i : i \in S}
           R == StrictSubsetOrdering(Nat)
<1>1. T \subseteq FiniteSubsetsOf(Nat) /\ T # {}
  <2>1. \A i \in S : 0 .. i \subseteq Nat /\ IsFiniteSet(0 .. i)
    BY FS_Interval
  <2> QED
    BY <2>1 DEF FiniteSubsetsOf
<1>2. PICK x \in T : \A y \in T : <<y, x>> \notin R
  <2>1. IsWellFoundedOn(R, FiniteSubsetsOf(Nat))
    BY FS_StrictSubsetOrderingWellFounded
  <2>2. IsWellFoundedOn(R, T)
    BY <1>1, <2>1, IsWellFoundedOnSubset
  <2> QED
    BY <1>1, <2>2, WFMin
<1>3. PICK i \in S : x = 0 .. i
  BY <1>2
<1>4. ASSUME NEW j \in S PROVE i <= j
  <2>1. SUFFICES ASSUME j < i PROVE FALSE
    OBVIOUS
  <2>2. 0 .. j \subseteq 0 .. i /\ i \in 0 .. i /\ i \notin 0 .. j
    BY <2>1
  <2>3. <<0 .. j, 0 .. i>> \in R
    BY <2>2 DEF StrictSubsetOrdering
  <2> QED
    BY <1>2, <1>3, <2>3
<1> QED
  BY <1>4

\* A stack without its top is a stack, and what is left is in place.
LEMMA StackPop ==
    ASSUME NEW S, NEW seq \in Seq(S), seq # <<>>
    PROVE  /\ Len(seq) \in Nat \ {0}
           /\ seq[Len(seq)] \in S
           /\ SubSeq(seq, 1, Len(seq) - 1) \in Seq(S)
           /\ Len(SubSeq(seq, 1, Len(seq) - 1)) = Len(seq) - 1
           /\ \A k \in 1 .. Len(seq) - 1 : SubSeq(seq, 1, Len(seq) - 1)[k] = seq[k]
<1> DEFINE n == Len(seq)
           b == SubSeq(seq, 1, n - 1)
<1>1. n \in Nat \ {0} /\ \A k \in 1 .. n : seq[k] \in S
  BY EmptySeq, LenProperties, ElementOfSeq
<1>2. /\ b \in Seq(S)
      /\ Len(b) = IF 1 <= n - 1 THEN n - 1 - 1 + 1 ELSE 0
      /\ \A k \in 1 .. n - 1 - 1 + 1 : b[k] = seq[1 + k - 1]
  <2>1. \A k \in 1 .. n - 1 : seq[k] \in S
    BY <1>1
  <2>2. n - 1 \in Int
    BY <1>1
  <2> HIDE DEF n
  <2> QED
    BY <2>1, <2>2, SubSeqProperties
<1> HIDE DEF n, b
<1>3. Len(b) = n - 1
  BY <1>1, <1>2
<1>4. ASSUME NEW k \in 1 .. n - 1 PROVE b[k] = seq[k]
  <2>1. k \in 1 .. n - 1 - 1 + 1 /\ 1 + k - 1 = k
    BY <1>1
  <2> QED
    BY <1>2, <2>1
<1> QED
  BY <1>1, <1>2, <1>3, <1>4 DEF n, b

\* The loops over the table stop at one of the slots they look for.
LEMMA FirstSlot ==
    ASSUME NEW S \in SUBSET Slots, S # {}
    PROVE  FirstOf(S) \in S
<1>1. S \in SUBSET Nat
  BY SockAssumption DEF Slots
<1> QED
  BY <1>1, LeastSlot DEF FirstOf

\* A handler finds a slot in use by the device that sent the frame.
LEMMA TargetSlots ==
    ASSUME TypeOK, NEW d \in Dev, NEW f \in Frame
    PROVE  /\ Target(d, f) \in SUBSET Slots
           /\ \A i \in Target(d, f) : sock[i].dev = d
<1> QED
  BY DEF Target, Lookup

\* The frame id of a request.
LEMMA NextFrameType ==
    ASSUME TypeOK, NEW d \in Dev
    PROVE  NextFrame(d) \in 1 .. FrameMax
<1>1. frameId[d] \in 0 .. FrameMax /\ FrameMax \in Nat \ {0}
  BY SockAssumption DEF TypeOK
<1> QED
  BY <1>1 DEF NextFrame

LEMMA FrameType ==
    ASSUME NEW kind \in {"create_resp", "connect_resp", "listen_resp", "option_resp",
                         "tx_status", "receive", "receive_from", "state"},
           NEW uid \in Mark, NEW id \in {0} \cup Ids, NEW frame \in 0 .. FrameMax,
           NEW ok \in BOOLEAN
    PROVE  FrameOf(kind, uid, id, frame, ok) \in Frame
<1> QED
  BY DEF FrameOf, Frame, Mark

\* An answer is queued behind what the module sent before.
LEMMA AnswerType ==
    ASSUME TypeOK, NEW d \in Dev, NEW f \in Frame, Answer(d, f)
    PROVE  rx' \in [Dev -> Seq(Frame)]
<1>1. rx \in [Dev -> Seq(Frame)] /\ rx' = [rx EXCEPT ![d] = Append(@, f)]
  BY DEF TypeOK, Answer
<1>2. Append(rx[d], f) \in Seq(Frame)
  BY <1>1, AppendProperties
<1> QED
  BY <1>1, <1>2

LEMMA ClosedType ==
    ASSUME TypeOK, NEW d \in Dev, NEW id
    PROVE  Closed(d, id) \in [Dev -> [Ids -> Radio]]
<1>1. Unused \in Radio
  BY DEF Unused, Radio, Mark
<1> QED
  BY <1>1 DEF TypeOK, Closed

\* A callback is called for a slot in use.
LEMMA CallbackType ==
    ASSUME TypeOK, NEW i \in Slots, sock[i].dev \in Dev,
           NEW then \in {"nothing", "free", "CREATED", "CONNECT", "attached", "sent", "accept"},
           NEW about \in Mark, NEW client \in Slots \cup {N}, NEW id \in {0} \cup Ids
    PROVE  Callback(i, then, about, client, id) \in CallbackCall
<1>1. sock[i].uid \in Mark
  BY DEF TypeOK, Socket
<1> QED
  BY <1>1 DEF Callback, CallbackCall

LEMMA FreeType == Free \in Socket
<1> QED
  BY SockAssumption DEF Free, Socket, Type, Handler, Mark

LEMMA PushType ==
    ASSUME NEW stack \in Seq(Activation), NEW a \in Activation
    PROVE  Append(stack, a) \in Seq(Activation)
<1> QED
  BY AppendProperties

LEMMA PopType ==
    ASSUME TypeOK, call # <<>>
    PROVE  Below \in Seq(Activation) /\ Top \in Activation
<1>1. call \in Seq(Activation)
  BY DEF TypeOK, Activation
<1> QED
  BY <1>1, StackPop DEF Below, Top

\* What a handler leaves in a slot is a slot.
LEMMA WrittenType ==
    ASSUME NEW s \in Socket, NEW then
    PROVE  Written(s, then) \in Socket
<1>1. Attached(s) \in Type
  BY DEF Attached, Type
<1>2. [s EXCEPT !.type = Attached(s)] \in Socket
  BY <1>1 DEF Socket
<1>3. then \in {"CREATED", "CONNECT"} => [s EXCEPT !.type = then] \in Socket
  BY DEF Socket, Type
<1>4. [s EXCEPT !.tx_frame_id = 0] \in Socket
  BY SockAssumption DEF Socket
<1> QED
  BY <1>2, <1>3, <1>4, FreeType DEF Written
-----------------------------------------------------------------------------
(* Type correctness. *)

LEMMA InitType == Init => TypeOK
<1> SUFFICES ASSUME Init PROVE TypeOK
  OBVIOUS
<1>1. Unused \in Radio
  BY DEF Unused, Radio, Mark
<1>2. <<>> \in Seq(CallbackCall \cup CloseAllCall) /\ <<>> \in Seq(Frame)
  BY EmptySeq
<1>3. FrameMax \in Nat /\ MaxCall \in Nat /\ MaxEvent \in Nat
  BY SockAssumption
<1> QED
  BY <1>1, <1>2, <1>3, FreeType DEF Init, TypeOK

\* Calls of the application that take a frame id.
LEMMA TakeFrameType ==
    ASSUME TypeOK, NEW d \in Dev, TakeFrame(d)
    PROVE  frameId' \in [Dev -> 0 .. FrameMax]
<1> QED
  BY NextFrameType DEF TypeOK, TakeFrame

LEMMA AppCallsType ==
    ASSUME TypeOK, AppCalls
    PROVE  budget' \in [call : 0 .. MaxCall, event : 0 .. MaxEvent]
<1>1. MaxCall \in Nat /\ budget.call \in 0 .. MaxCall /\ budget.call > 0
  BY SockAssumption DEF TypeOK, AppCalls
<1>2. budget.call - 1 \in 0 .. MaxCall
  BY <1>1
<1> QED
  BY <1>2 DEF TypeOK, AppCalls

LEMMA EventType ==
    ASSUME TypeOK, Event
    PROVE  budget' \in [call : 0 .. MaxCall, event : 0 .. MaxEvent]
<1>1. MaxEvent \in Nat /\ budget.event \in 0 .. MaxEvent /\ budget.event > 0
  BY SockAssumption DEF TypeOK, Event
<1>2. budget.event - 1 \in 0 .. MaxEvent
  BY <1>1
<1> QED
  BY <1>2 DEF TypeOK, Event

\* A number for a new socket.
LEMMA FreshUidType ==
    ASSUME FreshUid # {}
    PROVE  (CHOOSE u \in FreshUid : TRUE) \in Uid
<1> QED
  BY DEF FreshUid

LEMMA CreateType ==
    ASSUME TypeOK, NEW d \in Dev, NEW protocol \in Protocol, Create(d, protocol)
    PROVE  TypeOK'
<1> DEFINE i == FirstOf(Available)
           u == CHOOSE u \in FreshUid : TRUE
           s == [Free EXCEPT !.type = "PENDING", !.dev = d, !.uid = u,
                   !.create_frame_id = NextFrame(d), !.protocol = protocol]
<1>1. i \in Slots
  BY FirstSlot DEF Create, Available
<1>2. u \in Uid /\ u \in Mark
  BY FreshUidType DEF Create, Mark
<1>3. NextFrame(d) \in 0 .. FrameMax /\ protocol \in {"UDP", "TCP"}
  BY NextFrameType, SockAssumption
<1>4. s \in Socket
  BY <1>2, <1>3, FreeType DEF Socket, Type
<1>5. sock' \in [Slots -> Socket]
  <2>1. sock' = [sock EXCEPT ![i] = s]
    BY DEF Create
  <2> HIDE DEF i, s
  <2> QED
    BY <1>1, <1>4, <2>1 DEF TypeOK
<1>6. /\ radio' \in [Dev -> [Ids -> Radio]]
      /\ rx' \in [Dev -> Seq(Frame)]
  <2> HIDE DEF u
  <2>1. CASE \E id \in FreeIds(d) :
               /\ radio' = [radio EXCEPT ![d][id] =
                              [uid |-> u, protocol |-> protocol, state |-> "open"]]
               /\ Answer(d, FrameOf("create_resp", u, id, NextFrame(d), TRUE))
    <3>1. PICK id \in FreeIds(d) :
               /\ radio' = [radio EXCEPT ![d][id] =
                              [uid |-> u, protocol |-> protocol, state |-> "open"]]
               /\ Answer(d, FrameOf("create_resp", u, id, NextFrame(d), TRUE))
      BY <2>1
    <3>2. id \in Ids /\ [uid |-> u, protocol |-> protocol, state |-> "open"] \in Radio
      BY <1>2, <1>3 DEF FreeIds, Radio
    <3>3. FrameOf("create_resp", u, id, NextFrame(d), TRUE) \in Frame
      BY <1>2, <1>3, <3>2, FrameType
    <3> QED
      BY <3>1, <3>2, <3>3, AnswerType DEF TypeOK
  <2>2. CASE /\ Answer(d, FrameOf("create_resp", u, 0, NextFrame(d), FALSE))
             /\ UNCHANGED radio
    <3>1. FrameOf("create_resp", u, 0, NextFrame(d), FALSE) \in Frame
      BY <1>2, <1>3, FrameType
    <3> QED
      BY <2>2, <3>1, AnswerType DEF TypeOK
  <2> QED
    BY <2>1, <2>2 DEF Create, u
<1>7. frameId' \in [Dev -> 0 .. FrameMax]
  BY TakeFrameType DEF Create
<1>8. budget' \in [call : 0 .. MaxCall, event : 0 .. MaxEvent]
  BY AppCallsType DEF Create
<1> QED
  BY <1>5, <1>6, <1>7, <1>8 DEF TypeOK, Create

LEMMA AttachType ==
    ASSUME TypeOK, NEW i \in Slots, NEW op \in {"connecting", "opening"},
           NEW handler \in Handler, Attach(i, op, handler)
    PROVE  TypeOK'
<1> DEFINE d == sock[i].dev
           id == sock[i].socket_id
<1>1. sock[i] \in Socket /\ d \in Dev
  BY DEF TypeOK, Attach, AttachSent, Holds, Socket
<1>2. sock' \in [Slots -> Socket]
  BY <1>1 DEF TypeOK, Attach, AttachSent, Socket, Type
<1>3. NextFrame(d) \in 0 .. FrameMax
  BY <1>1, NextFrameType
<1>4. /\ radio' \in [Dev -> [Ids -> Radio]]
      /\ rx' \in [Dev -> Seq(Frame)]
  <2>1. CASE id \in Ids /\ radio' = [radio EXCEPT ![d][id].state = op] /\ UNCHANGED rx
    <3>1. radio[d] \in [Ids -> Radio] /\ radio[d][id] \in Radio
      BY <1>1, <2>1 DEF TypeOK
    <3>2. [radio[d][id] EXCEPT !.state = op] \in Radio
      BY <3>1 DEF Radio
    <3>3. [radio[d] EXCEPT ![id] = [radio[d][id] EXCEPT !.state = op]] \in [Ids -> Radio]
      BY <3>1, <3>2
    <3> QED
      BY <1>1, <2>1, <3>3 DEF TypeOK
  <2>2. CASE /\ Answer(d, FrameOf(IF op = "connecting" THEN "connect_resp" ELSE "listen_resp",
                                  sock[i].uid, id, NextFrame(d), FALSE))
             /\ UNCHANGED radio
    <3>1. FrameOf(IF op = "connecting" THEN "connect_resp" ELSE "listen_resp",
                  sock[i].uid, id, NextFrame(d), FALSE) \in Frame
      BY <1>1, <1>3, FrameType DEF Socket
    <3> QED
      BY <1>1, <2>2, <3>1, AnswerType DEF TypeOK
  <2> QED
    BY <2>1, <2>2 DEF Attach, AttachSent
<1>5. frameId' \in [Dev -> 0 .. FrameMax]
  BY <1>1, TakeFrameType DEF Attach, AttachSent
<1>6. budget' \in [call : 0 .. MaxCall, event : 0 .. MaxEvent]
  BY AppCallsType DEF Attach, AttachSent
<1> QED
  BY <1>2, <1>4, <1>5, <1>6 DEF TypeOK, Attach, AttachSent

LEMMA SendType ==
    ASSUME TypeOK, NEW i \in Slots, Send(i)
    PROVE  TypeOK'
<1> DEFINE d == sock[i].dev
<1>1. sock[i] \in Socket /\ d \in Dev
  BY DEF TypeOK, Send, Holds, Socket
<1>2. NextFrame(d) \in 1 .. FrameMax /\ FrameMax \in Nat
  BY <1>1, NextFrameType, SockAssumption
<1>3. [sock[i] EXCEPT !.tx_frame_id = NextFrame(d)] \in Socket
  BY <1>1, <1>2 DEF Socket
<1>4. [uid |-> sock[i].uid, frame |-> NextFrame(d)] \in [uid : Mark, frame : 1 .. FrameMax]
  BY <1>1, <1>2 DEF Socket
<1>5. frameId' \in [Dev -> 0 .. FrameMax]
  BY <1>1, TakeFrameType DEF Send
<1>6. budget' \in [call : 0 .. MaxCall, event : 0 .. MaxEvent]
  BY AppCallsType DEF Send
<1> QED
  BY <1>1, <1>3, <1>4, <1>5, <1>6 DEF TypeOK, Send

LEMMA OptionType ==
    ASSUME TypeOK, NEW i \in Slots, NEW callback \in BOOLEAN, Option(i, callback)
    PROVE  TypeOK'
<1> DEFINE d == sock[i].dev
           f == FrameOf("option_resp", sock[i].uid, sock[i].socket_id, NextFrame(d), TRUE)
<1>1. sock[i] \in Socket /\ d \in Dev
  BY DEF TypeOK, Option, Holds, Socket
<1>2. [sock[i] EXCEPT !.option = callback] \in Socket
  BY <1>1 DEF Socket
<1>3. f \in Frame
  <2>1. NextFrame(d) \in 0 .. FrameMax
    BY <1>1, NextFrameType
  <2> QED
    BY <1>1, <2>1, FrameType DEF Socket
<1>4. /\ frameId' \in [Dev -> 0 .. FrameMax]
      /\ rx' \in [Dev -> Seq(Frame)]
  <2>1. CASE callback
    <3>1. TakeFrame(d) /\ Answer(d, f)
      BY <2>1 DEF Option
    <3> HIDE DEF f
    <3> QED
      BY <1>1, <1>3, <3>1, TakeFrameType, AnswerType
  <2>2. CASE ~callback
    BY <2>2 DEF TypeOK, Option
  <2> QED
    BY <2>1, <2>2
<1>5. budget' \in [call : 0 .. MaxCall, event : 0 .. MaxEvent]
  BY AppCallsType DEF Option
<1> QED
  BY <1>1, <1>2, <1>4, <1>5 DEF TypeOK, Option

LEMMA RefusedType ==
    ASSUME TypeOK, NEW d \in Dev, Refused(d)
    PROVE  TypeOK'
<1>1. frameId' \in [Dev -> 0 .. FrameMax]
  BY TakeFrameType DEF Refused
<1>2. budget' \in [call : 0 .. MaxCall, event : 0 .. MaxEvent]
  BY AppCallsType DEF Refused
<1> QED
  BY <1>1, <1>2 DEF TypeOK, Refused

\* A Close frame, from xbee_sock_close() or xbee_sock_close_all().
LEMMA CloseWrittenType ==
    ASSUME TypeOK, NEW i \in Slots, sock[i].dev # NULL,
           NEW stack \in Seq(Activation), CloseWritten(i, stack)
    PROVE  /\ radio' \in [Dev -> [Ids -> Radio]]
           /\ call' \in Seq(Activation)
<1>1. sock[i].dev \in Dev /\ sock[i].uid \in Mark
  BY DEF TypeOK, Socket
<1>2. Callback(i, "free", sock[i].uid, N, 0) \in Activation
  BY <1>1, CallbackType DEF Activation
<1> QED
  BY <1>1, <1>2, ClosedType, PushType DEF CloseWritten

LEMMA CloseType ==
    ASSUME TypeOK, NEW i \in Slots, Close(i)
    PROVE  TypeOK'
<1>1. call \in Seq(Activation) /\ sock[i].dev # NULL
  BY DEF TypeOK, Activation, Close, Holds
<1>2. radio' \in [Dev -> [Ids -> Radio]] /\ call' \in Seq(Activation)
  BY <1>1, CloseWrittenType DEF Close
<1>3. budget' \in [call : 0 .. MaxCall, event : 0 .. MaxEvent]
  BY AppCallsType DEF Close, AppFrees
<1> QED
  BY <1>2, <1>3 DEF TypeOK, Close, CloseWritten, Activation

LEMMA ResetType ==
    ASSUME TypeOK, NEW d \in Dev, Reset(d)
    PROVE  TypeOK'
<1>1. sock' \in [Slots -> Socket]
  BY FreeType DEF TypeOK, Reset
<1>2. radio' \in [Dev -> [Ids -> Radio]]
  <2>1. Unused \in Radio
    BY DEF Unused, Radio, Mark
  <2> QED
    <3>1. [id \in Ids |-> Unused] \in [Ids -> Radio] /\ radio \in [Dev -> [Ids -> Radio]]
      BY <2>1 DEF TypeOK
    <3>2. radio' = [radio EXCEPT ![d] = [id \in Ids |-> Unused]] \/ UNCHANGED radio
      BY DEF Reset
    <3> QED
      BY <3>1, <3>2
<1>3. budget' \in [call : 0 .. MaxCall, event : 0 .. MaxEvent]
  BY AppCallsType DEF Reset, AppFrees
<1> QED
  BY <1>1, <1>2, <1>3 DEF TypeOK, Reset

LEMMA CloseAllType ==
    ASSUME TypeOK, NEW d \in Dev \cup {NULL}, CloseAll(d)
    PROVE  TypeOK'
<1>1. [then |-> "close_all", dev |-> d, next |-> 0] \in Activation
  BY SockAssumption DEF Activation, CloseAllCall
<1>2. call' \in Seq(Activation)
  BY <1>1, PushType DEF CloseAll, TypeOK, Activation
<1>3. budget' \in [call : 0 .. MaxCall, event : 0 .. MaxEvent]
  BY AppCallsType DEF CloseAll, AppFrees
<1> QED
  BY <1>2, <1>3 DEF TypeOK, CloseAll, Activation

LEMMA CloseNextType ==
    ASSUME TypeOK, CloseNext
    PROVE  TypeOK'
<1> DEFINE open == {i \in Slots : /\ i >= Top.next
                                  /\ sock[i].type \notin {"AVAILABLE", "PENDING"}
                                  /\ Top.dev \in {NULL, sock[i].dev}}
           i == FirstOf(open)
<1>1. Below \in Seq(Activation) /\ Top \in CloseAllCall
  BY PopType DEF CloseNext, Activation, CallbackCall
<1>2. CASE call' = Below /\ UNCHANGED <<sock, frameId, radio, sending, rx, budget>>
  BY <1>1, <1>2 DEF TypeOK, Activation
<1>3. CASE /\ open # {} /\ sock[i].dev # NULL
           /\ CloseWritten(i, Append(Below, [Top EXCEPT !.next = i + 1]))
           /\ UNCHANGED budget
  <2>1. i \in Slots
    BY <1>3, FirstSlot
  <2> HIDE DEF i
  <2>2. [Top EXCEPT !.next = i + 1] \in Activation
    BY <1>1, <2>1, SockAssumption DEF CloseAllCall, Slots, Activation
  <2>3. Append(Below, [Top EXCEPT !.next = i + 1]) \in Seq(Activation)
    BY <1>1, <2>2, PushType
  <2>4. radio' \in [Dev -> [Ids -> Radio]] /\ call' \in Seq(Activation)
    BY <1>3, <2>1, <2>3, CloseWrittenType
  <2> QED
    BY <1>3, <2>4 DEF TypeOK, CloseWritten, Activation
<1> QED
  BY <1>2, <1>3 DEF CloseNext

\* The next frame leaves the queue.
LEMMA ReceivesType ==
    ASSUME TypeOK, NEW d \in Dev, NEW f, Receives(d, f)
    PROVE  f \in Frame /\ rx' \in [Dev -> Seq(Frame)]
<1>1. rx[d] \in Seq(Frame) /\ rx[d] # <<>>
  BY DEF TypeOK, Receives
<1>2. Head(rx[d]) \in Frame /\ Tail(rx[d]) \in Seq(Frame)
  BY <1>1, HeadTailProperties
<1> QED
  BY <1>2 DEF TypeOK, Receives

LEMMA MatchedType ==
    ASSUME TypeOK, NEW d \in Dev, NEW f, Matched(d, f)
    PROVE  TypeOK'
<1> DEFINE i == FirstOf(Target(d, f))
<1>1. f \in Frame /\ rx' \in [Dev -> Seq(Frame)]
  BY ReceivesType DEF Matched
<1>2. i \in Slots /\ sock[i].dev = d
  BY <1>1, TargetSlots, FirstSlot DEF Matched
<1>3. sock' \in [Slots -> Socket]
  <2> HIDE DEF i
  <2>1. sock \in [Slots -> Socket] /\ sock[i] \in Socket
    BY <1>2 DEF TypeOK
  <2>2. f.id \in {0} \cup Ids
    BY <1>1 DEF Frame
  <2>3. [sock[i] EXCEPT !.socket_id = f.id, !.type = "CREATED"] \in Socket
    BY <2>1, <2>2 DEF Socket, Type
  <2>4. \/ sock' = [sock EXCEPT ![i].socket_id = f.id, ![i].type = "CREATED"]
        \/ sock' = sock
    BY DEF Matched, i
  <2>5. [sock EXCEPT ![i].socket_id = f.id, ![i].type = "CREATED"]
        = [sock EXCEPT ![i] = [sock[i] EXCEPT !.socket_id = f.id, !.type = "CREATED"]]
    BY <1>2, <2>1
  <2> QED
    BY <1>2, <2>1, <2>3, <2>4, <2>5
<1>4. Callback(i, AfterCallback(f), f.uid, N, 0) \in Activation
  <2> HIDE DEF i
  <2>1. f.uid \in Mark
    BY <1>1 DEF Frame
  <2>2. AfterCallback(f) \in {"nothing", "free", "CREATED", "CONNECT", "attached", "sent", "accept"}
    BY DEF AfterCallback
  <2> QED
    BY <1>2, <2>1, <2>2, CallbackType DEF Activation
<1>5. call' \in Seq(Activation)
  <2>1. call' = <<Callback(i, AfterCallback(f), f.uid, N, 0)>>
    BY DEF Matched
  <2> QED
    BY <1>4, <2>1
<1> QED
  BY <1>1, <1>3, <1>5 DEF TypeOK, Matched, Receives, Activation

LEMMA ClientArrivesType ==
    ASSUME TypeOK, NEW d \in Dev, NEW f, ClientArrives(d, f)
    PROVE  TypeOK'
<1> DEFINE l == FirstOf(Target(d, f))
           client == [Free EXCEPT !.type = "CONNECT", !.dev = d, !.socket_id = f.client,
                        !.protocol = sock[l].protocol, !.uid = f.clientUid,
                        !.create_frame_id = sock[l].create_frame_id]
           c == IF Available = {} THEN N ELSE FirstOf(Available)
<1>1. f \in Frame /\ rx' \in [Dev -> Seq(Frame)]
  BY ReceivesType DEF ClientArrives
<1>2. l \in Slots /\ sock[l].dev = d /\ sock[l] \in Socket
  BY <1>1, TargetSlots, FirstSlot DEF ClientArrives, TypeOK
<1>3. c \in Slots \cup {N}
  BY FirstSlot DEF Available
<1>4. sock' = [i \in Slots |-> IF i = c THEN client ELSE sock[i]]
  BY DEF ClientArrives
<1>5. call' = <<Callback(l, "accept", f.uid, c, f.client)>>
  BY DEF ClientArrives
<1> HIDE DEF l, c
<1>6. client \in Socket
  BY <1>1, <1>2, FreeType DEF Socket, Frame, Type
<1>7. Callback(l, "accept", f.uid, c, f.client) \in Activation
  BY <1>1, <1>2, <1>3, CallbackType DEF Activation, Frame
<1>8. sock' \in [Slots -> Socket]
  BY <1>4, <1>6 DEF TypeOK
<1>9. call' \in Seq(Activation)
  BY <1>5, <1>7
<1> QED
  BY <1>1, <1>8, <1>9 DEF TypeOK, ClientArrives, Receives, Activation

LEMMA ReturnsType ==
    ASSUME TypeOK, Returns
    PROVE  TypeOK'
<1>1. call # <<>> /\ Top.then # "close_all"
  BY DEF Returns, CallbackReturns, ClientAccepted, ClientRejected
<1>2. Below \in Seq(Activation) /\ Top \in CallbackCall
  BY <1>1, PopType DEF Activation, CloseAllCall
<1>3. CASE CallbackReturns
  <2>1. Top.slot \in Slots /\ Written(sock[Top.slot], Top.then) \in Socket
    BY <1>2, WrittenType DEF TypeOK, CallbackCall
  <2>2. sock' \in [Slots -> Socket]
    BY <1>3, <2>1 DEF TypeOK, CallbackReturns
  <2> QED
    BY <1>2, <1>3, <2>2 DEF TypeOK, CallbackReturns, Activation
<1>4. CASE ClientAccepted
  <2>1. Top.client \in Slots
    BY <1>2, <1>4 DEF ClientAccepted, CallbackCall
  <2>2. [sock[Top.client] EXCEPT !.handler = "receive"] \in Socket
    <3>1. sock[Top.client] \in Socket
      BY <2>1 DEF TypeOK
    <3>2. \A s \in Socket : [s EXCEPT !.handler = "receive"] \in Socket
      BY DEF Socket, Handler
    <3> QED
      BY <3>1, <3>2
  <2>3. sock' = [sock EXCEPT ![Top.client] = [sock[Top.client] EXCEPT !.handler = "receive"]]
    BY <1>4 DEF ClientAccepted
  <2>4. sock' \in [Slots -> Socket]
    BY <2>1, <2>2, <2>3 DEF TypeOK
  <2> QED
    BY <1>2, <1>4, <2>4 DEF TypeOK, ClientAccepted, Activation
<1>5. CASE ClientRejected
  <2>1. sock' \in [Slots -> Socket]
    BY <1>5, FreeType DEF TypeOK, ClientRejected
  <2>2. Top.dev \in Dev
    BY <1>2 DEF CallbackCall
  <2>3. radio' \in [Dev -> [Ids -> Radio]]
    BY <1>5, <2>2, ClosedType DEF TypeOK, ClientRejected
  <2> QED
    BY <1>2, <1>5, <2>1, <2>3 DEF TypeOK, ClientRejected, Activation
<1> QED
  BY <1>3, <1>4, <1>5 DEF Returns
LEMMA UnmatchedType ==
    ASSUME TypeOK, NEW d \in Dev, NEW f, Unmatched(d, f)
    PROVE  TypeOK'
<1>1. rx' \in [Dev -> Seq(Frame)]
  BY ReceivesType DEF Unmatched
<1> QED
  BY <1>1 DEF TypeOK, Unmatched, Receives

\* The module changes one socket of its own.
LEMMA RadioType ==
    ASSUME TypeOK, NEW d \in Dev, NEW id \in Ids, NEW r \in Radio
    PROVE  [radio EXCEPT ![d][id] = r] \in [Dev -> [Ids -> Radio]]
<1>1. radio \in [Dev -> [Ids -> Radio]] /\ radio[d] \in [Ids -> Radio]
  BY DEF TypeOK
<1>2. [radio[d] EXCEPT ![id] = r] \in [Ids -> Radio]
  BY <1>1
<1> QED
  BY <1>1, <1>2

LEMMA AnswersAttachType ==
    ASSUME TypeOK, NEW d \in Dev, NEW id \in Ids, NEW ok \in BOOLEAN,
           AnswersAttach(d, id, ok)
    PROVE  TypeOK'
<1> DEFINE r == radio[d][id]
           kind == IF r.state = "connecting" THEN "connect_resp" ELSE "listen_resp"
           done == IF r.state = "connecting" THEN "connected"
                   ELSE IF r.protocol = "UDP" THEN "bound" ELSE "listening"
           state == IF ok THEN done ELSE "open"
<1>1. r \in Radio
  BY DEF TypeOK
<1>2. FrameOf(kind, r.uid, id, 0, ok) \in Frame
  <2>1. r.uid \in Mark /\ 0 \in 0 .. FrameMax
    BY <1>1, SockAssumption DEF Radio
  <2>2. kind \in {"connect_resp", "listen_resp"}
    OBVIOUS
  <2> HIDE DEF r, kind
  <2> QED
    BY <2>1, <2>2, FrameType
<1>3. rx' \in [Dev -> Seq(Frame)]
  BY <1>2, AnswerType DEF AnswersAttach
<1>4. [r EXCEPT !.state = state] \in Radio
  BY <1>1 DEF Radio
<1>5. radio' = [radio EXCEPT ![d][id] = [r EXCEPT !.state = state]]
  BY DEF AnswersAttach
<1> HIDE DEF r, state
<1>6. radio' \in [Dev -> [Ids -> Radio]]
  BY <1>4, <1>5, RadioType
<1> QED
  BY <1>3, <1>6 DEF TypeOK, AnswersAttach

LEMMA ReportsType ==
    ASSUME TypeOK, NEW d \in Dev, NEW s \in sending[d], Reports(d, s)
    PROVE  TypeOK'
<1>1. s \in [uid : Mark, frame : 1 .. FrameMax]
  BY DEF TypeOK
<1>2. FrameOf("tx_status", s.uid, 0, s.frame, TRUE) \in Frame
  <2>1. s.uid \in Mark /\ s.frame \in 0 .. FrameMax
    BY <1>1, SockAssumption
  <2> QED
    BY <2>1, FrameType
<1>3. rx' \in [Dev -> Seq(Frame)]
  BY <1>2, AnswerType DEF Reports
<1> QED
  BY <1>3 DEF TypeOK, Reports

LEMMA DeliversType ==
    ASSUME TypeOK, NEW d \in Dev, NEW id \in Ids, Delivers(d, id)
    PROVE  TypeOK'
<1>1. radio[d][id].uid \in Mark /\ 0 \in 0 .. FrameMax
  BY SockAssumption DEF TypeOK, Radio
<1>2. \A kind \in {"receive", "state", "receive_from"} :
        FrameOf(kind, radio[d][id].uid, id, 0, TRUE) \in Frame
  BY <1>1, FrameType
<1>3. rx' \in [Dev -> Seq(Frame)]
  BY <1>2, AnswerType DEF Delivers
<1>4. budget' \in [call : 0 .. MaxCall, event : 0 .. MaxEvent]
  BY EventType DEF Delivers
<1> QED
  BY <1>3, <1>4 DEF TypeOK, Delivers

LEMMA AcceptsClientType ==
    ASSUME TypeOK, NEW d \in Dev, NEW id \in Ids, AcceptsClient(d, id)
    PROVE  TypeOK'
<1> DEFINE u == CHOOSE u \in FreshUid : TRUE
           socket == [uid |-> u, protocol |-> radio[d][id].protocol, state |-> "connected"]
           f(c) == [FrameOf("ipv4_client", radio[d][id].uid, id, 0, TRUE)
                      EXCEPT !.client = c, !.clientUid = u]
<1>1. PICK c \in FreeIds(d) :
        radio' = [radio EXCEPT ![d][c] = socket] /\ Answer(d, f(c))
  BY DEF AcceptsClient
<1>2. u \in Mark /\ c \in Ids
  BY FreshUidType DEF AcceptsClient, Mark, FreeIds
<1> HIDE DEF u
<1>3. radio[d][id] \in Radio /\ 0 \in 0 .. FrameMax
  BY SockAssumption DEF TypeOK
<1>4. socket \in Radio
  BY <1>2, <1>3 DEF Radio
<1>5. f(c) \in Frame
  BY <1>2, <1>3 DEF FrameOf, Frame, Radio
<1> HIDE DEF socket, f
<1>6. radio' \in [Dev -> [Ids -> Radio]]
  BY <1>1, <1>2, <1>4, RadioType
<1>7. rx' \in [Dev -> Seq(Frame)]
  BY <1>1, <1>5, AnswerType
<1>8. budget' \in [call : 0 .. MaxCall, event : 0 .. MaxEvent]
  BY EventType DEF AcceptsClient
<1> QED
  BY <1>6, <1>7, <1>8 DEF TypeOK, AcceptsClient

LEMMA EndsType ==
    ASSUME TypeOK, NEW d \in Dev, NEW id \in Ids, Ends(d, id)
    PROVE  TypeOK'
<1>1. radio[d][id].uid \in Mark /\ 0 \in 0 .. FrameMax
  BY SockAssumption DEF TypeOK, Radio
<1>2. rx' \in [Dev -> Seq(Frame)]
  BY <1>1, FrameType, AnswerType DEF Ends
<1>3. radio' \in [Dev -> [Ids -> Radio]]
  BY ClosedType DEF Ends
<1>4. budget' \in [call : 0 .. MaxCall, event : 0 .. MaxEvent]
  BY EventType DEF Ends
<1> QED
  BY <1>2, <1>3, <1>4 DEF TypeOK, Ends

LEMMA TypeStep == TypeOK /\ [Next]_vars => TypeOK'
<1> SUFFICES ASSUME TypeOK, [Next]_vars PROVE TypeOK'
  OBVIOUS
<1>1. CASE App
  <2>1. ASSUME NEW i \in Slots, Connect(i) \/ Bind(i) \/ Listen(i) PROVE TypeOK'
    BY <2>1, AttachType DEF Connect, Bind, Listen, Handler
  <2> QED
    BY <1>1, <2>1, CreateType, ResetType, RefusedType, CloseAllType, SendType,
       CloseType, OptionType DEF App
<1>2. CASE \E d \in Dev : rx[d] # <<>> /\ Handle(d, Head(rx[d]))
  BY <1>2, UnmatchedType, MatchedType, ClientArrivesType DEF Handle
<1>3. CASE Module
  BY <1>3, AnswersAttachType, ReportsType, DeliversType, AcceptsClientType, EndsType
     DEF Module
<1>4. CASE UNCHANGED vars
  BY <1>4 DEF TypeOK, vars
<1> QED
  BY <1>1, <1>2, <1>3, <1>4, CloseNextType, ReturnsType DEF Next

\* Every slot, frame, callback and socket of the module is well formed: frame
\* ids stay within their byte, and a handler whose callback returns writes a slot
\* of the table.
THEOREM TypeCorrect == Spec => []TypeOK
<1>1. Init => TypeOK
  BY InitType
<1>2. TypeOK /\ [Next]_vars => TypeOK'
  BY TypeStep
<1> QED
  BY <1>1, <1>2, PTL DEF Spec

-----------------------------------------------------------------------------
(* The life cycle of a socket.  A handler writes the state it chose before the *)
(* callback into the slot after it: the invariant is that the slot still waits  *)
(* for it, because callbacks do not free sockets and are not interrupted.       *)

Attaching == {"CREATED", "CONNECT", "attached"}

\* Only xbee_sock_close_all() has something above it on the stack, and a handler
\* that will write a state has a slot that waits for an attach response.
CallsInTurn ==
    \A k \in 1 .. Len(call) :
      /\ k # Len(call) => call[k].then = "close_all"
      /\ call[k].then \in Attaching => sock[call[k].slot].type = "ATTACH"

Lives == \A i \in Slots : <<sock[i].type, sock'[i].type>> \in Moves

\* A callback on the stack was called for a slot.
LEMMA OnStack ==
    ASSUME TypeOK, NEW k \in 1 .. Len(call), call[k].then # "close_all"
    PROVE  call[k].slot \in Slots
<1>1. call[k] \in Activation
  BY ElementOfSeq DEF TypeOK, Activation
<1> QED
  BY <1>1 DEF Activation, CallbackCall, CloseAllCall

\* Calls of the application that leave the stack alone.
LEMMA SameCalls ==
    ASSUME TypeOK, CallsInTurn, call' = call,
           \A i \in Slots : sock[i].type = "ATTACH" => sock'[i].type = "ATTACH"
    PROVE  CallsInTurn'
<1> QED
  BY OnStack DEF CallsInTurn, Attaching

\* The main loop calls a function of the layer, or handles a frame.
LEMMA FirstCall ==
    ASSUME NEW a, call' = <<a>>,
           a.then \in Attaching => sock'[a.slot].type = "ATTACH"
    PROVE  CallsInTurn'
<1> QED
  BY DEF CallsInTurn

\* What is under the top is xbee_sock_close_all().
LEMMA UnderTop ==
    ASSUME TypeOK, CallsInTurn, call # <<>>
    PROVE  /\ Below \in Seq(Activation) /\ Len(Below) = Len(call) - 1
           /\ \A k \in 1 .. Len(Below) : Below[k].then = "close_all"
<1>1. call \in Seq(Activation)
  BY DEF TypeOK, Activation
<1>2. /\ Len(call) \in Nat \ {0}
      /\ Below \in Seq(Activation) /\ Len(Below) = Len(call) - 1
      /\ \A k \in 1 .. Len(call) - 1 : Below[k] = call[k]
  BY <1>1, StackPop DEF Below
<1> QED
  BY <1>2 DEF CallsInTurn

LEMMA CallReturns ==
    ASSUME TypeOK, CallsInTurn, call # <<>>, call' = Below
    PROVE  CallsInTurn'
<1> QED
  BY UnderTop DEF CallsInTurn, Attaching

\* A closed socket is notified: in xbee_sock_close(), or on top of close_all.
LEMMA CloseNotifies ==
    ASSUME NEW stack \in Seq(Activation), NEW i \in Slots,
           \A k \in 1 .. Len(stack) : stack[k].then = "close_all",
           CloseWritten(i, stack)
    PROVE  CallsInTurn'
<1> DEFINE a == Callback(i, "free", sock[i].uid, N, 0)
<1>1. /\ Len(call') = Len(stack) + 1
      /\ \A k \in 1 .. Len(stack) : call'[k] = stack[k]
      /\ call'[Len(stack) + 1] = a
  BY DEF CloseWritten
<1>2. a.then = "free"
  BY DEF Callback
<1>3. Len(stack) \in Nat
  BY LenProperties
<1> HIDE DEF a
<1> QED
  BY <1>1, <1>2, <1>3 DEF CallsInTurn, Attaching

\* The types a slot has, to compare them with the moves.
LEMMA SameType ==
    ASSUME TypeOK, NEW i \in Slots, sock'[i].type \in {sock[i].type, "AVAILABLE"}
    PROVE  <<sock[i].type, sock'[i].type>> \in Moves
<1>1. sock[i].type \in Type
  BY DEF TypeOK, Socket
<1> QED
  BY <1>1 DEF Moves

\* The state a handler writes.
LEMMA WrittenState ==
    ASSUME NEW s \in Socket, NEW then
    PROVE  \/ Written(s, then).type \in {s.type, "AVAILABLE"}
           \/ /\ then \in Attaching
              /\ Written(s, then).type \in {"CREATED", "CONNECT", "BIND", "LISTEN"}
<1>1. CASE then = "free"
  BY <1>1 DEF Written, Free
<1>2. CASE then = "sent"
  BY <1>2 DEF Written, Socket
<1>3. CASE then = "attached"
  BY <1>3 DEF Written, Socket, Attached, Attaching
<1>4. CASE then \in {"CREATED", "CONNECT"}
  BY <1>4 DEF Written, Socket, Attaching
<1>5. CASE then \notin {"free", "sent", "attached", "CREATED", "CONNECT"}
  BY <1>5 DEF Written
<1> QED
  BY <1>1, <1>2, <1>3, <1>4, <1>5

LEMMA AppLives ==
    ASSUME Patient, ~FreeInCallback, TypeOK, CallsInTurn, App
    PROVE  CallsInTurn' /\ Lives
<1>1. ASSUME NEW d \in Dev, NEW protocol \in Protocol, Create(d, protocol)
      PROVE  CallsInTurn' /\ Lives
  <2> DEFINE i == FirstOf(Available)
  <2>1. i \in Slots /\ sock[i].type = "AVAILABLE"
    BY <1>1, FirstSlot DEF Create, Available, InUse
  <2>2. PICK s : sock' = [sock EXCEPT ![i] = s] /\ s.type = "PENDING"
    <3> DEFINE s == [Free EXCEPT !.type = "PENDING", !.dev = d, !.uid = CHOOSE u \in FreshUid : TRUE,
                       !.create_frame_id = NextFrame(d), !.protocol = protocol]
    <3>1. sock' = [sock EXCEPT ![i] = s]
      BY <1>1 DEF Create
    <3>2. s.type = "PENDING"
      BY DEF Free
    <3> QED
      BY <3>1, <3>2
  <2> HIDE DEF i
  <2>3. \A j \in Slots : \/ sock'[j].type = sock[j].type
                         \/ sock[j].type = "AVAILABLE" /\ sock'[j].type = "PENDING"
    BY <2>1, <2>2 DEF TypeOK
  <2>4. CallsInTurn'
    BY <1>1, <2>3, SameCalls DEF Create
  <2> QED
    BY <2>3, <2>4, SameType DEF Lives, Moves
<1>2. ASSUME NEW i \in Slots, NEW op, NEW handler, Attach(i, op, handler)
      PROVE  CallsInTurn' /\ Lives
  <2>1. sock[i].type = "CREATED"
    BY <1>2 DEF Attach, AttachSent, Holds
  <2>2. \A j \in Slots : \/ sock'[j].type = sock[j].type
                         \/ sock[j].type = "CREATED" /\ sock'[j].type = "ATTACH"
    BY <1>2, <2>1 DEF Attach, AttachSent, TypeOK, Socket
  <2>3. CallsInTurn'
    BY <1>2, <2>2, SameCalls DEF Attach, AttachSent
  <2> QED
    BY <2>2, <2>3, SameType DEF Lives, Moves
<1>3. ASSUME NEW i \in Slots, Send(i) \/ \E callback \in BOOLEAN : Option(i, callback)
      PROVE  CallsInTurn' /\ Lives
  <2>1. CASE Send(i)
    <3>1. \A j \in Slots : sock'[j].type = sock[j].type
      BY <2>1 DEF Send, TypeOK, Socket
    <3> QED
      BY <2>1, <3>1, SameCalls, SameType DEF Send, Lives
  <2>2. ASSUME NEW callback \in BOOLEAN, Option(i, callback)
        PROVE  CallsInTurn' /\ Lives
    <3>1. \A j \in Slots : sock'[j].type = sock[j].type
      BY <2>2 DEF Option, TypeOK, Socket
    <3> QED
      BY <2>2, <3>1, SameCalls, SameType DEF Option, Lives
  <2> QED
    BY <1>3, <2>1, <2>2
<1>4. ASSUME NEW i \in Slots, Close(i)
      PROVE  CallsInTurn' /\ Lives
  <2>1. call = <<>> /\ call \in Seq(Activation)
    BY <1>4 DEF Close, AppFrees, TypeOK, Activation
  <2>2. \A k \in 1 .. Len(call) : call[k].then = "close_all"
    BY <2>1
  <2>3. CallsInTurn'
    BY <1>4, <2>1, <2>2, CloseNotifies DEF Close
  <2> QED
    BY <1>4, <2>3, SameType DEF Close, CloseWritten, Lives
<1>5. ASSUME NEW d \in Dev, Reset(d)
      PROVE  CallsInTurn' /\ Lives
  <2>1. call' = <<>>
    BY <1>5 DEF Reset, AppFrees
  <2>2. \A j \in Slots : sock'[j].type \in {sock[j].type, "AVAILABLE"}
    BY <1>5 DEF Reset, Free
  <2> QED
    BY <2>1, <2>2, SameType DEF CallsInTurn, Lives
<1>6. ASSUME NEW d \in Dev, Refused(d)
      PROVE  CallsInTurn' /\ Lives
  BY <1>6, SameCalls, SameType DEF Refused, Lives
<1>7. ASSUME NEW d \in Dev \cup {NULL}, CloseAll(d)
      PROVE  CallsInTurn' /\ Lives
  <2> DEFINE a == [then |-> "close_all", dev |-> d, next |-> 0]
  <2>1. call = <<>> /\ call' = Append(call, a)
    BY <1>7 DEF CloseAll, AppFrees
  <2>2. a.then \notin Attaching
    BY DEF Attaching
  <2> HIDE DEF a
  <2>3. CallsInTurn'
    BY <2>1, <2>2, FirstCall
  <2> QED
    BY <1>7, <2>3, SameType DEF CloseAll, Lives
<1> QED
  BY <1>1, <1>2, <1>3, <1>4, <1>5, <1>6, <1>7 DEF App, Connect, Bind, Listen

LEMMA CloseNextLives ==
    ASSUME TypeOK, CallsInTurn, CloseNext
    PROVE  CallsInTurn' /\ Lives
<1> DEFINE open == {i \in Slots : /\ i >= Top.next
                                  /\ sock[i].type \notin {"AVAILABLE", "PENDING"}
                                  /\ Top.dev \in {NULL, sock[i].dev}}
           i == FirstOf(open)
           next == [Top EXCEPT !.next = i + 1]
<1>1. call # <<>> /\ Top.then = "close_all"
  BY DEF CloseNext
<1>2. CallsInTurn'
  <2>1. CASE call' = Below
    BY <1>1, <2>1, CallReturns
  <2>2. CASE open # {} /\ CloseWritten(i, Append(Below, next))
    <3>1. i \in Slots
      BY <2>2, FirstSlot
    <3>2. /\ Below \in Seq(Activation) /\ Len(Below) \in Nat
          /\ \A k \in 1 .. Len(Below) : Below[k].then = "close_all"
      BY <1>1, UnderTop, LenProperties
    <3>3. Top \in CloseAllCall
      BY <1>1, PopType DEF Activation, CallbackCall
    <3> HIDE DEF i
    <3>4. next \in Activation /\ next.then = "close_all"
      BY <3>1, <3>3, SockAssumption DEF CloseAllCall, Activation, Slots
    <3> HIDE DEF next
    <3>5. /\ Append(Below, next) \in Seq(Activation)
          /\ Len(Append(Below, next)) = Len(Below) + 1
          /\ \A k \in 1 .. Len(Below) : Append(Below, next)[k] = Below[k]
          /\ Append(Below, next)[Len(Below) + 1] = next
      BY <3>2, <3>4, AppendProperties
    <3>6. \A k \in 1 .. Len(Append(Below, next)) : Append(Below, next)[k].then = "close_all"
      BY <3>2, <3>4, <3>5
    <3> QED
      BY <2>2, <3>1, <3>5, <3>6, CloseNotifies
  <2> QED
    BY <2>1, <2>2 DEF CloseNext
<1>3. sock' = sock
  BY DEF CloseNext, CloseWritten
<1> QED
  BY <1>2, <1>3, SameType DEF Lives

LEMMA HandleLives ==
    ASSUME TypeOK, CallsInTurn, NEW d \in Dev, NEW f, Handle(d, f)
    PROVE  CallsInTurn' /\ Lives
<1>1. CASE Unmatched(d, f)
  BY <1>1, SameCalls, SameType DEF Unmatched, Lives
<1>2. CASE Matched(d, f)
  <2> DEFINE i == FirstOf(Target(d, f))
             a == Callback(i, AfterCallback(f), f.uid, N, 0)
  <2>1. f \in Frame
    BY <1>2, ReceivesType DEF Matched
  <2>2. i \in Target(d, f) /\ i \in Slots
    BY <1>2, <2>1, TargetSlots, FirstSlot DEF Matched
  <2>3. call' = <<a>> /\ a.then = AfterCallback(f) /\ a.slot = i
    BY <1>2 DEF Matched, Callback
  <2>4. \/ sock' = sock
        \/ f.kind = "create_resp" /\ f.ok
           /\ sock' = [sock EXCEPT ![i].socket_id = f.id, ![i].type = "CREATED"]
    BY <1>2 DEF Matched
  <2>5. f.kind = "create_resp" => sock[i].type = "PENDING"
    BY <2>2 DEF Target
  <2>6. AfterCallback(f) \in Attaching => sock[i].type = "ATTACH" /\ sock' = sock
    <3> SUFFICES ASSUME AfterCallback(f) \in Attaching
                 PROVE  sock[i].type = "ATTACH" /\ sock' = sock
      OBVIOUS
    <3>1. f.kind \in {"connect_resp", "listen_resp"}
      BY DEF AfterCallback, Attaching
    <3> QED
      BY <2>2, <2>4, <3>1 DEF Target
  <2> HIDE DEF i, a
  <2>7. CallsInTurn'
    BY <2>3, <2>6, FirstCall
  <2>8. \A j \in Slots : \/ sock'[j].type = sock[j].type
                         \/ sock[j].type = "PENDING" /\ sock'[j].type = "CREATED"
    BY <2>2, <2>4, <2>5 DEF TypeOK, Socket
  <2> QED
    BY <2>7, <2>8, SameType DEF Lives, Moves
<1>3. CASE ClientArrives(d, f)
  <2> DEFINE l == FirstOf(Target(d, f))
             c == IF Available = {} THEN N ELSE FirstOf(Available)
             a == Callback(l, "accept", f.uid, c, f.client)
  <2>1. call' = <<a>> /\ a.then \notin Attaching
    BY <1>3 DEF ClientArrives, Callback, Attaching
  <2>2. PICK s : s.type = "CONNECT" /\ sock' = [i \in Slots |-> IF i = c THEN s ELSE sock[i]]
    BY <1>3 DEF ClientArrives, Free
  <2>3. c \in Slots => sock[c].type = "AVAILABLE"
    <3>1. N \notin Slots
      BY SockAssumption DEF Slots
    <3>2. Available # {} => FirstOf(Available) \in Available
      BY FirstSlot DEF Available
    <3> QED
      BY <3>1, <3>2 DEF Available, InUse
  <2> HIDE DEF c, a
  <2>4. CallsInTurn'
    BY <2>1, FirstCall
  <2>5. \A j \in Slots : \/ sock'[j].type = sock[j].type
                         \/ sock[j].type = "AVAILABLE" /\ sock'[j].type = "CONNECT"
    BY <2>2, <2>3
  <2> QED
    BY <2>4, <2>5, SameType DEF Lives, Moves
<1> QED
  BY <1>1, <1>2, <1>3 DEF Handle

LEMMA ReturnsLives ==
    ASSUME TypeOK, CallsInTurn, Returns
    PROVE  CallsInTurn' /\ Lives
<1>1. call # <<>> /\ call' = Below /\ Top.then # "close_all"
  BY DEF Returns, CallbackReturns, ClientAccepted, ClientRejected
<1>2. CallsInTurn'
  BY <1>1, CallReturns
<1>3. Top \in CallbackCall /\ Len(call) \in 1 .. Len(call)
  <2>1. Top \in CallbackCall
    BY <1>1, PopType DEF Activation, CloseAllCall
  <2>2. call \in Seq(Activation)
    BY DEF TypeOK, Activation
  <2>3. Len(call) \in Nat \ {0}
    BY <1>1, <2>2, StackPop
  <2> QED
    BY <2>1, <2>3
<1>4. CASE CallbackReturns
  <2>1. Top.then \in Attaching => sock[Top.slot].type = "ATTACH"
    BY <1>3 DEF CallsInTurn, Top
  <2>2. Top.slot \in Slots /\ sock[Top.slot] \in Socket
    BY <1>3 DEF CallbackCall, TypeOK
  <2>3. sock' = [sock EXCEPT ![Top.slot] = Written(sock[Top.slot], Top.then)]
    BY <1>4 DEF CallbackReturns
  <2>4. \/ Written(sock[Top.slot], Top.then).type \in {sock[Top.slot].type, "AVAILABLE"}
        \/ /\ Top.then \in Attaching
           /\ Written(sock[Top.slot], Top.then).type \in {"CREATED", "CONNECT", "BIND", "LISTEN"}
    BY <2>2, WrittenState
  <2>5. \A j \in Slots : \/ sock'[j].type \in {sock[j].type, "AVAILABLE"}
                         \/ /\ sock[j].type = "ATTACH"
                            /\ sock'[j].type \in {"CREATED", "CONNECT", "BIND", "LISTEN"}
    BY <2>1, <2>2, <2>3, <2>4 DEF TypeOK
  <2> QED
    BY <1>2, <2>5, SameType DEF Lives, Moves
<1>5. CASE ClientAccepted
  <2>1. \A j \in Slots : sock'[j].type = sock[j].type
    BY <1>5 DEF ClientAccepted, TypeOK, Socket
  <2> QED
    BY <1>2, <2>1, SameType DEF Lives
<1>6. CASE ClientRejected
  <2>1. \A j \in Slots : sock'[j].type \in {sock[j].type, "AVAILABLE"}
    BY <1>6 DEF ClientRejected, Free
  <2> QED
    BY <1>2, <2>1, SameType DEF Lives
<1> QED
  BY <1>4, <1>5, <1>6 DEF Returns

LEMMA LifeCycleStep ==
    ASSUME Patient, ~FreeInCallback
    PROVE  TypeOK /\ CallsInTurn /\ [Next]_vars => CallsInTurn' /\ Lives
<1> SUFFICES ASSUME TypeOK, CallsInTurn, [Next]_vars
             PROVE  CallsInTurn' /\ Lives
  OBVIOUS
<1>1. ASSUME Module PROVE CallsInTurn' /\ Lives
  <2>1. UNCHANGED <<sock, call>>
    <3>1. ASSUME NEW d \in Dev, NEW id \in Ids, NEW ok \in BOOLEAN,
                 \/ AnswersAttach(d, id, ok) \/ Delivers(d, id)
                 \/ AcceptsClient(d, id) \/ Ends(d, id)
          PROVE  UNCHANGED <<sock, call>>
      BY <3>1 DEF AnswersAttach, Delivers, AcceptsClient, Ends
    <3>2. ASSUME NEW d \in Dev, NEW s \in sending[d], Reports(d, s)
          PROVE  UNCHANGED <<sock, call>>
      BY <3>2 DEF Reports
    <3>3. TRUE \in BOOLEAN
      OBVIOUS
    <3> QED
      BY <1>1, <3>1, <3>2, <3>3 DEF Module
  <2> QED
    BY <2>1, SameCalls, SameType DEF Lives
<1>2. ASSUME UNCHANGED vars PROVE CallsInTurn' /\ Lives
  BY <1>2, SameCalls, SameType DEF vars, Lives
<1> QED
  BY <1>1, <1>2, AppLives, CloseNextLives, HandleLives, ReturnsLives DEF Next

\* A socket moves through the states of the comment above socket_t, for tables,
\* modules and callbacks of any number, when the application waits for the Create
\* Response and frees no socket from a callback: without the second a handler
\* writes a state into a slot that its callback freed.
THEOREM LifeCycleHolds ==
    ASSUME Patient, ~FreeInCallback
    PROVE  Spec => LifeCycle
<1>1. Init => CallsInTurn
  BY DEF Init, CallsInTurn
<1>2. TypeOK /\ CallsInTurn /\ [Next]_vars => CallsInTurn' /\ Lives
  BY LifeCycleStep
<1>3. Lives => [\A i \in Slots : <<sock[i].type, sock'[i].type>> \in Moves]_vars
  BY DEF Lives
<1> QED
  BY <1>1, <1>2, <1>3, TypeCorrect, PTL DEF Spec, LifeCycle
-----------------------------------------------------------------------------
(* Whose socket it is.  A frame names its socket by an id that the module gives *)
(* out again, by the frame id of a request, which comes round, or, for a client, *)
(* by both the listener's id and its own.  The invariant says why none of them   *)
(* can be mistaken: what is on the way for an id is all about one socket, a slot *)
(* that has the id is that socket, and the module does not give out an id while  *)
(* its last word about it is unread.                                             *)

\* What is on the way from device d.
Queued(d) == {rx[d][k] : k \in 1 .. Len(rx[d])}

\* A callback for slot i runs, whose handler will do `then'.
Returning(i, then) == \E k \in 1 .. Len(call) : call[k].then = then /\ call[k].slot = i

\* Slot i waits for its id; slot i has one.  A slot that will be freed has neither.
Pending(i) == sock[i].type = "PENDING" /\ ~Returning(i, "free")
Named(i) == sock[i].type \notin {"AVAILABLE", "PENDING"} /\ ~Returning(i, "free")

\* Frame f says that socket u has the id, or that it has ended.
Names(f, id, u) == \/ f.id = id /\ f.uid = u
                   \/ f.kind = "ipv4_client" /\ f.client = id /\ f.clientUid = u
EndOf(f, id, u) == f.kind = "state" /\ ~f.ok /\ f.id = id /\ f.uid = u

\* Socket u has the id on the module, or word that it ended is on the way.
Known(d, id, u) == radio[d][id].uid = u \/ \E f \in Queued(d) : EndOf(f, id, u)
KnownAfter(d, k, id, u) ==
    radio[d][id].uid = u \/ \E j \in 1 .. Len(rx[d]) : k < j /\ EndOf(rx[d][j], id, u)

SlotsOK == \A i \in Slots :
    /\ InUse(i) => sock[i].uid \in Uid /\ sock[i].dev \in Dev
    /\ ~InUse(i) => sock[i].dev = NULL
    /\ sock[i].type = "PENDING" => sock[i].socket_id = 0
    /\ Named(i) => sock[i].socket_id \in Ids

\* Two slots are two sockets.
SlotsDiffer == \A i, j \in Slots : InUse(i) /\ InUse(j) /\ sock[i].uid = sock[j].uid => i = j

FramesOK == \A d \in Dev : \A f \in Queued(d) :
    /\ f.kind \notin {"create_resp", "tx_status"} => f.id \in Ids
    /\ f.kind = "create_resp" => f.id \in Ids \/ (~f.ok /\ f.id = 0)
    /\ f.kind = "tx_status" => f.id = 0 /\ f.frame # 0
    /\ f.kind = "ipv4_client" => f.client \in Ids /\ f.clientUid \in Uid

\* The Create Response of a pending slot is on the way, and is the only one with
\* its frame id.
CreateOwedTo(d, i) == Pending(i) /\ sock[i].dev = d =>
    /\ \E f \in Queued(d) : f.kind = "create_resp" /\ f.frame = sock[i].create_frame_id
    /\ \A f \in Queued(d) :
         f.kind = "create_resp" /\ f.frame = sock[i].create_frame_id => f.uid = sock[i].uid
CreateOwed == \A d \in Dev, i \in Slots : CreateOwedTo(d, i)

\* The frame ids, and sockets, of the payloads a TX Status is to come for.
Owed(d) ==
    sending[d] \cup {[uid |-> f.uid, frame |-> f.frame] :
                      f \in {g \in Queued(d) : g.kind = "tx_status"}}

\* The status a slot waits for is one of them, and the only one with its frame id.
StatusOwedTo(d, i) ==
    InUse(i) /\ sock[i].dev = d /\ sock[i].tx_frame_id # 0 /\ ~Returning(i, "sent") =>
      /\ \E s \in Owed(d) : s.frame = sock[i].tx_frame_id
      /\ \A s \in Owed(d) : s.frame = sock[i].tx_frame_id => s.uid = sock[i].uid
StatusOwed == \A d \in Dev, i \in Slots : StatusOwedTo(d, i)

\* What a slot calls its id is what the module and the frames on the way call it.
IdAgreesFor(d, i) == Named(i) /\ sock[i].dev = d =>
    /\ Known(d, sock[i].socket_id, sock[i].uid)
    /\ \A f \in Queued(d), u \in Mark : Names(f, sock[i].socket_id, u) => u = sock[i].uid
IdAgrees == \A d \in Dev, i \in Slots : IdAgreesFor(d, i)

\* An id names one socket in all the frames on the way, and on the module.
OneName == \A d \in Dev, id \in Ids, u \in Mark : \A f \in Queued(d) : Names(f, id, u) =>
    /\ \A v \in Mark : \A g \in Queued(d) : Names(g, id, v) => u = v
    /\ radio[d][id].uid \in {0, u}

\* The id in a Create Response, and of a client, is good until the module's word
\* that the socket ended, which comes later.
CreateStandsFor(d, i) == Pending(i) /\ sock[i].dev = d =>
    \A k \in 1 .. Len(rx[d]) :
      LET f == rx[d][k]
      IN  f.kind = "create_resp" /\ f.ok /\ f.uid = sock[i].uid => KnownAfter(d, k, f.id, f.uid)
CreateStands == \A d \in Dev, i \in Slots : CreateStandsFor(d, i)

ClientStandsFor(d, i) == InUse(i) /\ sock[i].type # "CONNECT" /\ sock[i].dev = d =>
    \A k \in 1 .. Len(rx[d]) :
      LET f == rx[d][k]
      IN  f.kind = "ipv4_client" /\ f.uid = sock[i].uid => KnownAfter(d, k, f.client, f.clientUid)
ClientStands == \A d \in Dev, i \in Slots : ClientStandsFor(d, i)

\* A client that is announced has no slot yet, and is announced once.
ClientsNew == \A d \in Dev : \A f \in Queued(d) : f.kind = "ipv4_client" =>
    \A i \in Slots : InUse(i) => sock[i].uid # f.clientUid

ClientsDiffer == \A d, e \in Dev : \A k \in 1 .. Len(rx[d]), l \in 1 .. Len(rx[e]) :
    rx[d][k].kind = "ipv4_client" /\ rx[e][l].kind = "ipv4_client"
      /\ rx[d][k].clientUid = rx[e][l].clientUid => d = e /\ k = l

\* The callback for a client a runs: the client has the slot it was given, no other.
ClientIs(a, u) ==
    /\ Known(a.dev, a.id, u)
    /\ \A i \in Slots : InUse(i) /\ sock[i].uid = u => i = a.client
    /\ a.client \in Slots => sock[a.client].uid = u /\ sock[a.client].type = "CONNECT"
    /\ \A d \in Dev : \A f \in Queued(d) : f.kind = "ipv4_client" => f.clientUid # u

AcceptRuns == call # <<>> /\ Top.then = "accept" =>
    Top.id \in Ids /\ \E u \in Uid : ClientIs(Top, u)

\* Of slot i, and device d.
SlotKept(d, i) == /\ CreateOwedTo(d, i) /\ StatusOwedTo(d, i) /\ IdAgreesFor(d, i)
                  /\ CreateStandsFor(d, i) /\ ClientStandsFor(d, i)

Tables == SlotsOK /\ SlotsDiffer
Answers == CreateOwed /\ StatusOwed
NamesOK == FramesOK /\ IdAgrees /\ OneName
Births == CreateStands /\ ClientStands /\ ClientsNew /\ ClientsDiffer
Identity == Tables /\ Answers /\ NamesOK /\ Births /\ AcceptRuns
-----------------------------------------------------------------------------
(* What is on the way, and the callbacks that run, before and after a step. *)

LEMMA QueueType ==
    ASSUME TypeOK, NEW d \in Dev
    PROVE  /\ rx[d] \in Seq(Frame) /\ Len(rx[d]) \in Nat
           /\ \A k \in 1 .. Len(rx[d]) : rx[d][k] \in Frame /\ rx[d][k] \in Queued(d)
           /\ \A f \in Queued(d) : f \in Frame
<1>1. rx[d] \in Seq(Frame)
  BY DEF TypeOK
<1> QED
  BY <1>1, LenProperties, ElementOfSeq DEF Queued

\* The module answers.
LEMMA Appended ==
    ASSUME TypeOK, NEW d \in Dev, NEW f, Answer(d, f)
    PROVE  /\ \A e \in Dev : Queued(e)' = IF e = d THEN Queued(e) \cup {f} ELSE Queued(e)
           /\ \A e \in Dev : e # d => rx'[e] = rx[e]
           /\ Len(rx[d]) \in Nat /\ Len(rx'[d]) = Len(rx[d]) + 1
           /\ \A k \in 1 .. Len(rx[d]) : rx'[d][k] = rx[d][k]
           /\ rx'[d][Len(rx[d]) + 1] = f
<1>1. rx' = [rx EXCEPT ![d] = Append(rx[d], f)] /\ rx \in [Dev -> Seq(Frame)]
  BY DEF Answer, TypeOK
<1>2. rx[d] \in Seq(Frame \cup {f})
  BY <1>1, SeqMonotonic
<1>3. /\ Len(rx[d]) \in Nat /\ Len(rx'[d]) = Len(rx[d]) + 1
      /\ \A k \in 1 .. Len(rx[d]) : rx'[d][k] = rx[d][k]
      /\ rx'[d][Len(rx[d]) + 1] = f
  BY <1>1, <1>2, AppendProperties, LenProperties
<1>4. \A e \in Dev : e # d => rx'[e] = rx[e]
  BY <1>1
<1>5. Queued(d)' = Queued(d) \cup {f}
  <2>1. 1 .. Len(rx[d]) + 1 = (1 .. Len(rx[d])) \cup {Len(rx[d]) + 1}
    BY <1>3
  <2> QED
    BY <1>3, <2>1 DEF Queued
<1>6. \A e \in Dev : e # d => Queued(e)' = Queued(e)
  BY <1>4 DEF Queued
<1> QED
  BY <1>3, <1>4, <1>5, <1>6

\* What is in the queue is what was, or the answer, which is last.
LEMMA AppendedAt ==
    ASSUME TypeOK, NEW d \in Dev, NEW f, Answer(d, f), NEW e \in Dev, NEW k \in 1 .. Len(rx'[e])
    PROVE  \/ k \in 1 .. Len(rx[e]) /\ rx'[e][k] = rx[e][k] /\ rx[e][k] \in Queued(e)
           \/ e = d /\ k = Len(rx[d]) + 1 /\ rx'[e][k] = f
<1>1. CASE e = d
  <2>1. /\ Len(rx[d]) \in Nat /\ Len(rx'[d]) = Len(rx[d]) + 1
        /\ \A l \in 1 .. Len(rx[d]) : rx'[d][l] = rx[d][l]
        /\ rx'[d][Len(rx[d]) + 1] = f
    BY Appended
  <2>2. k \in 1 .. Len(rx[d]) \/ k = Len(rx[d]) + 1
    BY <1>1, <2>1
  <2> QED
    BY <1>1, <2>1, <2>2 DEF Queued
<1>2. CASE e # d
  <2>1. rx'[e] = rx[e]
    BY <1>2, Appended
  <2> QED
    BY <2>1 DEF Queued
<1> QED
  BY <1>1, <1>2

\* The host reads a frame.
LEMMA Taken ==
    ASSUME TypeOK, NEW d \in Dev, NEW f, Receives(d, f)
    PROVE  /\ f \in Frame
           /\ Queued(d) = Queued(d)' \cup {f}
           /\ \A e \in Dev : e # d => rx'[e] = rx[e] /\ Queued(e)' = Queued(e)
           /\ Len(rx[d]) \in Nat \ {0} /\ Len(rx'[d]) = Len(rx[d]) - 1
           /\ \A k \in 1 .. Len(rx'[d]) : rx'[d][k] = rx[d][k + 1]
           /\ rx[d][1] = f
<1>1. /\ rx[d] \in Seq(Frame) /\ rx[d] # <<>> /\ f = Head(rx[d])
      /\ rx' = [rx EXCEPT ![d] = Tail(rx[d])] /\ rx \in [Dev -> Seq(Frame)]
  BY DEF TypeOK, Receives
<1>2. /\ Len(rx[d]) \in Nat \ {0} /\ Len(rx'[d]) = Len(rx[d]) - 1
      /\ \A k \in 1 .. Len(rx'[d]) : rx'[d][k] = rx[d][k + 1]
      /\ rx[d][1] = f /\ f \in Frame
  BY <1>1, EmptySeq, LenProperties, HeadTailProperties, ElementOfSeq
<1>3. \A e \in Dev : e # d => rx'[e] = rx[e]
  BY <1>1
<1>4. Queued(d) = Queued(d)' \cup {f}
  <2>1. ASSUME NEW k \in 1 .. Len(rx[d]) PROVE rx[d][k] \in Queued(d)' \cup {f}
    <3>1. k = 1 \/ k - 1 \in 1 .. Len(rx'[d])
      BY <1>2
    <3>2. k - 1 \in 1 .. Len(rx'[d]) => rx'[d][k - 1] = rx[d][k]
      BY <1>2
    <3> QED
      BY <1>2, <3>1, <3>2 DEF Queued
  <2>2. ASSUME NEW k \in 1 .. Len(rx'[d]) PROVE rx'[d][k] \in Queued(d)
    <3>1. k + 1 \in 1 .. Len(rx[d]) /\ rx'[d][k] = rx[d][k + 1]
      BY <1>2
    <3> QED
      BY <3>1 DEF Queued
  <2>3. f \in Queued(d)
    <3>1. 1 \in 1 .. Len(rx[d])
      BY <1>2
    <3> QED
      BY <1>2, <3>1 DEF Queued
  <2>4. Queued(d) \subseteq Queued(d)' \cup {f}
    BY <2>1 DEF Queued
  <2>5. Queued(d)' \subseteq Queued(d)
    BY <2>2 DEF Queued
  <2> QED
    BY <2>3, <2>4, <2>5
<1>5. \A e \in Dev : e # d => Queued(e)' = Queued(e)
  BY <1>3 DEF Queued
<1> QED
  BY <1>2, <1>3, <1>4, <1>5

LEMMA SameQueues ==
    ASSUME rx' = rx
    PROVE  \A e \in Dev : Queued(e)' = Queued(e) /\ rx'[e] = rx[e]
<1> QED
  BY DEF Queued

LEMMA NoCallback ==
    ASSUME call = <<>> \/ (call # <<>> /\ Top.then = "close_all" /\ TypeOK /\ CallsInTurn),
           NEW i, NEW then \in {"free", "sent"}
    PROVE  ~Returning(i, then)
<1>1. CASE call = <<>>
  BY <1>1 DEF Returning
<1>2. CASE call # <<>> /\ Top.then = "close_all" /\ TypeOK /\ CallsInTurn
  <2>1. \A k \in 1 .. Len(call) : call[k].then = "close_all"
    BY <1>2 DEF CallsInTurn, Top
  <2> QED
    BY <2>1 DEF Returning
<1> QED
  BY <1>1, <1>2

\* A handler calls the application.
LEMMA CalledBack ==
    ASSUME NEW a, call' = <<a>>, NEW i, NEW then
    PROVE  Returning(i, then)' <=> (a.then = then /\ a.slot = i)
<1> QED
  BY DEF Returning

\* The callback returns.
LEMMA CallbackEnds ==
    ASSUME TypeOK, CallsInTurn, call # <<>>, call' = Below, NEW i, NEW then \in {"free", "sent"}
    PROVE  /\ ~Returning(i, then)'
           /\ Returning(i, then) <=> (Top.then = then /\ Top.slot = i)
<1>1. /\ Len(Below) = Len(call) - 1
      /\ \A k \in 1 .. Len(Below) : Below[k].then = "close_all"
  BY UnderTop
<1>2. Len(call) \in Nat \ {0}
  <2>1. call \in Seq(Activation)
    BY DEF TypeOK, Activation
  <2> QED
    BY <2>1, StackPop
<1>3. ~Returning(i, then)'
  BY <1>1 DEF Returning
<1>4. \A k \in 1 .. Len(call) : k = Len(call) \/ call[k].then = "close_all"
  BY DEF CallsInTurn
<1>5. Len(call) \in 1 .. Len(call)
  BY <1>2
<1> QED
  BY <1>3, <1>4, <1>5 DEF Returning, Top

\* A closed socket is notified, on top of xbee_sock_close_all() or of nothing.
LEMMA Notified ==
    ASSUME NEW stack \in Seq(Activation), NEW i \in Slots,
           \A k \in 1 .. Len(stack) : stack[k].then = "close_all",
           CloseWritten(i, stack), NEW j, NEW then \in {"free", "sent"}
    PROVE  /\ Returning(j, then)' <=> (then = "free" /\ j = i)
           /\ call' # <<>> /\ Top'.then = "free"
<1> DEFINE a == Callback(i, "free", sock[i].uid, N, 0)
<1>1. /\ Len(call') = Len(stack) + 1
      /\ \A k \in 1 .. Len(stack) : call'[k] = stack[k]
      /\ call'[Len(stack) + 1] = a
      /\ call' # <<>>
  BY DEF CloseWritten
<1>2. a.then = "free" /\ a.slot = i
  BY DEF Callback
<1>3. Len(stack) \in Nat
  BY LenProperties
<1> HIDE DEF a
<1>4. Returning(j, then)' <=> (then = "free" /\ j = i)
  BY <1>1, <1>2, <1>3 DEF Returning
<1> QED
  BY <1>1, <1>2, <1>3, <1>4 DEF Top
-----------------------------------------------------------------------------
(* Steps that leave the sockets in their slots, or free slots. *)

Keeps(i) ==
    /\ InUse(i)' => /\ InUse(i)
                    /\ sock'[i].dev = sock[i].dev /\ sock'[i].uid = sock[i].uid
                    /\ sock'[i].socket_id = sock[i].socket_id
                    /\ sock'[i].create_frame_id = sock[i].create_frame_id
                    /\ sock'[i].type = "PENDING" <=> sock[i].type = "PENDING"
                    /\ sock'[i].tx_frame_id \in {0, sock[i].tx_frame_id}
                    /\ sock[i].type = "CONNECT" => sock'[i].type = "CONNECT"
    /\ ~InUse(i)' => sock'[i].dev = NULL
    /\ Pending(i)' => Pending(i)
    /\ Named(i)' => Named(i)
    /\ sock'[i].tx_frame_id # 0 /\ Returning(i, "sent") => Returning(i, "sent")'

SameIds == \A d \in Dev, id \in Ids : radio'[d][id].uid = radio[d][id].uid

LEMMA KeepTables ==
    ASSUME Tables, \A i \in Slots : Keeps(i)
    PROVE  Tables'
<1>1. SlotsOK'
  BY DEF Keeps, Tables, SlotsOK, InUse, Named
<1>2. SlotsDiffer'
  BY DEF Keeps, Tables, SlotsDiffer, InUse
<1> QED
  BY <1>1, <1>2 DEF Tables

\* An id is known for one socket.
LEMMA KnownOne ==
    ASSUME TypeOK, NamesOK, NEW d \in Dev, NEW id \in Ids, NEW u \in Uid, Known(d, id, u)
    PROVE  /\ radio[d][id].uid \in {0, u}
           /\ \A f \in Queued(d), v \in Mark : Names(f, id, v) => v = u
           /\ \A v \in Uid : Known(d, id, v) => v = u
<1>1. u \in Mark /\ Uid \subseteq Mark /\ 0 \notin Uid
  BY SockAssumption DEF Mark
<1>2. radio[d][id].uid = u \/ \E f \in Queued(d) : Names(f, id, u)
  BY DEF Known, EndOf, Names
<1>3. radio[d][id].uid \in {0, u} /\ \A f \in Queued(d), v \in Mark : Names(f, id, v) => v = u
  <2>1. CASE radio[d][id].uid = u
    BY <1>1, <2>1 DEF NamesOK, OneName
  <2>2. ASSUME NEW f \in Queued(d), Names(f, id, u)
        PROVE  /\ radio[d][id].uid \in {0, u}
               /\ \A g \in Queued(d), v \in Mark : Names(g, id, v) => v = u
    BY <1>1, <2>2 DEF NamesOK, OneName
  <2> QED
    BY <1>2, <2>1, <2>2
<1>4. ASSUME NEW v \in Uid, Known(d, id, v) PROVE v = u
  <2>1. radio[d][id].uid = v \/ \E f \in Queued(d) : Names(f, id, v)
    BY <1>4 DEF Known, EndOf, Names
  <2> QED
    BY <1>1, <1>3, <2>1
<1> QED
  BY <1>3, <1>4

\* The link is as it was.
LEMMA SameLink ==
    ASSUME TypeOK, Tables, Answers, NamesOK, Births, \A i \in Slots : Keeps(i),
           SameIds, rx' = rx, sending' = sending
    PROVE  Tables' /\ Answers' /\ NamesOK' /\ Births'
<1>1. \A e \in Dev : Queued(e)' = Queued(e) /\ rx'[e] = rx[e]
  BY SameQueues
<1>2. \A i \in Slots : Named(i)' \/ Pending(i)' => InUse(i)'
  BY DEF Named, Pending, InUse
<1>3. CreateOwed'
  BY <1>1, <1>2 DEF Keeps, Answers, CreateOwed, CreateOwedTo
<1>4. StatusOwed'
  <2>1. \A e \in Dev : Owed(e)' = Owed(e)
    BY <1>1 DEF Owed
  <2> QED
    BY <2>1 DEF Keeps, Answers, StatusOwed, StatusOwedTo
<1>5. FramesOK'
  BY <1>1 DEF NamesOK, FramesOK
<1>6. \A e \in Dev, id \in Ids : \A u : Known(e, id, u)' = Known(e, id, u)
  BY <1>1 DEF SameIds, Known
<1>7. IdAgrees'
  BY <1>1, <1>2, <1>6 DEF Keeps, NamesOK, IdAgrees, IdAgreesFor, Tables, SlotsOK
<1>8. OneName'
  BY <1>1 DEF SameIds, NamesOK, OneName
<1>9. \A e \in Dev, id \in Ids : \A u, k : KnownAfter(e, k, id, u)' = KnownAfter(e, k, id, u)
  BY <1>1 DEF SameIds, KnownAfter
<1>10. CreateStands'
  <2> SUFFICES ASSUME NEW d \in Dev, NEW i \in Slots, Pending(i)', sock'[i].dev = d,
                      NEW k \in 1 .. Len(rx[d]),
                      rx[d][k].kind = "create_resp", rx[d][k].ok, rx[d][k].uid = sock'[i].uid
               PROVE  KnownAfter(d, k, rx[d][k].id, rx[d][k].uid)'
    BY <1>1 DEF CreateStands, CreateStandsFor
  <2>1. Pending(i) /\ sock[i].dev = d /\ sock[i].uid = rx[d][k].uid
    BY <1>2 DEF Keeps
  <2>2. KnownAfter(d, k, rx[d][k].id, rx[d][k].uid)
    BY <2>1 DEF Births, CreateStands, CreateStandsFor
  <2>3. rx[d][k].id \in Ids
    BY QueueType DEF NamesOK, FramesOK
  <2> QED
    BY <1>9, <2>2, <2>3
<1>11. ClientStands'
  <2> SUFFICES ASSUME NEW d \in Dev, NEW i \in Slots, InUse(i)', sock'[i].type # "CONNECT",
                      sock'[i].dev = d,
                      NEW k \in 1 .. Len(rx[d]),
                      rx[d][k].kind = "ipv4_client", rx[d][k].uid = sock'[i].uid
               PROVE  KnownAfter(d, k, rx[d][k].client, rx[d][k].clientUid)'
    BY <1>1 DEF ClientStands, ClientStandsFor
  <2>1. InUse(i) /\ sock[i].type # "CONNECT" /\ sock[i].dev = d /\ sock[i].uid = rx[d][k].uid
    BY DEF Keeps
  <2>2. KnownAfter(d, k, rx[d][k].client, rx[d][k].clientUid)
    BY <2>1 DEF Births, ClientStands, ClientStandsFor
  <2>3. rx[d][k].client \in Ids
    BY QueueType DEF NamesOK, FramesOK
  <2> QED
    BY <1>9, <2>2, <2>3
<1>12. ClientsNew'
  BY <1>1 DEF Keeps, Births, ClientsNew
<1>13. ClientsDiffer'
  BY <1>1 DEF Births, ClientsDiffer
<1> QED
  BY <1>3, <1>4, <1>5, <1>7, <1>8, <1>10, <1>11, <1>12, <1>13, KeepTables
     DEF Answers, NamesOK, Births

\* What an answer leaves known: a socket's id is on the module as it was, is given
\* out, or is taken back with word of the end.
Tells(d, f) == \A e \in Dev, id \in Ids :
    \/ radio'[e][id].uid = radio[e][id].uid
    \/ radio[e][id].uid = 0
    \/ radio'[e][id].uid = 0 /\ e = d /\ EndOf(f, id, radio[e][id].uid)

LEMMA StillKnown ==
    ASSUME TypeOK, NEW d \in Dev, NEW f, Answer(d, f), Tells(d, f)
    PROVE  /\ \A e \in Dev, id \in Ids, u \in Uid : Known(e, id, u) => Known(e, id, u)'
           /\ \A e \in Dev, id \in Ids, u \in Uid : \A k \in 1 .. Len(rx[e]) :
                KnownAfter(e, k, id, u) => KnownAfter(e, k, id, u)'
<1>1. 0 \notin Uid
  BY SockAssumption
<1>2. /\ \A e \in Dev : Queued(e)' = IF e = d THEN Queued(e) \cup {f} ELSE Queued(e)
      /\ \A e \in Dev : e # d => rx'[e] = rx[e]
      /\ Len(rx[d]) \in Nat /\ Len(rx'[d]) = Len(rx[d]) + 1
      /\ \A k \in 1 .. Len(rx[d]) : rx'[d][k] = rx[d][k]
      /\ rx'[d][Len(rx[d]) + 1] = f
  BY Appended
<1>3. ASSUME NEW e \in Dev, NEW id \in Ids, NEW u \in Uid, Known(e, id, u)
      PROVE  Known(e, id, u)'
  <2>1. \/ radio'[e][id].uid = u \/ (e = d /\ EndOf(f, id, u))
        \/ \E g \in Queued(e) : EndOf(g, id, u)
    BY <1>1, <1>3 DEF Known, Tells
  <2> QED
    BY <1>2, <2>1 DEF Known
<1>4. ASSUME NEW e \in Dev, NEW id \in Ids, NEW u \in Uid, NEW k \in 1 .. Len(rx[e]),
             KnownAfter(e, k, id, u)
      PROVE  KnownAfter(e, k, id, u)'
  <2>1. CASE radio'[e][id].uid = u
    BY <2>1 DEF KnownAfter
  <2>2. CASE e = d /\ EndOf(f, id, u)
    <3>1. Len(rx[d]) + 1 \in 1 .. Len(rx'[d]) /\ k < Len(rx[d]) + 1
      BY <1>2, <2>2
    <3> QED
      BY <1>2, <2>2, <3>1 DEF KnownAfter
  <2>3. ASSUME NEW j \in 1 .. Len(rx[e]), k < j, EndOf(rx[e][j], id, u)
        PROVE  KnownAfter(e, k, id, u)'
    <3>1. j \in 1 .. Len(rx'[e]) /\ rx'[e][j] = rx[e][j]
      BY <1>2
    <3> QED
      BY <2>3, <3>1 DEF KnownAfter
  <2> QED
    BY <1>1, <1>4, <2>1, <2>2, <2>3 DEF KnownAfter, Tells
<1> QED
  BY <1>3, <1>4

\* An answer about a socket that is known, or a TX Status.
LEMMA Answered ==
    ASSUME TypeOK, Tables, Answers, NamesOK, Births, \A i \in Slots : Keeps(i),
           0 \notin Ids, NEW d \in Dev, NEW f \in Frame, Answer(d, f), Tells(d, f),
           \A e \in Dev, id \in Ids : radio'[e][id].uid \in {0, radio[e][id].uid},
           \A e \in Dev : Owed(e)' = Owed(e),
           f.kind \notin {"create_resp", "ipv4_client"},
           \/ f.kind = "tx_status" /\ f.id = 0 /\ f.frame # 0
           \/ f.kind # "tx_status" /\ f.id \in Ids /\ f.uid \in Uid /\ Known(d, f.id, f.uid)
    PROVE  Tables' /\ Answers' /\ NamesOK' /\ Births'
<1>1. /\ \A e \in Dev : Queued(e)' = IF e = d THEN Queued(e) \cup {f} ELSE Queued(e)
      /\ \A e \in Dev : e # d => rx'[e] = rx[e]
      /\ Len(rx[d]) \in Nat /\ Len(rx'[d]) = Len(rx[d]) + 1
      /\ \A k \in 1 .. Len(rx[d]) : rx'[d][k] = rx[d][k]
      /\ rx'[d][Len(rx[d]) + 1] = f
  BY Appended
<1>2. \A i \in Slots : Named(i)' \/ Pending(i)' => InUse(i)'
  BY DEF Named, Pending, InUse
<1>3. CreateOwed'
  BY <1>1, <1>2 DEF Keeps, Answers, CreateOwed, CreateOwedTo
<1>4. StatusOwed'
  BY DEF Keeps, Answers, StatusOwed, StatusOwedTo
<1>5. FramesOK'
  BY <1>1 DEF NamesOK, FramesOK
<1>6. /\ \A e \in Dev, id \in Ids, u \in Uid : Known(e, id, u) => Known(e, id, u)'
      /\ \A e \in Dev, id \in Ids, u \in Uid : \A k \in 1 .. Len(rx[e]) :
           KnownAfter(e, k, id, u) => KnownAfter(e, k, id, u)'
  BY StillKnown
\* What the new frame names is known of, and known for that socket only.
<1>7. ASSUME NEW id \in Ids, NEW u \in Mark, Names(f, id, u)
      PROVE  /\ u \in Uid /\ id = f.id /\ u = f.uid
             /\ radio[d][id].uid \in {0, u}
             /\ \A g \in Queued(d), v \in Mark : Names(g, id, v) => v = u
             /\ \A v \in Uid : Known(d, id, v) => v = u
  <2>1. u \in Uid /\ id = f.id /\ u = f.uid /\ Known(d, id, u)
    BY <1>7 DEF Names
  <2> QED
    BY <2>1, KnownOne
<1>8. IdAgrees'
  <2> SUFFICES ASSUME NEW e \in Dev, NEW i \in Slots, Named(i)', sock'[i].dev = e
               PROVE  /\ Known(e, sock[i].socket_id, sock[i].uid)'
                      /\ \A g \in Queued(e)', v \in Mark :
                           Names(g, sock[i].socket_id, v) => v = sock[i].uid
    BY <1>2 DEF IdAgrees, IdAgreesFor, Keeps
  <2>1. /\ Named(i) /\ sock[i].dev = e /\ InUse(i)
        /\ sock'[i].socket_id = sock[i].socket_id /\ sock'[i].uid = sock[i].uid
        /\ sock[i].socket_id \in Ids /\ sock[i].uid \in Uid
    BY <1>2 DEF Keeps, Tables, SlotsOK
  <2>2. /\ Known(e, sock[i].socket_id, sock[i].uid)
        /\ \A g \in Queued(e), v \in Mark : Names(g, sock[i].socket_id, v) => v = sock[i].uid
    BY <2>1 DEF NamesOK, IdAgrees, IdAgreesFor
  <2> QED
    BY <1>1, <1>6, <1>7, <2>1, <2>2
<1>9. OneName'
  <2> SUFFICES ASSUME NEW e \in Dev, NEW id \in Ids, NEW u \in Mark, NEW g \in Queued(e)',
                      Names(g, id, u)
               PROVE  /\ \A v \in Mark : \A h \in Queued(e)' : Names(h, id, v) => u = v
                      /\ radio'[e][id].uid \in {0, u}
    BY DEF OneName
  <2>1. CASE g \in Queued(e)
    BY <1>1, <1>7, <2>1 DEF NamesOK, OneName
  <2>2. CASE e = d /\ g = f
    BY <1>1, <1>7, <2>2
  <2> QED
    BY <1>1, <2>1, <2>2
<1>10. CreateStands'
  <2> SUFFICES ASSUME NEW e \in Dev, NEW i \in Slots, Pending(i)', sock'[i].dev = e,
                      NEW k \in 1 .. Len(rx'[e]), NEW g, g = rx'[e][k],
                      g.kind = "create_resp", g.ok, g.uid = sock'[i].uid
               PROVE  KnownAfter(e, k, g.id, g.uid)'
    BY DEF CreateStands, CreateStandsFor
  <2>1. Pending(i) /\ sock[i].dev = e /\ sock'[i].uid = sock[i].uid /\ sock[i].uid \in Uid
    BY <1>2 DEF Keeps, Tables, SlotsOK
  <2>2. k \in 1 .. Len(rx[e]) /\ g = rx[e][k]
    BY <1>1
  <2>3. KnownAfter(e, k, g.id, g.uid)
    BY <2>1, <2>2 DEF Births, CreateStands, CreateStandsFor
  <2>4. g.id \in Ids
    BY <2>2, QueueType DEF NamesOK, FramesOK
  <2> QED
    BY <1>6, <2>1, <2>2, <2>3, <2>4
<1>11. ClientStands'
  <2> SUFFICES ASSUME NEW e \in Dev, NEW i \in Slots, InUse(i)', sock'[i].type # "CONNECT",
                      sock'[i].dev = e,
                      NEW k \in 1 .. Len(rx'[e]), NEW g, g = rx'[e][k],
                      g.kind = "ipv4_client", g.uid = sock'[i].uid
               PROVE  KnownAfter(e, k, g.client, g.clientUid)'
    BY DEF ClientStands, ClientStandsFor
  <2>1. InUse(i) /\ sock[i].type # "CONNECT" /\ sock[i].dev = e /\ sock'[i].uid = sock[i].uid
    BY DEF Keeps
  <2>2. k \in 1 .. Len(rx[e]) /\ g = rx[e][k]
    BY <1>1
  <2>3. KnownAfter(e, k, g.client, g.clientUid)
    BY <2>1, <2>2 DEF Births, ClientStands, ClientStandsFor
  <2>4. g.client \in Ids /\ g.clientUid \in Uid
    BY <2>2, QueueType DEF NamesOK, FramesOK
  <2> QED
    BY <1>6, <2>2, <2>3, <2>4
<1>12. ClientsNew'
  BY <1>1 DEF Keeps, Births, ClientsNew
<1>13. ClientsDiffer'
  <2> SUFFICES ASSUME NEW c \in Dev, NEW e \in Dev, NEW k \in 1 .. Len(rx'[c]),
                      NEW l \in 1 .. Len(rx'[e]),
                      rx'[c][k].kind = "ipv4_client", rx'[e][l].kind = "ipv4_client",
                      rx'[c][k].clientUid = rx'[e][l].clientUid
               PROVE  c = e /\ k = l
    BY DEF ClientsDiffer
  <2>1. k \in 1 .. Len(rx[c]) /\ rx'[c][k] = rx[c][k]
    BY AppendedAt
  <2>2. l \in 1 .. Len(rx[e]) /\ rx'[e][l] = rx[e][l]
    BY AppendedAt
  <2> QED
    BY <2>1, <2>2 DEF Births, ClientsDiffer
<1> QED
  BY <1>3, <1>4, <1>5, <1>8, <1>9, <1>10, <1>11, <1>12, <1>13, KeepTables
     DEF Answers, NamesOK, Births

\* The module forgets ids in C, which no socket on the host uses, or will use.
Forgets(d, C) == \A e \in Dev, id \in Ids :
    \/ radio'[e][id].uid = radio[e][id].uid
    \/ e = d /\ id \in C /\ radio'[e][id].uid = 0

Spares(d, C) == \A i \in Slots : InUse(i)' /\ sock'[i].dev = d =>
    /\ Named(i)' => sock[i].socket_id \notin C
    /\ Pending(i)' => \A f \in Queued(d) :
         f.kind = "create_resp" /\ f.uid = sock[i].uid => f.id \notin C
    /\ \A f \in Queued(d) :
         f.kind = "ipv4_client" /\ f.uid = sock[i].uid => f.client \notin C

LEMMA Forgotten ==
    ASSUME TypeOK, Tables, Answers, NamesOK, Births, \A i \in Slots : Keeps(i),
           NEW d \in Dev, NEW C, Forgets(d, C), Spares(d, C),
           rx' = rx, sending' = sending
    PROVE  Tables' /\ Answers' /\ NamesOK' /\ Births'
<1>1. \A e \in Dev : Queued(e)' = Queued(e) /\ rx'[e] = rx[e]
  BY SameQueues
<1>2. \A i \in Slots : Named(i)' \/ Pending(i)' => InUse(i)'
  BY DEF Named, Pending, InUse
<1>3. CreateOwed'
  BY <1>1, <1>2 DEF Keeps, Answers, CreateOwed, CreateOwedTo
<1>4. StatusOwed'
  <2>1. \A e \in Dev : Owed(e)' = Owed(e)
    BY <1>1 DEF Owed
  <2> QED
    BY <2>1 DEF Keeps, Answers, StatusOwed, StatusOwedTo
<1>5. FramesOK'
  BY <1>1 DEF NamesOK, FramesOK
<1>6. /\ \A e \in Dev, id \in Ids, u \in Uid :
           Known(e, id, u) /\ (e = d => id \notin C) => Known(e, id, u)'
      /\ \A e \in Dev, id \in Ids, u \in Uid : \A k :
           KnownAfter(e, k, id, u) /\ (e = d => id \notin C) => KnownAfter(e, k, id, u)'
  BY <1>1 DEF Known, KnownAfter, Forgets
<1>7. IdAgrees'
  <2> SUFFICES ASSUME NEW e \in Dev, NEW i \in Slots, Named(i)', sock'[i].dev = e
               PROVE  /\ Known(e, sock[i].socket_id, sock[i].uid)'
                      /\ \A g \in Queued(e)', v \in Mark :
                           Names(g, sock[i].socket_id, v) => v = sock[i].uid
    BY <1>2 DEF IdAgrees, IdAgreesFor, Keeps
  <2>1. /\ Named(i) /\ sock[i].dev = e /\ InUse(i)
        /\ sock'[i].socket_id = sock[i].socket_id /\ sock'[i].uid = sock[i].uid
        /\ sock[i].socket_id \in Ids /\ sock[i].uid \in Uid
        /\ e = d => sock[i].socket_id \notin C
    BY <1>2 DEF Keeps, Tables, SlotsOK, Spares
  <2>2. /\ Known(e, sock[i].socket_id, sock[i].uid)
        /\ \A g \in Queued(e), v \in Mark : Names(g, sock[i].socket_id, v) => v = sock[i].uid
    BY <2>1 DEF NamesOK, IdAgrees, IdAgreesFor
  <2> QED
    BY <1>1, <1>6, <2>1, <2>2
<1>8. OneName'
  BY <1>1 DEF NamesOK, OneName, Forgets
<1>9. CreateStands'
  <2> SUFFICES ASSUME NEW e \in Dev, NEW i \in Slots, Pending(i)', sock'[i].dev = e,
                      NEW k \in 1 .. Len(rx[e]), NEW g, g = rx[e][k],
                      g.kind = "create_resp", g.ok, g.uid = sock'[i].uid
               PROVE  KnownAfter(e, k, g.id, g.uid)'
    BY <1>1 DEF CreateStands, CreateStandsFor
  <2>1. Pending(i) /\ sock[i].dev = e /\ sock'[i].uid = sock[i].uid /\ sock[i].uid \in Uid
    BY <1>2 DEF Keeps, Tables, SlotsOK
  <2>2. KnownAfter(e, k, g.id, g.uid)
    BY <2>1 DEF Births, CreateStands, CreateStandsFor
  <2>3. g \in Queued(e) /\ g.id \in Ids
    BY QueueType DEF NamesOK, FramesOK
  <2>4. e = d => g.id \notin C
    BY <1>2, <2>1, <2>3 DEF Spares
  <2> QED
    BY <1>6, <2>1, <2>2, <2>3, <2>4
<1>10. ClientStands'
  <2> SUFFICES ASSUME NEW e \in Dev, NEW i \in Slots, InUse(i)', sock'[i].type # "CONNECT",
                      sock'[i].dev = e,
                      NEW k \in 1 .. Len(rx[e]), NEW g, g = rx[e][k],
                      g.kind = "ipv4_client", g.uid = sock'[i].uid
               PROVE  KnownAfter(e, k, g.client, g.clientUid)'
    BY <1>1 DEF ClientStands, ClientStandsFor
  <2>1. InUse(i) /\ sock[i].type # "CONNECT" /\ sock[i].dev = e /\ sock'[i].uid = sock[i].uid
    BY DEF Keeps
  <2>2. KnownAfter(e, k, g.client, g.clientUid)
    BY <2>1 DEF Births, ClientStands, ClientStandsFor
  <2>3. g \in Queued(e) /\ g.client \in Ids /\ g.clientUid \in Uid
    BY QueueType DEF NamesOK, FramesOK
  <2>4. e = d => g.client \notin C
    BY <2>1, <2>3 DEF Spares
  <2> QED
    BY <1>6, <2>2, <2>3, <2>4
<1>11. ClientsNew'
  BY <1>1 DEF Keeps, Births, ClientsNew
<1>12. ClientsDiffer'
  BY <1>1 DEF Births, ClientsDiffer
<1> QED
  BY <1>3, <1>4, <1>5, <1>7, <1>8, <1>9, <1>10, <1>11, <1>12, KeepTables
     DEF Answers, NamesOK, Births

\* The id of a socket is that of no other, nor of one to come.
LEMMA IdIsOwn ==
    ASSUME TypeOK, Tables, NamesOK, Births, NEW i \in Slots, Named(i)
    PROVE  /\ \A j \in Slots : Named(j) /\ sock[j].dev = sock[i].dev
                /\ sock[j].socket_id = sock[i].socket_id => j = i
           /\ \A f \in Queued(sock[i].dev) :
                /\ f.id = sock[i].socket_id => f.uid = sock[i].uid
                /\ f.kind = "ipv4_client" => f.client # sock[i].socket_id
<1>1. InUse(i) /\ sock[i].dev \in Dev /\ sock[i].uid \in Uid /\ sock[i].socket_id \in Ids
  BY DEF Named, InUse, Tables, SlotsOK
<1>2. Known(sock[i].dev, sock[i].socket_id, sock[i].uid)
  BY <1>1 DEF NamesOK, IdAgrees, IdAgreesFor
<1>3. ASSUME NEW j \in Slots, Named(j), sock[j].dev = sock[i].dev,
             sock[j].socket_id = sock[i].socket_id
      PROVE  j = i
  <2>1. InUse(j) /\ sock[j].uid \in Uid /\ Known(sock[i].dev, sock[i].socket_id, sock[j].uid)
    BY <1>1, <1>3 DEF Named, InUse, Tables, SlotsOK, NamesOK, IdAgrees, IdAgreesFor
  <2>2. sock[j].uid = sock[i].uid
    BY <1>1, <1>2, <2>1, KnownOne
  <2> QED
    BY <1>1, <2>1, <2>2 DEF Tables, SlotsDiffer
<1>4. ASSUME NEW f \in Queued(sock[i].dev)
      PROVE  /\ f.id = sock[i].socket_id => f.uid = sock[i].uid
             /\ f.kind = "ipv4_client" => f.client # sock[i].socket_id
  <2>1. f \in Frame
    BY <1>1, QueueType
  <2>2. f.uid \in Mark /\ f.clientUid \in Mark
    BY <2>1 DEF Frame
  <2>3. \A v \in Mark : Names(f, sock[i].socket_id, v) => v = sock[i].uid
    BY <1>1, <1>2, KnownOne
  <2>4. f.kind = "ipv4_client" => f.clientUid # sock[i].uid
    BY <1>1 DEF Births, ClientsNew
  <2> QED
    BY <2>2, <2>3, <2>4 DEF Names
<1> QED
  BY <1>3, <1>4

\* The callback for a client goes on.
LEMMA StillAccepts ==
    ASSUME TypeOK, AcceptRuns, call' = call,
           \A e \in Dev, id \in Ids, u \in Uid : Known(e, id, u) => Known(e, id, u)',
           \A i \in Slots : InUse(i)' =>
             (InUse(i) /\ sock'[i].uid = sock[i].uid) \/ sock'[i].uid \notin KnownUid,
           \A i \in Slots : sock[i].type = "CONNECT" =>
             sock'[i].type = "CONNECT" /\ sock'[i].uid = sock[i].uid,
           \A e \in Dev : \A f \in Queued(e)' :
             f.kind = "ipv4_client" => f \in Queued(e) \/ f.clientUid \notin KnownUid
    PROVE  AcceptRuns'
<1> SUFFICES ASSUME call # <<>>, NEW a, a = Top, Top' = a, a.then = "accept"
             PROVE  a.id \in Ids /\ \E u \in Uid : ClientIs(a, u)'
  BY DEF AcceptRuns, Top
<1>1. a \in CallbackCall
  BY PopType DEF Activation, CloseAllCall
<1>2. a.id \in Ids /\ a.dev \in Dev
  BY <1>1 DEF AcceptRuns, CallbackCall
<1>3. PICK u \in Uid : ClientIs(a, u)
  BY DEF AcceptRuns
<1>4. u \in KnownUid
  <2>1. CASE radio[a.dev][a.id].uid = u
    BY <1>2, <2>1 DEF KnownUid
  <2>2. ASSUME NEW f \in Queued(a.dev), EndOf(f, a.id, u)
        PROVE  u \in KnownUid
    <3>1. PICK k \in 1 .. Len(rx[a.dev]) : f = rx[a.dev][k]
      BY DEF Queued
    <3>2. u \in {rx[a.dev][l].uid : l \in 1 .. Len(rx[a.dev])}
      BY <2>2, <3>1 DEF EndOf
    <3> QED
      BY <1>2, <3>2 DEF KnownUid
  <2> QED
    BY <1>3, <2>1, <2>2 DEF ClientIs, Known
<1>5. Known(a.dev, a.id, u)'
  BY <1>2, <1>3 DEF ClientIs
<1>6. \A i \in Slots : InUse(i)' /\ sock'[i].uid = u => i = a.client
  BY <1>3, <1>4 DEF ClientIs
<1>7. a.client \in Slots => sock'[a.client].uid = u /\ sock'[a.client].type = "CONNECT"
  BY <1>3 DEF ClientIs
<1>8. \A d \in Dev : \A f \in Queued(d)' : f.kind = "ipv4_client" => f.clientUid # u
  BY <1>3, <1>4 DEF ClientIs
<1> QED
  BY <1>2, <1>5, <1>6, <1>7, <1>8 DEF ClientIs

LEMMA CallbackGone ==
    ASSUME TypeOK, CallsInTurn, call # <<>>, call' = Below
    PROVE  AcceptRuns'
<1>1. \A k \in 1 .. Len(Below) : Below[k].then = "close_all"
  BY UnderTop
<1>2. Len(Below) \in Nat /\ (Below # <<>> => Len(Below) # 0)
  BY UnderTop, LenProperties, EmptySeq
<1>3. Below # <<>> => Below[Len(Below)].then = "close_all"
  BY <1>1, <1>2
<1> QED
  BY <1>3 DEF AcceptRuns, Top

\* The stack is as it was, and slots change in what the invariant does not speak of.
LEMMA KeptSlots ==
    ASSUME SlotsOK, call' = call,
           \A i \in Slots :
             /\ sock'[i].dev = sock[i].dev /\ sock'[i].uid = sock[i].uid
             /\ sock'[i].socket_id = sock[i].socket_id
             /\ sock'[i].create_frame_id = sock[i].create_frame_id
             /\ sock'[i].tx_frame_id = sock[i].tx_frame_id
             /\ \/ sock'[i].type = sock[i].type
                \/ sock[i].type = "CREATED" /\ sock'[i].type = "ATTACH"
    PROVE  \A i \in Slots : Keeps(i)
<1>1. \A i : Returning(i, "free")' <=> Returning(i, "free")
  BY DEF Returning
<1>2. \A i : Returning(i, "sent")' <=> Returning(i, "sent")
  BY DEF Returning
<1> QED
  BY <1>1, <1>2 DEF Keeps, InUse, Pending, Named, SlotsOK

LEMMA SameAccepts ==
    ASSUME TypeOK, AcceptRuns, \A i \in Slots : Keeps(i), call' = call,
           \A i \in Slots : sock[i].type = "CONNECT" => sock'[i].type = "CONNECT",
           \A e \in Dev, id \in Ids, u \in Uid : Known(e, id, u) => Known(e, id, u)',
           \A e \in Dev : \A f \in Queued(e)' : f.kind = "ipv4_client" => f \in Queued(e)
    PROVE  AcceptRuns'
<1>1. \A i \in Slots : InUse(i)' =>
        (InUse(i) /\ sock'[i].uid = sock[i].uid) \/ sock'[i].uid \notin KnownUid
  BY DEF Keeps
<1>2. \A i \in Slots : sock[i].type = "CONNECT" =>
        sock'[i].type = "CONNECT" /\ sock'[i].uid = sock[i].uid
  BY DEF Keeps, InUse
<1> QED
  BY <1>1, <1>2, StillAccepts

LEMMA SameLinkIdentity ==
    ASSUME TypeOK, Identity, \A i \in Slots : Keeps(i), call' = call,
           \A i \in Slots : sock[i].type = "CONNECT" => sock'[i].type = "CONNECT",
           SameIds, rx' = rx, sending' = sending
    PROVE  Identity'
<1>1. \A e \in Dev : Queued(e)' = Queued(e)
  BY SameQueues
<1>2. \A e \in Dev, id \in Ids, u \in Uid : Known(e, id, u) => Known(e, id, u)'
  BY <1>1 DEF Known, SameIds
<1>3. AcceptRuns'
  BY <1>1, <1>2, SameAccepts DEF Identity
<1> QED
  BY <1>3, SameLink DEF Identity

\* A request, or the module on its own, has a frame sent about a socket.
LEMMA AnsweredIdentity ==
    ASSUME TypeOK, Identity, 0 \notin Ids, \A i \in Slots : Keeps(i), call' = call,
           \A i \in Slots : sock[i].type = "CONNECT" => sock'[i].type = "CONNECT",
           NEW d \in Dev, NEW f \in Frame, Answer(d, f), sending' = sending,
           f.kind \notin {"create_resp", "tx_status", "ipv4_client"},
           f.id \in Ids, f.uid \in Uid, Known(d, f.id, f.uid),
           \/ radio' = radio
           \/ \A e \in Dev, id \in Ids :
                 \/ radio'[e][id].uid = radio[e][id].uid
                 \/ radio'[e][id].uid = 0 /\ e = d /\ EndOf(f, id, radio[e][id].uid)
    PROVE  Identity'
<1>1. \A e \in Dev : Queued(e)' = IF e = d THEN Queued(e) \cup {f} ELSE Queued(e)
  BY Appended
<1>2. \A e \in Dev : Owed(e)' = Owed(e)
  BY <1>1 DEF Owed
<1>3. Tells(d, f) /\ \A e \in Dev, id \in Ids : radio'[e][id].uid \in {0, radio[e][id].uid}
  BY DEF Tells
<1>4. AcceptRuns'
  BY <1>1, <1>3, StillKnown, SameAccepts DEF Identity
<1> QED
  BY <1>2, <1>3, <1>4, Answered DEF Identity

\* A socket that the application holds is known by its id.
LEMMA HeldNamed ==
    ASSUME TypeOK, Tables, NamesOK, Patient, NEW i \in Slots, Holds(i), InUse(i)
    PROVE  /\ Named(i) /\ sock[i].dev \in Dev /\ sock[i].uid \in Uid
           /\ sock[i].socket_id \in Ids
           /\ Known(sock[i].dev, sock[i].socket_id, sock[i].uid)
<1>1. Named(i)
  BY DEF Holds, InUse, Named, Returning
<1> QED
  BY <1>1 DEF Tables, SlotsOK, NamesOK, IdAgrees, IdAgreesFor

LEMMA AttachIdentity ==
    ASSUME TypeOK, Identity, Patient, 0 \notin Ids,
           NEW i \in Slots, NEW op, NEW handler, Attach(i, op, handler)
    PROVE  Identity'
<1> DEFINE d == sock[i].dev
           id == sock[i].socket_id
           f == FrameOf(IF op = "connecting" THEN "connect_resp" ELSE "listen_resp",
                        sock[i].uid, id, NextFrame(d), FALSE)
<1>1. sock[i].type = "CREATED" /\ Holds(i) /\ InUse(i)
  BY DEF Attach, AttachSent, Holds, InUse
<1>2. /\ Named(i) /\ d \in Dev /\ sock[i].uid \in Uid /\ id \in Ids
      /\ Known(d, id, sock[i].uid)
  BY <1>1, HeldNamed DEF Identity
<1>3. \A j \in Slots : Keeps(j)
  <2>1. call' = call /\ sock' = [sock EXCEPT ![i].type = "ATTACH", ![i].handler = handler]
    BY DEF Attach, AttachSent
  <2>2. \A j \in Slots : sock[j] \in Socket
    BY DEF TypeOK
  <2> QED
    BY <1>1, <2>1, <2>2, KeptSlots DEF Identity, Tables, Socket, TypeOK
<1>4. /\ call' = call /\ sending' = sending
      /\ \A j \in Slots : sock[j].type = "CONNECT" => sock'[j].type = "CONNECT"
  BY <1>1 DEF Attach, AttachSent, TypeOK, Socket
<1>5. CASE rx' = rx /\ SameIds
  BY <1>3, <1>4, <1>5, SameLinkIdentity
<1>6. CASE Answer(d, f) /\ radio' = radio
  <2>1. /\ f \in Frame /\ f.kind \in {"connect_resp", "listen_resp"}
        /\ f.id = id /\ f.uid = sock[i].uid
    <3>1. NextFrame(d) \in 0 .. FrameMax /\ sock[i].uid \in Mark
      BY <1>2, NextFrameType, SockAssumption DEF Mark
    <3>2. f \in Frame
      BY <1>2, <3>1, FrameType
    <3> QED
      BY <3>2 DEF FrameOf
  <2> HIDE DEF f
  <2> QED
    BY <1>2, <1>3, <1>4, <1>6, <2>1, AnsweredIdentity
<1>7. \/ rx' = rx /\ radio' = [radio EXCEPT ![d][id].state = op]
      \/ Answer(d, f) /\ radio' = radio
  BY DEF Attach, AttachSent
<1>8. radio' = [radio EXCEPT ![d][id].state = op] => SameIds
  BY DEF SameIds, TypeOK, Radio
<1> QED
  BY <1>5, <1>6, <1>7, <1>8

LEMMA OptionIdentity ==
    ASSUME TypeOK, Identity, Patient, 0 \notin Ids,
           NEW i \in Slots, NEW callback \in BOOLEAN, Option(i, callback)
    PROVE  Identity'
<1> DEFINE d == sock[i].dev
           f == FrameOf("option_resp", sock[i].uid, sock[i].socket_id, NextFrame(d), TRUE)
<1>1. Holds(i) /\ InUse(i)
  BY DEF Option, Holds, InUse, Identity, Tables, SlotsOK
<1>2. /\ Named(i) /\ d \in Dev /\ sock[i].uid \in Uid /\ sock[i].socket_id \in Ids
      /\ Known(d, sock[i].socket_id, sock[i].uid)
  BY <1>1, HeldNamed DEF Identity
<1>3. \A j \in Slots : Keeps(j)
  <2>1. call' = call /\ sock' = [sock EXCEPT ![i].option = callback]
    BY DEF Option
  <2>2. \A j \in Slots : sock[j] \in Socket
    BY DEF TypeOK
  <2> QED
    BY <1>1, <2>1, <2>2, KeptSlots DEF Identity, Tables, Socket, TypeOK
<1>4. /\ call' = call /\ sending' = sending /\ radio' = radio
      /\ \A j \in Slots : sock[j].type = "CONNECT" => sock'[j].type = "CONNECT"
  BY <1>1 DEF Option, TypeOK, Socket
<1>5. CASE rx' = rx
  BY <1>3, <1>4, <1>5, SameLinkIdentity DEF SameIds
<1>6. CASE Answer(d, f)
  <2>1. f \in Frame /\ f.kind = "option_resp" /\ f.id = sock[i].socket_id /\ f.uid = sock[i].uid
    <3>1. NextFrame(d) \in 0 .. FrameMax /\ sock[i].uid \in Mark
      BY <1>2, NextFrameType, SockAssumption DEF Mark
    <3>2. f \in Frame
      BY <1>2, <3>1, FrameType
    <3> QED
      BY <3>2 DEF FrameOf
  <2> HIDE DEF f
  <2> QED
    BY <1>2, <1>3, <1>4, <1>6, <2>1, AnsweredIdentity
<1> QED
  BY <1>5, <1>6 DEF Option

\* What leaves the slots, the link and the module as they are.
LEMMA QuietIdentity ==
    ASSUME TypeOK, CallsInTurn, Identity, UNCHANGED <<sock, radio, sending, rx>>,
           \/ call' = call
           \/ call # <<>> /\ call' = Below /\ Top.then = "close_all"
           \/ call = <<>> /\ \E a : call' = <<a>> /\ a.then = "close_all"
    PROVE  Identity'
<1>1. CASE call' = call
  BY <1>1, KeptSlots, SameLinkIdentity DEF Identity, Tables, SameIds
<1>2. CASE call # <<>> /\ call' = Below /\ Top.then = "close_all"
  <2>1. \A i \in Slots, then \in {"free", "sent"} : ~Returning(i, then) /\ ~Returning(i, then)'
    BY <1>2, NoCallback, CallbackEnds
  <2>2. \A i \in Slots : Keeps(i)
    BY <2>1 DEF Keeps, InUse, Pending, Named, Identity, Tables, SlotsOK
  <2> QED
    BY <1>2, <2>2, SameLink, CallbackGone DEF Identity, SameIds
<1>3. CASE call = <<>> /\ \E a : call' = <<a>> /\ a.then = "close_all"
  <2>1. PICK a : call' = <<a>> /\ a.then = "close_all"
    BY <1>3
  <2>2. \A i \in Slots, then \in {"free", "sent"} : ~Returning(i, then) /\ ~Returning(i, then)'
    <3>1. \A i \in Slots, then \in {"free", "sent"} : ~Returning(i, then)
      BY <1>3, NoCallback
    <3>2. \A i \in Slots : \A then : Returning(i, then)' <=> (a.then = then /\ a.slot = i)
      BY <2>1, CalledBack
    <3> QED
      BY <2>1, <3>1, <3>2
  <2>3. \A i \in Slots : Keeps(i)
    BY <2>2 DEF Keeps, InUse, Pending, Named, Identity, Tables, SlotsOK
  <2>4. AcceptRuns'
    BY <2>1 DEF AcceptRuns, Top
  <2> QED
    BY <2>3, <2>4, SameLink DEF Identity, SameIds
<1> QED
  BY <1>1, <1>2, <1>3

LEMMA CallbackReturnsIdentity ==
    ASSUME TypeOK, CallsInTurn, Identity, CallbackReturns
    PROVE  Identity'
<1>0. PICK i \in Slots : i = Top.slot
  BY PopType DEF CallbackReturns, Activation, CloseAllCall, CallbackCall
<1>1. /\ call # <<>> /\ call' = Below /\ Top \in CallbackCall
      /\ sock[i] \in Socket
      /\ sock' = [sock EXCEPT ![i] = Written(sock[i], Top.then)]
      /\ UNCHANGED <<radio, sending, rx>>
  BY <1>0, PopType DEF CallbackReturns, Activation, CloseAllCall, TypeOK
<1>2. \A j \in Slots, then \in {"free", "sent"} :
        ~Returning(j, then)' /\ (Returning(j, then) <=> (Top.then = then /\ i = j))
  BY <1>0, <1>1, CallbackEnds
<1>3. Top.then \in Attaching => sock[i].type = "ATTACH"
  <2>1. call \in Seq(Activation)
    BY DEF TypeOK, Activation
  <2>2. Len(call) \in 1 .. Len(call)
    BY <1>1, <2>1, StackPop
  <2> QED
    BY <1>0, <2>2 DEF CallsInTurn, Top
<1>4. \A j \in Slots : j # i => sock'[j] = sock[j]
  BY <1>1 DEF TypeOK
<1>5. sock'[i] = Written(sock[i], Top.then)
  BY <1>1 DEF TypeOK
<1>6. ASSUME NEW j \in Slots, j # i PROVE Keeps(j)
  BY <1>2, <1>4, <1>6 DEF Keeps, InUse, Pending, Named, Identity, Tables, SlotsOK
<1>7. Keeps(i)
  <2>1. InUse(i)' <=> sock'[i].type # "AVAILABLE"
    BY DEF InUse
  <2>2. sock[i].type = "AVAILABLE" => sock[i].dev = NULL
    BY <1>1 DEF InUse, Identity, Tables, SlotsOK
  <2>3. CASE Top.then = "free"
    BY <1>5, <2>1, <2>3 DEF Written, Free, Keeps, InUse, Pending, Named
  <2>4. CASE Top.then = "sent"
    BY <1>1, <1>2, <1>5, <2>1, <2>2, <2>4
       DEF Written, Socket, Keeps, InUse, Pending, Named
  <2>5. CASE Top.then \in Attaching
    BY <1>1, <1>2, <1>3, <1>5, <2>1, <2>5
       DEF Written, Attached, Attaching, Socket, Keeps, InUse, Pending, Named
  <2>6. CASE Top.then \notin Attaching \cup {"free", "sent"}
    BY <1>1, <1>2, <1>5, <2>1, <2>2, <2>6
       DEF Written, Attaching, Socket, Keeps, InUse, Pending, Named
  <2> QED
    BY <2>3, <2>4, <2>5, <2>6
<1>8. \A j \in Slots : Keeps(j)
  BY <1>6, <1>7
<1> QED
  BY <1>1, <1>8, SameLink, CallbackGone DEF Identity, SameIds

LEMMA ClientAcceptedIdentity ==
    ASSUME TypeOK, CallsInTurn, Identity, ClientAccepted
    PROVE  Identity'
<1>1. /\ call # <<>> /\ call' = Below /\ Top \in CallbackCall /\ Top.then = "accept"
      /\ sock' = [sock EXCEPT ![Top.client].handler = "receive"]
      /\ UNCHANGED <<radio, sending, rx>>
  BY PopType DEF ClientAccepted, Activation, CloseAllCall
<1>2. \A j \in Slots, then \in {"free", "sent"} : ~Returning(j, then)' /\ ~Returning(j, then)
  BY <1>1, CallbackEnds
<1>3. \A j \in Slots : Keeps(j)
  <2>1. \A j \in Slots : sock[j] \in Socket
    BY DEF TypeOK
  <2> QED
    BY <1>1, <1>2, <2>1
       DEF TypeOK, Socket, Keeps, InUse, Pending, Named, Identity, Tables, SlotsOK
<1> QED
  BY <1>1, <1>3, SameLink, CallbackGone DEF Identity, SameIds

LEMMA ClientRejectedIdentity ==
    ASSUME TypeOK, CallsInTurn, Identity, ClientRejected
    PROVE  Identity'
<1>1. PICK a \in CallbackCall : a = Top /\ a.then = "accept"
  BY PopType DEF ClientRejected, Activation, CloseAllCall
<1>2. /\ call # <<>> /\ call' = Below /\ sending' = sending /\ rx' = rx
      /\ sock' = [i \in Slots |-> IF i = a.client THEN Free ELSE sock[i]]
      /\ radio' = Closed(a.dev, a.id) \/ radio' = radio
  BY <1>1 DEF ClientRejected
<1>3. \A j \in Slots, then \in {"free", "sent"} : ~Returning(j, then)' /\ ~Returning(j, then)
  BY <1>1, <1>2, CallbackEnds
<1>4. \A j \in Slots : /\ j # a.client => sock'[j] = sock[j]
                       /\ j = a.client => sock'[j] = Free
  BY <1>2
<1>5. \A j \in Slots : Keeps(j)
  BY <1>3, <1>4 DEF Free, Keeps, InUse, Pending, Named, Identity, Tables, SlotsOK
<1>6. CASE radio' = radio
  BY <1>2, <1>5, <1>6, SameLink, CallbackGone DEF Identity, SameIds
<1>7. CASE radio' = Closed(a.dev, a.id)
  <2>1. PICK u \in Uid : ClientIs(a, u)
    BY <1>1, <1>2 DEF Identity, AcceptRuns
  <2>2. a.id \in Ids /\ a.dev \in Dev
    BY <1>1, <1>2 DEF Identity, AcceptRuns, CallbackCall
  <2> DEFINE C == IF radio[a.dev][a.id].uid = u THEN {a.id} ELSE {}
  <2>3. Forgets(a.dev, C)
    <3>1. radio[a.dev][a.id].uid \in {0, u}
      BY <2>1, <2>2, KnownOne DEF Identity, ClientIs
    <3> QED
      BY <1>7, <2>2, <3>1 DEF Closed, Unused, TypeOK, Forgets
  <2>4. Spares(a.dev, C)
    <3> SUFFICES ASSUME NEW i \in Slots, InUse(i)', sock'[i].dev = a.dev
        PROVE  /\ Named(i)' => sock[i].socket_id \notin C
               /\ Pending(i)' => \A f \in Queued(a.dev) :
                    f.kind = "create_resp" /\ f.uid = sock[i].uid => f.id \notin C
               /\ \A f \in Queued(a.dev) :
                    f.kind = "ipv4_client" /\ f.uid = sock[i].uid => f.client \notin C
      BY DEF Spares
    <3>1. /\ InUse(i) /\ sock[i].dev = a.dev /\ sock[i].uid \in Uid /\ sock[i].uid # u
          /\ i # a.client
      BY <1>4, <1>5, <2>1 DEF Keeps, Identity, Tables, SlotsOK, ClientIs, InUse, Free
    <3>2. u \in Mark /\ \A f \in Queued(a.dev) : f.uid \in Mark /\ f.clientUid \in Mark
      BY <2>2, QueueType DEF Frame, Mark
    <3>3. ASSUME NEW id \in C
          PROVE  /\ id \in Ids /\ Known(a.dev, id, u)
                 /\ \A f \in Queued(a.dev), v \in Mark : Names(f, id, v) => v = u
                 /\ \A v \in Uid : Known(a.dev, id, v) => v = u
      <4>1. id \in Ids /\ Known(a.dev, id, u)
        BY <2>1, <2>2, <3>3 DEF ClientIs
      <4> QED
        BY <2>2, <4>1, KnownOne DEF Identity
    <3> HIDE DEF C
    <3>4. Named(i)' => sock[i].socket_id \notin C
      <4>1. Named(i)' => Known(a.dev, sock[i].socket_id, sock[i].uid)
        BY <1>5, <2>2, <3>1 DEF Keeps, Identity, NamesOK, IdAgrees, IdAgreesFor
      <4> QED
        BY <3>1, <3>3, <4>1
    <3>5. \A f \in Queued(a.dev) :
            f.kind = "create_resp" /\ f.uid = sock[i].uid => f.id \notin C
      BY <3>1, <3>2, <3>3 DEF Names
    <3>6. \A f \in Queued(a.dev) :
            f.kind = "ipv4_client" /\ f.uid = sock[i].uid => f.client \notin C
      <4>1. \A f \in Queued(a.dev) : f.kind = "ipv4_client" => f.clientUid # u
        BY <2>1, <2>2 DEF ClientIs
      <4> QED
        BY <3>2, <3>3, <4>1 DEF Names
    <3> QED
      BY <3>4, <3>5, <3>6
  <2> HIDE DEF C
  <2>5. Tables' /\ Answers' /\ NamesOK' /\ Births'
    BY <1>2, <1>5, <2>2, <2>3, <2>4, Forgotten DEF Identity
  <2> QED
    BY <1>2, <2>5, CallbackGone DEF Identity
<1> QED
  BY <1>2, <1>6, <1>7

\* The socket in slot i is closed, and its slot will be freed.
LEMMA CloseIdentity ==
    ASSUME TypeOK, Identity, NEW i \in Slots, Named(i),
           NEW stack \in Seq(Activation),
           \A k \in 1 .. Len(stack) : stack[k].then = "close_all",
           CloseWritten(i, stack),
           \A j \in Slots, then \in {"free", "sent"} : ~Returning(j, then)
    PROVE  Identity'
<1>1. PICK d \in Dev : d = sock[i].dev
  BY DEF Identity, Tables, SlotsOK, Named, InUse
<1>2. PICK id \in Ids : id = sock[i].socket_id
  BY DEF Identity, Tables, SlotsOK
<1>3. /\ radio' = Closed(d, id) /\ sock' = sock /\ rx' = rx /\ sending' = sending
  BY <1>1, <1>2 DEF CloseWritten
<1>4. /\ \A j \in Slots : ~Returning(j, "sent")'
      /\ \A j \in Slots : Returning(j, "free")' <=> j = i
      /\ call' # <<>> /\ Top'.then = "free"
  BY Notified
<1>5. \A j \in Slots : Keeps(j)
  BY <1>3, <1>4 DEF Keeps, InUse, Pending, Named, Identity, Tables, SlotsOK
<1>6. Forgets(d, {id})
  BY <1>3 DEF Closed, Unused, TypeOK, Forgets
<1>7. Spares(d, {id})
  <2> SUFFICES ASSUME NEW j \in Slots, InUse(j)', sock'[j].dev = d
      PROVE  /\ Named(j)' => sock[j].socket_id \notin {id}
             /\ Pending(j)' => \A f \in Queued(d) :
                  f.kind = "create_resp" /\ f.uid = sock[j].uid => f.id \notin {id}
             /\ \A f \in Queued(d) :
                  f.kind = "ipv4_client" /\ f.uid = sock[j].uid => f.client \notin {id}
    BY DEF Spares
  <2>1. /\ \A l \in Slots : Named(l) /\ sock[l].dev = d /\ sock[l].socket_id = id => l = i
        /\ \A f \in Queued(d) : f.id = id => f.uid = sock[i].uid
        /\ \A f \in Queued(d) : f.kind = "ipv4_client" => f.client # id
    BY <1>1, <1>2, IdIsOwn DEF Identity
  <2>2. Named(j)' => sock[j].socket_id # id
    BY <1>3, <1>4, <1>5, <2>1 DEF Keeps, Named
  <2>3. Pending(j)' => sock[j].uid # sock[i].uid
    BY <1>5 DEF Keeps, Pending, Named, InUse, Identity, Tables, SlotsDiffer
  <2> QED
    BY <2>1, <2>2, <2>3
<1>8. AcceptRuns'
  BY <1>4 DEF AcceptRuns
<1> QED
  BY <1>3, <1>5, <1>6, <1>7, <1>8, Forgotten DEF Identity

LEMMA CloseCallIdentity ==
    ASSUME TypeOK, CallsInTurn, Identity, Patient, ~FreeInCallback, NEW i \in Slots, Close(i)
    PROVE  Identity'
<1>1. call = <<>> /\ CloseWritten(i, <<>>) /\ Holds(i)
  BY DEF Close, AppFrees
<1>2. <<>> \in Seq(Activation) /\ \A k \in 1 .. Len(<<>>) : <<>>[k].then = "close_all"
  BY EmptySeq
<1>3. Named(i)
  <2>1. InUse(i)
    BY <1>1 DEF Holds, InUse, Identity, Tables, SlotsOK
  <2> QED
    BY <1>1, <2>1, HeldNamed DEF Identity
<1>4. \A j \in Slots, then \in {"free", "sent"} : ~Returning(j, then)
  BY <1>1 DEF Returning
<1> QED
  BY <1>1, <1>2, <1>3, <1>4, CloseIdentity

LEMMA CloseNextIdentity ==
    ASSUME TypeOK, CallsInTurn, Identity, CloseNext
    PROVE  Identity'
<1>1. call # <<>> /\ Top.then = "close_all"
  BY DEF CloseNext
<1>2. CASE call' = Below /\ UNCHANGED <<sock, frameId, radio, sending, rx, budget>>
  BY <1>1, <1>2, QuietIdentity
<1>3. ASSUME NEW i \in Slots, sock[i].type \notin {"AVAILABLE", "PENDING"},
             CloseWritten(i, Append(Below, [Top EXCEPT !.next = i + 1]))
      PROVE  Identity'
  <2>1. PICK next \in Activation : next = [Top EXCEPT !.next = i + 1] /\ next.then = "close_all"
    <3> DEFINE b == [Top EXCEPT !.next = i + 1]
    <3>1. Top \in CloseAllCall
      BY <1>1, PopType DEF Activation, CallbackCall
    <3>2. i + 1 \in 0 .. N
      BY SockAssumption DEF Slots
    <3>3. b \in Activation /\ b.then = "close_all"
      BY <3>1, <3>2 DEF CloseAllCall, Activation
    <3> QED
      BY <3>3
  <2>2. /\ Below \in Seq(Activation) /\ Len(Below) \in Nat
        /\ \A k \in 1 .. Len(Below) : Below[k].then = "close_all"
    BY <1>1, UnderTop, LenProperties
  <2>3. /\ Append(Below, next) \in Seq(Activation)
        /\ Len(Append(Below, next)) = Len(Below) + 1
        /\ \A k \in 1 .. Len(Below) : Append(Below, next)[k] = Below[k]
        /\ Append(Below, next)[Len(Below) + 1] = next
    BY <2>1, <2>2, AppendProperties
  <2>4. \A k \in 1 .. Len(Append(Below, next)) : Append(Below, next)[k].then = "close_all"
    BY <2>1, <2>2, <2>3
  <2>5. \A j \in Slots, then \in {"free", "sent"} : ~Returning(j, then)
    BY <1>1, NoCallback
  <2>6. Named(i)
    BY <1>3, <2>5 DEF Named
  <2> QED
    BY <1>3, <2>1, <2>3, <2>4, <2>5, <2>6, CloseIdentity
<1> QED
  <2> DEFINE open == {i \in Slots : /\ i >= Top.next
                                    /\ sock[i].type \notin {"AVAILABLE", "PENDING"}
                                    /\ Top.dev \in {NULL, sock[i].dev}}
  <2>1. open # {} => FirstOf(open) \in open
    BY FirstSlot
  <2> QED
    BY <1>2, <1>3, <2>1 DEF CloseNext

LEMMA ResetIdentity ==
    ASSUME TypeOK, Identity, ~FreeInCallback, NEW d \in Dev, Reset(d)
    PROVE  Identity'
<1>1. /\ call = <<>> /\ call' = call /\ rx' = rx /\ sending' = sending
      /\ \A i \in Slots : sock'[i] = IF sock[i].dev = d THEN Free ELSE sock[i]
      /\ radio' = [radio EXCEPT ![d] = [id \in Ids |-> Unused]] \/ radio' = radio
  BY DEF Reset, AppFrees
<1>2. \A i \in Slots : ~Returning(i, "free") /\ ~Returning(i, "sent")
                       /\ ~Returning(i, "free")' /\ ~Returning(i, "sent")'
  BY <1>1 DEF Returning
<1>3. \A i \in Slots : Keeps(i)
  BY <1>1, <1>2 DEF Free, Keeps, InUse, Pending, Named, Identity, Tables, SlotsOK
<1>4. Forgets(d, Ids)
  BY <1>1 DEF Forgets, TypeOK, Unused
<1>5. Spares(d, Ids)
  <2>1. \A i \in Slots : InUse(i)' => sock'[i].dev # d
    BY <1>1 DEF InUse, Free
  <2> QED
    BY <2>1 DEF Spares
<1>6. AcceptRuns'
  BY <1>1 DEF AcceptRuns
<1> QED
  BY <1>1, <1>3, <1>4, <1>5, <1>6, Forgotten DEF Identity

LEMMA CloseAllIdentity ==
    ASSUME TypeOK, CallsInTurn, Identity, ~FreeInCallback, NEW d, CloseAll(d)
    PROVE  Identity'
<1> DEFINE a == [then |-> "close_all", dev |-> d, next |-> 0]
<1>1. call = <<>> /\ call' = Append(call, a)
  BY DEF CloseAll, AppFrees
<1>2. a.then = "close_all"
  OBVIOUS
<1> HIDE DEF a
<1>3. call' = <<a>>
  BY <1>1
<1> QED
  BY <1>1, <1>2, <1>3, QuietIdentity DEF CloseAll
-----------------------------------------------------------------------------
(* The module: what it says of a socket is said of the one that has the id. *)

LEMMA SameSlots ==
    ASSUME Identity, call' = call, sock' = sock
    PROVE  \A i \in Slots : Keeps(i)
<1> QED
  BY KeptSlots DEF Identity, Tables

LEMMA AnswersAttachIdentity ==
    ASSUME TypeOK, Identity, 0 \notin Ids,
           NEW d \in Dev, NEW id \in Ids, NEW ok \in BOOLEAN, AnswersAttach(d, id, ok)
    PROVE  Identity'
<1> DEFINE r == radio[d][id]
<1>1. r \in Radio /\ Known(d, id, r.uid)
  BY DEF TypeOK, Known
<1>2. /\ r.uid \in Uid
      /\ sock' = sock /\ call' = call /\ sending' = sending
  BY <1>1 DEF AnswersAttach, Radio, Mark
<1>3. PICK kind \in {"connect_resp", "listen_resp"} : Answer(d, FrameOf(kind, r.uid, id, 0, ok))
  BY DEF AnswersAttach
<1>4. PICK f \in Frame : /\ f = FrameOf(kind, r.uid, id, 0, ok)
                         /\ f.kind = kind /\ f.id = id /\ f.uid = r.uid
  <2>1. 0 \in 0 .. FrameMax /\ r.uid \in Mark /\ id \in {0} \cup Ids
    BY <1>1, <1>2, SockAssumption DEF Mark
  <2>2. FrameOf(kind, r.uid, id, 0, ok) \in Frame
    BY <2>1, FrameType
  <2> QED
    BY <2>2 DEF FrameOf
<1>5. \A e \in Dev, j \in Ids : radio'[e][j].uid = radio[e][j].uid
  BY DEF AnswersAttach, TypeOK, Radio
<1> QED
  BY <1>1, <1>2, <1>3, <1>4, <1>5, SameSlots, AnsweredIdentity

LEMMA DeliversIdentity ==
    ASSUME TypeOK, Identity, 0 \notin Ids, NEW d \in Dev, NEW id \in Ids, Delivers(d, id)
    PROVE  Identity'
<1> DEFINE r == radio[d][id]
<1>1. r \in Radio /\ Known(d, id, r.uid)
  BY DEF TypeOK, Known
<1>2. /\ r.uid \in Uid
      /\ sock' = sock /\ call' = call /\ sending' = sending /\ radio' = radio
  BY <1>1 DEF Delivers, Radio, Mark
<1>3. PICK kind \in {"receive", "state", "receive_from"} :
        Answer(d, FrameOf(kind, r.uid, id, 0, TRUE))
  BY DEF Delivers
<1>4. PICK f \in Frame : /\ f = FrameOf(kind, r.uid, id, 0, TRUE)
                         /\ f.kind = kind /\ f.id = id /\ f.uid = r.uid
  <2>1. 0 \in 0 .. FrameMax /\ r.uid \in Mark /\ id \in {0} \cup Ids
    BY <1>1, <1>2, SockAssumption DEF Mark
  <2>2. FrameOf(kind, r.uid, id, 0, TRUE) \in Frame
    BY <2>1, FrameType
  <2> QED
    BY <2>2 DEF FrameOf
<1> QED
  BY <1>1, <1>2, <1>3, <1>4, SameSlots, AnsweredIdentity

LEMMA EndsIdentity ==
    ASSUME TypeOK, Identity, 0 \notin Ids, NEW d \in Dev, NEW id \in Ids, Ends(d, id)
    PROVE  Identity'
<1> DEFINE r == radio[d][id]
<1>1. r \in Radio /\ Known(d, id, r.uid)
  BY DEF TypeOK, Known
<1>2. /\ r.uid \in Uid
      /\ sock' = sock /\ call' = call /\ sending' = sending /\ radio' = Closed(d, id)
      /\ Answer(d, FrameOf("state", r.uid, id, 0, FALSE))
  BY <1>1 DEF Ends, Radio, Mark
<1>3. PICK f \in Frame : /\ f = FrameOf("state", r.uid, id, 0, FALSE)
                         /\ f.kind = "state" /\ f.id = id /\ f.uid = r.uid /\ ~f.ok
  <2>1. 0 \in 0 .. FrameMax /\ r.uid \in Mark /\ id \in {0} \cup Ids
    BY <1>1, <1>2, SockAssumption DEF Mark
  <2>2. FrameOf("state", r.uid, id, 0, FALSE) \in Frame
    BY <2>1, FrameType
  <2> QED
    BY <2>2 DEF FrameOf
<1>4. \A e \in Dev, j \in Ids :
        \/ radio'[e][j].uid = radio[e][j].uid
        \/ radio'[e][j].uid = 0 /\ e = d /\ EndOf(f, j, radio[e][j].uid)
  BY <1>1, <1>2, <1>3 DEF Closed, Unused, TypeOK, EndOf
<1> QED
  BY <1>1, <1>2, <1>3, <1>4, SameSlots, AnsweredIdentity

LEMMA ReportsIdentity ==
    ASSUME TypeOK, Identity, 0 \notin Ids, NEW d \in Dev, NEW s \in sending[d], Reports(d, s)
    PROVE  Identity'
<1>1. /\ sock' = sock /\ call' = call /\ radio' = radio
      /\ sending' = [sending EXCEPT ![d] = @ \ {s}]
      /\ Answer(d, FrameOf("tx_status", s.uid, 0, s.frame, TRUE))
  BY DEF Reports
<1>2. s \in [uid : Mark, frame : 1 .. FrameMax]
  BY DEF TypeOK
<1>3. PICK f \in Frame : /\ f = FrameOf("tx_status", s.uid, 0, s.frame, TRUE)
                         /\ f.kind = "tx_status" /\ f.id = 0 /\ f.frame # 0
                         /\ [uid |-> f.uid, frame |-> f.frame] = s
  <2>1. s.frame \in 0 .. FrameMax /\ s.uid \in Mark /\ s.frame # 0
    BY <1>2, SockAssumption
  <2>2. FrameOf("tx_status", s.uid, 0, s.frame, TRUE) \in Frame
    BY <2>1, FrameType
  <2> QED
    BY <1>2, <2>1, <2>2 DEF FrameOf
<1>4. \A e \in Dev : Queued(e)' = IF e = d THEN Queued(e) \cup {f} ELSE Queued(e)
  BY <1>1, <1>3, Appended
<1>5. \A e \in Dev : Owed(e)' = Owed(e)
  <2>1. Owed(d)' = Owed(d)
    <3>1. sending'[d] = sending[d] \ {s}
      BY <1>1 DEF TypeOK
    <3> QED
      BY <1>3, <1>4, <3>1 DEF Owed
  <2>2. \A e \in Dev : e # d => sending'[e] = sending[e]
    BY <1>1 DEF TypeOK
  <2> QED
    BY <1>4, <2>1, <2>2 DEF Owed
<1>6. Tells(d, f) /\ \A e \in Dev, id \in Ids : radio'[e][id].uid \in {0, radio[e][id].uid}
  BY <1>1 DEF Tells
<1>7. AcceptRuns'
  BY <1>1, <1>3, <1>4, <1>6, StillKnown, SameSlots, SameAccepts DEF Identity
<1>8. \A i \in Slots : Keeps(i)
  BY <1>1, SameSlots
<1> QED
  BY <1>1, <1>3, <1>5, <1>6, <1>7, <1>8, Answered DEF Identity
-----------------------------------------------------------------------------
(* The host reads a frame. *)

LEMMA ReadLink ==
    ASSUME TypeOK, NamesOK, Births, NEW d \in Dev, NEW f, Receives(d, f)
    PROVE  /\ FramesOK' /\ OneName' /\ ClientsDiffer'
           /\ \A e \in Dev, id \in Ids, u \in Uid :
                Known(e, id, u) => Known(e, id, u)' \/ (e = d /\ EndOf(f, id, u))
           /\ \A e \in Dev : \A k \in 1 .. Len(rx'[e]) : \E l \in 1 .. Len(rx[e]) :
                /\ rx'[e][k] = rx[e][l]
                /\ \A id \in Ids, u \in Uid : KnownAfter(e, l, id, u) => KnownAfter(e, k, id, u)'
<1>1. /\ f \in Frame
      /\ Queued(d) = Queued(d)' \cup {f}
      /\ \A e \in Dev : e # d => rx'[e] = rx[e] /\ Queued(e)' = Queued(e)
      /\ Len(rx[d]) \in Nat \ {0} /\ Len(rx'[d]) = Len(rx[d]) - 1
      /\ \A k \in 1 .. Len(rx'[d]) : rx'[d][k] = rx[d][k + 1]
      /\ rx[d][1] = f
  BY Taken
<1>2. radio' = radio
  BY DEF Receives
<1>3. \A e \in Dev : Queued(e)' \subseteq Queued(e)
  BY <1>1
<1>4. FramesOK'
  BY <1>3 DEF NamesOK, FramesOK
<1>5. OneName'
  BY <1>2, <1>3 DEF NamesOK, OneName
<1>6. ClientsDiffer'
  <2> SUFFICES ASSUME NEW c \in Dev, NEW e \in Dev, NEW k \in 1 .. Len(rx'[c]),
                      NEW l \in 1 .. Len(rx'[e]),
                      rx'[c][k].kind = "ipv4_client", rx'[e][l].kind = "ipv4_client",
                      rx'[c][k].clientUid = rx'[e][l].clientUid
               PROVE  c = e /\ k = l
    BY DEF ClientsDiffer
  <2> DEFINE at(g, m) == IF g = d THEN m + 1 ELSE m
  <2>1. at(c, k) \in 1 .. Len(rx[c]) /\ rx'[c][k] = rx[c][at(c, k)]
    BY <1>1
  <2>2. at(e, l) \in 1 .. Len(rx[e]) /\ rx'[e][l] = rx[e][at(e, l)]
    BY <1>1
  <2>3. c = e /\ at(c, k) = at(e, l)
    BY <2>1, <2>2 DEF Births, ClientsDiffer
  <2> QED
    BY <2>3
<1>7. ASSUME NEW e \in Dev, NEW id \in Ids, NEW u \in Uid, Known(e, id, u)
      PROVE  Known(e, id, u)' \/ (e = d /\ EndOf(f, id, u))
  BY <1>1, <1>2, <1>7 DEF Known
<1>8. ASSUME NEW e \in Dev, NEW k \in 1 .. Len(rx'[e])
      PROVE  \E l \in 1 .. Len(rx[e]) :
                /\ rx'[e][k] = rx[e][l]
                /\ \A id \in Ids, u \in Uid : KnownAfter(e, l, id, u) => KnownAfter(e, k, id, u)'
  <2>1. CASE e # d
    <3>1. rx'[e] = rx[e]
      BY <1>1, <2>1
    <3> QED
      BY <1>2, <3>1 DEF KnownAfter
  <2>2. CASE e = d
    <3>1. k + 1 \in 1 .. Len(rx[e]) /\ rx'[e][k] = rx[e][k + 1]
      BY <1>1, <2>2
    <3>2. ASSUME NEW id \in Ids, NEW u \in Uid, KnownAfter(e, k + 1, id, u)
          PROVE  KnownAfter(e, k, id, u)'
      <4>1. ASSUME NEW j \in 1 .. Len(rx[e]), k + 1 < j, EndOf(rx[e][j], id, u)
            PROVE  KnownAfter(e, k, id, u)'
        <5>1. j - 1 \in 1 .. Len(rx'[e]) /\ k < j - 1 /\ rx'[e][j - 1] = rx[e][j]
          BY <1>1, <2>2, <4>1
        <5> QED
          BY <4>1, <5>1 DEF KnownAfter
      <4> QED
        BY <1>2, <3>2, <4>1 DEF KnownAfter
    <3> QED
      BY <3>1, <3>2
  <2> QED
    BY <2>1, <2>2
<1> QED
  BY <1>4, <1>5, <1>6, <1>7, <1>8

\* The frame that is read is not what slot i waits for, nor the end of its socket.
Idle(d, f, i) == InUse(i)' /\ sock'[i].dev = d =>
    /\ f.kind = "create_resp" /\ Pending(i)' => sock[i].create_frame_id # f.frame
    /\ f.kind = "tx_status" /\ ~Returning(i, "sent")' => sock[i].tx_frame_id # f.frame
    /\ Named(i)' => ~EndOf(f, sock[i].socket_id, sock[i].uid)

LEMMA ReadSlot ==
    ASSUME TypeOK, Tables, Answers, NamesOK, Births, NEW d \in Dev, NEW f, Receives(d, f),
           NEW i \in Slots, Keeps(i), Idle(d, f, i), NEW e \in Dev
    PROVE  SlotKept(e, i)'
<1>1. /\ Queued(d) = Queued(d)' \cup {f} /\ f \in Frame
      /\ \A c \in Dev : c # d => rx'[c] = rx[c] /\ Queued(c)' = Queued(c)
  BY Taken
<1>2. radio' = radio /\ sending' = sending
  BY DEF Receives
<1>3. Queued(e)' \subseteq Queued(e) /\ \A g \in Queued(e) : g \in Queued(e)' \/ (e = d /\ g = f)
  BY <1>1
<1>4. Named(i)' \/ Pending(i)' => InUse(i)'
  BY DEF Named, Pending, InUse
<1>5. /\ \A id \in Ids, u \in Uid :
           Known(e, id, u) => Known(e, id, u)' \/ (e = d /\ EndOf(f, id, u))
      /\ \A k \in 1 .. Len(rx'[e]) : \E l \in 1 .. Len(rx[e]) :
           /\ rx'[e][k] = rx[e][l]
           /\ \A id \in Ids, u \in Uid : KnownAfter(e, l, id, u) => KnownAfter(e, k, id, u)'
  BY ReadLink
<1>6. CreateOwedTo(e, i)'
  BY <1>3, <1>4 DEF Keeps, Idle, Answers, CreateOwed, CreateOwedTo
<1>7. StatusOwedTo(e, i)'
  <2> SUFFICES ASSUME InUse(i)', sock'[i].dev = e, sock'[i].tx_frame_id # 0,
                      ~Returning(i, "sent")'
               PROVE  /\ \E s \in Owed(e)' : s.frame = sock[i].tx_frame_id
                      /\ \A s \in Owed(e)' : s.frame = sock[i].tx_frame_id => s.uid = sock[i].uid
    BY DEF StatusOwedTo, Keeps
  <2>1. /\ InUse(i) /\ sock[i].dev = e /\ sock[i].tx_frame_id # 0 /\ ~Returning(i, "sent")
    BY DEF Keeps
  <2>2. /\ \E s \in Owed(e) : s.frame = sock[i].tx_frame_id
        /\ \A s \in Owed(e) : s.frame = sock[i].tx_frame_id => s.uid = sock[i].uid
    BY <2>1 DEF Answers, StatusOwed, StatusOwedTo
  <2>3. Owed(e)' \subseteq Owed(e)
    BY <1>2, <1>3 DEF Owed
  <2>4. \A s \in Owed(e) : s \in Owed(e)' \/ (e = d /\ f.kind = "tx_status" /\ s.frame = f.frame)
    BY <1>2, <1>3 DEF Owed
  <2>5. e = d /\ f.kind = "tx_status" => sock[i].tx_frame_id # f.frame
    BY <2>1 DEF Idle, Keeps
  <2> QED
    BY <2>2, <2>3, <2>4, <2>5
<1>8. IdAgreesFor(e, i)'
  <2> SUFFICES ASSUME Named(i)', sock'[i].dev = e
               PROVE  /\ Known(e, sock[i].socket_id, sock[i].uid)'
                      /\ \A g \in Queued(e)', v \in Mark :
                           Names(g, sock[i].socket_id, v) => v = sock[i].uid
    BY <1>4 DEF IdAgreesFor, Keeps
  <2>1. /\ Named(i) /\ InUse(i) /\ sock[i].dev = e
        /\ sock'[i].socket_id = sock[i].socket_id /\ sock'[i].uid = sock[i].uid
        /\ sock[i].socket_id \in Ids /\ sock[i].uid \in Uid
        /\ e = d => ~EndOf(f, sock[i].socket_id, sock[i].uid)
    BY <1>4 DEF Keeps, Tables, SlotsOK, Idle
  <2>2. /\ Known(e, sock[i].socket_id, sock[i].uid)
        /\ \A g \in Queued(e), v \in Mark : Names(g, sock[i].socket_id, v) => v = sock[i].uid
    BY <2>1 DEF NamesOK, IdAgrees, IdAgreesFor
  <2> QED
    BY <1>3, <1>5, <2>1, <2>2
<1>9. CreateStandsFor(e, i)'
  <2> SUFFICES ASSUME Pending(i)', sock'[i].dev = e,
                      NEW k \in 1 .. Len(rx'[e]), NEW g, g = rx'[e][k],
                      g.kind = "create_resp", g.ok, g.uid = sock'[i].uid
               PROVE  KnownAfter(e, k, g.id, g.uid)'
    BY DEF CreateStandsFor
  <2>1. Pending(i) /\ sock[i].dev = e /\ sock'[i].uid = sock[i].uid /\ sock[i].uid \in Uid
    BY <1>4 DEF Keeps, Tables, SlotsOK
  <2>2. PICK l \in 1 .. Len(rx[e]) :
           /\ g = rx[e][l]
           /\ \A id \in Ids, u \in Uid : KnownAfter(e, l, id, u) => KnownAfter(e, k, id, u)'
    BY <1>5
  <2>3. KnownAfter(e, l, g.id, g.uid)
    BY <2>1, <2>2 DEF Births, CreateStands, CreateStandsFor
  <2>4. g.id \in Ids
    BY <2>2, QueueType DEF NamesOK, FramesOK
  <2> QED
    BY <2>1, <2>2, <2>3, <2>4
<1>10. ClientStandsFor(e, i)'
  <2> SUFFICES ASSUME InUse(i)', sock'[i].type # "CONNECT", sock'[i].dev = e,
                      NEW k \in 1 .. Len(rx'[e]), NEW g, g = rx'[e][k],
                      g.kind = "ipv4_client", g.uid = sock'[i].uid
               PROVE  KnownAfter(e, k, g.client, g.clientUid)'
    BY DEF ClientStandsFor
  <2>1. InUse(i) /\ sock[i].type # "CONNECT" /\ sock[i].dev = e /\ sock'[i].uid = sock[i].uid
    BY DEF Keeps
  <2>2. PICK l \in 1 .. Len(rx[e]) :
           /\ g = rx[e][l]
           /\ \A id \in Ids, u \in Uid : KnownAfter(e, l, id, u) => KnownAfter(e, k, id, u)'
    BY <1>5
  <2>3. KnownAfter(e, l, g.client, g.clientUid)
    BY <2>1, <2>2 DEF Births, ClientStands, ClientStandsFor
  <2>4. g.client \in Ids /\ g.clientUid \in Uid
    BY <2>2, QueueType DEF NamesOK, FramesOK
  <2> QED
    BY <2>2, <2>3, <2>4
<1> QED
  BY <1>6, <1>7, <1>8, <1>9, <1>10 DEF SlotKept

\* What is kept of every slot.
LEMMA AllKept ==
    ASSUME Tables', FramesOK', OneName', ClientsNew', ClientsDiffer', AcceptRuns',
           \A i \in Slots, d \in Dev : SlotKept(d, i)'
    PROVE  Identity'
<1> QED
  BY DEF Identity, Answers, NamesOK, Births, SlotKept,
         CreateOwed, StatusOwed, IdAgrees, CreateStands, ClientStands

\* The frame is for no slot, or for one that it does not give an id.
LEMMA ReadIdentity ==
    ASSUME TypeOK, Identity, NEW d \in Dev, NEW f, Receives(d, f), AcceptRuns',
           \A i \in Slots : Keeps(i) /\ Idle(d, f, i)
    PROVE  Identity'
<1>1. FramesOK' /\ OneName' /\ ClientsDiffer'
  BY ReadLink DEF Identity
<1>2. Tables'
  BY KeepTables DEF Identity
<1>3. \A i \in Slots, e \in Dev : SlotKept(e, i)'
  BY ReadSlot DEF Identity
<1>4. ClientsNew'
  <2>1. \A e \in Dev : Queued(e)' \subseteq Queued(e)
    BY Taken
  <2> QED
    BY <2>1 DEF Identity, Births, ClientsNew, Keeps
<1> QED
  BY <1>1, <1>2, <1>3, <1>4, AllKept

\* Every slot a handler may find is of the socket the frame is about.
LEMMA TargetOwns ==
    ASSUME TypeOK, Identity, 0 \notin Ids, call = <<>>, NEW d \in Dev, NEW f \in Queued(d),
           NEW i \in Target(d, f)
    PROVE  /\ i \in Slots /\ sock[i].dev = d /\ InUse(i)
           /\ sock[i].uid = f.uid
           /\ f.kind = "create_resp" => Pending(i)
           /\ f.kind \notin {"create_resp", "tx_status"} => Named(i) /\ sock[i].socket_id = f.id
<1>1. f \in Frame
  BY QueueType
<1>2. i \in Slots /\ sock[i].dev = d /\ InUse(i)
  BY <1>1, TargetSlots, SockAssumption DEF Identity, Tables, SlotsOK
<1>3. ~Returning(i, "free") /\ ~Returning(i, "sent")
  BY DEF Returning
<1>4. CASE f.kind = "create_resp"
  <2>1. sock[i].type = "PENDING" /\ sock[i].create_frame_id = f.frame
    BY <1>4 DEF Target
  <2>2. sock[i].uid = f.uid
    BY <1>2, <1>3, <1>4, <2>1 DEF Pending, Identity, Answers, CreateOwed, CreateOwedTo
  <2> QED
    BY <1>2, <1>3, <1>4, <2>1, <2>2 DEF Pending
<1>5. CASE f.kind = "tx_status"
  <2>1. sock[i].tx_frame_id = f.frame /\ f.frame # 0
    BY <1>5 DEF Target, Identity, NamesOK, FramesOK
  <2>2. [uid |-> f.uid, frame |-> f.frame] \in Owed(d)
    BY <1>5 DEF Owed
  <2>3. sock[i].uid = f.uid
    BY <1>2, <1>3, <2>1, <2>2 DEF Identity, Answers, StatusOwed, StatusOwedTo
  <2> QED
    BY <1>2, <1>3, <1>5, <2>3 DEF Pending
<1>6. CASE f.kind \notin {"create_resp", "tx_status"}
  <2>1. i \in Lookup(d, f.id)
    <3> DEFINE first == {l \in Lookup(d, f.id) : \A j \in Lookup(d, f.id) : l <= j}
    <3>1. Target(d, f) \subseteq first
      BY <1>6 DEF Target
    <3> QED
      BY <3>1
  <2>2. sock[i].socket_id = f.id /\ f.id \in Ids
    BY <1>6, <2>1 DEF Lookup, Identity, NamesOK, FramesOK
  <2>3. sock[i].type # "PENDING"
    BY <1>2, <2>2 DEF Identity, Tables, SlotsOK
  <2>4. Named(i)
    BY <1>2, <1>3, <2>3 DEF Named, InUse
  <2>5. Names(f, f.id, f.uid) /\ f.uid \in Mark
    BY <1>1 DEF Names, Frame
  <2>6. sock[i].uid = f.uid
    BY <1>2, <2>2, <2>4, <2>5 DEF Identity, NamesOK, IdAgrees, IdAgreesFor
  <2> QED
    BY <1>2, <1>6, <2>2, <2>3, <2>4, <2>6 DEF Pending
<1> QED
  BY <1>4, <1>5, <1>6

\* The slot of the socket a frame is about, in use, is found.
LEMMA Found ==
    ASSUME TypeOK, Identity, call = <<>>, NEW d \in Dev, NEW f \in Frame,
           NEW i \in Slots, InUse(i), sock[i].dev = d,
           \/ /\ f.kind = "create_resp" /\ sock[i].type = "PENDING"
              /\ sock[i].create_frame_id = f.frame
           \/ f.kind = "tx_status" /\ sock[i].tx_frame_id = f.frame
           \/ f.kind = "state" /\ sock[i].socket_id = f.id
    PROVE  Target(d, f) # {}
<1>1. CASE f.kind = "state"
  <2>1. i \in Lookup(d, f.id) /\ Lookup(d, f.id) \in SUBSET Slots
    BY <1>1 DEF Lookup
  <2>2. PICK l \in Lookup(d, f.id) : \A j \in Lookup(d, f.id) : l <= j
    <3>1. Lookup(d, f.id) \in SUBSET Nat
      BY <2>1, SockAssumption DEF Slots
    <3> QED
      BY <2>1, <3>1, LeastSlot
  <2> QED
    BY <1>1, <2>2 DEF Target
<1>2. CASE f.kind # "state"
  BY <1>2 DEF Target
<1> QED
  BY <1>1, <1>2

LEMMA UnmatchedIdentity ==
    ASSUME TypeOK, Identity, NEW d \in Dev, NEW f, Unmatched(d, f)
    PROVE  Identity'
<1>1. /\ Receives(d, f) /\ Target(d, f) = {} /\ sock' = sock /\ call' = call /\ call = <<>>
  BY DEF Unmatched, Receives
<1>2. f \in Frame
  BY <1>1, Taken
<1>3. \A i \in Slots : Keeps(i)
  BY <1>1, SameSlots
<1>4. ASSUME NEW i \in Slots PROVE Idle(d, f, i)
  <2> SUFFICES ASSUME InUse(i), sock[i].dev = d
               PROVE  Idle(d, f, i)
    BY <1>1 DEF Idle, InUse
  <2>1. /\ f.kind = "create_resp" /\ sock[i].type = "PENDING" => sock[i].create_frame_id # f.frame
        /\ f.kind = "tx_status" => sock[i].tx_frame_id # f.frame
        /\ f.kind = "state" => sock[i].socket_id # f.id
    BY <1>1, <1>2, Found
  <2> QED
    BY <1>1, <2>1 DEF Idle, Pending, EndOf
<1>5. AcceptRuns'
  BY <1>1 DEF AcceptRuns
<1> QED
  BY <1>1, <1>3, <1>4, <1>5, ReadIdentity

\* The callback is for the socket the frame is about, and the frame was for it alone.
LEMMA MatchedOwn ==
    ASSUME TypeOK, Identity, 0 \notin Ids, NEW d \in Dev, NEW f, Matched(d, f)
    PROVE  \E i \in Slots :
             /\ i \in Target(d, f) /\ sock[i].uid = f.uid
             /\ \A j \in Target(d, f) : j = i
             /\ call = <<>> /\ Receives(d, f) /\ f \in Queued(d) /\ f \in Frame
             /\ sock' = IF f.kind = "create_resp" /\ f.ok
                        THEN [sock EXCEPT ![i].socket_id = f.id, ![i].type = "CREATED"]
                        ELSE sock
             /\ call' = <<Callback(i, AfterCallback(f), f.uid, N, 0)>>
<1> DEFINE i == FirstOf(Target(d, f))
<1>1. call = <<>> /\ Receives(d, f)
  BY DEF Matched, Receives
<1>2. f \in Queued(d) /\ f \in Frame
  BY <1>1, Taken
<1>3. Target(d, f) \in SUBSET Slots /\ Target(d, f) # {}
  BY <1>2, TargetSlots DEF Matched
<1>4. i \in Target(d, f) /\ i \in Slots
  BY <1>3, FirstSlot
<1>5. \A j \in Target(d, f) : j \in Slots /\ InUse(j) /\ sock[j].uid = f.uid
  BY <1>1, <1>2, TargetOwns
<1>6. \A j \in Target(d, f) : j = i
  <2> HIDE DEF i
  <2> QED
    BY <1>4, <1>5 DEF Identity, Tables, SlotsDiffer
<1> QED
  BY <1>1, <1>2, <1>4, <1>5, <1>6 DEF Matched

LEMMA MatchedIdentity ==
    ASSUME TypeOK, Identity, 0 \notin Ids, NEW d \in Dev, NEW f, Matched(d, f),
           ~(f.kind = "create_resp" /\ f.ok)
    PROVE  Identity'
<1>1. PICK i \in Slots :
        /\ i \in Target(d, f) /\ \A j \in Target(d, f) : j = i
        /\ call = <<>> /\ Receives(d, f) /\ f \in Queued(d) /\ f \in Frame
        /\ sock' = sock
        /\ call' = <<Callback(i, AfterCallback(f), f.uid, N, 0)>>
  BY MatchedOwn
<1>2. PICK a : /\ call' = <<a>> /\ a.then = AfterCallback(f) /\ a.slot = i
  <2>1. /\ Callback(i, AfterCallback(f), f.uid, N, 0).then = AfterCallback(f)
        /\ Callback(i, AfterCallback(f), f.uid, N, 0).slot = i
    BY DEF Callback
  <2> QED
    BY <1>1, <2>1
<1>3. \A j \in Slots : /\ ~Returning(j, "free") /\ ~Returning(j, "sent")
                       /\ Returning(j, "free")' <=> (a.then = "free" /\ i = j)
                       /\ Returning(j, "sent")' <=> (a.then = "sent" /\ i = j)
  BY <1>1, <1>2, CalledBack DEF Returning
<1>4. \A j \in Slots : Keeps(j)
  BY <1>1, <1>3 DEF Keeps, InUse, Pending, Named, Identity, Tables, SlotsOK
<1>5. ASSUME NEW j \in Slots PROVE Idle(d, f, j)
  <2> SUFFICES ASSUME InUse(j), sock[j].dev = d
               PROVE  Idle(d, f, j)
    BY <1>1 DEF Idle, InUse
  <2>1. /\ f.kind = "create_resp" => AfterCallback(f) = "free"
        /\ f.kind = "tx_status" => AfterCallback(f) = "sent"
        /\ f.kind = "state" /\ ~f.ok => AfterCallback(f) = "free"
    BY DEF AfterCallback
  <2>2. f.kind = "create_resp" /\ Pending(j)' => sock[j].create_frame_id # f.frame
    <3>1. sock[j].create_frame_id = f.frame /\ sock[j].type = "PENDING" /\ f.kind = "create_resp"
            => j \in Target(d, f)
      BY DEF Target
    <3> QED
      BY <1>1, <1>2, <1>3, <2>1, <3>1 DEF Pending
  <2>3. f.kind = "tx_status" /\ ~Returning(j, "sent")' => sock[j].tx_frame_id # f.frame
    <3>1. sock[j].tx_frame_id = f.frame /\ f.kind = "tx_status" => j \in Target(d, f)
      BY DEF Target
    <3> QED
      BY <1>1, <1>2, <1>3, <2>1, <3>1
  <2>4. Named(j)' => ~EndOf(f, sock[j].socket_id, sock[j].uid)
    <3>1. InUse(i) /\ sock[i].uid = f.uid
      BY <1>1, TargetOwns
    <3>2. sock[j].uid = f.uid => j = i
      BY <3>1 DEF Identity, Tables, SlotsDiffer
    <3> QED
      BY <1>2, <1>3, <2>1, <3>2 DEF EndOf, Named
  <2> QED
    BY <1>1, <2>2, <2>3, <2>4 DEF Idle
<1>6. AcceptRuns'
  <2>1. a.then # "accept"
    BY <1>2 DEF AfterCallback
  <2> QED
    BY <1>2, <2>1 DEF AcceptRuns, Top
<1> QED
  BY <1>1, <1>4, <1>5, <1>6, ReadIdentity

\* A Create Response names the socket in slot i.
LEMMA CreateRespIdentity ==
    ASSUME TypeOK, Identity, 0 \notin Ids, NEW d \in Dev, NEW f, Matched(d, f),
           f.kind = "create_resp", f.ok
    PROVE  Identity'
<1>1. PICK i \in Slots :
        /\ i \in Target(d, f) /\ sock[i].uid = f.uid /\ \A j \in Target(d, f) : j = i
        /\ call = <<>> /\ Receives(d, f) /\ f \in Queued(d) /\ f \in Frame
        /\ sock' = [sock EXCEPT ![i].socket_id = f.id, ![i].type = "CREATED"]
        /\ call' = <<Callback(i, AfterCallback(f), f.uid, N, 0)>>
  BY MatchedOwn
<1>2. PICK a : call' = <<a>> /\ a.then = "nothing"
  BY <1>1 DEF Callback, AfterCallback
<1>3. \A j \in Slots, then \in {"free", "sent"} : ~Returning(j, then) /\ ~Returning(j, then)'
  <2>1. \A j \in Slots, then \in {"free", "sent"} : ~Returning(j, then)
    BY <1>1 DEF Returning
  <2>2. \A j \in Slots, then \in {"free", "sent"} : ~Returning(j, then)'
    BY <1>2, CalledBack
  <2> QED
    BY <2>1, <2>2
<1>4. Pending(i) /\ InUse(i) /\ sock[i].dev = d /\ f.id \in Ids /\ sock[i].uid \in Uid
  <2>1. f.id \in Ids
    BY <1>1 DEF Identity, NamesOK, FramesOK
  <2> QED
    BY <1>1, <2>1, TargetOwns DEF Identity, Tables, SlotsOK
<1>5. \A j \in Slots : j # i => sock'[j] = sock[j]
  BY <1>1 DEF TypeOK
<1>6. /\ sock'[i].dev = d /\ sock'[i].uid = sock[i].uid /\ sock'[i].socket_id = f.id
      /\ sock'[i].tx_frame_id = sock[i].tx_frame_id /\ sock'[i].type = "CREATED"
  BY <1>1, <1>4 DEF TypeOK, Socket
<1>7. \A j \in Slots : j # i => Keeps(j)
  BY <1>3, <1>5 DEF Keeps, InUse, Pending, Named, Identity, Tables, SlotsOK
<1>8. Tables'
  <2>1. SlotsOK'
    BY <1>4, <1>5, <1>6, <1>7 DEF Keeps, Identity, Tables, SlotsOK, InUse
  <2>2. SlotsDiffer'
    BY <1>4, <1>5, <1>6 DEF Identity, Tables, SlotsDiffer, InUse
  <2> QED
    BY <2>1, <2>2 DEF Tables
<1>9. FramesOK' /\ OneName' /\ ClientsDiffer'
  BY <1>1, ReadLink DEF Identity
<1>10. ASSUME NEW j \in Slots, j # i, NEW e \in Dev PROVE SlotKept(e, j)'
  <2>1. Idle(d, f, j)
    <3>1. f.kind = "create_resp" /\ Pending(j)' /\ sock'[j].dev = d
            => sock[j].create_frame_id # f.frame
      <4>1. sock[j].create_frame_id = f.frame /\ sock[j].type = "PENDING" /\ sock[j].dev = d
              => j \in Target(d, f)
        BY DEF Target
      <4> QED
        BY <1>1, <1>5, <1>10, <4>1 DEF Pending
    <3> QED
      BY <3>1 DEF Idle, EndOf
  <2> QED
    BY <1>1, <1>7, <1>10, <2>1, ReadSlot DEF Identity
<1>11. ASSUME NEW e \in Dev PROVE SlotKept(e, i)'
  <2>1. CreateOwedTo(e, i)'
    BY <1>6 DEF CreateOwedTo, Pending
  <2>2. Queued(e)' \subseteq Queued(e) /\ \A g \in Queued(e) : g \in Queued(e)' \/ g = f
    BY <1>1, Taken
  <2>3. StatusOwedTo(e, i)'
    <3>1. Owed(e)' = Owed(e)
      BY <1>1, <2>2 DEF Owed, Receives
    <3> QED
      BY <1>3, <1>4, <1>6, <3>1 DEF Identity, Answers, StatusOwed, StatusOwedTo
  <2>4. IdAgreesFor(e, i)'
    <3>1. f.uid \in Mark /\ Names(f, f.id, f.uid)
      BY <1>1 DEF Frame, Names
    <3>2. \A g \in Queued(d), v \in Mark : Names(g, f.id, v) => v = f.uid
      BY <1>1, <1>4, <3>1 DEF Identity, NamesOK, OneName
    <3>3. Known(d, f.id, f.uid)'
      <4>1. KnownAfter(d, 1, f.id, f.uid)
        <5>1. 1 \in 1 .. Len(rx[d]) /\ rx[d][1] = f
          BY <1>1, Taken
        <5> QED
          BY <1>1, <1>4, <5>1 DEF Identity, Births, CreateStands, CreateStandsFor
      <4>2. ASSUME NEW k \in 1 .. Len(rx[d]), EndOf(rx[d][k], f.id, f.uid)
            PROVE  rx[d][k] \in Queued(d)'
        <5>1. rx[d][k] \in Queued(d) /\ rx[d][k] # f
          BY <4>2 DEF Queued, EndOf
        <5> QED
          BY <1>1, <5>1, Taken
      <4>3. radio' = radio
        BY <1>1 DEF Receives
      <4> QED
        BY <4>1, <4>2, <4>3 DEF KnownAfter, Known
    <3>4. e # d => sock'[i].dev # e
      BY <1>6
    <3>5. e = d => /\ Known(e, sock[i].socket_id, sock[i].uid)'
                   /\ \A g \in Queued(e)', v \in Mark : Names(g, f.id, v) => v = f.uid
      BY <1>1, <1>6, <2>2, <3>2, <3>3
    <3> QED
      BY <1>1, <1>6, <3>4, <3>5 DEF IdAgreesFor
  <2>5. CreateStandsFor(e, i)'
    BY <1>6 DEF CreateStandsFor, Pending
  <2>6. ClientStandsFor(e, i)'
    <3> SUFFICES ASSUME e = d, NEW k \in 1 .. Len(rx'[e]), NEW g, g = rx'[e][k],
                        g.kind = "ipv4_client", g.uid = sock[i].uid
                 PROVE  KnownAfter(e, k, g.client, g.clientUid)'
      BY <1>6 DEF ClientStandsFor
    <3>1. PICK l \in 1 .. Len(rx[e]) :
             /\ g = rx[e][l]
             /\ \A id \in Ids, u \in Uid : KnownAfter(e, l, id, u) => KnownAfter(e, k, id, u)'
      BY <1>1, ReadLink DEF Identity
    <3>2. KnownAfter(e, l, g.client, g.clientUid)
      BY <1>4, <3>1 DEF Identity, Births, ClientStands, ClientStandsFor, Pending
    <3>3. g.client \in Ids /\ g.clientUid \in Uid
      BY <3>1, QueueType DEF Identity, NamesOK, FramesOK
    <3> QED
      BY <3>1, <3>2, <3>3
  <2> QED
    BY <2>1, <2>3, <2>4, <2>5, <2>6 DEF SlotKept
<1>12. ClientsNew'
  <2>1. \A e \in Dev : Queued(e)' \subseteq Queued(e)
    BY <1>1, Taken
  <2>2. \A j \in Slots : InUse(j)' => InUse(j) /\ sock'[j].uid = sock[j].uid
    BY <1>4, <1>5, <1>6 DEF InUse
  <2> QED
    BY <2>1, <2>2 DEF Identity, Births, ClientsNew
<1>13. AcceptRuns'
  BY <1>2 DEF AcceptRuns, Top
<1> QED
  BY <1>8, <1>9, <1>10, <1>11, <1>12, <1>13, AllKept

\* A client is announced: it takes a slot, if one is left.
LEMMA ClientArrivesIdentity ==
    ASSUME TypeOK, Identity, 0 \notin Ids, NEW d \in Dev, NEW f, ClientArrives(d, f)
    PROVE  Identity'
<1>1. /\ call = <<>> /\ Receives(d, f) /\ f.kind = "ipv4_client" /\ Target(d, f) # {}
      /\ f \in Frame /\ f \in Queued(d)
  <2>1. Receives(d, f)
    BY DEF ClientArrives
  <2>2. f \in Frame /\ f \in Queued(d)
    BY <2>1, Taken
  <2> QED
    BY <2>1, <2>2 DEF ClientArrives, Receives
<1>2. PICK l \in Slots : /\ l = FirstOf(Target(d, f)) /\ InUse(l)
                         /\ sock[l].dev = d /\ sock[l].uid = f.uid /\ sock[l].type = "LISTEN"
  <2> DEFINE m == FirstOf(Target(d, f))
  <2>1. m \in Target(d, f)
    BY <1>1, TargetSlots, FirstSlot
  <2>2. sock[m].type = "LISTEN"
    BY <1>1, <2>1 DEF Target
  <2> HIDE DEF m
  <2>3. m \in Slots /\ InUse(m) /\ sock[m].dev = d /\ sock[m].uid = f.uid
    BY <1>1, <2>1, TargetOwns
  <2> QED
    BY <2>2, <2>3 DEF m
<1>3. PICK c \in Slots \cup {N} :
        /\ c \in Slots => ~InUse(c)
        /\ \E s : /\ sock' = [i \in Slots |-> IF i = c THEN s ELSE sock[i]]
                  /\ s.type = "CONNECT" /\ s.dev = d /\ s.socket_id = f.client
                  /\ s.uid = f.clientUid /\ s.tx_frame_id = 0
        /\ call' = <<Callback(l, "accept", f.uid, c, f.client)>>
  <2> DEFINE cc == IF Available = {} THEN N ELSE FirstOf(Available)
             s == [Free EXCEPT !.type = "CONNECT", !.dev = d, !.socket_id = f.client,
                     !.protocol = sock[l].protocol, !.uid = f.clientUid,
                     !.create_frame_id = sock[l].create_frame_id]
  <2>1. sock' = [i \in Slots |-> IF i = cc THEN s ELSE sock[i]]
    BY <1>2 DEF ClientArrives
  <2>2. /\ s.type = "CONNECT" /\ s.dev = d /\ s.socket_id = f.client
        /\ s.uid = f.clientUid /\ s.tx_frame_id = 0
    BY DEF Free
  <2>3. call' = <<Callback(l, "accept", f.uid, cc, f.client)>>
    BY <1>2 DEF ClientArrives
  <2>4. Available # {} => FirstOf(Available) \in Available
    BY FirstSlot DEF Available
  <2>5. cc \in Slots \cup {N} /\ (cc \in Slots => ~InUse(cc))
    <3>1. N \notin Slots
      BY SockAssumption DEF Slots
    <3> QED
      BY <2>4, <3>1 DEF Available
  <2> HIDE DEF cc, s
  <2> QED
    BY <2>1, <2>2, <2>3, <2>5
<1>4. PICK a : /\ call' = <<a>> /\ a.then = "accept" /\ a.dev = d /\ a.id = f.client
               /\ a.client = c
  BY <1>2, <1>3 DEF Callback
<1>5. \A j \in Slots, then \in {"free", "sent"} : ~Returning(j, then) /\ ~Returning(j, then)'
  <2>1. \A j \in Slots, then \in {"free", "sent"} : ~Returning(j, then)
    BY <1>1 DEF Returning
  <2>2. \A j \in Slots, then \in {"free", "sent"} : ~Returning(j, then)'
    BY <1>4, CalledBack
  <2> QED
    BY <2>1, <2>2
<1>6. \A j \in Slots : /\ j # c => sock'[j] = sock[j]
                       /\ j = c => /\ sock'[j].type = "CONNECT" /\ sock'[j].dev = d
                                   /\ sock'[j].socket_id = f.client
                                   /\ sock'[j].uid = f.clientUid /\ sock'[j].tx_frame_id = 0
  BY <1>3
<1>7. f.client \in Ids /\ f.clientUid \in Uid /\ f.clientUid \in Mark
  BY <1>1 DEF Identity, NamesOK, FramesOK, Mark
<1>8. \A j \in Slots : j # c => Keeps(j)
  BY <1>5, <1>6 DEF Keeps, InUse, Pending, Named, Identity, Tables, SlotsOK
<1>9. \A j \in Slots : InUse(j) => sock[j].uid # f.clientUid
  BY <1>1 DEF Identity, Births, ClientsNew
<1>10. Tables'
  <2>1. SlotsOK'
    BY <1>6, <1>7, <1>8 DEF Keeps, Identity, Tables, SlotsOK, InUse
  <2>2. SlotsDiffer'
    BY <1>3, <1>6, <1>8, <1>9 DEF Keeps, Identity, Tables, SlotsDiffer, InUse
  <2> QED
    BY <2>1, <2>2 DEF Tables
<1>11. FramesOK' /\ OneName' /\ ClientsDiffer'
  BY <1>1, ReadLink DEF Identity
\* The client is announced once.
<1>12. \A e \in Dev : \A g \in Queued(e)' : g.kind = "ipv4_client" => g.clientUid # f.clientUid
  <2> SUFFICES ASSUME NEW e \in Dev, NEW k \in 1 .. Len(rx'[e]), rx'[e][k].kind = "ipv4_client",
                      rx'[e][k].clientUid = f.clientUid
               PROVE  FALSE
    BY DEF Queued
  <2>1. /\ e # d => rx'[e] = rx[e]
        /\ Len(rx[d]) \in Nat \ {0} /\ Len(rx'[d]) = Len(rx[d]) - 1
        /\ e = d => rx'[e][k] = rx[e][k + 1]
        /\ rx[d][1] = f
    BY <1>1, Taken
  <2> DEFINE l2 == IF e = d THEN k + 1 ELSE k
  <2>2. /\ l2 \in 1 .. Len(rx[e]) /\ rx'[e][k] = rx[e][l2]
        /\ (e # d \/ l2 # 1) /\ 1 \in 1 .. Len(rx[d])
    BY <2>1
  <2> HIDE DEF l2
  <2> QED
    BY <1>1, <2>1, <2>2 DEF Identity, Births, ClientsDiffer
<1>13. ClientsNew'
  <2>1. \A e \in Dev : Queued(e)' \subseteq Queued(e)
    BY <1>1, Taken
  <2> QED
    BY <1>6, <1>12, <2>1 DEF Identity, Births, ClientsNew, InUse
<1>14. Known(d, f.client, f.clientUid)'
  <2>1. KnownAfter(d, 1, f.client, f.clientUid)
    <3>1. 1 \in 1 .. Len(rx[d]) /\ rx[d][1] = f
      BY <1>1, Taken
    <3> QED
      BY <1>1, <1>2, <3>1 DEF Identity, Births, ClientStands, ClientStandsFor
  <2>2. ASSUME NEW k \in 1 .. Len(rx[d]), EndOf(rx[d][k], f.client, f.clientUid)
        PROVE  rx[d][k] \in Queued(d)'
    <3>1. rx[d][k] \in Queued(d) /\ rx[d][k] # f
      BY <1>1, <2>2 DEF Queued, EndOf
    <3> QED
      BY <1>1, <3>1, Taken
  <2>3. radio' = radio
    BY <1>1 DEF Receives
  <2> QED
    BY <2>1, <2>2, <2>3 DEF KnownAfter, Known
<1>15. ASSUME NEW j \in Slots, j # c, NEW e \in Dev PROVE SlotKept(e, j)'
  <2>1. Idle(d, f, j)
    BY <1>1 DEF Idle, EndOf
  <2> QED
    BY <1>1, <1>8, <1>15, <2>1, ReadSlot DEF Identity
<1>16. ASSUME c \in Slots, NEW e \in Dev PROVE SlotKept(e, c)'
  <2>1. /\ CreateOwedTo(e, c)' /\ StatusOwedTo(e, c)'
        /\ CreateStandsFor(e, c)' /\ ClientStandsFor(e, c)'
    BY <1>6, <1>16 DEF CreateOwedTo, StatusOwedTo, CreateStandsFor, ClientStandsFor, Pending
  <2>2. IdAgreesFor(e, c)'
    <3>1. Names(f, f.client, f.clientUid)
      BY <1>1 DEF Names
    <3>2. \A g \in Queued(d), v \in Mark : Names(g, f.client, v) => v = f.clientUid
      BY <1>1, <1>7, <3>1 DEF Identity, NamesOK, OneName
    <3>3. Queued(d)' \subseteq Queued(d)
      BY <1>1, Taken
    <3>4. sock'[c].dev = e => e = d
      BY <1>6, <1>16
    <3>5. /\ sock'[c].socket_id = f.client /\ sock'[c].uid = f.clientUid
      BY <1>6, <1>16
    <3> QED
      BY <1>14, <3>2, <3>3, <3>4, <3>5 DEF IdAgreesFor
  <2> QED
    BY <2>1, <2>2 DEF SlotKept
<1>17. AcceptRuns'
  <2>1. ClientIs(a, f.clientUid)'
    <3>1. \A j \in Slots : InUse(j)' /\ sock'[j].uid = f.clientUid => j = a.client
      BY <1>4, <1>6, <1>9 DEF InUse
    <3>2. Known(a.dev, a.id, f.clientUid)'
      BY <1>4, <1>14
    <3>3. a.client \in Slots =>
            sock'[a.client].uid = f.clientUid /\ sock'[a.client].type = "CONNECT"
      BY <1>4, <1>6
    <3> QED
      BY <1>12, <3>1, <3>2, <3>3 DEF ClientIs
  <2>2. Top' = a
    BY <1>4 DEF Top
  <2> QED
    BY <1>4, <1>7, <2>1, <2>2 DEF AcceptRuns
<1> QED
  BY <1>10, <1>11, <1>13, <1>15, <1>16, <1>17, AllKept
-----------------------------------------------------------------------------
(* New sockets. *)

\* The new frame is not mistaken for what slot i waits for, nor for its socket.
Spared(d, f, i) == sock[i].dev = d =>
    /\ Pending(i) => ~(f.kind = "create_resp"
                       /\ (f.frame = sock[i].create_frame_id \/ f.uid = sock[i].uid))
    /\ Named(i) => \A v \in Mark : Names(f, sock[i].socket_id, v) => v = sock[i].uid
    /\ f.kind = "ipv4_client" /\ f.uid = sock[i].uid => radio'[d][f.client].uid = f.clientUid

LEMMA AnsweredSlot ==
    ASSUME TypeOK, Tables, Answers, NamesOK, Births,
           NEW d \in Dev, NEW f \in Frame, Answer(d, f), Tells(d, f),
           \A e \in Dev : Owed(e)' = Owed(e),
           NEW i \in Slots, Keeps(i), Spared(d, f, i), NEW e \in Dev
    PROVE  SlotKept(e, i)'
<1>1. /\ \A c \in Dev : Queued(c)' = IF c = d THEN Queued(c) \cup {f} ELSE Queued(c)
      /\ \A c \in Dev : c # d => rx'[c] = rx[c]
      /\ Len(rx[d]) \in Nat /\ Len(rx'[d]) = Len(rx[d]) + 1
      /\ \A k \in 1 .. Len(rx[d]) : rx'[d][k] = rx[d][k]
      /\ rx'[d][Len(rx[d]) + 1] = f
  BY Appended
<1>2. Named(i)' \/ Pending(i)' => InUse(i)'
  BY DEF Named, Pending, InUse
<1>3. /\ \A id \in Ids, u \in Uid : Known(e, id, u) => Known(e, id, u)'
      /\ \A id \in Ids, u \in Uid : \A k \in 1 .. Len(rx[e]) :
           KnownAfter(e, k, id, u) => KnownAfter(e, k, id, u)'
  BY StillKnown
<1>4. CreateOwedTo(e, i)'
  <2> SUFFICES ASSUME Pending(i)', sock'[i].dev = e
               PROVE  /\ \E g \in Queued(e)' :
                           g.kind = "create_resp" /\ g.frame = sock[i].create_frame_id
                      /\ \A g \in Queued(e)' : g.kind = "create_resp"
                           /\ g.frame = sock[i].create_frame_id => g.uid = sock[i].uid
    BY <1>2 DEF CreateOwedTo, Keeps
  <2>1. Pending(i) /\ sock[i].dev = e
    BY <1>2 DEF Keeps
  <2>2. /\ \E g \in Queued(e) : g.kind = "create_resp" /\ g.frame = sock[i].create_frame_id
        /\ \A g \in Queued(e) : g.kind = "create_resp"
             /\ g.frame = sock[i].create_frame_id => g.uid = sock[i].uid
    BY <2>1 DEF Answers, CreateOwed, CreateOwedTo
  <2> QED
    BY <1>1, <2>1, <2>2 DEF Spared
<1>5. StatusOwedTo(e, i)'
  BY DEF Keeps, Answers, StatusOwed, StatusOwedTo
<1>6. IdAgreesFor(e, i)'
  <2> SUFFICES ASSUME Named(i)', sock'[i].dev = e
               PROVE  /\ Known(e, sock[i].socket_id, sock[i].uid)'
                      /\ \A g \in Queued(e)', v \in Mark :
                           Names(g, sock[i].socket_id, v) => v = sock[i].uid
    BY <1>2 DEF IdAgreesFor, Keeps
  <2>1. /\ Named(i) /\ sock[i].dev = e /\ InUse(i)
        /\ sock'[i].socket_id = sock[i].socket_id /\ sock'[i].uid = sock[i].uid
        /\ sock[i].socket_id \in Ids /\ sock[i].uid \in Uid
    BY <1>2 DEF Keeps, Tables, SlotsOK
  <2>2. /\ Known(e, sock[i].socket_id, sock[i].uid)
        /\ \A g \in Queued(e), v \in Mark : Names(g, sock[i].socket_id, v) => v = sock[i].uid
    BY <2>1 DEF NamesOK, IdAgrees, IdAgreesFor
  <2> QED
    BY <1>1, <1>3, <2>1, <2>2 DEF Spared
<1>7. CreateStandsFor(e, i)'
  <2> SUFFICES ASSUME Pending(i)', sock'[i].dev = e,
                      NEW k \in 1 .. Len(rx'[e]), NEW g, g = rx'[e][k],
                      g.kind = "create_resp", g.ok, g.uid = sock'[i].uid
               PROVE  KnownAfter(e, k, g.id, g.uid)'
    BY DEF CreateStandsFor
  <2>1. Pending(i) /\ sock[i].dev = e /\ sock'[i].uid = sock[i].uid /\ sock[i].uid \in Uid
    BY <1>2 DEF Keeps, Tables, SlotsOK
  <2>2. k \in 1 .. Len(rx[e]) /\ g = rx[e][k]
    BY <1>1, <2>1 DEF Spared
  <2>3. KnownAfter(e, k, g.id, g.uid)
    BY <2>1, <2>2 DEF Births, CreateStands, CreateStandsFor
  <2>4. g.id \in Ids
    BY <2>2, QueueType DEF NamesOK, FramesOK
  <2> QED
    BY <1>3, <2>1, <2>2, <2>3, <2>4
<1>8. ClientStandsFor(e, i)'
  <2> SUFFICES ASSUME InUse(i)', sock'[i].type # "CONNECT", sock'[i].dev = e,
                      NEW k \in 1 .. Len(rx'[e]), NEW g, g = rx'[e][k],
                      g.kind = "ipv4_client", g.uid = sock'[i].uid
               PROVE  KnownAfter(e, k, g.client, g.clientUid)'
    BY DEF ClientStandsFor
  <2>1. /\ InUse(i) /\ sock[i].type # "CONNECT" /\ sock[i].dev = e
        /\ sock'[i].uid = sock[i].uid
    BY DEF Keeps
  <2>2. CASE k \in 1 .. Len(rx[e]) /\ g = rx[e][k]
    <3>1. KnownAfter(e, k, g.client, g.clientUid)
      BY <2>1, <2>2 DEF Births, ClientStands, ClientStandsFor
    <3>2. g.client \in Ids /\ g.clientUid \in Uid
      BY <2>2, QueueType DEF NamesOK, FramesOK
    <3> QED
      BY <1>3, <2>2, <3>1, <3>2
  <2>3. CASE e = d /\ g = f
    BY <2>1, <2>3 DEF Spared, KnownAfter
  <2> QED
    BY <1>1, <2>2, <2>3
<1> QED
  BY <1>4, <1>5, <1>6, <1>7, <1>8 DEF SlotKept

\* A number no socket has, and an id that no frame on the way names.
LEMMA FreshKnown ==
    ASSUME TypeOK, NEW u, u \notin KnownUid
    PROVE  /\ \A i \in Slots : sock[i].uid # u
           /\ \A d \in Dev, id \in Ids : radio[d][id].uid # u
           /\ \A d \in Dev : \A f \in Queued(d) : f.uid # u /\ f.clientUid # u
           /\ \A d \in Dev : \A s \in sending[d] : s.uid # u
<1>1. ASSUME NEW d \in Dev, NEW f \in Queued(d) PROVE f.uid # u /\ f.clientUid # u
  <2>1. PICK k \in 1 .. Len(rx[d]) : f = rx[d][k]
    BY DEF Queued
  <2>2. /\ f.uid \in {rx[d][l].uid : l \in 1 .. Len(rx[d])}
        /\ f.clientUid \in {rx[d][l].clientUid : l \in 1 .. Len(rx[d])}
    BY <2>1
  <2>3. f.uid \in KnownUid /\ f.clientUid \in KnownUid
    BY <2>2 DEF KnownUid
  <2> QED
    BY <2>3
<1>2. ASSUME NEW d \in Dev, NEW s \in sending[d] PROVE s.uid # u
  <2>1. s.uid \in KnownUid
    BY DEF KnownUid
  <2> QED
    BY <2>1
<1>3. \A i \in Slots : sock[i].uid # u
  BY DEF KnownUid
<1>4. \A d \in Dev, id \in Ids : radio[d][id].uid # u
  BY DEF KnownUid
<1> QED
  BY <1>1, <1>2, <1>3, <1>4

LEMMA FreeUnnamed ==
    ASSUME TypeOK, Identity, NEW d \in Dev, NEW id \in FreeIds(d)
    PROVE  /\ id \in Ids /\ radio[d][id].uid = 0
           /\ \A f \in Queued(d) : f.id # id /\ f.client # id
           /\ \A i \in Slots : Named(i) /\ sock[i].dev = d => sock[i].socket_id # id
<1>1. id \in Ids /\ radio[d][id].uid = 0
  BY DEF FreeIds
<1>2. \A f \in Queued(d) : f.id # id /\ f.client # id
  BY DEF FreeIds, Queued
<1>3. \A u \in Uid : ~Known(d, id, u)
  BY <1>1, <1>2, SockAssumption DEF Known, EndOf
<1>4. \A i \in Slots : Named(i) /\ sock[i].dev = d => sock[i].socket_id # id
  BY <1>3 DEF Identity, Tables, SlotsOK, NamesOK, IdAgrees, IdAgreesFor, Named, InUse
<1> QED
  BY <1>1, <1>2, <1>4

\* The id of a frame of a request is not that of a frame that is not answered.
LEMMA FrameFresh ==
    ASSUME TypeOK, NEW d \in Dev, TakeFrame(d)
    PROVE  /\ \A f \in Queued(d) : f.frame # NextFrame(d)
           /\ \A s \in Owed(d) : s.frame # NextFrame(d)
<1>1. FrameAnswered(d)
  BY DEF TakeFrame
<1>2. \A f \in Queued(d) : f.frame # NextFrame(d)
  BY <1>1 DEF FrameAnswered, Queued
<1>3. \A s \in sending[d] : s.frame # NextFrame(d)
  BY <1>1 DEF FrameAnswered
<1> QED
  BY <1>2, <1>3 DEF Owed

LEMMA SendIdentity ==
    ASSUME TypeOK, Identity, Patient, 0 \notin Ids, NEW i \in Slots, Send(i)
    PROVE  Identity'
<1>1. PICK d \in Dev : d = sock[i].dev
  BY DEF Send, Identity, Tables, SlotsOK, InUse
<1>2. PICK g : g = NextFrame(d)
  OBVIOUS
<1>3. /\ TakeFrame(d) /\ call' = call /\ radio' = radio /\ rx' = rx
      /\ sock' = [sock EXCEPT ![i].tx_frame_id = g]
      /\ sending' = [sending EXCEPT ![d] = @ \cup {[uid |-> sock[i].uid, frame |-> g]}]
      /\ InUse(i)
  BY <1>1, <1>2 DEF Send, InUse
<1>4. \A j \in Slots : /\ sock'[j].dev = sock[j].dev /\ sock'[j].uid = sock[j].uid
                       /\ sock'[j].socket_id = sock[j].socket_id
                       /\ sock'[j].create_frame_id = sock[j].create_frame_id
                       /\ sock'[j].type = sock[j].type
                       /\ j # i => sock'[j].tx_frame_id = sock[j].tx_frame_id
                       /\ j = i => sock'[j].tx_frame_id = g
  BY <1>3 DEF TypeOK, Socket
<1>5. \A j \in Slots : /\ Returning(j, "sent")' <=> Returning(j, "sent")
                       /\ Returning(j, "free")' <=> Returning(j, "free")
                       /\ InUse(j)' <=> InUse(j)
                       /\ Pending(j)' <=> Pending(j)
                       /\ Named(j)' <=> Named(j)
  BY <1>3, <1>4 DEF Returning, InUse, Pending, Named
<1>6. \A e \in Dev : Queued(e)' = Queued(e)
  BY <1>3, SameQueues
<1>7. /\ \A e, id, u : Known(e, id, u)' = Known(e, id, u)
      /\ \A e, k, id, u : KnownAfter(e, k, id, u)' = KnownAfter(e, k, id, u)
  BY <1>3 DEF Known, KnownAfter, Queued
<1>8. Tables'
  BY <1>4, <1>5 DEF Identity, Tables, SlotsOK, SlotsDiffer
<1>9. CreateOwed'
  BY <1>4, <1>5, <1>6 DEF Identity, Answers, CreateOwed, CreateOwedTo
<1>10. StatusOwed'
  <2>1. Owed(d)' = Owed(d) \cup {[uid |-> sock[i].uid, frame |-> g]}
    BY <1>3, <1>6 DEF Owed, TypeOK
  <2>2. \A e \in Dev : e # d => Owed(e)' = Owed(e)
    BY <1>3, <1>6 DEF Owed, TypeOK
  <2>3. \A s \in Owed(d) : s.frame # g
    BY <1>2, <1>3, FrameFresh
  <2> SUFFICES ASSUME NEW e \in Dev, NEW j \in Slots, InUse(j), sock[j].dev = e,
                      sock'[j].tx_frame_id # 0, ~Returning(j, "sent")
               PROVE  /\ \E s \in Owed(e)' : s.frame = sock'[j].tx_frame_id
                      /\ \A s \in Owed(e)' : s.frame = sock'[j].tx_frame_id => s.uid = sock[j].uid
    BY <1>4, <1>5 DEF StatusOwed, StatusOwedTo
  <2>4. CASE j = i
    <3>1. e = d /\ sock'[j].tx_frame_id = g
      BY <1>1, <1>4, <2>4
    <3> DEFINE w == [uid |-> sock[i].uid, frame |-> g]
    <3>2. w.frame = g /\ w.uid = sock[i].uid /\ Owed(d)' = Owed(d) \cup {w}
      BY <2>1
    <3> HIDE DEF w
    <3>3. w \in Owed(d)' /\ \A s \in Owed(d)' : s.frame = g => s = w
      BY <2>3, <3>2
    <3> QED
      BY <2>4, <3>1, <3>2, <3>3
  <2>5. CASE j # i
    <3>1. sock'[j].tx_frame_id = sock[j].tx_frame_id
      BY <1>4, <2>5
    <3>2. /\ \E s \in Owed(e) : s.frame = sock[j].tx_frame_id
          /\ \A s \in Owed(e) : s.frame = sock[j].tx_frame_id => s.uid = sock[j].uid
      BY <3>1 DEF Identity, Answers, StatusOwed, StatusOwedTo
    <3> QED
      BY <2>1, <2>2, <2>3, <3>1, <3>2
  <2> QED
    BY <2>4, <2>5
<1>11. NamesOK'
  <2>1. IdAgrees'
    BY <1>4, <1>5, <1>6, <1>7 DEF Identity, NamesOK, IdAgrees, IdAgreesFor
  <2>2. FramesOK' /\ OneName'
    BY <1>3, <1>6 DEF Identity, NamesOK, FramesOK, OneName
  <2> QED
    BY <2>1, <2>2 DEF NamesOK
<1>12. Births'
  <2>1. CreateStands'
    BY <1>3, <1>4, <1>5, <1>7 DEF Identity, Births, CreateStands, CreateStandsFor
  <2>2. ClientStands'
    BY <1>3, <1>4, <1>5, <1>7 DEF Identity, Births, ClientStands, ClientStandsFor
  <2>3. ClientsNew' /\ ClientsDiffer'
    BY <1>3, <1>4, <1>5, <1>6 DEF Identity, Births, ClientsNew, ClientsDiffer
  <2> QED
    BY <2>1, <2>2, <2>3 DEF Births
<1>13. AcceptRuns'
  BY <1>3, <1>4, <1>5, <1>6, <1>7, StillAccepts DEF Identity
<1> QED
  BY <1>8, <1>9, <1>10, <1>11, <1>12, <1>13 DEF Identity, Answers

\* xbee_sock_create(): the module has a socket for it, or not.
LEMMA CreateIdentity ==
    ASSUME TypeOK, Identity, 0 \notin Ids,
           NEW d \in Dev, NEW protocol \in Protocol, Create(d, protocol)
    PROVE  Identity'
<1>1. PICK i \in Slots : i = FirstOf(Available) /\ ~InUse(i)
  BY FirstSlot DEF Create, Available
<1>2. PICK u \in Uid : u = (CHOOSE v \in FreshUid : TRUE) /\ u \notin KnownUid
  BY DEF Create, FreshUid
<1>3. PICK g \in 1 .. FrameMax : g = NextFrame(d)
  BY NextFrameType
<1>4. PICK s : /\ sock' = [sock EXCEPT ![i] = s]
               /\ s.type = "PENDING" /\ s.dev = d /\ s.uid = u /\ s.create_frame_id = g
               /\ s.tx_frame_id = 0 /\ s.socket_id = 0
  <2> DEFINE s == [Free EXCEPT !.type = "PENDING", !.dev = d, !.uid = u,
                     !.create_frame_id = g, !.protocol = protocol]
  <2>1. sock' = [sock EXCEPT ![i] = s]
    BY <1>1, <1>2, <1>3 DEF Create
  <2>2. /\ s.type = "PENDING" /\ s.dev = d /\ s.uid = u /\ s.create_frame_id = g
        /\ s.tx_frame_id = 0 /\ s.socket_id = 0
    BY DEF Free
  <2> HIDE DEF s
  <2> QED
    BY <2>1, <2>2
<1>5. PICK id \in {0} \cup Ids, ok \in BOOLEAN :
        /\ Answer(d, FrameOf("create_resp", u, id, g, ok))
        /\ \/ /\ id \in FreeIds(d)
              /\ radio' = [radio EXCEPT ![d][id] =
                             [uid |-> u, protocol |-> protocol, state |-> "open"]]
           \/ id = 0 /\ ~ok /\ radio' = radio
  BY <1>2, <1>3 DEF Create, FreeIds
<1>6. PICK f \in Frame : /\ f = FrameOf("create_resp", u, id, g, ok)
                         /\ f.kind = "create_resp" /\ f.uid = u /\ f.id = id /\ f.frame = g
                         /\ f.ok = ok
  <2>1. u \in Mark /\ g \in 0 .. FrameMax
    BY SockAssumption DEF Mark
  <2>2. FrameOf("create_resp", u, id, g, ok) \in Frame
    BY <2>1, FrameType
  <2> QED
    BY <2>2 DEF FrameOf
<1>7. TakeFrame(d) /\ call' = call /\ sending' = sending
  BY DEF Create
<1>8. /\ \A j \in Slots : sock[j].uid # u
      /\ \A e \in Dev, k \in Ids : radio[e][k].uid # u
      /\ \A e \in Dev : \A h \in Queued(e) : h.uid # u /\ h.clientUid # u
  BY <1>2, FreshKnown
<1>9. id \in Ids =>
        /\ radio[d][id].uid = 0 /\ radio'[d][id].uid = u
        /\ \A h \in Queued(d) : h.id # id /\ h.client # id
        /\ \A j \in Slots : Named(j) /\ sock[j].dev = d => sock[j].socket_id # id
  BY <1>5, FreeUnnamed DEF TypeOK
<1>10. \A e \in Dev, k \in Ids : radio'[e][k].uid = radio[e][k].uid \/ (e = d /\ k = id)
  BY <1>5 DEF TypeOK
<1>11. /\ \A e \in Dev : Queued(e)' = IF e = d THEN Queued(e) \cup {f} ELSE Queued(e)
       /\ \A e \in Dev : e # d => rx'[e] = rx[e]
       /\ Len(rx[d]) \in Nat /\ Len(rx'[d]) = Len(rx[d]) + 1
       /\ \A k \in 1 .. Len(rx[d]) : rx'[d][k] = rx[d][k]
       /\ rx'[d][Len(rx[d]) + 1] = f
  BY <1>5, <1>6, Appended
<1>12. /\ \A j \in Slots : j # i => sock'[j] = sock[j]
       /\ sock'[i] = s
  BY <1>4 DEF TypeOK
<1>13. \A j, then : Returning(j, then)' <=> Returning(j, then)
  BY <1>7 DEF Returning
<1>14. \A j \in Slots : j # i => Keeps(j)
  BY <1>12, <1>13 DEF Keeps, InUse, Pending, Named, Identity, Tables, SlotsOK
<1>15. Tables'
  <2>1. SlotsOK'
    BY <1>4, <1>12, <1>14 DEF Keeps, Identity, Tables, SlotsOK, InUse, Named
  <2>2. SlotsDiffer'
    BY <1>4, <1>8, <1>12 DEF Identity, Tables, SlotsDiffer, InUse
  <2> QED
    BY <2>1, <2>2 DEF Tables
<1>16. FramesOK'
  <2>1. ok => id \in Ids
    BY <1>5 DEF FreeIds
  <2>2. \A e \in Dev : \A h \in Queued(e)' : h \in Queued(e) \/ h = f
    BY <1>11
  <2>3. f.kind = "create_resp" /\ (f.id \in Ids \/ (~f.ok /\ f.id = 0))
    BY <1>5, <1>6, <2>1
  <2> QED
    BY <2>2, <2>3 DEF Identity, NamesOK, FramesOK
<1>17. Tells(d, f)
  BY <1>9, <1>10 DEF Tells
<1>18. \A e \in Dev : Owed(e)' = Owed(e)
  BY <1>6, <1>7, <1>11 DEF Owed
<1>19. OneName'
  <2> SUFFICES ASSUME NEW e \in Dev, NEW k \in Ids, NEW v \in Mark, NEW h \in Queued(e)',
                      Names(h, k, v)
               PROVE  /\ \A w \in Mark : \A m \in Queued(e)' : Names(m, k, w) => v = w
                      /\ radio'[e][k].uid \in {0, v}
    BY DEF OneName
  <2>1. CASE e = d /\ k = id
    <3>1. \A m \in Queued(d)', w \in Mark : Names(m, id, w) => m = f /\ w = u
      BY <1>6, <1>9, <1>11, <2>1 DEF Names
    <3> QED
      BY <1>9, <2>1, <3>1
  <2>2. CASE ~(e = d /\ k = id)
    <3>1. \A m \in Queued(e)', w \in Mark : Names(m, k, w) => m \in Queued(e)
      BY <1>6, <1>11, <2>2 DEF Names
    <3> QED
      BY <1>10, <2>2, <3>1 DEF Identity, NamesOK, OneName
  <2> QED
    BY <2>1, <2>2
<1>20. ASSUME NEW j \in Slots, j # i, NEW e \in Dev PROVE SlotKept(e, j)'
  <2>1. Spared(d, f, j)
    <3>1. \A h \in Queued(d) : h.frame # g
      BY <1>3, <1>7, FrameFresh
    <3>2. Pending(j) /\ sock[j].dev = d => sock[j].create_frame_id # g
      BY <3>1 DEF Identity, Answers, CreateOwed, CreateOwedTo
    <3>3. Named(j) /\ sock[j].dev = d => sock[j].socket_id # id /\ sock[j].socket_id \in Ids
      BY <1>9 DEF Identity, Tables, SlotsOK
    <3> QED
      BY <1>6, <1>8, <3>2, <3>3 DEF Spared, Names
  <2> QED
    BY <1>5, <1>6, <1>14, <1>17, <1>18, <1>20, <2>1, AnsweredSlot DEF Identity
<1>21. ASSUME NEW e \in Dev PROVE SlotKept(e, i)'
  <2>1. CreateOwedTo(e, i)'
    <3>1. \A h \in Queued(d) : h.frame # g
      BY <1>3, <1>7, FrameFresh
    <3>2. f \in Queued(d)' /\ \A h \in Queued(d)' : h.frame = g => h = f
      BY <1>11, <3>1
    <3>3. sock'[i].dev = e => e = d
      BY <1>4, <1>12
    <3>4. sock'[i].create_frame_id = g /\ sock'[i].uid = u
      BY <1>4, <1>12
    <3> QED
      BY <1>6, <3>2, <3>3, <3>4 DEF CreateOwedTo
  <2>2. StatusOwedTo(e, i)' /\ IdAgreesFor(e, i)'
    BY <1>4, <1>12 DEF StatusOwedTo, IdAgreesFor, Named
  <2>3. CreateStandsFor(e, i)'
    <3> SUFFICES ASSUME e = d, NEW k \in 1 .. Len(rx'[d]), NEW h, h = rx'[d][k],
                        h.kind = "create_resp", h.ok, h.uid = u
                 PROVE  KnownAfter(d, k, h.id, h.uid)'
      BY <1>4, <1>12 DEF CreateStandsFor
    <3>1. h = f
      <4>1. \A l \in 1 .. Len(rx[d]) : rx[d][l] \in Queued(d)
        BY DEF Queued
      <4>2. k \notin 1 .. Len(rx[d])
        BY <1>8, <1>11, <4>1
      <4>3. k = Len(rx[d]) + 1
        BY <1>11, <4>2
      <4> QED
        BY <1>11, <4>3
    <3>2. id \in Ids
      BY <1>5, <1>6, <3>1 DEF FreeIds
    <3> QED
      BY <1>6, <1>9, <3>1, <3>2 DEF KnownAfter
  <2>4. ClientStandsFor(e, i)'
    <3> SUFFICES ASSUME e = d, NEW k \in 1 .. Len(rx'[d]), NEW h, h = rx'[d][k],
                        h.kind = "ipv4_client", h.uid = u
                 PROVE  FALSE
      BY <1>4, <1>12 DEF ClientStandsFor
    <3>1. \A l \in 1 .. Len(rx[d]) : rx[d][l] \in Queued(d)
      BY DEF Queued
    <3>2. f.kind # "ipv4_client" /\ h # f
      BY <1>6
    <3>3. k # Len(rx[d]) + 1
      BY <1>11, <3>2
    <3>4. k \in 1 .. Len(rx[d])
      BY <1>11, <3>3
    <3>5. h \in Queued(d)
      BY <1>11, <3>1, <3>4
    <3> QED
      BY <1>8, <3>5
  <2> QED
    BY <2>1, <2>2, <2>3, <2>4 DEF SlotKept
<1>22. ClientsNew'
  BY <1>4, <1>6, <1>8, <1>11, <1>12 DEF Identity, Births, ClientsNew, InUse
<1>23. ClientsDiffer'
  <2> SUFFICES ASSUME NEW c \in Dev, NEW e \in Dev, NEW k \in 1 .. Len(rx'[c]),
                      NEW l \in 1 .. Len(rx'[e]),
                      rx'[c][k].kind = "ipv4_client", rx'[e][l].kind = "ipv4_client",
                      rx'[c][k].clientUid = rx'[e][l].clientUid
               PROVE  c = e /\ k = l
    BY DEF ClientsDiffer
  <2>1. f.kind # "ipv4_client"
    BY <1>6
  <2>2. k \in 1 .. Len(rx[c]) /\ rx'[c][k] = rx[c][k]
    BY <1>5, <1>6, <2>1, AppendedAt
  <2>3. l \in 1 .. Len(rx[e]) /\ rx'[e][l] = rx[e][l]
    BY <1>5, <1>6, <2>1, AppendedAt
  <2> QED
    BY <2>2, <2>3 DEF Identity, Births, ClientsDiffer
<1>24. AcceptRuns'
  <2>1. \A e \in Dev, k \in Ids, v \in Uid : Known(e, k, v) => Known(e, k, v)'
    BY <1>5, <1>6, <1>17, StillKnown
  <2>2. \A j \in Slots : InUse(j)' =>
          (InUse(j) /\ sock'[j].uid = sock[j].uid) \/ sock'[j].uid \notin KnownUid
    BY <1>2, <1>4, <1>12 DEF InUse
  <2>3. \A j \in Slots : sock[j].type = "CONNECT" =>
          sock'[j].type = "CONNECT" /\ sock'[j].uid = sock[j].uid
    BY <1>1, <1>12 DEF InUse
  <2>4. \A e \in Dev : \A h \in Queued(e)' :
          h.kind = "ipv4_client" => h \in Queued(e) \/ h.clientUid \notin KnownUid
    BY <1>6, <1>11
  <2> QED
    BY <1>7, <2>1, <2>2, <2>3, <2>4, StillAccepts DEF Identity
<1> QED
  BY <1>15, <1>16, <1>19, <1>20, <1>21, <1>22, <1>23, <1>24, AllKept

\* A client connects: the module gives its id out, and says so of the listener.
LEMMA AcceptsClientIdentity ==
    ASSUME TypeOK, Identity, 0 \notin Ids, NEW d \in Dev, NEW id \in Ids, AcceptsClient(d, id)
    PROVE  Identity'
<1>1. PICK u \in Uid : u = (CHOOSE v \in FreshUid : TRUE) /\ u \notin KnownUid
  BY DEF AcceptsClient, FreshUid
<1>2. PICK l \in Uid : l = radio[d][id].uid /\ l # u /\ Known(d, id, l)
  <2>1. radio[d][id].uid \in Uid
    BY DEF AcceptsClient, TypeOK, Radio, Mark
  <2>2. radio[d][id].uid # u
    BY <1>1, FreshKnown
  <2> QED
    BY <2>1, <2>2 DEF Known
<1>3. PICK c \in FreeIds(d) :
        /\ radio' = [radio EXCEPT ![d][c] =
                       [uid |-> u, protocol |-> radio[d][id].protocol, state |-> "connected"]]
        /\ Answer(d, [FrameOf("ipv4_client", l, id, 0, TRUE)
                         EXCEPT !.client = c, !.clientUid = u])
        /\ sock' = sock /\ call' = call /\ sending' = sending
  BY <1>1, <1>2 DEF AcceptsClient
<1>4. /\ c \in Ids /\ radio[d][c].uid = 0
      /\ \A h \in Queued(d) : h.id # c /\ h.client # c
      /\ \A j \in Slots : Named(j) /\ sock[j].dev = d => sock[j].socket_id # c
  BY FreeUnnamed
<1>5. PICK f \in Frame : /\ f = [FrameOf("ipv4_client", l, id, 0, TRUE)
                                   EXCEPT !.client = c, !.clientUid = u]
                         /\ f.kind = "ipv4_client" /\ f.id = id /\ f.uid = l
                         /\ f.client = c /\ f.clientUid = u
  <2> DEFINE f == [FrameOf("ipv4_client", l, id, 0, TRUE) EXCEPT !.client = c, !.clientUid = u]
  <2>1. f \in Frame
    <3>1. /\ 0 \in 0 .. FrameMax /\ TRUE \in BOOLEAN /\ id \in {0} \cup Ids
          /\ l \in Mark /\ u \in Mark /\ c \in {0} \cup Ids
      BY <1>4, SockAssumption DEF Mark
    <3> QED
      BY <3>1 DEF FrameOf, Frame
  <2>2. f.kind = "ipv4_client" /\ f.id = id /\ f.uid = l /\ f.client = c /\ f.clientUid = u
    BY DEF FrameOf
  <2> QED
    BY <2>1, <2>2
<1>6. f.kind = "ipv4_client" /\ f.clientUid = u
  BY <1>5
<1>7. id # c
  BY <1>2, <1>4, SockAssumption
<1>8. /\ \A j \in Slots : sock[j].uid # u
      /\ \A e \in Dev, k \in Ids : radio[e][k].uid # u
      /\ \A e \in Dev : \A h \in Queued(e) : h.uid # u /\ h.clientUid # u
  BY <1>1, FreshKnown
<1>9. /\ radio'[d][c].uid = u
      /\ \A e \in Dev, k \in Ids : radio'[e][k].uid = radio[e][k].uid \/ (e = d /\ k = c)
  BY <1>3, <1>4 DEF TypeOK
<1>10. /\ \A e \in Dev : Queued(e)' = IF e = d THEN Queued(e) \cup {f} ELSE Queued(e)
      /\ \A e \in Dev : e # d => rx'[e] = rx[e]
      /\ Len(rx[d]) \in Nat /\ Len(rx'[d]) = Len(rx[d]) + 1
      /\ \A k \in 1 .. Len(rx[d]) : rx'[d][k] = rx[d][k]
      /\ rx'[d][Len(rx[d]) + 1] = f
  BY <1>3, <1>5, Appended
<1>11. \A j \in Slots : Keeps(j)
  BY <1>3, SameSlots
<1>12. Tables'
  BY <1>11, KeepTables DEF Identity
<1>13. FramesOK'
  <2>1. \A e \in Dev : \A h \in Queued(e)' : h \in Queued(e) \/ h = f
    BY <1>10
  <2> QED
    BY <1>4, <1>5, <2>1 DEF Identity, NamesOK, FramesOK
<1>14. Tells(d, f)
  BY <1>4, <1>9 DEF Tells
<1>15. \A e \in Dev : Owed(e)' = Owed(e)
  BY <1>3, <1>5, <1>10 DEF Owed
\* The listener is known by its id, and by no other name.
<1>16. /\ \A h \in Queued(d), v \in Mark : Names(h, id, v) => v = l
       /\ \A v \in Uid : Known(d, id, v) => v = l
  BY <1>2, KnownOne DEF Identity
<1>17. \A k \in Ids, v \in Mark : Names(f, k, v) => (k = id /\ v = l) \/ (k = c /\ v = u)
  BY <1>5 DEF Names
<1>18. \A h \in Queued(d), v \in Mark : ~Names(h, c, v)
  BY <1>4 DEF Names
<1>19. OneName'
  <2> SUFFICES ASSUME NEW e \in Dev, NEW k \in Ids, NEW v \in Mark, NEW h \in Queued(e)',
                      Names(h, k, v)
               PROVE  /\ \A w \in Mark : \A m \in Queued(e)' : Names(m, k, w) => v = w
                      /\ radio'[e][k].uid \in {0, v}
    BY DEF OneName
  <2>1. CASE e = d /\ k = c
    BY <1>7, <1>9, <1>10, <1>17, <1>18, <2>1
  <2>2. CASE e = d /\ k = id
    BY <1>2, <1>7, <1>9, <1>10, <1>16, <1>17, <2>2
  <2>3. CASE ~(e = d /\ k \in {c, id})
    <3>1. \A m \in Queued(e)', w \in Mark : Names(m, k, w) => m \in Queued(e)
      BY <1>10, <1>17, <2>3
    <3> QED
      BY <1>9, <2>3, <3>1 DEF Identity, NamesOK, OneName
  <2> QED
    BY <2>1, <2>2, <2>3
<1>20. ASSUME NEW j \in Slots, NEW e \in Dev PROVE SlotKept(e, j)'
  <2>1. Spared(d, f, j)
    <3>1. ASSUME Named(j), sock[j].dev = d, NEW v \in Mark, Names(f, sock[j].socket_id, v)
          PROVE  v = sock[j].uid
      <4>1. sock[j].socket_id \in Ids /\ sock[j].socket_id # c
        BY <1>4, <3>1 DEF Identity, Tables, SlotsOK
      <4>2. sock[j].socket_id = id /\ v = l
        BY <1>17, <3>1, <4>1
      <4>3. sock[j].uid \in Uid /\ Known(d, id, sock[j].uid)
        BY <3>1, <4>2 DEF Identity, Tables, SlotsOK, NamesOK, IdAgrees, IdAgreesFor, Named, InUse
      <4> QED
        BY <1>16, <4>2, <4>3
    <3> QED
      BY <1>5, <1>9, <3>1 DEF Spared
  <2> QED
    BY <1>3, <1>5, <1>11, <1>14, <1>15, <2>1, AnsweredSlot DEF Identity
<1>21. ClientsNew'
  <2> SUFFICES ASSUME NEW e \in Dev, NEW h \in Queued(e)', h.kind = "ipv4_client",
                      NEW j \in Slots, InUse(j)
               PROVE  sock[j].uid # h.clientUid
    BY <1>3 DEF ClientsNew, InUse
  <2>1. CASE h \in Queued(e)
    BY <2>1 DEF Identity, Births, ClientsNew
  <2>2. CASE h = f
    BY <1>8, <2>2, <1>6
  <2> QED
    BY <1>10, <2>1, <2>2
<1>22. ClientsDiffer'
  <2> SUFFICES ASSUME NEW b \in Dev, NEW e \in Dev, NEW k \in 1 .. Len(rx'[b]),
                      NEW m \in 1 .. Len(rx'[e]),
                      rx'[b][k].kind = "ipv4_client", rx'[e][m].kind = "ipv4_client",
                      rx'[b][k].clientUid = rx'[e][m].clientUid
               PROVE  b = e /\ k = m
    BY DEF ClientsDiffer
  <2>1. ASSUME NEW g \in Dev, NEW n \in 1 .. Len(rx'[g])
        PROVE  \/ /\ n \in 1 .. Len(rx[g]) /\ rx'[g][n] = rx[g][n] /\ rx'[g][n].clientUid # u
               \/ g = d /\ n = Len(rx[d]) + 1 /\ rx'[g][n].clientUid = u
    <3>1. \/ n \in 1 .. Len(rx[g]) /\ rx'[g][n] = rx[g][n] /\ rx[g][n] \in Queued(g)
          \/ g = d /\ n = Len(rx[d]) + 1 /\ rx'[g][n] = f
      BY <1>3, <1>5, AppendedAt
    <3> QED
      BY <1>6, <1>8, <3>1
  <2>2. \/ /\ k \in 1 .. Len(rx[b]) /\ rx'[b][k] = rx[b][k] /\ rx'[b][k].clientUid # u
        \/ b = d /\ k = Len(rx[d]) + 1 /\ rx'[b][k].clientUid = u
    BY <2>1
  <2>3. \/ /\ m \in 1 .. Len(rx[e]) /\ rx'[e][m] = rx[e][m] /\ rx'[e][m].clientUid # u
        \/ e = d /\ m = Len(rx[d]) + 1 /\ rx'[e][m].clientUid = u
    BY <2>1
  <2>4. CASE /\ k \in 1 .. Len(rx[b]) /\ rx'[b][k] = rx[b][k]
             /\ m \in 1 .. Len(rx[e]) /\ rx'[e][m] = rx[e][m]
    BY <2>4 DEF Identity, Births, ClientsDiffer
  <2> QED
    BY <2>2, <2>3, <2>4
<1>23. AcceptRuns'
  <2>1. \A e \in Dev, k \in Ids, v \in Uid : Known(e, k, v) => Known(e, k, v)'
    BY <1>3, <1>5, <1>14, StillKnown
  <2>2. ASSUME NEW e \in Dev, NEW h \in Queued(e)'
        PROVE  h \in Queued(e) \/ h.clientUid \notin KnownUid
    <3>1. h \in Queued(e) \/ h = f
      BY <1>10
    <3> QED
      BY <1>1, <1>6, <3>1
  <2> QED
    BY <1>3, <2>1, <2>2, StillAccepts DEF Identity, InUse
<1> QED
  BY <1>12, <1>13, <1>19, <1>20, <1>21, <1>22, <1>23, AllKept
-----------------------------------------------------------------------------
(* The steps together, and what the application is told. *)

LEMMA InitIdentity == ASSUME Init PROVE Identity
<1>1. \A d \in Dev : Queued(d) = {} /\ Len(rx[d]) = 0
  BY EmptySeq DEF Init, Queued
<1>2. \A i \in Slots : sock[i].type = "AVAILABLE" /\ sock[i].dev = NULL
  BY DEF Init, Free
<1>3. Tables
  BY <1>2 DEF Tables, SlotsOK, SlotsDiffer, InUse, Named
<1>4. CreateOwed /\ IdAgrees /\ CreateStands
  BY <1>2 DEF CreateOwed, CreateOwedTo, IdAgrees, IdAgreesFor, CreateStands, CreateStandsFor,
              Pending, Named
<1>5. StatusOwed /\ ClientStands
  BY <1>2 DEF StatusOwed, StatusOwedTo, ClientStands, ClientStandsFor, InUse
<1>6. FramesOK /\ OneName /\ ClientsNew /\ ClientsDiffer
  BY <1>1 DEF FramesOK, OneName, ClientsNew, ClientsDiffer
<1>7. AcceptRuns
  BY DEF Init, AcceptRuns
<1> QED
  BY <1>3, <1>4, <1>5, <1>6, <1>7 DEF Identity, Answers, NamesOK, Births

LEMMA IdentityStep ==
    ASSUME Patient, ~FreeInCallback, 0 \notin Ids,
           TypeOK, CallsInTurn, Identity, [Next]_vars
    PROVE  Identity'
<1>1. CASE App
  <2>1. ASSUME NEW d \in Dev, NEW protocol \in Protocol, Create(d, protocol) PROVE Identity'
    BY <2>1, CreateIdentity
  <2>2. ASSUME NEW d \in Dev, Reset(d) PROVE Identity'
    BY <2>2, ResetIdentity
  <2>3. ASSUME NEW d \in Dev, Refused(d) PROVE Identity'
    BY <2>3, QuietIdentity DEF Refused
  <2>4. ASSUME NEW d \in Dev \cup {NULL}, CloseAll(d) PROVE Identity'
    BY <2>4, CloseAllIdentity
  <2>5. ASSUME NEW i \in Slots, Connect(i) \/ Bind(i) \/ Listen(i) PROVE Identity'
    BY <2>5, AttachIdentity DEF Connect, Bind, Listen
  <2>6. ASSUME NEW i \in Slots, Send(i) PROVE Identity'
    BY <2>6, SendIdentity
  <2>7. ASSUME NEW i \in Slots, Close(i) PROVE Identity'
    BY <2>7, CloseCallIdentity
  <2>8. ASSUME NEW i \in Slots, NEW callback \in BOOLEAN, Option(i, callback) PROVE Identity'
    BY <2>8, OptionIdentity
  <2> QED
    BY <1>1, <2>1, <2>2, <2>3, <2>4, <2>5, <2>6, <2>7, <2>8 DEF App
<1>2. CASE CloseNext
  BY <1>2, CloseNextIdentity
<1>3. CASE Returns
  BY <1>3, CallbackReturnsIdentity, ClientAcceptedIdentity, ClientRejectedIdentity DEF Returns
<1>4. ASSUME NEW d \in Dev, NEW f, Handle(d, f) PROVE Identity'
  <2>1. CASE Matched(d, f) /\ f.kind = "create_resp" /\ f.ok
    BY <2>1, CreateRespIdentity
  <2>2. CASE Matched(d, f) /\ ~(f.kind = "create_resp" /\ f.ok)
    BY <2>2, MatchedIdentity
  <2> QED
    BY <1>4, <2>1, <2>2, UnmatchedIdentity, ClientArrivesIdentity DEF Handle
<1>5. CASE Module
  <2>1. ASSUME NEW d \in Dev, NEW id \in Ids, NEW ok \in BOOLEAN, AnswersAttach(d, id, ok)
        PROVE  Identity'
    BY <2>1, AnswersAttachIdentity
  <2>2. ASSUME NEW d \in Dev, NEW id \in Ids, Delivers(d, id) PROVE Identity'
    BY <2>2, DeliversIdentity
  <2>3. ASSUME NEW d \in Dev, NEW id \in Ids, AcceptsClient(d, id) PROVE Identity'
    BY <2>3, AcceptsClientIdentity
  <2>4. ASSUME NEW d \in Dev, NEW id \in Ids, Ends(d, id) PROVE Identity'
    BY <2>4, EndsIdentity
  <2>5. ASSUME NEW d \in Dev, NEW s \in sending[d], Reports(d, s) PROVE Identity'
    BY <2>5, ReportsIdentity
  <2> QED
    BY <1>5, <2>1, <2>2, <2>3, <2>4, <2>5 DEF Module
<1>6. CASE UNCHANGED vars
  BY <1>6, QuietIdentity DEF vars
<1> QED
  BY <1>1, <1>2, <1>3, <1>4, <1>5, <1>6 DEF Next

\* A callback that is pushed is about the socket of its slot.
LEMMA PushedOwner ==
    ASSUME NEW stack \in Seq(Activation), NEW i \in Slots, CloseWritten(i, stack),
           \A k \in 1 .. Len(stack) : stack[k].then # "close_all" => stack[k].to = stack[k].about
    PROVE  OwnerNotified'
<1> DEFINE a == Callback(i, "free", sock[i].uid, N, 0)
<1>1. /\ Len(call') = Len(stack) + 1
      /\ \A k \in 1 .. Len(stack) : call'[k] = stack[k]
      /\ call'[Len(stack) + 1] = a
  BY DEF CloseWritten
<1>2. a.to = a.about
  BY DEF Callback
<1>3. Len(stack) \in Nat
  BY LenProperties
<1> HIDE DEF a
<1> QED
  BY <1>1, <1>2, <1>3 DEF OwnerNotified

LEMMA OwnerStep ==
    ASSUME ~FreeInCallback, 0 \notin Ids,
           TypeOK, CallsInTurn, Identity, OwnerNotified, [Next]_vars
    PROVE  OwnerNotified'
<1>1. CASE call' = call
  BY <1>1 DEF OwnerNotified
<1>2. CASE call # <<>> /\ call' = Below
  BY <1>2, UnderTop DEF OwnerNotified
<1>3. ASSUME NEW i \in Slots, Close(i) PROVE OwnerNotified'
  <2>1. call \in Seq(Activation)
    BY DEF TypeOK, Activation
  <2> QED
    BY <1>3, <2>1, PushedOwner DEF Close, OwnerNotified
<1>4. ASSUME NEW d, CloseAll(d) PROVE OwnerNotified'
  <2> DEFINE a == [then |-> "close_all", dev |-> d, next |-> 0]
  <2>1. call' = Append(<<>>, a)
    BY <1>4 DEF CloseAll, AppFrees
  <2>2. a.then = "close_all"
    OBVIOUS
  <2> HIDE DEF a
  <2>3. call' = <<a>>
    BY <2>1
  <2> QED
    BY <2>2, <2>3 DEF OwnerNotified
<1>5. ASSUME CloseNext, call' # Below PROVE OwnerNotified'
  <2> DEFINE open == {i \in Slots : /\ i >= Top.next
                                    /\ sock[i].type \notin {"AVAILABLE", "PENDING"}
                                    /\ Top.dev \in {NULL, sock[i].dev}}
             j == FirstOf(open)
             next == [Top EXCEPT !.next = j + 1]
  <2>1. call # <<>> /\ Top.then = "close_all" /\ open # {} /\ CloseWritten(j, Append(Below, next))
    BY <1>5 DEF CloseNext
  <2>2. j \in Slots /\ Top \in CloseAllCall
    BY <2>1, FirstSlot, PopType DEF Activation, CallbackCall
  <2> HIDE DEF j
  <2>3. next \in Activation /\ next.then = "close_all"
    BY <2>1, <2>2, SockAssumption DEF CloseAllCall, Activation, Slots
  <2> HIDE DEF next
  <2>4. /\ Below \in Seq(Activation) /\ Len(Below) \in Nat
        /\ \A k \in 1 .. Len(Below) : Below[k].then = "close_all"
    BY <2>1, UnderTop, LenProperties
  <2>5. /\ Append(Below, next) \in Seq(Activation)
        /\ Len(Append(Below, next)) = Len(Below) + 1
        /\ \A k \in 1 .. Len(Below) : Append(Below, next)[k] = Below[k]
        /\ Append(Below, next)[Len(Below) + 1] = next
    BY <2>3, <2>4, AppendProperties
  <2>6. \A k \in 1 .. Len(Append(Below, next)) : Append(Below, next)[k].then = "close_all"
    BY <2>3, <2>4, <2>5
  <2> QED
    BY <2>1, <2>2, <2>5, <2>6, PushedOwner
<1>6. ASSUME NEW d \in Dev, NEW f, Matched(d, f) PROVE OwnerNotified'
  <2>1. PICK i \in Slots : /\ sock[i].uid = f.uid
                           /\ call' = <<Callback(i, AfterCallback(f), f.uid, N, 0)>>
    BY <1>6, MatchedOwn
  <2>2. PICK a : call' = <<a>> /\ a.to = a.about
    BY <2>1 DEF Callback
  <2> QED
    BY <2>2 DEF OwnerNotified
<1>7. ASSUME NEW d \in Dev, NEW f, ClientArrives(d, f) PROVE OwnerNotified'
  <2> DEFINE l == FirstOf(Target(d, f))
             c == IF Available = {} THEN N ELSE FirstOf(Available)
  <2>1. call = <<>> /\ Receives(d, f) /\ Target(d, f) # {}
    BY <1>7 DEF ClientArrives, Receives
  <2>2. f \in Frame /\ f \in Queued(d)
    BY <2>1, Taken
  <2>3. l \in Target(d, f)
    BY <2>1, <2>2, TargetSlots, FirstSlot
  <2>4. sock[l].uid = f.uid
    <3> HIDE DEF l
    <3> QED
      BY <2>1, <2>2, <2>3, TargetOwns
  <2>5. PICK a : call' = <<a>> /\ a.to = a.about
    <3>1. call' = <<Callback(l, "accept", f.uid, c, f.client)>>
      BY <1>7 DEF ClientArrives
    <3> HIDE DEF l, c
    <3>2. /\ Callback(l, "accept", f.uid, c, f.client).to = sock[l].uid
          /\ Callback(l, "accept", f.uid, c, f.client).about = f.uid
      BY DEF Callback
    <3> QED
      BY <2>4, <3>1, <3>2
  <2> QED
    BY <2>5 DEF OwnerNotified
<1>8. CASE App
  <2>1. ASSUME NEW d \in Dev, NEW protocol, Create(d, protocol) PROVE call' = call
    BY <2>1 DEF Create
  <2>2. ASSUME NEW d \in Dev, Reset(d) \/ Refused(d) PROVE call' = call
    BY <2>2 DEF Reset, Refused
  <2>3. ASSUME NEW i \in Slots, Connect(i) \/ Bind(i) \/ Listen(i) \/ Send(i) PROVE call' = call
    BY <2>3 DEF Connect, Bind, Listen, Attach, AttachSent, Send
  <2>4. ASSUME NEW i \in Slots, NEW callback \in BOOLEAN, Option(i, callback) PROVE call' = call
    BY <2>4 DEF Option
  <2> QED
    BY <1>1, <1>3, <1>4, <1>8, <2>1, <2>2, <2>3, <2>4 DEF App
<1>9. CASE CloseNext
  BY <1>2, <1>5, <1>9 DEF CloseNext
<1>10. CASE Returns
  BY <1>2, <1>10 DEF Returns, CallbackReturns, ClientAccepted, ClientRejected
<1>11. CASE Module
  BY <1>1, <1>11 DEF Module, AnswersAttach, Delivers, AcceptsClient, Ends, Reports
<1>12. ASSUME NEW d \in Dev, NEW f, Handle(d, f) PROVE OwnerNotified'
  BY <1>1, <1>6, <1>7, <1>12 DEF Handle, Unmatched
<1>13. CASE UNCHANGED vars
  BY <1>1, <1>13 DEF vars
<1> QED
  BY <1>8, <1>9, <1>10, <1>11, <1>12, <1>13 DEF Next

\* The application is told of the socket a frame is about, for tables, modules and
\* ids of any number, when it waits for the Create Response, frees no socket from a
\* callback and the module gives no socket the id 0: never of one that has taken the
\* slot, the socket id or the frame id since.
THEOREM OwnerNotifiedHolds ==
    ASSUME Patient, ~FreeInCallback, 0 \notin Ids
    PROVE  Spec => []OwnerNotified
<1>1. Init => CallsInTurn /\ Identity /\ OwnerNotified
  BY InitIdentity DEF Init, CallsInTurn, OwnerNotified
<1>2. TypeOK /\ CallsInTurn /\ Identity /\ OwnerNotified /\ [Next]_vars
        => CallsInTurn' /\ Identity' /\ OwnerNotified'
  BY LifeCycleStep, IdentityStep, OwnerStep
<1> QED
  BY <1>1, <1>2, TypeCorrect, PTL DEF Spec
-----------------------------------------------------------------------------
(* Host and module.  The type of a slot and the state of its socket on the      *)
(* module change at different times: in between, an answer is on its way or the *)
(* callback for it runs.  The invariant is that the module is in the state of   *)
(* the type the slot has, or will have after that one answer.  A socket that    *)
(* has ended is left out: its word is then on the way (IdAgrees).               *)

IsAnswer(f, u) == f.kind \in {"connect_resp", "listen_resp"} /\ f.uid = u
NoAnswer(d, u) == \A f \in Queued(d) : ~IsAnswer(f, u)
OneAnswer(d, u) == \A k, l \in 1 .. Len(rx[d]) :
    IsAnswer(rx[d][k], u) /\ IsAnswer(rx[d][l], u) => k = l

Changing(i, then) == then \in Attaching /\ Returning(i, then)
Unchanging(i) == \A then : ~Changing(i, then)

\* What a slot becomes when its callback has returned.
Outcome(s, then) == IF then = "attached" THEN Attached(s) ELSE then

Fits(type, state) ==
    \/ type = "CREATED" /\ state = "open"
    \/ type = "ATTACH" /\ state \in {"connecting", "opening"}
    \/ type = "CONNECT" /\ state = "connected"
    \/ type = "BIND" /\ state = "bound"
    \/ type = "LISTEN" /\ state = "listening"

\* The module is at id what slot i of device d is, or is about to be.
StateIs(d, i, id) ==
    /\ id = sock[i].socket_id
    /\ sock[i].type \in {"CREATED", "ATTACH"} => radio[d][id].protocol = sock[i].protocol
    /\ OneAnswer(d, sock[i].uid)
    /\ \A f \in Queued(d) : IsAnswer(f, sock[i].uid) =>
         /\ f.id = id /\ sock[i].type = "ATTACH" /\ Unchanging(i)
         /\ Fits(Outcome(sock[i], AfterCallback(f)), radio[d][id].state)
    /\ \A then : Changing(i, then) => Fits(Outcome(sock[i], then), radio[d][id].state)
    /\ NoAnswer(d, sock[i].uid) /\ Unchanging(i) => Fits(sock[i].type, radio[d][id].state)

NamedState(d, i) == Named(i) /\ sock[i].dev = d =>
    \A id \in Ids : radio[d][id].uid = sock[i].uid => StateIs(d, i, id)

\* A socket whose Create Response is on the way is open, by the id that is in it.
OpenAt(d, i, id) ==
    /\ radio[d][id].state = "open" /\ radio[d][id].protocol = sock[i].protocol
    /\ \A f \in Queued(d) : f.kind = "create_resp" /\ f.ok /\ f.uid = sock[i].uid => f.id = id

PendingState(d, i) == Pending(i) /\ sock[i].dev = d =>
    /\ NoAnswer(d, sock[i].uid)
    /\ \A id \in Ids : radio[d][id].uid = sock[i].uid => OpenAt(d, i, id)

\* A client that is announced is connected, by the id it is announced with.
ClientState(d, f) == f.kind = "ipv4_client" =>
    /\ NoAnswer(d, f.clientUid)
    /\ \A id \in Ids : radio[d][id].uid = f.clientUid =>
         id = f.client /\ radio[d][id].state = "connected"

SlotState(d, i) == NamedState(d, i) /\ PendingState(d, i)
SlotStates == \A d \in Dev, i \in Slots : SlotState(d, i)
ClientStates == \A d \in Dev : \A f \in Queued(d) : ClientState(d, f)
States == SlotStates /\ ClientStates

\* What a step leaves alone: the answers for socket u, what the module has for it,
\* slot i and its callback.
AnswersStay(d, u) ==
    /\ \A f : f \in Queued(d)' /\ IsAnswer(f, u) <=> f \in Queued(d) /\ IsAnswer(f, u)
    /\ OneAnswer(d, u) => OneAnswer(d, u)'
RadioStays(d, u) == \A id \in Ids : radio'[d][id].uid = u => radio'[d][id] = radio[d][id]
CreatesStay(d, u) == \A f \in Queued(d)' :
    f.kind = "create_resp" /\ f.ok /\ f.uid = u => f \in Queued(d)
SlotStays(i) ==
    /\ Named(i)' => Named(i) /\ sock'[i].type = sock[i].type
    /\ Pending(i)' => Pending(i)
    /\ Named(i)' \/ Pending(i)' =>
         /\ sock'[i].dev = sock[i].dev /\ sock'[i].uid = sock[i].uid
         /\ sock'[i].socket_id = sock[i].socket_id /\ sock'[i].protocol = sock[i].protocol
    /\ \A then : Changing(i, then)' <=> Changing(i, then)

LEMMA SameAnswers ==
    ASSUME rx' = rx, NEW d, NEW u
    PROVE  AnswersStay(d, u)
<1> QED
  BY DEF AnswersStay, Queued, OneAnswer

LEMMA AppendAnswers ==
    ASSUME TypeOK, NEW d \in Dev, NEW f, Answer(d, f), NEW e \in Dev, NEW u,
           e = d => ~IsAnswer(f, u)
    PROVE  AnswersStay(e, u)
<1>1. \A c \in Dev : Queued(c)' = IF c = d THEN Queued(c) \cup {f} ELSE Queued(c)
  BY Appended
<1>2. OneAnswer(e, u) => OneAnswer(e, u)'
  <2> SUFFICES ASSUME OneAnswer(e, u), NEW k \in 1 .. Len(rx'[e]), NEW l \in 1 .. Len(rx'[e]),
                      IsAnswer(rx'[e][k], u), IsAnswer(rx'[e][l], u)
               PROVE  k = l
    BY DEF OneAnswer
  <2>1. k \in 1 .. Len(rx[e]) /\ rx'[e][k] = rx[e][k]
    BY AppendedAt
  <2>2. l \in 1 .. Len(rx[e]) /\ rx'[e][l] = rx[e][l]
    BY AppendedAt
  <2> QED
    BY <2>1, <2>2 DEF OneAnswer
<1> QED
  BY <1>1, <1>2 DEF AnswersStay

\* The queues are longer in the next state only, so that one answer stays one.
LEMMA TakeOne ==
    ASSUME TypeOK, NEW d \in Dev, NEW f, Receives(d, f), NEW e \in Dev, NEW u, OneAnswer(e, u)
    PROVE  OneAnswer(e, u)'
<1> SUFFICES ASSUME NEW k \in 1 .. Len(rx'[e]), NEW l \in 1 .. Len(rx'[e]),
                    IsAnswer(rx'[e][k], u), IsAnswer(rx'[e][l], u)
             PROVE  k = l
  BY DEF OneAnswer
<1>1. CASE e = d
  <2>1. /\ Len(rx[d]) \in Nat \ {0} /\ Len(rx'[d]) = Len(rx[d]) - 1
        /\ rx'[d][k] = rx[d][k + 1] /\ rx'[d][l] = rx[d][l + 1]
    BY <1>1, Taken
  <2>2. k + 1 \in 1 .. Len(rx[d]) /\ l + 1 \in 1 .. Len(rx[d])
    BY <1>1, <2>1
  <2>3. k + 1 = l + 1
    BY <1>1, <2>1, <2>2 DEF OneAnswer
  <2> QED
    BY <2>3
<1>2. CASE e # d
  <2>1. rx'[e] = rx[e]
    BY <1>2, Taken
  <2> QED
    BY <2>1 DEF OneAnswer
<1> QED
  BY <1>1, <1>2

LEMMA TakeAnswers ==
    ASSUME TypeOK, NEW d \in Dev, NEW f, Receives(d, f), NEW e \in Dev, NEW u,
           e = d => ~IsAnswer(f, u)
    PROVE  AnswersStay(e, u)
<1>1. /\ Queued(d) = Queued(d)' \cup {f}
      /\ \A c \in Dev : c # d => Queued(c)' = Queued(c)
  BY Taken
<1>2. \A g : g \in Queued(e)' /\ IsAnswer(g, u) <=> g \in Queued(e) /\ IsAnswer(g, u)
  BY <1>1
<1> QED
  BY <1>2, TakeOne DEF AnswersStay

\* What the invariant says of a slot that a step leaves alone stays true.
LEMMA StateStays ==
    ASSUME NEW d \in Dev, NEW i \in Slots, NamedState(d, i), SlotStays(i),
           NEW u, u = sock[i].uid, AnswersStay(d, u), RadioStays(d, u)
    PROVE  NamedState(d, i)'
<1> SUFFICES ASSUME Named(i)', sock'[i].dev = d, NEW id \in Ids, radio'[d][id].uid = sock'[i].uid
             PROVE  StateIs(d, i, id)'
  BY DEF NamedState
<1> DEFINE s == sock[i]
           t == sock'[i]
<1>1. /\ Named(i) /\ t.type = s.type /\ t.dev = s.dev /\ t.uid = s.uid
      /\ t.socket_id = s.socket_id /\ t.protocol = s.protocol
  BY DEF SlotStays
<1>2. radio'[d][id] = radio[d][id]
  BY <1>1 DEF RadioStays
<1>3. StateIs(d, i, id)
  BY <1>1, <1>2 DEF NamedState
<1>4. u = s.uid
  OBVIOUS
<1>5. \A f : f \in Queued(d)' /\ IsAnswer(f, u) <=> f \in Queued(d) /\ IsAnswer(f, u)
  BY <1>4 DEF AnswersStay
<1>6. OneAnswer(d, u)'
  BY <1>3, <1>4 DEF AnswersStay, StateIs
<1>7. /\ \A then : Changing(i, then)' <=> Changing(i, then)
      /\ Unchanging(i)' <=> Unchanging(i)
  BY DEF SlotStays, Unchanging
<1>8. \A then : Outcome(t, then) = Outcome(s, then)
  BY <1>1 DEF Outcome, Attached
<1>9. NoAnswer(d, u)' <=> NoAnswer(d, u)
  BY <1>5 DEF NoAnswer
<1>10. /\ id = t.socket_id
       /\ t.type \in {"CREATED", "ATTACH"} => radio'[d][id].protocol = t.protocol
  BY <1>1, <1>2, <1>3 DEF StateIs
<1>11. ASSUME NEW f \in Queued(d)', IsAnswer(f, u)
       PROVE  /\ f.id = id /\ t.type = "ATTACH" /\ Unchanging(i)'
              /\ Fits(Outcome(t, AfterCallback(f)), radio'[d][id].state)
  <2>1. f \in Queued(d)
    BY <1>5, <1>11
  <2> HIDE DEF s, t
  <2>2. /\ f.id = id /\ s.type = "ATTACH" /\ Unchanging(i)
        /\ Fits(Outcome(s, AfterCallback(f)), radio[d][id].state)
    BY <1>3, <1>4, <1>11, <2>1 DEF StateIs, s
  <2> QED
    BY <1>1, <1>2, <1>7, <1>8, <2>2
<1>12. ASSUME NEW then, Changing(i, then)'
       PROVE  Fits(Outcome(t, then), radio'[d][id].state)
  <2>1. Fits(Outcome(s, then), radio[d][id].state)
    BY <1>3, <1>7, <1>12 DEF StateIs
  <2> QED
    BY <1>2, <1>8, <2>1
<1>13. NoAnswer(d, u)' /\ Unchanging(i)' => Fits(t.type, radio'[d][id].state)
  BY <1>1, <1>2, <1>3, <1>4, <1>7, <1>9 DEF StateIs
<1>14. t.uid = u
  BY <1>1, <1>4
<1> QED
  BY <1>6, <1>10, <1>11, <1>12, <1>13, <1>14 DEF StateIs

LEMMA PendingStays ==
    ASSUME NEW d \in Dev, NEW i \in Slots, PendingState(d, i), SlotStays(i),
           NEW u, u = sock[i].uid, AnswersStay(d, u), RadioStays(d, u), CreatesStay(d, u)
    PROVE  PendingState(d, i)'
<1> SUFFICES ASSUME Pending(i)', sock'[i].dev = d
             PROVE  /\ NoAnswer(d, sock[i].uid)'
                    /\ \A id \in Ids : radio'[d][id].uid = sock'[i].uid => OpenAt(d, i, id)'
  BY DEF PendingState
<1>1. /\ Pending(i) /\ sock[i].dev = d /\ sock'[i].uid = sock[i].uid
      /\ sock'[i].protocol = sock[i].protocol
  BY DEF SlotStays
<1>2. u = sock[i].uid
  OBVIOUS
<1>3. NoAnswer(d, u)'
  BY <1>1, <1>2 DEF PendingState, NoAnswer, AnswersStay
<1>4. ASSUME NEW id \in Ids, radio'[d][id].uid = u PROVE OpenAt(d, i, id)'
  <2>1. radio'[d][id] = radio[d][id]
    BY <1>2, <1>4 DEF RadioStays
  <2>2. OpenAt(d, i, id)
    BY <1>1, <1>2, <1>4, <2>1 DEF PendingState
  <2>3. \A f \in Queued(d)' : f.kind = "create_resp" /\ f.ok /\ f.uid = u => f \in Queued(d)
    BY <1>2 DEF CreatesStay
  <2> QED
    BY <1>1, <1>2, <2>1, <2>2, <2>3 DEF OpenAt
<1> QED
  BY <1>1, <1>2, <1>3, <1>4

LEMMA SlotStateStays ==
    ASSUME NEW d \in Dev, NEW i \in Slots, SlotState(d, i), SlotStays(i),
           NEW u, u = sock[i].uid, AnswersStay(d, u), RadioStays(d, u), CreatesStay(d, u)
    PROVE  SlotState(d, i)'
<1> QED
  BY StateStays, PendingStays DEF SlotState

LEMMA ClientStateStays ==
    ASSUME NEW d \in Dev, NEW f, ClientState(d, f),
           f.kind = "ipv4_client" => AnswersStay(d, f.clientUid) /\ RadioStays(d, f.clientUid)
    PROVE  ClientState(d, f)'
<1> SUFFICES ASSUME f.kind = "ipv4_client"
             PROVE  /\ NoAnswer(d, f.clientUid)'
                    /\ \A id \in Ids : radio'[d][id].uid = f.clientUid =>
                         id = f.client /\ radio'[d][id].state = "connected"
  BY DEF ClientState
<1>1. NoAnswer(d, f.clientUid)'
  BY DEF ClientState, NoAnswer, AnswersStay
<1> QED
  BY <1>1 DEF ClientState, RadioStays

\* A step that tells no more of any socket than that it has ended.
LEMMA StatesStay ==
    ASSUME TypeOK, Identity, States, \A i \in Slots : SlotStays(i),
           \A d \in Dev, id \in Ids : radio'[d][id].uid = 0 \/ radio'[d][id] = radio[d][id],
           \A d \in Dev : \A u : AnswersStay(d, u),
           \A d \in Dev : \A f \in Queued(d)' :
             f.kind \in {"create_resp", "ipv4_client"} => f \in Queued(d)
    PROVE  States'
<1>1. 0 \notin Uid
  BY SockAssumption
<1>2. ASSUME NEW d \in Dev, NEW i \in Slots PROVE SlotState(d, i)'
  <2> SUFFICES ASSUME Named(i)' \/ Pending(i)'
               PROVE  SlotState(d, i)'
    BY DEF SlotState, NamedState, PendingState
  <2>1. PICK u : u = sock[i].uid
    OBVIOUS
  <2>2. u \in Uid
    BY <2>1 DEF SlotStays, Named, Pending, InUse, Identity, Tables, SlotsOK
  <2>3. RadioStays(d, u)
    BY <1>1, <2>2 DEF RadioStays
  <2>4. CreatesStay(d, u)
    BY DEF CreatesStay
  <2>5. SlotState(d, i)
    BY DEF States, SlotStates
  <2> QED
    BY <2>1, <2>3, <2>4, <2>5, SlotStateStays
<1>3. ASSUME NEW d \in Dev, NEW f \in Queued(d)' PROVE ClientState(d, f)'
  <2> SUFFICES ASSUME f.kind = "ipv4_client" PROVE ClientState(d, f)'
    BY DEF ClientState
  <2>1. f \in Queued(d)
    OBVIOUS
  <2>2. f.clientUid \in Uid
    BY <2>1 DEF Identity, NamesOK, FramesOK
  <2>3. RadioStays(d, f.clientUid)
    BY <1>1, <2>2 DEF RadioStays
  <2>4. ClientState(d, f)
    BY <2>1 DEF States, ClientStates
  <2> QED
    BY <2>3, <2>4, ClientStateStays
<1> QED
  BY <1>2, <1>3 DEF States, SlotStates, ClientStates

\* The same for a step that sends nothing, reads what is no answer, or appends it.
LEMMA QuietLink ==
    ASSUME TypeOK,
           \/ rx' = rx
           \/ \E d \in Dev, f \in Frame :
                /\ f.kind \notin {"connect_resp", "listen_resp", "create_resp", "ipv4_client"}
                /\ Answer(d, f)
           \/ \E d \in Dev, f \in Frame :
                f.kind \notin {"connect_resp", "listen_resp"} /\ Receives(d, f)
    PROVE  /\ \A e \in Dev : \A u : AnswersStay(e, u)
           /\ \A e \in Dev : \A g \in Queued(e)' :
                g.kind \in {"create_resp", "ipv4_client"} => g \in Queued(e)
<1>1. CASE rx' = rx
  BY <1>1, SameAnswers DEF Queued
<1>2. ASSUME NEW d \in Dev, NEW f \in Frame, Answer(d, f),
             f.kind \notin {"connect_resp", "listen_resp", "create_resp", "ipv4_client"}
      PROVE  /\ \A e \in Dev : \A u : AnswersStay(e, u)
             /\ \A e \in Dev : \A g \in Queued(e)' :
                  g.kind \in {"create_resp", "ipv4_client"} => g \in Queued(e)
  <2>1. ASSUME NEW e \in Dev, NEW u PROVE AnswersStay(e, u)
    <3>1. ~IsAnswer(f, u)
      BY <1>2 DEF IsAnswer
    <3> QED
      BY <1>2, <3>1, AppendAnswers
  <2>2. \A e \in Dev : Queued(e)' = IF e = d THEN Queued(e) \cup {f} ELSE Queued(e)
    BY <1>2, Appended
  <2> QED
    BY <1>2, <2>1, <2>2
<1>3. ASSUME NEW d \in Dev, NEW f \in Frame, Receives(d, f),
             f.kind \notin {"connect_resp", "listen_resp"}
      PROVE  /\ \A e \in Dev : \A u : AnswersStay(e, u)
             /\ \A e \in Dev : \A g \in Queued(e)' :
                  g.kind \in {"create_resp", "ipv4_client"} => g \in Queued(e)
  <2>1. ASSUME NEW e \in Dev, NEW u PROVE AnswersStay(e, u)
    <3>1. ~IsAnswer(f, u)
      BY <1>3 DEF IsAnswer
    <3> QED
      BY <1>3, <3>1, TakeAnswers
  <2>2. /\ Queued(d) = Queued(d)' \cup {f}
        /\ \A e \in Dev : e # d => Queued(e)' = Queued(e)
    BY <1>3, Taken
  <2>3. \A e \in Dev : Queued(e)' \subseteq Queued(e)
    BY <2>2
  <2> QED
    BY <2>1, <2>3
<1> QED
  BY <1>1, <1>2, <1>3

\* The rest of the table is about other sockets.
LEMMA OtherSlot ==
    ASSUME Identity, NEW i \in Slots, InUse(i), NEW j \in Slots, j # i, Named(j) \/ Pending(j)
    PROVE  sock[j].uid # sock[i].uid
<1>1. InUse(j)
  BY DEF Named, Pending, InUse
<1> QED
  BY <1>1 DEF Identity, Tables, SlotsDiffer

LEMMA SameCallback ==
    ASSUME call' = call
    PROVE  /\ \A i, then : Returning(i, then)' <=> Returning(i, then)
           /\ \A i, then : Changing(i, then)' <=> Changing(i, then)
<1>1. \A i, then : Returning(i, then)' <=> Returning(i, then)
  BY DEF Returning
<1> QED
  BY <1>1 DEF Changing

\* Steps of the application that leave the answers alone.
LEMMA AppStates ==
    ASSUME TypeOK, Identity, States, call' = call,
           \A d \in Dev, id \in Ids : radio'[d][id].uid = 0 \/ radio'[d][id] = radio[d][id],
           \/ rx' = rx
           \/ \E d \in Dev, f \in Frame :
                /\ f.kind \notin {"connect_resp", "listen_resp", "create_resp", "ipv4_client"}
                /\ Answer(d, f),
           \A i \in Slots : sock'[i].type # "AVAILABLE" =>
             /\ sock'[i].type = sock[i].type
             /\ sock'[i].dev = sock[i].dev /\ sock'[i].uid = sock[i].uid
             /\ sock'[i].socket_id = sock[i].socket_id /\ sock'[i].protocol = sock[i].protocol
    PROVE  States'
<1>1. \A i \in Slots : SlotStays(i)
  BY SameCallback DEF SlotStays, Named, Pending
<1> QED
  BY <1>1, QuietLink, StatesStay

LEMMA SendStates ==
    ASSUME TypeOK, Identity, States, NEW i \in Slots, Send(i)
    PROVE  States'
<1>1. \A j \in Slots : sock[j] \in Socket
  BY DEF TypeOK
<1>2. /\ call' = call /\ radio' = radio /\ rx' = rx
      /\ \A j \in Slots : /\ sock'[j].type = sock[j].type
                          /\ sock'[j].dev = sock[j].dev /\ sock'[j].uid = sock[j].uid
                          /\ sock'[j].socket_id = sock[j].socket_id
                          /\ sock'[j].protocol = sock[j].protocol
  BY <1>1 DEF Send, TypeOK, Socket
<1> QED
  BY <1>2, AppStates

LEMMA OptionStates ==
    ASSUME TypeOK, Identity, Patient, States,
           NEW i \in Slots, NEW callback \in BOOLEAN, Option(i, callback)
    PROVE  States'
<1> DEFINE d == sock[i].dev
           f == FrameOf("option_resp", sock[i].uid, sock[i].socket_id, NextFrame(d), TRUE)
<1>1. \A j \in Slots : sock[j] \in Socket
  BY DEF TypeOK
<1>2. /\ call' = call /\ radio' = radio
      /\ \A j \in Slots : /\ sock'[j].type = sock[j].type
                          /\ sock'[j].dev = sock[j].dev /\ sock'[j].uid = sock[j].uid
                          /\ sock'[j].socket_id = sock[j].socket_id
                          /\ sock'[j].protocol = sock[j].protocol
  BY <1>1 DEF Option, TypeOK, Socket
<1>3. CASE rx' = rx
  BY <1>2, <1>3, AppStates
<1>4. CASE Answer(d, f)
  <2>1. Holds(i) /\ InUse(i)
    BY DEF Option, Holds, InUse, Identity, Tables, SlotsOK
  <2>2. d \in Dev /\ sock[i].uid \in Uid /\ sock[i].socket_id \in Ids
    BY <2>1, HeldNamed DEF Identity
  <2>3. f \in Frame /\ f.kind = "option_resp"
    <3>1. NextFrame(d) \in 0 .. FrameMax /\ sock[i].uid \in Mark
      BY <2>2, NextFrameType, SockAssumption DEF Mark
    <3>2. f \in Frame
      BY <2>2, <3>1, FrameType
    <3> QED
      BY <3>2 DEF FrameOf
  <2> HIDE DEF d, f
  <2> QED
    BY <1>2, <1>4, <2>2, <2>3, AppStates DEF d
<1> QED
  BY <1>3, <1>4 DEF Option

LEMMA ResetStates ==
    ASSUME TypeOK, Identity, States, NEW d \in Dev, Reset(d)
    PROVE  States'
<1>1. /\ call' = call /\ rx' = rx
      /\ \A i \in Slots : sock'[i] = IF sock[i].dev = d THEN Free ELSE sock[i]
      /\ radio' = [radio EXCEPT ![d] = [id \in Ids |-> Unused]] \/ radio' = radio
  BY DEF Reset
<1>2. \A e \in Dev, id \in Ids : radio'[e][id].uid = 0 \/ radio'[e][id] = radio[e][id]
  <2> SUFFICES ASSUME NEW e \in Dev, NEW id \in Ids,
                      radio' = [radio EXCEPT ![d] = [k \in Ids |-> Unused]]
               PROVE  radio'[e][id].uid = 0 \/ radio'[e][id] = radio[e][id]
    BY <1>1
  <2>1. CASE e = d
    <3>1. radio'[e] = [k \in Ids |-> Unused]
      BY <2>1 DEF TypeOK
    <3> QED
      BY <3>1 DEF Unused
  <2>2. CASE e # d
    BY <2>2 DEF TypeOK
  <2> QED
    BY <2>1, <2>2
<1> QED
  BY <1>1, <1>2, AppStates DEF Free

\* Calls that only the stack sees: none of them is about an attach.
LEMMA StackStates ==
    ASSUME TypeOK, Identity, States, UNCHANGED <<sock, radio, rx>>,
           \A i, then : Changing(i, then)' <=> Changing(i, then),
           \A i : Returning(i, "free")' <=> Returning(i, "free")
    PROVE  States'
<1>1. \A i \in Slots : SlotStays(i)
  BY DEF SlotStays, Named, Pending
<1> QED
  BY <1>1, QuietLink, StatesStay

LEMMA CloseAllStates ==
    ASSUME TypeOK, Identity, States, ~FreeInCallback, NEW d, CloseAll(d)
    PROVE  States'
<1> DEFINE a == [then |-> "close_all", dev |-> d, next |-> 0]
<1>1. call = <<>> /\ call' = Append(call, a) /\ UNCHANGED <<sock, radio, rx>>
  BY DEF CloseAll, AppFrees
<1>2. a.then = "close_all"
  OBVIOUS
<1> HIDE DEF a
<1>3. call' = <<a>>
  BY <1>1
<1>4. \A i, then : then # "close_all" => ~Returning(i, then) /\ ~Returning(i, then)'
  BY <1>1, <1>2, <1>3 DEF Returning
<1> QED
  BY <1>1, <1>4, StackStates DEF Changing, Attaching

\* Nobody waits for the return of a callback.
NoneReturns == \A i, then : then # "close_all" => ~Returning(i, then)

LEMMA CloseWrittenStates ==
    ASSUME TypeOK, Identity, States, NEW i \in Slots, sock[i].dev \in Dev,
           NEW stack \in Seq(Activation),
           \A k \in 1 .. Len(stack) : stack[k].then = "close_all",
           CloseWritten(i, stack), NoneReturns
    PROVE  States'
<1> DEFINE a == Callback(i, "free", sock[i].uid, N, 0)
<1>1. /\ Len(call') = Len(stack) + 1
      /\ \A k \in 1 .. Len(stack) : call'[k] = stack[k]
      /\ call'[Len(stack) + 1] = a
  BY DEF CloseWritten
<1>2. a.then = "free" /\ Len(stack) \in Nat
  BY LenProperties DEF Callback
<1> HIDE DEF a
<1>3. \A j, then : then \notin {"close_all", "free"} => ~Returning(j, then)'
  BY <1>1, <1>2 DEF Returning
<1>4. \A j, then : then # "close_all" => ~Returning(j, then)
  BY DEF NoneReturns
<1>5. sock' = sock /\ rx' = rx /\ radio' = Closed(sock[i].dev, sock[i].socket_id)
  BY DEF CloseWritten
<1>6. \A j \in Slots : SlotStays(j)
  BY <1>3, <1>4, <1>5 DEF SlotStays, Named, Pending, Changing, Attaching
<1>7. \A d \in Dev, id \in Ids : radio'[d][id].uid = 0 \/ radio'[d][id] = radio[d][id]
  BY <1>5 DEF Closed, Unused, TypeOK
<1> QED
  BY <1>5, <1>6, <1>7, QuietLink, StatesStay

LEMMA CloseStates ==
    ASSUME TypeOK, Identity, States, ~FreeInCallback, NEW i \in Slots, Close(i)
    PROVE  States'
<1>1. call = <<>> /\ CloseWritten(i, <<>>) /\ Holds(i)
  BY DEF Close, AppFrees
<1>2. <<>> \in Seq(Activation) /\ \A k \in 1 .. Len(<<>>) : <<>>[k].then = "close_all"
  BY EmptySeq
<1>3. NoneReturns
  BY <1>1 DEF NoneReturns, Returning
<1>4. sock[i].dev \in Dev
  <2>1. sock[i] \in Socket
    BY DEF TypeOK
  <2> QED
    BY <1>1, <2>1 DEF Holds, Socket
<1> QED
  BY <1>1, <1>2, <1>3, <1>4, CloseWrittenStates

LEMMA CloseNextStates ==
    ASSUME TypeOK, CallsInTurn, Identity, States, CloseNext
    PROVE  States'
<1>1. call # <<>> /\ Top.then = "close_all"
  BY DEF CloseNext
<1>2. \A k \in 1 .. Len(call) : call[k].then = "close_all"
  BY <1>1 DEF CallsInTurn, Top
<1>3. NoneReturns
  BY <1>2 DEF NoneReturns, Returning
<1>4. /\ Below \in Seq(Activation) /\ Len(Below) \in Nat
      /\ \A k \in 1 .. Len(Below) : Below[k].then = "close_all"
  BY <1>1, UnderTop, LenProperties
<1>5. CASE call' = Below /\ UNCHANGED <<sock, frameId, radio, sending, rx, budget>>
  <2>1. \A i, then : then # "close_all" => ~Returning(i, then)'
    BY <1>4, <1>5 DEF Returning
  <2> QED
    BY <1>3, <1>5, <2>1, StackStates DEF NoneReturns, Changing, Attaching
<1>6. ASSUME NEW i \in Slots, sock[i].dev # NULL,
             CloseWritten(i, Append(Below, [Top EXCEPT !.next = i + 1]))
      PROVE  States'
  <2>1. PICK next \in Activation : next = [Top EXCEPT !.next = i + 1] /\ next.then = "close_all"
    <3> DEFINE b == [Top EXCEPT !.next = i + 1]
    <3>1. Top \in CloseAllCall
      BY <1>1, PopType DEF Activation, CallbackCall
    <3>2. i + 1 \in 0 .. N
      BY SockAssumption DEF Slots
    <3>3. b \in Activation /\ b.then = "close_all"
      BY <3>1, <3>2 DEF CloseAllCall, Activation
    <3> QED
      BY <3>3
  <2>2. /\ Append(Below, next) \in Seq(Activation)
        /\ Len(Append(Below, next)) = Len(Below) + 1
        /\ \A k \in 1 .. Len(Below) : Append(Below, next)[k] = Below[k]
        /\ Append(Below, next)[Len(Below) + 1] = next
    BY <1>4, <2>1, AppendProperties
  <2>3. \A k \in 1 .. Len(Append(Below, next)) : Append(Below, next)[k].then = "close_all"
    BY <1>4, <2>1, <2>2
  <2>4. sock[i].dev \in Dev
    <3>1. sock[i] \in Socket
      BY DEF TypeOK
    <3> QED
      BY <1>6, <3>1 DEF Socket
  <2> QED
    BY <1>3, <1>6, <2>1, <2>2, <2>3, <2>4, CloseWrittenStates
<1> QED
  <2> DEFINE open == {i \in Slots : /\ i >= Top.next
                                    /\ sock[i].type \notin {"AVAILABLE", "PENDING"}
                                    /\ Top.dev \in {NULL, sock[i].dev}}
  <2>1. open # {} => FirstOf(open) \in open
    BY FirstSlot
  <2> QED
    BY <1>5, <1>6, <2>1 DEF CloseNext

\* The one callback that is not xbee_sock_close_all() is the one that returns.
LEMMA OneReturns ==
    ASSUME TypeOK, CallsInTurn, call # <<>>, call' = Below
    PROVE  /\ \A i, then : then # "close_all" => ~Returning(i, then)'
           /\ \A i, then : then # "close_all" =>
                (Returning(i, then) <=> Top.then = then /\ Top.slot = i)
<1>1. \A k \in 1 .. Len(Below) : Below[k].then = "close_all"
  BY UnderTop
<1>2. Len(call) \in 1 .. Len(call)
  <2>1. call \in Seq(Activation)
    BY DEF TypeOK, Activation
  <2>2. Len(call) \in Nat \ {0}
    BY <2>1, StackPop
  <2> QED
    BY <2>2
<1>3. \A k \in 1 .. Len(call) : k = Len(call) \/ call[k].then = "close_all"
  BY DEF CallsInTurn
<1> QED
  BY <1>1, <1>2, <1>3 DEF Returning, Top

\* A handler writes the type that was chosen before its callback: the module is in the
\* state of that type.
LEMMA WrittenStates ==
    ASSUME TypeOK, CallsInTurn, States, call # <<>>, call' = Below, NEW i \in Slots,
           i = Top.slot, Top.then \in Attaching,
           sock' = [sock EXCEPT ![i] = Written(@, Top.then)], UNCHANGED <<radio, rx>>,
           NEW d \in Dev
    PROVE  SlotState(d, i)'
<1>1. sock[i] \in Socket
  BY DEF TypeOK
<1>2. sock[i].type = "ATTACH"
  <2>1. Len(call) \in 1 .. Len(call)
    <3>1. call \in Seq(Activation)
      BY DEF TypeOK, Activation
    <3>2. Len(call) \in Nat \ {0}
      BY <3>1, StackPop
    <3> QED
      BY <3>2
  <2> QED
    BY <2>1 DEF CallsInTurn, Top
<1>3. PICK t : t = Top.then
  OBVIOUS
<1>4. /\ t \in Attaching /\ Changing(i, t) /\ ~Returning(i, "free")
      /\ \A then : ~Changing(i, then)'
  BY <1>3, OneReturns DEF Changing, Attaching
<1>5. /\ sock'[i].type = Outcome(sock[i], t) /\ sock'[i].dev = sock[i].dev
      /\ sock'[i].uid = sock[i].uid /\ sock'[i].socket_id = sock[i].socket_id
      /\ sock'[i].protocol = sock[i].protocol
      /\ sock'[i].type \in {"CREATED", "CONNECT", "BIND", "LISTEN"}
  <2>1. sock'[i] = Written(sock[i], t)
    BY <1>3 DEF TypeOK
  <2> QED
    BY <1>1, <1>4, <2>1 DEF Written, Outcome, Attached, Attaching, Socket
<1>6. Named(i)
  BY <1>2, <1>4 DEF Named
<1>7. ASSUME sock[i].dev = d, NEW id \in Ids, radio[d][id].uid = sock[i].uid
      PROVE  StateIs(d, i, id)'
  <2>1. StateIs(d, i, id)
    BY <1>6, <1>7 DEF States, SlotStates, SlotState, NamedState
  <2>2. PICK u : u = sock[i].uid
    OBVIOUS
  <2>3. \A f \in Queued(d) : ~IsAnswer(f, u)
    BY <1>4, <2>1, <2>2 DEF StateIs, Unchanging
  <2>4. Queued(d)' = Queued(d)
    BY DEF Queued
  <2>5. OneAnswer(d, u)'
    BY <2>1, <2>2 DEF StateIs, OneAnswer
  <2>6. Fits(sock'[i].type, radio'[d][id].state)
    BY <1>4, <1>5, <2>1 DEF StateIs
  <2>7. radio'[d][id].protocol = sock'[i].protocol /\ id = sock'[i].socket_id
    BY <1>2, <1>5, <2>1 DEF StateIs
  <2>8. sock'[i].uid = u
    BY <1>5, <2>2
  <2> QED
    BY <1>4, <2>3, <2>4, <2>5, <2>6, <2>7, <2>8 DEF StateIs
<1>8. ~Pending(i)'
  BY <1>5 DEF Pending
<1> QED
  BY <1>5, <1>7, <1>8 DEF SlotState, NamedState, PendingState

LEMMA CallbackReturnsStates ==
    ASSUME TypeOK, CallsInTurn, Identity, States, CallbackReturns
    PROVE  States'
<1>0. PICK i \in Slots : i = Top.slot
  BY PopType DEF CallbackReturns, Activation, CloseAllCall, CallbackCall
<1>1. /\ call # <<>> /\ call' = Below /\ Top \in CallbackCall /\ Top.then # "close_all"
      /\ sock[i] \in Socket
      /\ sock' = [sock EXCEPT ![i] = Written(@, Top.then)]
      /\ UNCHANGED <<radio, sending, rx>>
  BY <1>0, PopType DEF CallbackReturns, Activation, CloseAllCall, TypeOK
<1>2. /\ \A j, then : then # "close_all" => ~Returning(j, then)'
      /\ \A j, then : then # "close_all" => (Returning(j, then) <=> Top.then = then /\ i = j)
  BY <1>0, <1>1, OneReturns
<1>3. \A j \in Slots : j # i => sock'[j] = sock[j] /\ SlotStays(j)
  <2>1. \A j \in Slots : j # i => sock'[j] = sock[j]
    BY <1>1 DEF TypeOK
  <2> QED
    BY <1>2, <2>1 DEF SlotStays, Named, Pending, Changing, Attaching
<1>4. CASE Top.then \notin Attaching
  <2>1. SlotStays(i)
    <3>1. sock'[i] = Written(sock[i], Top.then)
      BY <1>1 DEF TypeOK
    <3>2. CASE Top.then = "free"
      BY <1>2, <3>1, <3>2 DEF Written, Free, SlotStays, Named, Pending, Changing, Attaching
    <3>3. CASE Top.then # "free"
      <4>1. /\ sock'[i].type = sock[i].type /\ sock'[i].dev = sock[i].dev
            /\ sock'[i].uid = sock[i].uid /\ sock'[i].socket_id = sock[i].socket_id
            /\ sock'[i].protocol = sock[i].protocol
        BY <1>1, <1>4, <3>1, <3>3 DEF Written, Attaching, Socket
      <4>2. ~Returning(i, "free")
        BY <1>2, <3>3
      <4> QED
        BY <1>2, <1>4, <4>1, <4>2 DEF SlotStays, Named, Pending, Changing, Attaching
    <3> QED
      BY <3>2, <3>3
  <2> QED
    BY <1>1, <1>3, <2>1, QuietLink, StatesStay
<1>5. CASE Top.then \in Attaching
  <2>1. ASSUME NEW d \in Dev, NEW j \in Slots PROVE SlotState(d, j)'
    <3>1. CASE j = i
      BY <1>0, <1>1, <1>5, <3>1, WrittenStates
    <3>2. CASE j # i
      <4>1. PICK u : u = sock[j].uid
        OBVIOUS
      <4>2. AnswersStay(d, u) /\ RadioStays(d, u) /\ CreatesStay(d, u)
        BY <1>1, SameAnswers DEF RadioStays, CreatesStay, Queued
      <4>3. SlotState(d, j)
        BY DEF States, SlotStates
      <4> QED
        BY <1>3, <3>2, <4>1, <4>2, <4>3, SlotStateStays
    <3> QED
      BY <3>1, <3>2
  <2>2. ASSUME NEW d \in Dev, NEW f \in Queued(d)' PROVE ClientState(d, f)'
    <3>1. f \in Queued(d)
      BY <1>1 DEF Queued
    <3>2. AnswersStay(d, f.clientUid) /\ RadioStays(d, f.clientUid)
      BY <1>1, SameAnswers DEF RadioStays
    <3>3. ClientState(d, f)
      BY <3>1 DEF States, ClientStates
    <3> QED
      BY <3>2, <3>3, ClientStateStays
  <2> QED
    BY <2>1, <2>2 DEF States, SlotStates, ClientStates
<1> QED
  BY <1>4, <1>5

LEMMA ClosedRadio ==
    ASSUME TypeOK, NEW d \in Dev, NEW n, radio' = Closed(d, n)
    PROVE  \A e \in Dev, id \in Ids : radio'[e][id].uid = 0 \/ radio'[e][id] = radio[e][id]
<1>1. CASE n \in Ids
  <2>1. radio' = [radio EXCEPT ![d][n] = Unused]
    BY <1>1 DEF Closed
  <2> QED
    BY <1>1, <2>1 DEF Unused, TypeOK
<1>2. CASE n \notin Ids
  BY <1>2 DEF Closed
<1> QED
  BY <1>1, <1>2

LEMMA ClientReturnsStates ==
    ASSUME TypeOK, CallsInTurn, Identity, States, ClientAccepted \/ ClientRejected
    PROVE  States'
<1>1. PICK a \in CallbackCall : a = Top /\ a.then = "accept"
  BY PopType DEF ClientAccepted, ClientRejected, Activation, CloseAllCall
<1>2. call # <<>> /\ call' = Below /\ rx' = rx
  BY DEF ClientAccepted, ClientRejected
<1>3. \A j, then : then \in Attaching \cup {"free"} => ~Returning(j, then) /\ ~Returning(j, then)'
  BY <1>1, <1>2, OneReturns DEF Attaching
<1>4. \A j \in Slots : sock'[j].type # "AVAILABLE" =>
             /\ sock'[j].type = sock[j].type
             /\ sock'[j].dev = sock[j].dev /\ sock'[j].uid = sock[j].uid
             /\ sock'[j].socket_id = sock[j].socket_id /\ sock'[j].protocol = sock[j].protocol
  <2>1. \A j \in Slots : sock[j] \in Socket
    BY DEF TypeOK
  <2>2. CASE ClientAccepted
    BY <2>1, <2>2 DEF ClientAccepted, TypeOK, Socket
  <2>3. CASE ClientRejected
    BY <2>3 DEF ClientRejected, Free
  <2> QED
    BY <2>2, <2>3
<1>5. \A j \in Slots : SlotStays(j)
  BY <1>3, <1>4 DEF SlotStays, Named, Pending, Changing
<1>6. \A d \in Dev, id \in Ids : radio'[d][id].uid = 0 \/ radio'[d][id] = radio[d][id]
  <2>1. CASE radio' = radio
    BY <2>1
  <2>2. CASE radio' = Closed(a.dev, a.id)
    BY <2>2, ClosedRadio DEF CallbackCall
  <2> QED
    BY <1>1, <2>1, <2>2 DEF ClientAccepted, ClientRejected
<1> QED
  BY <1>2, <1>5, <1>6, QuietLink, StatesStay

\* Steps that say nothing of a socket but data, a status, or that it has ended.
LEMMA QuietStates ==
    ASSUME TypeOK, Identity, States, sock' = sock, call' = call,
           \A d \in Dev, id \in Ids : radio'[d][id].uid = 0 \/ radio'[d][id] = radio[d][id],
           \/ rx' = rx
           \/ \E d \in Dev, f \in Frame :
                /\ f.kind \notin {"connect_resp", "listen_resp", "create_resp", "ipv4_client"}
                /\ Answer(d, f)
    PROVE  States'
<1> QED
  BY AppStates

LEMMA DeliversStates ==
    ASSUME TypeOK, Identity, States, NEW d \in Dev, NEW id \in Ids, Delivers(d, id)
    PROVE  States'
<1>1. PICK u \in Mark : u = radio[d][id].uid
  BY DEF TypeOK, Radio
<1>2. PICK kind \in {"receive", "state", "receive_from"} :
        Answer(d, FrameOf(kind, u, id, 0, TRUE))
  BY <1>1 DEF Delivers
<1>3. FrameOf(kind, u, id, 0, TRUE) \in Frame /\ FrameOf(kind, u, id, 0, TRUE).kind = kind
  <2>1. 0 \in 0 .. FrameMax /\ id \in {0} \cup Ids
    BY SockAssumption
  <2>2. FrameOf(kind, u, id, 0, TRUE) \in Frame
    BY <2>1, FrameType
  <2> QED
    BY <2>2 DEF FrameOf
<1>4. sock' = sock /\ call' = call /\ radio' = radio
  BY DEF Delivers
<1> QED
  BY <1>2, <1>3, <1>4, QuietStates

LEMMA EndsStates ==
    ASSUME TypeOK, Identity, States, NEW d \in Dev, NEW id \in Ids, Ends(d, id)
    PROVE  States'
<1>1. PICK u \in Mark : u = radio[d][id].uid
  BY DEF TypeOK, Radio
<1>2. PICK f \in Frame : Answer(d, f) /\ f.kind = "state"
  <2>1. 0 \in 0 .. FrameMax /\ id \in {0} \cup Ids
    BY SockAssumption
  <2>2. FrameOf("state", u, id, 0, FALSE) \in Frame
    BY <2>1, FrameType
  <2> QED
    BY <1>1, <2>2 DEF Ends, FrameOf
<1>3. sock' = sock /\ call' = call /\ radio' = Closed(d, id)
  BY DEF Ends
<1> QED
  BY <1>2, <1>3, ClosedRadio, QuietStates

LEMMA ReportsStates ==
    ASSUME TypeOK, Identity, States, NEW d \in Dev, NEW s \in sending[d], Reports(d, s)
    PROVE  States'
<1>1. s \in [uid : Mark, frame : 1 .. FrameMax]
  BY DEF TypeOK
<1>2. PICK f \in Frame : Answer(d, f) /\ f.kind = "tx_status"
  <2>1. s.frame \in 0 .. FrameMax /\ s.uid \in Mark
    BY <1>1, SockAssumption
  <2>2. FrameOf("tx_status", s.uid, 0, s.frame, TRUE) \in Frame
    BY <2>1, FrameType
  <2> QED
    BY <2>2 DEF Reports, FrameOf
<1>3. sock' = sock /\ call' = call /\ radio' = radio
  BY DEF Reports
<1> QED
  BY <1>2, <1>3, QuietStates

\* A slot and the clients, when what the step says is about another socket.
LEMMA OtherState ==
    ASSUME TypeOK, Identity, States, NEW d \in Dev, NEW j \in Slots, SlotStays(j), NEW u,
           \/ ~(Named(j) \/ Pending(j))
           \/ u = sock[j].uid /\ AnswersStay(d, u) /\ RadioStays(d, u) /\ CreatesStay(d, u)
    PROVE  SlotState(d, j)'
<1>1. SlotState(d, j)
  BY DEF States, SlotStates
<1>2. CASE ~(Named(j) \/ Pending(j))
  BY <1>2 DEF SlotStays, SlotState, NamedState, PendingState
<1>3. CASE u = sock[j].uid /\ AnswersStay(d, u) /\ RadioStays(d, u) /\ CreatesStay(d, u)
  BY <1>1, <1>3, SlotStateStays
<1> QED
  BY <1>2, <1>3

\* Connect, bind or listen: the module is at it, or the socket has ended.
LEMMA AttachStates ==
    ASSUME TypeOK, CallsInTurn, Identity, States, Patient, 0 \notin Ids, NEW i \in Slots,
           NEW op \in {"connecting", "opening"}, NEW handler, Attach(i, op, handler)
    PROVE  States'
<1>1. sock[i].type = "CREATED" /\ Holds(i) /\ InUse(i)
  BY DEF Attach, AttachSent, Holds, InUse
<1>2. /\ Named(i) /\ sock[i].dev \in Dev /\ sock[i].uid \in Uid /\ sock[i].socket_id \in Ids
      /\ Known(sock[i].dev, sock[i].socket_id, sock[i].uid)
  BY <1>1, HeldNamed DEF Identity
<1>3. PICK d \in Dev, id \in Ids, u \in Uid :
        d = sock[i].dev /\ id = sock[i].socket_id /\ u = sock[i].uid
  BY <1>2
<1>4. u # 0
  BY SockAssumption
<1>5. /\ call' = call
      /\ \A j \in Slots : j # i => sock'[j] = sock[j]
      /\ sock'[i].type = "ATTACH" /\ sock'[i].dev = d /\ sock'[i].uid = u
      /\ sock'[i].socket_id = id /\ sock'[i].protocol = sock[i].protocol
  <2>1. sock[i] \in Socket
    BY DEF TypeOK
  <2> QED
    BY <1>3, <2>1 DEF Attach, AttachSent, TypeOK, Socket
<1>6. Unchanging(i) /\ Unchanging(i)'
  BY <1>1, <1>5, SameCallback DEF Unchanging, Changing, Returning, CallsInTurn, Attaching
<1>7. \A j \in Slots : j # i => SlotStays(j)
  BY <1>5, SameCallback DEF SlotStays, Named, Pending
<1>8. \A j \in Slots : j # i /\ (Named(j) \/ Pending(j)) => sock[j].uid # u
  BY <1>1, <1>3, OtherSlot
<1>9. ASSUME NEW k \in Ids, radio[d][k].uid = u
      PROVE  /\ k = id /\ radio[d][id].state = "open" /\ NoAnswer(d, u)
             /\ radio[d][id].protocol = sock[i].protocol
  <2>1. StateIs(d, i, k)
    BY <1>2, <1>3, <1>9 DEF States, SlotStates, SlotState, NamedState
  <2>2. NoAnswer(d, u)
    BY <1>1, <1>3, <2>1 DEF StateIs, NoAnswer
  <2>3. Fits("CREATED", radio[d][k].state) /\ k = id
    BY <1>1, <1>3, <1>6, <2>1, <2>2 DEF StateIs
  <2> QED
    BY <1>1, <2>1, <2>2, <2>3 DEF Fits, StateIs
<1>10. \A e \in Dev : \A f \in Queued(e) : f.kind = "ipv4_client" => f.clientUid # u
  BY <1>1, <1>3 DEF Identity, Births, ClientsNew
<1>11. ASSUME radio[d][id].uid # 0, radio[d][id].state = "open",
              radio' = [radio EXCEPT ![d][id].state = op], rx' = rx
       PROVE  States'
  <2>1. radio[d][id].uid = u
    BY <1>2, <1>3, <1>11, KnownOne DEF Identity
  <2>2. /\ radio'[d][id].uid = u /\ radio'[d][id].state = op
        /\ radio'[d][id].protocol = radio[d][id].protocol
        /\ \A e \in Dev, k \in Ids : e # d \/ k # id => radio'[e][k] = radio[e][k]
    BY <1>11, <2>1 DEF TypeOK, Radio
  <2>3. \A e \in Dev : Queued(e)' = Queued(e)
    BY <1>11 DEF Queued
  <2>4. NoAnswer(d, u)'
    BY <1>9, <2>1, <2>3 DEF NoAnswer
  <2>5. StateIs(d, i, id)'
    <3>1. OneAnswer(d, u)'
      <4>1. \A k \in 1 .. Len(rx'[d]) : ~IsAnswer(rx'[d][k], u)
        BY <2>4 DEF NoAnswer, Queued
      <4> QED
        BY <4>1 DEF OneAnswer
    <3>2. \A f \in Queued(d)' : ~IsAnswer(f, u)
      BY <2>4 DEF NoAnswer
    <3>3. Fits("ATTACH", op)
      BY DEF Fits
    <3> QED
      BY <1>5, <1>6, <1>9, <2>1, <2>2, <3>1, <3>2, <3>3 DEF StateIs, Unchanging
  <2>6. \A e \in Dev : SlotState(e, i)'
    <3>1. \A k \in Ids : radio'[d][k].uid = u => k = id
      BY <1>9, <2>2
    <3> QED
      BY <1>5, <2>5, <3>1 DEF SlotState, NamedState, PendingState, Pending
  <2>7. ASSUME NEW e \in Dev, NEW v, v # u
        PROVE  AnswersStay(e, v) /\ RadioStays(e, v) /\ CreatesStay(e, v)
    BY <1>11, <2>2, <2>3, <2>7, SameAnswers DEF RadioStays, CreatesStay
  <2>8. ASSUME NEW e \in Dev, NEW j \in Slots, j # i PROVE SlotState(e, j)'
    <3>1. PICK v : v = sock[j].uid
      OBVIOUS
    <3> QED
      BY <1>7, <1>8, <2>7, <2>8, <3>1, OtherState
  <2>9. ASSUME NEW e \in Dev, NEW f \in Queued(e)' PROVE ClientState(e, f)'
    <3>1. ClientState(e, f)
      BY <2>3 DEF States, ClientStates
    <3> QED
      BY <1>10, <2>3, <2>7, <3>1, ClientStateStays
  <2> QED
    BY <2>6, <2>8, <2>9 DEF States, SlotStates, ClientStates
<1>12. ASSUME NEW f, f.uid = u, Answer(d, f), radio' = radio,
              f.kind \in {"connect_resp", "listen_resp"},
              radio[d][id].uid = 0 \/ radio[d][id].state # "open"
       PROVE  States'
  <2>1. \A k \in Ids : radio'[d][k].uid # u
    BY <1>4, <1>9, <1>12
  <2>2. \A e \in Dev : SlotState(e, i)'
    BY <1>5, <2>1 DEF SlotState, NamedState, PendingState, Pending
  <2>3. \A e \in Dev : Queued(e)' = IF e = d THEN Queued(e) \cup {f} ELSE Queued(e)
    BY <1>12, Appended
  <2>4. ASSUME NEW e \in Dev, NEW v, v # u
        PROVE  AnswersStay(e, v) /\ RadioStays(e, v) /\ CreatesStay(e, v)
    <3>1. ~IsAnswer(f, v)
      BY <1>12, <2>4 DEF IsAnswer
    <3>2. AnswersStay(e, v)
      BY <1>12, <3>1, AppendAnswers
    <3> QED
      BY <1>12, <2>3, <2>4, <3>2 DEF RadioStays, CreatesStay
  <2>5. ASSUME NEW e \in Dev, NEW j \in Slots, j # i PROVE SlotState(e, j)'
    <3>1. PICK v : v = sock[j].uid
      OBVIOUS
    <3> QED
      BY <1>7, <1>8, <2>4, <2>5, <3>1, OtherState
  <2>6. ASSUME NEW e \in Dev, NEW g \in Queued(e)' PROVE ClientState(e, g)'
    <3> SUFFICES ASSUME g.kind = "ipv4_client" PROVE ClientState(e, g)'
      BY DEF ClientState
    <3>1. g \in Queued(e)
      BY <1>12, <2>3
    <3>2. ClientState(e, g)
      BY <3>1 DEF States, ClientStates
    <3> QED
      BY <1>10, <2>4, <3>1, <3>2, ClientStateStays
  <2> QED
    BY <2>2, <2>5, <2>6 DEF States, SlotStates, ClientStates
<1> QED
  <2> DEFINE kind == IF op = "connecting" THEN "connect_resp" ELSE "listen_resp"
  <2>1. \/ /\ radio[d][id].uid # 0 /\ radio[d][id].state = "open"
           /\ radio' = [radio EXCEPT ![d][id].state = op] /\ rx' = rx
        \/ /\ radio[d][id].uid = 0 \/ radio[d][id].state # "open"
           /\ Answer(d, FrameOf(kind, u, id, NextFrame(d), FALSE)) /\ radio' = radio
    BY <1>3 DEF Attach, AttachSent
  <2>2. /\ FrameOf(kind, u, id, NextFrame(d), FALSE).uid = u
        /\ FrameOf(kind, u, id, NextFrame(d), FALSE).kind \in {"connect_resp", "listen_resp"}
    BY DEF FrameOf
  <2> HIDE DEF kind
  <2> QED
    BY <1>11, <1>12, <2>1, <2>2

\* The module answers a connect, bind or listen: the slot is at what it answered.
LEMMA AnswersAttachStates ==
    ASSUME TypeOK, Identity, States,
           NEW d \in Dev, NEW id \in Ids, NEW ok \in BOOLEAN, AnswersAttach(d, id, ok)
    PROVE  States'
<1>1. PICK r \in Radio : r = radio[d][id]
  BY DEF TypeOK
<1>2. PICK u \in Uid : u = r.uid
  BY <1>1 DEF AnswersAttach, Radio, Mark
<1>3. /\ r.state \in {"connecting", "opening"}
      /\ sock' = sock /\ call' = call
  BY <1>1 DEF AnswersAttach
<1>4. PICK f : /\ f.uid = u /\ f.id = id /\ f.ok = ok
               /\ f.kind = (IF r.state = "connecting" THEN "connect_resp" ELSE "listen_resp")
               /\ Answer(d, f)
  <2> DEFINE kind == IF r.state = "connecting" THEN "connect_resp" ELSE "listen_resp"
             f == FrameOf(kind, u, id, 0, ok)
  <2>1. Answer(d, f)
    BY <1>1, <1>2 DEF AnswersAttach
  <2>2. f.uid = u /\ f.id = id /\ f.ok = ok /\ f.kind = kind
    BY DEF FrameOf
  <2> HIDE DEF f
  <2> QED
    BY <2>1, <2>2
<1>5. PICK done : /\ done = IF r.state = "connecting" THEN "connected"
                            ELSE IF r.protocol = "UDP" THEN "bound" ELSE "listening"
                  /\ radio' = [radio EXCEPT ![d][id].state = IF ok THEN done ELSE "open"]
  BY <1>1 DEF AnswersAttach
<1>6. /\ radio'[d][id].uid = u /\ radio'[d][id].protocol = r.protocol
      /\ radio'[d][id].state = IF ok THEN done ELSE "open"
      /\ \A e \in Dev, k \in Ids : e # d \/ k # id => radio'[e][k] = radio[e][k]
  BY <1>1, <1>2, <1>5 DEF TypeOK, Radio
<1>7. IsAnswer(f, u) /\ \A v : v # u => ~IsAnswer(f, v)
  BY <1>4 DEF IsAnswer
<1>8. \A e \in Dev : Queued(e)' = IF e = d THEN Queued(e) \cup {f} ELSE Queued(e)
  BY <1>4, Appended
<1>9. ASSUME NEW e \in Dev, NEW v, e # d \/ v # u
      PROVE  AnswersStay(e, v) /\ RadioStays(e, v) /\ CreatesStay(e, v)
  <2>1. AnswersStay(e, v)
    BY <1>4, <1>7, <1>9, AppendAnswers
  <2> QED
    BY <1>4, <1>6, <1>8, <1>9, <2>1 DEF RadioStays, CreatesStay
<1>10. \A j \in Slots : SlotStays(j)
  BY <1>3, SameCallback DEF SlotStays, Named, Pending
\* The slot waits for the answer, and for no other.
<1>11. ASSUME NEW i \in Slots, sock[i].uid = u, sock[i].dev = d
       PROVE  SlotState(d, i)'
  <2>1. ~Pending(i)
    BY <1>1, <1>2, <1>3, <1>11 DEF States, SlotStates, SlotState, PendingState, OpenAt
  <2> SUFFICES ASSUME Named(i), NEW k \in Ids, radio'[d][k].uid = u
               PROVE  StateIs(d, i, k)'
    BY <1>3, <1>10, <1>11, <2>1 DEF SlotStays, SlotState, NamedState, PendingState
  <2>2. StateIs(d, i, id)
    BY <1>1, <1>2, <1>11 DEF States, SlotStates, SlotState, NamedState
  <2>3. k = id
    <3>1. CASE k # id
      <4>1. StateIs(d, i, k)
        BY <1>6, <1>11, <3>1 DEF States, SlotStates, SlotState, NamedState
      <4> QED
        BY <2>2, <4>1 DEF StateIs
    <3> QED
      BY <3>1
  <2>4. \A then \in Attaching : ~Fits(Outcome(sock[i], then), r.state)
    BY <1>3 DEF Attaching, Outcome, Attached, Fits
  <2>5. NoAnswer(d, u)
    <3>1. ASSUME NEW g \in Queued(d), IsAnswer(g, u) PROVE FALSE
      <4>1. AfterCallback(g) \in Attaching
        BY <3>1 DEF IsAnswer, AfterCallback, Attaching
      <4>2. Fits(Outcome(sock[i], AfterCallback(g)), radio[d][id].state)
        BY <1>11, <2>2, <3>1 DEF StateIs
      <4> QED
        BY <1>1, <2>4, <4>1, <4>2
    <3> QED
      BY <3>1 DEF NoAnswer
  <2>6. Unchanging(i)
    BY <1>1, <2>2, <2>4 DEF StateIs, Unchanging, Changing
  <2>7. sock[i].type = "ATTACH"
    <3>1. Fits(sock[i].type, r.state)
      BY <1>1, <1>11, <2>2, <2>5, <2>6 DEF StateIs
    <3> QED
      BY <1>3, <3>1 DEF Fits
  <2>8. radio[d][id].protocol = sock[i].protocol /\ id = sock[i].socket_id
    BY <2>2, <2>7 DEF StateIs
  <2>9. Unchanging(i)'
    BY <1>3, <2>6, SameCallback DEF Unchanging
  <2>10. \A g \in Queued(d)' : IsAnswer(g, u) => g = f
    BY <1>8, <2>5 DEF NoAnswer
  <2>11. OneAnswer(d, u)'
    <3> SUFFICES ASSUME NEW m \in 1 .. Len(rx'[d]), NEW n \in 1 .. Len(rx'[d]),
                        IsAnswer(rx'[d][m], u), IsAnswer(rx'[d][n], u)
                 PROVE  m = n
      BY DEF OneAnswer
    <3>1. m = Len(rx[d]) + 1
      BY <1>4, <2>5, AppendedAt DEF NoAnswer
    <3>2. n = Len(rx[d]) + 1
      BY <1>4, <2>5, AppendedAt DEF NoAnswer
    <3> QED
      BY <3>1, <3>2
  <2>12. Fits(Outcome(sock[i], AfterCallback(f)), radio'[d][id].state)
    <3>1. CASE ~ok
      BY <1>4, <1>6, <3>1 DEF AfterCallback, Outcome, Fits
    <3>2. CASE ok /\ r.state = "connecting"
      BY <1>4, <1>5, <1>6, <3>2 DEF AfterCallback, Outcome, Fits
    <3>3. CASE ok /\ r.state = "opening"
      <4>1. AfterCallback(f) = "attached"
        BY <1>4, <3>3 DEF AfterCallback
      <4> QED
        BY <1>1, <1>5, <1>6, <2>8, <3>3, <4>1 DEF Outcome, Attached, Fits
    <3> QED
      BY <1>3, <3>1, <3>2, <3>3
  <2>13. ~NoAnswer(d, u)'
    BY <1>7, <1>8 DEF NoAnswer
  <2>14. sock'[i] = sock[i]
    BY <1>3
  <2>15. radio'[d][id].protocol = sock[i].protocol
    BY <1>1, <1>6, <2>8
  <2> QED
    BY <1>4, <1>11, <2>3, <2>7, <2>8, <2>9, <2>10, <2>11, <2>12, <2>13, <2>14, <2>15
       DEF StateIs, Unchanging
<1>12. ASSUME NEW e \in Dev, NEW j \in Slots PROVE SlotState(e, j)'
  <2>1. PICK v : v = sock[j].uid
    OBVIOUS
  <2>2. CASE e # d \/ v # u
    BY <1>9, <1>10, <2>1, <2>2, OtherState
  <2>3. CASE e = d /\ v = u
    <3>1. CASE sock[j].dev = d
      BY <1>11, <2>1, <2>3, <3>1
    <3>2. CASE sock[j].dev # d
      BY <1>3, <2>3, <3>2 DEF SlotState, NamedState, PendingState
    <3> QED
      BY <3>1, <3>2
  <2> QED
    BY <2>2, <2>3
<1>13. ASSUME NEW e \in Dev, NEW g \in Queued(e)' PROVE ClientState(e, g)'
  <2> SUFFICES ASSUME g.kind = "ipv4_client" PROVE ClientState(e, g)'
    BY DEF ClientState
  <2>1. g \in Queued(e)
    BY <1>4, <1>8
  <2>2. ClientState(e, g)
    BY <2>1 DEF States, ClientStates
  <2>3. e # d \/ g.clientUid # u
    BY <1>1, <1>2, <1>3, <2>2 DEF ClientState
  <2> QED
    BY <1>9, <2>2, <2>3, ClientStateStays
<1> QED
  BY <1>12, <1>13 DEF States, SlotStates, ClientStates

\* A new socket is open, by the id in its Create Response.
LEMMA CreateStates ==
    ASSUME TypeOK, Identity, States,
           NEW d \in Dev, NEW protocol \in Protocol, Create(d, protocol)
    PROVE  States'
<1>1. PICK i \in Slots : i = FirstOf(Available) /\ ~InUse(i)
  BY FirstSlot DEF Create, Available
<1>2. PICK u \in Uid : u = (CHOOSE v \in FreshUid : TRUE) /\ u \notin KnownUid
  BY DEF Create, FreshUid
<1>3. PICK s : /\ sock' = [sock EXCEPT ![i] = s]
               /\ s.type = "PENDING" /\ s.dev = d /\ s.uid = u /\ s.protocol = protocol
  <2> DEFINE s == [Free EXCEPT !.type = "PENDING", !.dev = d, !.uid = u,
                     !.create_frame_id = NextFrame(d), !.protocol = protocol]
  <2>1. sock' = [sock EXCEPT ![i] = s]
    BY <1>1, <1>2 DEF Create
  <2>2. s.type = "PENDING" /\ s.dev = d /\ s.uid = u /\ s.protocol = protocol
    BY DEF Free
  <2> HIDE DEF s
  <2> QED
    BY <2>1, <2>2
<1>4. PICK id \in {0} \cup Ids, ok \in BOOLEAN :
        /\ Answer(d, FrameOf("create_resp", u, id, NextFrame(d), ok))
        /\ \/ /\ id \in Ids
              /\ radio' = [radio EXCEPT ![d][id] =
                             [uid |-> u, protocol |-> protocol, state |-> "open"]]
           \/ radio' = radio
  BY <1>2 DEF Create, FreeIds
<1>5. PICK f : Answer(d, f) /\ f.kind = "create_resp" /\ f.uid = u /\ f.id = id
  <2> DEFINE f == FrameOf("create_resp", u, id, NextFrame(d), ok)
  <2>1. f.kind = "create_resp" /\ f.uid = u /\ f.id = id
    BY DEF FrameOf
  <2> HIDE DEF f
  <2> QED
    BY <1>4, <2>1 DEF f
<1>6. /\ \A j \in Slots : sock[j].uid # u
      /\ \A e \in Dev, k \in Ids : radio[e][k].uid # u
      /\ \A e \in Dev : \A h \in Queued(e) : h.uid # u /\ h.clientUid # u
  BY <1>2, FreshKnown
<1>7. /\ call' = call
      /\ \A j \in Slots : j # i => sock'[j] = sock[j]
      /\ sock'[i] = s
  BY <1>3 DEF Create, TypeOK
<1>8. /\ \A e \in Dev, k \in Ids : radio'[e][k] = radio[e][k] \/ (e = d /\ k = id)
      /\ \A k \in Ids : radio'[d][k].uid = u =>
           k = id /\ radio'[d][k].state = "open" /\ radio'[d][k].protocol = protocol
      /\ \A e \in Dev, k \in Ids : radio'[e][k] = radio[e][k] \/ radio'[e][k].uid = u
  <2>1. CASE radio' = radio
    BY <1>6, <2>1
  <2>2. CASE /\ id \in Ids
             /\ radio' = [radio EXCEPT ![d][id] =
                            [uid |-> u, protocol |-> protocol, state |-> "open"]]
    <3>1. /\ \A e \in Dev, k \in Ids : e # d \/ k # id => radio'[e][k] = radio[e][k]
          /\ radio'[d][id].uid = u /\ radio'[d][id].state = "open"
          /\ radio'[d][id].protocol = protocol
      BY <2>2 DEF TypeOK
    <3> QED
      BY <1>6, <3>1
  <2> QED
    BY <1>4, <2>1, <2>2
<1>9. \A e \in Dev : Queued(e)' = IF e = d THEN Queued(e) \cup {f} ELSE Queued(e)
  BY <1>5, Appended
<1>10. ASSUME NEW e \in Dev, NEW v, v # u
       PROVE  AnswersStay(e, v) /\ RadioStays(e, v) /\ CreatesStay(e, v)
  <2>1. ~IsAnswer(f, v)
    BY <1>5 DEF IsAnswer
  <2>2. AnswersStay(e, v)
    BY <1>5, <2>1, AppendAnswers
  <2>3. RadioStays(e, v)
    BY <1>8, <1>10 DEF RadioStays
  <2> QED
    BY <1>5, <1>9, <1>10, <2>2, <2>3 DEF CreatesStay
<1>11. ASSUME NEW e \in Dev, NEW j \in Slots, j # i PROVE SlotState(e, j)'
  <2>1. PICK v : v = sock[j].uid
    OBVIOUS
  <2>2. SlotStays(j)
    BY <1>7, <1>11, SameCallback DEF SlotStays, Named, Pending
  <2> QED
    BY <1>6, <1>10, <2>1, <2>2, OtherState
<1>12. ASSUME NEW e \in Dev PROVE SlotState(e, i)'
  <2>1. NoAnswer(d, u)'
    BY <1>5, <1>6, <1>9 DEF NoAnswer, IsAnswer
  <2>2. \A g \in Queued(d)' : g.uid = u => g.id = id
    BY <1>5, <1>6, <1>9
  <2>3. ASSUME NEW k \in Ids, radio'[d][k].uid = u PROVE OpenAt(d, i, k)'
    BY <1>3, <1>7, <1>8, <2>2, <2>3 DEF OpenAt
  <2> QED
    BY <1>3, <1>7, <2>1, <2>3 DEF SlotState, NamedState, PendingState, Named
<1>13. ASSUME NEW e \in Dev, NEW g \in Queued(e)' PROVE ClientState(e, g)'
  <2> SUFFICES ASSUME g.kind = "ipv4_client" PROVE ClientState(e, g)'
    BY DEF ClientState
  <2>1. g \in Queued(e)
    BY <1>5, <1>9
  <2>2. ClientState(e, g) /\ g.clientUid # u
    BY <1>6, <2>1 DEF States, ClientStates
  <2> QED
    BY <1>10, <2>2, ClientStateStays
<1> QED
  BY <1>11, <1>12, <1>13 DEF States, SlotStates, ClientStates

\* A client is connected, by the id it is announced with.
LEMMA AcceptsClientStates ==
    ASSUME TypeOK, Identity, States, NEW d \in Dev, NEW id \in Ids, AcceptsClient(d, id)
    PROVE  States'
<1>1. PICK u \in Uid : u = (CHOOSE v \in FreshUid : TRUE) /\ u \notin KnownUid
  BY DEF AcceptsClient, FreshUid
<1>2. PICK c \in Ids :
        /\ radio' = [radio EXCEPT ![d][c] =
                       [uid |-> u, protocol |-> radio[d][id].protocol, state |-> "connected"]]
        /\ Answer(d, [FrameOf("ipv4_client", radio[d][id].uid, id, 0, TRUE)
                         EXCEPT !.client = c, !.clientUid = u])
        /\ sock' = sock /\ call' = call
  BY <1>1 DEF AcceptsClient, FreeIds
<1>3. PICK f : Answer(d, f) /\ f.kind = "ipv4_client" /\ f.client = c /\ f.clientUid = u
  <2> DEFINE f == [FrameOf("ipv4_client", radio[d][id].uid, id, 0, TRUE)
                     EXCEPT !.client = c, !.clientUid = u]
  <2>1. f.kind = "ipv4_client" /\ f.client = c /\ f.clientUid = u
    BY DEF FrameOf
  <2> HIDE DEF f
  <2> QED
    BY <1>2, <2>1 DEF f
<1>4. /\ \A j \in Slots : sock[j].uid # u
      /\ \A e \in Dev, k \in Ids : radio[e][k].uid # u
      /\ \A e \in Dev : \A h \in Queued(e) : h.uid # u /\ h.clientUid # u
  BY <1>1, FreshKnown
<1>5. /\ radio'[d][c].uid = u /\ radio'[d][c].state = "connected"
      /\ \A e \in Dev, k \in Ids : e # d \/ k # c => radio'[e][k] = radio[e][k]
  BY <1>2 DEF TypeOK
<1>6. \A e \in Dev : Queued(e)' = IF e = d THEN Queued(e) \cup {f} ELSE Queued(e)
  BY <1>3, Appended
<1>7. ASSUME NEW e \in Dev, NEW v, v # u
      PROVE  AnswersStay(e, v) /\ RadioStays(e, v) /\ CreatesStay(e, v)
  <2>1. ~IsAnswer(f, v)
    BY <1>3 DEF IsAnswer
  <2>2. AnswersStay(e, v)
    BY <1>3, <2>1, AppendAnswers
  <2>3. RadioStays(e, v)
    BY <1>5, <1>7 DEF RadioStays
  <2> QED
    BY <1>3, <1>6, <2>2, <2>3 DEF CreatesStay
<1>8. ASSUME NEW e \in Dev, NEW j \in Slots PROVE SlotState(e, j)'
  <2>1. PICK v : v = sock[j].uid
    OBVIOUS
  <2>2. SlotStays(j)
    BY <1>2, SameCallback DEF SlotStays, Named, Pending
  <2> QED
    BY <1>4, <1>7, <2>1, <2>2, OtherState
<1>9. ASSUME NEW e \in Dev, NEW g \in Queued(e)' PROVE ClientState(e, g)'
  <2>1. CASE g \in Queued(e)
    <3>1. ClientState(e, g) /\ g.clientUid # u
      BY <1>4, <2>1 DEF States, ClientStates
    <3> QED
      BY <1>7, <3>1, ClientStateStays
  <2>2. CASE g \notin Queued(e)
    <3>1. e = d /\ g = f
      BY <1>6, <2>2
    <3>2. NoAnswer(d, u)'
      BY <1>3, <1>4, <1>6 DEF NoAnswer, IsAnswer
    <3>3. \A k \in Ids : radio'[d][k].uid = u => k = c /\ radio'[d][k].state = "connected"
      BY <1>4, <1>5
    <3> QED
      BY <1>3, <3>1, <3>2, <3>3 DEF ClientState
  <2> QED
    BY <2>1, <2>2
<1> QED
  BY <1>8, <1>9 DEF States, SlotStates, ClientStates

\* A handler that changes no type: data, a status, an end, a failed Create Response.
LEMMA MatchedStates ==
    ASSUME TypeOK, Identity, States, 0 \notin Ids, NEW d \in Dev, NEW f, Matched(d, f),
           ~(f.kind = "create_resp" /\ f.ok), f.kind \notin {"connect_resp", "listen_resp"}
    PROVE  States'
<1>1. PICK i \in Slots : /\ call = <<>> /\ Receives(d, f) /\ f \in Frame /\ sock' = sock
                         /\ call' = <<Callback(i, AfterCallback(f), f.uid, N, 0)>>
  BY MatchedOwn
<1>2. PICK a : call' = <<a>> /\ a.then \notin Attaching
  <2>1. AfterCallback(f) \notin Attaching
    BY DEF AfterCallback, Attaching
  <2>2. Callback(i, AfterCallback(f), f.uid, N, 0).then = AfterCallback(f)
    BY DEF Callback
  <2> QED
    BY <1>1, <2>1, <2>2
<1>3. \A j \in Slots : SlotStays(j)
  <2>1. \A j, then : ~Returning(j, then)
    BY <1>1 DEF Returning
  <2>2. \A j, then : ~Changing(j, then)'
    BY <1>2, CalledBack DEF Changing
  <2> QED
    BY <1>1, <2>1, <2>2 DEF SlotStays, Named, Pending, Changing
<1>4. radio' = radio
  BY <1>1 DEF Receives
<1> QED
  BY <1>1, <1>3, <1>4, QuietLink, StatesStay

\* A Create Response: the slot has the id of an open socket.
LEMMA CreateRespStates ==
    ASSUME TypeOK, Identity, States, 0 \notin Ids, NEW d \in Dev, NEW f, Matched(d, f),
           f.kind = "create_resp", f.ok
    PROVE  States'
<1>1. PICK i \in Slots :
        /\ i \in Target(d, f) /\ sock[i].uid = f.uid
        /\ call = <<>> /\ Receives(d, f) /\ f \in Queued(d) /\ f \in Frame
        /\ sock' = [sock EXCEPT ![i].socket_id = f.id, ![i].type = "CREATED"]
        /\ call' = <<Callback(i, AfterCallback(f), f.uid, N, 0)>>
  BY MatchedOwn
<1>2. PICK a : call' = <<a>> /\ a.then = "nothing"
  BY <1>1 DEF Callback, AfterCallback
<1>3. \A j, then : /\ ~Returning(j, then)
                   /\ ~Changing(j, then) /\ ~Changing(j, then)'
  BY <1>1, <1>2, CalledBack DEF Returning, Changing, Attaching
<1>4. Pending(i) /\ sock[i].dev = d
  BY <1>1, TargetOwns
<1>5. PICK u : u = f.uid
  OBVIOUS
<1>6. /\ \A j \in Slots : j # i => sock'[j] = sock[j]
      /\ sock'[i].dev = d /\ sock'[i].uid = u /\ sock'[i].socket_id = f.id
      /\ sock'[i].protocol = sock[i].protocol /\ sock'[i].type = "CREATED"
  BY <1>1, <1>4, <1>5 DEF TypeOK, Socket
<1>7. radio' = radio
  BY <1>1 DEF Receives
<1>8. /\ \A e \in Dev : \A v : AnswersStay(e, v)
      /\ \A e \in Dev : \A g \in Queued(e)' :
           g.kind \in {"create_resp", "ipv4_client"} => g \in Queued(e)
  BY <1>1, QuietLink
<1>9. ASSUME NEW e \in Dev, NEW j \in Slots, j # i PROVE SlotState(e, j)'
  <2>1. PICK v : v = sock[j].uid
    OBVIOUS
  <2>2. SlotStays(j)
    BY <1>3, <1>6, <1>9 DEF SlotStays, Named, Pending
  <2>3. RadioStays(e, v) /\ CreatesStay(e, v)
    BY <1>7, <1>8 DEF RadioStays, CreatesStay
  <2> QED
    BY <1>8, <2>1, <2>2, <2>3, OtherState
<1>10. ASSUME NEW e \in Dev PROVE SlotState(e, i)'
  <2>1. PendingState(d, i)
    BY DEF States, SlotStates, SlotState
  <2>2. NoAnswer(d, u)'
    BY <1>1, <1>4, <1>5, <1>8, <2>1 DEF PendingState, AnswersStay, NoAnswer
  <2>3. OneAnswer(d, u)'
    <3>1. \A k \in 1 .. Len(rx'[d]) : ~IsAnswer(rx'[d][k], u)
      BY <2>2 DEF NoAnswer, Queued
    <3> QED
      BY <3>1 DEF OneAnswer
  <2>4. ASSUME NEW id \in Ids, radio'[d][id].uid = u PROVE StateIs(d, i, id)'
    <3>1. OpenAt(d, i, id)
      BY <1>1, <1>4, <1>5, <1>7, <2>1, <2>4 DEF PendingState
    <3>2. /\ f.id = id /\ radio'[d][id].state = "open"
          /\ radio'[d][id].protocol = sock[i].protocol
      BY <1>1, <1>7, <3>1 DEF OpenAt
    <3>3. \A g \in Queued(d)' : ~IsAnswer(g, u)
      BY <2>2 DEF NoAnswer
    <3>4. Fits("CREATED", "open")
      BY DEF Fits
    <3> QED
      BY <1>3, <1>6, <2>3, <3>2, <3>3, <3>4 DEF StateIs
  <2> QED
    BY <1>6, <2>4 DEF SlotState, NamedState, PendingState, Pending
<1>11. ASSUME NEW e \in Dev, NEW g \in Queued(e)' PROVE ClientState(e, g)'
  <2> SUFFICES ASSUME g.kind = "ipv4_client" PROVE ClientState(e, g)'
    BY DEF ClientState
  <2>1. ClientState(e, g)
    BY <1>8 DEF States, ClientStates
  <2> QED
    BY <1>7, <1>8, <2>1, ClientStateStays DEF RadioStays
<1> QED
  BY <1>9, <1>10, <1>11 DEF States, SlotStates, ClientStates

\* An answer is read: its callback runs, and it was the only one.
LEMMA AnswerStates ==
    ASSUME TypeOK, Identity, States, 0 \notin Ids, NEW d \in Dev, NEW f, Matched(d, f),
           f.kind \in {"connect_resp", "listen_resp"}
    PROVE  States'
<1>1. PICK i \in Slots :
        /\ i \in Target(d, f) /\ sock[i].uid = f.uid
        /\ call = <<>> /\ Receives(d, f) /\ f \in Queued(d) /\ f \in Frame /\ sock' = sock
        /\ call' = <<Callback(i, AfterCallback(f), f.uid, N, 0)>>
  BY MatchedOwn
<1>2. PICK a : call' = <<a>> /\ a.then = AfterCallback(f) /\ a.slot = i
  <2>1. /\ Callback(i, AfterCallback(f), f.uid, N, 0).then = AfterCallback(f)
        /\ Callback(i, AfterCallback(f), f.uid, N, 0).slot = i
    BY DEF Callback
  <2> QED
    BY <1>1, <2>1
<1>3. AfterCallback(f) \in Attaching
  BY DEF AfterCallback, Attaching
<1>4. /\ Named(i) /\ InUse(i) /\ sock[i].dev = d /\ sock[i].socket_id = f.id
      /\ sock[i].type = "ATTACH"
  <2>1. sock[i].type = "ATTACH"
    BY <1>1 DEF Target
  <2> QED
    BY <1>1, <2>1, TargetOwns
<1>5. PICK u : u = f.uid
  OBVIOUS
<1>6. IsAnswer(f, u) /\ \A v : v # u => ~IsAnswer(f, v)
  BY <1>5 DEF IsAnswer
<1>7. radio' = radio
  BY <1>1 DEF Receives
<1>8. \A j, then : /\ ~Returning(j, then)
                   /\ Changing(j, then)' <=> (then = AfterCallback(f) /\ j = i)
  BY <1>1, <1>2, <1>3, CalledBack DEF Returning, Changing
<1>9. \A e \in Dev : Queued(e)' \subseteq Queued(e)
  BY <1>1, Taken
<1>10. ASSUME NEW e \in Dev, NEW v, v # u
       PROVE  AnswersStay(e, v) /\ RadioStays(e, v) /\ CreatesStay(e, v)
  <2>1. AnswersStay(e, v)
    BY <1>1, <1>6, <1>10, TakeAnswers
  <2> QED
    BY <1>7, <1>9, <2>1 DEF RadioStays, CreatesStay
<1>11. ASSUME NEW e \in Dev, NEW j \in Slots, j # i PROVE SlotState(e, j)'
  <2>1. PICK v : v = sock[j].uid
    OBVIOUS
  <2>2. SlotStays(j)
    BY <1>1, <1>8, <1>11 DEF SlotStays, Named, Pending, Changing
  <2>3. Named(j) \/ Pending(j) => v # u
    BY <1>1, <1>4, <1>5, <1>11, <2>1, OtherSlot
  <2> QED
    BY <1>10, <2>1, <2>2, <2>3, OtherState
<1>12. ASSUME NEW id \in Ids, radio'[d][id].uid = u PROVE StateIs(d, i, id)'
  <2>1. StateIs(d, i, id)
    BY <1>1, <1>4, <1>5, <1>7, <1>12 DEF States, SlotStates, SlotState, NamedState
  <2>2. Fits(Outcome(sock[i], AfterCallback(f)), radio[d][id].state)
    BY <1>1, <1>5, <1>6, <2>1 DEF StateIs
  <2>3. \A k \in 1 .. Len(rx'[d]) : ~IsAnswer(rx'[d][k], u)
    <3> SUFFICES ASSUME NEW k \in 1 .. Len(rx'[d]), IsAnswer(rx'[d][k], u)
                 PROVE  FALSE
      OBVIOUS
    <3>1. /\ Len(rx[d]) \in Nat \ {0} /\ Len(rx'[d]) = Len(rx[d]) - 1
          /\ rx'[d][k] = rx[d][k + 1] /\ rx[d][1] = f
      BY <1>1, Taken
    <3>2. k + 1 \in 1 .. Len(rx[d]) /\ 1 \in 1 .. Len(rx[d]) /\ k + 1 # 1
      BY <3>1
    <3>3. OneAnswer(d, u)
      BY <1>1, <1>5, <2>1 DEF StateIs
    <3> QED
      BY <1>6, <3>1, <3>2, <3>3 DEF OneAnswer
  <2>4. \A g \in Queued(d)' : ~IsAnswer(g, u)
    BY <2>3 DEF Queued
  <2>5. OneAnswer(d, u)'
    BY <2>3 DEF OneAnswer
  <2>6. sock'[i] = sock[i] /\ sock'[i].uid = u
    BY <1>1, <1>5
  <2>7. ~Unchanging(i)'
    BY <1>8 DEF Unchanging
  <2>8. id = sock[i].socket_id /\ radio[d][id].protocol = sock[i].protocol
    BY <1>4, <2>1 DEF StateIs
  <2> QED
    BY <1>7, <1>8, <2>2, <2>4, <2>5, <2>6, <2>7, <2>8 DEF StateIs
<1>13. ASSUME NEW e \in Dev PROVE SlotState(e, i)'
  BY <1>1, <1>4, <1>5, <1>12 DEF SlotState, NamedState, PendingState, Pending
<1>14. ASSUME NEW e \in Dev, NEW g \in Queued(e)' PROVE ClientState(e, g)'
  <2> SUFFICES ASSUME g.kind = "ipv4_client" PROVE ClientState(e, g)'
    BY DEF ClientState
  <2>1. ClientState(e, g) /\ g \in Queued(e)
    BY <1>9 DEF States, ClientStates
  <2>2. g.clientUid # u
    BY <1>1, <1>4, <1>5, <2>1 DEF Identity, Births, ClientsNew
  <2> QED
    BY <1>10, <2>1, <2>2, ClientStateStays
<1> QED
  BY <1>11, <1>13, <1>14 DEF States, SlotStates, ClientStates

\* The slot that an answer is for is found, by its id.
LEMMA AnswerFound ==
    ASSUME TypeOK, Identity, 0 \notin Ids, NEW d \in Dev, NEW f,
           f.kind \in {"connect_resp", "listen_resp"}, call = <<>>,
           NEW i \in Slots, Named(i), sock[i].dev = d, sock[i].socket_id = f.id,
           sock[i].type = "ATTACH"
    PROVE  Target(d, f) # {}
<1>1. i \in Lookup(d, f.id) /\ Lookup(d, f.id) \in SUBSET Slots
  BY DEF Lookup, InUse
<1>2. PICK l \in Lookup(d, f.id) : \A j \in Lookup(d, f.id) : l <= j
  <2>1. Lookup(d, f.id) \in SUBSET Nat
    BY <1>1, SockAssumption DEF Slots
  <2> QED
    BY <1>1, <2>1, LeastSlot
<1>3. l = i
  <2>1. l \in Slots /\ InUse(l) /\ sock[l].dev = d /\ sock[l].socket_id = f.id
    BY <1>2 DEF Lookup
  <2>2. f.id \in Ids
    BY DEF Identity, Tables, SlotsOK
  <2>3. Named(l) \/ sock[l].type = "PENDING"
    BY <2>1 DEF Named, InUse, Returning
  <2>4. Named(l)
    BY <2>1, <2>2, <2>3 DEF Identity, Tables, SlotsOK
  <2> QED
    BY <2>1, <2>4, IdIsOwn DEF Identity
<1> QED
  BY <1>2, <1>3 DEF Target

\* A frame that no slot is found for: an answer to a socket that has no slot, or no id.
LEMMA UnmatchedStates ==
    ASSUME TypeOK, Identity, States, 0 \notin Ids, NEW d \in Dev, NEW f, Unmatched(d, f)
    PROVE  States'
<1>1. /\ Receives(d, f) /\ Target(d, f) = {} /\ call = <<>>
      /\ sock' = sock /\ call' = call /\ radio' = radio
  BY DEF Unmatched, Receives
<1>2. f \in Frame /\ f \in Queued(d) /\ \A e \in Dev : Queued(e)' \subseteq Queued(e)
  BY <1>1, Taken
<1>3. \A j \in Slots : SlotStays(j)
  BY <1>1, SameCallback DEF SlotStays, Named, Pending
<1>4. CASE f.kind \notin {"connect_resp", "listen_resp"}
  BY <1>1, <1>2, <1>3, <1>4, QuietLink, StatesStay
<1>5. CASE f.kind \in {"connect_resp", "listen_resp"}
  <2>1. ASSUME NEW e \in Dev, NEW v, e # d \/ v # f.uid
        PROVE  AnswersStay(e, v) /\ RadioStays(e, v) /\ CreatesStay(e, v)
    <3>1. e = d => ~IsAnswer(f, v)
      BY <2>1 DEF IsAnswer
    <3>2. AnswersStay(e, v)
      BY <1>1, <3>1, TakeAnswers
    <3> QED
      BY <1>1, <1>2, <3>2 DEF RadioStays, CreatesStay
  <2>2. ASSUME NEW j \in Slots, sock[j].uid = f.uid, sock[j].dev = d PROVE SlotState(d, j)'
    <3>1. IsAnswer(f, sock[j].uid)
      BY <1>5, <2>2 DEF IsAnswer
    <3>2. ~Pending(j)
      BY <1>2, <2>2, <3>1 DEF States, SlotStates, SlotState, PendingState, NoAnswer
    <3>3. ASSUME Named(j), NEW id \in Ids, radio[d][id].uid = sock[j].uid PROVE FALSE
      <4>1. StateIs(d, j, id)
        BY <2>2, <3>3 DEF States, SlotStates, SlotState, NamedState
      <4>2. f.id = sock[j].socket_id /\ sock[j].type = "ATTACH"
        BY <1>2, <3>1, <4>1 DEF StateIs
      <4> QED
        BY <1>1, <1>5, <2>2, <3>3, <4>2, AnswerFound
    <3> QED
      BY <1>1, <1>3, <3>2, <3>3 DEF SlotStays, SlotState, NamedState, PendingState
  <2>3. ASSUME NEW e \in Dev, NEW j \in Slots PROVE SlotState(e, j)'
    <3>1. PICK v : v = sock[j].uid
      OBVIOUS
    <3>2. CASE e # d \/ v # f.uid
      BY <1>3, <2>1, <3>1, <3>2, OtherState
    <3>3. CASE e = d /\ v = f.uid
      <4>1. CASE sock[j].dev = d
        BY <2>2, <3>1, <3>3, <4>1
      <4>2. CASE sock[j].dev # d
        BY <1>1, <3>3, <4>2 DEF SlotState, NamedState, PendingState
      <4> QED
        BY <4>1, <4>2
    <3> QED
      BY <3>2, <3>3
  <2>4. ASSUME NEW e \in Dev, NEW g \in Queued(e)' PROVE ClientState(e, g)'
    <3> SUFFICES ASSUME g.kind = "ipv4_client" PROVE ClientState(e, g)'
      BY DEF ClientState
    <3>1. ClientState(e, g) /\ g \in Queued(e)
      BY <1>2 DEF States, ClientStates
    <3>2. e # d \/ g.clientUid # f.uid
      BY <1>2, <1>5, <3>1 DEF ClientState, NoAnswer, IsAnswer
    <3> QED
      BY <2>1, <3>1, <3>2, ClientStateStays
  <2> QED
    BY <2>3, <2>4 DEF States, SlotStates, ClientStates
<1> QED
  BY <1>4, <1>5

\* A client that takes a slot is connected.
LEMMA ClientArrivesStates ==
    ASSUME TypeOK, Identity, States, NEW d \in Dev, NEW f, ClientArrives(d, f)
    PROVE  States'
<1>1. /\ call = <<>> /\ Receives(d, f) /\ f.kind = "ipv4_client" /\ f \in Frame
      /\ f \in Queued(d)
  <2>1. Receives(d, f)
    BY DEF ClientArrives
  <2>2. f \in Frame /\ f \in Queued(d)
    BY <2>1, Taken
  <2> QED
    BY <2>1, <2>2 DEF ClientArrives, Receives
<1>2. PICK c, a : /\ \E s : /\ sock' = [i \in Slots |-> IF i = c THEN s ELSE sock[i]]
                            /\ s.type = "CONNECT" /\ s.dev = d /\ s.socket_id = f.client
                            /\ s.uid = f.clientUid
                  /\ call' = <<a>> /\ a.then = "accept"
  <2> DEFINE l == FirstOf(Target(d, f))
             cc == IF Available = {} THEN N ELSE FirstOf(Available)
             s == [Free EXCEPT !.type = "CONNECT", !.dev = d, !.socket_id = f.client,
                     !.protocol = sock[l].protocol, !.uid = f.clientUid,
                     !.create_frame_id = sock[l].create_frame_id]
             aa == Callback(l, "accept", f.uid, cc, f.client)
  <2>1. sock' = [i \in Slots |-> IF i = cc THEN s ELSE sock[i]] /\ call' = <<aa>>
    BY DEF ClientArrives
  <2>2. s.type = "CONNECT" /\ s.dev = d /\ s.socket_id = f.client /\ s.uid = f.clientUid
    BY DEF Free
  <2>3. aa.then = "accept"
    BY DEF Callback
  <2> HIDE DEF l, cc, s, aa
  <2> QED
    BY <2>1, <2>2, <2>3
<1>3. \A j, then : /\ ~Returning(j, then)
                   /\ ~Changing(j, then) /\ ~Changing(j, then)'
  BY <1>1, <1>2, CalledBack DEF Returning, Changing, Attaching
<1>4. PICK u : u = f.clientUid
  OBVIOUS
<1>5. \A j \in Slots : /\ j # c => sock'[j] = sock[j]
                       /\ j = c => /\ sock'[j].type = "CONNECT" /\ sock'[j].dev = d
                                   /\ sock'[j].socket_id = f.client /\ sock'[j].uid = u
  BY <1>2, <1>4
<1>6. radio' = radio
  BY <1>1 DEF Receives
<1>7. /\ \A e \in Dev : \A v : AnswersStay(e, v)
      /\ \A e \in Dev : \A g \in Queued(e)' :
           g.kind \in {"create_resp", "ipv4_client"} => g \in Queued(e)
  BY <1>1, QuietLink
<1>8. ASSUME NEW e \in Dev, NEW j \in Slots, j # c PROVE SlotState(e, j)'
  <2>1. PICK v : v = sock[j].uid
    OBVIOUS
  <2>2. SlotStays(j)
    BY <1>3, <1>5, <1>8 DEF SlotStays, Named, Pending
  <2>3. RadioStays(e, v) /\ CreatesStay(e, v)
    BY <1>6, <1>7 DEF RadioStays, CreatesStay
  <2> QED
    BY <1>7, <2>1, <2>2, <2>3, OtherState
<1>9. ASSUME c \in Slots, NEW e \in Dev PROVE SlotState(e, c)'
  <2>1. ClientState(d, f)
    BY <1>1 DEF States, ClientStates
  <2>2. NoAnswer(d, u)'
    BY <1>1, <1>4, <1>7, <2>1 DEF ClientState, AnswersStay, NoAnswer
  <2>3. OneAnswer(d, u)'
    <3>1. \A k \in 1 .. Len(rx'[d]) : ~IsAnswer(rx'[d][k], u)
      BY <2>2 DEF NoAnswer, Queued
    <3> QED
      BY <3>1 DEF OneAnswer
  <2>4. ASSUME NEW id \in Ids, radio'[d][id].uid = u PROVE StateIs(d, c, id)'
    <3>1. id = f.client /\ radio'[d][id].state = "connected"
      BY <1>1, <1>4, <1>6, <2>1, <2>4 DEF ClientState
    <3>2. \A g \in Queued(d)' : ~IsAnswer(g, u)
      BY <2>2 DEF NoAnswer
    <3>3. Fits("CONNECT", "connected")
      BY DEF Fits
    <3> QED
      BY <1>3, <1>5, <1>9, <2>3, <3>1, <3>2, <3>3 DEF StateIs
  <2> QED
    BY <1>5, <1>9, <2>4 DEF SlotState, NamedState, PendingState, Pending
<1>10. ASSUME NEW e \in Dev, NEW g \in Queued(e)' PROVE ClientState(e, g)'
  <2> SUFFICES ASSUME g.kind = "ipv4_client" PROVE ClientState(e, g)'
    BY DEF ClientState
  <2>1. ClientState(e, g)
    BY <1>7 DEF States, ClientStates
  <2> QED
    BY <1>6, <1>7, <2>1, ClientStateStays DEF RadioStays
<1> QED
  BY <1>8, <1>9, <1>10 DEF States, SlotStates, ClientStates

LEMMA InitStates == ASSUME Init PROVE States
<1>1. \A d \in Dev : Queued(d) = {}
  BY EmptySeq DEF Init, Queued
<1>2. \A i \in Slots : ~Named(i) /\ ~Pending(i)
  BY DEF Init, Free, Named, Pending
<1> QED
  BY <1>1, <1>2 DEF States, SlotStates, ClientStates, SlotState, NamedState, PendingState

LEMMA StatesStep ==
    ASSUME Patient, ~FreeInCallback, 0 \notin Ids,
           TypeOK, CallsInTurn, Identity, States, [Next]_vars
    PROVE  States'
<1>1. CASE App
  <2>1. ASSUME NEW d \in Dev, NEW protocol \in Protocol, Create(d, protocol) PROVE States'
    BY <2>1, CreateStates
  <2>2. ASSUME NEW d \in Dev, Reset(d) PROVE States'
    BY <2>2, ResetStates
  <2>3. ASSUME NEW d \in Dev, Refused(d) PROVE States'
    BY <2>3, QuietStates DEF Refused
  <2>4. ASSUME NEW d \in Dev \cup {NULL}, CloseAll(d) PROVE States'
    BY <2>4, CloseAllStates
  <2>5. ASSUME NEW i \in Slots, Connect(i) \/ Bind(i) \/ Listen(i) PROVE States'
    BY <2>5, AttachStates DEF Connect, Bind, Listen
  <2>6. ASSUME NEW i \in Slots, Send(i) PROVE States'
    BY <2>6, SendStates
  <2>7. ASSUME NEW i \in Slots, Close(i) PROVE States'
    BY <2>7, CloseStates
  <2>8. ASSUME NEW i \in Slots, NEW callback \in BOOLEAN, Option(i, callback) PROVE States'
    BY <2>8, OptionStates
  <2> QED
    BY <1>1, <2>1, <2>2, <2>3, <2>4, <2>5, <2>6, <2>7, <2>8 DEF App
<1>2. CASE CloseNext
  BY <1>2, CloseNextStates
<1>3. CASE Returns
  BY <1>3, CallbackReturnsStates, ClientReturnsStates DEF Returns
<1>4. ASSUME NEW d \in Dev, NEW f, Handle(d, f) PROVE States'
  <2>1. CASE Matched(d, f) /\ f.kind = "create_resp" /\ f.ok
    BY <2>1, CreateRespStates
  <2>2. CASE Matched(d, f) /\ f.kind \in {"connect_resp", "listen_resp"}
    BY <2>2, AnswerStates
  <2>3. CASE /\ Matched(d, f) /\ ~(f.kind = "create_resp" /\ f.ok)
             /\ f.kind \notin {"connect_resp", "listen_resp"}
    BY <2>3, MatchedStates
  <2> QED
    BY <1>4, <2>1, <2>2, <2>3, UnmatchedStates, ClientArrivesStates DEF Handle
<1>5. CASE Module
  <2>1. ASSUME NEW d \in Dev, NEW id \in Ids, NEW ok \in BOOLEAN, AnswersAttach(d, id, ok)
        PROVE  States'
    BY <2>1, AnswersAttachStates
  <2>2. ASSUME NEW d \in Dev, NEW id \in Ids, Delivers(d, id) PROVE States'
    BY <2>2, DeliversStates
  <2>3. ASSUME NEW d \in Dev, NEW id \in Ids, AcceptsClient(d, id) PROVE States'
    BY <2>3, AcceptsClientStates
  <2>4. ASSUME NEW d \in Dev, NEW id \in Ids, Ends(d, id) PROVE States'
    BY <2>4, EndsStates
  <2>5. ASSUME NEW d \in Dev, NEW s \in sending[d], Reports(d, s) PROVE States'
    BY <2>5, ReportsStates
  <2> QED
    BY <1>5, <2>1, <2>2, <2>3, <2>4, <2>5 DEF Module
<1>6. CASE UNCHANGED vars
  BY <1>6, QuietStates DEF vars
<1> QED
  BY <1>1, <1>2, <1>3, <1>4, <1>5, <1>6 DEF Next

\* When no callback runs, what is not agreed is on its way.
LEMMA StatesAgree ==
    ASSUME TypeOK, Identity, States
    PROVE  HostAgrees
<1> SUFFICES ASSUME call = <<>>, NEW i \in Slots, InUse(i)
             PROVE  Agrees(i) \/ Ended(i)
  BY DEF HostAgrees
<1>1. \A then : ~Returning(i, then)
  BY DEF Returning
<1>2. PICK d \in Dev : d = sock[i].dev
  BY DEF Identity, Tables, SlotsOK
<1>3. CASE sock[i].type = "PENDING"
  <2>1. CreateOwedTo(d, i) /\ Pending(i)
    BY <1>1, <1>3 DEF Pending, Identity, Answers, CreateOwed
  <2>2. PICK f \in Queued(d) : f.kind = "create_resp" /\ f.uid = sock[i].uid
    BY <1>2, <2>1 DEF CreateOwedTo
  <2>3. OnTheWay(i, {"create_resp"})
    BY <1>2, <2>2 DEF OnTheWay, Queued
  <2> QED
    BY <1>3, <2>3 DEF Agrees
<1>4. CASE sock[i].type # "PENDING"
  <2>1. Named(i) /\ sock[i].socket_id \in Ids
    BY <1>1, <1>4 DEF Named, InUse, Identity, Tables, SlotsOK
  <2>2. PICK id \in Ids : id = sock[i].socket_id
    BY <2>1
  <2>3. Known(d, id, sock[i].uid)
    BY <1>2, <2>1, <2>2 DEF Identity, NamesOK, IdAgrees, IdAgreesFor
  <2>4. ASSUME NEW f \in Queued(d), EndOf(f, id, sock[i].uid) PROVE Ended(i)
    BY <1>2, <2>4 DEF Ended, EndOf, Queued
  <2>5. CASE radio[d][id].uid = sock[i].uid
    <3>1. StateIs(d, i, id)
      BY <1>2, <2>1, <2>5 DEF States, SlotStates, SlotState, NamedState
    <3>2. CASE NoAnswer(d, sock[i].uid)
      <4>1. Fits(sock[i].type, radio[d][id].state)
        BY <1>1, <3>1, <3>2 DEF StateIs, Unchanging, Changing
      <4> QED
        BY <1>2, <2>2, <2>5, <4>1 DEF Agrees, Fits
    <3>3. ASSUME NEW f \in Queued(d), IsAnswer(f, sock[i].uid) PROVE Agrees(i)
      <4>1. sock[i].type = "ATTACH"
        BY <3>1, <3>3 DEF StateIs
      <4>2. OnTheWay(i, {"connect_resp", "listen_resp"})
        BY <1>2, <3>3 DEF OnTheWay, Queued, IsAnswer
      <4> QED
        BY <4>1, <4>2 DEF Agrees
    <3> QED
      BY <3>2, <3>3 DEF NoAnswer
  <2> QED
    BY <2>3, <2>4, <2>5 DEF Known
<1> QED
  BY <1>3, <1>4

\* Host and module agree on every socket, or the frame that will make them agree is on
\* the way, for tables, modules and ids of any number, when the application waits for
\* the Create Response, frees no socket from a callback and the module gives no socket
\* the id 0: no slot waits for an answer that will not come, and none is used for a
\* connection, a bound port or a listener that the module has not.
THEOREM HostAgreesHolds ==
    ASSUME Patient, ~FreeInCallback, 0 \notin Ids
    PROVE  Spec => []HostAgrees
<1>1. Init => CallsInTurn /\ Identity /\ States
  BY InitIdentity, InitStates DEF Init, CallsInTurn
<1>2. TypeOK /\ CallsInTurn /\ Identity /\ States /\ [Next]_vars
        => CallsInTurn' /\ Identity' /\ States'
  BY LifeCycleStep, IdentityStep, StatesStep
<1>3. TypeOK /\ Identity /\ States => HostAgrees
  BY StatesAgree
<1> QED
  BY <1>1, <1>2, <1>3, TypeCorrect, PTL DEF Spec
=============================================================================
